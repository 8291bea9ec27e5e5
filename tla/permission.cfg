SPECIFICATION Spec
CONSTANTS
    Requests = {"r1", "r2"}
    Unoffered <- MCUnoffered
    Resolvers = {c1, c2}
    Driver = driver
    MaxAttempts = 2
    MaxCrashes = 1
    MaxCalls = 2
    MaxMessages = 2
CHECK_DEADLOCK FALSE
INVARIANTS OutcomeIsTrue OnlyToTheAsker
PROPERTY RequestsAreSeen
