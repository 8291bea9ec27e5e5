--------------------------- MODULE MessageOutcome ---------------------------
(***************************************************************************)
(* What the message component promises about one message, whatever happens *)
(* to the Supervisor's processes: it is published once; a decision may be  *)
(* frozen once, while open; it is closed once, either answered with the    *)
(* frozen resolution or without an answer; nothing follows the close.      *)
(* The promise rests on the storage: it ends with the first append that    *)
(* reports a failure although its line is in the file.                     *)
(***************************************************************************)
CONSTANTS MessageIDs, Resolutions, NoResolution

VARIABLES
    stage,      \* how far each message has come
    intent,     \* the resolution frozen for it
    broken      \* the storage has misreported an append

Stages == {"unpublished", "open", "answered", "closed"}

Init ==
    /\ stage = [m \in MessageIDs |-> "unpublished"]
    /\ intent = [m \in MessageIDs |-> NoResolution]
    /\ ~broken

Publish(m) ==
    /\ stage[m] = "unpublished"
    /\ stage' = [stage EXCEPT ![m] = "open"]
    /\ UNCHANGED <<intent, broken>>

Freeze(m, r) ==
    /\ stage[m] = "open" /\ intent[m] = NoResolution
    /\ intent' = [intent EXCEPT ![m] = r]
    /\ UNCHANGED <<stage, broken>>

Answer(m) ==
    /\ stage[m] = "open" /\ intent[m] # NoResolution
    /\ stage' = [stage EXCEPT ![m] = "answered"]
    /\ UNCHANGED <<intent, broken>>

Close(m) ==
    /\ stage[m] = "open"
    /\ stage' = [stage EXCEPT ![m] = "closed"]
    /\ UNCHANGED <<intent, broken>>

\* From here on nothing is promised.
Break == broken'

Next ==
    \/ \E m \in MessageIDs :
          \/ Publish(m)
          \/ \E r \in Resolutions : Freeze(m, r)
          \/ Answer(m)
          \/ Close(m)
    \/ Break

Spec == Init /\ [][Next]_<<stage, intent, broken>>
=============================================================================
