----------------------------- MODULE GrokSession -----------------------------
(***************************************************************************)
(* A session of the Grok adapter (internal/adapter/grok/grok.go) over the  *)
(* harness process of internal/adapter/transport/process.go and the event  *)
(* stream of EventStream.                                                  *)
(*                                                                         *)
(* The goroutines: StartSession's caller, the line reader (readProcess),   *)
(* one sender and completion waiter per prompt generation (startPrompt and *)
(* waitPromptCompletion), TerminateSession, CollectFinalResult, the stream *)
(* owner, and the stream's consumer.  Every section under the session's    *)
(* mutex is one step.  The harness is external: it answers the requests it *)
(* was sent in any order with its notices, and may die at any time.        *)
(***************************************************************************)
EXTENDS EventStream, Integers, FiniteSets, SequencesExt

CONSTANTS
    StartCalls,     \* requests StartSession makes before the first prompt
    MaxGen,         \* bound on prompts: the first one and SendMessages
    MaxLines,       \* bound on the text chunks and notices it sends for a prompt
    MaxStops        \* bound on ends the Supervisor puts to it: context, TerminateSession

ASSUME SessionBounds ==
    StartCalls \in Nat \ {0} /\ MaxGen \in Nat \ {0} /\ MaxLines \in Nat
    /\ MaxStops \in Nat

Gens == 1..MaxGen

VARIABLES
    (* the harness process and its pipes *)
    alive, reaped, inputClosed, lines,
    work,           \* requests the harness was sent: "none", "open", "ok", "error"
    spoken,         \* chunks it has sent for each prompt
    notices,        \* notices it has sent during each
    (* session state under state.mu *)
    generation, promptInFlight, output, turn,
    pending, readerExited,
    (* channels and contexts *)
    response, shutdown, ctxDone,
    (* the goroutines *)
    start, call,    \* StartSession, and the request it is making
    prompt, pick,   \* sender and waiter of each generation, and its select
    reader,         \* readProcess
    term

processVars == <<alive, reaped, inputClosed, lines, work, spoken, notices>>
promptVars  == <<generation, promptInFlight, output, turn>>
waiterVars  == <<prompt, pick>>
readerVars  == <<reader, readerExited>>
startVars   == <<start, call>>
chanVars    == <<pending, response>>
stopVars    == <<shutdown, ctxDone>>
grokVars == <<streamVars, processVars, promptVars, waiterVars, readerVars, startVars,
              term, chanVars, stopVars>>

Ids == 0..MaxGen              \* 0 stands for StartSession's outstanding request
NoTurn == [completed |-> FALSE, success |-> FALSE, final |-> <<>>]

(* Native events.  A boundary event carries the generation it ends; that   *)
(* number, like a chunk's, is bookkeeping of the model.  A notice is what  *)
(* a request or another notification of the harness becomes: a permission  *)
(* request, or the turn.failed of session/cancelled, which ends no turn.   *)
Delta(g)       == [kind |-> "model.output_delta", gen |-> g]
Notice         == [kind |-> "notice", gen |-> 0]
Boundary(g, k) == [kind |-> IF k THEN "result.submitted" ELSE "turn.failed", gen |-> g]
IsBoundary(e)  == e.kind \in {"result.submitted", "turn.failed"}

(* Lines of the harness's standard output.                                 *)
ChunkLine(g)    == [type |-> "chunk", id |-> g, ok |-> TRUE]
ReplyLine(i, k) == [type |-> "reply", id |-> i, ok |-> k]
NoticeLine      == [type |-> "notice", id |-> 0, ok |-> TRUE]

GrokInit ==
    /\ StreamInit
    /\ alive = TRUE /\ reaped = FALSE /\ inputClosed = FALSE /\ lines = <<>>
    /\ work = [i \in Ids |-> "none"]
    /\ spoken = [g \in Gens |-> 0] /\ notices = [g \in Gens |-> 0]
    /\ generation = 0 /\ promptInFlight = FALSE
    /\ output = <<>>
    /\ turn = [g \in Gens |-> NoTurn]
    /\ pending = {} /\ readerExited = FALSE
    /\ response = [i \in Ids |-> "none"]
    /\ shutdown = FALSE /\ ctxDone = FALSE
    /\ start = "call" /\ call = 1
    /\ prompt = [g \in Gens |-> "none"] /\ pick = [g \in Gens |-> "none"]
    /\ reader = "read"
    /\ term = "idle"

-----------------------------------------------------------------------------
(* The harness (external) and the transport's process goroutines.          *)

(* How often the Supervisor has put an end to the session.                 *)
stops == (IF ctxDone THEN 1 ELSE 0) + (IF term = "idle" THEN 0 ELSE 1)

(* A harness that is being stopped sends no new text or notice; what it    *)
(* has sent before may still be on its way.                                *)
HarnessChunk(g) ==
    /\ alive /\ stops = 0 /\ work[g] = "open" /\ spoken[g] + notices[g] < MaxLines
    /\ lines' = Append(lines, ChunkLine(g))
    /\ spoken' = [spoken EXCEPT ![g] = @ + 1]
    /\ UNCHANGED <<alive, reaped, inputClosed, work, notices>>

HarnessReply(i, ok) ==
    /\ alive /\ work[i] = "open"
    /\ lines' = Append(lines, ReplyLine(i, ok))
    /\ work' = [work EXCEPT ![i] = IF ok THEN "ok" ELSE "error"]
    /\ UNCHANGED <<alive, reaped, inputClosed, spoken, notices>>

(* A request of the harness or a notification without text.                *)
HarnessNotice(g) ==
    /\ alive /\ stops = 0 /\ work[g] = "open" /\ spoken[g] + notices[g] < MaxLines
    /\ lines' = Append(lines, NoticeLine)
    /\ notices' = [notices EXCEPT ![g] = @ + 1]
    /\ UNCHANGED <<alive, reaped, inputClosed, work, spoken>>

HarnessExit ==
    /\ alive
    /\ alive' = FALSE
    /\ UNCHANGED <<reaped, inputClosed, lines, work, spoken, notices>>

(* The process's wait goroutine.  cmd.Wait closes the read end of the      *)
(* standard output pipe, so what readLines has not read by then is gone.   *)
wait ==
    /\ ~alive /\ ~reaped
    /\ reaped' = TRUE /\ inputClosed' = TRUE
    /\ \E n \in 0..Len(lines) : lines' = SubSeq(lines, 1, n)
    /\ UNCHANGED <<alive, work, spoken, notices>>

HarnessStep ==
    /\ \/ \E g \in Gens : HarnessChunk(g) \/ HarnessNotice(g)
       \/ \E i \in Ids, ok \in BOOLEAN : HarnessReply(i, ok)
       \/ HarnessExit
       \/ wait
    /\ UNCHANGED <<streamVars, promptVars, waiterVars, readerVars, startVars,
                   term, chanVars, stopVars>>

(* WriteJSON succeeds while the harness is there to read its input.        *)
Writable == alive /\ ~inputClosed

-----------------------------------------------------------------------------
(* StartSession: request after request, then the first prompt.  A failed   *)
(* start closes the harness's input and leaves the reader to the context.  *)

request ==
    /\ start = "call"
    /\ IF Writable
       THEN /\ pending' = pending \union {0}
            /\ work' = [work EXCEPT ![0] = "open"]
            /\ start' = "wait"
            /\ UNCHANGED inputClosed
       ELSE /\ start' = "failed" /\ inputClosed' = TRUE
            /\ UNCHANGED <<pending, work>>
    /\ UNCHANGED <<streamVars, alive, reaped, lines, spoken, notices,
                   promptVars, waiterVars, readerVars, call, term, response,
                   stopVars>>

(* A plausible slip: no shutdown case in the select.                       *)
requestIgnoresShutdown(ok) ==
    \/ response[0] # "none" /\ ok = (response[0] = "ok") /\ UNCHANGED pending
    \/ ctxDone /\ ok = FALSE /\ pending' = pending \ {0}

(* The outcome of request's select: the response, the context or shutdown. *)
requestReturns(ok) ==
    \/ response[0] # "none" /\ ok = (response[0] = "ok") /\ UNCHANGED pending
    \/ (ctxDone \/ shutdown) /\ ok = FALSE /\ pending' = pending \ {0}

startStep ==
    /\ start = "wait"
    /\ \E ok \in BOOLEAN :
          /\ requestReturns(ok)
          /\ start' = CASE ~ok -> "failed"
                        [] ok /\ call < StartCalls -> "call"
                        [] OTHER -> "prompt"
          /\ call' = IF ok /\ call < StartCalls THEN call + 1 ELSE call
          /\ inputClosed' = (inputClosed \/ ~ok)
    /\ response' = [response EXCEPT ![0] = "none"]
    /\ UNCHANGED <<streamVars, alive, reaped, lines, work, spoken, notices,
                   promptVars, waiterVars, readerVars, term, stopVars>>

-----------------------------------------------------------------------------
(* startPrompt and waitPromptCompletion.                                   *)

(* A plausible slip: the text of the turn before is kept.                  *)
newGenerationKeepsOutput(g) ==
    /\ ~readerExited /\ ~promptInFlight
    /\ g = generation + 1
    /\ generation' = g /\ promptInFlight' = TRUE
    /\ pending' = pending \union {g}
    /\ prompt' = [prompt EXCEPT ![g] = "write"]
    /\ UNCHANGED <<turn, output>>

(* A new generation, under the lock; the producer is registered with it.   *)
newGeneration(g) ==
    /\ ~readerExited /\ ~promptInFlight
    /\ g = generation + 1
    /\ generation' = g /\ promptInFlight' = TRUE
    /\ output' = <<>>
    /\ pending' = pending \union {g}
    /\ prompt' = [prompt EXCEPT ![g] = "write"]
    /\ UNCHANGED turn

firstPrompt ==
    /\ start = "prompt"
    /\ \/ newGeneration(1) /\ start' = "sending" /\ UNCHANGED inputClosed
       \/ /\ readerExited
          /\ start' = "failed" /\ inputClosed' = TRUE
          /\ UNCHANGED <<promptVars, pending, prompt>>
    /\ UNCHANGED <<streamVars, alive, reaped, lines, work, spoken, notices,
                   pick, readerVars, call, term, response, stopVars>>

SendMessage(g) ==
    /\ start = "running"
    /\ newGeneration(g)
    /\ UNCHANGED <<streamVars, processVars, pick, readerVars, startVars, term,
                   response, stopVars>>

(* The effect of clearPromptInFlight.                                      *)
clearPromptInFlight(g) ==
    /\ promptInFlight' = (promptInFlight /\ generation # g)
    /\ pending' = pending \ {g}
    /\ UNCHANGED <<generation, output, turn>>

writePrompt(g) ==
    /\ prompt[g] = "write"
    /\ \/ /\ Writable
          /\ work' = [work EXCEPT ![g] = "open"]
          /\ prompt' = [prompt EXCEPT ![g] = "wait"]
          /\ start' = IF g = 1 THEN "running" ELSE start
          /\ UNCHANGED <<promptVars, pending, inputClosed>>
       \/ /\ ~Writable
          /\ clearPromptInFlight(g)
          /\ prompt' = [prompt EXCEPT ![g] = "failed"]
          /\ start' = IF g = 1 THEN "failed" ELSE start
          /\ inputClosed' = (inputClosed \/ g = 1)
          /\ UNCHANGED work
    /\ UNCHANGED <<streamVars, alive, reaped, lines, spoken, notices, pick,
                   readerVars, call, term, response, stopVars>>

Step(g, from, to) == prompt[g] = from /\ prompt' = [prompt EXCEPT ![g] = to]

(* The select and the clearing of the in-flight mark, which opens the way  *)
(* to the next SendMessage before this generation has stored its outcome.  *)
selectCompletion(g) ==
    /\ Step(g, "wait", "finalize")
    /\ \E p \in {"ok", "error", "stop"} :
          /\ \/ p = response[g]
             \/ p = "stop" /\ (ctxDone \/ shutdown)
          /\ pick' = [pick EXCEPT ![g] = p]
    /\ response' = [response EXCEPT ![g] = "none"]
    /\ clearPromptInFlight(g)
    /\ UNCHANGED <<streamVars, processVars, readerVars, startVars, term, stopVars>>

(* What the current turn is frozen to.                                     *)
Frozen(g) ==
    [completed |-> TRUE, success |-> pick[g] = "ok",
     final |-> IF pick[g] = "ok" THEN output ELSE <<>>]

(* A plausible slip: whatever turn is current takes the result.            *)
finalizeCurrent(g) ==
    /\ \/ /\ Step(g, "finalize", "done")
          /\ turn[generation].completed
          /\ pick' = [pick EXCEPT ![g] = "none"]
          /\ UNCHANGED turn
       \/ /\ Step(g, "finalize", "record")
          /\ ~turn[generation].completed
          /\ turn' = [turn EXCEPT ![generation] = Frozen(g)]
          /\ UNCHANGED pick
    /\ UNCHANGED <<streamVars, processVars, generation, promptInFlight, output,
                   readerVars, startVars, term, chanVars, stopVars>>

(* The rest of waitPromptCompletion, and finalizeGeneration: the matching  *)
(* generation only has its outcome stored and frozen and ready closed, all *)
(* before the boundary event.  A SendMessage between the two lock sections *)
(* supersedes the generation as one before them does.                      *)
finalizeGeneration(g) ==
    /\ \/ /\ generation # g \/ turn[g].completed
          /\ Step(g, "finalize", "done")
          /\ pick' = [pick EXCEPT ![g] = "none"]
          /\ UNCHANGED turn
       \/ /\ generation = g /\ ~turn[g].completed
          /\ Step(g, "finalize", "record")
          /\ turn' = [turn EXCEPT ![g] = Frozen(g)]
          /\ UNCHANGED pick
    /\ UNCHANGED <<streamVars, processVars, generation, promptInFlight, output,
                   readerVars, startVars, term, chanVars, stopVars>>

(* recordEvent; the history it appends to first is read by nobody here.    *)
publishBoundary(g) ==
    /\ Step(g, "record", "done")
    /\ Publish(Boundary(g, pick[g] = "ok"))
    /\ pick' = [pick EXCEPT ![g] = "none"]
    /\ UNCHANGED <<processVars, promptVars, readerVars, startVars, term,
                   chanVars, stopVars>>

Waiter(g) ==
    \/ writePrompt(g) \/ selectCompletion(g)
    \/ finalizeGeneration(g) \/ publishBoundary(g)

(* The producers registered with the WaitGroup.                            *)
producers == {g \in Gens : prompt[g] \notin {"none", "done", "failed"}}

-----------------------------------------------------------------------------
(* readProcess.                                                            *)

(* A line is handled and its event recorded in one step: the waiters       *)
(* publish nothing that an event of the reader could depend on.            *)
handleLine ==
    /\ reader = "read" /\ lines # <<>>
    /\ lines' = Tail(lines)
    /\ LET l == Head(lines) IN
       \/ /\ l.type = "reply"
          /\ response' = IF l.id \notin pending THEN response
                         ELSE [response EXCEPT ![l.id] = IF l.ok THEN "ok" ELSE "error"]
          /\ pending' = pending \ {l.id}
          /\ UNCHANGED <<output, streamVars>>
       \/ /\ l.type = "chunk"
          /\ output' = Append(output, l.id)
          /\ Publish(Delta(l.id))
          /\ UNCHANGED chanVars
       \/ /\ l.type = "notice"
          /\ Publish(Notice)
          /\ UNCHANGED <<output, chanVars>>
    /\ UNCHANGED <<alive, reaped, inputClosed, work, spoken, notices, generation,
                   promptInFlight, turn, waiterVars, readerVars, startVars, term,
                   stopVars>>

(* End of the output: the deferred calls, last registered first.           *)
readEOF ==
    /\ reader = "read" /\ lines = <<>> /\ ~alive
    /\ shutdown' = TRUE /\ reader' = "signal"
    /\ UNCHANGED <<streamVars, processVars, promptVars, waiterVars, readerExited, startVars, term, chanVars, ctxDone>>

(* Fails the current turn if it is open; no event.                         *)
signalResult ==
    /\ reader = "signal" /\ reader' = "exit"
    /\ turn' = IF generation = 0 \/ turn[generation].completed THEN turn
               ELSE [turn EXCEPT ![generation] = [NoTurn EXCEPT !.completed = TRUE]]
    /\ UNCHANGED <<streamVars, processVars, generation, promptInFlight, output,
                   waiterVars, readerExited, startVars,
                   term, chanVars, stopVars>>

readerExits ==
    /\ reader = "exit" /\ reader' = "drain"
    /\ readerExited' = TRUE
    /\ UNCHANGED <<streamVars, processVars, promptVars, waiterVars, startVars, term, chanVars, stopVars>>

(* A plausible slip: the stream closed without waiting for the producers.  *)
closeAtOnce ==
    /\ reader = "drain" /\ reader' = "done"
    /\ CloseGracefully
    /\ UNCHANGED <<processVars, promptVars, waiterVars, readerExited,
                   startVars, term, chanVars, stopVars>>

closeStream ==
    /\ reader = "drain" /\ producers = {} /\ reader' = "done"
    /\ CloseGracefully
    /\ UNCHANGED <<processVars, promptVars, waiterVars, readerExited,
                   startVars, term, chanVars, stopVars>>

readProcess ==
    handleLine \/ readEOF \/ signalResult \/ readerExits \/ closeStream

-----------------------------------------------------------------------------
(* The Supervisor's side.                                                  *)

(* TerminateSession: the shutdown channel, the goroutine that aborts the   *)
(* stream, the signals to the process, which may die of them or not, and   *)
(* its input.  All but the goroutine and the death are one step.           *)
TerminateSession ==
    /\ start = "running" /\ term = "idle" /\ stops < MaxStops
    /\ term' = "done"
    /\ shutdown' = TRUE /\ inputClosed' = TRUE
    /\ UNCHANGED <<streamVars, alive, reaped, lines, work, spoken, notices,
                   promptVars, waiterVars, readerVars, startVars, chanVars, ctxDone>>

abortStream ==
    /\ term # "idle" /\ ~aborting
    /\ Abort
    /\ UNCHANGED <<processVars, promptVars, waiterVars, readerVars, startVars,
                   term, chanVars, stopVars>>

(* The context of the session and its sends ends.                          *)
CtxCancel ==
    /\ ~ctxDone /\ stops < MaxStops
    /\ ctxDone' = TRUE
    /\ UNCHANGED <<streamVars, processVars, promptVars, waiterVars, readerVars,
                   startVars, term, chanVars, shutdown>>

(* The owner's send, while nobody reads, fits the channel's buffer or not. *)
forward ==
    /\ Forward
    /\ UNCHANGED <<processVars, promptVars, waiterVars, readerVars, startVars,
                   term, chanVars, stopVars>>

ownerExit ==
    /\ OwnerExit
    /\ UNCHANGED <<processVars, promptVars, waiterVars, readerVars, startVars,
                   term, chanVars, stopVars>>

Broker ==
    \/ request \/ startStep \/ firstPrompt
    \/ \E g \in Gens : Waiter(g)
    \/ readProcess \/ abortStream \/ ownerExit

GrokNext ==
    \/ HarnessStep \/ Broker
    \/ \E g \in Gens : SendMessage(g)
    \/ TerminateSession \/ CtxCancel \/ forward

(* The Broker's goroutines run on until none can move.  The consumer reads *)
(* from the session's start until the Supervisor terminates it.  Nothing   *)
(* is assumed of the harness, but that a dead process is reaped.           *)
GrokFairness ==
    /\ WF_grokVars(Broker)
    /\ WF_grokVars(forward /\ start = "running" /\ term = "idle")
    /\ WF_grokVars(HarnessStep /\ wait)

GrokSpec == GrokInit /\ [][GrokNext]_grokVars /\ GrokFairness

(* What a CollectFinalResult that captured turn g finds when it looks.     *)
CollectFinalResult(g) ==
    CASE ~turn[g].completed       -> "waits"
      [] generation # g           -> "superseded"
      [] ~turn[g].success         -> "failed"
      [] turn[g].final = <<>>     -> "empty"
      [] OTHER                    -> "envelope"

-----------------------------------------------------------------------------
(* Types, the stream's own count of its queued progress events, and the    *)
(* pending map, which names only prompts that wait for their response.     *)
GrokTypeOK ==
    /\ generation \in 0..MaxGen /\ promptInFlight \in BOOLEAN
    /\ start \in {"call", "wait", "prompt", "sending", "running", "failed"}
    /\ prompt \in [Gens -> {"none", "write", "wait", "finalize", "record", "done", "failed"}]
    /\ reader \in {"read", "signal", "exit", "drain", "done"}
    /\ progressInQueue = Cardinality({i \in DOMAIN queue : ~IsCriticalNativeEvent(queue[i])})
    /\ progressInQueue <= ProgressQueueLimit
    /\ pending \subseteq Ids
    /\ \A g \in Gens : g \in pending => prompt[g] \in {"write", "wait"}
    /\ readerExited => shutdown /\ lines = <<>>

(* Accepted events reach the consumer in the order of their publication,   *)
(* across the critical and the progress class, and unless the stream is    *)
(* aborted none of them is lost on the way.  The stream refuses one only   *)
(* once it is being aborted: the reader closes it after the last waiter    *)
(* has published its boundary event, also when a SendMessage races the     *)
(* end of the process.                                                     *)
AcceptedInOrder ==
    /\ GrokTypeOK
    /\ IsPrefix(out, accepted)
    /\ ~aborting => accepted = out \o queue
    /\ refused = {}

(* The boundary event of a prompt's waiter follows its turn's readiness    *)
(* and says what the turn holds, and no turn has two of them.              *)
BoundaryIsReady ==
    /\ \A i \in DOMAIN accepted : IsBoundary(accepted[i]) =>
          LET t == turn[accepted[i].gen] IN
          t.completed /\ accepted[i] = Boundary(accepted[i].gen, t.success)
    /\ \A i, j \in DOMAIN accepted :
          IsBoundary(accepted[i]) /\ accepted[i].gen = accepted[j].gen
             /\ IsBoundary(accepted[j]) => i = j

(* A result that is collected is what the harness said to its own prompt:  *)
(* it answered it with success, and, unless the context ended or the       *)
(* session was terminated under it, the text is that turn's chunks, all    *)
(* of them and nothing else.                                               *)
ResultIsOwn ==
    \A g \in Gens : CollectFinalResult(g) = "envelope" =>
       /\ work[g] = "ok"
       /\ ~ctxDone /\ term = "idle" => turn[g].final = [i \in 1..spoken[g] |-> g]

(* When the harness process is gone StartSession returns, every prompt's   *)
(* waiter ends, and the consumer of a started session sees the stream      *)
(* closed, with or without TerminateSession, even if it reads no more.     *)
EndIsSeen ==
    ~alive ~> /\ start \in {"running", "failed"}
              /\ producers = {}
              /\ start = "running" => ownerExited
=============================================================================
