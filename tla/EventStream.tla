----------------------------- MODULE EventStream -----------------------------
(***************************************************************************)
(* The single-owner event stream between a harness adapter and the         *)
(* Supervisor (internal/adapter/protocol/stream.go).  Producers only       *)
(* Publish; one owner goroutine moves the queued events to the public      *)
(* channel and is the only one to close it.                                *)
(*                                                                         *)
(* The owner's turn is one step: what it takes from the queue it sends     *)
(* before it looks again.  Its sleep is left out: the wake channel buffers *)
(* a token, so the owner that found the queue empty and then waits is      *)
(* woken by a Publish, CloseGracefully or Abort that came in between.      *)
(***************************************************************************)
EXTENDS Naturals, Sequences

CONSTANTS
    CriticalKinds,         \* kinds IsCriticalNativeEvent answers true for
    ProgressQueueLimit     \* bound on queued progress events (256 in the adapters)

ASSUME StreamBounds == ProgressQueueLimit \in Nat \ {0}

VARIABLES
    queue,             \* accepted events the owner has not sent yet
    progressInQueue,   \* how many of them are progress events
    accepting,         \* Publish still accepts
    gracefulClose,     \* CloseGracefully was called
    aborting,          \* Abort was called, and abortCh is closed
    ownerExited,       \* the owner is gone and the public channel closed
    out,               \* everything sent on the public channel
    accepted,          \* history: events in the order Publish accepted them
    refused            \* history: events Publish rejected though nobody aborted

streamVars == <<queue, progressInQueue, accepting, gracefulClose, aborting,
                ownerExited, out, accepted, refused>>

StreamInit ==
    /\ queue = <<>> /\ progressInQueue = 0
    /\ accepting = TRUE /\ gracefulClose = FALSE /\ aborting = FALSE
    /\ ownerExited = FALSE
    /\ out = <<>> /\ accepted = <<>> /\ refused = {}

IsCriticalNativeEvent(e) == e.kind \in CriticalKinds

-----------------------------------------------------------------------------
(* Producers.                                                              *)

Accept(e) ==
    /\ queue' = Append(queue, e)
    /\ accepted' = Append(accepted, e)
    /\ UNCHANGED refused

Reject(e) ==
    /\ refused' = IF aborting THEN refused ELSE refused \union {e}
    /\ UNCHANGED <<queue, progressInQueue, accepted>>

DropProgress == UNCHANGED <<queue, progressInQueue, accepted, refused>>

Publish(e) ==
    /\ \/ /\ ~accepting \/ aborting
          /\ Reject(e)
       \/ /\ accepting /\ ~aborting
          /\ IsCriticalNativeEvent(e)
          /\ Accept(e)
          /\ UNCHANGED progressInQueue
       \/ /\ accepting /\ ~aborting
          /\ ~IsCriticalNativeEvent(e) /\ progressInQueue < ProgressQueueLimit
          /\ progressInQueue' = progressInQueue + 1
          /\ Accept(e)
       \/ /\ accepting /\ ~aborting
          /\ ~IsCriticalNativeEvent(e) /\ progressInQueue >= ProgressQueueLimit
          /\ DropProgress
    /\ UNCHANGED <<accepting, gracefulClose, aborting, ownerExited, out>>

(* CloseGracefully up to its wait for the owner.                           *)
CloseGracefully ==
    /\ accepting' = FALSE /\ gracefulClose' = TRUE
    /\ UNCHANGED <<queue, progressInQueue, aborting, ownerExited, out,
                   accepted, refused>>

(* Abort up to its wait for the owner.                                     *)
Abort ==
    /\ accepting' = FALSE /\ aborting' = TRUE
    /\ UNCHANGED <<queue, progressInQueue, gracefulClose, ownerExited, out,
                   accepted, refused>>

-----------------------------------------------------------------------------
(* The owner goroutine.                                                    *)

Taken == IF IsCriticalNativeEvent(Head(queue)) THEN progressInQueue ELSE progressInQueue - 1

(* The owner takes the oldest event and sends it.  The send goes through   *)
(* when the channel has room or its consumer takes: in the model, at any   *)
(* time or never.  It may win its select against an Abort just called.     *)
Forward ==
    /\ ~ownerExited /\ queue # <<>>
    /\ out' = Append(out, Head(queue))
    /\ queue' = Tail(queue) /\ progressInQueue' = Taken
    /\ UNCHANGED <<accepting, gracefulClose, aborting, ownerExited, accepted, refused>>

(* The owner's ways out: an empty queue after CloseGracefully, or an Abort, *)
(* which discards what is queued.                                          *)
OwnerExit ==
    /\ ~ownerExited
    /\ aborting \/ (gracefulClose /\ queue = <<>>)
    /\ queue' = <<>> /\ progressInQueue' = 0
    /\ ownerExited' = TRUE
    /\ UNCHANGED <<accepting, gracefulClose, aborting, out, accepted, refused>>
=============================================================================
