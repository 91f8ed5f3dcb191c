----------------------------- MODULE EventQueue -----------------------------
(* What a server of this program relies on when it uses concurrent_queue: a *)
(* FIFO of events filled by any thread and emptied by one responder thread,  *)
(* where a call of pop either returns the oldest event or reports that a     *)
(* stop was requested, and where an event that was pushed is never stranded. *)
EXTENDS Sequences

CONSTANT Items

VARIABLES
  events,    \* the events pushed and not yet returned, oldest first
  caller,    \* the responder: "idle", "calling" pop, or "stopped" by it
  stopping   \* a stop was requested

vars == <<events, caller, stopping>>

Init ==
  /\ events = <<>>
  /\ caller = "idle"
  /\ stopping = FALSE

(* A producer adds an event. *)
Put ==
  /\ \E e \in Items : events' = Append(events, e)
  /\ UNCHANGED <<caller, stopping>>

Call ==
  /\ caller = "idle"
  /\ caller' = "calling"
  /\ UNCHANGED <<events, stopping>>

(* pop returns the oldest event. *)
Take ==
  /\ caller = "calling"
  /\ events # <<>>
  /\ events' = Tail(events)
  /\ caller' = "idle"
  /\ UNCHANGED stopping

(* pop throws error_stop_requested, which ends the responder; it may do so    *)
(* whatever the queue holds, but never before a stop was requested.           *)
Throw ==
  /\ caller = "calling"
  /\ stopping
  /\ caller' = "stopped"
  /\ UNCHANGED <<events, stopping>>

Stop ==
  /\ ~stopping
  /\ stopping' = TRUE
  /\ UNCHANGED <<events, caller>>

Next == Put \/ Call \/ Take \/ Throw \/ Stop

(* A caller that finds the queue non-empty comes back. Nothing is promised to *)
(* a caller of an empty queue, not even when a stop was requested: see        *)
(* PopReturnsOnStop in MCConcurrentQueue.                                     *)
Answered == events # <<>> /\ (Take \/ Throw)

Spec == Init /\ [][Next]_vars

FairSpec == Spec /\ WF_vars(Answered)
=============================================================================
