--------------------------- MODULE ConcurrentQueue ---------------------------
(* concurrent_queue<T> (common/concurrent_queue.hpp) as the two servers use   *)
(* it: any thread pushes, one responder thread pops with its stop token, and  *)
(* another thread requests the stop.                                          *)
(*                                                                            *)
(* A section guarded by m_mutex that does not block is one step; the popping  *)
(* thread, which holds the mutex across several steps, owns it at "locked".   *)
(* m_covar is the set of threads waiting on it: at most the responder, so     *)
(* notify_one and notify_all both move it from "waiting" to "woken".          *)
EXTENDS Naturals, Sequences

CONSTANTS
  Items,      \* the events
  Producers,  \* the threads that push
  MaxLength   \* bound on the number of queued events, for model checking

ASSUME MaxLengthAssumption == MaxLength \in Nat

VARIABLES
  m_queue,
  popper,     \* where the responder is: see Places
  registered, \* its stop_callback is in the list request_stop will run
  stop,       \* the stop source: "no", "flagged", "notified" (callbacks have run)
  notifying   \* producers past mlock.unlock() and before m_covar.notify_one()

queueVars == <<m_queue, popper, registered, stop, notifying>>

(* "idle" is outside pop; "entered" has constructed its stop_callback;        *)
(* "locked" owns m_mutex, at the test of `while (m_queue.empty())`; "waiting" *)
(* is blocked in m_covar.wait and "woken" has to take the mutex back;         *)
(* "stopped" has thrown error_stop_requested out of pop.                      *)
Places == {"idle", "entered", "locked", "waiting", "woken", "stopped"}

(* The types; and the stop_callback lives no longer than the call of pop.     *)
TypeOK ==
  /\ m_queue \in Seq(Items)
  /\ popper \in Places
  /\ registered \in BOOLEAN
  /\ registered => popper \notin {"idle", "stopped"}
  /\ stop \in {"no", "flagged", "notified"}
  /\ notifying \subseteq Producers

Init ==
  /\ m_queue = <<>>
  /\ popper = "idle"
  /\ registered = FALSE
  /\ stop = "no"
  /\ notifying = {}

Notified == IF popper = "waiting" THEN "woken" ELSE popper

-----------------------------------------------------------------------------
(* The producers *)

(* push and emplace up to and including mlock.unlock(). *)
Push(p, e) ==
  /\ p \notin notifying
  /\ popper # "locked"
  /\ m_queue' = Append(m_queue, e)
  /\ notifying' = notifying \cup {p}
  /\ UNCHANGED <<popper, registered, stop>>

(* m_covar.notify_one(), called without the mutex. *)
NotifyOne(p) ==
  /\ p \in notifying
  /\ notifying' = notifying \ {p}
  /\ popper' = Notified
  /\ UNCHANGED <<m_queue, registered, stop>>

-----------------------------------------------------------------------------
(* The responder *)

(* pop constructs please_stop. When the stop was requested before, the        *)
(* constructor runs the callback itself, which wakes nobody, and registers    *)
(* nothing.                                                                   *)
EnterPop ==
  /\ popper = "idle"
  /\ popper' = "entered"
  /\ registered' = (stop = "no")
  /\ UNCHANGED <<m_queue, stop, notifying>>

(* std::unique_lock mlock(m_mutex) *)
Lock ==
  /\ popper = "entered"
  /\ popper' = "locked"
  /\ UNCHANGED <<m_queue, registered, stop, notifying>>

(* Mutant of Wait: a wait before the first test of the queue. *)
WaitFirst ==
  /\ popper = "locked"
  /\ popper' = "waiting"
  /\ UNCHANGED <<m_queue, registered, stop, notifying>>

(* The queue is empty: wait, without a look at the stop token. *)
Wait ==
  /\ popper = "locked"
  /\ m_queue = <<>>
  /\ popper' = "waiting"
  /\ UNCHANGED <<m_queue, registered, stop, notifying>>

(* wait returns with the mutex and the token decides: back to the loop test,  *)
(* or out by the exception, even if there is an event to return.              *)
WakeUp ==
  /\ popper = "woken"
  /\ stop = "no"
  /\ popper' = "locked"
  /\ UNCHANGED <<m_queue, registered, stop, notifying>>

(* Mutant of PopStopped: the callback stays registered. *)
PopStoppedLeaks ==
  /\ popper = "woken"
  /\ stop # "no"
  /\ popper' = "stopped"
  /\ UNCHANGED <<m_queue, registered, stop, notifying>>

PopStopped ==
  /\ popper = "woken"
  /\ stop # "no"
  /\ popper' = "stopped"
  /\ registered' = FALSE
  /\ UNCHANGED <<m_queue, stop, notifying>>

(* Mutant of Pop: front() without pop(). *)
PopKeeps(e) ==
  /\ popper = "locked"
  /\ m_queue # <<>>
  /\ e = Head(m_queue)
  /\ popper' = "idle"
  /\ registered' = FALSE
  /\ UNCHANGED <<m_queue, stop, notifying>>

(* The event is moved out and returned; please_stop is destroyed.             *)
Pop(e) ==
  /\ popper = "locked"
  /\ m_queue # <<>>
  /\ e = Head(m_queue)
  /\ m_queue' = Tail(m_queue)
  /\ popper' = "idle"
  /\ registered' = FALSE
  /\ UNCHANGED <<stop, notifying>>

(* A condition variable may wake a thread for no reason. *)
SpuriousWakeup ==
  /\ popper = "waiting"
  /\ popper' = "woken"
  /\ UNCHANGED <<m_queue, registered, stop, notifying>>

-----------------------------------------------------------------------------
(* The thread that stops the responder: request_stop raises the flag, then    *)
(* runs the registered callback, which calls notify_all without the mutex.    *)

RequestStop ==
  /\ stop = "no"
  /\ stop' = "flagged"
  /\ UNCHANGED <<m_queue, popper, registered, notifying>>

(* Mutant of RunCallback: please_stop without its notify_all. *)
RunCallbackSilently ==
  /\ stop = "flagged"
  /\ stop' = "notified"
  /\ UNCHANGED <<m_queue, popper, registered, notifying>>

RunCallback ==
  /\ stop = "flagged"
  /\ stop' = "notified"
  /\ popper' = IF registered THEN Notified ELSE popper
  /\ UNCHANGED <<m_queue, registered, notifying>>

-----------------------------------------------------------------------------
(* One producer; MaxLength bounds the queue, which the code does not. *)
Produce(p) ==
  \/ \E e \in Items : Len(m_queue) < MaxLength /\ Push(p, e)
  \/ NotifyOne(p)

(* The responder inside pop; EnterPop is its own decision. *)
PopStep ==
  \/ Lock \/ Wait \/ WakeUp \/ PopStopped
  \/ \E e \in Items : Pop(e)

Next ==
  \/ \E p \in Producers : Produce(p)
  \/ EnterPop
  \/ PopStep
  \/ SpuriousWakeup
  \/ RequestStop
  \/ RunCallback

Spec == Init /\ [][Next]_queueVars

(* Every thread that is inside a call goes on with it. Nobody has to push, to *)
(* call pop or to request the stop, and nothing wakes a thread spuriously on  *)
(* purpose.                                                                   *)
Fairness ==
  /\ \A p \in Producers : WF_queueVars(NotifyOne(p))
  /\ WF_queueVars(PopStep)
  /\ WF_queueVars(RunCallback)

FairSpec == Spec /\ Fairness

-----------------------------------------------------------------------------
(* Properties *)

(* No lost wakeup: whenever the responder sleeps while an event is queued,    *)
(* some producer still owes it a notify_one. The producers notify after they  *)
(* have released the mutex; this is what makes that safe.                     *)
NoLostWakeup ==
  popper = "waiting" /\ m_queue # <<>> => notifying # {}

(* A stop requested while the responder sleeps ends it: request_stop runs the *)
(* callback, or a producer wakes it first, and pop throws either way.         *)
StopEndsSleeper ==
  popper = "waiting" /\ registered /\ stop = "flagged" ~> popper = "stopped"

(* What pop promises its callers: the abstract queue, in which no call is lost *)
(* or duplicated, order is kept, only a requested stop throws, and no event is *)
(* stranded in the queue while the responder sleeps.                           *)
AbstractQueue == INSTANCE EventQueue WITH
  events <- m_queue,
  caller <- IF popper \in {"idle", "stopped"} THEN popper ELSE "calling",
  stopping <- stop # "no"

ImplementsEventQueue == AbstractQueue!FairSpec

=============================================================================
