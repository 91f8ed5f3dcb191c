-------------------------- MODULE MCConcurrentQueue --------------------------
(* Model checking of ConcurrentQueue on a small instance. *)
EXTENDS ConcurrentQueue

(* `please_stop` (concurrent_queue.hpp:35) and the error "stop requested"     *)
(* (concurrent_queue.hpp:51) say that a requested stop gets a blocked pop     *)
(* out, here one whose stop_callback was registered in time. The code does    *)
(* not keep this: request_stop does not take m_mutex, so the notify_all of    *)
(* the callback may come between the test of the queue and the wait, and pop  *)
(* does not look at its token before it waits.                                *)
PopReturnsOnStop ==
  stop = "flagged" /\ registered ~> popper \in {"idle", "stopped"}

=============================================================================
