------------------------------ MODULE TftpServer ------------------------------
(* tftp_server_v4 (bootpd/tftp_server_v4.cpp): the receiver thread, the        *)
(* responder thread, the sessions with a thread each, the event queue between  *)
(* them, and the main thread that constructs the server and destroys it. What  *)
(* a session sends and receives is in TftpSession; here it runs, stores        *)
(* m_done, and notifies.                                                       *)
(*                                                                             *)
(* A session is named by its address, which the next one may reuse.            *)
EXTENDS Naturals, Sequences, FiniteSets

CONSTANTS
  Sessions,   \* the addresses of sessions: bounds how many there are at once
  Receiver,   \* the receiver thread
  None,
  Requests,   \* the kinds of datagram that arrive: see KindAssumption
  SendsFail,  \* whether the send, or the socket, of a write session may fail
  MaxLength   \* bound on the queue when a datagram arrives

ASSUME KindAssumption ==
  Requests \subseteq {"rrq", "rrq_forever", "wrq", "other", "malformed"}

ASSUME ServerAssumption ==
  /\ Receiver \notin Sessions
  /\ None \notin Sessions
  /\ SendsFail \in BOOLEAN
  /\ MaxLength \in Nat

VARIABLES
  m_queue, popper, registered, stop, notifying,  \* m_events, with the responder's stop
  main,          \* the main thread: see MainPlaces
  incoming,      \* thread_incoming: "test", "recv", "notify", "exited"
  incoming_stop,
  outgoing,      \* thread_outgoing: see OutgoingPlaces
  event,         \* event_v, while the responder handles it
  io,            \* the thread of each session: see IoPlaces
  m_session_list,
  doomed         \* the session being destroyed, by the responder or by main

Packet(kind) == [kind |-> kind, who |-> None]
Notification(s) == [kind |-> "notify", who |-> s]

Events == {Packet(kind) : kind \in Requests} \cup {Notification(s) : s \in Sessions}

Queue == INSTANCE ConcurrentQueue WITH
  Items <- Events, Producers <- {Receiver} \cup Sessions

queue == <<m_queue, popper, registered, stop, notifying>>
receiver == <<incoming, incoming_stop>>
responder == <<outgoing, event>>
sessions == <<io, m_session_list, doomed>>
serverVars == <<queue, main, receiver, responder, sessions>>

(* The destructor: stop and join the receiver, stop and join the responder,    *)
(* then the members: every session, the queue. "aborted" is std::terminate.    *)
MainPlaces == {"running", "join_incoming", "stop_outgoing", "callback",
               "join_outgoing", "sessions", "exited", "aborted"}

(* "call" is between the loop test and pop, "emplace" between make_unique and  *)
(* m_session_list.emplace, "erase" the destructor of a session.                *)
OutgoingPlaces == {"test", "call", "pop", "handle", "emplace", "erase", "exited"}

(* "rrq" and "wrq" answer a client; "rrq_forever" is a read session that waits *)
(* for its client without a timeout; "done" has stored m_done, "notify" has    *)
(* pushed its notification.                                                    *)
IoPlaces == {"none", "rrq", "rrq_forever", "wrq", "done", "notify", "exited"}

is_done(s) == io[s] \in {"done", "notify", "exited"}

ServerInit ==
  /\ Queue!Init
  /\ main = "running"
  /\ incoming = "test"
  /\ incoming_stop = FALSE
  /\ outgoing = "test"
  /\ event = None
  /\ io = [s \in Sessions |-> "none"]
  /\ m_session_list = {}
  /\ doomed = None

Alive == main # "aborted"

-----------------------------------------------------------------------------
(* thread_incoming *)

(* Mutant of IncomingTest: `while (true)`. *)
IncomingTestNothing ==
  /\ incoming = "test"
  /\ incoming' = "recv"
  /\ UNCHANGED <<queue, main, incoming_stop, responder, sessions>>

IncomingTest ==
  /\ incoming = "test"
  /\ incoming' = IF incoming_stop THEN "exited" ELSE "recv"
  /\ UNCHANGED <<queue, main, incoming_stop, responder, sessions>>

(* recv times out after 500ms, or throws. *)
IncomingNothing ==
  /\ incoming = "recv"
  /\ incoming' = "test"
  /\ UNCHANGED <<queue, main, incoming_stop, responder, sessions>>

IncomingPacket(kind) ==
  /\ incoming = "recv"
  /\ Len(m_queue) < MaxLength
  /\ Queue!Push(Receiver, Packet(kind))
  /\ incoming' = "notify"
  /\ UNCHANGED <<main, incoming_stop, responder, sessions>>

IncomingNotify ==
  /\ incoming = "notify"
  /\ Queue!NotifyOne(Receiver)
  /\ incoming' = "test"
  /\ UNCHANGED <<main, incoming_stop, responder, sessions>>

-----------------------------------------------------------------------------
(* thread_outgoing *)

OutgoingTest ==
  /\ outgoing = "test"
  /\ outgoing' = IF stop # "no" THEN "exited" ELSE "call"
  /\ UNCHANGED <<queue, main, receiver, event, sessions>>

OutgoingCalls ==
  /\ outgoing = "call"
  /\ Queue!EnterPop
  /\ outgoing' = "pop"
  /\ UNCHANGED <<main, receiver, event, sessions>>

(* Inside m_events.pop(st). *)
OutgoingInPop ==
  /\ outgoing = "pop"
  /\ \/ Queue!Lock /\ UNCHANGED <<responder>>
     \/ Queue!Wait /\ UNCHANGED <<responder>>
     \/ Queue!WakeUp /\ UNCHANGED <<responder>>
     \/ Queue!PopStopped /\ outgoing' = "exited" /\ UNCHANGED event
     \/ \E e \in Events : Queue!Pop(e) /\ event' = e /\ outgoing' = "handle"
  /\ UNCHANGED <<main, receiver, sessions>>

(* A request: make_unique constructs the session, which starts its thread. It  *)
(* may throw, as every other handler may: the error is logged.                 *)
StartSession(s) ==
  /\ outgoing = "handle"
  /\ event.kind \in {"rrq", "rrq_forever", "wrq"}
  /\ io[s] = "none"
  /\ io' = [io EXCEPT ![s] = event.kind]
  /\ event' = Notification(s)
  /\ outgoing' = "emplace"
  /\ UNCHANGED <<queue, main, receiver, m_session_list, doomed>>

(* Mutant of EmplaceSession: the session is not put in the list. *)
EmplaceNothing ==
  /\ outgoing = "emplace"
  /\ outgoing' = "test"
  /\ event' = None
  /\ UNCHANGED <<queue, main, receiver, io, m_session_list, doomed>>

EmplaceSession ==
  /\ outgoing = "emplace"
  /\ m_session_list' = m_session_list \cup {event.who}
  /\ outgoing' = "test"
  /\ event' = None
  /\ UNCHANGED <<queue, main, receiver, io, doomed>>

(* A datagram that is no request, or cannot be parsed, or a session that       *)
(* cannot be made.                                                             *)
RefusePacket ==
  /\ outgoing = "handle"
  /\ event.kind # "notify"
  /\ outgoing' = "test"
  /\ event' = None
  /\ UNCHANGED <<queue, main, receiver, sessions>>

(* Mutant of VisitNotify: the session is left in the list. *)
VisitNotifyKeeps ==
  /\ outgoing = "handle"
  /\ event.kind = "notify"
  /\ outgoing' = "test"
  /\ event' = None
  /\ UNCHANGED <<queue, main, receiver, sessions>>

(* visit_event(event_notify_type): is_done() reads the session; erase runs its *)
(* destructor, which stops the thread and joins it, if it is in the list.      *)
VisitNotify ==
  /\ outgoing = "handle"
  /\ event.kind = "notify"
  /\ IF is_done(event.who) /\ event.who \in m_session_list
     THEN outgoing' = "erase" /\ doomed' = event.who
     ELSE outgoing' = "test" /\ UNCHANGED doomed
  /\ event' = None
  /\ UNCHANGED <<queue, main, receiver, io, m_session_list>>

(* Mutants of Destroy: a thread that is not joined, a list that keeps the key. *)
DestroyUnjoined(s) ==
  /\ io' = [io EXCEPT ![s] = "none"]
  /\ m_session_list' = m_session_list \ {s}
  /\ doomed' = None

DestroyListed(s) ==
  /\ io[s] = "exited"
  /\ io' = [io EXCEPT ![s] = "none"]
  /\ doomed' = None
  /\ UNCHANGED m_session_list

(* join() has returned. *)
Destroy(s) ==
  /\ io[s] = "exited"
  /\ io' = [io EXCEPT ![s] = "none"]
  /\ m_session_list' = m_session_list \ {s}
  /\ doomed' = None

EraseSession ==
  /\ outgoing = "erase"
  /\ Destroy(doomed)
  /\ outgoing' = "test"
  /\ UNCHANGED <<queue, main, receiver, event>>

-----------------------------------------------------------------------------
(* io_thread of a session *)

(* The try block has ended and m_done is stored. A session waiting for ever    *)
(* may still be answered.                                                      *)
SessionDone(s) ==
  /\ io[s] \in {"rrq", "rrq_forever", "wrq"}
  /\ io' = [io EXCEPT ![s] = "done"]
  /\ UNCHANGED <<queue, main, receiver, responder, m_session_list, doomed>>

SessionPushes(s) ==
  /\ io[s] = "done"
  /\ Queue!Push(s, Notification(s))
  /\ io' = [io EXCEPT ![s] = "notify"]
  /\ UNCHANGED <<main, receiver, responder, m_session_list, doomed>>

(* Mutant of SessionNotifies: io_thread calls session_notify again. *)
SessionNotifiesAgain(s) ==
  /\ io[s] = "notify"
  /\ Queue!NotifyOne(s)
  /\ io' = [io EXCEPT ![s] = "done"]
  /\ UNCHANGED <<main, receiver, responder, m_session_list, doomed>>

SessionNotifies(s) ==
  /\ io[s] = "notify"
  /\ Queue!NotifyOne(s)
  /\ io' = [io EXCEPT ![s] = "exited"]
  /\ UNCHANGED <<main, receiver, responder, m_session_list, doomed>>

(* io_thread(wrq) catches nothing: an exception ends the process.              *)
SessionThrows(s) ==
  /\ SendsFail
  /\ io[s] = "wrq"
  /\ main' = "aborted"
  /\ UNCHANGED <<queue, receiver, responder, sessions>>

-----------------------------------------------------------------------------
(* The main thread: ~tftp_server_v4 and the destruction of the members.        *)

(* Control+C ended the loop of main; request_stop of the receiver.             *)
StopIncoming ==
  /\ main = "running"
  /\ incoming_stop' = TRUE
  /\ main' = "join_incoming"
  /\ UNCHANGED <<queue, incoming, responder, sessions>>

JoinIncoming ==
  /\ main = "join_incoming"
  /\ incoming = "exited"
  /\ main' = "stop_outgoing"
  /\ UNCHANGED <<queue, receiver, responder, sessions>>

StopOutgoing ==
  /\ main = "stop_outgoing"
  /\ Queue!RequestStop
  /\ main' = "callback"
  /\ UNCHANGED <<receiver, responder, sessions>>

StopCallback ==
  /\ main = "callback"
  /\ Queue!RunCallback
  /\ main' = "join_outgoing"
  /\ UNCHANGED <<receiver, responder, sessions>>

JoinOutgoing ==
  /\ main = "join_outgoing"
  /\ outgoing = "exited"
  /\ main' = "sessions"
  /\ UNCHANGED <<queue, receiver, responder, sessions>>

(* The destructor of m_session_list: one session after the other.              *)
StopSession(s) ==
  /\ main = "sessions"
  /\ doomed = None
  /\ s \in m_session_list
  /\ doomed' = s
  /\ UNCHANGED <<queue, main, receiver, responder, io, m_session_list>>

JoinSession ==
  /\ main = "sessions"
  /\ doomed # None
  /\ Destroy(doomed)
  /\ UNCHANGED <<queue, main, receiver, responder>>

(* The last members, m_events and m_sock, are destroyed.                       *)
DestroyServer ==
  /\ main = "sessions"
  /\ m_session_list = {}
  /\ main' = "exited"
  /\ UNCHANGED <<queue, receiver, responder, sessions>>

-----------------------------------------------------------------------------
IncomingStep ==
  \/ IncomingTest \/ IncomingNothing \/ IncomingNotify
  \/ \E kind \in Requests : IncomingPacket(kind)

OutgoingStep ==
  \/ OutgoingTest \/ OutgoingCalls \/ OutgoingInPop
  \/ \E s \in Sessions : StartSession(s)
  \/ EmplaceSession \/ RefusePacket \/ VisitNotify \/ EraseSession

(* What a session that does not wait for ever does by itself. *)
SessionStep(s) ==
  \/ io[s] # "rrq_forever" /\ SessionDone(s)
  \/ SessionPushes(s) \/ SessionNotifies(s) \/ SessionThrows(s)

MainStep ==
  \/ JoinIncoming \/ StopOutgoing \/ StopCallback \/ JoinOutgoing
  \/ \E s \in Sessions : StopSession(s)
  \/ JoinSession \/ DestroyServer

ServerNext ==
  /\ Alive
  /\ \/ IncomingStep \/ OutgoingStep \/ MainStep
     \/ \E s \in Sessions : SessionStep(s) \/ SessionDone(s)
     \/ Queue!SpuriousWakeup /\ UNCHANGED <<main, receiver, responder, sessions>>
     \/ StopIncoming

ServerSpec == ServerInit /\ [][ServerNext]_serverVars

(* Every thread that can go on does, and one that waits for m_mutex gets it if *)
(* it is released again and again; nobody has to press Control+C, and a        *)
(* session waiting for its client without a timeout may wait for ever.         *)
ServerFairSpec ==
  /\ ServerSpec
  /\ WF_serverVars(Alive /\ IncomingStep)
  /\ WF_serverVars(Alive /\ OutgoingStep)
  /\ WF_serverVars(Alive /\ MainStep)
  /\ \A s \in Sessions : /\ WF_serverVars(Alive /\ SessionStep(s))
                         /\ SF_serverVars(Alive /\ SessionPushes(s))

(* The server as the program sees it, from start() on. *)
Life == INSTANCE ServerLife WITH
  life <- CASE main = "running" -> "made" [] main = "exited" -> "gone"
            [] main = "aborted" -> "aborted" [] OTHER -> "ceasing",
  threads <- (IF incoming = "exited" THEN {} ELSE {"incoming"})
             \cup (IF outgoing = "exited" THEN {} ELSE {"outgoing"})
             \cup (IF notifying \cap Sessions = {} /\ \A s \in Sessions : io[s] = "none"
                   THEN {} ELSE {"sessions"})

-----------------------------------------------------------------------------
(* Properties *)

(* The types; and the list holds sessions that exist. *)
ServerTypeOK ==
  /\ Queue!TypeOK
  /\ main \in MainPlaces
  /\ incoming \in {"test", "recv", "notify", "exited"}
  /\ incoming_stop \in BOOLEAN
  /\ outgoing \in OutgoingPlaces
  /\ event \in Events \cup {None}
  /\ io \in [Sessions -> IoPlaces]
  /\ m_session_list \subseteq {s \in Sessions : io[s] # "none"}
  /\ doomed \in Sessions \cup {None}

(* A notification is a raw pointer to a session. When the responder reads      *)
(* is_done() through it, the session is still there, is done, and is in the    *)
(* list, although its thread was started before it was put there.              *)
NotificationIsOfListedSession ==
  outgoing = "handle" /\ event.kind = "notify" =>
    is_done(event.who) /\ event.who \in m_session_list

(* A session notifies once, and nothing but that notification destroys it      *)
(* while the responder runs: so no notification can reach a session that has   *)
(* taken over the address of the one that sent it.                             *)
PendingFor(s) == {i \in 1..Len(m_queue) : m_queue[i] = Notification(s)}

NotifiedOnce ==
  outgoing # "exited" => \A s \in Sessions :
    /\ Cardinality(PendingFor(s)) <= 1
    /\ PendingFor(s) # {} => io[s] \in {"notify", "exited"}

(* No session is forgotten: as long as the server is not stopped, one that is  *)
(* done is destroyed, and its address is free again.                           *)
DoneIsReclaimed ==
  \A s \in Sessions : is_done(s) ~> io[s] = "none" \/ main # "running"

(* The destructor returns, unless the responder sleeps through its stop (see   *)
(* PopReturnsOnStop) or a session waits for its client for ever.               *)
ShutdownEndsOrHangs ==
  main = "join_incoming" ~>
    \/ main \in {"exited", "aborted"}
    \/ [](popper = "waiting" /\ stop = "notified")
    \/ [](main = "sessions" /\ doomed # None /\ io[doomed] = "rrq_forever")

(* It serves until it is told to stop, starts sessions only while its          *)
(* responder runs, and its destructor leaves no thread behind, of its own or   *)
(* of a session, that could still push into the queue: what main() relies on.  *)
ImplementsServerLife == Life!Spec

=============================================================================
