--------------------------- MODULE TftpServerProofs ---------------------------
(* Theorems about TftpServer, for any number of sessions at once, every kind of *)
(* datagram and a queue of any length.                                          *)
EXTENDS TftpServer, FiniteSetTheorems, SequenceTheorems, TLAPS

-----------------------------------------------------------------------------
(* The queue in the server: the receiver and every session push into it, the   *)
(* responder pops, and the main thread requests the stop.                      *)

QueueProofs == INSTANCE ConcurrentQueueProofs WITH
  Items <- Events, Producers <- {Receiver} \cup Sessions

(* The threads of the server keep to the rules of concurrent_queue, so that    *)
(* what is proved of the queue, whoever uses it, holds of this one.            *)
THEOREM UsesQueue == ServerSpec => QueueProofs!Use
<1>1. ServerInit => QueueProofs!Init
  BY DEF ServerInit, Queue!Init, QueueProofs!Init
<1>2. [ServerNext]_serverVars => [QueueProofs!Step]_QueueProofs!queueVars
  <2> SUFFICES ASSUME [ServerNext]_serverVars
               PROVE  [QueueProofs!Step]_QueueProofs!queueVars
    OBVIOUS
  <2> USE DEF QueueProofs!Step, QueueProofs!PopStep
  <2>1. ASSUME NEW kind \in Requests, IncomingPacket(kind)
        PROVE  QueueProofs!Step
    <3>1. Packet(kind) \in Events /\ Receiver \in {Receiver} \cup Sessions
      BY DEF Events
    <3>2. QueueProofs!Push(Receiver, Packet(kind))
      BY <2>1 DEF IncomingPacket, Queue!Push, QueueProofs!Push
    <3> QED
      BY <3>1, <3>2
  <2>2. ASSUME NEW s \in Sessions, SessionPushes(s)
        PROVE  QueueProofs!Step
    <3>1. Notification(s) \in Events
      BY DEF Events
    <3>2. QueueProofs!Push(s, Notification(s))
      BY <2>2 DEF SessionPushes, Queue!Push, QueueProofs!Push
    <3> QED
      BY <3>1, <3>2
  <2>3. CASE IncomingNotify
    BY <2>3 DEF IncomingNotify, Queue!NotifyOne, QueueProofs!NotifyOne,
       Queue!Notified, QueueProofs!Notified
  <2>4. ASSUME NEW s \in Sessions, SessionNotifies(s)
        PROVE  QueueProofs!Step
    BY <2>4 DEF SessionNotifies, Queue!NotifyOne, QueueProofs!NotifyOne,
       Queue!Notified, QueueProofs!Notified
  <2>5. CASE OutgoingCalls
    BY <2>5 DEF OutgoingCalls, Queue!EnterPop, QueueProofs!EnterPop
  <2>6. CASE OutgoingInPop
    BY <2>6 DEF OutgoingInPop, Queue!Lock, QueueProofs!Lock, Queue!Wait, QueueProofs!Wait,
       Queue!WakeUp, QueueProofs!WakeUp, Queue!PopStopped, QueueProofs!PopStopped,
       Queue!Pop, QueueProofs!Pop
  <2>7. CASE StopOutgoing
    BY <2>7 DEF StopOutgoing, Queue!RequestStop, QueueProofs!RequestStop
  <2>8. CASE StopCallback
    BY <2>8 DEF StopCallback, Queue!RunCallback, QueueProofs!RunCallback,
       Queue!Notified, QueueProofs!Notified
  <2>9. CASE Queue!SpuriousWakeup
    BY <2>9 DEF Queue!SpuriousWakeup, QueueProofs!SpuriousWakeup
  <2>10. CASE UNCHANGED queue
    BY <2>10 DEF queue, QueueProofs!queueVars
  <2> QED
    BY <2>1, <2>2, <2>3, <2>4, <2>5, <2>6, <2>7, <2>8, <2>9, <2>10
    DEF ServerNext, IncomingStep, IncomingTest, IncomingNothing, OutgoingStep, OutgoingTest,
        StartSession, EmplaceSession, RefusePacket, VisitNotify, EraseSession,
        SessionStep, SessionDone, SessionThrows, MainStep, JoinIncoming, JoinOutgoing,
        StopSession, JoinSession, DestroyServer, StopIncoming, serverVars
<1> QED
  BY <1>1, <1>2, PTL DEF ServerSpec, QueueProofs!Use

(* The responder never sleeps while a request or a notification waits for it   *)
(* and nobody is about to wake it, however many sessions push.                 *)
THEOREM EventsWakeResponder == ServerSpec => [](Queue!TypeOK /\ Queue!NoLostWakeup)
<1>1. MaxLength \in Nat
  BY ServerAssumption
<1>2. QueueProofs!Use => []QueueProofs!TypeOK /\ []QueueProofs!NoLostWakeup
  BY <1>1, QueueProofs!UseTypes, QueueProofs!UseWakeup, PTL
<1>3. QueueProofs!TypeOK /\ QueueProofs!NoLostWakeup => Queue!TypeOK /\ Queue!NoLostWakeup
  BY DEF QueueProofs!TypeOK, QueueProofs!Places, Queue!TypeOK, Queue!Places,
         QueueProofs!NoLostWakeup, Queue!NoLostWakeup
<1> QED
  BY <1>2, <1>3, UsesQueue, PTL

-----------------------------------------------------------------------------
(* The inductive invariant *)

Types ==
  /\ main \in MainPlaces
  /\ incoming \in {"test", "recv", "notify", "exited"}
  /\ incoming_stop \in BOOLEAN
  /\ outgoing \in OutgoingPlaces
  /\ event \in Events \cup {None}
  /\ outgoing = "handle" => event \in Events
  /\ outgoing = "emplace" => event \in {Notification(s) : s \in Sessions}
  /\ io \in [Sessions -> IoPlaces]
  /\ m_session_list \subseteq Sessions
  /\ doomed \in Sessions \cup {None}

Emplacing(s) == outgoing = "emplace" /\ event = Notification(s)

(* A session exists exactly if it is in the list, or on its way there; and one *)
(* that is being destroyed is in the list until it has been.                   *)
Owned ==
  /\ \A s \in Sessions : io[s] # "none" <=> s \in m_session_list \/ Emplacing(s)
  /\ doomed # None => doomed \in m_session_list
  /\ outgoing \notin {"erase", "exited"} => doomed = None
  /\ outgoing = "erase" => doomed # None

Pending(s) == \E i \in 1..Len(m_queue) : m_queue[i] = Notification(s)

Handling(s) == outgoing = "handle" /\ event = Notification(s)

(* While the responder runs, a session that has notified waits for the         *)
(* responder: its notification is queued, or being handled, at one place only, *)
(* and it will not notify again.                                               *)
NotifiesOnce ==
  outgoing # "exited" => \A s \in Sessions :
    /\ Pending(s) \/ Handling(s) \/ (outgoing = "erase" /\ doomed = s) =>
         io[s] \in {"notify", "exited"}
    /\ \A i, j \in 1..Len(m_queue) :
         m_queue[i] = Notification(s) /\ m_queue[j] = Notification(s) => i = j
    /\ Handling(s) \/ (outgoing = "erase" /\ doomed = s) => ~Pending(s)

(* The destructor, against the threads it has ended; and the sessions that are *)
(* between their push and their notify_one.                                    *)
Stopping ==
  /\ main = "running" => ~incoming_stop
  /\ incoming = "exited" => incoming_stop
  /\ main \in {"stop_outgoing", "callback", "join_outgoing", "sessions", "exited"} =>
       incoming = "exited"
  /\ stop # "no" => main \notin {"running", "join_incoming", "stop_outgoing"}
  /\ outgoing = "exited" => stop # "no"
  /\ main \in {"sessions", "exited"} => outgoing = "exited"
  /\ main = "exited" => \A s \in Sessions : io[s] = "none"
  /\ \A s \in Sessions : s \in notifying <=> io[s] = "notify"

ServerInv == Types /\ Owned /\ NotifiesOnce /\ Stopping

-----------------------------------------------------------------------------
(* The invariant is inductive: one lemma for each of its parts. *)

(* A notification is of one session, and no datagram is one.                   *)
LEMMA EventKinds ==
  ASSUME NEW e \in Events
  PROVE  \/ \E s \in Sessions : /\ e = Notification(s)
                               /\ e.kind = "notify" /\ e.who = s
                               /\ \A t \in Sessions : e = Notification(t) => t = s
         \/ e.kind # "notify" /\ \A s \in Sessions : e # Notification(s)
  BY KindAssumption DEF Events, Packet, Notification

(* Every step keeps the types.                                                 *)
LEMMA TypesStep ==
  ASSUME Types, [ServerNext]_serverVars
  PROVE  Types'
<1> USE DEF Types
<1>1. CASE IncomingStep
  <2>1. /\ incoming' \in {"test", "recv", "notify", "exited"}
        /\ UNCHANGED <<main, incoming_stop, responder, sessions>>
    BY <1>1 DEF IncomingStep, IncomingTest, IncomingNothing, IncomingNotify, IncomingPacket
  <2> QED
    BY <2>1 DEF responder, sessions
<1>2. CASE OutgoingTest \/ OutgoingCalls
  BY <1>2 DEF OutgoingTest, OutgoingCalls, OutgoingPlaces, receiver, sessions
<1>3. CASE OutgoingInPop
  BY <1>3 DEF OutgoingInPop, OutgoingPlaces, receiver, responder, sessions
<1>4. ASSUME NEW s \in Sessions, StartSession(s) PROVE Types'
  BY <1>4 DEF StartSession, OutgoingPlaces, IoPlaces, Events, receiver
<1>5. CASE EmplaceSession
  BY <1>5 DEF EmplaceSession, OutgoingPlaces, Notification, receiver
<1>6. CASE RefusePacket
  BY <1>6 DEF RefusePacket, OutgoingPlaces, receiver, sessions
<1>7. CASE VisitNotify
  <2>1. event.kind = "notify" => event.who \in Sessions
    BY <1>7, EventKinds DEF VisitNotify
  <2> QED
    BY <1>7, <2>1 DEF VisitNotify, OutgoingPlaces, receiver
<1>8. CASE EraseSession
  BY <1>8 DEF EraseSession, Destroy, OutgoingPlaces, IoPlaces, receiver
<1>9. ASSUME NEW s \in Sessions, SessionDone(s) \/ SessionPushes(s) \/ SessionNotifies(s)
      PROVE  Types'
  BY <1>9 DEF SessionDone, SessionPushes, SessionNotifies, IoPlaces, receiver, responder
<1>10. ASSUME NEW s \in Sessions, SessionThrows(s) PROVE Types'
  BY <1>10 DEF SessionThrows, MainPlaces, receiver, responder, sessions
<1>11. CASE StopIncoming \/ JoinIncoming \/ StopOutgoing \/ StopCallback \/ JoinOutgoing \/ DestroyServer
  BY <1>11 DEF StopIncoming, JoinIncoming, StopOutgoing, StopCallback, JoinOutgoing, DestroyServer,
     MainPlaces, receiver, responder, sessions
<1>12. ASSUME NEW s \in Sessions, StopSession(s) PROVE Types'
  BY <1>12 DEF StopSession, receiver, responder
<1>13. CASE JoinSession
  BY <1>13 DEF JoinSession, Destroy, IoPlaces, receiver, responder
<1>14. CASE UNCHANGED <<main, receiver, responder, sessions>>
  BY <1>14 DEF receiver, responder, sessions
<1> QED
  BY <1>1, <1>2, <1>3, <1>4, <1>5, <1>6, <1>7, <1>8, <1>9, <1>10, <1>11, <1>12, <1>13, <1>14
  DEF ServerNext, OutgoingStep, SessionStep, MainStep, serverVars

(* Every step keeps the sessions that exist owned by the list.                 *)
LEMMA OwnedStep ==
  ASSUME Types, Owned, NotifiesOnce, Stopping, [ServerNext]_serverVars
  PROVE  Owned'
<1> USE DEF Types, Owned, Emplacing
<1>1. CASE OutgoingTest \/ OutgoingCalls
  BY <1>1 DEF OutgoingTest, OutgoingCalls, sessions
<1>2. CASE OutgoingInPop
  BY <1>2 DEF OutgoingInPop, responder, sessions
<1>3. ASSUME NEW s \in Sessions, StartSession(s) PROVE Owned'
  <2>1. \A t \in Sessions : Notification(s) = Notification(t) => s = t
    BY DEF Notification
  <2> QED
    BY <1>3, <2>1 DEF StartSession
<1>4. CASE EmplaceSession
  BY <1>4 DEF EmplaceSession, Notification
<1>5. CASE RefusePacket
  BY <1>5 DEF RefusePacket, sessions
<1>6. CASE VisitNotify
  BY <1>6, ServerAssumption, EventKinds DEF VisitNotify
<1>7. CASE EraseSession
  BY <1>7 DEF EraseSession, Destroy
<1>8. ASSUME NEW s \in Sessions, SessionDone(s) \/ SessionPushes(s) \/ SessionNotifies(s)
      PROVE  Owned'
  BY <1>8 DEF SessionDone, SessionPushes, SessionNotifies, responder
<1>9. ASSUME NEW s \in Sessions, StopSession(s) PROVE Owned'
  BY <1>9 DEF StopSession, Stopping, responder
<1>10. CASE JoinSession
  BY <1>10 DEF JoinSession, Destroy, Stopping, responder
<1>11. CASE UNCHANGED <<responder, sessions>>
  BY <1>11 DEF responder, sessions
<1> QED
  BY <1>1, <1>2, <1>3, <1>4, <1>5, <1>6, <1>7, <1>8, <1>9, <1>10, <1>11
  DEF ServerNext, OutgoingStep, SessionStep, MainStep, serverVars, IncomingStep,
      IncomingTest, IncomingNothing, IncomingNotify, IncomingPacket, SessionThrows,
      StopIncoming, JoinIncoming, StopOutgoing, StopCallback, JoinOutgoing, DestroyServer

(* What a push, and a pop, do to the notifications in the queue.               *)
LEMMA PendingAfterPush ==
  ASSUME m_queue \in Seq(Events), NEW e \in Events, m_queue' = Append(m_queue, e)
  PROVE  /\ Len(m_queue) \in Nat
         /\ Len(m_queue') = Len(m_queue) + 1
         /\ \A i \in 1..Len(m_queue) : m_queue'[i] = m_queue[i]
         /\ m_queue'[Len(m_queue) + 1] = e
  BY AppendProperties, LenProperties

(* A pop moves every other notification one place ahead.                      *)
LEMMA PendingAfterPop ==
  ASSUME m_queue \in Seq(Events), m_queue # <<>>, m_queue' = Tail(m_queue)
  PROVE  /\ Len(m_queue) \in Nat \ {0}
         /\ Len(m_queue') = Len(m_queue) - 1
         /\ \A i \in 1..Len(m_queue') : i + 1 \in 1..Len(m_queue) /\ m_queue'[i] = m_queue[i+1]
         /\ 1 \in 1..Len(m_queue) /\ m_queue[1] = Head(m_queue)
  BY HeadTailProperties, LenProperties, EmptySeq

(* A datagram in the queue is no notification.                                 *)
LEMMA PushedPacket ==
  ASSUME Types, NotifiesOnce, Queue!TypeOK, NEW kind \in Requests, IncomingPacket(kind)
  PROVE  NotifiesOnce'
<1>1. /\ m_queue' = Append(m_queue, Packet(kind))
      /\ m_queue \in Seq(Events)
      /\ UNCHANGED <<responder, sessions>>
      /\ Packet(kind) \in Events
  BY DEF IncomingPacket, Queue!Push, Queue!TypeOK, Events
<1>2. \A s \in Sessions : Packet(kind) # Notification(s)
  BY KindAssumption DEF Packet, Notification
<1>3. /\ Len(m_queue) \in Nat
      /\ Len(m_queue') = Len(m_queue) + 1
      /\ \A i \in 1..Len(m_queue) : m_queue'[i] = m_queue[i]
      /\ m_queue'[Len(m_queue) + 1] = Packet(kind)
  BY <1>1, PendingAfterPush
<1>4. ASSUME NEW s \in Sessions, NEW i \in 1..Len(m_queue'), m_queue'[i] = Notification(s)
      PROVE  i \in 1..Len(m_queue) /\ m_queue[i] = Notification(s)
  BY <1>2, <1>3, <1>4
<1>5. \A s \in Sessions : Pending(s)' => Pending(s)
  BY <1>4 DEF Pending
<1> QED
  BY <1>1, <1>4, <1>5 DEF NotifiesOnce, Handling, responder, sessions

(* A session pushes its notification after it is done: there is none of it in  *)
(* the queue, and the responder is not at work on one.                         *)
LEMMA PushedNotification ==
  ASSUME Types, NotifiesOnce, Queue!TypeOK, NEW s \in Sessions, SessionPushes(s)
  PROVE  NotifiesOnce'
<1>1. /\ m_queue' = Append(m_queue, Notification(s))
      /\ m_queue \in Seq(Events)
      /\ Notification(s) \in Events
      /\ io[s] = "done" /\ io' = [io EXCEPT ![s] = "notify"]
      /\ UNCHANGED <<outgoing, event, doomed>>
  BY DEF SessionPushes, Queue!Push, Queue!TypeOK, Events, responder
<1>2. \A t \in Sessions : Notification(s) = Notification(t) => s = t
  BY DEF Notification
<1>3. /\ Len(m_queue) \in Nat
      /\ Len(m_queue') = Len(m_queue) + 1
      /\ \A i \in 1..Len(m_queue) : m_queue'[i] = m_queue[i]
      /\ m_queue'[Len(m_queue) + 1] = Notification(s)
  BY <1>1, PendingAfterPush
<1>4. ASSUME NEW t \in Sessions, t # s, NEW i \in 1..Len(m_queue'), m_queue'[i] = Notification(t)
      PROVE  i \in 1..Len(m_queue) /\ m_queue[i] = Notification(t)
  BY <1>2, <1>3, <1>4
<1>5. \A t \in Sessions : t # s /\ Pending(t)' => Pending(t)
  BY <1>4 DEF Pending
<1>6. ASSUME outgoing # "exited"
      PROVE  /\ ~Pending(s) /\ ~Handling(s)
             /\ ~(outgoing = "erase" /\ doomed = s)
             /\ \A i \in 1..Len(m_queue') : m_queue'[i] = Notification(s) => i = Len(m_queue) + 1
  <2>1. /\ ~Pending(s) /\ ~Handling(s)
        /\ ~(outgoing = "erase" /\ doomed = s)
    BY <1>1, <1>6 DEF NotifiesOnce
  <2> QED
    BY <1>3, <2>1 DEF Pending
<1>7. ASSUME outgoing' # "exited", NEW t \in Sessions
      PROVE  /\ Pending(t)' \/ Handling(t)' \/ (outgoing' = "erase" /\ doomed' = t) =>
                  io'[t] \in {"notify", "exited"}
             /\ \A i, j \in 1..Len(m_queue') :
                  m_queue'[i] = Notification(t) /\ m_queue'[j] = Notification(t) => i = j
             /\ Handling(t)' \/ (outgoing' = "erase" /\ doomed' = t) => ~Pending(t)'
  <2>1. CASE t = s
    BY <1>1, <1>6, <1>7, <2>1 DEF Types, Handling
  <2>2. CASE t # s
    BY <1>1, <1>4, <1>5, <1>7, <2>2 DEF Types, NotifiesOnce, Handling
  <2> QED
    BY <2>1, <2>2
<1> QED
  BY <1>7 DEF NotifiesOnce

(* The responder takes a notification: it was the only one of its session.     *)
LEMMA PoppedEvent ==
  ASSUME Types, Owned, NotifiesOnce, Queue!TypeOK, NEW e \in Events, Queue!Pop(e),
         outgoing = "pop", outgoing' = "handle", event' = e, UNCHANGED sessions
  PROVE  NotifiesOnce'
<1>1. /\ m_queue \in Seq(Events) /\ m_queue # <<>>
      /\ m_queue' = Tail(m_queue)
      /\ e = Head(m_queue)
      /\ UNCHANGED <<io, doomed>>
  BY DEF Queue!Pop, Queue!TypeOK, sessions
<1>2. /\ Len(m_queue) \in Nat \ {0}
      /\ Len(m_queue') = Len(m_queue) - 1
      /\ \A i \in 1..Len(m_queue') : i + 1 \in 1..Len(m_queue) /\ m_queue'[i] = m_queue[i+1]
      /\ 1 \in 1..Len(m_queue) /\ m_queue[1] = e
  BY <1>1, PendingAfterPop
<1>3. \A s \in Sessions : Pending(s)' \/ e = Notification(s) => Pending(s)
  BY <1>2 DEF Pending
<1>4. ASSUME NEW s \in Sessions, NEW i \in 1..Len(m_queue'), NEW j \in 1..Len(m_queue'),
             m_queue'[i] = Notification(s), m_queue'[j] = Notification(s)
      PROVE  i = j
  <2>1. i + 1 = j + 1
    BY <1>2, <1>4 DEF NotifiesOnce
  <2> QED
    BY <2>1
<1>5. ASSUME NEW s \in Sessions, e = Notification(s)
      PROVE  ~Pending(s)'
  <2> SUFFICES ASSUME NEW i \in 1..Len(m_queue'), m_queue'[i] = Notification(s) PROVE FALSE
    BY DEF Pending
  <2>1. i + 1 = 1
    BY <1>2, <1>5 DEF NotifiesOnce
  <2> QED
    BY <2>1
<1> QED
  BY <1>1, <1>3, <1>4, <1>5 DEF NotifiesOnce, Handling

(* No other step puts a notification anywhere; one is dealt with by destroying *)
(* its session, whose address is then free of it.                              *)
LEMMA NotifiesOnceStep ==
  ASSUME Types, Owned, NotifiesOnce, Stopping, Queue!TypeOK, [ServerNext]_serverVars
  PROVE  NotifiesOnce'
<1>1. ASSUME NEW kind \in Requests, IncomingPacket(kind) PROVE NotifiesOnce'
  BY <1>1, PushedPacket
<1>2. ASSUME NEW s \in Sessions, SessionPushes(s) PROVE NotifiesOnce'
  BY <1>2, PushedNotification
<1>3. ASSUME OutgoingInPop, NEW e \in Events, Queue!Pop(e), event' = e, outgoing' = "handle"
      PROVE  NotifiesOnce'
  BY <1>3, PoppedEvent DEF OutgoingInPop
<1> USE DEF Types, NotifiesOnce, Pending, Handling, queue
<1>4. CASE OutgoingTest
  BY <1>4 DEF OutgoingTest, sessions
<1>5. CASE OutgoingCalls
  BY <1>5 DEF OutgoingCalls, Queue!EnterPop, sessions
<1>6. ASSUME OutgoingInPop, \/ Queue!Lock /\ UNCHANGED responder
                            \/ Queue!Wait /\ UNCHANGED responder
                            \/ Queue!WakeUp /\ UNCHANGED responder
                            \/ Queue!PopStopped /\ outgoing' = "exited" /\ UNCHANGED event
      PROVE  NotifiesOnce'
  BY <1>6 DEF OutgoingInPop, Queue!Lock, Queue!Wait, Queue!WakeUp, Queue!PopStopped, responder, sessions
<1>7. ASSUME NEW s \in Sessions, StartSession(s) PROVE NotifiesOnce'
  BY <1>7 DEF StartSession
<1>8. CASE EmplaceSession
  BY <1>8 DEF EmplaceSession
<1>9. CASE RefusePacket
  BY <1>9 DEF RefusePacket, sessions
<1>10. CASE VisitNotify
  <2>1. event = Notification(event.who)
    BY <1>10, EventKinds DEF VisitNotify
  <2> QED
    BY <1>10, <2>1, EventKinds DEF VisitNotify
<1>11. CASE EraseSession
  BY <1>11 DEF EraseSession, Destroy
<1>12. ASSUME NEW s \in Sessions, SessionDone(s) PROVE NotifiesOnce'
  BY <1>12 DEF SessionDone, responder
<1>13. ASSUME NEW s \in Sessions, SessionNotifies(s) PROVE NotifiesOnce'
  BY <1>13 DEF SessionNotifies, Queue!NotifyOne, responder
<1>14. ASSUME NEW s \in Sessions, StopSession(s) PROVE NotifiesOnce'
  BY <1>14 DEF StopSession, Stopping, responder
<1>15. CASE JoinSession
  BY <1>15 DEF JoinSession, Stopping, responder
<1>16. CASE UNCHANGED <<m_queue, responder, sessions>>
  BY <1>16 DEF responder, sessions
<1>17. OutgoingInPop => NotifiesOnce'
  BY <1>3, <1>6 DEF OutgoingInPop
<1>18. CASE \/ IncomingNotify \/ StopOutgoing \/ StopCallback
            \/ Queue!SpuriousWakeup /\ UNCHANGED <<main, receiver, responder, sessions>>
  BY <1>16, <1>18 DEF IncomingNotify, StopOutgoing, StopCallback, Queue!NotifyOne, Queue!RequestStop,
     Queue!RunCallback, Queue!SpuriousWakeup
<1> HIDE DEF Types, NotifiesOnce, Pending, Handling
<1>19. CASE \/ IncomingTest \/ IncomingNothing \/ StopIncoming \/ JoinIncoming \/ JoinOutgoing
            \/ DestroyServer \/ \E s \in Sessions : SessionThrows(s)
  BY <1>16, <1>19 DEF IncomingTest, IncomingNothing, StopIncoming, JoinIncoming, JoinOutgoing,
     DestroyServer, SessionThrows
<1>20. CASE UNCHANGED serverVars
  BY <1>16, <1>20 DEF serverVars
<1> QED
  BY <1>1, <1>2, <1>4, <1>5, <1>7, <1>8, <1>9, <1>10, <1>11, <1>12, <1>13, <1>14, <1>15, <1>17,
     <1>18, <1>19, <1>20
  DEF ServerNext, IncomingStep, OutgoingStep, SessionStep, MainStep

(* The destructor stops the receiver, then the responder, then the sessions,   *)
(* each only after the one before has ended.                                   *)
LEMMA StoppingStep ==
  ASSUME Types, Owned, Stopping, [ServerNext]_serverVars
  PROVE  Stopping'
<1> USE DEF Types, Stopping, queue
<1>1. CASE IncomingTest \/ IncomingNothing
  BY <1>1 DEF IncomingTest, IncomingNothing, responder, sessions
<1>2. CASE IncomingNotify
  BY <1>2, ServerAssumption DEF IncomingNotify, Queue!NotifyOne, responder, sessions
<1>3. ASSUME NEW kind \in Requests, IncomingPacket(kind) PROVE Stopping'
  BY <1>3, ServerAssumption DEF IncomingPacket, Queue!Push, responder, sessions
<1>4. CASE OutgoingTest \/ OutgoingCalls
  BY <1>4 DEF OutgoingTest, OutgoingCalls, Queue!EnterPop, receiver, sessions
<1>5. CASE OutgoingInPop
  BY <1>5 DEF OutgoingInPop, Queue!Lock, Queue!Wait, Queue!WakeUp, Queue!PopStopped, Queue!Pop,
     receiver, responder, sessions
<1>6. ASSUME NEW s \in Sessions, StartSession(s) PROVE Stopping'
  BY <1>6 DEF StartSession, receiver, Events, Notification, Packet
<1>7. CASE EmplaceSession \/ RefusePacket \/ VisitNotify
  BY <1>7 DEF EmplaceSession, RefusePacket, VisitNotify, receiver, sessions
<1>8. CASE EraseSession
  BY <1>8 DEF EraseSession, Destroy, Owned, receiver
<1>9. ASSUME NEW s \in Sessions, SessionDone(s) PROVE Stopping'
  BY <1>9 DEF SessionDone, receiver, responder
<1>10. ASSUME NEW s \in Sessions, SessionPushes(s) PROVE Stopping'
  BY <1>10 DEF SessionPushes, Queue!Push, receiver, responder
<1>11. ASSUME NEW s \in Sessions, SessionNotifies(s) PROVE Stopping'
  BY <1>11 DEF SessionNotifies, Queue!NotifyOne, receiver, responder
<1>12. ASSUME NEW s \in Sessions, SessionThrows(s) PROVE Stopping'
  BY <1>12 DEF SessionThrows, receiver, responder, sessions
<1>13. CASE StopIncoming \/ JoinIncoming \/ JoinOutgoing
  BY <1>13 DEF StopIncoming, JoinIncoming, JoinOutgoing, receiver, responder, sessions
<1>14. CASE StopOutgoing \/ StopCallback
  BY <1>14 DEF StopOutgoing, StopCallback, Queue!RequestStop, Queue!RunCallback, receiver, responder, sessions
<1>15. ASSUME NEW s \in Sessions, StopSession(s) PROVE Stopping'
  BY <1>15 DEF StopSession, receiver, responder
<1>16. CASE JoinSession
  BY <1>16 DEF JoinSession, Destroy, Owned, receiver, responder
<1>17. CASE DestroyServer
  BY <1>17 DEF DestroyServer, Owned, Emplacing, receiver, responder, sessions
<1>18. CASE Queue!SpuriousWakeup /\ UNCHANGED <<main, receiver, responder, sessions>>
  BY <1>18 DEF Queue!SpuriousWakeup, receiver, responder, sessions
<1>19. CASE UNCHANGED serverVars
  BY <1>19 DEF serverVars, receiver, responder, sessions
<1> QED
  BY <1>1, <1>2, <1>3, <1>4, <1>5, <1>6, <1>7, <1>8, <1>9, <1>10, <1>11, <1>12, <1>13, <1>14,
     <1>15, <1>16, <1>17, <1>18, <1>19
  DEF ServerNext, IncomingStep, OutgoingStep, SessionStep, MainStep

(* There is no session and no event.                                           *)
LEMMA InvInit == ServerInit => ServerInv
<1> SUFFICES ASSUME ServerInit PROVE ServerInv
  OBVIOUS
<1> USE DEF ServerInit, Queue!Init
<1>1. Types
  BY DEF Types, MainPlaces, OutgoingPlaces, IoPlaces
<1>2. Owned
  BY DEF Owned, Emplacing
<1>3. NotifiesOnce
  BY EmptySeq DEF NotifiesOnce, Pending, Handling
<1>4. Stopping
  BY DEF Stopping
<1> QED
  BY <1>1, <1>2, <1>3, <1>4 DEF ServerInv

(* The invariant, with that of the queue, is inductive.                        *)
LEMMA InvAlways == ServerSpec => [](Queue!TypeOK /\ ServerInv)
<1>1. Queue!TypeOK /\ ServerInv /\ [ServerNext]_serverVars => ServerInv'
  BY TypesStep, OwnedStep, NotifiesOnceStep, StoppingStep DEF ServerInv
<1> QED
  BY <1>1, InvInit, EventsWakeResponder, PTL DEF ServerSpec

-----------------------------------------------------------------------------
(* Every variable of the server keeps its type, and every session in the list  *)
(* exists.                                                                     *)
THEOREM ServerTypeCorrect == ServerSpec => []ServerTypeOK
<1>1. Queue!TypeOK /\ ServerInv => ServerTypeOK
  BY DEF ServerInv, Types, Owned, ServerTypeOK
<1> QED
  BY <1>1, InvAlways, PTL

(* The raw pointer in a notification never dangles: when the responder reads   *)
(* is_done() through it, its session is done and in the list, although its     *)
(* thread was started before it was put there.                                 *)
THEOREM NotificationIsValid == ServerSpec => []NotificationIsOfListedSession
<1>1. ServerInv => NotificationIsOfListedSession
  <2> SUFFICES ASSUME ServerInv, outgoing = "handle", event.kind = "notify"
               PROVE  is_done(event.who) /\ event.who \in m_session_list
    BY DEF NotificationIsOfListedSession
  <2>1. PICK s \in Sessions : event = Notification(s) /\ event.who = s
    BY EventKinds DEF ServerInv, Types
  <2>2. io[s] \in {"notify", "exited"}
    BY <2>1 DEF ServerInv, NotifiesOnce, Handling
  <2>3. s \in m_session_list
    BY <2>2 DEF ServerInv, Owned, Emplacing
  <2> QED
    BY <2>1, <2>2, <2>3 DEF is_done
<1> QED
  BY <1>1, InvAlways, PTL

(* A session notifies once in its life, and is destroyed only by way of that   *)
(* notification: so none that is queued is of a session which has taken over   *)
(* the address of the one that sent it, for any number of sessions.            *)
THEOREM NotifiesOnlyOnce == ServerSpec => []NotifiedOnce
<1>1. ServerInv => NotifiedOnce
  <2> SUFFICES ASSUME ServerInv, outgoing # "exited", NEW s \in Sessions
               PROVE  /\ Cardinality(PendingFor(s)) <= 1
                      /\ PendingFor(s) # {} => io[s] \in {"notify", "exited"}
    BY DEF NotifiedOnce
  <2>1. \A i, j \in PendingFor(s) : i = j
    BY DEF PendingFor, ServerInv, NotifiesOnce
  <2>2. PendingFor(s) # {} => Pending(s)
    BY DEF PendingFor, Pending
  <2>3. Cardinality(PendingFor(s)) <= 1
    <3>1. CASE PendingFor(s) = {}
      BY <3>1, FS_EmptySet
    <3>2. CASE PendingFor(s) # {}
      <4>1. PICK i \in PendingFor(s) : TRUE
        BY <3>2
      <4>2. PendingFor(s) = {i}
        BY <2>1
      <4>3. Cardinality(PendingFor(s)) = 1
        BY <4>2, FS_Singleton
      <4> QED
        BY <4>3
    <3> QED
      BY <3>1, <3>2
  <2> QED
    BY <2>2, <2>3 DEF ServerInv, NotifiesOnce
<1> QED
  BY <1>1, InvAlways, PTL

-----------------------------------------------------------------------------
(* The server implements ServerLife: whatever clients send, and however their  *)
(* sessions end, its threads run until the destructor tells them to stop, a    *)
(* session starts only while the responder runs, and the destructor does not   *)
(* return while a thread of the server or of a session is left.                *)
THEOREM TftpServerLives == ServerSpec => ImplementsServerLife
<1>1. ServerInit => Life!Init
  BY DEF ServerInit, Queue!Init, Life!Init, Life!Own
<1>2. ServerInv /\ [ServerNext]_serverVars => [Life!Next]_Life!lifeVars
  <2> SUFFICES ASSUME ServerInv, [ServerNext]_serverVars
               PROVE  [Life!Next]_Life!lifeVars
    OBVIOUS
  <2> USE DEF ServerInv, Types, Stopping, Life!Next, Life!lifeVars, Life!Own, Alive
  <2>1. CASE Alive /\ IncomingTest
    BY <2>1 DEF IncomingTest, Life!EndThread, queue, responder, sessions
  <2>2. CASE IncomingNothing \/ IncomingNotify \/ \E kind \in Requests : IncomingPacket(kind)
    <3>1. /\ incoming # "exited" /\ incoming' # "exited"
          /\ UNCHANGED <<main, outgoing, io>>
          /\ notifying' \cap Sessions = notifying \cap Sessions
      BY <2>2, ServerAssumption DEF IncomingNothing, IncomingNotify, IncomingPacket,
         Queue!NotifyOne, Queue!Push, queue, responder, sessions
    <3> QED
      BY <3>1
  <2>3. CASE Alive /\ OutgoingTest
    BY <2>3 DEF OutgoingTest, Life!EndThread, queue, receiver, sessions
  <2>4. CASE OutgoingCalls
    BY <2>4 DEF OutgoingCalls, Queue!EnterPop, receiver, sessions
  <2>5. CASE Alive /\ OutgoingInPop
    BY <2>5 DEF OutgoingInPop, Life!EndThread, Queue!Lock, Queue!Wait, Queue!WakeUp,
       Queue!PopStopped, Queue!Pop, receiver, responder, sessions
  <2>6. ASSUME NEW s \in Sessions, StartSession(s) PROVE Life!Next
    BY <2>6 DEF StartSession, Life!StartSession, queue, receiver
  <2>7. CASE EmplaceSession \/ RefusePacket \/ VisitNotify
    BY <2>7 DEF EmplaceSession, RefusePacket, VisitNotify, queue, receiver, sessions
  <2>8. CASE EraseSession \/ JoinSession
    BY <2>8 DEF EraseSession, JoinSession, Destroy, Life!EndSessions, queue, receiver, responder
  <2>9. ASSUME NEW s \in Sessions, SessionDone(s) \/ SessionPushes(s) \/ SessionNotifies(s)
        PROVE  UNCHANGED Life!lifeVars
    BY <2>9 DEF SessionDone, SessionPushes, SessionNotifies, Queue!Push, Queue!NotifyOne, queue, receiver, responder
  <2>10. ASSUME NEW s \in Sessions, SessionThrows(s) PROVE Life!Abort
    BY <2>10 DEF SessionThrows, Life!Abort, queue, receiver, responder, sessions
  <2>11. CASE StopIncoming
    BY <2>11 DEF StopIncoming, Life!Cease, queue, responder, sessions
  <2>12. CASE JoinIncoming \/ JoinOutgoing
    BY <2>12 DEF JoinIncoming, JoinOutgoing, queue, receiver, responder, sessions
  <2>13. CASE StopOutgoing \/ StopCallback
    BY <2>13 DEF StopOutgoing, StopCallback, Queue!RequestStop, Queue!RunCallback, receiver, responder, sessions
  <2>14. ASSUME NEW s \in Sessions, StopSession(s) PROVE UNCHANGED Life!lifeVars
    BY <2>14 DEF StopSession, queue, receiver, responder
  <2>15. CASE DestroyServer
    BY <2>15 DEF DestroyServer, Owned, Emplacing, Life!Vanish, queue, receiver, responder, sessions
  <2>16. CASE UNCHANGED <<notifying, main, receiver, responder, sessions>>
    BY <2>16 DEF receiver, responder, sessions
  <2> HIDE DEF ServerInv, Types, Stopping
  <2> QED
    BY <2>1, <2>2, <2>3, <2>4, <2>5, <2>6, <2>7, <2>8, <2>9, <2>10, <2>11, <2>12, <2>13, <2>14,
       <2>15, <2>16
    DEF ServerNext, IncomingStep, OutgoingStep, SessionStep, MainStep, Queue!SpuriousWakeup,
        serverVars, queue
<1> QED
  BY <1>1, <1>2, InvAlways, PTL DEF ServerSpec, ImplementsServerLife, Life!Spec
=============================================================================
