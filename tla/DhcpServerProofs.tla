--------------------------- MODULE DhcpServerProofs ---------------------------
(* Theorems about DhcpServer, for every configuration, every set of datagrams, *)
(* and any number of them.                                                     *)
EXTENDS DhcpServer, SequenceTheorems, TLAPS

(* What the responder makes of a datagram, and the replies there can be.       *)
Offers == UNION {MakeOffer(p, OfferParams(section), message) :
                   p \in Packets, section \in DOMAIN Config, message \in {"offer", "ack"}}

DhcpReplies == [number : 1..MaxPackets, offer : Offers]

-----------------------------------------------------------------------------
(* Lemmas about the operators *)

(* The options of a section are among those an option table can hold.          *)
LEMMA OfferedCodes ==
  ASSUME NEW section
  PROVE  DOMAIN OfferParams(section).dhcp_options = {1, 3, 7, 12, 15, 51, 54, 58, 59, 67}
  BY DEF OfferParams

(* A reply has a message type, and no option but those an option table can     *)
(* hold, whatever codes its request asks for.                                  *)
LEMMA OfferIsTyped ==
  ASSUME NEW p \in Packets, NEW section, NEW message,
         NEW offer \in MakeOffer(p, OfferParams(section), message)
  PROVE  /\ 53 \in DOMAIN offer.options
         /\ DOMAIN offer.options \subseteq 1..254
         /\ offer.options[53] = message
         /\ offer.hardware_address = p.mac
         /\ offer.your_address = OfferParams(section).your_address
  BY OfferedCodes DEF MakeOffer

(* The address a reply promises is that of a section.                          *)
LEMMA AddressOfSection ==
  ASSUME NEW section
  PROVE  OfferParams(section).your_address = ValueOr(section, "v4_your_address", Unspecified)
  BY DEF OfferParams

(* The name a client is looked up by is in lower case already.                 *)
LEMMA LookedUpInLowercase ==
  ASSUME NEW mac
  PROVE  Lowercase([mac |-> mac, upper |-> FALSE]) = [mac |-> mac, upper |-> FALSE]
  BY DEF Lowercase

-----------------------------------------------------------------------------
(* The queue in the server: its one producer is the receiver, its consumer the *)
(* responder, and the main thread requests the stop.                           *)

QueueProofs == INSTANCE ConcurrentQueueProofs WITH
  m_queue <- m_packets, Items <- Numbered, Producers <- {Receiver}

(* The receiver numbers the datagrams it has taken, MaxPackets at most.        *)
Counted ==
  /\ received \in Seq(Packets)
  /\ Len(received) <= MaxPackets

(* What the receiver has taken is a sequence of datagrams, and no step changes *)
(* it but the arrival of another.                                              *)
LEMMA CountedAlways == DhcpSpec => []Counted
<1>1. DhcpInit => Counted
  BY EmptySeq, DhcpAssumption DEF DhcpInit, Counted
<1>2. Counted /\ [DhcpNext]_dhcpVars => Counted'
  <2> SUFFICES ASSUME Counted, [DhcpNext]_dhcpVars PROVE Counted'
    OBVIOUS
  <2> USE DEF Counted
  <2>1. ASSUME NEW p \in Packets, IncomingPacket(p) PROVE Counted'
    BY <2>1, DhcpAssumption, AppendProperties DEF IncomingPacket
  <2>2. CASE UNCHANGED received
    BY <2>2
  <2> QED
    BY <2>1, <2>2 DEF DhcpNext, IncomingStep, IncomingTest, IncomingNothing, IncomingNotify,
       OutgoingStep, OutgoingTest, OutgoingCalls, OutgoingInPop, Reply, Drop,
       Overrun, MainStep, StopIncoming, StopOutgoing, StopCallback, Join, dhcpVars
<1> QED
  BY <1>1, <1>2, PTL DEF DhcpSpec

(* The threads of the server keep to the rules of concurrent_queue, so that    *)
(* what is proved of the queue, whoever uses it, holds of this one.            *)
THEOREM UsesQueue == DhcpSpec => QueueProofs!Use
<1>1. DhcpInit => QueueProofs!Init
  BY DEF DhcpInit, Queue!Init, QueueProofs!Init
<1>2. Counted /\ [DhcpNext]_dhcpVars => [QueueProofs!Step]_QueueProofs!queueVars
  <2> SUFFICES ASSUME Counted, [DhcpNext]_dhcpVars
               PROVE  [QueueProofs!Step]_QueueProofs!queueVars
    OBVIOUS
  <2> USE DEF QueueProofs!Step, QueueProofs!PopStep
  <2>1. ASSUME NEW p \in Packets, IncomingPacket(p)
        PROVE  QueueProofs!Step
    <3> DEFINE e == [packet |-> p, number |-> Len(received) + 1]
    <3>1. e \in Numbered
      BY <2>1, DhcpAssumption, LenProperties DEF Counted, Numbered, IncomingPacket
    <3>2. QueueProofs!Push(Receiver, e)
      BY <2>1 DEF IncomingPacket, Queue!Push, QueueProofs!Push
    <3> QED
      BY <3>1, <3>2
  <2>2. CASE IncomingNotify
    BY <2>2 DEF IncomingNotify, Queue!NotifyOne, QueueProofs!NotifyOne,
       Queue!Notified, QueueProofs!Notified
  <2>3. CASE OutgoingCalls
    BY <2>3 DEF OutgoingCalls, Queue!EnterPop, QueueProofs!EnterPop
  <2>4. CASE OutgoingInPop
    BY <2>4 DEF OutgoingInPop, Queue!Lock, QueueProofs!Lock, Queue!Wait, QueueProofs!Wait,
       Queue!WakeUp, QueueProofs!WakeUp, Queue!PopStopped, QueueProofs!PopStopped,
       Queue!Pop, QueueProofs!Pop
  <2>5. CASE StopOutgoing
    BY <2>5 DEF StopOutgoing, Queue!RequestStop, QueueProofs!RequestStop
  <2>6. CASE StopCallback
    BY <2>6 DEF StopCallback, Queue!RunCallback, QueueProofs!RunCallback,
       Queue!Notified, QueueProofs!Notified
  <2>7. CASE Queue!SpuriousWakeup
    BY <2>7 DEF Queue!SpuriousWakeup, QueueProofs!SpuriousWakeup
  <2>8. CASE UNCHANGED queue
    BY <2>8 DEF queue, QueueProofs!queueVars
  <2> QED
    BY <2>1, <2>2, <2>3, <2>4, <2>5, <2>6, <2>7, <2>8
    DEF DhcpNext, IncomingStep, IncomingTest, IncomingNothing,
        OutgoingStep, OutgoingTest, Reply, Drop, Overrun,
        MainStep, StopIncoming, Join, dhcpVars
<1> QED
  BY <1>1, <1>2, CountedAlways, PTL DEF DhcpSpec, QueueProofs!Use

(* The responder of the server never sleeps while a request waits for it and   *)
(* nobody is about to wake it.                                                 *)
THEOREM RequestsWakeResponder == DhcpSpec => [](Queue!TypeOK /\ Queue!NoLostWakeup)
<1>1. MaxLength \in Nat
  BY DhcpAssumption
<1>2. QueueProofs!Use => []QueueProofs!TypeOK /\ []QueueProofs!NoLostWakeup
  BY <1>1, QueueProofs!UseTypes, QueueProofs!UseWakeup, PTL
<1>3. QueueProofs!TypeOK /\ QueueProofs!NoLostWakeup => Queue!TypeOK /\ Queue!NoLostWakeup
  BY DEF QueueProofs!TypeOK, QueueProofs!Places, Queue!TypeOK, Queue!Places,
         QueueProofs!NoLostWakeup, Queue!NoLostWakeup
<1> QED
  BY <1>2, <1>3, UsesQueue, PTL

-----------------------------------------------------------------------------
(* The inductive invariant: the places of the threads, the table of clients,   *)
(* and where each datagram is between its arrival and its reply.               *)

Types ==
  /\ main \in {"running", "stop_outgoing", "callback", "join", "exited", "aborted"}
  /\ incoming \in {"test", "recv", "notify", "exited"}
  /\ outgoing \in {"test", "call", "pop", "handle", "exited"}
  /\ packet \in Numbered \cup {None}
  /\ outgoing = "handle" => packet \in Numbered
  /\ replies \in Seq(DhcpReplies)

(* No step changes the table that initialize makes.                            *)
Table == m_clients = [section \in DOMAIN Config |-> OfferParams(Lowercase(section))]

(* A packet carries the number of a datagram that arrived, and its content.    *)
IsReceived(e, taken) ==
  /\ e.number <= Len(taken)
  /\ e.packet = taken[e.number]

(* The datagrams in the queue, the one the responder handles, and those it has *)
(* answered are each of lower numbers than what came after them.               *)
Ordered ==
  /\ \A i \in 1..Len(m_packets) : IsReceived(m_packets[i], received)
  /\ \A i, j \in 1..Len(m_packets) : i < j => m_packets[i].number < m_packets[j].number
  /\ outgoing = "handle" =>
       /\ IsReceived(packet, received)
       /\ \A i \in 1..Len(m_packets) : packet.number < m_packets[i].number
  /\ \A k \in 1..Len(replies) :
       /\ replies[k].number <= Len(received)
       /\ outgoing = "handle" => replies[k].number < packet.number
       /\ \A i \in 1..Len(m_packets) : replies[k].number < m_packets[i].number

(* What RepliesFollowRequests says of one reply.                               *)
Follows(reply, taken) ==
  LET asked == taken[reply.number]
  IN /\ reply.offer.hardware_address = asked.mac
     /\ reply.offer.options[53] = IF asked.message = "discover" THEN "offer" ELSE "ack"
     /\ reply.offer.your_address # Unspecified =>
          reply.offer.your_address = Config[[mac |-> asked.mac, upper |-> FALSE]].v4_your_address

RepliesInv ==
  /\ \A i, j \in 1..Len(replies) : i < j => replies[i].number < replies[j].number
  /\ \A i \in 1..Len(replies) : Follows(replies[i], received)

DhcpInv == Counted /\ Types /\ Table /\ Ordered /\ RepliesInv

(* Every reply is made for a datagram, from the section of its computer.       *)
LEMMA ReplyIsOffer ==
  ASSUME DhcpInv, Reply
  PROVE  \E reply \in DhcpReplies :
           /\ replies' = Append(replies, reply)
           /\ reply.number = packet.number
           /\ Follows(reply, received)
<1> DEFINE p == packet.packet
           section == [mac |-> p.mac, upper |-> FALSE]
           message == IF p.message = "discover" THEN "offer" ELSE "ack"
<1>1. /\ packet \in Numbered
      /\ p \in Packets
      /\ p = received[packet.number]
  BY DEF Reply, DhcpInv, Types, Ordered, IsReceived, Numbered
<1>2. /\ section \in DOMAIN Config
      /\ m_clients[section] = OfferParams(section)
  BY LookedUpInLowercase DEF Reply, Answers, DhcpInv, Table
<1>3. PICK offer \in MakeOffer(p, OfferParams(section), message) :
        replies' = Append(replies, [number |-> packet.number, offer |-> offer])
  BY <1>2 DEF Reply
<1> DEFINE reply == [number |-> packet.number, offer |-> offer]
<1> HIDE DEF section
<1>4. reply \in DhcpReplies
  BY <1>1, <1>2 DEF DhcpReplies, Offers, Numbered
<1>5. /\ reply.offer.hardware_address = p.mac
      /\ reply.offer.options[53] = message
      /\ reply.offer.your_address = OfferParams(section).your_address
  BY <1>1, OfferIsTyped
<1>6. OfferParams(section).your_address # Unspecified =>
        OfferParams(section).your_address = Config[section].v4_your_address
  BY AddressOfSection DEF ValueOr
<1>7. Follows(reply, received)
  BY <1>1, <1>5, <1>6 DEF Follows, section
<1> QED
  BY <1>3, <1>4, <1>7

(* The steps of the queue, of main and of the responder's own control leave    *)
(* the datagrams and the replies alone.                                        *)
datagrams == <<m_packets, m_clients, packet, received, replies>>

(* Nothing has been received, and nothing answered.                            *)
LEMMA InvInit == DhcpInit => DhcpInv
  BY EmptySeq, DhcpAssumption
  DEF DhcpInit, Queue!Init, DhcpInv, Counted, Types, Table, Ordered, RepliesInv

(* A datagram enters the queue behind all others, with the highest number.     *)
LEMMA InvPacket ==
  ASSUME DhcpInv, Queue!TypeOK, NEW p \in Packets, IncomingPacket(p)
  PROVE  DhcpInv'
<1> DEFINE e == [packet |-> p, number |-> Len(received) + 1]
<1> USE DEF DhcpInv
<1>1. /\ m_packets' = Append(m_packets, e)
      /\ received' = Append(received, p)
      /\ UNCHANGED <<m_clients, main, incoming_stop, outgoing, packet, replies>>
      /\ incoming' = "notify"
      /\ Len(received) < MaxPackets
  BY DEF IncomingPacket, Queue!Push
<1>2. /\ m_packets \in Seq(Numbered)
      /\ received \in Seq(Packets)
      /\ e \in Numbered
  BY <1>1, DhcpAssumption, LenProperties DEF Queue!TypeOK, Counted, Numbered
<1>3. /\ Len(received') = Len(received) + 1
      /\ \A n \in 1..Len(received) : received'[n] = received[n]
      /\ received'[Len(received) + 1] = p
  BY <1>1, <1>2, AppendProperties
<1>4. /\ Len(m_packets') = Len(m_packets) + 1
      /\ \A i \in 1..Len(m_packets) : m_packets'[i] = m_packets[i] /\ m_packets[i] \in Numbered
      /\ m_packets'[Len(m_packets) + 1] = e
  BY <1>1, <1>2, AppendProperties
<1>5. /\ Len(m_packets) \in Nat
      /\ Len(received) \in Nat
      /\ Len(replies) \in Nat
      /\ \A k \in 1..Len(replies) : replies[k] \in DhcpReplies
  BY <1>2, LenProperties, ElementOfSeq DEF Types
<1>6. Counted'
  BY <1>1, <1>2, <1>3, <1>5, AppendProperties, DhcpAssumption DEF Counted
<1>7. Types' /\ Table'
  BY <1>1 DEF Types, Table
<1>8. \A f \in Numbered : IsReceived(f, received) => IsReceived(f, received')
  BY <1>3, <1>5 DEF IsReceived, Numbered
<1>9. IsReceived(e, received')
  BY <1>3, <1>5 DEF IsReceived
<1>10. Ordered'
  <2>1. \A i \in 1..Len(m_packets') : IsReceived(m_packets'[i], received')
    BY <1>4, <1>5, <1>8, <1>9 DEF Ordered
  <2>2. ASSUME NEW i \in 1..Len(m_packets'), NEW j \in 1..Len(m_packets'), i < j
        PROVE  m_packets'[i].number < m_packets'[j].number
    <3>1. i \in 1..Len(m_packets) /\ m_packets'[i] = m_packets[i]
      BY <1>4, <1>5, <2>2
    <3>2. CASE j \in 1..Len(m_packets)
      BY <1>4, <2>2, <3>1, <3>2 DEF Ordered
    <3>3. CASE j = Len(m_packets) + 1
      <4>1. m_packets[i].number \in Nat /\ m_packets[i].number <= Len(received)
        BY <1>4, <3>1 DEF Ordered, IsReceived, Numbered
      <4>2. m_packets'[j].number = Len(received) + 1
        BY <1>4, <3>3
      <4> QED
        BY <1>5, <3>1, <4>1, <4>2
    <3> QED
      BY <1>4, <1>5, <3>2, <3>3
  <2>3. outgoing' = "handle" =>
          /\ IsReceived(packet', received')
          /\ \A i \in 1..Len(m_packets') : packet'.number < m_packets'[i].number
    BY <1>1, <1>4, <1>5, <1>8 DEF Ordered, IsReceived, Types, Numbered
  <2>4. \A k \in 1..Len(replies') :
          /\ replies'[k].number <= Len(received')
          /\ outgoing' = "handle" => replies'[k].number < packet'.number
          /\ \A i \in 1..Len(m_packets') : replies'[k].number < m_packets'[i].number
    BY <1>1, <1>3, <1>4, <1>5 DEF Ordered, DhcpReplies, Numbered
  <2> QED
    BY <2>1, <2>2, <2>3, <2>4 DEF Ordered
<1>11. RepliesInv'
  BY <1>1, <1>3, <1>5 DEF RepliesInv, Ordered, Follows, DhcpReplies
<1> QED
  BY <1>6, <1>7, <1>10, <1>11

(* The responder takes the datagram at the head, which has the lowest number   *)
(* of those in the queue, and a higher one than every reply.                   *)
LEMMA InvPop ==
  ASSUME DhcpInv, Queue!TypeOK, NEW e \in Numbered, Queue!Pop(e),
         packet' = e, outgoing' = "handle",
         UNCHANGED <<m_clients, main, incoming, incoming_stop, received, replies>>
  PROVE  DhcpInv'
<1> USE DEF DhcpInv
<1>1. /\ m_packets # <<>>
      /\ e = Head(m_packets)
      /\ m_packets' = Tail(m_packets)
      /\ m_packets \in Seq(Numbered)
  BY DEF Queue!Pop, Queue!TypeOK
<1>2. /\ Len(m_packets) \in Nat \ {0}
      /\ Len(m_packets') = Len(m_packets) - 1
      /\ \A i \in 1..Len(m_packets') : m_packets'[i] = m_packets[i+1]
      /\ m_packets[1] = e
      /\ \A i \in 1..Len(m_packets) : m_packets[i] \in Numbered
  BY <1>1, HeadTailProperties, EmptySeq, LenProperties, ElementOfSeq
<1>3. Counted' /\ Types' /\ Table' /\ RepliesInv'
  BY DEF Counted, Types, Table, RepliesInv, Follows
<1>4. /\ \A i \in 1..Len(m_packets') : IsReceived(m_packets'[i], received')
      /\ \A i, j \in 1..Len(m_packets') : i < j => m_packets'[i].number < m_packets'[j].number
  <2>1. \A i \in 1..Len(m_packets') : IsReceived(m_packets'[i], received')
    BY <1>2 DEF Ordered
  <2>2. ASSUME NEW i \in 1..Len(m_packets'), NEW j \in 1..Len(m_packets'), i < j
        PROVE  m_packets'[i].number < m_packets'[j].number
    <3>1. i + 1 \in 1..Len(m_packets) /\ j + 1 \in 1..Len(m_packets) /\ i + 1 < j + 1
      BY <1>2, <2>2
    <3> QED
      BY <1>2, <3>1 DEF Ordered
  <2> QED
    BY <2>1, <2>2
<1>5. /\ IsReceived(packet', received')
      /\ \A i \in 1..Len(m_packets') : packet'.number < m_packets'[i].number
  BY <1>2 DEF Ordered
<1>6. ASSUME NEW k \in 1..Len(replies')
      PROVE  /\ replies'[k].number <= Len(received')
             /\ replies'[k].number < packet'.number
             /\ \A i \in 1..Len(m_packets') : replies'[k].number < m_packets'[i].number
  <2>1. /\ replies'[k].number <= Len(received)
        /\ \A i \in 1..Len(m_packets) : replies'[k].number < m_packets[i].number
    BY DEF Ordered
  <2>2. 1 \in 1..Len(m_packets) /\ \A i \in 1..Len(m_packets') : i + 1 \in 1..Len(m_packets)
    BY <1>2
  <2>3. replies'[k].number < packet'.number
    BY <1>2, <2>1, <2>2
  <2> QED
    BY <1>2, <2>1, <2>2, <2>3
<1>7. Ordered'
  BY <1>4, <1>5, <1>6 DEF Ordered
<1> QED
  BY <1>3, <1>7

(* The responder is done with the datagram, with or without a reply.           *)
LEMMA InvDrop ==
  ASSUME DhcpInv, Drop
  PROVE  DhcpInv'
  BY DEF DhcpInv, Drop, queue, Counted, Types, Table, Ordered, RepliesInv, Follows

(* A reply goes out for the datagram in the hands of the responder.            *)
LEMMA InvReply ==
  ASSUME DhcpInv, Reply
  PROVE  DhcpInv'
<1> USE DEF DhcpInv
<1>1. PICK reply \in DhcpReplies :
        /\ replies' = Append(replies, reply)
        /\ reply.number = packet.number
        /\ Follows(reply, received)
  BY ReplyIsOffer
<1>2. /\ outgoing = "handle" /\ outgoing' = "test" /\ packet' = None
      /\ UNCHANGED <<m_packets, m_clients, main, incoming, incoming_stop, received>>
  BY DEF Reply, queue
<1>3. /\ replies \in Seq(DhcpReplies)
      /\ Len(replies) \in Nat
      /\ Len(replies') = Len(replies) + 1
      /\ \A k \in 1..Len(replies) : replies'[k] = replies[k]
      /\ replies'[Len(replies) + 1] = reply
      /\ replies' \in Seq(DhcpReplies)
  BY <1>1, AppendProperties, LenProperties DEF Types
<1>4. Counted' /\ Types' /\ Table'
  BY <1>2, <1>3 DEF Counted, Types, Table
<1>5. Ordered'
  BY <1>1, <1>2, <1>3 DEF Ordered, IsReceived
<1>6. RepliesInv'
  <2>1. \A i, j \in 1..Len(replies') : i < j => replies'[i].number < replies'[j].number
    BY <1>1, <1>2, <1>3 DEF RepliesInv, Ordered
  <2>2. \A i \in 1..Len(replies') : Follows(replies'[i], received')
    BY <1>1, <1>2, <1>3 DEF RepliesInv
  <2> QED
    BY <2>1, <2>2 DEF RepliesInv
<1> QED
  BY <1>4, <1>5, <1>6

(* Every step of every thread keeps the invariant. That of the queue, which    *)
(* the theorem about the queue gives, bounds what is in it.                    *)
LEMMA InvStep ==
  ASSUME DhcpInv, Queue!TypeOK, [DhcpNext]_dhcpVars
  PROVE  DhcpInv'
<1>1. ASSUME NEW p \in Packets, IncomingPacket(p) PROVE DhcpInv'
  BY <1>1, InvPacket
<1>2. ASSUME OutgoingInPop, NEW e \in Numbered, Queue!Pop(e),
             packet' = e, outgoing' = "handle"
      PROVE  DhcpInv'
  BY <1>2, InvPop DEF OutgoingInPop
<1>3. CASE Reply
  BY <1>3, InvReply
<1>4. CASE Drop
  BY <1>4, InvDrop
<1>5. ASSUME UNCHANGED datagrams, Types', outgoing' = "handle" => outgoing = "handle"
      PROVE  DhcpInv'
  <2>1. Counted' /\ Table' /\ RepliesInv'
    BY <1>5 DEF DhcpInv, Counted, Table, RepliesInv, datagrams
  <2>2. Ordered'
    BY <1>5 DEF DhcpInv, Ordered, datagrams
  <2> QED
    BY <1>5, <2>1, <2>2 DEF DhcpInv
<1> USE DEF DhcpInv, Types, datagrams, queue
<1>6. CASE IncomingTest \/ IncomingNothing
  BY <1>5, <1>6 DEF IncomingTest, IncomingNothing
<1>7. CASE IncomingNotify
  BY <1>5, <1>7 DEF IncomingNotify, Queue!NotifyOne
<1>8. CASE OutgoingTest
  BY <1>5, <1>8 DEF OutgoingTest
<1>9. CASE OutgoingCalls
  BY <1>5, <1>9 DEF OutgoingCalls, Queue!EnterPop
<1>10. ASSUME OutgoingInPop, \/ (Queue!Lock \/ Queue!Wait \/ Queue!WakeUp) /\ UNCHANGED <<outgoing, packet>>
                             \/ Queue!PopStopped /\ outgoing' = "exited" /\ UNCHANGED packet
       PROVE  DhcpInv'
  BY <1>5, <1>10 DEF OutgoingInPop, Queue!Lock, Queue!Wait, Queue!WakeUp, Queue!PopStopped
<1>11. CASE StopIncoming \/ Join \/ Overrun
  BY <1>5, <1>11 DEF StopIncoming, Join, Overrun
<1>12. CASE StopOutgoing
  BY <1>5, <1>12 DEF StopOutgoing, Queue!RequestStop
<1>13. CASE StopCallback
  BY <1>5, <1>13 DEF StopCallback, Queue!RunCallback
<1>14. CASE /\ Queue!SpuriousWakeup
            /\ UNCHANGED <<m_clients, main, incoming, incoming_stop, outgoing, packet, received, replies>>
  BY <1>5, <1>14 DEF Queue!SpuriousWakeup
<1>15. CASE UNCHANGED dhcpVars
  BY <1>5, <1>15 DEF dhcpVars
<1>16. OutgoingInPop => DhcpInv'
  BY <1>2, <1>10 DEF OutgoingInPop
<1> QED
  BY <1>1, <1>3, <1>4, <1>6, <1>7, <1>8, <1>9, <1>11, <1>12, <1>13, <1>14, <1>15, <1>16
  DEF DhcpNext, IncomingStep, OutgoingStep, MainStep

(* The invariant, with that of the queue, is inductive.                        *)
LEMMA InvAlways == DhcpSpec => [](Queue!TypeOK /\ DhcpInv)
  BY InvInit, InvStep, RequestsWakeResponder, PTL DEF DhcpSpec

-----------------------------------------------------------------------------
(* The types, and that a reply always has a message type and no code that an   *)
(* option table cannot hold, for every configuration and whatever arrives.     *)
THEOREM DhcpTypeCorrect == DhcpSpec => []DhcpTypeOK
<1>1. Queue!TypeOK /\ DhcpInv => DhcpTypeOK
  <2> SUFFICES ASSUME Queue!TypeOK, DhcpInv PROVE DhcpTypeOK
    OBVIOUS
  <2>1. ASSUME NEW i \in 1..Len(replies)
        PROVE  /\ DOMAIN replies[i].offer.options \subseteq 1..254
               /\ 53 \in DOMAIN replies[i].offer.options
    <3>1. replies \in Seq(DhcpReplies) /\ replies[i] \in DhcpReplies
      BY ElementOfSeq DEF DhcpInv, Types
    <3>2. PICK p \in Packets, section \in DOMAIN Config, message \in {"offer", "ack"} :
            replies[i].offer \in MakeOffer(p, OfferParams(section), message)
      BY <3>1 DEF DhcpReplies, Offers
    <3>3. ASSUME NEW offer \in MakeOffer(p, OfferParams(section), message)
          PROVE  DOMAIN offer.options \subseteq 1..254 /\ 53 \in DOMAIN offer.options
      BY OfferIsTyped
    <3> QED
      BY <3>2, <3>3
  <2> QED
    BY <2>1 DEF DhcpInv, Types, Counted, DhcpTypeOK
<1> QED
  BY <1>1, InvAlways, PTL

(* Replies go out in the order of the requests, at most one for each, to the   *)
(* computer that asked, of the kind it asked for and with the address of its   *)
(* own section, whatever the interleaving of the two threads: because the      *)
(* datagrams in the queue, in the responder's hands and answered are numbered  *)
(* in that order.                                                              *)
THEOREM RepliesFollow == DhcpSpec => []RepliesFollowRequests
<1>1. DhcpInv => RepliesFollowRequests
  <2> SUFFICES ASSUME DhcpInv, NEW i \in 1..Len(replies)
               PROVE  /\ i > 1 => replies[i-1].number < replies[i].number
                      /\ Follows(replies[i], received)
    BY DEF RepliesFollowRequests, Follows
  <2> QED
    BY LenProperties DEF DhcpInv, Types, RepliesInv
<1> QED
  BY <1>1, InvAlways, PTL

-----------------------------------------------------------------------------
(* The server as main() sees it: which thread runs depends on how far the      *)
(* destructor has got.                                                         *)

LifeInv ==
  /\ main = "running" => ~incoming_stop
  /\ incoming = "exited" => incoming_stop
  /\ outgoing = "exited" => stop # "no"
  /\ stop # "no" => main \notin {"running", "stop_outgoing"}
  /\ main = "exited" => incoming = "exited" /\ outgoing = "exited"

(* What the threads and the destructor know of each other is inductive.        *)
LEMMA LifeInvAlways == DhcpSpec => []LifeInv
<1>1. DhcpInit => LifeInv
  BY DEF DhcpInit, Queue!Init, LifeInv
<1>2. LifeInv /\ [DhcpNext]_dhcpVars => LifeInv'
  <2> SUFFICES ASSUME LifeInv, [DhcpNext]_dhcpVars PROVE LifeInv'
    OBVIOUS
  <2> USE DEF LifeInv, queue
  <2>1. CASE IncomingTest \/ IncomingNothing
    BY <2>1 DEF IncomingTest, IncomingNothing
  <2>2. CASE IncomingNotify
    BY <2>2 DEF IncomingNotify, Queue!NotifyOne
  <2>3. ASSUME NEW p \in Packets, IncomingPacket(p) PROVE LifeInv'
    <3>1. /\ incoming = "recv" /\ incoming' = "notify"
          /\ UNCHANGED <<main, incoming_stop, outgoing, stop>>
      BY <2>3 DEF IncomingPacket, Queue!Push
    <3> QED
      BY <3>1
  <2>4. CASE OutgoingTest \/ OutgoingCalls
    BY <2>4 DEF OutgoingTest, OutgoingCalls, Queue!EnterPop
  <2>5. CASE OutgoingInPop
    BY <2>5 DEF OutgoingInPop, Queue!Lock, Queue!Wait, Queue!WakeUp, Queue!PopStopped, Queue!Pop
  <2>6. CASE Reply \/ Drop \/ Overrun
    BY <2>6 DEF Reply, Drop, Overrun
  <2>7. CASE StopIncoming
    BY <2>7 DEF StopIncoming
  <2>8. CASE StopOutgoing \/ StopCallback
    BY <2>8 DEF StopOutgoing, StopCallback, Queue!RequestStop, Queue!RunCallback
  <2>9. CASE Join
    BY <2>9 DEF Join
  <2>10. CASE Queue!SpuriousWakeup /\ UNCHANGED <<main, incoming, incoming_stop, outgoing>>
    BY <2>10 DEF Queue!SpuriousWakeup
  <2>11. CASE UNCHANGED dhcpVars
    BY <2>11 DEF dhcpVars
  <2> QED
    BY <2>1, <2>2, <2>3, <2>4, <2>5, <2>6, <2>7, <2>8, <2>9, <2>10, <2>11
    DEF DhcpNext, IncomingStep, OutgoingStep, MainStep
<1> QED
  BY <1>1, <1>2, PTL DEF DhcpSpec

(* What ends the process is a request, out of those received, from a computer  *)
(* that has a section, for an option that no table has a place for.            *)
EndsProcess(p) == Answers(p) /\ OutOfBounds(p)

EndInv == main = "aborted" => \E k \in 1..Len(received) : EndsProcess(received[k])

(* The process ends in the hands of the responder, over what it has from the   *)
(* receiver, and nothing happens after that.                                   *)
LEMMA EndInvAlways == DhcpSpec => []EndInv
<1>1. DhcpInit => EndInv
  BY DEF DhcpInit, EndInv
<1>2. DhcpInv /\ EndInv /\ [DhcpNext]_dhcpVars => EndInv'
  <2> SUFFICES ASSUME DhcpInv, EndInv, [DhcpNext]_dhcpVars PROVE EndInv'
    OBVIOUS
  <2>1. CASE Overrun
    <3>1. /\ packet \in Numbered
          /\ IsReceived(packet, received)
          /\ EndsProcess(packet.packet)
      BY <2>1 DEF Overrun, DhcpInv, Types, Ordered, EndsProcess
    <3>2. packet.number \in 1..Len(received) /\ EndsProcess(received[packet.number])
      BY <3>1 DEF IsReceived, Numbered
    <3>3. UNCHANGED <<received, m_clients>>
      BY <2>1 DEF Overrun
    <3> QED
      BY <3>2, <3>3 DEF EndInv, EndsProcess, Answers
  <2>2. CASE UNCHANGED dhcpVars
    BY <2>2 DEF dhcpVars, EndInv, EndsProcess, Answers
  <2>3. CASE main' # "aborted"
    BY <2>3 DEF EndInv
  <2> QED
    BY <2>1, <2>2, <2>3
    DEF DhcpNext, Alive, IncomingStep, IncomingTest, IncomingNothing, IncomingNotify,
        IncomingPacket, OutgoingStep, OutgoingTest, OutgoingCalls, OutgoingInPop, Reply, Drop,
        MainStep, StopIncoming, StopOutgoing, StopCallback, Join
<1> QED
  BY <1>1, <1>2, InvAlways, PTL DEF DhcpSpec

(* The server implements ServerLife: no packet ends a thread alone, the        *)
(* threads run until the destructor tells them to stop, and it does not return *)
(* before both have ended. The process ends before that only over a request,   *)
(* of a computer that has a section, for option 0 or 255.                      *)
THEOREM DhcpServerLives == DhcpSpec => ImplementsServerLife
<1>1. DhcpInit => Life!Init
  BY DEF DhcpInit, Life!Init, Life!Own
<1>2. Types /\ LifeInv /\ [DhcpNext]_dhcpVars => [Life!Next]_Life!lifeVars
  <2> SUFFICES ASSUME Types, LifeInv, [DhcpNext]_dhcpVars
               PROVE  [Life!Next]_Life!lifeVars
    OBVIOUS
  <2>1. CASE UNCHANGED <<main, incoming, outgoing>>
    BY <2>1 DEF Life!lifeVars
  <2>2. CASE DhcpNext
    <3> USE <2>2 DEF Types, LifeInv, Life!Next, Life!lifeVars, Life!Own
    <3>0. Alive
      BY DEF DhcpNext
    <3>1. CASE IncomingTest
      BY <3>0, <3>1 DEF IncomingTest, Life!EndThread, Alive
    <3>2. CASE IncomingNothing \/ IncomingNotify \/ \E p \in Packets : IncomingPacket(p)
      BY <3>2 DEF IncomingNothing, IncomingNotify, IncomingPacket
    <3>3. CASE OutgoingTest
      BY <3>0, <3>3 DEF OutgoingTest, Life!EndThread, Alive
    <3>4. CASE OutgoingCalls
      BY <3>4 DEF OutgoingCalls
    <3>5. CASE OutgoingInPop
      BY <3>0, <3>5 DEF OutgoingInPop, Life!EndThread, Queue!PopStopped, Alive
    <3>6. CASE Reply \/ Drop
      BY <3>6 DEF Reply, Drop
    <3>7. CASE StopIncoming
      BY <3>7 DEF StopIncoming, Life!Cease
    <3>8. CASE StopOutgoing \/ StopCallback
      BY <3>8 DEF StopOutgoing, StopCallback
    <3>9. CASE Join
      BY <3>9 DEF Join, Life!Vanish
    <3>10. CASE Overrun
      BY <3>10 DEF Overrun, Life!Abort
    <3> QED
      BY <2>1, <3>1, <3>2, <3>3, <3>4, <3>5, <3>6, <3>7, <3>8, <3>9, <3>10
      DEF DhcpNext, IncomingStep, OutgoingStep, MainStep
  <2> QED
    BY <2>1, <2>2 DEF dhcpVars
<1>3. DhcpInv => Types
  BY DEF DhcpInv
<1>4. DhcpSpec => Life!Spec
  BY <1>1, <1>2, <1>3, InvAlways, LifeInvAlways, PTL DEF DhcpSpec, Life!Spec
<1>5. EndInv => (main = "aborted" =>
                   \E k \in 1..Len(received) : Answers(received[k]) /\ OutOfBounds(received[k]))
  BY DEF EndInv, EndsProcess
<1> QED
  BY <1>4, <1>5, EndInvAlways, PTL DEF ImplementsServerLife
=============================================================================
