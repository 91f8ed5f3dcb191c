------------------------------ MODULE DhcpServer ------------------------------
(* dhcp_server_v4 (bootpd/dhcp_server_v4.cpp): the table of clients it makes   *)
(* from the configuration, the receiver thread, the responder thread, the      *)
(* queue of packets between them, and the main thread that destroys it.        *)
EXTENDS Naturals, Sequences, Functions

CONSTANTS
  Config,      \* config_ini: a function on sections to functions on names
  Unspecified, \* the address 0.0.0.0, which most addresses default to
  Packets,     \* the datagrams that arrive: see PacketAssumption
  Receiver,    \* the receiver thread
  None,
  SendsFail,   \* whether the socket may refuse to send a reply
  MaxLength,   \* bound on the queue when a datagram arrives
  MaxPackets   \* bound on the datagrams that arrive

(* A section is named by a MAC address, written in lower or in upper case.     *)
Lowercase(section) == [mac |-> section.mac, upper |-> FALSE]

(* opcode is 1 for a request and 2 for a response; message is option 53, or    *)
(* "none" without it; malformed packets make the parser throw. params is the   *)
(* option 55: the codes that the client asks for, bytes of its choice.         *)
PacketAssumption ==
  \A p \in Packets :
    /\ p.opcode \in {1, 2}
    /\ p.message \in {"none", "discover", "request", "other"}
    /\ p.params \subseteq 0..255
    /\ p.malformed \in BOOLEAN

ASSUME DhcpAssumption ==
  /\ PacketAssumption
  /\ \A section \in DOMAIN Config : section.upper \in BOOLEAN
  /\ SendsFail \in BOOLEAN
  /\ MaxPackets \in Nat
  /\ MaxLength \in Nat

VARIABLES
  m_packets, popper, registered, stop, notifying,  \* the queue, with the responder's stop
  m_clients,
  main,          \* the main thread: "running", the steps of the destructor, "exited",
                 \* or "aborted": the process has ended
  incoming,      \* thread_incoming: "test", "recv", "notify", "exited"
  incoming_stop,
  outgoing,      \* thread_outgoing: "test", "call", "pop", "handle", "exited"
  packet,        \* packet_v, with the number of its datagram
  received,      \* the datagrams received so far
  replies        \* the replies sent so far

Numbered == [packet : Packets, number : 1..MaxPackets]

Queue == INSTANCE ConcurrentQueue WITH
  m_queue <- m_packets, Items <- Numbered, Producers <- {Receiver}

queue == <<m_packets, popper, registered, stop, notifying>>
dhcpVars == <<queue, m_clients, main, incoming, incoming_stop, outgoing, packet, received, replies>>

-----------------------------------------------------------------------------
(* initialize_client: offer_params of a client, from the section of that name. *)

ValueOr(section, name, default) ==
  IF section \in DOMAIN Config /\ name \in DOMAIN Config[section]
  THEN Config[section][name] ELSE default

OfferParams(section) ==
  LET address(name) == ValueOr(section, name, Unspecified)
      server == address("v4_server_address")
      host == ValueOr(section, "server_host_name", "")
      boot == ValueOr(section, "boot_file_name", "")
  IN [client_address  |-> address("v4_client_address"),
      your_address    |-> address("v4_your_address"),
      server_address  |-> server,
      gateway_address |-> address("v4_gateway_address"),
      server_host_name |-> host,
      boot_file_name  |-> boot,
      dhcp_options    |-> [code \in {1, 3, 7, 12, 15, 51, 54, 58, 59, 67} |->
         CASE code = 1 -> address("v4_subnet_mask")
           [] code = 3 -> ValueOr(section, "v4_router_address", server)
           [] code = 7 -> ValueOr(section, "v4_log_server_address", server)
           [] code = 12 -> host
           [] code = 15 -> ValueOr(section, "domain_name", "localhost")
           [] code = 51 -> ValueOr(section, "address_lease_time", 172800)
           [] code = 54 -> ValueOr(section, "v4_dhcp_server_address", server)
           [] code = 58 -> ValueOr(section, "address_renewal_time", 86400)
           [] code = 59 -> ValueOr(section, "address_rebinding_time", 7200)
           [] OTHER -> boot]]

(* `assign` takes the value at code - 1 of an array of 254 and does not look   *)
(* at the code. For 0 that is the unsigned 0xFFFFFFFF, where no memory is. For *)
(* 255 it is the word behind the array: with the checks of a debug build the   *)
(* process ends; without them it may, or goes on as though the code were not   *)
(* asked for.                                                                  *)
OutOfBounds(p) == p.params \cap {0, 255} # {}

(* Mutant of MakeOffer: a reply without a message type. *)
MakeOfferUntyped(p, params, message) ==
  IF 0 \in p.params THEN {} ELSE
  {[hardware_address |-> p.mac,
    your_address     |-> params.your_address,
    options          |-> Restrict(params.dhcp_options, p.params \cap DOMAIN params.dhcp_options)]}

(* make_offer, with the message type the responder gives the reply: the offers *)
(* it may return, none when `assign` cannot return.                            *)
MakeOffer(p, params, message) ==
  LET asked == p.params \cup {54, 51, 58, 59, 7, 15}
      chosen == asked \cap DOMAIN params.dhcp_options
  IN
  IF 0 \in p.params THEN {} ELSE
  {[hardware_address |-> p.mac,
    client_address   |-> params.client_address,
    your_address     |-> params.your_address,
    server_address   |-> params.server_address,
    gateway_address  |-> params.gateway_address,
    server_host_name |-> params.server_host_name,
    boot_file_name   |-> params.boot_file_name,
    options |-> [code \in {53} \cup chosen |->
                   IF code = 53 THEN message ELSE params.dhcp_options[code]]]}

(* The constructor, initialize and start.                                      *)
DhcpInit ==
  /\ Queue!Init
  /\ m_clients = [section \in DOMAIN Config |-> OfferParams(Lowercase(section))]
  /\ main = "running"
  /\ incoming = "test"
  /\ incoming_stop = FALSE
  /\ outgoing = "test"
  /\ packet = None
  /\ received = <<>>
  /\ replies = <<>>

-----------------------------------------------------------------------------
(* thread_incoming *)

IncomingTest ==
  /\ incoming = "test"
  /\ incoming' = IF incoming_stop THEN "exited" ELSE "recv"
  /\ UNCHANGED <<queue, m_clients, main, incoming_stop, outgoing, packet, received, replies>>

(* recv times out after 500ms, or throws. *)
IncomingNothing ==
  /\ incoming = "recv"
  /\ incoming' = "test"
  /\ UNCHANGED <<queue, m_clients, main, incoming_stop, outgoing, packet, received, replies>>

IncomingPacket(p) ==
  /\ incoming = "recv"
  /\ Len(m_packets) < MaxLength
  /\ Len(received) < MaxPackets
  /\ Queue!Push(Receiver, [packet |-> p, number |-> Len(received) + 1])
  /\ received' = Append(received, p)
  /\ incoming' = "notify"
  /\ UNCHANGED <<m_clients, main, incoming_stop, outgoing, packet, replies>>

IncomingNotify ==
  /\ incoming = "notify"
  /\ Queue!NotifyOne(Receiver)
  /\ incoming' = "test"
  /\ UNCHANGED <<m_clients, main, incoming_stop, outgoing, packet, received, replies>>

-----------------------------------------------------------------------------
(* thread_outgoing *)

OutgoingTest ==
  /\ outgoing = "test"
  /\ outgoing' = IF stop # "no" THEN "exited" ELSE "call"
  /\ UNCHANGED <<queue, m_clients, main, incoming, incoming_stop, packet, received, replies>>

OutgoingCalls ==
  /\ outgoing = "call"
  /\ Queue!EnterPop
  /\ outgoing' = "pop"
  /\ UNCHANGED <<m_clients, main, incoming, incoming_stop, packet, received, replies>>

(* Inside m_packets.pop(st). *)
OutgoingInPop ==
  /\ outgoing = "pop"
  /\ \/ (Queue!Lock \/ Queue!Wait \/ Queue!WakeUp) /\ UNCHANGED <<outgoing, packet>>
     \/ Queue!PopStopped /\ outgoing' = "exited" /\ UNCHANGED packet
     \/ \E e \in Numbered : Queue!Pop(e) /\ packet' = e /\ outgoing' = "handle"
  /\ UNCHANGED <<m_clients, main, incoming, incoming_stop, received, replies>>

Answers(p) ==
  /\ ~p.malformed
  /\ p.opcode = 1
  /\ p.message \in {"discover", "request"}
  /\ [mac |-> p.mac, upper |-> FALSE] \in DOMAIN m_clients

(* Mutant of Reply: every reply is an OFFER. *)
ReplyOffer ==
  /\ outgoing = "handle"
  /\ Answers(packet.packet)
  /\ LET params == m_clients[[mac |-> packet.packet.mac, upper |-> FALSE]]
     IN \E offer \in MakeOffer(packet.packet, params, "offer") :
          replies' = Append(replies, [number |-> packet.number, offer |-> offer])
  /\ outgoing' = "test"
  /\ packet' = None
  /\ UNCHANGED <<queue, m_clients, main, incoming, incoming_stop, received>>

(* A DISCOVER is answered by an OFFER, a REQUEST by an ACK, by broadcast.      *)
Reply ==
  /\ outgoing = "handle"
  /\ Answers(packet.packet)
  /\ LET p == packet.packet
         params == m_clients[[mac |-> p.mac, upper |-> FALSE]]
         message == IF p.message = "discover" THEN "offer" ELSE "ack"
     IN \E offer \in MakeOffer(p, params, message) :
          replies' = Append(replies, [number |-> packet.number, offer |-> offer])
  /\ outgoing' = "test"
  /\ packet' = None
  /\ UNCHANGED <<queue, m_clients, main, incoming, incoming_stop, received>>

(* Mutant of Drop: the exception of a packet ends the responder. *)
DropAndExit ==
  /\ outgoing = "handle"
  /\ ~Answers(packet.packet) \/ (SendsFail /\ 0 \notin packet.packet.params)
  /\ outgoing' = "exited"
  /\ packet' = None
  /\ UNCHANGED <<queue, m_clients, main, incoming, incoming_stop, received, replies>>

(* Anything else is dropped, some of it with a line in the log, and so is a    *)
(* reply the socket does not take. What make_offer does not return for is not  *)
(* an exception, and comes to no end but that of the process.                  *)
Drop ==
  /\ outgoing = "handle"
  /\ ~Answers(packet.packet) \/ (SendsFail /\ 0 \notin packet.packet.params)
  /\ outgoing' = "test"
  /\ packet' = None
  /\ UNCHANGED <<queue, m_clients, main, incoming, incoming_stop, received, replies>>

(* make_offer is asked for a code that the table of options has no place for,  *)
(* and the process ends.                                                       *)
Overrun ==
  /\ outgoing = "handle"
  /\ Answers(packet.packet)
  /\ OutOfBounds(packet.packet)
  /\ main' = "aborted"
  /\ UNCHANGED <<queue, m_clients, incoming, incoming_stop, outgoing, packet, received, replies>>

-----------------------------------------------------------------------------
(* ~dhcp_server_v4: both threads are told to stop, then both are joined.       *)

StopIncoming ==
  /\ main = "running"
  /\ incoming_stop' = TRUE
  /\ main' = "stop_outgoing"
  /\ UNCHANGED <<queue, m_clients, incoming, outgoing, packet, received, replies>>

StopOutgoing ==
  /\ main = "stop_outgoing"
  /\ Queue!RequestStop
  /\ main' = "callback"
  /\ UNCHANGED <<m_clients, incoming, incoming_stop, outgoing, packet, received, replies>>

StopCallback ==
  /\ main = "callback"
  /\ Queue!RunCallback
  /\ main' = "join"
  /\ UNCHANGED <<m_clients, incoming, incoming_stop, outgoing, packet, received, replies>>

(* Mutant of Join: the receiver is not joined. *)
JoinOutgoingOnly ==
  /\ main = "join"
  /\ outgoing = "exited"
  /\ main' = "exited"
  /\ UNCHANGED <<queue, m_clients, incoming, incoming_stop, outgoing, packet, received, replies>>

Join ==
  /\ main = "join"
  /\ incoming = "exited"
  /\ outgoing = "exited"
  /\ main' = "exited"
  /\ UNCHANGED <<queue, m_clients, incoming, incoming_stop, outgoing, packet, received, replies>>

-----------------------------------------------------------------------------
IncomingStep ==
  \/ IncomingTest \/ IncomingNothing \/ IncomingNotify
  \/ \E p \in Packets : IncomingPacket(p)

OutgoingStep == OutgoingTest \/ OutgoingCalls \/ OutgoingInPop \/ Reply \/ Drop \/ Overrun

MainStep == StopOutgoing \/ StopCallback \/ Join

Alive == main # "aborted"

DhcpNext ==
  /\ Alive
  /\ \/ IncomingStep \/ OutgoingStep \/ MainStep \/ StopIncoming
     \/ /\ Queue!SpuriousWakeup
        /\ UNCHANGED <<m_clients, main, incoming, incoming_stop, outgoing, packet, received, replies>>

DhcpSpec == DhcpInit /\ [][DhcpNext]_dhcpVars

(* While there is a process, its threads run, and the destructor goes on once  *)
(* it has begun.                                                               *)
DhcpFairSpec ==
  /\ DhcpSpec
  /\ WF_dhcpVars(Alive /\ IncomingStep)
  /\ WF_dhcpVars(Alive /\ OutgoingStep)
  /\ WF_dhcpVars(Alive /\ MainStep)

(* The server as the program sees it, from start() on. *)
Life == INSTANCE ServerLife WITH
  life <- CASE main = "running" -> "made" [] main = "exited" -> "gone"
            [] main = "aborted" -> "aborted" [] OTHER -> "ceasing",
  threads <- (IF incoming = "exited" THEN {} ELSE {"incoming"})
             \cup (IF outgoing = "exited" THEN {} ELSE {"outgoing"})

-----------------------------------------------------------------------------
(* Properties *)

DhcpTypeOK ==
  /\ Queue!TypeOK
  /\ main \in {"running", "stop_outgoing", "callback", "join", "exited", "aborted"}
  /\ incoming \in {"test", "recv", "notify", "exited"}
  /\ outgoing \in {"test", "call", "pop", "handle", "exited"}
  /\ packet \in Numbered \cup {None}
  /\ received \in Seq(Packets)
  /\ \A i \in 1..Len(replies) :
       /\ DOMAIN replies[i].offer.options \subseteq 1..254
       /\ 53 \in DOMAIN replies[i].offer.options

(* Requests are answered in the order they came, each at most once, and each   *)
(* reply is to the computer, and of the kind, that its request asked for; what *)
(* it promises, and then gives, is the address of the section with the MAC     *)
(* address of that computer in lower case, never that of another.              *)
RepliesFollowRequests ==
  \A i \in 1..Len(replies) :
    LET reply == replies[i]
        asked == received[reply.number]
    IN /\ i > 1 => replies[i-1].number < reply.number
       /\ reply.offer.hardware_address = asked.mac
       /\ reply.offer.options[53] = IF asked.message = "discover" THEN "offer" ELSE "ack"
       /\ reply.offer.your_address # Unspecified =>
            reply.offer.your_address = Config[[mac |-> asked.mac, upper |-> FALSE]].v4_your_address

(* No request is lost between the threads: one that can be answered is, if the *)
(* socket takes the reply, the server is not stopped and no request up to that *)
(* one has asked for a code out of bounds, which can end the process. A packet *)
(* that makes the responder throw does not take the next one with it.          *)
EveryRequestIsAnswered ==
  \A n \in 1..MaxPackets :
    Len(received) >= n /\ Answers(received[n])
      ~> \/ \E i \in 1..Len(replies) : replies[i].number = n
         \/ main \notin {"running", "aborted"}
         \/ main = "aborted" /\ \E k \in 1..n : Answers(received[k]) /\ OutOfBounds(received[k])

(* What main() relies on: it serves until it is told to stop, whatever packets *)
(* come and whatever they throw, and the destructor leaves no thread behind.   *)
(* One thing takes the server away before, and the whole program with it: a    *)
(* request, of a computer that has a section, for option 0 or 255.             *)
ImplementsServerLife ==
  /\ Life!Spec
  /\ [](main = "aborted" =>
          \E k \in 1..Len(received) : Answers(received[k]) /\ OutOfBounds(received[k]))

=============================================================================
