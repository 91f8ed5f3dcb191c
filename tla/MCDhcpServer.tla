---------------------------- MODULE MCDhcpServer ----------------------------
(* Model checking of DhcpServer: two computers with a section each, one of     *)
(* them in upper case, and one computer that has none.                         *)
EXTENDS DhcpServer, TLC

Section(mac, upper) == [mac |-> mac, upper |-> upper]

MCConfig ==
     Section("m1", FALSE) :> [v4_client_address |-> "c1", v4_your_address |-> "a1",
                              v4_server_address |-> "s1", v4_gateway_address |-> "g1"]
  @@ Section("m2", TRUE) :> [v4_your_address |-> "a2"]

MCPacket(opcode, message, mac, params) ==
  [opcode |-> opcode, message |-> message, mac |-> mac, params |-> params,
   malformed |-> FALSE]

MCPackets ==
  {MCPacket(1, "discover", "m1", {1, 3, 67}), MCPacket(1, "request", "m1", {}),
   MCPacket(1, "discover", "m2", {}), MCPacket(1, "request", "m3", {}),
   MCPacket(1, "none", "m1", {}), MCPacket(2, "discover", "m1", {}),
   MCPacket(1, "request", "m1", {0}), MCPacket(1, "discover", "m1", {3, 255}),
   [MCPacket(1, "discover", "m1", {}) EXCEPT !.malformed = TRUE]}

(* A request that has been taken from the queue and dealt with. *)
Handled(n) ==
  /\ Len(received) >= n
  /\ \A i \in 1..Len(m_packets) : m_packets[i].number > n
  /\ packet # None => packet.number > n

Answered(n) == \E i \in 1..Len(replies) : replies[i].number = n

(* "MAC address of the computer these settings apply to" (config.ini:8): what  *)
(* a computer with a section asks for is answered with the settings of that    *)
(* section. The code looks a section in upper case up in lower case.           *)
SettingsApply ==
  \A n \in 1..MaxPackets :
    /\ Handled(n)
    /\ received[n].opcode = 1
    /\ received[n].message \in {"discover", "request"}
    /\ ~received[n].malformed
    /\ \E section \in DOMAIN Config : section.mac = received[n].mac
    => Answered(n)

=============================================================================
