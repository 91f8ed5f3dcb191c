------------------------------ MODULE PacketWire ------------------------------
(* A packet of either protocol from the side that writes it to the one that    *)
(* reads it: the writers and the readers of this program against each other,   *)
(* and the readers against bytes from elsewhere. For DHCP, the packet is an    *)
(* offer made from the settings of a section.                                  *)
EXTENDS TftpPacket, DhcpPacket

CONSTANTS
  Nothing,
  TftpPackets,      \* packets to write, and
  TftpBytes,        \* datagrams from elsewhere
  Settings,         \* [server_host_name, domain_name, boot_file_name]: byte sequences
  Asked,            \* what a client may ask for in option 55, sequences of codes
  OptionBytes,      \* what may follow the header of a packet from elsewhere
  SizeofString,     \* sizeof(std::string), 32 or 40, and
  SizeofStringView  \* sizeof(std::string_view), 16

Bytes == Seq(Byte)

ASSUME WireAssumption ==
  /\ \A p \in TftpPackets : IsPacket(p)
  /\ TftpBytes \subseteq Bytes
  /\ Settings \subseteq [server_host_name : Bytes, domain_name : Bytes, boot_file_name : Bytes]
  /\ \A codes \in Asked : codes \in Bytes /\ Len(codes) <= 255
  /\ OptionBytes \subseteq Bytes
  /\ SizeofString \in 0..64
  /\ SizeofStringView \in 0..255
  /\ Nothing \notin Bytes

VARIABLES
  protocol,  \* "tftp" or "dhcp"; "ended" is the end of the process that writes
  asked,     \* [settings, codes, message] of an offer
  packet,    \* what was written
  wire,
  heard      \* what was read

wireVars == <<protocol, asked, packet, wire, heard>>

WireInit ==
  /\ protocol \in {"tftp", "dhcp"}
  /\ asked = Nothing
  /\ packet = Nothing
  /\ wire = Nothing
  /\ heard = Nothing

-----------------------------------------------------------------------------
(* dhcp_server_v4 *)

Address == <<10, 0, 0, 1>>
Seconds == <<0, 0, 28, 32>>

(* The options of a section, what each is set from and the size of its type.   *)
Provided == {1, 3, 7, 12, 15, 51, 54, 58, 59, 67}

Value(settings, code) ==
  IF code = 12 THEN settings.server_host_name
  ELSE IF code = 15 THEN settings.domain_name
  ELSE IF code = 67 THEN settings.boot_file_name
  ELSE IF code \in {51, 58, 59} THEN Seconds
  ELSE Address

Size(code) ==
  IF code \in {12, 67} THEN SizeofString ELSE IF code = 15 THEN SizeofStringView ELSE 4

(* initialize_client sets one after the other; the first too long throws.      *)
Table(settings) ==
  IF \A code \in Provided : Len(Value(settings, code)) <= Size(code)
  THEN [code \in Provided |-> Padded(Value(settings, code), Size(code))]
  ELSE Throws

OfferHeader(settings) ==
  <<<<2>>, <<1>>, <<6>>, <<0>>, <<1, 2, 3, 4>>, <<0, 5>>, <<128, 0>>,
    Address, Address, Address, Address,
    Padded(<<0, 28, 126, 53, 237, 32>>, 16),
    Text(64, settings.server_host_name),
    Text(128, settings.boot_file_name)>>

(* The options of a client's DISCOVER or REQUEST. *)
Asking(message, codes) ==
  [code \in {53, 55} |-> IF code = 53 THEN <<message>> ELSE codes]

(* make_offer, and then message_type of the reply: what they may come to. *)
Offers(settings, request) ==
  LET table == Table(settings)
      message == IF MessageType(request) = Discover THEN OfferType ELSE Ack
      options(asked_for) == Copied(asked_for, table, {54, 51, 58, 59, 7, 15})
  IN {[header |-> OfferHeader(settings), options |-> Set(options(asked_for), 53, 1, <<message>>)] :
        asked_for \in AssignOptions(Empty, table, RequestedParameters(request))}

(* The request of a client, as the server reads what the client wrote. *)
Asks(message, codes) == ReadOptions(WriteOptions(Asking(message, codes)), 1)

-----------------------------------------------------------------------------
SendTftp ==
  /\ protocol = "tftp"
  /\ wire = Nothing
  /\ packet' \in TftpPackets
  /\ wire' \in TftpWritings(packet')
  /\ UNCHANGED <<protocol, asked, heard>>

(* A section whose settings do not fit ends the program before it gets here. *)
SendOffer ==
  /\ protocol = "dhcp"
  /\ wire = Nothing
  /\ \E settings \in Settings, codes \in Asked, message \in {Discover, RequestType} :
       /\ Table(settings) # Throws
       /\ asked' = [settings |-> settings, codes |-> codes, message |-> message]
       /\ \E request \in Asks(message, codes) : packet' \in Offers(settings, request)
  /\ wire' = WriteDhcp(packet')
  /\ UNCHANGED <<protocol, heard>>

(* The offer that is asked for is of an option that no table has a place for,  *)
(* and the process ends before it writes anything.                             *)
Overrun ==
  /\ protocol = "dhcp"
  /\ wire = Nothing
  /\ \E settings \in Settings, codes \in Asked, message \in {Discover, RequestType} :
       /\ Table(settings) # Throws
       /\ asked' = [settings |-> settings, codes |-> codes, message |-> message]
       /\ \E request \in Asks(message, codes) : OutOfBounds(RequestedParameters(request))
  /\ protocol' = "ended"
  /\ UNCHANGED <<packet, wire, heard>>

(* Bytes that this program did not write. *)
Arrive ==
  /\ wire = Nothing
  /\ \/ /\ protocol = "tftp"
        /\ wire' \in TftpBytes
     \/ /\ protocol = "dhcp"
        /\ \E bytes \in OptionBytes :
             wire' = [i \in 1..HeaderSize |-> i % 256] \o bytes
  /\ UNCHANGED <<protocol, asked, packet, heard>>

Receive ==
  /\ wire # Nothing
  /\ heard = Nothing
  /\ heard' = IF protocol = "tftp" THEN ReadTftp(wire) ELSE ReadDhcp(wire)
  /\ UNCHANGED <<protocol, asked, packet, wire>>

WireNext == SendTftp \/ SendOffer \/ Overrun \/ Arrive \/ Receive

WireSpec == WireInit /\ [][WireNext]_wireVars

-----------------------------------------------------------------------------
(* Properties *)

(* What one of the writers wrote, its reader gets back, whatever the order in  *)
(* which the hash table gives the options of a TFTP packet.                    *)
RoundTrip == packet # Nothing /\ heard # Nothing => heard = {packet}

(* serdes_size_hint is the number of bytes that are written, whatever order    *)
(* the options are added up in: serialize_to_vector makes its room from it,    *)
(* and the 128 bytes that it adds are all to spare.                            *)
HintIsSize ==
  packet # Nothing =>
    IF protocol = "tftp"
    THEN \A order \in Orders(packet) : Len(wire) = TftpSizeHint(packet, order)
    ELSE Len(wire) = DhcpSizeHint(packet)

(* Bytes from elsewhere, if a reader takes them, have a normal form: what was  *)
(* read can be written, within the bytes it was read from (a DHCP packet       *)
(* without options may gain a cookie and an end), and reads the same.          *)
NormalForm ==
  heard # Nothing =>
    \A p \in heard :
      IF protocol = "tftp"
      THEN p = EmptyPacket \/
           \A bytes \in TftpWritings(p) : Len(bytes) <= Len(wire) /\ ReadTftp(bytes) = {p}
      ELSE LET bytes == WriteDhcp(p) IN
           /\ Len(bytes) <= Len(wire) \/ DOMAIN p.options = {}
           /\ ReadDhcp(bytes) = {p}

(* What a name is followed by is nothing but zeros. *)
Says(bytes, name) ==
  /\ IsPrefix(name, bytes)
  /\ \A i \in Len(name)+1..Len(bytes) : bytes[i] = 0

(* A client that asks for a name its section has hears that name in an answer  *)
(* of the type that goes with its message, whatever else it asks for; and the  *)
(* one thing that can leave it without is that it asks for 0 or 255 besides,   *)
(* which can end the process that was to answer.                               *)
AskedIsHeard ==
  asked # Nothing =>
    IF protocol = "ended" THEN ToSet(asked.codes) \cap {0, 255} # {}
    ELSE heard # Nothing =>
      \E p \in heard :
        LET said(code, name) == code \in ToSet(asked.codes) => Says(p.options[code], name)
        IN /\ <<asked.message, p.options[53]>> \in {<<1, <<2>>>>, <<3, <<5>>>>}
           /\ said(12, asked.settings.server_host_name)
           /\ said(15, asked.settings.domain_name)
           /\ said(67, asked.settings.boot_file_name)
===============================================================================
