------------------------------ MODULE DhcpPacket ------------------------------
(* dhcp_packet_v4 and dhcp_options_v4 (bootpd/dhcp_packet_v4.cpp,              *)
(* bootpd/dhcp_options_v4.hpp): the header of fixed fields, the table of       *)
(* options, and their bytes. A table is a function on the codes it has.        *)
(* Reading gives a set: what was read, or nothing when the constructor throws. *)
EXTENDS Serdes

CONSTANT Throws  \* what another operation gives when it throws

(* DHCP_MESSAGE_TYPE_... *)
Discover == 1
OfferType == 2
RequestType == 3
Ack == 5

Cookie == <<99, 130, 83, 99>>

Codes == 1..254

-----------------------------------------------------------------------------
(* dhcp_options_v4 *)

IsTable(table) ==
  /\ DOMAIN table \subseteq Codes
  /\ table \in [DOMAIN table -> Seq(Byte)]
  /\ \A code \in DOMAIN table : Len(table[code]) <= 255

(* bytes in a field of size, its rest cleared. *)
Padded(bytes, size) == bytes \o [i \in 1..size-Len(bytes) |-> 0]

(* set(code, args...) for arguments of size bytes, sizeof of their types: a    *)
(* string is cut off from its length, and the rest of the room is zeros. One   *)
(* that does not fit throws.                                                   *)
Set(table, code, size, bytes) ==
  IF Len(bytes) <= size THEN With(table, code, Padded(bytes, size)) ELSE Throws

(* Mutant of Copied: size bytes copied, the one with the size included. *)
CopiedShort(table, from, which) ==
  LET assigned == which \cap DOMAIN from
      short(bytes) == [i \in DOMAIN bytes |-> IF i = Len(bytes) THEN 0 ELSE bytes[i]]
  IN [code \in DOMAIN table \cup assigned |->
        IF code \in assigned THEN short(from[code]) ELSE table[code]]

(* table with what `from` has of the codes of which. *)
Copied(table, from, which) ==
  LET assigned == which \cap DOMAIN from IN
  [code \in DOMAIN table \cup assigned |->
     IF code \in assigned THEN from[code] ELSE table[code]]

(* assign(code, from) looks at m_values[code - 1u] whatever the code, and 0    *)
(* and 255 have no place in that array: the process can end.                   *)
OutOfBounds(which) == which \cap {0, 255} # {}

(* assign(code, from) for every code asked for, in a set as the readers give   *)
(* theirs: it does not come back from 0, at 0xFFFFFFFF, and if it does from    *)
(* 255, one behind the array, there is no such option.                         *)
AssignOptions(table, from, which) ==
  IF 0 \in which THEN {} ELSE {Copied(table, from, which)}

(* The codes that the loops over m_values do not skip after the first `code`.  *)
Later(table, code) == {other \in DOMAIN table : other > code}

(* Mutant of WriteOptions: the loop stops one code short. *)
WriteOptionsShort(table) ==
  LET write[code \in 0..254] ==
        LET next == Min(Later(table, code))
        IN IF Later(table, code) \subseteq {254} THEN <<255>>
           ELSE <<next, Len(table[next])>> \o table[next] \o write[next]
  IN Cookie \o write[0]

WriteOptions(table) ==
  LET write[code \in 0..254] ==
        LET next == Min(Later(table, code))
        IN IF Later(table, code) = {} THEN <<255>>
           ELSE <<next, Len(table[next])>> \o table[next] \o write[next]
  IN Cookie \o write[0]

OptionsSizeHint(table) ==
  LET size[code \in 0..254] ==
        LET next == Min(Later(table, code))
        IN IF Later(table, code) = {} THEN 1 + Len(Cookie)
           ELSE Len(table[next]) + 2 + size[next]
  IN size[0]

(* The loop of the reader, from index i: 0 is padding, 255 the end, everything *)
(* else a code, a size and a value; a later value of a code replaces an        *)
(* earlier one. What ends before the end throws.                               *)
ReadFrom(bytes, i) ==
  LET read[at \in 1..Len(bytes)+1] ==
        LET last == at + 1 + bytes[at + 1]
        IN IF at > Len(bytes) THEN {}
           ELSE IF bytes[at] = 255 THEN {Empty}
           ELSE IF bytes[at] = 0 THEN read[at + 1]
           ELSE IF at = Len(bytes) \/ last > Len(bytes) THEN {}
           ELSE {Unless(rest, bytes[at], SubSeq(bytes, at + 2, last)) : rest \in read[last + 1]}
  IN read[i]

(* From index i. Without the cookie there are no options. *)
ReadOptions(bytes, i) ==
  IF i + 3 <= Len(bytes) /\ SubSeq(bytes, i, i + 3) = Cookie THEN ReadFrom(bytes, i + 4)
  ELSE {Empty}

(* message_type(): `value` of code 53. A value of no bytes throws. *)
MessageType(table) ==
  IF 53 \notin DOMAIN table THEN 0
  ELSE IF table[53] = <<>> THEN Throws
  ELSE table[53][1]

(* requested_parameters(): the codes in option 55, none without it. *)
RequestedParameters(table) ==
  IF 55 \in DOMAIN table THEN ToSet(table[55]) ELSE {}

-----------------------------------------------------------------------------
(* dhcp_packet_v4: the fields of the header in their order, each a sequence of *)
(* bytes as they are on the wire, and the options.                             *)

Width ==
  <<1, 1, 1, 1,   \* opcode, hardware_type, hardware_address_length, number_of_hops
    4, 2, 2,      \* transaction_id, seconds_elapsed, flags
    4, 4, 4, 4,   \* client, your, server and gateway address
    16, 64, 128>> \* hardware_address, server_host_name, boot_file_name

Ends == Sums(Width)
HeaderSize == Ends[14]

IsHeader(header) ==
  /\ header \in [1..14 -> Seq(Byte)]
  /\ \A k \in 1..14 : Len(header[k]) = Width[k]

WriteDhcp(p) == FlattenSeq(p.header) \o WriteOptions(p.options)

DhcpSizeHint(p) == OptionsSizeHint(p.options) + HeaderSize

ReadHeader(bytes) == [k \in 1..14 |-> SubSeq(bytes, Ends[k-1] + 1, Ends[k])]

ReadDhcp(bytes) ==
  IF Len(bytes) < HeaderSize THEN {}
  ELSE {[header |-> ReadHeader(bytes), options |-> options] :
          options \in ReadOptions(bytes, HeaderSize + 1)}

(* server_host_name(value) and boot_file_name(value): too long throws, and the *)
(* rest of the field is cleared.                                               *)
Text(size, value) == IF Len(value) <= size THEN Padded(value, size) ELSE Throws
===============================================================================
