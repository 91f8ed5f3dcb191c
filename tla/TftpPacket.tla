------------------------------ MODULE TftpPacket ------------------------------
(* tftp_packet (bootpd/tftp_packet.cpp): what a datagram says, and the bytes   *)
(* of it. Reading gives a set: the packet, or nothing when the constructor     *)
(* throws.                                                                     *)
EXTENDS Serdes, Functions

Requests == {"rrq", "wrq"}

Opcode == [rrq |-> 1, wrq |-> 2, data |-> 3, ack |-> 4, error |-> 5, oack |-> 6]

Request(kind, filename, xfermode, options) ==
  [kind |-> kind, filename |-> filename, xfermode |-> xfermode, options |-> options]
DataPacket(block_id, data) == [kind |-> "data", block_id |-> block_id, data |-> data]
AckPacket(block_id) == [kind |-> "ack", block_id |-> block_id]
ErrorPacket(error_code, error_string) ==
  [kind |-> "error", error_code |-> error_code, error_string |-> error_string]
OackPacket(options) == [kind |-> "oack", options |-> options]

(* std::monostate: what is left of a packet with another opcode. *)
EmptyPacket == [kind |-> "empty"]

(* The packets that can be written. *)
String == Seq(1..255)
IsDictionary(options) ==
  /\ DOMAIN options \subseteq String
  /\ IsFiniteSet(DOMAIN options)
  /\ options \in [DOMAIN options -> String]

IsPacket(p) ==
  \/ /\ p.kind \in Requests
     /\ p \in [kind : Requests, filename : String, xfermode : String, options : {p.options}]
     /\ IsDictionary(p.options)
  \/ /\ p.kind = "oack"
     /\ p \in [kind : {"oack"}, options : {p.options}]
     /\ IsDictionary(p.options)
  \/ p \in [kind : {"data"}, block_id : Unsigned16, data : Seq(Byte)]
  \/ p \in [kind : {"ack"}, block_id : Unsigned16]
  \/ p \in [kind : {"error"}, error_code : Unsigned16, error_string : String]

-----------------------------------------------------------------------------
(* Writing *)

(* `for (auto const& [option, value] : value.options)`, in the given order;    *)
(* the dictionary is a hash table and may have any.                            *)
WritePairs(options, order) ==
  FlattenSeq([k \in 1..Len(order) |-> Asciiz(order[k]) \o Asciiz(options[order[k]])])

WritePayload(p, order) ==
  CASE p.kind \in Requests ->
         Asciiz(p.filename) \o Asciiz(p.xfermode) \o WritePairs(p.options, order)
    [] p.kind = "data"  -> Uint16(p.block_id) \o p.data
    [] p.kind = "ack"   -> Uint16(p.block_id)
    [] p.kind = "error" -> Uint16(p.error_code) \o Asciiz(p.error_string)
    [] p.kind = "oack"  -> WritePairs(p.options, order)

Listings(S) == Bijection(1..Cardinality(S), S)

Orders(p) ==
  IF p.kind \in Requests \cup {"oack"} THEN Listings(DOMAIN p.options) ELSE {<<>>}

(* Every way to write p. *)
TftpWritings(p) == {Uint16(Opcode[p.kind]) \o WritePayload(p, order) : order \in Orders(p)}

(* Mutant of PairsSize: room for one terminator only. *)
PairsSizeOne(options, order) ==
  Total([k \in 1..Len(order) |-> Len(order[k]) + Len(options[order[k]]) + 1])

PairsSize(options, order) ==
  Total([k \in 1..Len(order) |-> Len(order[k]) + Len(options[order[k]]) + 2])

(* serdes_size_hint *)
TftpSizeHint(p, order) ==
  CASE p.kind \in Requests ->
         2 + Len(p.filename) + 1 + Len(p.xfermode) + 1 + PairsSize(p.options, order)
    [] p.kind = "data"  -> 2 + 2 + Len(p.data)
    [] p.kind = "ack"   -> 2 + 2
    [] p.kind = "error" -> 2 + 2 + Len(p.error_string) + 1
    [] p.kind = "oack"  -> 2 + PairsSize(p.options, order)

-----------------------------------------------------------------------------
(* Reading *)

(* `while (!_serdes.empty())`, from index i: names and values in turn, to the  *)
(* end. emplace keeps the first value of a name.                               *)
ReadPairs(bytes, i) ==
  LET read[start \in 1..Len(bytes)+1] ==
        LET name == EndOfText(bytes, start)
            value == EndOfText(bytes, name + 1)
        IN IF start > Len(bytes) THEN {Empty}
           ELSE IF value > Len(bytes) THEN {}
           ELSE {With(rest, TextAt(bytes, start), TextAt(bytes, name + 1)) : rest \in read[value + 1]}
  IN read[i]

ReadRequest(kind, bytes) ==
  LET filename == EndOfText(bytes, 1)
      xfermode == EndOfText(bytes, filename + 1)
  IN IF xfermode > Len(bytes) THEN {}
     ELSE {Request(kind, TextAt(bytes, 1), TextAt(bytes, filename + 1), options) :
             options \in ReadPairs(bytes, xfermode + 1)}

ReadOack(bytes) == {OackPacket(options) : options \in ReadPairs(bytes, 1)}

(* Whatever follows the string is not read. *)
ReadError(bytes) ==
  IF Len(bytes) < 2 \/ EndOfText(bytes, 3) > Len(bytes) THEN {}
  ELSE {ErrorPacket(ToUint16(bytes), TextAt(bytes, 3))}

ReadData(bytes) ==
  IF Len(bytes) < 2 THEN {} ELSE {DataPacket(ToUint16(bytes), From(bytes, 3))}

ReadAck(bytes) == IF Len(bytes) < 2 THEN {} ELSE {AckPacket(ToUint16(bytes))}

ReadTftp(bytes) ==
  LET opcode == ToUint16(bytes)
      payload == From(bytes, 3)
  IN IF Len(bytes) < 2 THEN {}
     ELSE CASE opcode = 1 -> ReadRequest("rrq", payload)
            [] opcode = 2 -> ReadRequest("wrq", payload)
            [] opcode = 3 -> ReadData(payload)
            [] opcode = 4 -> ReadAck(payload)
            [] opcode = 5 -> ReadError(payload)
            [] opcode = 6 -> ReadOack(payload)
            [] opcode \notin 1..6 -> {EmptyPacket}
===============================================================================
