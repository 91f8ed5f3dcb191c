----------------------------- MODULE MCPacketWire -----------------------------
(* Model checking of PacketWire on short strings and small sets of bytes.      *)
EXTENDS PacketWire

Names == {<<1>>, <<1, 2>>}
Texts == Names \cup {<<>>}
Dictionaries == UNION {[names -> Texts] : names \in SUBSET Names}

MCTftpPackets ==
     {Request(kind, filename, xfermode, options) :
        kind \in {"rrq", "wrq"}, filename \in Texts, xfermode \in Names, options \in Dictionaries}
  \cup {DataPacket(id, data) : id \in {0, 255, 256, 65535}, data \in {<<>>, <<0>>, <<7, 0, 7>>}}
  \cup {AckPacket(id) : id \in {0, 255, 256, 65535}}
  \cup {ErrorPacket(code, text) : code \in 0..7, text \in Texts}
  \cup {OackPacket(options) : options \in Dictionaries}

Strings(alphabet, max) == UNION {[1..n -> alphabet] : n \in 0..max}

MCTftpBytes ==
  {<<>>, <<0>>} \cup {<<0, opcode>> \o rest : opcode \in 0..7, rest \in Strings({0, 1, 2}, 5)}

MCSettings ==
  [server_host_name : {<<>>, <<1>>, <<1, 2, 3>>, <<1, 2, 3, 4>>},
   domain_name : {<<1>>, <<1, 2>>, <<1, 2, 3>>},
   boot_file_name : {<<>>, <<1, 2>>, <<1, 2, 3>>}]

MCAsked ==
  UNION {SetToSeqs(codes) : codes \in SUBSET {12, 15, 67, 254}}
    \cup {<<12, 12>>, <<0>>, <<255>>, <<12, 0>>, <<255, 12>>, <<12, 255>>}

MCOptionBytes ==
  Strings({0, 1, 2, 255}, 2)
    \cup {Cookie \o rest : rest \in Strings({0, 1, 2, 254, 255}, 5)}
===============================================================================
