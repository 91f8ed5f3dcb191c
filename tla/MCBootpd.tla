------------------------------ MODULE MCBootpd ------------------------------
(* Model checking of Bootpd: the files of up to two lines, some longer ones,   *)
(* and the ways to give lines on the command line.                             *)
EXTENDS Bootpd

Number(n) == [quoted |-> FALSE, number |-> n, rest |-> FALSE, host |-> None, port |-> None]
Host(h) == [quoted |-> FALSE, number |-> 10, rest |-> TRUE, host |-> h, port |-> None]
Words == [Number(0) EXCEPT !.number = None]
MCEmpty == [Words EXCEPT !.host = "this computer"]
Quoted(text) == [text EXCEPT !.quoted = TRUE]

Setting(key, value) == [kind |-> "setting", key |-> key, value |-> value]
Blank == [kind |-> "blank"]
Section == [kind |-> "section", name |-> "m1"]

(* With a port that is refused, and one that is taken and ignored. *)
WithPort(n) == [Host("h1") EXCEPT !.port = Number(n)]

Lines ==
  {Section, [kind |-> "bad"], [kind |-> "quote", key |-> "tftp_base_dir"],
   [kind |-> "valueless", key |-> "v4_bind_address"],
   Setting("v4_bind_address", Host("h1")), Setting("v4_bind_address", WithPort(Word)),
   Setting("tftp_listen_port", Quoted(Number(Word + DhcpPort))),
   Setting("tftp_listen_port", Number(Dword \div 2)), Setting("tftp_listen_port", Number(0)),
   Setting("dhcp_listen_port", Number(Dword \div 2)),
   Setting("dhcp_listen_port", [Number(5) EXCEPT !.rest = TRUE]),
   Setting("tftp_listen_port", [Number(5) EXCEPT !.rest = TRUE]),
   Setting("v4_your_address", Words), Setting("address_lease_time", Words)}

LongFiles ==
  {<<Setting("v4_bind_address", WithPort(1)), Blank, Section, Setting("v4_bind_address", Host("h2")),
     Setting("v4_your_address", Host("a1"))>>,
   <<Setting("tftp_listen_port", Number(1)), Setting("dhcp_listen_port", Number(2)), Section,
     Setting("tftp_listen_port", Words)>>}

Given(is, readable, lines) == [is |-> is, readable |-> readable, lines |-> lines]
Regular(lines) == Given("regular", TRUE, lines)

MCDefaultFile == Given("regular", FALSE, <<[kind |-> "bad"]>>)

Flag(f) == [flag |-> f]
Operand(x) == [operand |-> x]
From(lines) == <<Flag("-C"), Operand(Regular(lines))>>

MCCommandLines ==
  {<<>>, <<Flag("-C")>>, <<Flag("-O")>>,
   <<Flag("-C"), Operand(Given("directory", TRUE, <<>>))>>,
   <<Flag("-C"), Operand(Given("missing", TRUE, <<>>))>>}
  \cup {From(lines) : lines \in LongFiles \cup UNION {[1..n -> Lines] : n \in 0..2}}
  \cup {<<Flag("-O"), Operand(a), Operand(b)>> : a, b \in Lines}
  \cup {From(<<Section, a>>) \o <<Flag("-O"), Operand(b)>> : a, b \in Lines}
  \cup {<<Flag("-O"), Operand(Section)>> \o From(lines) \o <<Flag("-O"), Operand(a)>> :
          lines \in LongFiles, a \in Lines}
===============================================================================
