------------------------------ MODULE ConfigIni ------------------------------
(* config_ini, lexical_cast and arguments (common/): the lines of a            *)
(* configuration, the command line, and the conversions of their values.       *)
(*                                                                             *)
(* A line is what is left of it without its comment and the blanks around it:  *)
(* "blank" (nothing), "section", "setting", "valueless" (a key and nothing     *)
(* after the =), "quote" (a setting with a lone quotation mark for its value)  *)
(* or "bad". A text is what the conversions can find in it: a number at its    *)
(* start, whether something follows that, a host, and the number after a ':'.  *)
EXTENDS Integers, Sequences

CONSTANTS
  None,    \* what a text does not have
  Throws,  \* what a conversion gives when an exception leaves it, and
  Bad,     \* when that exception is bad_lexical_cast
  Word,    \* 2^16, and
  Dword,   \* 2^32: the sizes of uint16_t and of (unsigned) long
  Empty    \* the text without a character

ASSUME ConfigAssumption ==
  /\ Word \in Nat \ {0}
  /\ Dword \in Nat \ {0}
  /\ Dword % Word = 0

-----------------------------------------------------------------------------
(* config_ini: m_data, a function on pairs of a section and a key; the section *)
(* the next setting goes to; whether a line has thrown, and whether one has    *)
(* read a character of a text that has none.                                   *)

IsLine(line) ==
  line.kind \in {"blank", "section", "setting", "valueless", "quote", "bad"}

(* The section of the settings before the first section, and of the servers.   *)
NoSection == ""

EmptyConfig == [data |-> <<>>, section |-> NoSection, thrown |-> FALSE, undefined |-> FALSE]

Assign(config, key, value) ==
  LET setting == <<config.section, key>>
  IN [config EXCEPT !.data = [s \in DOMAIN @ \cup {setting} |-> IF s = setting THEN value ELSE @[s]]]

Unquoted(text) == [text EXCEPT !.quoted = FALSE]

(* parse_line; nothing is read after a line that throws.                       *)
parse_line(config, line) ==
  IF config.thrown THEN config
  ELSE CASE line.kind = "blank" -> config
         [] line.kind = "section" -> [config EXCEPT !.section = line.name]
         [] line.kind = "setting" -> Assign(config, line.key, Unquoted(line.value))
         [] line.kind = "valueless" -> [Assign(config, line.key, Empty) EXCEPT !.undefined = TRUE]
         [] line.kind = "quote" -> [config EXCEPT !.undefined = TRUE, !.thrown = TRUE]
         [] line.kind = "bad" -> [config EXCEPT !.thrown = TRUE]

(* Mutant of insert_line: the line goes on in the section the file ended with. *)
InsertInLastSection(config, line) == parse_line(config, line)

(* A line of its own, in the section that the settings of servers are in.      *)
insert_line(config, line) == parse_line([config EXCEPT !.section = NoSection], line)

(* What becomes of the configuration line by line: parse reads those of the    *)
(* file, and each of the others is inserted then.                              *)
ReadLine(config, lines, others, i) ==
  IF i <= Len(lines) THEN parse_line(config, lines[i])
  ELSE insert_line(config, others[i - Len(lines)])

Parsed(lines, others) ==
  LET after[i \in 0..Len(lines) + Len(others)] ==
        IF i = 0 THEN EmptyConfig ELSE ReadLine(after[i-1], lines, others, i)
  IN after

(* value: None for a setting that is not there.                                *)
Value(data, section, key) ==
  IF <<section, key>> \in DOMAIN data THEN data[<<section, key>>] ELSE None

-----------------------------------------------------------------------------
(* The conversions. *)

(* lexical_cast to a type of the range lo..hi that stoul or stol convert to.   *)
ToNumber(text, lo, hi) ==
  IF text.quoted \/ text.number = None \/ text.number \notin lo..hi THEN Throws
  ELSE IF text.rest THEN Bad ELSE text.number

ToUnsigned(text) == ToNumber(text, -(Dword - 1), Dword - 1)

ToSigned(text) == ToNumber(text, -(Dword \div 2), (Dword \div 2) - 1)

(* value_or: bad_lexical_cast is caught, the other exceptions are not.         *)
OrDefault(result, default) == IF result = Bad THEN default ELSE result

(* v4_parse_address: a port after the host must be a good one, and is ignored. *)
ToAddress(text) ==
  LET good(port) == ToUnsigned(port) \notin {Throws, Bad} /\ ToUnsigned(port) % Dword < Word
  IN IF ~text.quoted /\ text.host # None /\ (text.port = None \/ good(text.port))
     THEN text.host ELSE Throws

-----------------------------------------------------------------------------
(* arguments: a flag, or an operand that goes to the flag before it.           *)

Has(arguments, flag) == \E i \in 1..Len(arguments) : arguments[i] = [flag |-> flag]

IsFlag(arg) == "flag" \in DOMAIN arg

Operands(arguments, flag) ==
  LET last[i \in 0..Len(arguments)] ==
        IF i = 0 THEN "" ELSE IF IsFlag(arguments[i]) THEN arguments[i].flag ELSE last[i-1]
      own == SelectSeq([i \in 1..Len(arguments) |-> i],
                       LAMBDA i : ~IsFlag(arguments[i]) /\ last[i] = flag)
  IN [k \in 1..Len(own) |-> arguments[own[k]].operand]
===============================================================================
