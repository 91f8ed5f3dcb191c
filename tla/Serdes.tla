-------------------------------- MODULE Serdes --------------------------------
(* serdes (common/serdes.hpp): values written as bytes, the most significant   *)
(* first, and read back. A read past the end throws; the modules that extend   *)
(* this one say when.                                                          *)
EXTENDS Naturals, Sequences, SequencesExt, FiniteSets

Byte == 0..255
Unsigned16 == 0..256 * 256 - 1

Uint16(value) == <<value \div 256, value % 256>>

ToUint16(bytes) == 256 * bytes[1] + bytes[2]

Asciiz(text) == Append(text, 0)

(* All that is left from index i on. *)
From(bytes, i) == SubSeq(bytes, i, Len(bytes))

(* Where reading with serdes_asciiz from index i stops: at the first zero, or  *)
(* past the end, where it throws.                                              *)
EndOfText(bytes, i) ==
  Min({n \in i..Len(bytes)+i : n > Len(bytes) \/ bytes[n] = 0})

(* Mutant of TextAt: the terminator is kept. *)
TextAtWithNul(bytes, i) == SubSeq(bytes, i, EndOfText(bytes, i))

(* The string that is read from index i. *)
TextAt(bytes, i) == SubSeq(bytes, i, EndOfText(bytes, i) - 1)

-----------------------------------------------------------------------------
(* The containers of the packets that are read and written. *)

(* The sum of the first k sizes, for every k. *)
Sums(sizes) ==
  LET sum[k \in 0..Len(sizes)] == IF k = 0 THEN 0 ELSE sum[k-1] + sizes[k] IN sum

Total(sizes) == Sums(sizes)[Len(sizes)]

Empty == [key \in {} |-> <<>>]

(* f with a value for key in place of any it has, and *)
With(f, key, value) ==
  [k \in DOMAIN f \cup {key} |-> IF k = key THEN value ELSE f[k]]

(* f with a value for key unless it has one. *)
Unless(f, key, value) == IF key \in DOMAIN f THEN f ELSE With(f, key, value)
===============================================================================
