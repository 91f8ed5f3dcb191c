----------------------------- MODULE TftpReader -----------------------------
(* tftp_reader (bootpd/tftp_reader.cpp): the file of a transfer cut in blocks. *)
(* Here a block is its size; TftpFile adds what the blocks hold.               *)
EXTENDS Naturals

CONSTANTS
  Word,      \* 2^w, w the width of std::uintmax_t: 2^64
  MaxBuffer  \* the longest std::vector<std::byte> that can be allocated

ASSUME ReaderAssumption ==
  /\ Word \in Nat
  /\ MaxBuffer \in Nat
  /\ MaxBuffer < Word

Readers == [m_length : 0..Word-1, m_blksiz : 0..MaxBuffer,
            m_number : 0..Word-1, size : 0..MaxBuffer]

(* Subtraction of uintmax_t, of a by b. *)
Minus(a, b) == (a + (Word - b)) % Word

Lesser(a, b) == IF b < a THEN b ELSE a

(* Where the block after the current one begins. *)
Offset(r) == (r.m_number * r.m_blksiz) % Word

(* tftp_reader::next(): size is m_buffer.size(). *)
NextBlock(r) ==
  [r EXCEPT !.size = Lesser(Minus(r.m_length, Offset(r)), r.m_blksiz),
            !.m_number = (@ + 1) % Word]

(* The constructor, for block sizes that m_buffer(blksiz) can allocate. A      *)
(* length of 0 means that of the file as it is now, file_size.                 *)
NewReader(length, blksiz, file_size) ==
  NextBlock([m_length |-> IF length # 0 THEN length ELSE file_size,
             m_blksiz |-> blksiz, m_number |-> 0, size |-> blksiz])

(* Mutants of IsLast: a full block ends the file; only an empty one does.      *)
IsLastIfFull(r) == r.size <= r.m_blksiz
IsLastIfEmpty(r) == r.size = 0

IsLast(r) == r.size < r.m_blksiz

(* The reader is inside its file: the current block is one of the ceiling of   *)
(* m_length / m_blksiz + 1 that the file has, so that m_length - offset cannot *)
(* have wrapped around, and it ends the file exactly if it is the last one.    *)
InBounds(r) ==
  LET start == (r.m_number - 1) * r.m_blksiz IN
  /\ r.m_number > 0
  /\ start <= r.m_length
  /\ r.size = Lesser(r.m_length - start, r.m_blksiz)
=============================================================================
