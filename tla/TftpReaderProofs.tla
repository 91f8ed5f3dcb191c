--------------------------- MODULE TftpReaderProofs ---------------------------
(* Theorems about tftp_reader, for every width of an integer and every length *)
(* of a buffer.                                                               *)
EXTENDS TftpReader, Integers, TLAPS

(* What `% Word` does to the values that occur. *)
LEMMA WordIsPositive == Word \in Nat /\ Word > 0 /\ MaxBuffer \in Nat /\ MaxBuffer < Word
  BY ReaderAssumption

(* A value taken modulo Word is a value of the integer type.                  *)
LEMMA ModRange == ASSUME NEW x \in Nat PROVE x % Word \in 0..Word-1
  BY WordIsPositive

(* A value that fits is its own remainder.                                    *)
LEMMA ModOfSmall == ASSUME NEW x \in 0..Word-1 PROVE x % Word = x
  BY WordIsPositive

(* What has wrapped once comes back.                                          *)
LEMMA ModOfOneMore == ASSUME NEW x \in 0..Word-1 PROVE (x + Word) % Word = x
  BY WordIsPositive, Z3T(30)

(* The subtraction of a reader that is inside its file is exact. *)
LEMMA MinusIsExact ==
  ASSUME NEW a \in 0..Word-1, NEW b \in 0..Word-1, b <= a
  PROVE  Minus(a, b) = a - b
<1>1. a - b \in 0..Word-1
  BY WordIsPositive
<1>2. a + (Word - b) = (a - b) + Word
  BY WordIsPositive
<1> QED
  BY <1>1, <1>2, ModOfOneMore DEF Minus

(* A subtraction of size_t values is a size_t value, wrapped or not.          *)
LEMMA MinusRange ==
  ASSUME NEW a \in 0..Word-1, NEW b \in 0..Word-1
  PROVE  Minus(a, b) \in 0..Word-1
<1>1. a + (Word - b) \in Nat
  BY WordIsPositive
<1> QED
  BY <1>1, ModRange DEF Minus

(* So is the offset at which a reader reads.                                  *)
LEMMA OffsetRange == ASSUME NEW r \in Readers PROVE Offset(r) \in 0..Word-1
<1>1. r.m_number * r.m_blksiz \in Nat
  BY DEF Readers
<1> QED
  BY <1>1, ModRange DEF Offset

(* next() leaves a reader of the same file. *)
LEMMA NextBlockIsReader ==
  ASSUME NEW r \in Readers
  PROVE  /\ NextBlock(r) \in Readers
         /\ NextBlock(r).m_length = r.m_length
         /\ NextBlock(r).m_blksiz = r.m_blksiz
<1>1. Lesser(Minus(r.m_length, Offset(r)), r.m_blksiz) \in 0..MaxBuffer
  <2>1. Minus(r.m_length, Offset(r)) \in Nat
    BY OffsetRange, MinusRange DEF Readers
  <2> QED
    BY <2>1, WordIsPositive DEF Lesser, Readers
<1>2. (r.m_number + 1) % Word \in 0..Word-1
  BY ModRange DEF Readers
<1> QED
  BY <1>1, <1>2 DEF NextBlock, Readers

(* The constructor of a file of fewer than 2^64 - 1 bytes leaves the reader on *)
(* its first block.                                                            *)
LEMMA NewReaderIsInFile ==
  ASSUME NEW length \in 0..Word-2, NEW blksiz \in 0..MaxBuffer,
         NEW file_size \in 0..Word-2
  PROVE  /\ NewReader(length, blksiz, file_size) \in Readers
         /\ NewReader(length, blksiz, file_size).m_length \in 0..Word-2
         /\ NewReader(length, blksiz, file_size).m_length = IF length # 0 THEN length ELSE file_size
         /\ NewReader(length, blksiz, file_size).m_blksiz = blksiz
         /\ NewReader(length, blksiz, file_size).m_number = 1
         /\ InBounds(NewReader(length, blksiz, file_size))
<1> DEFINE len == IF length # 0 THEN length ELSE file_size
           r0 == [m_length |-> len, m_blksiz |-> blksiz, m_number |-> 0, size |-> blksiz]
           r1 == NextBlock(r0)
<1>1. len \in 0..Word-2 /\ len \in 0..Word-1
  BY WordIsPositive
<1>2. r0 \in Readers
  BY <1>1, WordIsPositive DEF Readers
<1>3. r1 \in Readers /\ r1.m_length = len /\ r1.m_blksiz = blksiz
  BY <1>2, NextBlockIsReader
<1>4. Offset(r0) = 0
  <2>1. r0.m_number * r0.m_blksiz = 0
    OBVIOUS
  <2>2. 0 \in 0..Word-1
    BY WordIsPositive
  <2> QED
    BY <2>1, <2>2, ModOfSmall DEF Offset
<1>5. Minus(len, 0) = len
  BY <1>1, WordIsPositive, MinusIsExact
<1>6. (0 + 1) % Word = 1
  <2>1. 1 \in 0..Word-1
    BY <1>1, WordIsPositive
  <2> QED
    BY <2>1, ModOfSmall
<1>7. r1.m_number = 1 /\ r1.size = Lesser(len, blksiz)
  BY <1>4, <1>5, <1>6 DEF NextBlock
<1>8. (1 - 1) * blksiz = 0 /\ len - 0 = len /\ 0 <= len
  BY <1>1, WordIsPositive
<1>9. InBounds(r1)
  <2> HIDE DEF r1
  <2> QED
    BY <1>3, <1>7, <1>8 DEF InBounds
<1> QED
  BY <1>1, <1>3, <1>7, <1>9 DEF NewReader

(* next(), called for a block that is not the last, moves on inside the file:  *)
(* neither the offset nor m_length - offset wraps around.                      *)
LEMMA NextBlockIsInFile ==
  ASSUME NEW r \in Readers, r.m_length \in 0..Word-2, r.m_blksiz > 0,
         InBounds(r), ~IsLast(r)
  PROVE  /\ InBounds(NextBlock(r))
         /\ NextBlock(r).m_number = r.m_number + 1
         /\ Offset(r) = r.m_number * r.m_blksiz
         /\ (r.m_number - 1) * r.m_blksiz + r.size = r.m_number * r.m_blksiz
<1> DEFINE n == r.m_number
           b == r.m_blksiz
           l == r.m_length
           s == NextBlock(r)
<1>1. n \in Nat /\ n > 0 /\ b \in Nat /\ b > 0 /\ l \in 0..Word-2
  BY DEF Readers, InBounds
<1>2. (n - 1) * b + b = n * b
  BY <1>1
<1>3. n * b <= l
  <2>1. l - (n - 1) * b >= b
    BY <1>1 DEF InBounds, IsLast, Lesser
  <2> QED
    BY <1>1, <1>2, <2>1
<1>4. n <= n * b
  BY <1>1
<1>5. n * b \in 0..Word-1 /\ n + 1 \in 0..Word-1
  BY <1>1, <1>3, <1>4, WordIsPositive
<1>6. Offset(r) = n * b
  BY <1>5, ModOfSmall DEF Offset
<1>7. Minus(l, n * b) = l - n * b
  BY <1>1, <1>3, <1>5, WordIsPositive, MinusIsExact
<1>8. s.m_number = n + 1 /\ s.size = Lesser(l - n * b, b)
  BY <1>5, <1>6, <1>7, ModOfSmall DEF NextBlock, Readers
<1>9. s.m_length = l /\ s.m_blksiz = b
  BY NextBlockIsReader
<1>10. ((n + 1) - 1) * b = n * b /\ n + 1 > 0
  BY <1>1
<1>11. r.size = b
  <2>1. r.size >= b /\ r.size = Lesser(l - (n - 1) * b, b)
    BY <1>1 DEF InBounds, IsLast, Readers
  <2> QED
    BY <1>1, <2>1 DEF Lesser
<1> QED
  BY <1>2, <1>3, <1>6, <1>8, <1>9, <1>10, <1>11 DEF InBounds

(* A short block inside the file ends it. *)
LEMMA LastBlockEndsFile ==
  ASSUME NEW r \in Readers, InBounds(r), IsLast(r)
  PROVE  (r.m_number - 1) * r.m_blksiz + r.size = r.m_length
<1> DEFINE start == (r.m_number - 1) * r.m_blksiz
<1>1. start \in Int /\ r.m_length \in Int /\ r.m_blksiz \in Int
  BY DEF Readers
<1>2. r.size = r.m_length - start
  BY <1>1 DEF InBounds, IsLast, Lesser
<1> QED
  BY <1>1, <1>2
=============================================================================
