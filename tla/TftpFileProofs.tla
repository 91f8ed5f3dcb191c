---------------------------- MODULE TftpFileProofs ----------------------------
(* Theorems about TftpFile, for all files, block sizes and widths of integers, *)
(* and another program that writes the file at any time.                       *)
EXTENDS TftpFile, TftpReaderProofs, SequenceTheorems

-----------------------------------------------------------------------------
(* Sequences of whatever elements *)

IsSequence(s) == Len(s) \in Nat /\ s = [i \in 1..Len(s) |-> s[i]]

(* A function on 1..n is a sequence of the length n.                           *)
LEMMA Buffer ==
  ASSUME NEW n \in Nat, NEW s, s = [i \in 1..n |-> s[i]]
  PROVE  IsSequence(s) /\ Len(s) = n
BY DEF IsSequence

(* So is every sequence in the sense of the library.                           *)
LEMMA SeqIsSequence ==
  ASSUME NEW S, NEW s \in Seq(S)
  PROVE  IsSequence(s)
BY DEF IsSequence

(* Two sequences are put together by putting one behind the other.             *)
LEMMA Joined ==
  ASSUME NEW s, NEW t, IsSequence(s), IsSequence(t)
  PROVE  /\ IsSequence(s \o t)
         /\ Len(s \o t) = Len(s) + Len(t)
         /\ \A i \in 1..Len(s) : (s \o t)[i] = s[i]
         /\ \A i \in 1..Len(t) : (s \o t)[Len(s) + i] = t[i]
<1> DEFINE S == {s[i] : i \in 1..Len(s)} \cup {t[i] : i \in 1..Len(t)}
<1>1. s \in Seq(S) /\ t \in Seq(S)
  BY DEF IsSequence
<1> HIDE DEF S
<1>2. Len(s) \in Nat /\ Len(t) \in Nat
  BY DEF IsSequence
<1>3. /\ s \o t \in Seq(S)
      /\ Len(s \o t) = Len(s) + Len(t)
      /\ \A i \in 1..Len(s) + Len(t) : (s \o t)[i] = IF i <= Len(s) THEN s[i] ELSE t[i - Len(s)]
  BY <1>1, ConcatProperties
<1>4. IsSequence(s \o t)
  BY <1>3, SeqIsSequence
<1>5. \A i \in 1..Len(s) : i \in 1..Len(s) + Len(t) /\ i <= Len(s)
  BY <1>2
<1>6. \A i \in 1..Len(t) : /\ Len(s) + i \in 1..Len(s) + Len(t)
                           /\ ~(Len(s) + i <= Len(s)) /\ (Len(s) + i) - Len(s) = i
  BY <1>2
<1> QED
  BY <1>3, <1>4, <1>5, <1>6

(* The file is such a sequence, of fewer than 2^64 - 1 bytes.                  *)
LEMMA FileIsSequence ==
  ASSUME NEW f \in Files
  PROVE  IsSequence(f) /\ Len(f) \in 0..Word-2
<1>1. f \in Seq(Range(f)) /\ Len(f) < Word - 1
  BY FileAssumption
<1> QED
  BY <1>1, WordIsPositive DEF IsSequence

(* A read in binary mode, or of a file without CR LF, finds what is there.     *)
LEMMA FoundIsFile ==
  ASSUME disk \in Files, is_binary \/ ~HasCrLf, NEW start \in Nat, start <= Len(disk)
  PROVE  /\ Len(Readable(start)) = Len(disk) - start
         /\ \A i \in 1..Len(disk) - start : Readable(start)[i] = disk[start + i]
<1> DEFINE raw == SubSeq(disk, start + 1, Len(disk))
           dropped == {i \in 1..Len(raw)-1 : ~is_binary /\ raw[i] = "CR" /\ raw[i+1] = "LF"}
<1>1. disk \in Seq(Range(disk)) /\ Len(disk) \in Nat
  BY FileIsSequence, FileAssumption
<1>2. Len(raw) = Len(disk) - start /\ \A i \in 1..Len(disk) - start : raw[i] = disk[start + i]
  BY <1>1
<1>3. dropped = {}
  <2> SUFFICES ASSUME NEW i \in 1..Len(raw)-1, ~is_binary, raw[i] = "CR", raw[i+1] = "LF"
               PROVE  FALSE
    OBVIOUS
  <2> HIDE DEF raw
  <2>1. i \in 1..Len(disk) - start /\ i + 1 \in 1..Len(disk) - start
    BY <1>1, <1>2
  <2>2. raw[i] = disk[start + i] /\ raw[i+1] = disk[start + (i + 1)]
    BY <1>2, <2>1
  <2>3. start + i \in 1..Len(disk)-1 /\ start + (i + 1) = (start + i) + 1
    BY <1>1, <2>1
  <2> QED
    BY <2>2, <2>3 DEF HasCrLf
<1> QED
  BY <1>2, <1>3 DEF Readable

-----------------------------------------------------------------------------
(* The inductive invariant: the sizes of what is delivered, *)
Sizes ==
  /\ disk \in Files
  /\ tsize \in 0..Word-2
  /\ rewritten \/ tsize = Len(disk)
  /\ m_stream \in {"closed", "good", "failed"}
  /\ reader \in Readers
  /\ IsSequence(m_buffer) /\ IsSequence(delivered)
  /\ m_stream = "closed" => m_buffer = <<>> /\ delivered = <<>>
  /\ m_stream # "closed" =>
       /\ reader.m_blksiz > 0
       /\ reader.m_length \in 0..Word-2
       /\ tsize # 0 \/ ~rewritten => reader.m_length = tsize
       /\ InBounds(reader)
       /\ Len(delivered) = (reader.m_number - 1) * reader.m_blksiz
       /\ Len(m_buffer) = reader.size

(* and, as long as every read found what is in the file, its bytes.            *)
Exact == m_stream = "good" /\ ~rewritten /\ (is_binary \/ ~HasCrLf)

Bytes ==
  Exact => /\ \A i \in 1..Len(delivered) : delivered[i] = disk[i]
           /\ \A i \in 1..Len(m_buffer) : m_buffer[i] = disk[Len(delivered) + i]

-----------------------------------------------------------------------------
(* What a read does                                                            *)

(* It leaves a buffer of the size that is asked for, whatever it finds.        *)
LEMMA ReadFills ==
  ASSUME NEW r \in Readers, NEW start, Fill(r, start)
  PROVE  /\ reader' = r
         /\ IsSequence(m_buffer') /\ Len(m_buffer') = r.size
         /\ m_stream' \in {"good", "failed"}
         /\ m_stream = "failed" => m_stream' = "failed"
<1>1. r.size \in Nat
  BY DEF Readers
<1>2. m_buffer' = [i \in 1..r.size |-> m_buffer'[i]]
  BY DEF Fill
<1>3. IsSequence(m_buffer') /\ Len(m_buffer') = r.size
  BY <1>1, <1>2, Buffer
<1> QED
  BY <1>1, <1>3 DEF Fill

(* A stream that is good stays so and reads the bytes of the file, if the      *)
(* block is inside the file and the file is read as it is.                     *)
LEMMA ReadIsExact ==
  ASSUME disk \in Files, is_binary \/ ~HasCrLf, NEW r \in Readers, NEW start \in Nat,
         start + r.size <= Len(disk), Fill(r, start), m_stream # "failed"
  PROVE  m_stream' = "good" /\ \A i \in 1..r.size : m_buffer'[i] = disk[start + i]
<1>1. r.size \in Nat /\ Len(disk) \in Nat
  BY FileIsSequence DEF Readers
<1>2. start <= Len(disk) /\ r.size <= Len(disk) - start
  BY <1>1
<1>3. /\ Len(Readable(start)) = Len(disk) - start
      /\ \A i \in 1..Len(disk) - start : Readable(start)[i] = disk[start + i]
  BY <1>2, FoundIsFile
<1>4. Lesser(r.size, Len(Readable(start))) = r.size
  BY <1>1, <1>2, <1>3 DEF Lesser
<1>5. m_stream' = "good" /\ m_buffer' = [i \in 1..r.size |-> IF i <= r.size THEN Readable(start)[i] ELSE Zero]
  BY <1>4 DEF Fill
<1>6. \A i \in 1..r.size : i <= r.size /\ i \in 1..Len(disk) - start
  BY <1>1, <1>2
<1> QED
  BY <1>3, <1>5, <1>6

(* A block that is inside the file, by the arithmetic of the reader.           *)
LEMMA BlockIsInFile ==
  ASSUME NEW r \in Readers, InBounds(r)
  PROVE  /\ (r.m_number - 1) * r.m_blksiz \in Nat
         /\ (r.m_number - 1) * r.m_blksiz + r.size <= r.m_length
<1> DEFINE start == (r.m_number - 1) * r.m_blksiz
<1>1. r.m_number - 1 \in Nat /\ r.m_blksiz \in Nat /\ r.m_length \in Nat
  BY DEF Readers, InBounds
<1>2. start \in Nat
  BY <1>1
<1>3. start <= r.m_length /\ r.size = Lesser(r.m_length - start, r.m_blksiz)
  BY DEF InBounds
<1> HIDE DEF start
<1>4. start + r.size <= r.m_length
  BY <1>1, <1>2, <1>3 DEF Lesser
<1> QED
  BY <1>2, <1>4 DEF start

-----------------------------------------------------------------------------
(* Nothing is delivered before the file is open.                               *)
LEMMA SizesInit == FileInit => Sizes /\ Bytes
<1> SUFFICES ASSUME FileInit
             PROVE  Sizes /\ Bytes
  OBVIOUS
<1>1. Len(disk) \in 0..Word-2
  BY FileIsSequence DEF FileInit
<1>2. reader \in Readers
  <2>1. 0 \in 0..Word-2 /\ 0 \in 0..MaxBuffer
    BY <1>1, WordIsPositive
  <2> QED
    BY <2>1, NewReaderIsInFile DEF FileInit
<1>3. IsSequence(<<>>)
  BY DEF IsSequence
<1> QED
  BY <1>1, <1>2, <1>3 DEF FileInit, Sizes, Bytes, Exact

(* The constructor stands on the first block.                                  *)
LEMMA ConstructKeeps ==
  ASSUME Sizes, Construct
  PROVE  Sizes' /\ Bytes'
<1>1. PICK blksiz \in BlockSizes :
        LET r == NewReader(tsize, blksiz, Len(disk)) IN
        \/ Fill(r, 0)
        \/ /\ reader' = r
           /\ m_stream' = "failed"
           /\ m_buffer' = [i \in 1..r.size |-> Zero]
  BY DEF Construct
<1> DEFINE r == NewReader(tsize, blksiz, Len(disk))
<1>2. m_stream = "closed" /\ delivered = <<>> /\ UNCHANGED <<disk, tsize, rewritten, is_binary, delivered>>
  BY DEF Construct, Sizes
<1>3. blksiz \in 0..MaxBuffer /\ blksiz > 0
  BY FileAssumption
<1>4. tsize \in 0..Word-2 /\ disk \in Files /\ Len(disk) \in 0..Word-2
  BY FileIsSequence DEF Sizes
<1>5. /\ r \in Readers /\ InBounds(r)
      /\ r.m_length \in 0..Word-2 /\ r.m_blksiz > 0 /\ r.m_number = 1
      /\ r.m_length = IF tsize # 0 THEN tsize ELSE Len(disk)
  BY <1>3, <1>4, NewReaderIsInFile
<1>6. (r.m_number - 1) * r.m_blksiz = 0
  BY <1>5 DEF Readers
<1> HIDE DEF r
<1>7. /\ reader' = r
      /\ IsSequence(m_buffer') /\ Len(m_buffer') = r.size
      /\ m_stream' \in {"good", "failed"}
  <2>1. CASE Fill(r, 0)
    BY <1>5, <2>1, ReadFills
  <2>2. CASE reader' = r /\ m_stream' = "failed" /\ m_buffer' = [i \in 1..r.size |-> Zero]
    BY <1>5, <2>2, Buffer DEF Readers
  <2> QED
    BY <1>1, <2>1, <2>2 DEF r
<1>8. Sizes'
  BY <1>2, <1>4, <1>5, <1>6, <1>7 DEF Sizes
<1>9. Bytes'
  <2> SUFFICES ASSUME Exact'
               PROVE  /\ \A i \in 1..Len(delivered') : delivered'[i] = disk'[i]
                      /\ \A i \in 1..Len(m_buffer') : m_buffer'[i] = disk'[Len(delivered') + i]
    BY DEF Bytes
  <2>1. Fill(r, 0) /\ ~rewritten /\ (is_binary \/ ~HasCrLf)
    BY <1>1, <1>2 DEF Exact, HasCrLf, r
  <2>2. 0 + r.size <= Len(disk)
    BY <1>4, <1>5, <1>6, <2>1, BlockIsInFile DEF Sizes, Readers
  <2>3. \A i \in 1..r.size : m_buffer'[i] = disk[0 + i]
    BY <1>2, <1>4, <1>5, <2>1, <2>2, ReadIsExact
  <2> QED
    BY <1>2, <1>7, <2>3
<1> QED
  BY <1>8, <1>9

(* Another block, behind the blocks before it.                                 *)
LEMMA ReadNextKeeps ==
  ASSUME Sizes, Bytes, ReadNext
  PROVE  Sizes' /\ Bytes'
<1> DEFINE r == NextBlock(reader)
           start == reader.m_number * reader.m_blksiz
<1>1. /\ m_stream # "closed" /\ ~IsLast(reader) /\ Fill(r, Offset(reader))
      /\ delivered' = delivered \o m_buffer
      /\ UNCHANGED <<disk, tsize, rewritten, is_binary>>
  BY DEF ReadNext
<1>2. /\ reader \in Readers /\ InBounds(reader)
      /\ reader.m_length \in 0..Word-2 /\ reader.m_blksiz > 0
      /\ disk \in Files /\ tsize \in 0..Word-2
      /\ IsSequence(m_buffer) /\ IsSequence(delivered)
      /\ Len(delivered) = (reader.m_number - 1) * reader.m_blksiz
      /\ Len(m_buffer) = reader.size
      /\ tsize # 0 \/ ~rewritten => reader.m_length = tsize
      /\ rewritten \/ tsize = Len(disk)
  BY <1>1 DEF Sizes
<1>3. /\ r \in Readers /\ r.m_length = reader.m_length /\ r.m_blksiz = reader.m_blksiz
      /\ InBounds(r) /\ r.m_number = reader.m_number + 1
      /\ Offset(reader) = start
      /\ (reader.m_number - 1) * reader.m_blksiz + reader.size = start
  BY <1>1, <1>2, NextBlockIsReader, NextBlockIsInFile
<1>4. (r.m_number - 1) * r.m_blksiz = start /\ start \in Nat
  <2>1. reader.m_number \in Nat /\ reader.m_blksiz \in Nat
    BY <1>2 DEF Readers
  <2>2. r.m_number - 1 = reader.m_number
    BY <1>3, <2>1
  <2> QED
    BY <1>3, <2>1, <2>2
<1>5. start + r.size <= reader.m_length
  BY <1>3, <1>4, BlockIsInFile
<1> HIDE DEF r, start
<1>6. /\ reader' = r
      /\ IsSequence(m_buffer') /\ Len(m_buffer') = r.size
      /\ m_stream' \in {"good", "failed"}
      /\ m_stream = "failed" => m_stream' = "failed"
  BY <1>1, <1>3, ReadFills
<1>7. /\ IsSequence(delivered')
      /\ Len(delivered') = start
      /\ \A i \in 1..Len(delivered) : delivered'[i] = delivered[i]
      /\ \A i \in 1..Len(m_buffer) : delivered'[Len(delivered) + i] = m_buffer[i]
  <2>1. Len(delivered) + Len(m_buffer) = start
    BY <1>2, <1>3
  <2>2. LET both == delivered \o m_buffer
        IN /\ IsSequence(both)
           /\ Len(both) = Len(delivered) + Len(m_buffer)
           /\ \A i \in 1..Len(delivered) : both[i] = delivered[i]
           /\ \A i \in 1..Len(m_buffer) : both[Len(delivered) + i] = m_buffer[i]
    BY <1>2, Joined
  <2> QED
    BY <1>1, <2>1, <2>2
<1>8. Sizes'
  <2>1. Len(delivered') = (r.m_number - 1) * r.m_blksiz
    BY <1>4, <1>7
  <2>2. r.m_length \in 0..Word-2 /\ r.m_blksiz > 0 /\ (tsize # 0 \/ ~rewritten => r.m_length = tsize)
    BY <1>2, <1>3
  <2> QED
    BY <1>1, <1>2, <1>3, <1>6, <1>7, <2>1, <2>2 DEF Sizes
<1>9. Bytes'
  <2> SUFFICES ASSUME Exact'
               PROVE  /\ \A i \in 1..Len(delivered') : delivered'[i] = disk'[i]
                      /\ \A i \in 1..Len(m_buffer') : m_buffer'[i] = disk'[Len(delivered') + i]
    BY DEF Bytes
  <2>1. m_stream = "good" /\ ~rewritten /\ (is_binary \/ ~HasCrLf) /\ Exact
    BY <1>1, <1>6 DEF Exact, HasCrLf, Sizes
  <2>2. \A i \in 1..r.size : m_buffer'[i] = disk[start + i]
    BY <1>1, <1>2, <1>3, <1>4, <1>5, <2>1, ReadIsExact
  <2>3. ASSUME NEW i \in 1..start
        PROVE  delivered'[i] = disk[i]
    <3>1. CASE i \in 1..Len(delivered)
      BY <1>7, <2>1, <3>1 DEF Bytes
    <3>2. CASE i \notin 1..Len(delivered)
      <4>1. PICK k \in 1..Len(m_buffer) : i = Len(delivered) + k
        <5>1. i - Len(delivered) \in 1..Len(m_buffer) /\ i = Len(delivered) + (i - Len(delivered))
          BY <1>2, <1>3, <1>4, <3>2 DEF IsSequence
        <5> QED
          BY <5>1
      <4> QED
        BY <1>7, <2>1, <4>1 DEF Bytes
    <3> QED
      BY <3>1, <3>2
  <2> QED
    BY <1>1, <1>6, <1>7, <2>2, <2>3
<1> QED
  BY <1>8, <1>9

(* What another program writes is of no concern to the sizes.                  *)
LEMMA RewriteKeeps ==
  ASSUME Sizes, Rewrite
  PROVE  Sizes' /\ Bytes'
<1>1. /\ disk' \in Files /\ rewritten'
      /\ UNCHANGED <<tsize, is_binary, m_stream, reader, m_buffer, delivered>>
  BY DEF Rewrite
<1>2. Sizes'
  BY <1>1 DEF Sizes
<1> QED
  BY <1>1, <1>2 DEF Bytes, Exact

(* So both hold in every state.                                                *)
LEMMA FileAlways == FileSpec => [](Sizes /\ Bytes)
<1>1. Sizes /\ Bytes /\ UNCHANGED fileVars => (Sizes /\ Bytes)'
  BY DEF fileVars, Sizes, Bytes, Exact, HasCrLf
<1>2. Sizes /\ Bytes /\ [FileNext]_fileVars => (Sizes /\ Bytes)'
  BY <1>1, ConstructKeeps, ReadNextKeeps, RewriteKeeps DEF FileNext
<1> QED
  BY <1>2, SizesInit, PTL DEF FileSpec

-----------------------------------------------------------------------------
(* The properties *)

(* The buffer has the size the reader says, in text mode and on a stream that  *)
(* has failed as well.                                                         *)
THEOREM FileTypeCorrect == FileSpec => []FileTypeOK
<1>1. Sizes => FileTypeOK
  <2> SUFFICES ASSUME Sizes
               PROVE  FileTypeOK
    OBVIOUS
  <2>1. tsize \in 0..Word-1
    BY WordIsPositive DEF Sizes
  <2>2. m_stream = "closed" => Len(m_buffer) = 0
    BY DEF Sizes
  <2> QED
    BY <2>1, <2>2 DEF Sizes, FileTypeOK
<1> QED
  BY <1>1, FileAlways, PTL

(* The bytes delivered and in the buffer are the beginning of the file, or all *)
(* of it.                                                                      *)
LEMMA ContentOfFile == Sizes /\ Bytes => DeliveredIsFile
<1> SUFFICES ASSUME Sizes, Bytes, Exact
             PROVE  /\ Content = SubSeq(disk, 1, Len(Content))
                    /\ IsLast(reader) => Content = disk
  BY DEF Exact, DeliveredIsFile
<1>1. /\ reader \in Readers /\ InBounds(reader) /\ reader.m_length = tsize /\ tsize = Len(disk)
      /\ IsSequence(m_buffer) /\ IsSequence(delivered) /\ disk \in Files
      /\ Len(delivered) = (reader.m_number - 1) * reader.m_blksiz
      /\ Len(m_buffer) = reader.size
  BY DEF Sizes, Exact
<1>2. /\ IsSequence(Content)
      /\ Len(Content) = Len(delivered) + Len(m_buffer)
      /\ \A i \in 1..Len(delivered) : Content[i] = delivered[i]
      /\ \A i \in 1..Len(m_buffer) : Content[Len(delivered) + i] = m_buffer[i]
  BY <1>1, Joined DEF Content
<1>3. Len(Content) <= Len(disk)
  BY <1>1, <1>2, BlockIsInFile
<1>4. ASSUME NEW i \in 1..Len(Content)
      PROVE  Content[i] = disk[i]
  <2>1. CASE i \in 1..Len(delivered)
    BY <1>2, <2>1 DEF Bytes
  <2>2. CASE i \notin 1..Len(delivered)
    <3>1. PICK k \in 1..Len(m_buffer) : i = Len(delivered) + k
      <4>1. i - Len(delivered) \in 1..Len(m_buffer) /\ i = Len(delivered) + (i - Len(delivered))
        BY <1>1, <1>2, <2>2 DEF IsSequence
      <4> QED
        BY <4>1
    <3> QED
      BY <1>2, <3>1 DEF Bytes
  <2> QED
    BY <2>1, <2>2
<1>5. Content = [i \in 1..Len(Content) |-> disk[i]]
  BY <1>2, <1>4 DEF IsSequence
<1>6. disk \in Seq(Range(disk)) /\ disk = [i \in 1..Len(disk) |-> disk[i]] /\ Len(disk) \in Nat
  BY <1>1, FileAssumption, FileIsSequence DEF IsSequence
<1>7. SubSeq(disk, 1, Len(Content)) = [i \in 1..Len(Content) |-> disk[i]]
  BY <1>2, <1>3, <1>6 DEF IsSequence
<1>8. IsLast(reader) => Len(Content) = Len(disk)
  <2>1. IsLast(reader) => (reader.m_number - 1) * reader.m_blksiz + reader.size = reader.m_length
    BY <1>1, LastBlockEndsFile
  <2> QED
    BY <1>1, <1>2, <2>1
<1>9. ASSUME IsLast(reader)
      PROVE  Content = disk
  <2>1. Len(Content) = Len(disk)
    BY <1>8, <1>9
  <2> QED
    BY <1>5, <1>6, <2>1
<1>10. Content = SubSeq(disk, 1, Len(Content))
  BY <1>5, <1>7
<1> QED
  BY <1>9, <1>10

(* A file that nobody writes to arrives byte by byte: every byte once and in   *)
(* its place, whatever the block size, also if it is a multiple of it.         *)
THEOREM FileIsDelivered == FileSpec => []DeliveredIsFile
BY ContentOfFile, FileAlways, PTL

(* The client gets as many bytes as the OACK announced, although the size is   *)
(* asked for when the options are validated, and the file read much later.     *)
THEOREM AnnouncedIsDelivered == FileSpec => []DeliveredIsAnnounced
<1>1. Sizes => DeliveredIsAnnounced
  <2> SUFFICES ASSUME Sizes, m_stream # "closed", IsLast(reader), tsize # 0 \/ ~rewritten
               PROVE  Len(Content) = tsize
    BY DEF DeliveredIsAnnounced
  <2>1. /\ reader \in Readers /\ InBounds(reader) /\ reader.m_length = tsize
        /\ IsSequence(m_buffer) /\ IsSequence(delivered)
        /\ Len(delivered) = (reader.m_number - 1) * reader.m_blksiz
        /\ Len(m_buffer) = reader.size
    BY DEF Sizes
  <2>2. Len(Content) = Len(delivered) + Len(m_buffer)
    BY <2>1, Joined DEF Content
  <2> QED
    BY <2>1, <2>2, LastBlockEndsFile
<1> QED
  BY <1>1, FileAlways, PTL

(* In binary mode a read fails only if the file was written to meanwhile: no   *)
(* block reaches behind the end of the file.                                   *)
THEOREM ReadsFailByRewriting == FileSpec => FailureLosesRest
<1>1. Sizes /\ [FileNext]_fileVars => [m_stream = "good" /\ m_stream' = "failed" => ~is_binary \/ rewritten]_fileVars
  <2> SUFFICES ASSUME Sizes, [FileNext]_fileVars, m_stream = "good", m_stream' = "failed",
                      is_binary, ~rewritten
               PROVE  FALSE
    OBVIOUS
  <2>1. ReadNext
    BY DEF FileNext, fileVars, Construct, Rewrite
  <2>2. /\ reader \in Readers /\ InBounds(reader) /\ ~IsLast(reader)
        /\ reader.m_length \in 0..Word-2 /\ reader.m_blksiz > 0
        /\ disk \in Files /\ reader.m_length = Len(disk)
    BY <2>1 DEF Sizes, ReadNext
  <2> DEFINE r == NextBlock(reader)
  <2>3. /\ r \in Readers /\ r.m_length = Len(disk) /\ InBounds(r)
        /\ Offset(reader) = (r.m_number - 1) * r.m_blksiz
    <3>1. /\ r \in Readers /\ r.m_length = Len(disk) /\ r.m_blksiz = reader.m_blksiz
          /\ InBounds(r) /\ r.m_number = reader.m_number + 1
          /\ Offset(reader) = reader.m_number * reader.m_blksiz
      BY <2>2, NextBlockIsReader, NextBlockIsInFile
    <3>2. r.m_number - 1 = reader.m_number
      BY <2>2, <3>1 DEF Readers
    <3> QED
      BY <3>1, <3>2
  <2>4. Fill(r, Offset(reader))
    BY <2>1 DEF ReadNext
  <2> HIDE DEF r
  <2>5. Offset(reader) \in Nat /\ Offset(reader) + r.size <= Len(disk)
    BY <2>3, BlockIsInFile
  <2> QED
    BY <2>2, <2>3, <2>4, <2>5, ReadIsExact
<1>2. FileSpec => []Sizes
  BY FileAlways, PTL
<1> QED
  BY <1>1, <1>2, PTL DEF FileSpec, FailureLosesRest
=============================================================================
