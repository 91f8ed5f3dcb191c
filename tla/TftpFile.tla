------------------------------- MODULE TftpFile -------------------------------
(* What the blocks of a transfer hold: tftp_reader with its std::ifstream, and *)
(* a file that another program may rewrite meanwhile. The stream reads in text *)
(* mode for a netascii request and then makes LF of CR LF. A read that fails   *)
(* is not noticed: the buffer keeps the zeros resize put there.                *)
EXTENDS TftpReader, Sequences, SequencesExt

CONSTANTS
  Files,       \* contents of the file: sequences of "CR", "LF" and other bytes
  BlockSizes,
  Zero         \* the byte 0

ASSUME FileAssumption ==
  /\ \A f \in Files : f \in Seq(Range(f)) /\ Len(f) < Word - 1
  /\ BlockSizes \subseteq 1..MaxBuffer

VARIABLES
  disk,       \* what the file holds now
  tsize,      \* file_size when the options were validated
  rewritten,  \* the file was written to since
  is_binary,
  m_stream,   \* "closed" before the constructor, then "good" or "failed"
  reader,
  m_buffer,
  delivered   \* the bytes of the blocks before m_buffer

fileVars == <<disk, tsize, rewritten, is_binary, m_stream, reader, m_buffer, delivered>>

FileInit ==
  /\ disk \in Files
  /\ tsize = Len(disk)
  /\ rewritten = FALSE
  /\ is_binary \in BOOLEAN
  /\ m_stream = "closed"
  /\ reader = NewReader(0, 0, 0)
  /\ m_buffer = <<>>
  /\ delivered = <<>>

(* What a read from `start` on finds in the file. *)
Readable(start) ==
  LET raw == SubSeq(disk, start + 1, Len(disk))
      dropped == {i \in 1..Len(raw)-1 : ~is_binary /\ raw[i] = "CR" /\ raw[i+1] = "LF"}
      kept == SetToSortSeq((1..Len(raw)) \ dropped, <)
  IN IF dropped = {} THEN raw ELSE [i \in 1..Len(kept) |-> raw[kept[i]]]

(* Mutant of Fill: a buffer cut to what was read. *)
FillShort(r, start) ==
  LET found == Readable(start)
      count == IF m_stream = "failed" THEN 0 ELSE Lesser(r.size, Len(found))
  IN /\ reader' = r
     /\ m_buffer' = SubSeq(found, 1, count)
     /\ m_stream' = IF count = r.size /\ m_stream # "failed" THEN "good" ELSE "failed"

(* seekg and read fill the buffer of r, the reader after next(); both do       *)
(* nothing on a stream that has failed before.                                 *)
Fill(r, start) ==
  LET found == Readable(start)
      count == IF m_stream = "failed" THEN 0 ELSE Lesser(r.size, Len(found))
  IN /\ reader' = r
     /\ m_buffer' = [i \in 1..r.size |-> IF i <= count THEN found[i] ELSE Zero]
     /\ m_stream' = IF count = r.size /\ m_stream # "failed" THEN "good" ELSE "failed"

(* Mutant of Construct: the size is asked for again, not taken from tsize. *)
ConstructAnew ==
  /\ m_stream = "closed"
  /\ \E blksiz \in BlockSizes : Fill(NewReader(0, blksiz, Len(disk)), 0)
  /\ UNCHANGED <<disk, tsize, rewritten, is_binary, delivered>>

(* The constructor; the stream may fail to open. *)
Construct ==
  /\ m_stream = "closed"
  /\ \E blksiz \in BlockSizes :
       LET r == NewReader(tsize, blksiz, Len(disk)) IN
       \/ Fill(r, 0)
       \/ /\ reader' = r
          /\ m_stream' = "failed"
          /\ m_buffer' = [i \in 1..r.size |-> Zero]
  /\ UNCHANGED <<disk, tsize, rewritten, is_binary, delivered>>

(* Mutant of ReadNext: the offset taken after ++m_number. *)
ReadNextButOne ==
  /\ m_stream # "closed"
  /\ ~IsLast(reader)
  /\ Fill(NextBlock(reader), Offset(NextBlock(reader)))
  /\ delivered' = delivered \o m_buffer
  /\ UNCHANGED <<disk, tsize, rewritten, is_binary>>

(* next(), which the session calls after the ACK of a block but the last. *)
ReadNext ==
  /\ m_stream # "closed"
  /\ ~IsLast(reader)
  /\ Fill(NextBlock(reader), Offset(reader))
  /\ delivered' = delivered \o m_buffer
  /\ UNCHANGED <<disk, tsize, rewritten, is_binary>>

(* Somebody else writes the file. *)
Rewrite ==
  /\ ~rewritten
  /\ disk' \in Files
  /\ rewritten' = TRUE
  /\ UNCHANGED <<tsize, is_binary, m_stream, reader, m_buffer, delivered>>

FileNext == Construct \/ ReadNext \/ Rewrite

FileSpec == FileInit /\ [][FileNext]_fileVars

-----------------------------------------------------------------------------
(* Properties *)

FileTypeOK ==
  /\ disk \in Files
  /\ tsize \in 0..Word-1
  /\ m_stream \in {"closed", "good", "failed"}
  /\ reader \in Readers
  /\ Len(m_buffer) = (IF m_stream = "closed" THEN 0 ELSE reader.size)

Content == delivered \o m_buffer

HasCrLf == \E i \in 1..Len(disk)-1 : disk[i] = "CR" /\ disk[i+1] = "LF"

(* A file that could be opened and that nobody writes to is delivered byte by  *)
(* byte, no byte twice, none left out: always in binary mode, in text mode if  *)
(* it has no CR LF. (With one the blocks, cut at offsets of the file but read  *)
(* after the translation, overlap, and the last one is filled up with zeros.)  *)
DeliveredIsFile ==
  /\ m_stream = "good"
  /\ ~rewritten
  /\ is_binary \/ ~HasCrLf
  => /\ Content = SubSeq(disk, 1, Len(Content))
     /\ IsLast(reader) => Content = disk

(* The client gets as many bytes as `tsize` announced, whatever happens to the *)
(* file meanwhile: only a file that was empty may have grown.                  *)
DeliveredIsAnnounced ==
  m_stream # "closed" /\ IsLast(reader) =>
    Len(Content) = tsize \/ (tsize = 0 /\ rewritten)

(* In binary mode only a file that cannot be opened, or that was written to,   *)
(* sends zeros in place of bytes.                                              *)
FailureLosesRest ==
  [][m_stream = "good" /\ m_stream' = "failed" => ~is_binary \/ rewritten]_fileVars
=============================================================================
