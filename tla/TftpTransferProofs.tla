--------------------------- MODULE TftpTransferProofs ---------------------------
(* Theorems about TftpSession, for every request, every file size, every       *)
(* number of retries and of block ids, and any number of strangers; and then   *)
(* about TftpTransfer, for any number of losses, duplicates and resends, and   *)
(* any order of arrival.                                                       *)
EXTENDS TftpTransfer, TftpRetries, TftpReaderProofs

-----------------------------------------------------------------------------
(* One session *)

OptionTypes == [blksize : 0..Word-1, timeout : 0..Word-1, tsize : FileSizes \cup {0}]

InDataLoop == pc \in {"data", "data_recv"}

(* Inside the try block. *)
Running == pc \in {"start", "oack", "oack_recv"} \/ InDataLoop

(* The inductive invariant. The reader of the data loop is one of a file of    *)
(* fewer than 2^64 - 1 bytes, and a receive comes after a send, which a loop   *)
(* only does with a retry left.                                                *)
SessionInv ==
  /\ TypeOK
  /\ Running => result = "none"
  /\ Receiving => retry > 0
  /\ InDataLoop => reader.m_length \in 0..Word-2
  /\ ReaderInFile
  /\ FinishedMeansWholeFile

(* What no step of the two loops changes, and what all of them send.           *)
LoopFrame ==
  /\ UNCHANGED <<request, stop, m_done>>
  /\ options' \in OptionTypes
  /\ \A d \in sent' : d.to \in Senders

(* What the assumptions on the constants give the proofs below.               *)
LEMMA Constants ==
  /\ FileSizes \subseteq 0..Word-2
  /\ MaxRetries \in Nat /\ MaxRetries > 1
  /\ Word \in Nat /\ Word > 0 /\ MaxBuffer \in Nat /\ MaxBuffer < Word
  BY SessionAssumption, WordIsPositive

(* What BeginData leaves, wherever it is called.                               *)
DataBegun ==
  \/ /\ pc' = "leave"
     /\ result' = "error"
     /\ UNCHANGED <<reader, retry>>
  \/ /\ pc' = "data"
     /\ reader' \in Readers
     /\ reader'.m_length \in 0..Word-2
     /\ InBounds(reader')
     /\ retry' = MaxRetries
     /\ result' = result

(* BeginData ends the session in an error, or makes a reader that stands      *)
(* inside its file, with all retries left.                                    *)
LEMMA BeginDataOpensFile ==
  ASSUME NEW opts \in OptionTypes, BeginData(opts)
  PROVE  DataBegun
<1>1. CASE /\ opts.blksize <= MaxBuffer
           /\ \E file_size \in FileSizes :
                reader' = NewReader(opts.tsize, opts.blksize, file_size)
           /\ pc' = "data"
           /\ retry' = MaxRetries
           /\ UNCHANGED result
  <2>1. PICK file_size \in FileSizes :
          reader' = NewReader(opts.tsize, opts.blksize, file_size)
    BY <1>1
  <2>2. file_size \in 0..Word-2 /\ opts.blksize \in 0..MaxBuffer
    BY <1>1, Constants DEF OptionTypes
  <2>3. opts.tsize \in 0..Word-2
    <3>1. 0 \in 0..Word-2
      BY <2>2, Constants
    <3>2. opts.tsize \in FileSizes \cup {0}
      BY DEF OptionTypes
    <3> QED
      BY <3>1, <3>2, Constants
  <2> QED
    BY <1>1, <2>1, <2>2, <2>3, NewReaderIsInFile DEF DataBegun
<1>2. CASE /\ Faulty \/ opts.blksize > MaxBuffer
           /\ Leave("error")
           /\ UNCHANGED <<reader, retry>>
  BY <1>2 DEF DataBegun, Leave
<1> QED
  BY <1>1, <1>2 DEF BeginData

-----------------------------------------------------------------------------
(* One lemma for each way a step of the try block can end.                     *)

(* An exception in the try block: the session is over, with an error.         *)
LEMMA ErrorKeepsInv ==
  ASSUME SessionInv, LoopFrame, Leave("error"), UNCHANGED <<reader, retry>>
  PROVE  SessionInv'
  BY DEF SessionInv, LoopFrame, OptionTypes, Leave, TypeOK, Places, Running,
         InDataLoop, Receiving, ReaderInFile, FinishedMeansWholeFile

(* The data loop is entered with a reader inside its file.                    *)
LEMMA DataBegunKeepsInv ==
  ASSUME SessionInv, Running, LoopFrame, DataBegun
  PROVE  SessionInv'
<1>1. CASE pc' = "leave" /\ result' = "error" /\ UNCHANGED <<reader, retry>>
  BY <1>1, ErrorKeepsInv DEF Leave
<1>2. CASE /\ pc' = "data"
           /\ reader' \in Readers
           /\ reader'.m_length \in 0..Word-2
           /\ InBounds(reader')
           /\ retry' = MaxRetries
           /\ result' = result
  <2>1. TypeOK'
    BY <1>2, Constants DEF SessionInv, TypeOK, LoopFrame, OptionTypes, Places
  <2> QED
    BY <1>2, <2>1 DEF SessionInv, Running, InDataLoop, Receiving, ReaderInFile,
                      FinishedMeansWholeFile
<1> QED
  BY <1>1, <1>2 DEF DataBegun

(* A retry takes one from a counter that is not 0.                            *)
LEMMA TryAgainKeepsInv ==
  ASSUME SessionInv, Running, pc # "start", retry > 0, LoopFrame, TryAgain
  PROVE  SessionInv'
<1>1. retry' \in 0..MaxRetries
  BY Constants DEF TryAgain, SessionInv, TypeOK
<1>2. TypeOK'
  BY <1>1 DEF SessionInv, TypeOK, LoopFrame, OptionTypes, TryAgain, Places
<1>3. InDataLoop' => InDataLoop
  BY DEF TryAgain, Running, InDataLoop
<1> QED
  BY <1>2, <1>3 DEF SessionInv, TryAgain, Running, InDataLoop, Receiving,
                    ReaderInFile, FinishedMeansWholeFile

(* An acknowledgement moves the reader on by one block, or ends the session   *)
(* with the whole file.                                                       *)
LEMMA AcknowledgedKeepsInv ==
  ASSUME SessionInv, Receiving, UNCHANGED options, LoopFrame, Acknowledged
  PROVE  SessionInv'
<1>1. CASE pc = "oack_recv" /\ BeginData(options)
  <2>1. options \in OptionTypes
    BY DEF SessionInv, TypeOK, OptionTypes
  <2> QED
    BY <1>1, <2>1, BeginDataOpensFile, DataBegunKeepsInv DEF Running
<1>2. CASE /\ pc = "data_recv"
           /\ IsLast(reader)
           /\ retry' = MaxRetries
           /\ Leave("finished")
           /\ UNCHANGED reader
  <2>1. TypeOK'
    BY <1>2, Constants DEF SessionInv, TypeOK, LoopFrame, OptionTypes, Places, Leave
  <2>2. reader \in Readers /\ reader.m_blksiz > 0
    BY <1>2 DEF SessionInv, TypeOK, IsLast, Readers
  <2>3. InBounds(reader)
    BY <1>2, <2>2 DEF SessionInv, ReaderInFile
  <2>4. FinishedMeansWholeFile'
    BY <1>2, <2>2, <2>3, LastBlockEndsFile DEF FinishedMeansWholeFile
  <2> QED
    BY <1>2, <2>1, <2>4 DEF SessionInv, Leave, Running, InDataLoop, Receiving,
                            ReaderInFile
<1>3. CASE /\ pc = "data_recv"
           /\ ~IsLast(reader)
           /\ retry' = MaxRetries - 1
           /\ reader' = NextBlock(reader)
           /\ pc' = "data"
           /\ UNCHANGED result
  <2>1. reader \in Readers /\ reader.m_length \in 0..Word-2
    BY <1>3 DEF SessionInv, TypeOK, InDataLoop
  <2>2. /\ reader' \in Readers
        /\ reader'.m_length = reader.m_length
        /\ reader'.m_blksiz = reader.m_blksiz
    BY <1>3, <2>1, NextBlockIsReader
  <2>3. TypeOK'
    BY <1>3, <2>2, Constants DEF SessionInv, TypeOK, LoopFrame, OptionTypes, Places
  <2>4. ReaderInFile'
    BY <1>3, <2>1, <2>2, NextBlockIsInFile DEF SessionInv, ReaderInFile
  <2> QED
    BY <1>3, <2>1, <2>2, <2>3, <2>4
    DEF SessionInv, Running, InDataLoop, Receiving, FinishedMeansWholeFile
<1> QED
  BY <1>1, <1>2, <1>3 DEF Acknowledged

-----------------------------------------------------------------------------
(* A session that is constructed has not begun its loops.                     *)
LEMMA InitEstablishesInv == Init => SessionInv
<1> SUFFICES ASSUME Init PROVE SessionInv
  OBVIOUS
<1>1. 1 \in 0..Word-1 /\ DefaultBlksize \in 0..Word-1
  BY Constants, SessionAssumption
<1>2. NoReader \in Readers
  BY Constants DEF NoReader, Readers
<1>3. TypeOK
  <2>1. 0 \in 0..Word-1 /\ MaxRetries \in 0..MaxRetries
    BY Constants
  <2>2. options \in [blksize : 0..Word-1, timeout : 0..Word-1, tsize : FileSizes \cup {0}]
    BY <1>1, <2>1 DEF Init
  <2> QED
    BY <1>2, <2>1, <2>2 DEF Init, TypeOK, Places
<1> QED
  BY <1>3 DEF Init, SessionInv, Running, InDataLoop, Receiving, ReaderInFile,
              FinishedMeansWholeFile

(* Everything a session sends goes to its client or to the stranger it warns.  *)
LEMMA SentToSenders ==
  /\ \A d \in {IllegalOperation, FileNotFound, TimedOut, Oack} : d.to \in Senders
  /\ \A r : Data(r).to \in Senders
  /\ \A s \in Senders : UnknownTransferId(s).to \in Senders
  BY DEF IllegalOperation, FileNotFound, TimedOut, Oack, Data, UnknownTransferId,
         Datagram, Senders

(* The options of the request choose between the two loops.                   *)
LEMMA AcceptKeepsInv == SessionInv /\ Accept => SessionInv'
<1> SUFFICES ASSUME SessionInv, Accept PROVE SessionInv'
  OBVIOUS
<1>1. PICK size \in FileSizes :
        LET opts == [blksize |-> Requested("blksize", DefaultBlksize),
                     timeout |-> Requested("timeout", 1), tsize |-> size]
        IN \/ /\ DOMAIN request.options = {}
              /\ options' = opts
              /\ BeginData(opts)
           \/ /\ DOMAIN request.options # {}
              /\ Garbage \in {opts.blksize, opts.timeout}
              /\ Leave("error")
              /\ UNCHANGED <<options, retry, reader>>
           \/ /\ DOMAIN request.options # {}
              /\ Garbage \notin {opts.blksize, opts.timeout}
              /\ options' = opts
              /\ pc' = "oack"
              /\ retry' = MaxRetries
              /\ UNCHANGED <<reader, result>>
  BY DEF Accept
<1> DEFINE opts == [blksize |-> Requested("blksize", DefaultBlksize),
                    timeout |-> Requested("timeout", 1), tsize |-> size]
<1>2. pc = "start" /\ sent' = {} /\ UNCHANGED <<request, stop, m_done>>
  BY DEF Accept
<1>3. Running
  BY <1>2 DEF Running
<1>4. request \in Requests
  BY DEF SessionInv, TypeOK
<1>5. 1 \in 0..Word-1 /\ DefaultBlksize \in 0..Word-1
  BY Constants, SessionAssumption
<1>6. opts.blksize \in (0..Word-1) \cup {Garbage} /\ opts.timeout \in (0..Word-1) \cup {Garbage}
  BY <1>4, <1>5, SessionAssumption DEF RequestAssumption, Requested
<1>7. Garbage \notin {opts.blksize, opts.timeout} => opts \in OptionTypes
  BY <1>6 DEF OptionTypes
<1>8. options \in OptionTypes
  BY DEF SessionInv, TypeOK, OptionTypes
<1>9. CASE DOMAIN request.options = {} /\ options' = opts /\ BeginData(opts)
  <2>1. opts \in OptionTypes
    BY <1>5, <1>9 DEF OptionTypes, Requested
  <2>2. LoopFrame
    BY <1>2, <1>9, <2>1 DEF LoopFrame
  <2>3. DataBegun
    BY <1>9, <2>1, BeginDataOpensFile
  <2> QED
    BY <1>3, <2>2, <2>3, DataBegunKeepsInv
<1>10. CASE Leave("error") /\ UNCHANGED <<options, retry, reader>>
  BY <1>2, <1>8, <1>10, ErrorKeepsInv DEF LoopFrame
<1>11. CASE /\ Garbage \notin {opts.blksize, opts.timeout}
            /\ options' = opts
            /\ pc' = "oack"
            /\ retry' = MaxRetries
            /\ UNCHANGED <<reader, result>>
  <2>1. TypeOK'
    BY <1>2, <1>7, <1>11, Constants DEF SessionInv, TypeOK, OptionTypes, Places
  <2> QED
    BY <1>3, <1>11, <2>1 DEF SessionInv, Running, InDataLoop, Receiving,
                             ReaderInFile, FinishedMeansWholeFile
<1> QED
  BY <1>1, <1>9, <1>10, <1>11

(* A datagram is judged, with or without a warning to a stranger, or its      *)
(* bytes are no packet.                                                       *)
LEMMA ReceiveKeepsInv ==
  ASSUME NEW from \in Senders, NEW packet \in Incoming, SessionInv,
         Receive(from, packet)
  PROVE  SessionInv'
<1>1. Receiving /\ UNCHANGED <<request, options, stop, m_done>>
  BY DEF Receive
<1>2. retry > 0 /\ Running /\ pc # "start"
  BY <1>1 DEF SessionInv, Receiving, Running, InDataLoop
<1>3. options \in OptionTypes
  BY DEF SessionInv, TypeOK, OptionTypes
<1>4. ASSUME NEW warning \in SUBSET {UnknownTransferId(from)}, Judge(packet, warning)
      PROVE  LoopFrame /\ (TryAgain \/ GiveUp \/ Acknowledged)
  <2>1. sent' \subseteq {UnknownTransferId(from), IllegalOperation}
    BY <1>4 DEF Judge
  <2>2. LoopFrame
    BY <1>1, <1>3, <2>1, SentToSenders DEF LoopFrame
  <2> QED
    BY <1>4, <2>2 DEF Judge
<1>5. LoopFrame /\ (TryAgain \/ GiveUp \/ Acknowledged)
  <2>1. CASE Judge(packet, {})
    BY <1>4, <2>1
  <2>2. CASE Judge(packet, {UnknownTransferId(from)})
    BY <1>4, <2>2
  <2>3. CASE sent' = {} /\ (TryAgain \/ GiveUp)
    BY <1>1, <1>3, <2>3 DEF LoopFrame
  <2> QED
    BY <2>1, <2>2, <2>3 DEF Receive
<1> QED
  BY <1>1, <1>2, <1>5, TryAgainKeepsInv, ErrorKeepsInv, AcknowledgedKeepsInv DEF GiveUp

(* A send succeeds and the session waits for the reply, or it fails as a      *)
(* retry or as an error.                                                      *)
LEMMA SendKeepsInv == SessionInv /\ Send => SessionInv'
<1> SUFFICES ASSUME SessionInv, Send PROVE SessionInv'
  OBVIOUS
<1>1. /\ pc \in {"oack", "data"} /\ retry > 0
      /\ UNCHANGED <<request, options, stop, m_done>>
      /\ options \in OptionTypes
  BY DEF Send, SessionInv, TypeOK, OptionTypes
<1>2. CASE /\ sent' = {IF pc = "oack" THEN Oack ELSE Data(reader)}
           /\ pc' = IF pc = "oack" THEN "oack_recv" ELSE "data_recv"
           /\ UNCHANGED <<retry, reader, result>>
  <2>1. \A d \in sent' : d.to \in Senders
    BY <1>2, SentToSenders
  <2>2. TypeOK'
    BY <1>1, <1>2, <2>1 DEF SessionInv, TypeOK, Places
  <2> QED
    BY <1>1, <1>2, <2>2 DEF SessionInv, Running, InDataLoop, Receiving,
                            ReaderInFile, FinishedMeansWholeFile
<1>3. CASE sent' = {} /\ (TryAgain \/ GiveUp)
  <2>1. LoopFrame
    BY <1>1, <1>3 DEF LoopFrame
  <2>2. Running /\ pc # "start"
    BY <1>1 DEF Running, InDataLoop
  <2> QED
    BY <1>1, <1>3, <2>1, <2>2, TryAgainKeepsInv, ErrorKeepsInv DEF GiveUp
<1> QED
  BY <1>2, <1>3 DEF Send

(* The ends of the two loops: the stop was requested, or the retries are      *)
(* used up.                                                                   *)
LEMMA LoopEndKeepsInv == SessionInv /\ (OackLoopEnds \/ DataLoopEnds) => SessionInv'
<1> SUFFICES ASSUME SessionInv, OackLoopEnds \/ DataLoopEnds PROVE SessionInv'
  OBVIOUS
<1>1. UNCHANGED <<request, options, stop, m_done>> /\ options \in OptionTypes
  BY DEF OackLoopEnds, DataLoopEnds, SessionInv, TypeOK, OptionTypes
<1>2. CASE OackLoopEnds
  <2>1. sent' \subseteq {TimedOut}
    BY <1>2 DEF OackLoopEnds, Sending
  <2>2. LoopFrame
    BY <1>1, <2>1, SentToSenders DEF LoopFrame
  <2>3. Running
    BY <1>2 DEF OackLoopEnds, Running
  <2>4. CASE Leave("error") /\ UNCHANGED <<reader, retry>>
    BY <2>2, <2>4, ErrorKeepsInv
  <2>5. CASE BeginData(options)
    BY <1>1, <2>2, <2>3, <2>5, BeginDataOpensFile, DataBegunKeepsInv
  <2> QED
    BY <1>2, <2>4, <2>5 DEF OackLoopEnds
<1>3. CASE DataLoopEnds
  <2>1. LoopFrame
    BY <1>1, <1>3 DEF LoopFrame, DataLoopEnds
  <2>2. CASE Leave("error")
    BY <1>3, <2>1, <2>2, ErrorKeepsInv DEF DataLoopEnds
  <2>3. CASE stop /\ Leave("finished")
    BY <1>3, <2>3 DEF SessionInv, DataLoopEnds, Leave, TypeOK, Places, Running,
                      InDataLoop, Receiving, ReaderInFile, FinishedMeansWholeFile
  <2> QED
    BY <1>3, <2>2, <2>3 DEF DataLoopEnds
<1> QED
  BY <1>2, <1>3

(* Every step of the thread, of the network, and of whoever stops the         *)
(* session keeps the invariant.                                               *)
THEOREM StepKeepsInv == SessionInv /\ [Next]_ioVars => SessionInv'
<1> SUFFICES ASSUME SessionInv, [Next]_ioVars PROVE SessionInv'
  OBVIOUS
<1>1. options \in OptionTypes
  BY DEF SessionInv, TypeOK, OptionTypes
<1>2. CASE StartFails
  BY <1>1, <1>2, ErrorKeepsInv DEF StartFails, LoopFrame
<1>3. CASE Refuse
  <2>1. sent' \subseteq {IllegalOperation, FileNotFound}
    BY <1>3 DEF Refuse, Refusal, Sending
  <2>2. LoopFrame
    BY <1>1, <1>3, <2>1, SentToSenders DEF Refuse, LoopFrame
  <2> QED
    BY <1>3, <2>2, ErrorKeepsInv DEF Refuse
<1>4. CASE Accept
  BY <1>4, AcceptKeepsInv
<1>5. CASE OackLoopEnds \/ DataLoopEnds
  BY <1>5, LoopEndKeepsInv
<1>6. CASE Send
  BY <1>6, SendKeepsInv
<1>7. CASE RecvTimesOut
  BY <1>1, <1>7, TryAgainKeepsInv
  DEF RecvTimesOut, Receiving, Running, InDataLoop, LoopFrame, SessionInv
<1>8. CASE RecvFails
  BY <1>1, <1>8, ErrorKeepsInv DEF RecvFails, GiveUp, LoopFrame
<1>9. ASSUME NEW from \in Senders, NEW packet \in Incoming, Receive(from, packet)
      PROVE  SessionInv'
  BY <1>9, ReceiveKeepsInv
<1>10. CASE StoreDone \/ Notify
  BY <1>10 DEF StoreDone, Notify, SessionInv, TypeOK, Places, Running, InDataLoop,
               Receiving, ReaderInFile, FinishedMeansWholeFile
<1>11. CASE RequestStop
  BY <1>11 DEF RequestStop, SessionInv, TypeOK, Places, Running, InDataLoop,
               Receiving, ReaderInFile, FinishedMeansWholeFile
<1>12. CASE UNCHANGED ioVars
  BY <1>12 DEF ioVars, SessionInv, TypeOK, Running, InDataLoop,
               Receiving, ReaderInFile, FinishedMeansWholeFile
<1> QED
  BY <1>2, <1>3, <1>4, <1>5, <1>6, <1>7, <1>8, <1>9, <1>10, <1>11, <1>12
  DEF Next, ThreadStep

(* So it holds in every state of a session.                                   *)
LEMMA InvariantHolds == Spec => []SessionInv
  BY InitEstablishesInv, StepKeepsInv, PTL DEF Spec

(* Every variable of a session keeps its type; in particular the unsigned      *)
(* retry counter never goes below 0 and io_thread sends to nobody but its      *)
(* client and the senders of what it receives.                                 *)
THEOREM SessionTypeCorrect == Spec => []TypeOK
  BY InvariantHolds, PTL DEF SessionInv

(* tftp_reader::next never reads outside the file it announced: the unsigned   *)
(* m_length - offset does not wrap around, whatever the client asks for and    *)
(* whatever arrives, for every file of fewer than 2^64 - 1 bytes.              *)
THEOREM ReaderStaysInFile == Spec => []ReaderInFile
  BY InvariantHolds, PTL DEF SessionInv

(* "Finished sending" is logged, by a session nobody stopped, only after the   *)
(* last byte of the file: the block sizes add up to m_length.                  *)
THEOREM FinishedIsComplete == Spec => []FinishedMeansWholeFile
  BY InvariantHolds, PTL DEF SessionInv

-----------------------------------------------------------------------------
(* The retries: what the attempts of a datagram and the retries that are left  *)
(* add up to. It is inductive with SessionInv, which bounds the block number   *)
(* in the file, so that the number of the next block is one more.              *)

Allowance == IF reader.m_number > 1 THEN MaxRetries - 1 ELSE MaxRetries

Budget ==
  /\ unanswered \in Nat
  /\ pc = "start" => unanswered = 0
  /\ pc \in {"start", "oack", "oack_recv"} =>
       reader.m_number = 0 /\ unanswered + retry = MaxRetries
  /\ InDataLoop =>
       /\ reader.m_blksiz = options.blksize
       /\ options.blksize # 0 => unanswered + retry = Allowance
  /\ RetryBudget

(* The data loop begins with all its retries, and a block number of 1.         *)
LEMMA BeginsWithAll ==
  ASSUME Budget, SessionInv, RetriesNext, pc \in {"start", "oack", "oack_recv"},
         NEW opts \in OptionTypes, options' = opts, BeginData(opts)
  PROVE  Budget'
<1>1. CASE Leave("error") /\ UNCHANGED <<reader, retry>>
  <2>1. unanswered' = unanswered /\ pc' = "leave"
    BY <1>1 DEF RetriesNext, AttemptLost, Leave
  <2>2. retry' = 0 => pc # "start"
    BY <1>1, Constants DEF Budget
  <2> QED
    BY <1>1, <2>1, <2>2, Constants DEF Budget, RetryBudget, InDataLoop, SessionInv, TypeOK
<1>2. CASE ~(Leave("error") /\ UNCHANGED <<reader, retry>>)
  <2>1. PICK file_size \in FileSizes :
          /\ reader' = NewReader(opts.tsize, opts.blksize, file_size)
          /\ pc' = "data" /\ retry' = MaxRetries
    BY <1>2 DEF BeginData
  <2>2. opts.blksize \in 0..MaxBuffer /\ opts.tsize \in 0..Word-2 /\ file_size \in 0..Word-2
    <3>1. opts.blksize <= MaxBuffer
      BY <1>2 DEF BeginData
    <3>2. file_size \in 0..Word-2
      BY Constants
    <3>3. 0 \in 0..Word-2
      BY <3>2, Constants
    <3>4. opts.tsize \in FileSizes \cup {0} /\ opts.blksize \in 0..Word-1
      BY DEF OptionTypes
    <3>5. opts.tsize \in 0..Word-2
      BY <3>3, <3>4, Constants
    <3> QED
      BY <3>1, <3>2, <3>4, <3>5, Constants
  <2>3. reader'.m_number = 1 /\ reader'.m_blksiz = opts.blksize
    BY <2>1, <2>2, NewReaderIsInFile
  <2>4. reader' # reader
    BY <2>3 DEF Budget
  <2>5. unanswered' = 0
    BY <2>4 DEF RetriesNext, AttemptLost
  <2> QED
    BY <2>1, <2>3, <2>5, Constants DEF Budget, RetryBudget, InDataLoop, Allowance
<1> QED
  BY <1>1, <1>2

(* An attempt that comes to nothing costs one retry.                           *)
LEMMA AttemptCostsOne ==
  ASSUME Budget, SessionInv, RetriesNext, pc \in Loops, retry > 0,
         TryAgain, UNCHANGED <<stop, options>>
  PROVE  Budget'
<1>1. AttemptLost
  BY DEF AttemptLost, TryAgain
<1>2. unanswered' = Lesser(unanswered + 1, MaxUnanswered)
  BY <1>1 DEF RetriesNext
<1>3. /\ unanswered \in Nat /\ retry \in Nat /\ MaxRetries \in Nat /\ MaxRetries > 1
      /\ retry' = retry - 1 /\ UNCHANGED <<reader, options>>
      /\ reader.m_number \in Nat
  BY Constants DEF Budget, SessionInv, TypeOK, TryAgain, Readers
<1>4. unanswered' \in Nat
  BY <1>2, <1>3 DEF Lesser, MaxUnanswered
<1>5. CASE pc \in {"oack", "oack_recv"}
  <2>1. pc' = "oack" /\ reader.m_number = 0 /\ unanswered + retry = MaxRetries
    BY <1>5 DEF TryAgain, Budget
  <2>2. unanswered' = unanswered + 1
    BY <1>2, <1>3, <2>1 DEF Lesser, MaxUnanswered
  <2> QED
    BY <1>3, <1>4, <2>1, <2>2 DEF Budget, RetryBudget, InDataLoop
<1>6. CASE pc \in {"data", "data_recv"}
  <2>1. pc' = "data" /\ reader.m_blksiz = options.blksize
    BY <1>6 DEF TryAgain, Budget, InDataLoop
  <2>2. CASE options.blksize = 0
    BY <1>3, <1>4, <2>1, <2>2 DEF Budget, RetryBudget, InDataLoop
  <2>3. CASE options.blksize # 0
    <3>1. unanswered + retry = Allowance
      BY <1>6, <2>3 DEF Budget, InDataLoop
    <3>2. unanswered' = unanswered + 1
      BY <1>2, <1>3, <3>1 DEF Lesser, MaxUnanswered, Allowance
    <3> QED
      BY <1>3, <1>4, <2>1, <3>1, <3>2 DEF Budget, RetryBudget, InDataLoop, Allowance
  <2> QED
    BY <2>2, <2>3
<1> QED
  BY <1>5, <1>6 DEF Loops

(* The try block is left, or a step is made that concerns no retry.            *)
LEMMA LeavingKeepsBudget ==
  ASSUME Budget, SessionInv, RetriesNext, pc' = "leave", UNCHANGED <<reader, retry>>,
         pc = "start" \/ UNCHANGED options
  PROVE  Budget'
<1>1. unanswered' = unanswered
  BY DEF RetriesNext, AttemptLost
<1>2. retry = 0 => pc # "start"
  BY Constants DEF Budget
<1> QED
  BY <1>1, <1>2 DEF Budget, RetryBudget, InDataLoop

(* An acknowledgement restores the counter, and takes one off for a block that *)
(* is not the first.                                                           *)
LEMMA AcknowledgedKeepsBudget ==
  ASSUME Budget, SessionInv, RetriesNext, Receiving, Acknowledged, UNCHANGED options
  PROVE  Budget'
<1>1. CASE pc = "oack_recv" /\ BeginData(options)
  <2>1. options \in OptionTypes
    BY DEF SessionInv, TypeOK, OptionTypes
  <2> QED
    BY <1>1, <2>1, BeginsWithAll
<1>2. CASE pc = "data_recv" /\ retry' = MaxRetries /\ Leave("finished") /\ UNCHANGED reader
  <2>1. unanswered' = unanswered
    BY <1>2 DEF RetriesNext, AttemptLost, Leave
  <2> QED
    BY <1>2, <2>1, Constants DEF Budget, RetryBudget, InDataLoop, Leave
<1>3. CASE /\ pc = "data_recv"
           /\ ~IsLast(reader)
           /\ retry' = MaxRetries - 1
           /\ reader' = NextBlock(reader)
           /\ pc' = "data"
  <2>1. /\ reader \in Readers /\ reader.m_length \in 0..Word-2
        /\ reader.m_blksiz = options.blksize
    BY <1>3 DEF SessionInv, TypeOK, Budget, InDataLoop
  <2>2. reader' \in Readers /\ reader'.m_blksiz = options'.blksize
    BY <1>3, <2>1, NextBlockIsReader
  <2>3. CASE reader.m_blksiz > 0
    <3>1. reader'.m_number = reader.m_number + 1
      BY <1>3, <2>1, <2>3, NextBlockIsInFile DEF SessionInv, ReaderInFile
    <3>2. reader.m_number \in Nat /\ reader.m_number > 0
      BY <1>3, <2>1, <2>3 DEF Readers, SessionInv, ReaderInFile, InBounds
    <3>3. unanswered' = 0
      BY <3>1, <3>2 DEF RetriesNext, AttemptLost
    <3> QED
      BY <1>3, <2>1, <2>2, <3>1, <3>2, <3>3, Constants DEF Budget, RetryBudget, InDataLoop, Allowance
  <2>4. CASE reader.m_blksiz = 0
    <3>1. unanswered' \in Nat
      BY Constants DEF Budget, RetriesNext, Lesser, MaxUnanswered
    <3>2. options'.blksize = 0
      BY <2>1, <2>4
    <3> QED
      BY <1>3, <2>2, <3>1, <3>2 DEF Budget, RetryBudget, InDataLoop
  <2> QED
    BY <2>1, <2>3, <2>4 DEF Readers
<1> QED
  BY <1>1, <1>2, <1>3 DEF Acknowledged

(* Every step of a session keeps the account.                                  *)
LEMMA BudgetStep == SessionInv /\ Budget /\ [RetriesNext]_retriesVars => Budget'
<1> SUFFICES ASSUME SessionInv, Budget, RetriesNext
             PROVE  Budget'
  BY DEF retriesVars, ioVars, Budget, RetryBudget, InDataLoop, Allowance
<1>1. CASE StartFails \/ Refuse \/ RecvFails \/ DataLoopEnds
  BY <1>1, LeavingKeepsBudget DEF StartFails, Refuse, RecvFails, GiveUp, DataLoopEnds, Leave
<1>2. CASE Accept
  <2> DEFINE opts(size) == [blksize |-> Requested("blksize", DefaultBlksize),
                            timeout |-> Requested("timeout", 1), tsize |-> size]
  <2>1. pc = "start"
    BY <1>2 DEF Accept
  <2>2. PICK size \in FileSizes :
          \/ DOMAIN request.options = {} /\ options' = opts(size) /\ BeginData(opts(size))
          \/ Leave("error") /\ UNCHANGED <<options, retry, reader>>
          \/ pc' = "oack" /\ retry' = MaxRetries /\ UNCHANGED reader
    BY <1>2 DEF Accept
  <2>3. CASE DOMAIN request.options = {} /\ options' = opts(size) /\ BeginData(opts(size))
    <3>1. 1 \in 0..Word-1 /\ DefaultBlksize \in 0..Word-1
      BY Constants, SessionAssumption
    <3>2. opts(size) \in OptionTypes
      BY <2>3, <3>1 DEF OptionTypes, Requested
    <3> HIDE DEF opts
    <3> QED
      BY <2>1, <2>3, <3>2, BeginsWithAll
  <2>4. CASE Leave("error") /\ UNCHANGED <<options, retry, reader>>
    BY <2>1, <2>4, LeavingKeepsBudget DEF Leave
  <2>5. CASE pc' = "oack" /\ retry' = MaxRetries /\ UNCHANGED reader
    <3>1. unanswered' = 0 /\ reader'.m_number = 0
      BY <2>1, <2>5 DEF RetriesNext, AttemptLost, Loops, Budget
    <3> QED
      BY <2>5, <3>1, Constants DEF Budget, RetryBudget, InDataLoop
  <2> QED
    BY <2>2, <2>3, <2>4, <2>5
<1>3. CASE OackLoopEnds
  <2>1. options \in OptionTypes /\ UNCHANGED options /\ pc = "oack"
    BY <1>3 DEF OackLoopEnds, SessionInv, TypeOK, OptionTypes
  <2> QED
    BY <1>3, <2>1, LeavingKeepsBudget, BeginsWithAll DEF OackLoopEnds, Leave
<1>4. CASE Send \/ RecvTimesOut \/ \E from \in Senders, packet \in Incoming : Receive(from, packet)
  <2>1. UNCHANGED <<stop, options>> /\ pc \in Loops /\ retry > 0
    BY <1>4 DEF Send, RecvTimesOut, Receive, Receiving, Loops, SessionInv
  <2>2. CASE TryAgain
    BY <2>1, <2>2, AttemptCostsOne
  <2>3. CASE GiveUp
    BY <2>1, <2>3, LeavingKeepsBudget DEF GiveUp, Leave
  <2>4. CASE Receiving /\ Acknowledged
    BY <2>1, <2>4, AcknowledgedKeepsBudget
  <2>5. CASE /\ pc \in {"oack", "data"}
             /\ pc' = IF pc = "oack" THEN "oack_recv" ELSE "data_recv"
             /\ UNCHANGED <<retry, reader>>
    <3>1. unanswered' = unanswered
      BY <2>5 DEF RetriesNext, AttemptLost
    <3> QED
      BY <2>1, <2>5, <3>1 DEF Budget, RetryBudget, InDataLoop, Allowance
  <2> QED
    BY <1>4, <2>2, <2>3, <2>4, <2>5 DEF Send, RecvTimesOut, Receive, Judge
<1>5. CASE StoreDone \/ Notify
  <2>1. UNCHANGED <<unanswered, retry, reader, options>> /\ pc' \in {"notify", "exited"}
    BY <1>5 DEF StoreDone, Notify, RetriesNext, AttemptLost
  <2> QED
    BY <2>1 DEF Budget, RetryBudget, InDataLoop
<1>6. CASE RequestStop
  <2>1. UNCHANGED <<unanswered, pc, retry, reader, options>>
    BY <1>6 DEF RequestStop, RetriesNext, AttemptLost
  <2> QED
    BY <2>1 DEF Budget, RetryBudget, InDataLoop, Allowance
<1> QED
  BY <1>1, <1>2, <1>3, <1>4, <1>5, <1>6 DEF RetriesNext, Next, ThreadStep

(* The retries of a session, for any MAX_RETRIES: it gives up on the OACK and  *)
(* on the first block after exactly that many attempts, and on every later one *)
(* after one less.                                                             *)
THEOREM RetriesAreSpent == RetriesSpec => []RetryBudget
<1>1. RetriesInit => Init /\ Budget
  <2> SUFFICES ASSUME RetriesInit PROVE Budget
    BY DEF RetriesInit
  <2> QED
    BY Constants DEF RetriesInit, Init, NoReader, Budget, RetryBudget, InDataLoop
<1>2. [RetriesNext]_retriesVars => [Next]_ioVars
  BY DEF RetriesNext, retriesVars
<1>3. Budget => RetryBudget
  BY DEF Budget
<1> QED
  BY <1>1, <1>2, <1>3, BudgetStep, InitEstablishesInv, StepKeepsInv, PTL DEF RetriesSpec

-----------------------------------------------------------------------------
(* Bags, by the set of what is in them *)

(* Sending adds the datagrams to what is in flight, and nothing else.         *)
LEMMA CarryAdds ==
  ASSUME NEW bag, IsABag(bag), NEW datagrams
  PROVE  /\ IsABag(Carry(bag, datagrams))
         /\ BagToSet(Carry(bag, datagrams)) = BagToSet(bag) \cup datagrams
BY DEF Carry, IsABag, BagToSet, SetToBag, (+)

(* Taking one copy of a datagram adds nothing.                                *)
LEMMA WithoutRemoves ==
  ASSUME NEW bag, IsABag(bag), NEW d
  PROVE  /\ IsABag(Without(bag, d))
         /\ BagToSet(Without(bag, d)) \subseteq BagToSet(bag)
BY DEF Without, IsABag, BagToSet, SetToBag, (-)

-----------------------------------------------------------------------------
(* The inductive invariant. *)

Acks == {Ack(id) : id \in 0..IdSpace-1}

(* A data packet with the block of a number, whatever is in the block.         *)
DataPackets ==
  [kind : {"data"}, id : 0..IdSpace-1, number : 0..Word-1, size : 0..MaxBuffer]

DataDatagrams == {Datagram(Client, p) : p \in {q \in DataPackets : q.id = q.number % IdSpace}}

Notices == {Oack, IllegalOperation, FileNotFound, TimedOut}

(* What there is in flight, and in the hands of the client.                    *)
Flight ==
  /\ IsABag(net)
  /\ BagToSet(net) \subseteq Acks \cup DataDatagrams \cup Notices
  /\ lastAck \subseteq Acks
  /\ got \in Seq([number : Nat, size : 0..MaxBuffer])
  /\ client \in {"waiting", "complete", "failed"}
  /\ lost \in 0..MaxLosses
  /\ duplicated \in 0..MaxDuplicates
  /\ resent \in 0..MaxResends

(* No block id has been used twice, *)
NoWrap == reader.m_number < IdSpace

(* and then nothing in flight is ahead of the client or of the session.        *)
Locked ==
  /\ pc \in {"start", "oack", "oack_recv"} => reader.m_number = 0
  /\ InDataLoop => reader.m_number > 0
  /\ Len(got) <= reader.m_number
  /\ InDataLoop => reader.m_number - 1 <= Len(got)
  /\ \A id \in 0..IdSpace-1 : Ack(id) \in BagToSet(net) \cup lastAck => id <= Len(got)
  /\ \A d \in BagToSet(net) \cap DataDatagrams : d.packet.number \in 1..reader.m_number

(* A block of the file of a reader, by its number and its size.                *)
IsBlock(r, number, size) ==
  /\ (number - 1) * r.m_blksiz <= r.m_length
  /\ size = Lesser(r.m_length - (number - 1) * r.m_blksiz, r.m_blksiz)

(* The file can be cut into blocks. *)
Divisible == reader.m_number > 0 => reader.m_blksiz > 0

(* The client has blocks of the file, and so have the datagrams.               *)
Delivered ==
  /\ \A d \in BagToSet(net) \cap DataDatagrams : IsBlock(reader, d.packet.number, d.packet.size)
  /\ \A i \in 1..Len(got) : got[i].number = i /\ IsBlock(reader, i, got[i].size)
  /\ result = "finished" /\ ~stop =>
       /\ Len(got) = reader.m_number
       /\ InBounds(reader) /\ IsLast(reader)

-----------------------------------------------------------------------------
(* What is in flight *)

(* The constants of the session and of the transfer, and what they come to.    *)
LEMMA TransferConstants ==
  /\ IdSpace \in Nat /\ IdSpace > 1 /\ IdSpace < Word
  /\ Word \in Nat /\ MaxBuffer \in Nat /\ MaxBuffer < Word
BY SessionAssumption, TransferAssumption, WordIsPositive

(* The block on which the reader stands is a data packet.                      *)
LEMMA DataIsTyped ==
  ASSUME NEW r \in Readers
  PROVE  /\ Data(r) \in DataDatagrams
         /\ Data(r).packet.number = r.m_number
         /\ Data(r).packet.size = r.size
<1>1. r.m_number % IdSpace \in 0..IdSpace-1
  BY TransferConstants DEF Readers
<1> QED
  BY <1>1 DEF Data, Datagram, DataDatagrams, DataPackets, Readers

(* An acknowledgement, a block and a notice are told apart.                    *)
LEMMA KindsDiffer ==
  /\ \A d \in Acks : d.to = "session" /\ d.packet.kind = "ack" /\ d.packet \in Incoming
                      /\ d.packet.id \in 0..IdSpace-1 /\ d = Ack(d.packet.id)
  /\ \A d \in DataDatagrams : d.to = Client /\ d.packet.kind = "data" /\ d \notin Acks
                      /\ d.packet \in DataPackets /\ d.packet.id = d.packet.number % IdSpace
  /\ \A d \in Notices : d.to = Client /\ d.packet.kind \notin {"ack", "data"}
                      /\ d.packet.id = 0
                      /\ d \notin Acks \cup DataDatagrams
<1>1. \A d \in Acks : d.to = "session" /\ d.packet.kind = "ack" /\ d.packet \in Incoming
                    /\ d.packet.id \in 0..IdSpace-1 /\ d = Ack(d.packet.id)
  BY DEF Acks, Ack, Packet, Incoming
<1>2. \A d \in DataDatagrams : d.to = Client /\ d.packet.kind = "data" /\ d.packet \in DataPackets
                    /\ d.packet.id = d.packet.number % IdSpace
  BY DEF DataDatagrams, DataPackets, Datagram
<1>3. \A d \in Notices : d.to = Client /\ d.packet.kind \notin {"ack", "data"} /\ d.packet.id = 0
  BY DEF Notices, Oack, IllegalOperation, FileNotFound, TimedOut, Datagram, Packet
<1> QED
  BY <1>1, <1>2, <1>3 DEF Client

(* What a step of the session that begins the data loop leaves of the reader.  *)
LEMMA FirstBlock ==
  ASSUME NEW opts \in OptionTypes, BeginData(opts)
  PROVE  \/ pc' = "leave" /\ result' = "error" /\ UNCHANGED reader
         \/ pc' = "data" /\ UNCHANGED result /\ reader'.m_number = 1
<1>1. ASSUME NEW file_size \in FileSizes,
             reader' = NewReader(opts.tsize, opts.blksize, file_size)
      PROVE  reader'.m_number = 1
  <2>1. (0 + 1) % Word = 1
    BY TransferConstants
  <2> QED
    BY <1>1, <2>1 DEF NewReader, NextBlock
<1> QED
  BY <1>1 DEF BeginData, Leave

(* What a step of the session sends, and what it does with its reader and its  *)
(* result: either it opens the file, or it moves on to the next block, or it   *)
(* ends the loop by the ACK of the last one, or it stays on its block.         *)
Opens ==
  /\ pc \in {"start", "oack", "oack_recv"} /\ pc' = "data"
  /\ reader'.m_number = 1 /\ UNCHANGED result

IsAwaited(packet) == packet = Packet("ack", reader.m_number % IdSpace)

Advances(packet) ==
  /\ pc = "data_recv" /\ pc' = "data"
  /\ ~IsLast(reader) /\ IsAwaited(packet)
  /\ reader' = NextBlock(reader) /\ UNCHANGED result

Finishes(packet) ==
  /\ pc = "data_recv" /\ pc' = "leave"
  /\ IsLast(reader) /\ IsAwaited(packet)
  /\ UNCHANGED reader

Stays ==
  /\ UNCHANGED reader
  /\ pc' \in {"data", "data_recv"} <=> InDataLoop /\ pc' \notin {"leave", "notify", "exited"}
  /\ pc' \in {"start", "oack", "oack_recv"} => pc \in {"start", "oack", "oack_recv"}
  /\ \/ UNCHANGED result
     \/ result = "none" /\ (result' = "error" \/ (result' = "finished" /\ stop))

SendsAtMost ==
  sent' \subseteq Notices \cup IF pc = "data" THEN {Data(reader)} ELSE {}

(* The thread on its own.                                                      *)
LEMMA ThreadMoves ==
  ASSUME SessionInv,
         StartFails \/ Refuse \/ Accept \/ OackLoopEnds \/ DataLoopEnds
           \/ Send \/ RecvTimesOut \/ StoreDone \/ Notify
  PROVE  SendsAtMost /\ UNCHANGED stop /\ (Opens \/ Stays)
<1> USE DEF SendsAtMost, Stays, InDataLoop, Leave, Notices
<1>0. pc \in {"start", "oack", "oack_recv", "data", "data_recv"} => result = "none"
  BY DEF SessionInv, Running
<1>1. CASE StartFails
  BY <1>0, <1>1 DEF StartFails
<1>2. CASE Refuse
  BY <1>0, <1>2 DEF Refuse, Refusal, Sending
<1>3. CASE Accept
  <2>1. pc = "start" /\ sent' = {} /\ UNCHANGED stop
    BY <1>3 DEF Accept
  <2>2. Opens \/ Stays
    <3>1. PICK size \in FileSizes :
            \/ /\ DOMAIN request.options = {}
               /\ BeginData([blksize |-> Requested("blksize", DefaultBlksize),
                             timeout |-> Requested("timeout", 1), tsize |-> size])
            \/ Leave("error") /\ UNCHANGED reader
            \/ pc' = "oack" /\ UNCHANGED <<reader, result>>
      BY <1>3 DEF Accept
    <3>2. ASSUME DOMAIN request.options = {}
          PROVE  [blksize |-> Requested("blksize", DefaultBlksize),
                  timeout |-> Requested("timeout", 1), tsize |-> size] \in OptionTypes
      BY <3>2, SessionAssumption, TransferConstants DEF Requested, OptionTypes
    <3> QED
      BY <1>0, <2>1, <3>1, <3>2, FirstBlock DEF Opens
  <2> QED
    BY <2>1, <2>2
<1>4. CASE OackLoopEnds
  <2>1. options \in OptionTypes
    BY DEF SessionInv, TypeOK, OptionTypes
  <2> QED
    BY <1>0, <1>4, <2>1, FirstBlock DEF OackLoopEnds, Sending, Opens
<1>5. CASE DataLoopEnds
  BY <1>0, <1>5 DEF DataLoopEnds
<1>6. CASE Send
  BY <1>0, <1>6 DEF Send, TryAgain, GiveUp
<1>7. CASE RecvTimesOut
  BY <1>7 DEF RecvTimesOut, TryAgain, Receiving
<1>8. CASE StoreDone \/ Notify
  BY <1>8 DEF StoreDone, Notify
<1> QED
  BY <1>1, <1>2, <1>3, <1>4, <1>5, <1>6, <1>7, <1>8

(* What the client sends.                                                      *)
LEMMA ReceiptMoves ==
  ASSUME SessionInv, NEW packet, Receive(Client, packet)
  PROVE  /\ SendsAtMost /\ UNCHANGED stop
         /\ Opens \/ Stays \/ Advances(packet) \/ (Finishes(packet) /\ result' = "finished")
<1>1. Receiving /\ Judge(packet, {}) /\ UNCHANGED stop /\ result = "none"
  BY DEF Receive, Receiving, SessionInv, Running, InDataLoop
<1>2. options \in OptionTypes
  BY DEF SessionInv, TypeOK, OptionTypes
<1>3. SendsAtMost
  BY <1>1 DEF Judge, SendsAtMost, Notices
<1>4. ASSUME packet = Packet("ack", AwaitedNumber % IdSpace), Acknowledged
      PROVE  Opens \/ Stays \/ Advances(packet) \/ (Finishes(packet) /\ result' = "finished")
  <2>1. CASE pc = "oack_recv" /\ BeginData(options)
    BY <1>1, <1>2, <2>1, FirstBlock DEF Opens, Stays, InDataLoop
  <2>2. CASE pc = "data_recv"
    <3>1. IsAwaited(packet)
      BY <1>4, <2>2 DEF AwaitedNumber, IsAwaited
    <3> QED
      BY <1>4, <2>2, <3>1 DEF Acknowledged, Leave, Advances, Finishes
  <2> QED
    BY <1>4, <2>1, <2>2 DEF Acknowledged
<1>5. ASSUME TryAgain \/ GiveUp
      PROVE  Stays
  BY <1>1, <1>5 DEF TryAgain, GiveUp, Leave, Receiving, Stays, InDataLoop
<1> QED
  BY <1>1, <1>3, <1>4, <1>5 DEF Judge

-----------------------------------------------------------------------------
(* The four ways in which a step moves what is in flight.                      *)

SessionMoves ==
  /\ BagToSet(net') \subseteq BagToSet(net) \cup Notices \cup IF pc = "data" THEN {Data(reader)} ELSE {}
  /\ UNCHANGED <<stop, got, client, lastAck, lost, duplicated, resent>>
  /\ \/ Opens
     \/ Stays
     \/ \E d \in BagToSet(net) \cap Acks :
          Advances(d.packet) \/ (Finishes(d.packet) /\ result' = "finished")

Stopped == stop' /\ UNCHANGED <<pc, reader, result, netVars>>

Delivers(d) ==
  /\ d.packet.id = (Len(got) + 1) % IdSpace
  /\ got' = Append(got, [number |-> d.packet.number, size |-> d.packet.size])
  /\ BagToSet(net') \subseteq BagToSet(net) \cup {Ack(d.packet.id)}
  /\ lastAck' = {Ack(d.packet.id)}
  /\ client' \in {client, "complete"}
  /\ UNCHANGED <<ioVars, lost, duplicated, resent>>

(* By the client again, or by the network.                                     *)
Answers(id) ==
  /\ id = 0 \/ (got # <<>> /\ id = Len(got) % IdSpace)
  /\ BagToSet(net') \subseteq BagToSet(net) \cup lastAck \cup {Ack(id)}
  /\ lastAck' \subseteq lastAck \cup {Ack(id)}
  /\ client' \in {client, "failed"}
  /\ UNCHANGED <<ioVars, got>>

Moves ==
  \/ SessionMoves
  \/ Stopped
  \/ \E d \in BagToSet(net) \cap DataDatagrams : Delivers(d)
  \/ \E id \in 0..IdSpace-1 : Answers(id)

(* The client takes a datagram and sends its replies.                          *)
LEMMA AnswerMoves ==
  ASSUME Flight, NEW d, NEW replies, Answer(d, replies)
  PROVE  /\ IsABag(net')
         /\ BagToSet(net') \subseteq BagToSet(net) \cup replies
         /\ lastAck' = IF replies = {} THEN lastAck ELSE replies
         /\ UNCHANGED <<ioVars, lost, duplicated, resent>>
<1>1. IsABag(Without(net, d)) /\ BagToSet(Without(net, d)) \subseteq BagToSet(net)
  BY WithoutRemoves DEF Flight
<1>2. net' = Carry(Without(net, d), replies)
  BY DEF Answer
<1>3. IsABag(net') /\ BagToSet(net') = BagToSet(Without(net, d)) \cup replies
  BY <1>1, <1>2, CarryAdds
<1> QED
  BY <1>1, <1>3 DEF Answer

(* A step without input sends what it may, and opens the file or stays.       *)
LEMMA SessionStepMoves == SessionInv /\ Flight /\ SessionStep => IsABag(net') /\ SessionMoves
<1> SUFFICES ASSUME SessionInv, Flight, SessionStep
             PROVE  IsABag(net') /\ SessionMoves
  OBVIOUS
<1>1. SendsAtMost /\ UNCHANGED stop /\ (Opens \/ Stays)
  BY ThreadMoves DEF SessionStep
<1>2. IsABag(net') /\ BagToSet(net') = BagToSet(net) \cup sent'
  BY CarryAdds DEF SessionStep, Flight
<1> QED
  BY <1>1, <1>2 DEF SessionStep, SessionMoves, SendsAtMost

(* A datagram that arrives makes the session advance, finish, open its file   *)
(* or stay; it advances and finishes only by an acknowledgement from the      *)
(* bag.                                                                       *)
LEMMA SessionReceivesMoves == SessionInv /\ Flight /\ SessionReceives => IsABag(net') /\ SessionMoves
<1> SUFFICES ASSUME SessionInv, Flight, SessionReceives
             PROVE  IsABag(net') /\ SessionMoves
  OBVIOUS
<1>1. PICK d \in BagToSet(net) :
        /\ d.to = "session"
        /\ Receive(Client, d.packet)
        /\ net' = Carry(Without(net, d), sent')
  BY DEF SessionReceives
<1>2. d \in Acks
  BY <1>1, KindsDiffer DEF Flight, Client
<1>3. /\ SendsAtMost /\ UNCHANGED stop
      /\ Opens \/ Stays \/ Advances(d.packet) \/ (Finishes(d.packet) /\ result' = "finished")
  BY <1>1, ReceiptMoves
<1>4. IsABag(Without(net, d)) /\ BagToSet(Without(net, d)) \subseteq BagToSet(net)
  BY WithoutRemoves DEF Flight
<1>5. IsABag(net') /\ BagToSet(net') = BagToSet(Without(net, d)) \cup sent'
  BY <1>1, <1>4, CarryAdds
<1>6. UNCHANGED <<got, client, lastAck, lost, duplicated, resent>>
  BY DEF SessionReceives
<1> QED
  BY <1>2, <1>3, <1>4, <1>5, <1>6 DEF SessionMoves, SendsAtMost

(* A failing recv shows nothing of itself but the end of the session.         *)
LEMMA SessionFailsMoves == SessionInv /\ Flight /\ SessionFails => IsABag(net') /\ SessionMoves
BY DEF SessionInv, Running, Flight, SessionFails, RecvFails, GiveUp, Leave, Receiving, netVars,
       SessionMoves, Stays, InDataLoop

(* The client takes the block it expects, or answers what it has.             *)
LEMMA ClientMoves == Flight /\ ClientStep => IsABag(net') /\ Moves
<1> SUFFICES ASSUME Flight, ClientStep
             PROVE  IsABag(net') /\ Moves
  OBVIOUS
<1>0. 0 \in 0..IdSpace-1
  BY TransferConstants
<1>1. ASSUME NEW d \in BagToSet(net), d.to = Client, client = "waiting", d.packet.kind = "oack",
             Answer(d, {Ack(0)}), UNCHANGED <<got, client>>
      PROVE  IsABag(net') /\ Moves
  <2>1. Answers(0)
    BY <1>1, AnswerMoves DEF Answers
  <2> QED
    BY <1>0, <1>1, <2>1, AnswerMoves DEF Moves
<1>2. ASSUME NEW d \in BagToSet(net), d.to = Client, d.packet.kind = "data",
             d.packet.id = (Len(got) + 1) % IdSpace,
             got' = Append(got, [number |-> d.packet.number, size |-> d.packet.size]),
             client' = IF d.packet.size < options.blksize THEN "complete" ELSE client,
             Answer(d, {Ack(d.packet.id)})
      PROVE  IsABag(net') /\ Moves
  <2>1. d \in DataDatagrams
    BY <1>2, KindsDiffer DEF Flight
  <2>2. Delivers(d)
    BY <1>2, AnswerMoves DEF Delivers
  <2> QED
    BY <1>2, <2>1, <2>2, AnswerMoves DEF Moves
<1>3. ASSUME NEW d \in BagToSet(net), d.to = Client, d.packet.kind = "data", got # <<>>,
             d.packet.id = Len(got) % IdSpace, Answer(d, {Ack(d.packet.id)}) \/ Answer(d, {}),
             UNCHANGED <<got, client>>
      PROVE  IsABag(net') /\ Moves
  <2>1. d \in DataDatagrams
    BY <1>3, KindsDiffer DEF Flight
  <2>2. d.packet.id \in 0..IdSpace-1
    BY <2>1, KindsDiffer DEF DataPackets
  <2>3. Answers(d.packet.id) /\ IsABag(net')
    BY <1>3, AnswerMoves DEF Answers
  <2> QED
    BY <2>2, <2>3 DEF Moves
<1>4. ASSUME NEW d \in BagToSet(net), Answer(d, {}), client' \in {client, "failed"}, UNCHANGED got
      PROVE  IsABag(net') /\ Moves
  <2>1. Answers(0)
    BY <1>4, AnswerMoves DEF Answers
  <2> QED
    BY <1>0, <1>4, <2>1, AnswerMoves DEF Moves
<1>5. CASE AcceptBlock
  BY <1>1, <1>2, <1>5 DEF AcceptBlock
<1>6. CASE AnswerAgain
  BY <1>3, <1>6 DEF AnswerAgain
<1>7. CASE Discard
  BY <1>4, <1>7 DEF Discard
<1> QED
  BY <1>5, <1>6, <1>7 DEF ClientStep

(* A resend repeats the last answer; losses and duplicates bring nothing      *)
(* new.                                                                       *)
LEMMA NetworkMoves == Flight /\ (Resend \/ Lose \/ Duplicate) => IsABag(net') /\ Answers(0)
<1> SUFFICES ASSUME Flight, Resend \/ Lose \/ Duplicate
             PROVE  IsABag(net') /\ Answers(0)
  OBVIOUS
<1>1. CASE Resend
  <2>1. IsABag(net') /\ BagToSet(net') = BagToSet(net) \cup lastAck
    BY <1>1, CarryAdds DEF Resend, Flight
  <2> QED
    BY <1>1, <2>1 DEF Resend, Answers
<1>2. CASE Lose
  <2>1. IsABag(net') /\ BagToSet(net') \subseteq BagToSet(net)
    BY <1>2, WithoutRemoves DEF Lose, Flight
  <2> QED
    BY <1>2, <2>1 DEF Lose, Answers
<1>3. CASE Duplicate
  <2>1. PICK d \in BagToSet(net) : net' = Carry(net, {d})
    BY <1>3 DEF Duplicate
  <2>2. IsABag(net') /\ BagToSet(net') = BagToSet(net) \cup {d}
    BY <2>1, CarryAdds DEF Flight
  <2> QED
    BY <1>3, <2>2 DEF Duplicate, Answers
<1> QED
  BY <1>1, <1>2, <1>3

(* Every step is one of the four ways.                                         *)
LEMMA TransferMoves == SessionInv /\ Flight /\ TransferNext => IsABag(net') /\ Moves
<1> SUFFICES ASSUME SessionInv, Flight, TransferNext
             PROVE  IsABag(net') /\ Moves
  OBVIOUS
<1>1. CASE SessionIsStopped
  BY <1>1 DEF SessionIsStopped, RequestStop, Moves, Stopped, netVars, Flight
<1>2. CASE Resend \/ Lose \/ Duplicate
  BY <1>2, NetworkMoves, TransferConstants DEF Moves
<1> QED
  BY <1>1, <1>2, SessionStepMoves, SessionReceivesMoves, SessionFailsMoves, ClientMoves
  DEF TransferNext, Moves

-----------------------------------------------------------------------------
(* The types, and the session *)

(* Nothing is in flight at first.                                             *)
LEMMA FlightInit == TransferInit => Flight
<1> SUFFICES ASSUME TransferInit
             PROVE  Flight
  OBVIOUS
<1>1. IsABag(net) /\ BagToSet(net) = {}
  BY DEF TransferInit, EmptyBag, SetToBag, IsABag, BagToSet
<1>2. got \in Seq([number : Nat, size : 0..MaxBuffer])
  BY DEF TransferInit
<1> QED
  BY <1>1, <1>2, TransferAssumption DEF TransferInit, Flight

(* Everything in flight stays of one of the three kinds.                       *)
LEMMA FlightStep == SessionInv /\ Flight /\ [TransferNext]_allVars => Flight'
<1> SUFFICES ASSUME SessionInv, Flight, TransferNext
             PROVE  Flight'
  BY DEF Flight, allVars, netVars
<1>1. IsABag(net') /\ Moves
  BY TransferMoves
<1>2. BagToSet(net') \subseteq Acks \cup DataDatagrams \cup Notices /\ lastAck' \subseteq Acks
  <2>1. CASE SessionMoves
    <3>1. Data(reader) \in DataDatagrams
      BY DataIsTyped DEF SessionInv, TypeOK
    <3> QED
      BY <2>1, <3>1 DEF SessionMoves, Flight
  <2>2. CASE Stopped
    BY <2>2 DEF Stopped, netVars, Flight
  <2>3. ASSUME NEW d \in BagToSet(net) \cap DataDatagrams, Delivers(d)
        PROVE  BagToSet(net') \subseteq Acks \cup DataDatagrams \cup Notices /\ lastAck' \subseteq Acks
    <3>1. Ack(d.packet.id) \in Acks
      BY KindsDiffer DEF Acks, DataPackets
    <3> QED
      BY <2>3, <3>1 DEF Delivers, Flight
  <2>4. ASSUME NEW id \in 0..IdSpace-1, Answers(id)
        PROVE  BagToSet(net') \subseteq Acks \cup DataDatagrams \cup Notices /\ lastAck' \subseteq Acks
    BY <2>4 DEF Answers, Flight, Acks
  <2> QED
    BY <1>1, <2>1, <2>2, <2>3, <2>4 DEF Moves
<1>3. got' \in Seq([number : Nat, size : 0..MaxBuffer]) /\ client' \in {"waiting", "complete", "failed"}
  <2>1. ASSUME NEW d \in DataDatagrams
        PROVE  [number |-> d.packet.number, size |-> d.packet.size] \in [number : Nat, size : 0..MaxBuffer]
    BY KindsDiffer, TransferConstants DEF DataPackets
  <2>2. ASSUME NEW d \in DataDatagrams, Delivers(d)
        PROVE  got' \in Seq([number : Nat, size : 0..MaxBuffer]) /\ client' \in {"waiting", "complete", "failed"}
    BY <2>1, <2>2 DEF Delivers, Flight
  <2> QED
    BY <1>1, <2>2 DEF Moves, SessionMoves, Stopped, netVars, Answers, Flight
<1>4. /\ lost' \in 0..MaxLosses
      /\ duplicated' \in 0..MaxDuplicates
      /\ resent' \in 0..MaxResends
  <2>1. CASE SessionStep \/ SessionReceives \/ SessionFails \/ SessionIsStopped
    BY <2>1 DEF SessionStep, SessionReceives, SessionFails, SessionIsStopped, netVars, Flight
  <2>2. CASE ClientStep
    BY <2>2 DEF ClientStep, AcceptBlock, AnswerAgain, Discard, Answer, Flight
  <2>3. CASE Resend \/ Lose \/ Duplicate
    BY <2>3, TransferAssumption DEF Resend, Lose, Duplicate, Flight
  <2> QED
    BY <2>1, <2>2, <2>3 DEF TransferNext
<1> QED
  BY <1>1, <1>2, <1>3, <1>4 DEF Flight

(* A step of the transfer is one of the session or leaves it alone: all that   *)
(* is in flight to a session, a session may receive.                           *)
LEMMA SessionSteps == SessionInv /\ Flight /\ [TransferNext]_allVars => [Next]_ioVars
<1> SUFFICES ASSUME SessionInv, Flight, [TransferNext]_allVars
             PROVE  [Next]_ioVars
  OBVIOUS
<1>1. CASE SessionStep
  BY <1>1 DEF SessionStep, Next, ThreadStep
<1>2. CASE SessionReceives
  <2>1. PICK d \in BagToSet(net) : d.to = "session" /\ Receive(Client, d.packet)
    BY <1>2 DEF SessionReceives
  <2>2. d.packet \in Incoming
    BY <2>1, KindsDiffer DEF Flight, Client
  <2> QED
    BY <2>1, <2>2 DEF Next, Senders
<1>3. CASE SessionFails \/ SessionIsStopped
  BY <1>3 DEF SessionFails, SessionIsStopped, Next
<1>4. CASE ClientStep
  BY <1>4 DEF ClientStep, AcceptBlock, AnswerAgain, Discard, Answer
<1>5. CASE Resend \/ Lose \/ Duplicate
  BY <1>5 DEF Resend, Lose, Duplicate
<1>6. CASE UNCHANGED allVars
  BY <1>6 DEF allVars
<1> QED
  BY <1>1, <1>2, <1>3, <1>4, <1>5, <1>6 DEF TransferNext

(* The session keeps its own invariant in the transfer, and what is in        *)
(* flight its type.                                                           *)
LEMMA FlightAlways == TransferSpec => [](SessionInv /\ Flight)
<1>1. TransferInit => SessionInv /\ Flight
  BY InitEstablishesInv, FlightInit DEF TransferInit
<1>2. SessionInv /\ Flight /\ [TransferNext]_allVars => (SessionInv /\ Flight)'
  BY SessionSteps, StepKeepsInv, FlightStep
<1> QED
  BY <1>1, <1>2, PTL DEF TransferSpec

(* The session of a transfer is one: what is shown above of a session,         *)
(* whatever arrives, holds of it.                                              *)
THEOREM SessionInTransfer == TransferSpec => Spec
<1>1. TransferInit => Init
  BY DEF TransferInit
<1> QED
  BY <1>1, SessionSteps, FlightAlways, PTL DEF TransferSpec, Spec

(* The types: what is in flight, what the client has, and the bounds.          *)
THEOREM TransferTypeCorrect == TransferSpec => []TransferTypeOK
<1>1. ASSUME Flight
      PROVE  TransferTypeOK
  <2>1. \A d \in BagToSet(net) : d.packet.id \in 0..IdSpace-1
    BY <1>1, KindsDiffer, TransferConstants DEF Flight, DataPackets
  <2> QED
    BY <1>1, <2>1 DEF Flight, TransferTypeOK
<1> QED
  BY <1>1, FlightAlways, PTL

-----------------------------------------------------------------------------
(* Lock step *)

(* Both sides start at block 0.                                               *)
LEMMA LockedInit == TransferInit => Locked
BY DEF TransferInit, Init, Locked, InDataLoop, NoReader, EmptyBag, SetToBag, BagToSet

(* While ids are not used twice, the number modulo IdSpace is the number.      *)
LEMMA IdIsNumber ==
  ASSUME NEW n \in Nat, n < IdSpace
  PROVE  n % IdSpace = n
BY TransferConstants

(* The ACK of the block the session is at comes from a client that has it.     *)
LEMMA AckOfBlock ==
  ASSUME Flight, Locked, NoWrap, reader \in Readers,
         NEW d \in BagToSet(net) \cap Acks, IsAwaited(d.packet)
  PROVE  Len(got) = reader.m_number
<1>1. reader.m_number \in Nat /\ Len(got) \in Nat
  BY DEF Readers, Flight
<1>2. d = Ack(reader.m_number)
  <2>1. d.packet.id = reader.m_number % IdSpace
    BY DEF IsAwaited, Packet
  <2> QED
    BY <1>1, <2>1, IdIsNumber, KindsDiffer DEF NoWrap
<1>3. reader.m_number \in 0..IdSpace-1
  BY <1>1, TransferConstants DEF NoWrap
<1> QED
  BY <1>1, <1>2, <1>3 DEF Locked

(* The session sends, and moves on only for an ACK of its own block, which the *)
(* client has sent when it had that block.                                     *)
LEMMA SessionKeepsLocked ==
  ASSUME SessionInv, Flight, Locked, NoWrap, NoWrap', SessionMoves
  PROVE  Locked'
<1> USE DEF SessionMoves
<1>1. reader \in Readers /\ reader.m_number \in Nat /\ Len(got) \in Nat
  BY DEF SessionInv, TypeOK, Readers, Flight
<1>2. \A id \in 0..IdSpace-1 : (Ack(id) \in BagToSet(net) \cup lastAck)' => id <= Len(got)
  <2>1. ASSUME NEW id \in 0..IdSpace-1, Ack(id) \in BagToSet(net')
        PROVE  Ack(id) \in BagToSet(net)
    <3>1. Ack(id) \in Acks
      BY DEF Acks
    <3> QED
      BY <1>1, <2>1, <3>1, KindsDiffer, DataIsTyped
  <2> QED
    BY <2>1 DEF Locked
<1>3. \A d \in BagToSet(net') \cap DataDatagrams :
         \/ d \in BagToSet(net)
         \/ pc = "data" /\ d.packet.number = reader.m_number
  BY <1>1, KindsDiffer, DataIsTyped
<1>4. CASE Opens
  <2>1. reader.m_number = 0 /\ Len(got) = 0
    BY <1>1, <1>4 DEF Opens, Locked
  <2>2. BagToSet(net') \cap DataDatagrams = {}
    BY <1>1, <1>3, <1>4, <2>1 DEF Opens, Locked
  <2> QED
    BY <1>2, <1>4, <2>1, <2>2 DEF Opens, Locked, InDataLoop
<1>5. CASE Stays
  <2>1. \A d \in BagToSet(net') \cap DataDatagrams : d.packet.number \in 1..reader.m_number
    BY <1>1, <1>3 DEF Locked, InDataLoop
  <2> QED
    BY <1>2, <1>5, <2>1 DEF Stays, Locked, InDataLoop
<1>6. ASSUME NEW d \in BagToSet(net) \cap Acks, Advances(d.packet)
      PROVE  Locked'
  <2>2. Len(got) = reader.m_number
    BY <1>6, AckOfBlock DEF Advances, SessionInv, TypeOK
  <2>3. reader'.m_number = reader.m_number + 1
    <3>1. reader'.m_number = (reader.m_number + 1) % Word
      BY <1>1, <1>6 DEF Advances, NextBlock, Readers
    <3> QED
      BY <1>1, <3>1, TransferConstants DEF NoWrap
  <2>4. \A e \in BagToSet(net') \cap DataDatagrams : e.packet.number \in 1..reader'.m_number
    BY <1>1, <1>3, <1>6, <2>3 DEF Locked, Advances
  <2> QED
    BY <1>1, <1>2, <1>6, <2>2, <2>3, <2>4 DEF Locked, Advances, InDataLoop
<1>7. ASSUME NEW d \in BagToSet(net) \cap Acks, Finishes(d.packet)
      PROVE  Locked'
  <2>1. \A e \in BagToSet(net') \cap DataDatagrams : e.packet.number \in 1..reader.m_number
    BY <1>1, <1>3, <1>7 DEF Locked, Finishes
  <2> QED
    BY <1>2, <1>7, <2>1 DEF Locked, Finishes, InDataLoop
<1> QED
  BY <1>4, <1>5, <1>6, <1>7

(* The client takes the block it waits for, which nobody has sent before the   *)
(* session came to it.                                                         *)
LEMMA DeliveryKeepsLocked ==
  ASSUME Flight, Locked, NoWrap, reader \in Readers,
         NEW d \in BagToSet(net) \cap DataDatagrams, Delivers(d)
  PROVE  Locked' /\ d.packet.number = Len(got) + 1
<1>1. reader.m_number \in Nat /\ Len(got) \in Nat
  BY DEF Readers, Flight
<1>2. d.packet.number \in 1..reader.m_number /\ d.packet.id = d.packet.number
  <2>1. d.packet.number \in 1..reader.m_number
    BY DEF Locked
  <2>2. d.packet.number \in Nat /\ d.packet.number < IdSpace
    BY <1>1, <2>1, TransferConstants DEF NoWrap
  <2> QED
    BY <2>1, <2>2, IdIsNumber, KindsDiffer
<1>3. d.packet.number = Len(got) + 1
  <2>1. CASE Len(got) + 1 < IdSpace
    BY <1>1, <1>2, <2>1, IdIsNumber DEF Delivers
  <2>2. CASE Len(got) + 1 = IdSpace
    <3>1. IdSpace % IdSpace = 0
      BY TransferConstants
    <3> QED
      BY <1>1, <1>2, <2>2, <3>1 DEF Delivers
  <2> QED
    BY <1>1, <2>1, <2>2, TransferConstants DEF Locked, NoWrap
<1>4. Len(got') = Len(got) + 1
  BY DEF Delivers, Flight
<1>5. \A id \in 0..IdSpace-1 : (Ack(id) \in BagToSet(net) \cup lastAck)' => id <= Len(got')
  <2>1. ASSUME NEW id \in 0..IdSpace-1, Ack(id) \in BagToSet(net') \cup lastAck'
        PROVE  Ack(id) \in BagToSet(net) \/ id = d.packet.id
    BY <2>1 DEF Delivers, Ack, Packet
  <2> QED
    BY <1>1, <1>2, <1>3, <1>4, <2>1 DEF Locked
<1>6. UNCHANGED <<pc, reader>> /\ BagToSet(net') \cap DataDatagrams \subseteq BagToSet(net)
  <2>1. Ack(d.packet.id) \notin DataDatagrams
    BY KindsDiffer DEF Acks, DataPackets
  <2> QED
    BY <2>1 DEF Delivers, ioVars
<1> QED
  BY <1>1, <1>2, <1>3, <1>4, <1>5, <1>6 DEF Locked, InDataLoop

(* An answer repeats an acknowledgement the client has already given.         *)
LEMMA AnswerKeepsLocked ==
  ASSUME Flight, Locked, NoWrap, reader \in Readers, NEW id \in 0..IdSpace-1, Answers(id)
  PROVE  Locked'
<1>1. reader.m_number \in Nat /\ Len(got) \in Nat
  BY DEF Readers, Flight
<1>2. id <= Len(got)
  <2>1. Len(got) < IdSpace
    BY <1>1, TransferConstants DEF Locked, NoWrap
  <2>2. Len(got) % IdSpace = Len(got)
    BY <1>1, <2>1, IdIsNumber
  <2> QED
    BY <1>1, <2>2 DEF Answers
<1>3. \A i \in 0..IdSpace-1 : (Ack(i) \in BagToSet(net) \cup lastAck)' => i <= Len(got)
  <2>1. ASSUME NEW i \in 0..IdSpace-1, Ack(i) \in BagToSet(net') \cup lastAck'
        PROVE  Ack(i) \in BagToSet(net) \cup lastAck \/ i = id
    BY <2>1 DEF Answers, Ack, Packet
  <2> QED
    BY <1>1, <1>2, <2>1 DEF Locked
<1>4. UNCHANGED <<pc, reader, got>> /\ BagToSet(net') \cap DataDatagrams \subseteq BagToSet(net)
  <2>1. \A d \in lastAck \cup {Ack(id)} : d \notin DataDatagrams
    BY KindsDiffer DEF Flight, Acks
  <2> QED
    BY <2>1 DEF Answers, ioVars
<1> QED
  BY <1>3, <1>4 DEF Locked, InDataLoop

(* Every step keeps both sides together, while no id has been used twice.     *)
LEMMA LockedStep ==
  SessionInv /\ Flight /\ Locked /\ NoWrap /\ NoWrap' /\ [TransferNext]_allVars => Locked'
<1> SUFFICES ASSUME SessionInv, Flight, Locked, NoWrap, NoWrap', [TransferNext]_allVars
             PROVE  Locked'
  OBVIOUS
<1>1. reader \in Readers
  BY DEF SessionInv, TypeOK
<1>2. CASE UNCHANGED allVars
  BY <1>2 DEF allVars, ioVars, netVars, Locked, InDataLoop
<1>3. CASE Stopped
  BY <1>3 DEF Stopped, netVars, Locked, InDataLoop
<1> QED
  BY <1>1, <1>2, <1>3, TransferMoves, SessionKeepsLocked, DeliveryKeepsLocked, AnswerKeepsLocked
  DEF Moves

(* So they stay together.                                                     *)
LEMMA LockedAlways == TransferSpec /\ []NoWrap => [](SessionInv /\ Flight /\ Locked)
BY LockedInit, LockedStep, FlightAlways, PTL DEF TransferSpec

(* Lock step, as long as no block id is used twice, that is for the first      *)
(* 65535 blocks of any file: however often datagrams are lost, duplicated and  *)
(* delayed, and however often either side sends again, the client has all      *)
(* blocks before the one the session is at, and none after it.                 *)
THEOREM SessionInLockStep == TransferSpec /\ []NoWrap => []LockStep
<1>1. SessionInv /\ Flight /\ Locked => LockStep
  <2> SUFFICES ASSUME SessionInv, Flight, Locked, InDataLoop
               PROVE  Len(got) \in {reader.m_number - 1, reader.m_number}
    BY DEF LockStep, InDataLoop
  <2>1. reader.m_number \in Nat /\ Len(got) \in Nat
    BY DEF SessionInv, TypeOK, Readers, Flight
  <2> QED
    BY <2>1 DEF Locked
<1> QED
  BY <1>1, LockedAlways, PTL

-----------------------------------------------------------------------------
(* The blocks *)

(* Division, which the blocks of a file are counted with.                      *)
LEMMA Division ==
  ASSUME NEW l \in Nat, NEW b \in Nat, b > 0
  PROVE  /\ l \div b \in Nat /\ l % b \in Nat /\ l % b < b
         /\ l = (l \div b) * b + (l % b)
OBVIOUS

(* A block of the reader is one of the file's, and the first that is not full  *)
(* is the last.                                                                *)
LEMMA BlockOfFile ==
  ASSUME reader \in Readers, reader.m_blksiz > 0,
         NEW number \in Nat \ {0}, NEW size, IsBlock(reader, number, size)
  PROVE  LET blocks == Promise!Blocks([length |-> reader.m_length, blksiz |-> reader.m_blksiz])
         IN /\ number \in 1..Len(blocks)
            /\ blocks[number] = [number |-> number, size |-> size]
            /\ size < reader.m_blksiz => number = Len(blocks)
<1> DEFINE l == reader.m_length
           b == reader.m_blksiz
           q == l \div b
           blocks == Promise!Blocks([length |-> l, blksiz |-> b])
<1> SUFFICES /\ number \in 1..Len(blocks)
             /\ blocks[number] = [number |-> number, size |-> size]
             /\ size < b => number = Len(blocks)
  OBVIOUS
<1>1. l \in Nat /\ b \in Nat /\ b > 0
  BY DEF Readers
<1>2. q \in Nat /\ l % b \in Nat /\ l % b < b /\ l = q * b + (l % b)
  BY <1>1, Division
<1>3. blocks = [i \in 1..q+1 |-> [number |-> i, size |-> IF i <= q THEN b ELSE l % b]]
  BY DEF Promise!Blocks
<1>4. Len(blocks) = q + 1
  BY <1>2, <1>3
<1>5. (number - 1) * b <= l /\ size = Lesser(l - (number - 1) * b, b)
  BY DEF IsBlock
<1> HIDE DEF blocks, q, l, b
<1>6. CASE number <= q
  <2>1. (number - 1) * b + b <= q * b
    <3>1. (number - 1) * b + b = number * b
      BY <1>1
    <3>2. number * b <= q * b
      BY <1>1, <1>2, <1>6
    <3> QED
      BY <3>1, <3>2
  <2>2. size = b
    BY <1>1, <1>2, <1>5, <2>1 DEF Lesser
  <2> QED
    <3>1. number \in 1..q+1
      BY <1>2, <1>6
    <3>2. blocks[number] = [number |-> number, size |-> size]
      BY <1>3, <1>6, <2>2, <3>1
    <3> QED
      BY <1>1, <1>4, <2>2, <3>1, <3>2
<1>7. CASE number > q
  <2>1. number - 1 <= q
    <3>1. ASSUME number - 1 >= q + 1
          PROVE  FALSE
      <4>1. (q + 1) * b <= (number - 1) * b
        BY <1>1, <1>2, <3>1
      <4>2. (q + 1) * b = q * b + b
        BY <1>1, <1>2
      <4> QED
        BY <1>1, <1>2, <1>5, <4>1, <4>2
    <3> QED
      BY <1>2, <3>1
  <2>2. number = q + 1
    BY <1>2, <1>7, <2>1
  <2>3. size = l % b
    BY <1>1, <1>2, <1>5, <2>2 DEF Lesser
  <2> QED
    <3>1. number \in 1..q+1 /\ ~(number <= q)
      BY <1>2, <2>2
    <3>2. blocks[number] = [number |-> number, size |-> size]
      BY <1>3, <2>3, <3>1
    <3> QED
      BY <1>4, <2>2, <3>1, <3>2
<1> QED
  BY <1>2, <1>6, <1>7

(* While the reader is of one file, a block of it stays one.                   *)
LEMMA SameFile ==
  ASSUME NEW r, NEW q, q.m_length = r.m_length, q.m_blksiz = r.m_blksiz
  PROVE  \A number, size : IsBlock(q, number, size) <=> IsBlock(r, number, size)
BY DEF IsBlock

(* The client starts with no block.                                           *)
LEMMA DeliveredInit == TransferInit => Delivered
BY DEF TransferInit, Init, Delivered, EmptyBag, SetToBag, BagToSet

(* What the session sends is a block of the file it has open, and it          *)
(* finishes only when the client has all of them.                             *)
LEMMA SessionKeepsDelivered ==
  ASSUME SessionInv, Flight, Locked, Delivered, NoWrap, Divisible, SessionMoves
  PROVE  Delivered'
<1> USE DEF SessionMoves
<1>1. /\ reader \in Readers /\ reader.m_number \in Nat
      /\ pc \in {"start", "oack", "oack_recv", "data", "data_recv"} => result = "none"
  BY DEF SessionInv, TypeOK, Readers, Running, InDataLoop
<1>2. \A d \in BagToSet(net') \cap DataDatagrams :
         \/ d \in BagToSet(net)
         \/ pc = "data" /\ d.packet.number = reader.m_number /\ d.packet.size = reader.size
  BY <1>1, KindsDiffer, DataIsTyped
<1>3. pc \in {"data", "data_recv"} => IsBlock(reader, reader.m_number, reader.size) /\ InBounds(reader)
  BY DEF SessionInv, ReaderInFile, InBounds, IsBlock, Locked, InDataLoop, Divisible
<1>4. \A d \in BagToSet(net') \cap DataDatagrams : IsBlock(reader, d.packet.number, d.packet.size)
  BY <1>2, <1>3 DEF Delivered
<1>5. CASE Opens
  <2>1. got = <<>> /\ reader.m_number = 0
    BY <1>1, <1>5 DEF Opens, Locked, Flight
  <2>2. BagToSet(net') \cap DataDatagrams = {}
    BY <1>1, <1>2, <1>5, <2>1 DEF Opens, Locked
  <2>3. result' = "none"
    BY <1>1, <1>5 DEF Opens
  <2> QED
    BY <2>1, <2>2, <2>3 DEF Delivered
<1>6. CASE Stays
  <2>1. \A d \in BagToSet(net') \cap DataDatagrams : IsBlock(reader', d.packet.number, d.packet.size)
    BY <1>4, <1>6, SameFile DEF Stays
  <2>2. \A i \in 1..Len(got') : got'[i].number = i /\ IsBlock(reader', i, got'[i].size)
    BY <1>6, SameFile DEF Stays, Delivered
  <2>3. result' = "finished" /\ ~stop' => result = "finished"
    BY <1>6 DEF Stays
  <2> QED
    BY <1>6, <2>1, <2>2, <2>3 DEF Stays, Delivered
<1>7. ASSUME NEW a \in BagToSet(net) \cap Acks, Advances(a.packet)
      PROVE  Delivered'
  <2>1. reader'.m_length = reader.m_length /\ reader'.m_blksiz = reader.m_blksiz
    BY <1>1, <1>7, NextBlockIsReader DEF Advances
  <2>2. \A d \in BagToSet(net') \cap DataDatagrams : IsBlock(reader', d.packet.number, d.packet.size)
    BY <1>4, <2>1, SameFile
  <2>3. \A i \in 1..Len(got') : got'[i].number = i /\ IsBlock(reader', i, got'[i].size)
    BY <2>1, SameFile DEF Delivered
  <2>4. result' = "none"
    BY <1>1, <1>7 DEF Advances
  <2> QED
    BY <2>2, <2>3, <2>4 DEF Delivered
<1>8. ASSUME NEW a \in BagToSet(net) \cap Acks, Finishes(a.packet)
      PROVE  Delivered'
  <2>1. \A d \in BagToSet(net') \cap DataDatagrams : IsBlock(reader', d.packet.number, d.packet.size)
    BY <1>4, <1>8, SameFile DEF Finishes
  <2>2. \A i \in 1..Len(got') : got'[i].number = i /\ IsBlock(reader', i, got'[i].size)
    BY <1>8, SameFile DEF Finishes, Delivered
  <2>3. Len(got) = reader.m_number
    BY <1>1, <1>8, AckOfBlock DEF Finishes
  <2>4. InBounds(reader) /\ IsLast(reader)
    BY <1>3, <1>8 DEF Finishes
  <2> QED
    BY <1>8, <2>1, <2>2, <2>3, <2>4 DEF Delivered, Finishes
<1> QED
  BY <1>5, <1>6, <1>7, <1>8

(* The client appends the block of the file that is next.                     *)
LEMMA DeliveryKeepsDelivered ==
  ASSUME Flight, Locked, Delivered, NoWrap, reader \in Readers,
         NEW d \in BagToSet(net) \cap DataDatagrams, Delivers(d)
  PROVE  Delivered' /\ IsBlock(reader, Len(got) + 1, d.packet.size)
<1>1. d.packet.number = Len(got) + 1 /\ Locked'
  BY DeliveryKeepsLocked
<1>2. IsBlock(reader, Len(got) + 1, d.packet.size)
  BY <1>1 DEF Delivered
<1>3. /\ Len(got') = Len(got) + 1
      /\ got'[Len(got) + 1] = [number |-> Len(got) + 1, size |-> d.packet.size]
      /\ \A i \in 1..Len(got) : got'[i] = got[i]
  BY <1>1 DEF Delivers, Flight
<1>4. \A i \in 1..Len(got') : got'[i].number = i /\ IsBlock(reader, i, got'[i].size)
  <2>1. \A i \in 1..Len(got') : i \in 1..Len(got) \/ i = Len(got) + 1
    BY <1>3 DEF Flight
  <2> QED
    BY <1>2, <1>3, <2>1 DEF Delivered
<1>5. UNCHANGED <<reader, stop, result>> /\ BagToSet(net') \cap DataDatagrams \subseteq BagToSet(net)
  <2>1. Ack(d.packet.id) \notin DataDatagrams
    BY KindsDiffer DEF Acks, DataPackets
  <2> QED
    BY <2>1 DEF Delivers, ioVars
<1>6. ~(Len(got) = reader.m_number)
  BY <1>1, <1>3, <1>5 DEF Locked, Readers, Flight
<1> QED
  BY <1>2, <1>4, <1>5, <1>6 DEF Delivered

(* An answer leaves the blocks as they are.                                   *)
LEMMA AnswerKeepsDelivered ==
  ASSUME Flight, Delivered, NEW id \in 0..IdSpace-1, Answers(id)
  PROVE  Delivered'
<1>1. UNCHANGED <<got, reader, stop, result>> /\ BagToSet(net') \cap DataDatagrams \subseteq BagToSet(net)
  <2>1. \A d \in lastAck \cup {Ack(id)} : d \notin DataDatagrams
    BY KindsDiffer DEF Flight, Acks
  <2> QED
    BY <2>1 DEF Answers, ioVars
<1> QED
  BY <1>1 DEF Delivered

(* Every step keeps the blocks of the client a beginning of the file.         *)
LEMMA DeliveredStep ==
  SessionInv /\ Flight /\ Locked /\ Delivered /\ NoWrap /\ Divisible /\ [TransferNext]_allVars
    => Delivered'
<1> SUFFICES ASSUME SessionInv, Flight, Locked, Delivered, NoWrap, Divisible, [TransferNext]_allVars
             PROVE  Delivered'
  OBVIOUS
<1>1. reader \in Readers
  BY DEF SessionInv, TypeOK
<1>2. CASE UNCHANGED allVars
  BY <1>2 DEF allVars, ioVars, netVars, Delivered
<1>3. CASE Stopped
  BY <1>3 DEF Stopped, netVars, Delivered
<1> QED
  BY <1>1, <1>2, <1>3, TransferMoves, SessionKeepsDelivered, DeliveryKeepsDelivered, AnswerKeepsDelivered
  DEF Moves

(* So they always are one.                                                    *)
LEMMA DeliveredAlways ==
  TransferSpec /\ []NoWrap /\ []Divisible => [](SessionInv /\ Flight /\ Locked /\ Delivered)
BY DeliveredInit, DeliveredStep, LockedAlways, PTL DEF TransferSpec

-----------------------------------------------------------------------------
(* The refinement *)

(* How a session has ended, by its result and the stop.                        *)
LEMMA Outcomes ==
  /\ result = "none" => Outcome = "open"
  /\ result = "error" => Outcome = "failed"
  /\ result = "finished" /\ stop => Outcome = "stopped"
  /\ result = "finished" /\ ~stop => Outcome = "finished"
BY DEF Outcome

(* The same after a step.                                                     *)
LEMMA OutcomesAfter ==
  /\ result' = "none" => Outcome' = "open"
  /\ result' = "error" => Outcome' = "failed"
  /\ result' = "finished" /\ stop' => Outcome' = "stopped"
  /\ result' = "finished" /\ ~stop' => Outcome' = "finished"
BY DEF Outcome

(* Its file is open once it has a block.                                       *)
LEMMA FileIsOpen ==
  ASSUME reader \in Readers, reader.m_number > 0, Divisible
  PROVE  FileOpen # NoFile
<1>1. reader.m_blksiz \in 1..MaxBuffer /\ reader.m_length \in 0..Word-1
  BY TransferConstants DEF Readers, Divisible
<1>2. FileOpen = [length |-> reader.m_length, blksiz |-> reader.m_blksiz]
  BY DEF FileOpen, Readers
<1> QED
  BY <1>1, <1>2, TransferAssumption

(* An element of a sequence is of the set of the sequence.                     *)
LEMMA ElementIn ==
  ASSUME NEW S, NEW s \in Seq(S), NEW i \in 1..Len(s)
  PROVE  s[i] \in S
OBVIOUS

(* The client that has the last block has the file.                            *)
LEMMA WholeFile ==
  ASSUME SessionInv, Flight, Delivered, reader.m_number > 0, Divisible,
         Len(got) = reader.m_number, InBounds(reader), IsLast(reader)
  PROVE  got = Promise!Blocks(FileOpen)
<1> DEFINE blocks == Promise!Blocks([length |-> reader.m_length, blksiz |-> reader.m_blksiz])
<1>1. reader \in Readers /\ reader.m_blksiz > 0 /\ reader.m_number \in Nat
  BY DEF SessionInv, TypeOK, Divisible, Readers
<1>2. FileOpen = [length |-> reader.m_length, blksiz |-> reader.m_blksiz]
  BY <1>1 DEF FileOpen
<1>3. \A i \in 1..Len(got) : blocks[i] = got[i]
  <2>1. ASSUME NEW i \in 1..Len(got)
        PROVE  blocks[i] = got[i]
    <3>1. got[i].number = i /\ IsBlock(reader, i, got[i].size)
      BY DEF Delivered
    <3>2. got[i] = [number |-> i, size |-> got[i].size]
      <4>1. got[i] \in [number : Nat, size : 0..MaxBuffer]
        BY <2>1, ElementIn DEF Flight
      <4> QED
        BY <3>1, <4>1
    <3>3. i \in Nat \ {0}
      BY <2>1
    <3> QED
      BY <1>1, <3>1, <3>2, <3>3, BlockOfFile
  <2> QED
    BY <2>1
<1>4. Len(blocks) = reader.m_number
  <2>1. IsBlock(reader, reader.m_number, reader.size) /\ reader.m_number \in Nat \ {0}
    BY <1>1 DEF InBounds, IsBlock
  <2> QED
    BY <1>1, <2>1, BlockOfFile DEF IsLast
<1>5. blocks = [i \in 1..Len(blocks) |-> blocks[i]]
  <2> DEFINE q == reader.m_length \div reader.m_blksiz
  <2>1. q \in Nat
    BY <1>1, Division DEF Readers
  <2>2. blocks = [i \in 1..q+1 |-> [number |-> i, size |-> IF i <= q THEN reader.m_blksiz
                                                       ELSE reader.m_length % reader.m_blksiz]]
    BY DEF Promise!Blocks
  <2> HIDE DEF blocks, q
  <2>3. Len(blocks) = q + 1
    BY <2>1, <2>2
  <2> QED
    BY <2>2, <2>3
<1>6. got = [i \in 1..Len(got) |-> got[i]]
  BY DEF Flight
<1> HIDE DEF blocks
<1>7. got = blocks
  BY <1>3, <1>4, <1>5, <1>6
<1> QED
  BY <1>2, <1>7 DEF blocks

(* A step of the session opens the file, ends the transfer, or shows nothing.  *)
LEMMA SessionRefines ==
  ASSUME SessionInv, SessionInv', Flight, Locked, Locked', Delivered, NoWrap, Divisible, Divisible',
         SessionMoves
  PROVE  [Promise!Next]_Promise!transferVars
<1> USE DEF SessionMoves
<1>1. /\ reader \in Readers /\ reader' \in Readers
      /\ reader.m_number \in Nat /\ reader'.m_number \in Nat
      /\ pc \in {"start", "oack", "oack_recv", "data", "data_recv"} => result = "none"
  BY DEF SessionInv, TypeOK, Readers, Running, InDataLoop
<1>2. CASE Opens
  <2>1. FileOpen = NoFile
    BY <1>2 DEF Opens, Locked, FileOpen
  <2>2. FileOpen' \in [length : 0..Word-1, blksiz : 1..MaxBuffer]
    <3>1. reader'.m_blksiz \in 1..MaxBuffer /\ reader'.m_length \in 0..Word-1
      BY <1>1, <1>2, TransferConstants DEF Opens, Readers, Divisible
    <3>2. FileOpen' = [length |-> reader'.m_length, blksiz |-> reader'.m_blksiz]
      BY <1>2 DEF Opens, FileOpen
    <3> QED
      BY <3>1, <3>2
  <2>3. Outcome = "open" /\ Outcome' = "open"
    BY <1>1, <1>2, Outcomes, OutcomesAfter DEF Opens
  <2>4. Promise!Open
    BY <2>1, <2>2, <2>3 DEF Promise!Open
  <2> QED
    BY <2>4 DEF Promise!Next
<1>3. CASE Stays
  <2>1. UNCHANGED FileOpen
    BY <1>3 DEF Stays, FileOpen
  <2>2. CASE UNCHANGED result
    <3>1. UNCHANGED Outcome
      BY <2>2 DEF Outcome
    <3> QED
      BY <2>1, <3>1 DEF Promise!transferVars
  <2>3. CASE result = "none" /\ (result' = "error" \/ (result' = "finished" /\ stop))
    <3>1. Outcome = "open" /\ Outcome' \in {"failed", "stopped"}
      BY <2>3, Outcomes, OutcomesAfter
    <3>2. Promise!Abort
      BY <2>1, <3>1 DEF Promise!Abort
    <3> QED
      BY <3>2 DEF Promise!Next
  <2> QED
    BY <1>3, <2>2, <2>3 DEF Stays
<1>4. ASSUME NEW a \in BagToSet(net) \cap Acks, Advances(a.packet)
      PROVE  [Promise!Next]_Promise!transferVars
  <2>1. reader'.m_length = reader.m_length /\ reader'.m_blksiz = reader.m_blksiz
    BY <1>1, <1>4, NextBlockIsReader DEF Advances
  <2>2. reader.m_number # 0 /\ reader'.m_number # 0
    BY <1>1, <1>4 DEF Advances, Locked, InDataLoop
  <2>3. UNCHANGED <<FileOpen, got, Outcome>>
    BY <1>4, <2>1, <2>2 DEF Advances, FileOpen, Outcome
  <2> QED
    BY <2>3 DEF Promise!transferVars
<1>5. ASSUME NEW a \in BagToSet(net) \cap Acks, Finishes(a.packet), result' = "finished"
      PROVE  [Promise!Next]_Promise!transferVars
  <2>1. UNCHANGED FileOpen /\ Outcome = "open"
    BY <1>1, <1>5, Outcomes DEF Finishes, FileOpen
  <2>2. CASE stop
    <3>1. Outcome' = "stopped"
      BY <1>5, <2>2, OutcomesAfter
    <3>2. Promise!Abort
      BY <2>1, <3>1 DEF Promise!Abort
    <3> QED
      BY <3>2 DEF Promise!Next
  <2>3. CASE ~stop
    <3>1. Outcome' = "finished"
      BY <1>5, <2>3, OutcomesAfter
    <3>2. reader.m_number > 0
      BY <1>5 DEF Finishes, Locked, InDataLoop
    <3>3. InBounds(reader) /\ IsLast(reader)
      BY <1>5, <3>2 DEF Finishes, SessionInv, ReaderInFile, Divisible
    <3>4. got = Promise!Blocks(FileOpen)
      BY <1>1, <1>5, <3>2, <3>3, AckOfBlock, WholeFile DEF Finishes
    <3>5. FileOpen # NoFile
      BY <1>1, <3>2, FileIsOpen
    <3>6. Promise!Finish
      BY <2>1, <3>1, <3>4, <3>5 DEF Promise!Finish
    <3> QED
      BY <3>6 DEF Promise!Next
  <2> QED
    BY <2>2, <2>3
<1> QED
  BY <1>2, <1>3, <1>4, <1>5

(* The client's next block is the next of the file.                            *)
LEMMA DeliveryRefines ==
  ASSUME SessionInv, Flight, Locked, Delivered, NoWrap, Divisible,
         NEW d \in BagToSet(net) \cap DataDatagrams, Delivers(d)
  PROVE  Promise!Deliver
<1>1. reader \in Readers /\ Len(got) \in Nat
  BY DEF SessionInv, TypeOK, Flight
<1>2. /\ d.packet.number = Len(got) + 1
      /\ IsBlock(reader, Len(got) + 1, d.packet.size)
  BY <1>1, DeliveryKeepsLocked, DeliveryKeepsDelivered
<1>3. reader.m_number > 0
  BY <1>1 DEF Locked, Readers
<1>4. FileOpen = [length |-> reader.m_length, blksiz |-> reader.m_blksiz] /\ FileOpen # NoFile
  BY <1>1, <1>3, FileIsOpen DEF FileOpen
<1>5. /\ Len(got) + 1 \in 1..Len(Promise!Blocks(FileOpen))
      /\ Promise!Blocks(FileOpen)[Len(got) + 1] = [number |-> Len(got) + 1, size |-> d.packet.size]
  BY <1>1, <1>2, <1>3, <1>4, BlockOfFile DEF Divisible
<1>6. Len(got) < Len(Promise!Blocks(FileOpen))
  BY <1>1, <1>5
<1>7. got' = Append(got, Promise!Blocks(FileOpen)[Len(got) + 1])
  BY <1>2, <1>5 DEF Delivers
<1>8. UNCHANGED <<FileOpen, Outcome>>
  BY DEF Delivers, ioVars, FileOpen, Outcome
<1> QED
  BY <1>4, <1>6, <1>7, <1>8 DEF Promise!Deliver

(* The promise to the client, as long as no block id is used twice and the     *)
(* client has not asked for blocks without a byte: whatever the network loses, *)
(* repeats and delays, whatever fails and whenever the session is stopped, the *)
(* client gets the blocks of the one file that was opened, each once and in    *)
(* order, and the session says it has finished only when the client has all.   *)
THEOREM TransferKeepsPromise ==
  TransferSpec /\ []NoWrap /\ []Divisible => ImplementsFileTransfer
<1>1. TransferInit => Promise!Init
  <2> SUFFICES ASSUME TransferInit
               PROVE  Promise!Init
    OBVIOUS
  <2>1. FileOpen = NoFile /\ got = <<>>
    BY DEF TransferInit, Init, NoReader, FileOpen
  <2>2. Outcome = "open"
    BY Outcomes DEF TransferInit, Init
  <2> QED
    BY <2>1, <2>2 DEF Promise!Init
<1>2. ASSUME SessionInv, SessionInv', Flight, Locked, Locked', Delivered, NoWrap, Divisible, Divisible',
             [TransferNext]_allVars
      PROVE  [Promise!Next]_Promise!transferVars
  <2>1. CASE SessionMoves
    BY <1>2, <2>1, SessionRefines
  <2>2. CASE Stopped
    <3>1. UNCHANGED <<FileOpen, got, result>> /\ stop'
      BY <2>2 DEF Stopped, netVars, FileOpen
    <3>2. result \in {"none", "finished", "error"}
      BY <1>2 DEF SessionInv, TypeOK
    <3>3. UNCHANGED Outcome \/ (Outcome = "finished" /\ Outcome' = "stopped")
      BY <1>2, <3>1, <3>2, Outcomes, OutcomesAfter DEF SessionInv, TypeOK
    <3> QED
      BY <3>1, <3>3 DEF Promise!Next, Promise!Abort, Promise!transferVars
  <2>3. ASSUME NEW d \in BagToSet(net) \cap DataDatagrams, Delivers(d)
        PROVE  Promise!Next
    BY <1>2, <2>3, DeliveryRefines DEF Promise!Next
  <2>4. ASSUME NEW id \in 0..IdSpace-1, Answers(id)
        PROVE  UNCHANGED Promise!transferVars
    BY <2>4 DEF Answers, ioVars, FileOpen, Outcome, Promise!transferVars
  <2>5. CASE UNCHANGED allVars
    BY <2>5 DEF allVars, ioVars, netVars, FileOpen, Outcome, Promise!transferVars
  <2> QED
    BY <1>2, <2>1, <2>2, <2>3, <2>4, <2>5, TransferMoves DEF Moves
<1> QED
  BY <1>1, <1>2, DeliveredAlways, PTL DEF TransferSpec, ImplementsFileTransfer, Promise!Spec

-----------------------------------------------------------------------------
(* A network that keeps time *)

(* The settings of the run that checks FailsOnlyByLoss, whatever the losses:   *)
(* no duplicates, nothing late, no fault of the system, and requests for a     *)
(* file that is there, with a block size that a buffer can have.               *)
Timeliness ==
  /\ Timely /\ ~Faulty
  /\ MaxDuplicates = 0 /\ MaxResends = 0
  /\ \A r \in Requests :
       /\ r.xfermode # "unknown" /\ r.path = "regular"
       /\ "blksize" \in DOMAIN r.options => r.options["blksize"] \in 1..MaxBuffer
       /\ "timeout" \in DOMAIN r.options => r.options["timeout"] # Garbage

One(d) == SetToBag({d})

(* There is then one datagram in flight at most, the one its receiver waits    *)
(* for, and every retry that is used up has cost a datagram, but for one: the  *)
(* one that the loop takes off on its way to the second and every later block. *)
(* Spent(0) holds once the datagram that has been sent, or its answer, is lost.*)
Spent(n) == lost >= MaxRetries - retry - n

Negotiating ==
  /\ options.blksize \in 1..MaxBuffer
  /\ got = <<>>
  /\ \/ pc = "oack" /\ net = EmptyBag /\ Spent(1)
     \/ pc = "oack_recv" /\ net = EmptyBag /\ Spent(0)
     \/ pc = "oack_recv" /\ net \in {One(Oack), One(Ack(0))} /\ Spent(1)

Transferring ==
  /\ reader.m_blksiz > 0 /\ reader.m_number > 0
  /\ Len(got) \in {reader.m_number - 1, reader.m_number}
  /\ \/ pc = "data" /\ net = EmptyBag /\ Spent(1)
     \/ pc = "data_recv" /\ net = EmptyBag /\ Spent(0)
     \/ pc = "data_recv" /\ net = One(Data(reader)) /\ Spent(1)
     \/ /\ pc = "data_recv" /\ net = One(Ack(reader.m_number % IdSpace)) /\ Spent(1)
        /\ Len(got) = reader.m_number

InTime ==
  /\ client = "waiting"
  /\ \/ pc = "start" /\ net = EmptyBag /\ got = <<>>
     \/ Negotiating
     \/ Transferring

(* Or it is settled already how the transfer ends.                             *)
Settled ==
  \/ stop
  \/ client = "complete"
  \/ result = "finished"
  \/ result = "error" /\ lost >= MaxRetries - 1

Fate == Settled \/ InTime

(* Bags of one datagram, or none.                                              *)
LEMMA OneDatagram ==
  ASSUME NEW d
  PROVE  /\ Carry(EmptyBag, {}) = EmptyBag
         /\ Carry(EmptyBag, {d}) = One(d)
         /\ Without(One(d), d) = EmptyBag
         /\ BagToSet(One(d)) = {d}
         /\ BagToSet(EmptyBag) = {}
<1>1. EmptyBag = [e \in {} |-> 1] /\ One(d) = [e \in {d} |-> 1]
  BY DEF EmptyBag, SetToBag, One
<1>2. Carry(EmptyBag, {}) = EmptyBag
  BY DEF Carry, EmptyBag, SetToBag, (+)
<1>3. Carry(EmptyBag, {d}) = One(d)
  BY DEF Carry, EmptyBag, SetToBag, (+), One
<1>4. Without(One(d), d) = EmptyBag
  BY DEF Without, EmptyBag, SetToBag, (-), One
<1> QED
  BY <1>1, <1>2, <1>3, <1>4 DEF BagToSet

(* Two blocks in a row do not have the same id.                                *)
LEMMA NextIdDiffers ==
  ASSUME NEW n \in Nat
  PROVE  (n + 1) % IdSpace # n % IdSpace
<1> DEFINE q == n \div IdSpace
           r == (n + 1) \div IdSpace
<1>1. IdSpace \in Nat /\ IdSpace > 1
  BY TransferConstants
<1>2. /\ q \in Nat /\ n % IdSpace \in Nat /\ n = q * IdSpace + (n % IdSpace)
      /\ r \in Nat /\ (n + 1) % IdSpace \in Nat /\ n + 1 = r * IdSpace + ((n + 1) % IdSpace)
  BY <1>1, Division
<1> HIDE DEF q, r
<1>3. ASSUME (n + 1) % IdSpace = n % IdSpace
      PROVE  FALSE
  <2>1. r * IdSpace = q * IdSpace + 1
    BY <1>1, <1>2, <1>3
  <2>2. CASE r <= q
    <3>1. r * IdSpace <= q * IdSpace
      BY <1>1, <1>2, <2>2
    <3> QED
      BY <1>1, <1>2, <2>1, <3>1
  <2>3. CASE r >= q + 1
    <3>1. r * IdSpace >= (q + 1) * IdSpace
      BY <1>1, <1>2, <2>3
    <3>2. (q + 1) * IdSpace = q * IdSpace + IdSpace
      BY <1>1, <1>2
    <3> QED
      BY <1>1, <1>2, <2>1, <3>1, <3>2
  <2> QED
    BY <1>2, <2>2, <2>3
<1> QED
  BY <1>3

(* The reader that the session then makes is on the first block of its file.   *)
LEMMA TimelyBegin ==
  ASSUME Timeliness, NEW opts \in OptionTypes, opts.blksize \in 1..MaxBuffer, BeginData(opts)
  PROVE  /\ pc' = "data" /\ retry' = MaxRetries /\ result' = result
         /\ reader'.m_blksiz > 0 /\ reader'.m_number = 1
<1>1. PICK file_size \in FileSizes :
        /\ reader' = NewReader(opts.tsize, opts.blksize, file_size)
        /\ pc' = "data" /\ retry' = MaxRetries /\ UNCHANGED result
  BY TransferConstants DEF BeginData, Timeliness
<1>2. opts.tsize \in 0..Word-2 /\ opts.blksize \in 0..MaxBuffer /\ file_size \in 0..Word-2
  <2>1. FileSizes \subseteq 0..Word-2 /\ 0 \in 0..Word-2
    BY Constants, TransferConstants
  <2>2. opts.tsize \in FileSizes \cup {0}
    BY DEF OptionTypes
  <2>3. opts.tsize \in 0..Word-2
    BY <2>1, <2>2
  <2>4. opts.blksize \in 0..MaxBuffer
    BY TransferConstants
  <2> QED
    BY <2>1, <2>3, <2>4
<1> QED
  BY <1>1, <1>2, NewReaderIsInFile

(* What is settled stays so.                                                   *)
LEMMA SettledStays ==
  ASSUME SessionInv, Flight, Settled, [TransferNext]_allVars
  PROVE  Settled'
<1>1. /\ stop => stop'
      /\ client = "complete" => client' = "complete"
      /\ lost' >= lost
  <2>0. lost \in Nat
    BY TransferAssumption DEF Flight
  <2>1. CASE SessionStep
    BY <2>0, <2>1, ThreadMoves DEF SessionStep
  <2>2. CASE SessionReceives \/ SessionFails
    BY <2>0, <2>2 DEF SessionReceives, Receive, SessionFails, RecvFails, netVars
  <2>3. CASE SessionIsStopped \/ UNCHANGED allVars
    BY <2>0, <2>3 DEF SessionIsStopped, RequestStop, netVars, allVars, ioVars
  <2>4. CASE ClientStep
    <3>1. UNCHANGED <<stop, lost>>
      BY <2>4 DEF ClientStep, AcceptBlock, AnswerAgain, Discard, Answer, ioVars
    <3>2. client = "complete" => client' = "complete"
      BY <2>4 DEF ClientStep, AcceptBlock, AnswerAgain, Discard
    <3> QED
      BY <2>0, <3>1, <3>2
  <2>5. CASE Resend \/ Lose \/ Duplicate
    BY <2>0, <2>5 DEF Resend, Lose, Duplicate, ioVars
  <2> QED
    BY <2>1, <2>2, <2>3, <2>4, <2>5 DEF TransferNext
<1>2. ASSUME result # "none"
      PROVE  UNCHANGED result
  <2>1. ~Running /\ ~Receiving
    BY <1>2 DEF SessionInv, Receiving, Running, InDataLoop
  <2>2. CASE SessionStep
    BY <2>1, <2>2 DEF SessionStep, StartFails, Refuse, Accept, OackLoopEnds, DataLoopEnds, Send,
       RecvTimesOut, StoreDone, Notify, Running, InDataLoop
  <2>3. CASE SessionReceives \/ SessionFails
    BY <2>1, <2>3 DEF SessionReceives, Receive, SessionFails, RecvFails
  <2>4. CASE SessionIsStopped \/ ClientStep \/ Resend \/ Lose \/ Duplicate \/ UNCHANGED allVars
    BY <2>4 DEF SessionIsStopped, RequestStop, ClientStep, AcceptBlock, AnswerAgain, Discard,
       Answer, Resend, Lose, Duplicate, allVars, ioVars
  <2> QED
    BY <2>2, <2>3, <2>4 DEF TransferNext
<1>3. MaxRetries \in Nat /\ lost \in Nat /\ lost' \in Nat
  <2>1. lost \in Nat
    BY TransferAssumption DEF Flight
  <2> QED
    BY Constants, TransferAssumption, FlightStep DEF Flight
<1> QED
  BY <1>1, <1>2, <1>3 DEF Settled

(* A step of the thread: it sends the one datagram that is due, ends by a stop *)
(* or for want of retries, or times out because that datagram was lost.        *)
LEMMA TimelyThread ==
  ASSUME Timeliness, SessionInv, Flight, InTime, SessionStep
  PROVE  Fate'
<1>1. /\ UNCHANGED <<got, client, lost, stop>>
      /\ net' = Carry(net, sent')
      /\ retry \in 0..MaxRetries /\ options \in OptionTypes /\ request \in Requests
      /\ MaxRetries \in Nat /\ lost \in Nat
  BY ThreadMoves, Constants, TransferAssumption
  DEF SessionStep, SessionInv, TypeOK, OptionTypes, Flight
<1>2. client = "waiting" /\ pc \in {"start", "oack", "oack_recv", "data", "data_recv"}
  BY DEF InTime, Negotiating, Transferring
<1>3. ~Faulty /\ ~StartFails /\ ~StoreDone /\ ~Notify
  BY <1>2 DEF Timeliness, StartFails, StoreDone, Notify
<1>4. CASE Refuse
  BY <1>1, <1>4 DEF Refuse, Refusal, Timeliness
<1>5. CASE Accept
  <2> DEFINE opts(size) == [blksize |-> Requested("blksize", DefaultBlksize),
                            timeout |-> Requested("timeout", 1), tsize |-> size]
  <2>1. pc = "start" /\ net = EmptyBag /\ got = <<>> /\ sent' = {}
    BY <1>5 DEF Accept, InTime, Negotiating, Transferring
  <2>2. net' = EmptyBag /\ got' = <<>> /\ Len(got') = 0
    BY <1>1, <2>1, OneDatagram
  <2>3. /\ Requested("blksize", DefaultBlksize) \in 1..MaxBuffer
        /\ Requested("timeout", 1) # Garbage
    BY <1>1, SessionAssumption DEF Timeliness, Requested
  <2>4. PICK size \in FileSizes :
          \/ /\ DOMAIN request.options = {}
             /\ BeginData(opts(size))
          \/ /\ options' = opts(size)
             /\ pc' = "oack" /\ retry' = MaxRetries
    BY <1>5, <2>3, SessionAssumption, TransferConstants DEF Accept
  <2>5. CASE DOMAIN request.options = {} /\ BeginData(opts(size))
    <3>1. opts(size) \in OptionTypes
      BY <2>3, <2>5, TransferConstants DEF OptionTypes, Requested
    <3>2. /\ pc' = "data" /\ retry' = MaxRetries
          /\ reader'.m_blksiz > 0 /\ reader'.m_number = 1
      BY <2>3, <2>5, <3>1, TimelyBegin
    <3> QED
      BY <1>1, <1>2, <2>2, <3>2 DEF Fate, InTime, Transferring, Spent
  <2>6. CASE options' = opts(size) /\ pc' = "oack" /\ retry' = MaxRetries
    <3>1. options'.blksize \in 1..MaxBuffer
      BY <2>3, <2>6
    <3> QED
      BY <1>1, <1>2, <2>2, <2>6, <3>1 DEF Fate, InTime, Negotiating, Spent
  <2> QED
    BY <2>4, <2>5, <2>6
<1>6. CASE OackLoopEnds
  <2>1. retry = 0 => result' = "error" /\ Spent(1)
    BY <1>6 DEF OackLoopEnds, Leave, InTime, Negotiating, Transferring
  <2>2. retry # 0 => stop'
    BY <1>1, <1>6 DEF OackLoopEnds
  <2> QED
    BY <1>1, <2>1, <2>2 DEF Fate, Settled, Spent
<1>7. CASE DataLoopEnds
  <2>1. retry = 0 => result' = "error" /\ Spent(1)
    BY <1>7 DEF DataLoopEnds, Leave, InTime, Negotiating, Transferring
  <2>2. retry # 0 => stop'
    BY <1>1, <1>7 DEF DataLoopEnds
  <2> QED
    BY <1>1, <2>1, <2>2 DEF Fate, Settled, Spent
<1>8. CASE Send
  <2>1. UNCHANGED <<retry, reader, options>>
    BY <1>3, <1>8 DEF Send
  <2>2. CASE pc = "oack"
    <3>1. Negotiating /\ net = EmptyBag /\ Spent(1)
      BY <2>2 DEF InTime, Negotiating, Transferring
    <3>2. pc' = "oack_recv" /\ net' = One(Oack)
      BY <1>1, <1>3, <1>8, <2>2, <3>1, OneDatagram DEF Send
    <3> QED
      BY <1>1, <1>2, <2>1, <3>1, <3>2 DEF Fate, InTime, Negotiating, Spent
  <2>3. CASE pc = "data"
    <3>1. Transferring /\ net = EmptyBag /\ Spent(1)
      BY <2>3 DEF InTime, Negotiating, Transferring
    <3>2. pc' = "data_recv" /\ net' = One(Data(reader)) /\ Data(reader) = Data(reader')
      BY <1>1, <1>3, <1>8, <2>1, <2>3, <3>1, OneDatagram DEF Send
    <3> QED
      BY <1>1, <1>2, <2>1, <3>1, <3>2 DEF Fate, InTime, Transferring, Spent
  <2> QED
    BY <1>8, <2>2, <2>3 DEF Send
<1>9. CASE MayTimeOut /\ RecvTimesOut
  <2>1. /\ net = EmptyBag /\ sent' = {} /\ Receiving
        /\ retry' = retry - 1 /\ UNCHANGED <<reader, options>>
    BY <1>9 DEF MayTimeOut, Timeliness, RecvTimesOut, TryAgain
  <2>2. net' = EmptyBag /\ retry > 0
    BY <1>1, <2>1, OneDatagram DEF SessionInv
  <2>3. Oack \in {Oack} /\ EmptyBag # One(Oack) /\ EmptyBag # One(Ack(0))
        /\ EmptyBag # One(Data(reader)) /\ EmptyBag # One(Ack(reader.m_number % IdSpace))
    BY OneDatagram
  <2>4. CASE pc = "oack_recv"
    <3>1. Negotiating /\ Spent(0)
      BY <2>1, <2>3, <2>4 DEF InTime, Negotiating, Transferring
    <3>2. pc' = "oack"
      BY <1>9, <2>4 DEF RecvTimesOut, TryAgain
    <3> QED
      BY <1>1, <1>2, <2>1, <2>2, <3>1, <3>2 DEF Fate, InTime, Negotiating, Spent
  <2>5. CASE pc = "data_recv"
    <3>1. Transferring /\ Spent(0)
      BY <2>1, <2>3, <2>5 DEF InTime, Negotiating, Transferring
    <3>2. pc' = "data"
      BY <1>9, <2>5 DEF RecvTimesOut, TryAgain
    <3> QED
      BY <1>1, <1>2, <2>1, <2>2, <3>1, <3>2 DEF Fate, InTime, Transferring, Spent
  <2> QED
    BY <2>1, <2>4, <2>5 DEF Receiving
<1> QED
  BY <1>3, <1>4, <1>5, <1>6, <1>7, <1>8, <1>9 DEF SessionStep

(* A receive: the datagram is the awaited acknowledgement.                     *)
LEMMA TimelyReceipt ==
  ASSUME Timeliness, SessionInv, Flight, InTime, SessionReceives
  PROVE  Fate'
<1>1. PICK d \in BagToSet(net) :
        /\ d.to = "session"
        /\ Receive(Client, d.packet)
        /\ net' = Carry(Without(net, d), sent')
        /\ UNCHANGED <<got, client, lost>>
  BY DEF SessionReceives
<1>2. /\ Judge(d.packet, {}) /\ Receiving /\ UNCHANGED <<options, stop>>
      /\ retry \in 0..MaxRetries /\ options \in OptionTypes
      /\ MaxRetries \in Nat /\ lost \in Nat
  BY <1>1, Constants, TransferAssumption DEF Receive, SessionInv, TypeOK, OptionTypes, Flight
<1>3. Oack.to # "session" /\ Data(reader).to # "session"
  BY DEF Oack, Data, Datagram, Client
<1>4. CASE pc = "oack_recv"
  <2>1. Negotiating /\ d = Ack(0) /\ net = One(d)
    <3>1. Negotiating /\ net # EmptyBag
      BY <1>1, <1>4, OneDatagram DEF InTime, Negotiating, Transferring
    <3>2. net = One(Oack) \/ net = One(Ack(0))
      BY <1>4, <3>1 DEF Negotiating
    <3>3. BagToSet(One(Oack)) = {Oack} /\ BagToSet(One(Ack(0))) = {Ack(0)}
      BY OneDatagram
    <3> QED
      BY <1>1, <1>3, <3>1, <3>2, <3>3
  <2>2. d.packet = Packet("ack", AwaitedNumber % IdSpace) /\ d.packet.kind = "ack"
    BY <1>4, <2>1, TransferConstants DEF AwaitedNumber, Ack, Packet
  <2>3. Acknowledged /\ sent' = {}
    BY <1>2, <2>2 DEF Judge
  <2>4. BeginData(options) /\ options.blksize \in 1..MaxBuffer
    BY <1>4, <2>1, <2>3 DEF Acknowledged, Negotiating
  <2>5. /\ pc' = "data" /\ retry' = MaxRetries
        /\ reader'.m_blksiz > 0 /\ reader'.m_number = 1
    BY <1>2, <2>4, TimelyBegin
  <2>6. net' = EmptyBag /\ Len(got') = 0
    BY <1>1, <2>1, <2>3, OneDatagram DEF Negotiating
  <2> QED
    BY <1>1, <1>2, <2>5, <2>6 DEF Fate, InTime, Transferring, Spent
<1>5. CASE pc = "data_recv"
  <2>1. Transferring /\ d = Ack(reader.m_number % IdSpace) /\ net = One(d) /\ Len(got) = reader.m_number
    <3> DEFINE next == Ack(reader.m_number % IdSpace)
    <3>1. Transferring /\ net # EmptyBag
      BY <1>1, <1>5, OneDatagram DEF InTime, Negotiating, Transferring
    <3>2. net = One(Data(reader)) \/ (net = One(next) /\ Len(got) = reader.m_number)
      BY <1>5, <3>1 DEF Transferring
    <3>3. BagToSet(One(Data(reader))) = {Data(reader)} /\ BagToSet(One(next)) = {next}
      BY OneDatagram
    <3> QED
      BY <1>1, <1>3, <3>1, <3>2, <3>3
  <2>2. d.packet = Packet("ack", AwaitedNumber % IdSpace) /\ d.packet.kind = "ack"
    BY <1>5, <2>1 DEF AwaitedNumber, Ack, Packet
  <2>3. Acknowledged /\ sent' = {}
    BY <1>2, <2>2 DEF Judge
  <2>4. CASE IsLast(reader)
    BY <1>5, <2>3, <2>4 DEF Acknowledged, Leave, Fate, Settled
  <2>5. CASE ~IsLast(reader)
    <3>1. retry' = MaxRetries - 1 /\ reader' = NextBlock(reader) /\ pc' = "data"
      BY <1>5, <2>3, <2>5 DEF Acknowledged
    <3>2. /\ reader \in Readers /\ reader.m_length \in 0..Word-2
          /\ reader.m_blksiz > 0 /\ InBounds(reader)
      BY <1>5, <2>1 DEF SessionInv, TypeOK, InDataLoop, ReaderInFile, Transferring
    <3>3. reader'.m_number = reader.m_number + 1 /\ reader'.m_blksiz = reader.m_blksiz
      BY <2>5, <3>1, <3>2, NextBlockIsReader, NextBlockIsInFile
    <3>4. net' = EmptyBag
      BY <1>1, <2>1, <2>3, OneDatagram
    <3>5. reader.m_number \in Nat /\ reader.m_number > 0
      BY <2>1, <3>2 DEF Readers, Transferring
    <3>6. Len(got') \in {reader'.m_number - 1, reader'.m_number}
      BY <1>1, <2>1, <3>3, <3>5
    <3> QED
      BY <1>1, <1>2, <3>1, <3>2, <3>3, <3>4, <3>5, <3>6 DEF Fate, InTime, Transferring, Spent
  <2> QED
    BY <2>4, <2>5
<1> QED
  BY <1>2, <1>4, <1>5 DEF Receiving

(* The client answers what it is sent: it is waiting for that block, or has it *)
(* and its acknowledgement was lost.                                           *)
LEMMA TimelyClient ==
  ASSUME Timeliness, SessionInv, Flight, InTime, ClientStep
  PROVE  Fate'
<1>1. UNCHANGED <<pc, options, retry, reader, lost>> /\ client = "waiting"
  BY DEF ClientStep, AcceptBlock, AnswerAgain, Discard, Answer, ioVars, InTime
<1>2. PICK d \in BagToSet(net) : d.to = Client
  BY DEF ClientStep, AcceptBlock, AnswerAgain, Discard
<1>3. \A id : Ack(id).to # Client
  BY DEF Ack, Client
<1>4. CASE Negotiating
  <2>1. pc = "oack_recv" /\ net = One(Oack) /\ Spent(1) /\ got = <<>> /\ options.blksize \in 1..MaxBuffer
    <3>1. net # EmptyBag /\ BagToSet(One(Ack(0))) = {Ack(0)}
      BY <1>2, OneDatagram
    <3>2. net # One(Ack(0))
      BY <1>2, <1>3, <3>1
    <3> QED
      BY <1>4, <3>1, <3>2 DEF Negotiating
  <2>2. BagToSet(net) = {Oack} /\ Oack.packet.kind = "oack"
    BY <2>1, OneDatagram DEF Oack, Datagram, Packet
  <2>3. Answer(Oack, {Ack(0)}) /\ UNCHANGED <<got, client>>
    BY <1>1, <2>1, <2>2 DEF ClientStep, AcceptBlock, AnswerAgain, Discard
  <2>4. net' = One(Ack(0))
    BY <2>1, <2>3, OneDatagram DEF Answer
  <2> QED
    BY <1>1, <2>1, <2>3, <2>4 DEF Fate, InTime, Negotiating, Spent
<1>5. CASE Transferring
  <2>1. pc = "data_recv" /\ net = One(Data(reader)) /\ Spent(1)
    <3> DEFINE ack == Ack(reader.m_number % IdSpace)
    <3>1. net # EmptyBag /\ BagToSet(One(ack)) = {ack}
      BY <1>2, OneDatagram
    <3>2. net # One(ack)
      BY <1>2, <1>3, <3>1
    <3> QED
      BY <1>5, <3>1, <3>2 DEF Transferring
  <2>2. /\ BagToSet(net) = {Data(reader)} /\ Data(reader).packet.kind = "data"
        /\ Data(reader).packet.id = reader.m_number % IdSpace
    <3>1. BagToSet(net) = {Data(reader)}
      BY <2>1, OneDatagram
    <3> QED
      BY <3>1 DEF Data, Datagram
  <2>3. /\ reader.m_number \in Nat /\ reader.m_number > 0 /\ Len(got) \in Nat
        /\ Len(got) \in {reader.m_number - 1, reader.m_number}
        /\ got \in Seq([number : Nat, size : 0..MaxBuffer])
    BY <1>5 DEF Transferring, SessionInv, TypeOK, Readers, Flight
  <2>4. CASE Len(got) = reader.m_number
    <3>1. got # <<>> /\ reader.m_number % IdSpace # (Len(got) + 1) % IdSpace
      BY <2>3, <2>4, NextIdDiffers
    <3>2. Answer(Data(reader), {Ack(reader.m_number % IdSpace)}) /\ UNCHANGED <<got, client>>
      BY <1>1, <2>2, <2>4, <3>1 DEF ClientStep, AcceptBlock, AnswerAgain, Discard
    <3>3. net' = One(Ack(reader.m_number % IdSpace))
      BY <2>1, <3>2, OneDatagram DEF Answer
    <3> QED
      BY <1>1, <1>5, <2>1, <2>4, <3>2, <3>3 DEF Fate, InTime, Transferring, Spent
  <2>5. CASE Len(got) = reader.m_number - 1
    <3>1. (Len(got) + 1) % IdSpace = reader.m_number % IdSpace /\ Len(got) + 1 = reader.m_number
      BY <2>3, <2>5
    <3>2. Len(got) % IdSpace # reader.m_number % IdSpace
      BY <2>3, <3>1, NextIdDiffers
    <3>3. /\ got' = Append(got, [number |-> Data(reader).packet.number, size |-> Data(reader).packet.size])
          /\ client' \in {"complete", client}
          /\ Answer(Data(reader), {Ack(reader.m_number % IdSpace)})
      BY <1>1, <2>2, <3>1, <3>2 DEF ClientStep, AcceptBlock, AnswerAgain, Discard
    <3>4. net' = One(Ack(reader.m_number % IdSpace))
      BY <2>1, <3>3, OneDatagram DEF Answer
    <3>5. Len(got') = reader.m_number
      BY <2>3, <3>1, <3>3
    <3> QED
      BY <1>1, <1>5, <2>1, <3>3, <3>4, <3>5 DEF Fate, Settled, InTime, Transferring, Spent
  <2> QED
    BY <2>3, <2>4, <2>5
<1>6. ~(pc = "start" /\ net = EmptyBag)
  BY <1>2, OneDatagram
<1> QED
  BY <1>4, <1>5, <1>6 DEF InTime

(* A loss is what a retry is for.                                              *)
LEMMA TimelyLoss ==
  ASSUME Timeliness, SessionInv, Flight, InTime, Lose
  PROVE  Fate'
<1>1. PICK d \in BagToSet(net) : net' = Without(net, d)
  BY DEF Lose
<1>2. /\ lost' = lost + 1 /\ UNCHANGED <<pc, options, retry, reader, got, client>>
      /\ retry \in 0..MaxRetries /\ MaxRetries \in Nat /\ lost \in Nat
  BY Constants, TransferAssumption DEF Lose, ioVars, SessionInv, TypeOK, Flight
<1>3. /\ pc \in {"oack_recv", "data_recv"} /\ Spent(1) /\ net = One(d)
  BY <1>1, OneDatagram DEF InTime, Negotiating, Transferring
<1>4. net' = EmptyBag
  BY <1>1, <1>3, OneDatagram
<1>5. Spent(0)'
  BY <1>2, <1>3 DEF Spent
<1>6. CASE Negotiating
  BY <1>2, <1>3, <1>4, <1>5, <1>6 DEF Fate, InTime, Negotiating, Transferring
<1>7. CASE Transferring
  BY <1>2, <1>3, <1>4, <1>5, <1>7 DEF Fate, InTime, Negotiating, Transferring
<1> QED
  BY <1>3, <1>6, <1>7 DEF InTime

(* Every step keeps the fate of the transfer in the hands of the losses.       *)
LEMMA FateStep ==
  Timeliness /\ SessionInv /\ Flight /\ Fate /\ [TransferNext]_allVars => Fate'
<1> SUFFICES ASSUME Timeliness, SessionInv, Flight, Fate, [TransferNext]_allVars
             PROVE  Fate'
  OBVIOUS
<1>1. CASE Settled
  BY <1>1, SettledStays DEF Fate
<1>2. CASE InTime /\ UNCHANGED allVars
  BY <1>2 DEF allVars, ioVars, netVars, Fate, InTime, Negotiating, Transferring, Spent
<1>3. CASE InTime /\ SessionIsStopped
  BY <1>3 DEF SessionIsStopped, RequestStop, Fate, Settled
<1>4. ~SessionFails /\ ~Resend /\ ~Duplicate
  BY DEF Timeliness, SessionFails, RecvFails, Resend, Duplicate, Flight
<1> QED
  BY <1>1, <1>2, <1>3, <1>4, TimelyThread, TimelyReceipt, TimelyClient, TimelyLoss
  DEF Fate, TransferNext

(* On a network that is in time, a session fails a client that still needs it  *)
(* only when as many datagrams were lost as the retries can make up for: it is *)
(* never confused by an answer, and this for files of any length, although the *)
(* block ids wrap.                                                             *)
THEOREM LossesFailTransfer == ASSUME Timeliness PROVE TransferSpec => []FailsOnlyByLoss
<1>1. TransferInit => Fate
  BY DEF TransferInit, Init, Fate, InTime
<1>2. SessionInv /\ Flight /\ Fate /\ [TransferNext]_allVars => Fate'
  BY FateStep
<1>3. SessionInv /\ Fate => FailsOnlyByLoss
  BY DEF Fate, Settled, InTime, Negotiating, Transferring, FailsOnlyByLoss, SessionInv, Running, InDataLoop
<1> QED
  BY <1>1, <1>2, <1>3, FlightAlways, PTL DEF TransferSpec
=============================================================================
