----------------------------- MODULE TftpSession -----------------------------
(* One read session (bootpd/tftp_session_v4.cpp): the thread that answers an   *)
(* RRQ, from the check of the request to session_notify. The network is the    *)
(* environment: any datagram may arrive from anybody at any time, a call of    *)
(* the socket may time out or fail, and the session may be asked to stop.      *)
(*                                                                             *)
(* A step is what the thread does between two blocking calls: `sent` is the    *)
(* set of datagrams a step puts on the wire.                                   *)
EXTENDS TftpReader, FiniteSets

CONSTANTS
  Requests,       \* the RRQs: [xfermode, path, options], see RequestAssumption
  FileSizes,      \* what file_size may return
  Strangers,      \* the addresses that are not the client's
  Garbage,        \* an option value std::stoull rejects
  MaxRetries,     \* MAX_RETRIES: 10
  IdSpace,        \* the number of block ids: 65536
  DefaultBlksize, \* 512
  Milliseconds,   \* in a second: 1000
  Dword,          \* the receive timeout is kept in a uint32_t: 2^32
  Faulty          \* whether calls of the socket and the file system may fail

Client == "client"
Senders == {Client} \cup Strangers

(* options is the dictionary of the RRQ: a function on the names it has. *)
RequestAssumption ==
  \A r \in Requests :
    /\ r.xfermode \in {"octet", "netascii", "unknown"}
    /\ r.path \in {"regular", "missing", "directory"}
    /\ DOMAIN r.options \subseteq {"blksize", "timeout", "tsize", "other"}
    /\ \A name \in DOMAIN r.options :
         r.options[name] \in (0..Word-1) \cup {Garbage}

ASSUME SessionAssumption ==
  /\ RequestAssumption
  /\ FileSizes \subseteq 0..Word-2
  /\ Client \notin Strangers
  /\ Garbage \notin Nat
  /\ MaxRetries \in Nat \ {0, 1}
  /\ IdSpace \in Nat \ {0, 1}
  /\ DefaultBlksize \in 1..MaxBuffer
  /\ Milliseconds \in Nat \ {0}
  /\ Dword \in Nat
  /\ Milliseconds < Dword
  /\ Faulty \in BOOLEAN

VARIABLES
  pc,       \* where io_thread is: see Places
  request,  \* request_v
  options,  \* options_v
  retry,    \* retry_counter_v of the loop io_thread is in
  reader,   \* reader_v
  stop,     \* token_v.stop_requested()
  result,   \* how the try block ended: "none" yet, "finished", "error"
  m_done,
  sent

ioVars == <<pc, request, options, retry, reader, stop, result, m_done, sent>>

-----------------------------------------------------------------------------
(* Datagrams *)

Packet(kind, id) == [kind |-> kind, id |-> id]

(* What the parser makes of a received datagram: "other" is every packet that  *)
(* is neither ACK nor ERROR, "malformed" one the parser throws on.             *)
Incoming ==
  {Packet("ack", id) : id \in 0..IdSpace-1}
    \cup {Packet(kind, 0) : kind \in {"error", "other", "malformed"}}

Datagram(to, packet) == [to |-> to, packet |-> packet]

IllegalOperation == Datagram(Client, Packet("illegal_operation", 0))
UnknownTransferId(stranger) ==
  Datagram(stranger, Packet("unknown_transfer_id", 0))
FileNotFound == Datagram(Client, Packet("file_not_found", 0))
TimedOut == Datagram(Client, Packet("undefined", 0))
Oack == Datagram(Client, Packet("oack", 0))

(* Mutant of Data: a block id of more than 16 bits. *)
DataUnmasked(r) == Datagram(Client, [kind |-> "data", id |-> r.m_number,
                                     number |-> r.m_number, size |-> r.size])

(* reader_v.data(): the id, and the range of the file the block carries. *)
Data(r) == Datagram(Client, [kind |-> "data", id |-> r.m_number % IdSpace,
                             number |-> r.m_number, size |-> r.size])

-----------------------------------------------------------------------------
(* "start" is up to validate_options; "oack" and "data" are the tests of the   *)
(* two retry loops, "oack_recv" and "data_recv" their socket_v.recv; "leave"   *)
(* is past the try block, "notify" past m_done.store(true).                    *)
Places == {"start", "oack", "oack_recv", "data", "data_recv",
           "leave", "notify", "exited"}

NoReader == [m_length |-> 0, m_blksiz |-> 0, m_number |-> 0, size |-> 0]

Init ==
  /\ pc = "start"
  /\ request \in Requests
  /\ options = [blksize |-> DefaultBlksize, timeout |-> 1, tsize |-> 0]
  /\ retry = MaxRetries
  /\ reader = NoReader
  /\ stop = FALSE
  /\ result = "none"
  /\ m_done = FALSE
  /\ sent = {}

(* The try block ends, by its last statement or by an exception.               *)
Leave(how) ==
  /\ pc' = "leave"
  /\ result' = how

(* socket_v.timeout(1s * opts.timeout) and reader_v. The vector of the reader  *)
(* may be too long to allocate, the file be gone, or have grown since tsize    *)
(* was read. Then the data loop begins.                                        *)
BeginData(opts) ==
  \/ /\ opts.blksize <= MaxBuffer
     /\ \E file_size \in FileSizes :
          reader' = NewReader(opts.tsize, opts.blksize, file_size)
     /\ pc' = "data"
     /\ retry' = MaxRetries
     /\ UNCHANGED result
  \/ /\ Faulty \/ opts.blksize > MaxBuffer
     /\ Leave("error")
     /\ UNCHANGED <<reader, retry>>

(* What a send that may throw puts on the wire. *)
Sending(datagrams) == {datagrams} \cup IF Faulty THEN {{}} ELSE {}

(* The timeouts, in seconds, whose milliseconds are 0 in a uint32_t: with such *)
(* a timeout, and not only with 0, socket_v.recv waits for ever.               *)
ForEver == {t \in 0..Word-1 : (t * Milliseconds) % Dword = 0}

-----------------------------------------------------------------------------
(* validate_request and validate_filepath *)

Refusal ==
  CASE request.xfermode = "unknown" -> {IllegalOperation}
    [] request.xfermode # "unknown" /\ request.path # "regular" -> {FileNotFound}
    [] OTHER -> {}

(* make_udp, exists or file_size throws. *)
StartFails ==
  /\ Faulty
  /\ pc = "start"
  /\ Leave("error")
  /\ sent' = {}
  /\ UNCHANGED <<request, options, retry, reader, stop, m_done>>

(* The refusal is sent, unless its send throws. *)
Refuse ==
  /\ pc = "start"
  /\ Refusal # {}
  /\ Leave("error")
  /\ sent' \in Sending(Refusal)
  /\ UNCHANGED <<request, options, retry, reader, stop, m_done>>

-----------------------------------------------------------------------------
(* validate_options *)

Requested(name, default) ==
  IF name \in DOMAIN request.options THEN request.options[name] ELSE default

Accept ==
  /\ pc = "start"
  /\ Refusal = {}
  /\ \E size \in FileSizes :
       LET opts == [blksize |-> Requested("blksize", DefaultBlksize),
                    timeout |-> Requested("timeout", 1), tsize |-> size]
       IN \/ /\ DOMAIN request.options = {}
             /\ options' = opts
             /\ BeginData(opts)
          \/ /\ DOMAIN request.options # {}
             /\ Garbage \in {opts.blksize, opts.timeout}
             /\ Leave("error")
             /\ UNCHANGED <<options, retry, reader>>
          \/ /\ DOMAIN request.options # {}
             /\ Garbage \notin {opts.blksize, opts.timeout}
             /\ options' = opts
             /\ pc' = "oack"
             /\ retry' = MaxRetries
             /\ UNCHANGED <<reader, result>>
  /\ sent' = {}
  /\ UNCHANGED <<request, stop, m_done>>

(* The OACK loop ends without an answer. *)
OackLoopEnds ==
  /\ pc = "oack"
  /\ \/ /\ retry = 0
        /\ Leave("error")
        /\ sent' \in Sending({TimedOut})
        /\ UNCHANGED <<reader, retry>>
     \/ /\ retry > 0
        /\ stop
        /\ BeginData(options)
        /\ sent' = {}
  /\ UNCHANGED <<request, options, stop, m_done>>

-----------------------------------------------------------------------------
(* The data loop ends at its test. *)
DataLoopEnds ==
  /\ pc = "data"
  /\ \/ retry = 0 /\ Leave("error")
     \/ retry > 0 /\ stop /\ Leave("finished")
  /\ sent' = {}
  /\ UNCHANGED <<request, options, retry, reader, stop, m_done>>

-----------------------------------------------------------------------------
(* Both loops: send, receive, judge the answer.                                *)

AwaitedNumber == IF pc = "oack_recv" THEN 0 ELSE reader.m_number

(* Mutants of TryAgain: a timeout that is not counted; one that ends the loop. *)
TryForEver ==
  /\ pc' = IF pc \in {"oack", "oack_recv"} THEN "oack" ELSE "data"
  /\ UNCHANGED <<retry, reader, result>>

TryOnce == Leave("error") /\ UNCHANGED <<retry, reader>>

(* error_socket_timed_out: `continue`, which counts the retry down. *)
TryAgain ==
  /\ pc' = IF pc \in {"oack", "oack_recv"} THEN "oack" ELSE "data"
  /\ retry' = retry - 1
  /\ UNCHANGED <<reader, result>>

GiveUp == Leave("error") /\ UNCHANGED <<retry, reader>>

(* Mutant of Acknowledged: `retry_counter_v = MAX_RETRIES` left out. *)
AcknowledgedCounts ==
  \/ pc = "oack_recv" /\ BeginData(options)
  \/ /\ pc = "data_recv"
     /\ IsLast(reader)
     /\ Leave("finished")
     /\ UNCHANGED <<retry, reader>>
  \/ /\ pc = "data_recv"
     /\ ~IsLast(reader)
     /\ retry' = retry - 1
     /\ reader' = NextBlock(reader)
     /\ pc' = "data"
     /\ UNCHANGED result

(* The answer is the awaited ACK. After the last block `break` ends the loop;  *)
(* otherwise the counter, just reset, is counted down on the way to its test.  *)
Acknowledged ==
  \/ pc = "oack_recv" /\ BeginData(options)
  \/ /\ pc = "data_recv"
     /\ IsLast(reader)
     /\ retry' = MaxRetries
     /\ Leave("finished")
     /\ UNCHANGED reader
  \/ /\ pc = "data_recv"
     /\ ~IsLast(reader)
     /\ retry' = MaxRetries - 1
     /\ reader' = NextBlock(reader)
     /\ pc' = "data"
     /\ UNCHANGED result

(* Mutants of Send: a loop that does not test the retries, or the stop.        *)
SendUncounted ==
  /\ pc \in {"oack", "data"}
  /\ ~stop
  /\ sent' = {IF pc = "oack" THEN Oack ELSE Data(reader)}
  /\ pc' = IF pc = "oack" THEN "oack_recv" ELSE "data_recv"
  /\ UNCHANGED <<request, options, retry, reader, stop, result, m_done>>

SendUnstopped ==
  /\ pc \in {"oack", "data"}
  /\ retry > 0
  /\ sent' = {IF pc = "oack" THEN Oack ELSE Data(reader)}
  /\ pc' = IF pc = "oack" THEN "oack_recv" ELSE "data_recv"
  /\ UNCHANGED <<request, options, retry, reader, stop, result, m_done>>

Send ==
  /\ pc \in {"oack", "data"}
  /\ ~stop
  /\ retry > 0
  /\ \/ /\ sent' = {IF pc = "oack" THEN Oack ELSE Data(reader)}
        /\ pc' = IF pc = "oack" THEN "oack_recv" ELSE "data_recv"
        /\ UNCHANGED <<retry, reader, result>>
     \/ Faulty /\ sent' = {} /\ (TryAgain \/ GiveUp)
  /\ UNCHANGED <<request, options, stop, m_done>>

Receiving == pc \in {"oack_recv", "data_recv"}

RecvTimesOut ==
  /\ Receiving
  /\ pc = "data_recv" => options.timeout \notin ForEver
  /\ TryAgain
  /\ sent' = {}
  /\ UNCHANGED <<request, options, stop, m_done>>

(* An error of the socket, or an empty datagram. *)
RecvFails ==
  /\ Faulty
  /\ Receiving
  /\ GiveUp
  /\ sent' = {}
  /\ UNCHANGED <<request, options, stop, m_done>>

(* Mutant of Judge: the block id of an ACK is not compared. *)
JudgeAnyAck(packet, warning) ==
  \/ packet.kind = "ack" /\ Acknowledged /\ sent' = warning
  \/ packet.kind # "ack" /\ GiveUp /\ sent' = warning

(* validate_ack *)
Judge(packet, warning) ==
  LET wanted == Packet("ack", AwaitedNumber % IdSpace) IN
  \/ packet = wanted /\ Acknowledged /\ sent' = warning
  \/ /\ packet.kind \in {"error", "malformed"}
     /\ GiveUp
     /\ sent' = warning
  \/ /\ packet # wanted
     /\ packet.kind \in {"ack", "other"}
     /\ \/ GiveUp /\ sent' = warning \cup {IllegalOperation}
        \/ Faulty /\ sent' = warning /\ (TryAgain \/ GiveUp)

(* recv returns a packet. validate_source warns a stranger and lets the packet *)
(* through; any of the sends may throw, and then TryAgain or GiveUp.           *)
Receive(from, packet) ==
  /\ Receiving
  /\ \/ from = Client /\ Judge(packet, {})
     \/ from # Client /\ Judge(packet, {UnknownTransferId(from)})
     \/ Faulty /\ from # Client /\ sent' = {} /\ (TryAgain \/ GiveUp)
  /\ UNCHANGED <<request, options, stop, m_done>>

-----------------------------------------------------------------------------
(* The end of io_thread *)

StoreDone ==
  /\ pc = "leave"
  /\ m_done' = TRUE
  /\ pc' = "notify"
  /\ sent' = {}
  /\ UNCHANGED <<request, options, retry, reader, stop, result>>

Notify ==
  /\ pc = "notify"
  /\ pc' = "exited"
  /\ sent' = {}
  /\ UNCHANGED <<request, options, retry, reader, stop, result, m_done>>

(* The destructor of the session, in another thread: ~jthread. *)
RequestStop ==
  /\ ~stop
  /\ stop' = TRUE
  /\ sent' = {}
  /\ UNCHANGED <<pc, request, options, retry, reader, result, m_done>>

(* The thread goes on by itself, but for a datagram or an error to arrive. *)
ThreadStep ==
  \/ StartFails \/ Refuse \/ Accept \/ OackLoopEnds \/ DataLoopEnds
  \/ Send \/ RecvTimesOut \/ StoreDone \/ Notify

Next ==
  \/ ThreadStep
  \/ RecvFails
  \/ \E from \in Senders, packet \in Incoming : Receive(from, packet)
  \/ RequestStop

Spec == Init /\ [][Next]_ioVars

(* The thread is scheduled, and a receive timeout expires if it is not 0;     *)
(* nobody has to send anything.                                               *)
Fairness == WF_ioVars(ThreadStep)

FairSpec == Spec /\ Fairness

-----------------------------------------------------------------------------
(* Properties *)

TypeOK ==
  /\ pc \in Places
  /\ request \in Requests
  /\ options \in [blksize : 0..Word-1, timeout : 0..Word-1, tsize : FileSizes \cup {0}]
  /\ retry \in 0..MaxRetries
  /\ reader \in Readers
  /\ stop \in BOOLEAN
  /\ result \in {"none", "finished", "error"}
  /\ m_done \in BOOLEAN
  /\ \A d \in sent : d.to \in Senders

(* Throughout the data loop the reader stands on a block of the file, so that  *)
(* the unsigned m_length - offset of tftp_reader::next never wraps around.     *)
(* A block size of 0 makes every block empty and none the last.                *)
ReaderInFile ==
  pc \in {"data", "data_recv"} /\ reader.m_blksiz > 0 => InBounds(reader)

(* "Finished sending" (tftp_session_v4.cpp:66) is logged for a transfer that   *)
(* was not stopped only when the blocks sent add up to the whole file.         *)
FinishedMeansWholeFile ==
  result = "finished" /\ ~stop =>
    (reader.m_number - 1) * reader.m_blksiz + reader.size = reader.m_length

(* The session never outlives its retries: with a block size and a receive     *)
(* timeout that are not 0, whatever arrives and whoever sends it, the thread   *)
(* reaches session_notify and returns.                                         *)
EndsUnlessUnbounded ==
  <>(pc = "exited" \/ options.blksize = 0 \/ options.timeout \in ForEver)

(* ~jthread can join: a session that was asked to stop ends, even one whose    *)
(* block size is 0, unless it waits in a receive that has no timeout.          *)
StopIsHeeded == stop ~> pc = "exited" \/ options.timeout \in ForEver
=============================================================================
