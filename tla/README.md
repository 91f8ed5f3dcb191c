# bootpd in TLA+

A verification development for **bootpd**, a DHCP/BOOTP and TFTP server for
network booting (C++20, Windows sockets, about 4500 lines in `bootpd/` and
`common/`). The repository has no tests; its documentation is a paragraph of
README and the comments of `example/config.ini`. The code itself is the
reference, and every definition below names, in `PROJECT.json` under `map`,
the lines it stands for.

Run everything from this directory:

    tlasany M.tla                        parse a module
    tlc -workers 2 -config X.cfg M       model-check it
    tlapm M.tla                          check its proofs

## The system

### How the parts interact

`main` (`bootpd/main.cpp`) reads the command line and the configuration,
constructs a `dhcp_server_v4` and a `tftp_server_v4`, starts both, and sleeps
until Control+C. The destructors of the servers then stop their threads and
join them.

Each server has two threads, both `std::jthread`. The *receiver* waits in
`recv` with a timeout of 500 ms, parses a datagram and pushes it into a
`concurrent_queue`. The *responder* blocks in `pop` with its stop token and
handles one event at a time. The responder of the TFTP server starts a
*session*, an object with a thread and a socket of its own, for every request;
a session that is done pushes a notification, a raw pointer to itself, into the
queue of the server, and the responder destroys it.

      network --> receiver --push--> concurrent_queue --pop--> responder --> network (DHCP)
                                        ^                          |
                                        | push(pointer)            | make_unique / erase
                                        +------ session thread <---+
                                                  |  ^
                                                  v  |
                                                 client (TFTP)

### Inventory

| component | state it keeps | operations | what makes it correct |
|---|---|---|---|
| `concurrent_queue` | a deque, a mutex, a condition variable, the stop callback of a call | `push`, `emplace`, `pop(stop_token)` | FIFO; no lost wakeup; only a stop throws; a stop gets a blocked caller out |
| `tftp_reader` | stream, length, block size, block number, buffer | constructor, `next`, `last`, `data` | unsigned arithmetic stays inside the file; blocks add up to the file; the size sent is the one announced |
| `tftp_session_v4` | request, options, retry counter, reader, stop token, `m_done` | `io_thread` for an RRQ and for a WRQ, `validate_*`, `session_notify` | lock step; a retry budget that is what it says; the thread ends; success is logged for whole files |
| `tftp_server_v4` | event queue, session list, two threads, socket | `start`, `cease`, `thread_incoming`, `thread_outgoing`, `visit_packet`, `visit_event`, `session_notify` | raw pointers are valid when used; every finished session is destroyed; the destructor returns and nothing outlives the queue |
| `dhcp_server_v4` | client table, packet queue, two threads, socket | `initialize`, `start`, `cease`, both threads, `make_offer` | replies follow their requests; everyone gets their own address; settings apply to the computer they name; a bad packet harms no other |
| `tftp_packet`, `serdes` | none | parse and write a datagram | what is written is read back; short or unterminated input throws |
| `dhcp_packet_v4`, `dhcp_options_v4` | the option bytes | parse, write, `set`, `assign`, lookup | what is set is found again; an option fits its slot |
| `config_ini`, `lexical_cast`, `arguments` | sections and values; flags and operands | `parse`, `insert_line`, `value_as`, `value_or`; `has`, `values` | the last line that sets a value wins, and `-O` comes last; a bad value falls back or throws |
| `main`, `control_c` | the servers, the flag of Control+C | read, construct, start, wait, destroy | both servers serve or none; a failure to start leaves no thread and no address behind; Control+C ends the program |
| `socket_udp`, `socket_api`, `address_v4`, ... | a handle | `send`, `recv`, `bind`, move, close, `timeout` | a handle has one owner, which closes it after its last use; the rest passes calls on to Winsock |
| `logger`, utilities | -- | output | not about behaviour |

### What is hard about it

* **Interleaving.** `push` notifies after it released the mutex; `request_stop`
  notifies without it; a session thread runs before its session is in the list
  and may be finished by then; the session destroys itself, through the queue,
  while its thread is still inside `session_notify`.
* **Object lifetime.** Notifications are raw pointers, and the address of a
  destroyed session may be that of the next. The destructor must let the queue
  outlive the sessions.
* **Unreliable delivery.** Datagrams are lost, duplicated, delayed and
  reordered; the block id has 16 bits; a late ACK is answered by an ERROR.
* **Timeouts and retries.** One counter, reset by an ACK and counted down by
  the loop, also by `continue` in the exception handler.
* **Numeric edges.** `m_length - offset` and the timeout in milliseconds are
  unsigned; block size 0, timeout 0, and timeouts that are 0 modulo 2^32 ms;
  option codes 0 and 255 as indices of an array of 254.
* **Stale state.** The size of the file is read before the OACK exchange, the
  file opened after it.
* **Shutdown.** Joins of threads that may be asleep.
* **Partial failure.** Any step of the start may throw, with one server already
  serving, one of two threads started, or a socket made and not yet bound;
  constructors that throw have run their delegate, or have not.
* **Configuration.** Values are converted with different functions for the two
  servers, cut to 16 bits, and fall back on one kind of exception only.

`PROJECT.json` lists these under `hazards`, each at its line with the
properties that cover it.

## The modules

| module | models | state and actions |
|---|---|---|
| `EventQueue` | the abstract queue | the events, the caller, the stop |
| `ConcurrentQueue` | `concurrent_queue` | `m_queue`; where the popping thread is; the producers between `unlock` and `notify_one`; the stop source, from the flag to the callback. One action per section guarded by `m_mutex` and per unguarded notify |
| `TftpReader` | block arithmetic of `tftp_reader` | operators, with subtraction modulo 2^w |
| `TftpFile` | contents of the blocks | disk, stream state, buffer; `Construct`, `ReadNext`, and another program's `Rewrite` |
| `TftpSession` | `io_thread` of a read request | one step per stretch between two blocking calls; every `send` and `recv` may fail, every packet may arrive from anybody |
| `TftpRetries` | how a session spends its retries | `TftpSession` with a history variable that counts the attempts of the current datagram that came to nothing |
| `FileTransfer` | the abstract transfer | the file, the blocks the client has, the outcome |
| `TftpTransfer` | a session, its client and UDP between them | the bag of datagrams in flight; loss, duplication, the client's timeouts |
| `TftpServer` | all threads of `tftp_server_v4` | the place of each thread, the session list, the queue (an instance of `ConcurrentQueue`) |
| `DhcpServer` | all threads of `dhcp_server_v4`, the client table and the replies | the same, with the reply as a record and its options as a function on codes; `Overrun` ends the process over a request for a code that no table of options has a place for |
| `Serdes` | `serdes` | operators: 16-bit numbers, zero-terminated strings; sums of sizes; the containers of the packets as functions |
| `TftpPacket`, `DhcpPacket` | the codecs | packets as records, option tables as functions on codes; every way to write one, and what reading bytes gives: a set of one packet, or of none when the constructor throws. The loops are recursive functions of the index or the code they go through |
| `PacketWire` | a packet between its writer and its reader | the packet, its bytes, what was read. `SendTftp`, `SendOffer` (a DHCP offer from the settings of a section and the options of a request), `Overrun` (the same request ends the process), `Arrive` (bytes from elsewhere), `Receive` |
| `ServerLife` | the abstract server, as `main` sees it | whether it is made, told to stop or gone, and which of its threads run |
| `ConfigIni` | `config_ini`, `lexical_cast`, `arguments`, the parsing of addresses | operators on lines and texts that are records of what the code tells apart |
| `Bootpd` | `main`, `control_c`, constructors, `start()` and destructors of both servers, their sockets | where `main` is, the parsed configuration, the address, threads and socket of each server, the open sockets. One action per step that may throw; what the threads do is `ServerLife` |
| `MC...` | small instances | constants, properties about what a document says |
| `...Proofs` | theorems | see below |

How they are composed: `TftpServer` and `DhcpServer` each take the queue as an
instance of `ConcurrentQueue`, whose actions they join with their own, so that
the three-step wait and the two-step push of the queue interleave with
everything the server does. `TftpTransfer` extends `TftpSession` and closes it
with a client; `TftpSession` and `TftpFile` extend `TftpReader`. In `TftpServer`
a session is reduced to what the server sees of it (it runs, is done, notifies);
that it gets to its notification is what `EndsUnlessUnbounded` of `TftpSession`
shows, and `rrq_forever` of `TftpServer` is the exception that property names.

`Bootpd` and the two servers meet in `ServerLife`. Each server implements it
(`ImplementsServerLife`: its threads run until told to stop, whatever is thrown,
and its destructor returns only when no thread and no session is left), and `Bootpd`
uses two servers that do nothing else and stays within it (`ServersLive`), from
before they are made, over a start of which only a part succeeds, to their end.
`ServerLife` lets a server end the whole process, as both can: a session of the
TFTP server that lets an exception out, and a request to the DHCP server for
option 0 or 255. `ImplementsServerLife` of the DHCP server says that nothing but
such a request does; in `Bootpd` both are `ServerAborts`. That a destructor
returns is not promised: `ShutdownEndsOrHangs` of the TFTP
server says when it does not, and `EndsOrHangs` of `Bootpd` takes that as the
only reason for which the program does not end.

The TFTP client is not in the repository. `TftpTransfer` has the client the
session expects (RFC 1350 lock step, one ACK per block, repeated on its own
timeout) and marks its actions external.

### Step sizes

* A section guarded by `m_mutex` that does not block is one step; the popping
  thread, which keeps the mutex from its lock to its wait, is three.
* In a session, a step is what the thread does up to the next blocking call or
  to the next point where another thread may see a difference: `m_done.store`
  and `session_notify` are steps of their own.
* `sent` holds what the last step put on the wire, so a step that sends one
  datagram and then fails (a warned stranger whose packet is then refused) is
  visible as such.

## What the runs check

| run | instance | shows |
|---|---|---|
| `queue` | 3 producers, 2 events, up to 3 queued | no wakeup is lost though notifies come after the unlock; a responder asleep with its callback registered is stopped; the queue implements `EventQueue` with its fairness |
| `queue_stop` (violation) | 1 producer | a stop requested between the test of the queue and the wait wakes nobody |
| `session` | files of 0..5 bytes, block sizes 0..3 and one too long to allocate, timeouts 0, 1, 4 (= 0 modulo `Dword`), 3 retries, 4 block ids, faults everywhere | reader in bounds, the exact retry budget, success only for whole files, the thread ends and heeds a stop |
| `session_stranger` (violation) | the same | a packet of a stranger is answered by an error and then judged as the client's |
| `transfer` | files of 1 and 2 bytes in blocks of 1 and 2, one loss, one duplicate, one resend, faults | lock step, and the refinement to `FileTransfer` |
| `transfer_losses` | files of 0..3 bytes, up to 4 losses, timely network | only repeated loss fails a client that still needs the file, and with less the file arrives; block ids wrap |
| `server` | 2 session addresses, all kinds of request, queue of 2 | pointers in the queue are valid, notified once, nothing outlives the queue, finished sessions are destroyed, the destructor returns or hangs in one of the two known ways; the server implements `ServerLife` |
| `file` | every file of up to 4 bytes over CR, LF, x; block sizes 1, 2, 3, 5; both modes; one rewrite | delivered bytes are the file's, sizes are those announced, failures are only those explained |
| `dhcp` | 9 kinds of datagram, 3 of them in any order, two of which ask for option 0 or 255; 2 sections | replies follow requests, own addresses, no request is lost between the threads; the server implements `ServerLife`, and only a request for option 0 or 255 ends the process |
| `wire` | strings of up to 4 bytes, every TFTP datagram of up to 7 bytes over 0, 1, 2, every option field of up to 5 bytes over five values, requests for 0 and 255 among other codes | what is written is read back, size hints are exact, foreign bytes that are accepted have a normal form, a client hears the names it asked for unless it asked for 0 or 255 besides |
| `bootpd` | 638 command lines: files of up to two lines out of 14 kinds and two longer ones, with and without `-C` and `-O`, files that are missing, empty, a directory or unreadable; every step may fail; Control+C at any time | every setting comes to what its last line says; both servers serve when `main` gets to its loop, on different ports after they were cut to 16 bits; a failed start leaves one unbound socket at most, and no thread; sockets outlive the threads that use them; Control+C and every exception end the program unless a join hangs |
| `dhcp_settings` (violation) | 1 datagram | a section in upper case never applies |

Every property has a mutant in `PROJECT.json`: an operator, next to the
one it replaces and commented "Mutant of", that is the code with a plausible bug.

### Bounds, and why they are enough

* `MaxLength`, `MaxPackets`, `MaxLosses`, `MaxDuplicates`, `MaxResends` bound
  what the environment does; the code has no such limits. Two queued events
  suffice for order to matter, three producers for a notify to be owed by one
  while two others come and go. In the servers, `MaxLength` bounds only what
  the receiver adds; a session may always push.
* `MaxRetries = 3` is the least number with a first, a middle and a last
  attempt, and for which "one attempt less" (see `RetryBudget`) is still more
  than one. The history variable `unanswered` of `TftpRetries` stops counting at
  `MaxUnanswered`, one more than a session may reach. `IdSpace = 4` makes ids wrap in files of four blocks and more.
  `transfer` keeps to files with fewer blocks than ids: that no datagram lives
  through 65536 round trips is an assumption of TFTP.
* `Word = 16` and `Dword = 8` stand for 2^64 and 2^32; timeouts of 4 seconds of
  `Milliseconds = 2` are 0 modulo `Dword`.
* Two session addresses suffice for one to be reused while the other is in any
  state.
* `DhcpServer` takes packets as records of the fields it looks at, with options
  as values; that the bytes say the same is what `wire` shows. There the sizes
  of `std::string` and `std::string_view` (32 and 16 where the program is built)
  are 3 and 2, so that names shorter, as long and longer than the room all occur;
  the header has its real 236 bytes.
* `Bootpd` has `Word = 16` and `Dword = 64` for 2^16 and 2^32, and 3 and 4 for
  ports 67 and 69, so that a port that is cut can meet the other one, become 0,
  or be in the range of `stoul` and not of `stol`. A text is a record of the
  number it starts with, whether something follows, and the host and port it
  names. There are two sockets in all (`Handles`): one for each server, or one
  leaked and one held, or none left.
* Sections of the configuration have lower-case names in `Bootpd`; what happens
  to others is in `dhcp_settings`.
* The codes in option 55 are any bytes, as in the code, and `assign` uses each as
  an index. The outcomes modelled are those of the builds: for 0 the index is
  0xFFFFFFFF, where no memory is, and the process ends; for 255 the word behind
  the array is used, which ends the process in a debug build (the checks of
  `std::array`), and in a release build ends it or goes on as though the code were
  not there. A process that goes on with other memory overwritten is not
  modelled: it counts as ended.

### Fairness

* Queue, servers, session: weak fairness of each thread (`WF` of what the thread
  can do by itself). The threads are OS threads that nothing but a blocking call
  holds up. A `recv` with a timeout returns, so `RecvTimesOut` is part of the
  fair step exactly when there is a timeout.
* `SessionPushes` has strong fairness: the mutex of the queue is taken and
  released over and over by the responder, so the push of a session is not
  continuously enabled; Windows hands a contended `std::mutex` (an SRW lock) to
  a waiting thread eventually.
* `Bootpd`: weak fairness of the main thread. The threads of its servers get
  none, as `ServerLife` does not promise that they end.
* Nobody has to send a datagram, press Control+C, fail, lose or duplicate
  anything. In `TftpTransfer` a datagram that is not lost is received: weak
  fairness of `SessionReceives` and `ClientStep`, only in `TransferFairSpec`.

## What is proved

`tlapm` checks these for every value of the constants, from the named
assumptions alone; a theorem that needs more says so in its statement. Most
properties of the runs are not inductive: each module begins with the invariant
they follow from, in named parts, and has one lemma for each part or action.

* **`ConcurrentQueueProofs`** (any events, any producers, any length):
  `TypeCorrect`; `WakeupIsNeverLost`, whose invariant, "asleep and not empty
  implies that someone still owes a notify", is inductive as it stands, because
  the popping thread goes from the test to the wait without releasing the
  mutex; and `QueueIsFifo`, a step simulation of the abstract queue's safety
  part. Types and wakeups are proved of `Use`, *any* way to use the queue that
  takes its steps and no others. Both servers are shown to be such a use
  (`UsesQueue` in their modules), so no event of theirs waits for a responder
  that nobody will wake: `EventsWakeResponder`, `RequestsWakeResponder`.
* **`TftpReaderProofs`**: lemmas about `NewReader`, `NextBlock` and `IsLast`:
  what `InBounds` says of one block it says of the next.
* **`TftpTransferProofs`**, the session (any requests, files, retries, id
  space): `SessionInv`
  strengthens the type invariant by "the reader is in its file during the data
  loop" and by what is known when the thread leaves; neither `ReaderInFile` nor
  `FinishedMeansWholeFile` is inductive alone, since the step to the last line
  of the loop needs the position of the reader before it. From it follow
  `SessionTypeCorrect`, `ReaderStaysInFile` and `FinishedIsComplete`.
  `RetriesAreSpent` proves `RetryBudget` by `Budget`: attempts that came to
  nothing and attempts left add up to an `Allowance`, which is one less after
  the first block. It builds on `SessionInv`, which bounds the block number.
* **`TftpTransferProofs`**, the transfer (any network, any client that keeps to
  the protocol):
  a behaviour of the transfer is one of the session (`SessionInTransfer`), so
  `SessionInv` holds in it. `Flight` types what is in the air
  (`TransferTypeCorrect`). `SessionInLockStep` follows from `Locked`: no
  acknowledgement in flight is ahead of the client, no block ahead of the
  session, and the session is at most one block ahead of the client. It holds
  as long as no block id comes twice (`NoWrap`), that is for 65535 blocks; from
  then on a delayed datagram can pass for another, in TFTP as in this code.
  `TransferKeepsPromise` is the step simulation of `FileTransfer`; its invariant
  `Delivered` adds that blocks in flight and blocks the client has are those of
  the file. It also assumes `Divisible`, that the block size is not 0, which the
  code accepts and for which a transfer has no end. `LossesFailTransfer` proves
  `FailsOnlyByLoss` for a network in time (`Timeliness`: no duplicates, no delay
  past a timeout, no faults, a request the session grants): then there is at
  most one datagram in flight, and every retry that is used up has cost a
  datagram, but for one (`InTime`), until it is settled how the transfer ends
  (`Settled`).
  Here block ids may wrap.
* **`TftpFileProofs`** (any contents, any block size): `Sizes` says where the
  reader is in the file, what the stream is like and how long the buffers are;
  `Bytes` says which bytes they hold in binary mode, or in text mode
  without CR LF (`Exact`). From them follow `FileTypeCorrect`,
  `FileIsDelivered`, `AnnouncedIsDelivered`, and the action property
  `ReadsFailByRewriting`.
* **`TftpServerProofs`** (any number of sessions, any length): `ServerInv` has
  four parts. `Types`; `Owned`: a session exists exactly if it is listed, or
  about to be; `NotifiesOnce`: of each session there is at most one
  notification, in the queue or in the responder's hands, and only when its
  thread has pushed it; `Stopping`: in which order the destructor stops, joins
  and destroys. `NotificationIsValid` and `NotifiesOnlyOnce` need all four: a
  pointer is valid because the session it names cannot have been erased, since
  that takes the only notification there is. `TftpServerLives` is the step
  simulation of `ServerLife`.
* **`DhcpServerProofs`** (any requests, clients, length): `DhcpInv` has
  `Counted` and `Types`; `Table`: the client table is what the configuration
  made it; `Ordered`: queued packets are datagrams that arrived, in their
  order, and later than the replies; and `RepliesInv`, of the replies sent.
  `RepliesFollow` proves `RepliesFollowRequests` from it, `DhcpServerLives` the
  step simulation of `ServerLife` with `LifeInv`, and with `EndInv` that the
  process ends only over a request for option 0 or 255: what the responder has in
  hand is a datagram that arrived (`Ordered`).
* **`BootpdProofs`** (any command lines, files, handles): `BootpdInv` says what
  `main` has made at each of its places (`Progress`), what it has when it is on
  its way out (`Unwinding`), that a server about to start holds nothing
  (`FreshInv`), and whose each socket is (`SocketsAccounted`). From it follow
  `BothServersServe`, `SocketsAreAccounted`, `NothingServesAtEnd`, and
  `ServersAreUsed`: `main` uses two servers as `ServerLife` allows.
  `LastLineCounts` proves `SettingsInEffect` for configurations of any length.
  `parse` is an induction over lines: `Parsed` is a recursive function, shown to
  exist and to satisfy its recursion (`ParsedExists`, `ParsedByLine`), and
  `ParsedTracks` follows it line by line, with the least line for which it would
  be wrong (`LeastElement`, from the well-foundedness of the naturals).
* **`PacketWireProofs`** (any packets, datagrams, settings and requests, of any
  length, with any codes): `WireInv` says that the packet is one that can be written, that the
  wire has what was written of it, and for an offer from which settings and
  request it was made, and that the process has ended only over a request for
  option 0 or 255. What follows from it is about the codecs alone, and they
  are loops; each loop is a recursive function, shown to exist and to satisfy its
  recursion (`Recursive`, `Iterated`), and followed upward from the start or
  downward from the end of the bytes (`Upward`, `Downward`).
  `WrittenIsRead` proves `RoundTrip`: a written string ends at its own
  terminator (`TextWritten`), so names and values are read two by two
  (`PairsRead`), and an option ends after as many bytes as its size says
  (`OptionsRead`), behind a header of 236 bytes that is read field by field
  (`HeaderRead`). `RoomIsExact` proves `HintIsSize` in whatever order a hash
  table is gone through when it is written, and in whatever other order when it
  is measured: both add up to the number of elements of one finite set (the
  `Volume` of the dictionary), which has no order. The buffer is larger than that,
  by the 128 bytes that `serialize_to_vector` adds to the hint: they are never
  needed. `ReadIsNormal` proves
  `NormalForm`: what is read is a packet that can be written, and its volume is
  at most the bytes it was read from, since a name that comes twice only gives
  up room (`PairsFit`, `OptionsFit`). `ClientIsTold` proves `AskedIsHeard`
  through both codecs and `make_offer` between them: `OfferIs` says which options
  an offer has, if `make_offer` returns one, and that each is the setting with
  zeros behind it.

Together: `main` uses its servers only as `ServerLife` says, and each server is
one; each server uses its queue only as `ConcurrentQueue` says, and the queue is
FIFO and loses no wakeup; the session of the transfer is the session alone; and
what either server writes, the readers of this program take for what was meant.

Assumptions, all named, and evaluated by TLC in the runs:

| assumption | says |
|---|---|
| `MaxLengthAssumption` | the bound on the queue is a number |
| `ReaderAssumption` | a buffer that can be allocated is shorter than 2^64 |
| `SessionAssumption` | files of fewer than 2^64 - 1 bytes, at least two retries and two block ids, a default block size that can be allocated, a client that is no stranger |
| `TransferAssumption` | fewer block ids than 2^64; bounds that are numbers |
| `FileAssumption` | files of fewer than 2^64 - 1 bytes, block sizes that are not 0 and can be allocated |
| `KindAssumption`, `ServerAssumption` | the datagrams are of the kinds modelled; the receiver and `None` are no sessions |
| `DhcpAssumption` | packets and sections have their fields; the codes asked for are bytes |
| `WireAssumption` | the packets to write have the fields of their kind, with strings without zeros and numbers of 16 bits; whatever comes from elsewhere, and every setting, is a sequence of bytes; the codes asked for are at most 255 bytes; an option has room for a `std::string_view`, and a `std::string` is no larger than the 64 bytes for the name of a host; `Nothing` is no sequence of bytes |
| `ConfigAssumption`, `BootpdAssumption` | 2^16 divides 2^32; files and operands of `-O` are sequences of lines; the default ports fit 16 bits |

### What is only model-checked

* Everything that needs fairness, since `tlapm` has no rules for `ENABLED`: the
  fairness half of `ImplementsEventQueue`, `StopEndsSleeper`,
  `EndsUnlessUnbounded`, `StopIsHeeded`, `Completes`, `DoneIsReclaimed`,
  `ShutdownEndsOrHangs`, `EveryRequestIsAnswered` and `EndsOrHangs`.

Every invariant and every other action property of the passing runs is proved.

## Where the code and its documents differ

* `pop` may sleep through a stop (`queue_stop`), and then `~tftp_server_v4` and
  `~dhcp_server_v4` wait for ever in their joins. `ShutdownEndsOrHangs` shows
  that this and a session that waits without a timeout are the only ways.
* `validate_source` builds the text that a stranger's packet is ignored (nothing
  prints it), sends the stranger an error, and does not ignore the packet
  (`session_stranger`).
* `dhcp_options_v4::assign` uses the codes a client asks for as indices without
  the check that `operator[]`, `value` and `set` of bytes have: a DISCOVER or REQUEST of
  a configured client for option 0, or 255 in a debug build, ends the process,
  both servers with it. This has no run of its own: the properties of `dhcp` and
  `wire` (`ImplementsServerLife`, `EveryRequestIsAnswered`, `AskedIsHeard`) name
  such a request as the one exception, and would fail without it.
* A section of the configuration written in upper case never applies
  (`dhcp_settings`).

Also seen while modelling, without a run: with something after the number, the
port of the DHCP server ends the program and that of the TFTP server is silently
69; a configuration file that exists but cannot be opened gives all the
defaults; a line without a value is undefined behaviour that release builds get
away with and that the debug build ends at; v4_socket_make_udp leaks the socket
it cannot bind; a session stopped inside its loop logs
"Finished sending" (`FinishedMeansWholeFile` excludes stopped sessions); every
block after the first has one attempt less than `MAX_RETRIES` (`RetryBudget`
states it exactly); settings the example calls "not used" are sent in replies; a
request without a DHCP message type, as plain BOOTP has it, is dropped; in text
mode a file with CR LF is delivered with overlapping blocks (`DeliveredIsFile`
excludes it).

## Plan

1. *Done:* the queue, the session with reader, file and transfer, both servers,
   the codecs, the configuration, and the program as a whole.
2. *Done:* the safety properties of all of these, for every instance; the step
   simulations of `EventQueue`, `FileTransfer` and, by both servers and the
   program, of `ServerLife`; the codecs, by induction on their bytes.
3. Not begun: the cut of a configuration line into a key and a value, which the
   code leaves to two regular expressions.

## Not modelled

* `logger`, the CRC, hash and file utilities: output, and code nothing else uses.
* How a line is cut into a key and a value (the comment, the blanks, the two
  regular expressions), and how digits make a number: `ConfigIni` starts from
  what is found. `keynames`, the casts to bool and floating point, and the typed
  variants of `arguments` are used by nobody.
* The Winsock wrappers, beyond what `send` and `recv` may do to a session (send,
  time out, fail) and what becomes of the handles: names of errors, options, the
  output of addresses.
* The timed and the predicate `pop`, `try_pop` and `m_cease` of the queue:
  nobody calls them.
* A write request is refused by its session in a few lines; `TftpServer` has
  them (`wrq`), with the exception that ends the process.
