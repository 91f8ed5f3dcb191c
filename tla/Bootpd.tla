-------------------------------- MODULE Bootpd --------------------------------
(* The program (bootpd/main.cpp): the main thread from the command line and    *)
(* the configuration, over the making and starting of both servers, to         *)
(* Control+C and their destructors, or to the exception that ends it earlier;  *)
(* and the sockets of the servers. What a started server does is in            *)
(* DhcpServer and TftpServer; here it keeps to ServerLife.                     *)
EXTENDS ConfigIni

CONSTANTS
  CommandLines, \* the command lines tried
  DefaultFile,  \* config.ini
  AnyHost,      \* the address 0.0.0.0
  DhcpPort,     \* 67, and
  TftpPort,     \* 69
  AddressKeys,  \* the settings of a section that are addresses, and
  SecondsKeys,  \* those that are numbers
  Handles,      \* the sockets the system can give: bounds how many are open
  Invalid       \* INVALID_SOCKET

(* A file, named by what it is. *)
IsFile(file) ==
  /\ file.is \in {"missing", "directory", "regular"}
  /\ file.readable \in BOOLEAN
  /\ Len(file.lines) \in Nat
  /\ \A i \in 1..Len(file.lines) : IsLine(file.lines[i])

(* value_or("-C", "config.ini"), which no lexical_cast changes.                *)
File(args) ==
  LET given == Operands(args, "-C") IN IF given = <<>> THEN DefaultFile ELSE given[1]

(* values("-O"), the lines on the command line.                                *)
Overriding(args) == Operands(args, "-O")

ASSUME BootpdAssumption ==
  /\ \A args \in CommandLines :
       /\ IsFile(File(args))
       /\ Len(Overriding(args)) \in Nat
       /\ \A i \in 1..Len(Overriding(args)) : IsLine(Overriding(args)[i])
  /\ {DhcpPort, TftpPort} \subseteq 0..Word-1
  /\ Invalid \notin Handles

VARIABLES
  arguments,  \* the command line
  place,      \* where main() is: see Places
  current,    \* the server it is making, starting or destroying
  config,     \* m_data of config_ini_v
  thrown,     \* an exception is on its way to the handler of main()
  address,    \* m_bind_address of the DHCP server, m_address of the TFTP server
  life, threads,  \* of each server: see ServerLife
  m_sock,     \* the socket each server holds, or Invalid
  fresh,      \* the socket that make_udp has made and not yet bound
  sockets,    \* the open sockets, with the address each is bound to, or None
  handler,    \* control_c_handler is installed
  stop        \* G_source has been asked to stop

inputs == <<arguments>>
servers == <<address, life, threads>>
handles == <<m_sock, fresh, sockets>>
control == <<handler, stop>>
bootpdVars == <<inputs, place, current, config, thrown, servers, handles, control>>

Servers == {"dhcp", "tftp"}

(* "failed" is system("pause") after an exception, "returned" the end of       *)
(* main(), "killed" by Control+C without the handler, "aborted" by             *)
(* std::terminate, by a debug build's check of front() or of an index, or by   *)
(* memory that is not there.                                                   *)
Places == {"config", "make", "socket", "bind", "threads", "loop", "unwind",
           "failed", "returned", "killed", "aborted"}

Running == place \notin {"returned", "killed", "aborted"}

BootpdInit ==
  /\ arguments \in CommandLines
  /\ place = "config"
  /\ current = "dhcp"
  /\ config = <<>>
  /\ thrown = FALSE
  /\ address = [s \in Servers |-> None]
  /\ life = [s \in Servers |-> "none"]
  /\ threads = [s \in Servers |-> {}]
  /\ m_sock = [s \in Servers |-> Invalid]
  /\ fresh = Invalid
  /\ sockets = <<>>
  /\ handler = FALSE
  /\ stop = FALSE

(* Mutant of Throw: what failed is tried again. *)
ThrowNot == thrown' = TRUE /\ UNCHANGED place

(* An exception leaves the try block: the destructors run.                     *)
Throw == place' = "unwind" /\ thrown' = TRUE

-----------------------------------------------------------------------------
(* The configuration *)

(* The lines that a stream on the file yields: none, when it cannot be opened. *)
LinesOf(file) == IF file.readable THEN file.lines ELSE <<>>

(* The lines of the file, then those of -O. *)
Written == LinesOf(File(arguments))
AllLines == Len(Written) + Len(Overriding(arguments))

(* The file is checked, parsed, and overridden; values("-O") throws when the   *)
(* flag is there and no line after it.                                         *)
ReadConfig ==
  /\ place = "config"
  /\ LET file == File(arguments)
         missing == Has(arguments, "-O") /\ Overriding(arguments) = <<>>
         parsed == Parsed(Written, Overriding(arguments))[AllLines]
     IN IF file.is # "regular" \/ file.lines = <<>>
        THEN Throw /\ UNCHANGED config
        ELSE \/ /\ parsed.undefined
                /\ place' = "aborted"
                /\ UNCHANGED <<config, thrown>>
             \/ /\ parsed.thrown \/ missing
                /\ Throw
                /\ UNCHANGED config
             \/ /\ ~parsed.thrown /\ ~missing
                /\ config' = parsed.data
                /\ place' = "make"
                /\ UNCHANGED thrown
  /\ UNCHANGED <<inputs, current, servers, handles, control>>

-----------------------------------------------------------------------------
(* The constructors: initialize of each server *)

(* initialize_client of every section: each of its addresses and numbers. (The *)
(* names of sections are in lower case here; DhcpServer has the others.)       *)
ClientsParse ==
  \A place_of \in DOMAIN config :
    /\ place_of[2] \in AddressKeys => ToAddress(config[place_of]) # Throws
    /\ place_of[2] \in SecondsKeys => ToUnsigned(config[place_of]) # Throws

(* v4_bind_address, for both servers.                                          *)
HostOf ==
  LET text == Value(config, NoSection, "v4_bind_address")
  IN IF text = None THEN AnyHost ELSE ToAddress(text)

(* value_or gives the DHCP server a text, and what the conversion throws       *)
(* leaves initialize; value_or converts for the TFTP server.                   *)
PortOf(s) ==
  LET text == Value(config, NoSection, IF s = "dhcp" THEN "dhcp_listen_port" ELSE "tftp_listen_port")
  IN CASE text = None -> IF s = "dhcp" THEN DhcpPort ELSE TftpPort
       [] text # None /\ s = "dhcp" -> ToUnsigned(text)
       [] OTHER -> OrDefault(ToSigned(text), TftpPort)

(* Mutant of AddressOf: the port is not cut to 16 bits. *)
AddressOfUncut(s) ==
  IF HostOf = Throws \/ PortOf(s) \in {Throws, Bad} \/ (s = "dhcp" /\ ~ClientsParse)
  THEN Throws ELSE [host |-> HostOf, port |-> PortOf(s)]

AddressOf(s) ==
  IF HostOf = Throws \/ PortOf(s) \in {Throws, Bad} \/ (s = "dhcp" /\ ~ClientsParse)
  THEN Throws ELSE [host |-> HostOf, port |-> PortOf(s) % Word]

(* The constructor of the DHCP server delegates, so that its destructor runs   *)
(* even if initialize throws; that of the TFTP server does not.                *)
MakeServer ==
  /\ place = "make"
  /\ LET made == AddressOf(current) IN
     IF made = Throws
     THEN /\ Throw
          /\ life' = [life EXCEPT !["dhcp"] = "made"]
          /\ UNCHANGED <<current, address>>
     ELSE /\ life' = [life EXCEPT ![current] = "made"]
          /\ address' = [address EXCEPT ![current] = made]
          /\ place' = IF current = "dhcp" THEN "make" ELSE "socket"
          /\ current' = IF current = "dhcp" THEN "tftp" ELSE "dhcp"
          /\ UNCHANGED thrown
  /\ UNCHANGED <<inputs, config, threads, handles, control>>

-----------------------------------------------------------------------------
(* start() *)

(* v4_socket_make_udp(): the system may have no socket left.                   *)
MakeSocket ==
  /\ place = "socket"
  /\ \/ \E h \in Handles \ DOMAIN sockets :
          /\ sockets' = [k \in DOMAIN sockets \cup {h} |-> IF k = h THEN None ELSE sockets[k]]
          /\ fresh' = h
          /\ place' = "bind"
          /\ UNCHANGED thrown
     \/ Throw /\ UNCHANGED <<sockets, fresh>>
  /\ UNCHANGED <<inputs, current, config, servers, m_sock, control>>

(* Port 0 asks for any port that is free.                                      *)
InUse(a) == a.port # 0 /\ \E h \in DOMAIN sockets : sockets[h] = a

(* Mutants of BindSocket: the temporary that is moved from closes its socket;  *)
(* the error of bind() is dropped.                                             *)
BindAndClose ==
  /\ place = "bind"
  /\ m_sock' = [m_sock EXCEPT ![current] = fresh]
  /\ sockets' = [h \in DOMAIN sockets \ {fresh} |-> sockets[h]]
  /\ fresh' = Invalid
  /\ place' = "threads"
  /\ UNCHANGED <<inputs, current, config, thrown, servers, control>>

BindUnchecked ==
  /\ place = "bind"
  /\ sockets' = [sockets EXCEPT ![fresh] = IF InUse(address[current]) THEN None ELSE address[current]]
  /\ m_sock' = [m_sock EXCEPT ![current] = fresh]
  /\ fresh' = Invalid
  /\ place' = "threads"
  /\ UNCHANGED <<inputs, current, config, thrown, servers, control>>

(* bind() fails if the address is in use, here or elsewhere, or not of this    *)
(* computer: v4_socket_make_udp(address) then leaves the socket open, and      *)
(* nobody knows it. Else it is moved into m_sock, which holds none before.     *)
BindSocket ==
  /\ place = "bind"
  /\ \/ /\ ~InUse(address[current])
        /\ sockets' = [sockets EXCEPT ![fresh] = address[current]]
        /\ m_sock' = [m_sock EXCEPT ![current] = fresh]
        /\ place' = "threads"
        /\ UNCHANGED thrown
     \/ Throw /\ UNCHANGED <<sockets, m_sock>>
  /\ fresh' = Invalid
  /\ UNCHANGED <<inputs, current, config, servers, control>>

(* The receiver, then the responder. *)
StartThread ==
  /\ place = "threads"
  /\ threads' = [threads EXCEPT ![current] =
                   @ \cup {IF @ = {} THEN "incoming" ELSE "outgoing"}]
  /\ IF threads[current] = {} THEN UNCHANGED <<place, current>>
     ELSE /\ place' = IF current = "dhcp" THEN "socket" ELSE "loop"
          /\ current' = "tftp"
  /\ UNCHANGED <<inputs, config, thrown, address, life, handles, control>>

(* The options of the socket, or a thread, are refused. *)
StartFails ==
  /\ place = "threads"
  /\ Throw
  /\ UNCHANGED <<inputs, current, config, servers, handles, control>>

-----------------------------------------------------------------------------
(* control_c *)

(* The first call of stop_requested, after both servers have been started.     *)
InstallHandler ==
  /\ place = "loop"
  /\ ~handler
  /\ \/ handler' = TRUE /\ UNCHANGED <<place, thrown>>
     \/ Throw /\ UNCHANGED handler
  /\ UNCHANGED <<inputs, current, config, servers, handles, stop>>

(* Without the handler, the system ends the process.                           *)
CtrlC ==
  /\ Running
  /\ IF handler THEN stop' = TRUE /\ UNCHANGED place
     ELSE place' = "killed" /\ UNCHANGED stop
  /\ UNCHANGED <<inputs, current, config, thrown, servers, handles, handler>>

(* Once a second. *)
Poll ==
  /\ place = "loop"
  /\ handler /\ stop
  /\ place' = "unwind"
  /\ UNCHANGED <<inputs, current, config, thrown, servers, handles, control>>

-----------------------------------------------------------------------------
(* The destructors, of the TFTP server before that of the DHCP server *)

Unmade == {s \in Servers : life[s] \in {"made", "ceasing"}}

Destroyed == IF "tftp" \in Unmade THEN "tftp" ELSE "dhcp"

(* cease(): the threads there are are told to stop, and then joined.           *)
Cease ==
  /\ place = "unwind"
  /\ Unmade # {}
  /\ life[Destroyed] = "made"
  /\ life' = [life EXCEPT ![Destroyed] = "ceasing"]
  /\ UNCHANGED <<inputs, place, current, config, thrown, address, threads, handles, control>>

(* Mutant of Vanish: the members are destroyed before the threads are joined. *)
VanishUnjoined ==
  /\ place = "unwind"
  /\ Unmade # {}
  /\ life[Destroyed] = "ceasing"
  /\ life' = [life EXCEPT ![Destroyed] = "gone"]
  /\ sockets' = [h \in DOMAIN sockets \ {m_sock[Destroyed]} |-> sockets[h]]
  /\ m_sock' = [m_sock EXCEPT ![Destroyed] = Invalid]
  /\ UNCHANGED <<inputs, place, current, config, thrown, address, threads, fresh, control>>

(* The joins have returned; the members are destroyed, the socket last.        *)
Vanish ==
  /\ place = "unwind"
  /\ Unmade # {}
  /\ life[Destroyed] = "ceasing"
  /\ threads[Destroyed] = {}
  /\ life' = [life EXCEPT ![Destroyed] = "gone"]
  /\ sockets' = [h \in DOMAIN sockets \ {m_sock[Destroyed]} |-> sockets[h]]
  /\ m_sock' = [m_sock EXCEPT ![Destroyed] = Invalid]
  /\ UNCHANGED <<inputs, place, current, config, thrown, address, threads, fresh, control>>

(* Mutant of LeaveTry: only the TFTP server is destroyed. *)
LeaveTryEarly ==
  /\ place = "unwind"
  /\ "tftp" \notin Unmade
  /\ place' = IF thrown THEN "failed" ELSE "returned"
  /\ UNCHANGED <<inputs, current, config, thrown, servers, handles, control>>

LeaveTry ==
  /\ place = "unwind"
  /\ Unmade = {}
  /\ place' = IF thrown THEN "failed" ELSE "returned"
  /\ UNCHANGED <<inputs, current, config, thrown, servers, handles, control>>

(* Somebody presses a key. *)
PressKey ==
  /\ place = "failed"
  /\ place' = "returned"
  /\ UNCHANGED <<inputs, current, config, thrown, servers, handles, control>>

-----------------------------------------------------------------------------
(* The threads of the servers, as ServerLife lets them *)

ThreadsBecome(s, value) ==
  /\ threads' = [threads EXCEPT ![s] = value]
  /\ UNCHANGED <<inputs, place, current, config, thrown, address, life, handles, control>>

EndThread(s) ==
  /\ Running
  /\ life[s] = "ceasing"
  /\ \E t \in {"incoming", "outgoing"} \cap threads[s] : ThreadsBecome(s, threads[s] \ {t})

TftpSessions ==
  /\ Running
  /\ \/ "outgoing" \in threads["tftp"] /\ ThreadsBecome("tftp", threads["tftp"] \cup {"sessions"})
     \/ ThreadsBecome("tftp", threads["tftp"] \ {"sessions"})

(* A session lets an exception out, or the responder of the DHCP server is     *)
(* asked for an option that no table has a place for.                          *)
ServerAborts ==
  /\ Running
  /\ "sessions" \in threads["tftp"] \/ "outgoing" \in threads["dhcp"]
  /\ place' = "aborted"
  /\ UNCHANGED <<inputs, current, config, thrown, servers, handles, control>>

-----------------------------------------------------------------------------
MainStep ==
  \/ ReadConfig \/ MakeServer \/ MakeSocket \/ BindSocket \/ StartThread \/ StartFails
  \/ InstallHandler \/ Poll \/ Cease \/ Vanish \/ LeaveTry

BootpdNext ==
  \/ MainStep \/ CtrlC \/ PressKey \/ TftpSessions \/ ServerAborts
  \/ \E s \in Servers : EndThread(s)

BootpdSpec == BootpdInit /\ [][BootpdNext]_bootpdVars

(* The main thread runs when it can. Nobody has to press Control+C, and the    *)
(* threads of a server need not end: ServerLife does not promise it.           *)
BootpdFairSpec == BootpdSpec /\ WF_bootpdVars(MainStep)

lifeOf(s) == IF place \in {"killed", "aborted"} THEN "aborted" ELSE life[s]

Dhcp == INSTANCE ServerLife WITH life <- lifeOf("dhcp"), threads <- threads["dhcp"]
Tftp == INSTANCE ServerLife WITH life <- lifeOf("tftp"), threads <- threads["tftp"]

-----------------------------------------------------------------------------
(* Properties *)

(* The types. *)
BootpdTypeOK ==
  /\ place \in Places
  /\ current \in Servers
  /\ \A s \in Servers : address[s] # None => address[s].port \in 0..Word-1
  /\ DOMAIN sockets \subseteq Handles
  /\ m_sock \in [Servers -> Handles \cup {Invalid}]
  /\ fresh \in Handles \cup {Invalid}
  /\ threads \in [Servers -> SUBSET {"incoming", "outgoing", "sessions"}]
  /\ {thrown, handler, stop} \subseteq BOOLEAN

(* Line i of them all, and the section it is in: the lines of -O in NoSection. *)
Line(i) == IF i <= Len(Written) THEN Written[i] ELSE Overriding(arguments)[i - Len(Written)]

Heads(i) == IF i > Len(Written) THEN {} ELSE {j \in 1..i : Written[j].kind = "section"}

Latest(S) == CHOOSE j \in S : \A k \in S : k <= j

SectionAt(i) == IF Heads(i) = {} THEN NoSection ELSE Written[Latest(Heads(i))].name

(* The settings of the first n lines, and what each comes to.                  *)
Setters(n) == {i \in 1..n : Line(i).kind \in {"setting", "valueless"}}

SettingAt(i) == <<SectionAt(i), Line(i).key>>

ValueAt(i) == IF Line(i).kind = "valueless" THEN Empty ELSE Unquoted(Line(i).value)

SaidBy(data, n) ==
  /\ DOMAIN data = {SettingAt(i) : i \in Setters(n)}
  /\ \A i \in Setters(n) :
       (\A j \in Setters(n) : SettingAt(j) = SettingAt(i) => j <= i) =>
         data[SettingAt(i)] = ValueAt(i)

(* What every setting comes to: the last line that sets it, where the lines of *)
(* -O come after those of the file, and all of them in the section that the    *)
(* servers' own settings are in.                                               *)
SettingsInEffect ==
  place \notin {"config", "killed", "aborted"} /\ ~thrown => SaidBy(config, AllLines)

(* When main() gets to its loop, both servers serve: each with both threads    *)
(* and a socket of its own, on two addresses of one host, unless a port is 0   *)
(* and left to the system.                                                     *)
BothServe ==
  place = "loop" =>
    /\ \A s \in Servers :
         /\ {"incoming", "outgoing"} \subseteq threads[s]
         /\ m_sock[s] \in DOMAIN sockets
         /\ sockets[m_sock[s]] = address[s]
    /\ address["dhcp"].host = address["tftp"].host
    /\ (address["dhcp"].port # address["tftp"].port \/ address["dhcp"].port = 0)

(* Every open socket is held by one server, which will close it; but a failed  *)
(* start may leave one behind, which is not bound and takes no address from    *)
(* anybody. No server holds a socket that is closed, and its threads never see *)
(* it closed under them.                                                       *)
SocketsAccounted ==
  LET held == {m_sock[s] : s \in Servers} \ {Invalid}
      left == DOMAIN sockets \ (held \cup {fresh})
  IN /\ held \subseteq DOMAIN sockets
     /\ \A s \in Servers : threads[s] # {} => m_sock[s] # Invalid
     /\ m_sock["dhcp"] = m_sock["tftp"] => m_sock["dhcp"] = Invalid
     /\ \A h \in left : thrown /\ sockets[h] = None
     /\ \A g, h \in left : g = h

(* While a failed program waits for a key, and once main() has returned,       *)
(* nothing of it serves: no thread is left and no address is taken.            *)
EndedServesNothing ==
  place \in {"failed", "returned"} =>
    /\ \A s \in Servers : threads[s] = {}
    /\ \A h \in DOMAIN sockets : sockets[h] = None

(* Each server is used, and behaves, as ServerLife says.                       *)
ServersLive == Dhcp!Spec /\ Tftp!Spec

(* Control+C, once it is handled, and every exception lead to the end of       *)
(* main() or to its pause, however many of the servers were running, unless a  *)
(* destructor waits for ever for a thread.                                     *)
EndsOrHangs ==
  stop \/ thrown ~>
    \/ place \in {"failed", "returned", "killed", "aborted"}
    \/ [](\E s \in Servers : life[s] = "ceasing" /\ threads[s] # {})
===============================================================================
