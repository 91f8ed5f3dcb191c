----------------------------- MODULE BootpdProofs -----------------------------
(* Theorems about Bootpd, for every command line and configuration file, every *)
(* number of sockets, and whatever the system refuses.                         *)
EXTENDS Bootpd, TLAPS, WellFoundedInduction

(* What lexical_cast gives, if it throws nothing, is a number.                 *)
LEMMA NumberIsInteger ==
  ASSUME NEW text, NEW lo \in Int, NEW hi \in Int, ToNumber(text, lo, hi) \notin {Throws, Bad}
  PROVE  ToNumber(text, lo, hi) \in Int
BY DEF ToNumber

(* The address a server is made with: one host for both, and a port that has   *)
(* been cut to 16 bits.                                                        *)
LEMMA AddressIsTyped ==
  ASSUME NEW s \in Servers, AddressOf(s) # Throws
  PROVE  /\ AddressOf(s) = [host |-> HostOf, port |-> PortOf(s) % Word]
         /\ AddressOf(s).port \in 0..Word-1
<1>1. /\ PortOf(s) \notin {Throws, Bad}
      /\ AddressOf(s) = [host |-> HostOf, port |-> PortOf(s) % Word]
  BY DEF AddressOf
<1>2. PortOf(s) \in Int
  <2> DEFINE text == Value(config, NoSection, IF s = "dhcp" THEN "dhcp_listen_port" ELSE "tftp_listen_port")
  <2>1. {DhcpPort, TftpPort} \subseteq Int
    BY ConfigAssumption, BootpdAssumption
  <2>2. ASSUME ToUnsigned(text) \notin {Throws, Bad}
        PROVE  ToUnsigned(text) \in Int
    <3>1. -(Dword - 1) \in Int /\ Dword - 1 \in Int
      BY ConfigAssumption
    <3> QED
      BY <2>2, <3>1, NumberIsInteger DEF ToUnsigned
  <2>3. ASSUME ToSigned(text) \notin {Throws, Bad}
        PROVE  ToSigned(text) \in Int
    <3>1. -(Dword \div 2) \in Int /\ (Dword \div 2) - 1 \in Int
      BY ConfigAssumption
    <3> QED
      BY <2>3, <3>1, NumberIsInteger DEF ToSigned
  <2>4. PortOf(s) \in {DhcpPort, TftpPort, ToUnsigned(text), ToSigned(text)}
    <3>1. OrDefault(ToSigned(text), TftpPort) \in {ToSigned(text), TftpPort}
      BY DEF OrDefault
    <3> QED
      BY <3>1 DEF PortOf
  <2> HIDE DEF text
  <2> QED
    BY <1>1, <2>1, <2>2, <2>3, <2>4
<1>3. PortOf(s) % Word \in 0..Word-1
  BY <1>2, ConfigAssumption
<1> QED
  BY <1>1, <1>3

-----------------------------------------------------------------------------
(* The inductive invariant. *)

(* What both servers are given: the one host, and a port of their own.         *)
IsAddress(a) == a = [host |-> HostOf, port |-> a.port] /\ a.port \in 0..Word-1

Unstarted(s) == threads[s] = {} /\ m_sock[s] = Invalid
Made(s) == life[s] = "made" /\ IsAddress(address[s])
Bound(s) == m_sock[s] \in DOMAIN sockets /\ sockets[m_sock[s]] = address[s]
Serving(s) == {"incoming", "outgoing"} \subseteq threads[s] /\ Bound(s)

Ending == {"unwind", "failed", "returned", "killed", "aborted"}

(* The types; there are addresses of one shape.                                *)
Types ==
  /\ place \in Places
  /\ current \in Servers
  /\ DOMAIN address = Servers
  /\ \A s \in Servers : address[s] = None \/ IsAddress(address[s])
  /\ life \in [Servers -> {"none", "made", "ceasing", "gone"}]
  /\ threads \in [Servers -> SUBSET {"incoming", "outgoing", "sessions"}]
  /\ "sessions" \notin threads["dhcp"]
  /\ m_sock \in [Servers -> Handles \cup {Invalid}]
  /\ fresh \in Handles \cup {Invalid}
  /\ DOMAIN sockets \subseteq Handles
  /\ {thrown, handler, stop} \subseteq BOOLEAN

(* What there is of the servers in each place that main() gets to without an   *)
(* exception.                                                                  *)
Progress ==
  /\ place = "config" =>
       /\ current = "dhcp"
       /\ \A s \in Servers : life[s] = "none" /\ address[s] = None /\ Unstarted(s)
  /\ place = "make" =>
       /\ \A s \in Servers : Unstarted(s)
       /\ life["tftp"] = "none"
       /\ IF current = "dhcp" THEN life["dhcp"] = "none" ELSE Made("dhcp")
  /\ place \in {"socket", "bind", "threads", "loop"} =>
       /\ \A s \in Servers : Made(s)
       /\ IF current = "tftp" THEN Serving("dhcp") ELSE Unstarted("tftp")
  /\ place \in {"socket", "bind"} => Unstarted(current)
  /\ place = "threads" => Bound(current) /\ threads[current] \in {{}, {"incoming"}}
  /\ place = "loop" => current = "tftp" /\ Serving("tftp")
  /\ place \in {"threads", "loop"} /\ current = "tftp" =>
       address["tftp"] # address["dhcp"] \/ address["tftp"].port = 0

(* What the destructors have to do, and what is done when they have run.       *)
Unwinding ==
  /\ thrown => place \in Ending
  /\ \A s \in Servers :
       /\ life[s] \in {"ceasing", "gone"} => place \in Ending
       /\ life[s] \in {"none", "gone"} => Unstarted(s)
       /\ place \in {"failed", "returned"} => life[s] \in {"none", "gone"}

(* make_udp has a socket only from its making to its binding, and nobody else  *)
(* has that one.                                                               *)
FreshInv ==
  /\ place = "bind" => fresh # Invalid
  /\ place \notin {"bind", "killed", "aborted"} => fresh = Invalid
  /\ fresh # Invalid => /\ fresh \in DOMAIN sockets
                        /\ sockets[fresh] = None
                        /\ \A s \in Servers : m_sock[s] # fresh

BootpdInv == Types /\ Progress /\ Unwinding /\ FreshInv /\ SocketsAccounted

-----------------------------------------------------------------------------
(* The program starts with nothing: no server, no thread, no socket.           *)
LEMMA InvInit == BootpdInit => BootpdInv
<1> SUFFICES ASSUME BootpdInit
             PROVE  BootpdInv
  OBVIOUS
<1> USE DEF BootpdInit, Servers
<1>1. DOMAIN sockets = {}
  OBVIOUS
<1>2. Types
  BY <1>1 DEF Types, Places
<1>3. Progress /\ Unwinding /\ FreshInv
  BY DEF Progress, Unwinding, FreshInv, Unstarted
<1>4. SocketsAccounted
  BY <1>1 DEF SocketsAccounted
<1> QED
  BY <1>2, <1>3, <1>4 DEF BootpdInv

(* Once the configuration is read, the host is the same for ever.              *)
LEMMA SameHost == UNCHANGED config => HostOf' = HostOf
BY DEF HostOf, Value

(* A new socket is one more, which is not bound.                               *)
LEMMA SocketIsNew ==
  ASSUME MakeSocket
  PROVE  \/ /\ place' = "unwind" /\ thrown'
            /\ UNCHANGED <<sockets, fresh>>
         \/ /\ place' = "bind" /\ UNCHANGED thrown
            /\ fresh' \in Handles \ DOMAIN sockets
            /\ DOMAIN sockets' = DOMAIN sockets \cup {fresh'}
            /\ sockets'[fresh'] = None
            /\ \A k \in DOMAIN sockets : sockets'[k] = sockets[k]
<1>1. CASE Throw /\ UNCHANGED <<sockets, fresh>>
  BY <1>1 DEF Throw
<1>2. ASSUME NEW h \in Handles \ DOMAIN sockets,
             sockets' = [k \in DOMAIN sockets \cup {h} |-> IF k = h THEN None ELSE sockets[k]],
             fresh' = h, place' = "bind", UNCHANGED thrown
      PROVE  /\ fresh' \in Handles \ DOMAIN sockets
             /\ DOMAIN sockets' = DOMAIN sockets \cup {fresh'}
             /\ sockets'[fresh'] = None
             /\ \A k \in DOMAIN sockets : sockets'[k] = sockets[k]
  BY <1>2
<1> QED
  BY <1>1, <1>2 DEF MakeSocket

(* Every step keeps the types.                                                 *)
LEMMA TypesStep == BootpdInv /\ [BootpdNext]_bootpdVars => Types'
<1> SUFFICES ASSUME BootpdInv, [BootpdNext]_bootpdVars
             PROVE  Types'
  OBVIOUS
<1> USE DEF BootpdInv, Types, Servers, inputs, servers, handles, control
<1>1. CASE UNCHANGED bootpdVars
  BY <1>1, SameHost DEF bootpdVars, IsAddress
<1>2. CASE ReadConfig
  BY <1>2 DEF ReadConfig, Throw, Places, Progress
<1>3. CASE MakeServer
  <2>1. HostOf' = HostOf
    BY <1>3, SameHost DEF MakeServer
  <2>2. ASSUME AddressOf(current) # Throws
        PROVE  IsAddress(AddressOf(current))
    BY <2>2, AddressIsTyped DEF IsAddress
  <2>3. \A s \in Servers : (address[s] = None \/ IsAddress(address[s]))'
    BY <1>3, <2>1, <2>2 DEF MakeServer, IsAddress
  <2> QED
    <3>1. /\ place' \in Places
          /\ current' \in Servers
          /\ thrown' \in BOOLEAN
      BY <1>3 DEF MakeServer, Throw, Places
    <3>2. /\ DOMAIN address' = Servers
          /\ life' \in [Servers -> {"none", "made", "ceasing", "gone"}]
      BY <1>3 DEF MakeServer
    <3>3. UNCHANGED <<threads, handles, control>>
      BY <1>3 DEF MakeServer
    <3> QED
      BY <2>3, <3>1, <3>2, <3>3
<1>4. CASE MakeSocket
  <2>1. /\ DOMAIN sockets' \subseteq Handles
        /\ fresh' \in Handles \cup {Invalid}
        /\ place' \in Places /\ thrown' \in BOOLEAN
    BY <1>4, SocketIsNew DEF Places
  <2>2. UNCHANGED <<inputs, current, config, servers, m_sock, control>>
    BY <1>4 DEF MakeSocket
  <2> QED
    BY <2>1, <2>2, SameHost DEF IsAddress
<1>5. CASE BindSocket
  <2>1. /\ DOMAIN sockets' = DOMAIN sockets
        /\ m_sock' \in [Servers -> Handles \cup {Invalid}]
        /\ fresh' \in Handles \cup {Invalid}
    BY <1>5 DEF BindSocket
  <2>2. place' \in Places /\ thrown' \in BOOLEAN
    BY <1>5 DEF BindSocket, Throw, Places
  <2>3. UNCHANGED <<inputs, current, config, servers, control>>
    BY <1>5 DEF BindSocket
  <2> QED
    BY <2>1, <2>2, <2>3, SameHost DEF IsAddress
<1>6. CASE StartThread \/ StartFails
  <2>1. /\ threads' \in [Servers -> SUBSET {"incoming", "outgoing", "sessions"}]
        /\ "sessions" \notin threads'["dhcp"]
    BY <1>6 DEF StartThread, StartFails
  <2>2. /\ place' \in Places
        /\ current' \in Servers
        /\ thrown' \in BOOLEAN
    BY <1>6 DEF StartThread, StartFails, Throw, Places
  <2>3. UNCHANGED <<inputs, config, address, life, handles, control>>
    BY <1>6 DEF StartThread, StartFails
  <2> QED
    BY <2>1, <2>2, <2>3, SameHost DEF IsAddress
<1>7. CASE InstallHandler \/ Poll \/ CtrlC \/ PressKey \/ LeaveTry \/ ServerAborts
  BY <1>7, SameHost DEF InstallHandler, Poll, CtrlC, PressKey, LeaveTry, ServerAborts, Throw, Places, IsAddress
<1>8. CASE Cease \/ Vanish
  BY <1>8, SameHost DEF Cease, Vanish, Destroyed, IsAddress
<1>9. CASE TftpSessions \/ \E s \in Servers : EndThread(s)
  BY <1>9, SameHost DEF TftpSessions, EndThread, ThreadsBecome, IsAddress
<1> QED
  BY <1>1, <1>2, <1>3, <1>4, <1>5, <1>6, <1>7, <1>8, <1>9 DEF BootpdNext, MainStep

(* Every step of main() keeps what its place says.                             *)
LEMMA ProgressStep == BootpdInv /\ [BootpdNext]_bootpdVars => Progress'
<1> SUFFICES ASSUME BootpdInv, [BootpdNext]_bootpdVars
             PROVE  Progress'
  OBVIOUS
<1> USE DEF BootpdInv, Types, Progress, Servers, inputs, servers, handles, control,
            Unstarted, Made, Serving, Bound
<1>1. CASE UNCHANGED bootpdVars
  BY <1>1, SameHost DEF bootpdVars, IsAddress
<1>2. CASE ReadConfig
  BY <1>2 DEF ReadConfig, Throw
<1>3. CASE MakeServer
  <2>1. HostOf' = HostOf
    BY <1>3, SameHost DEF MakeServer
  <2>2. ASSUME AddressOf(current) # Throws
        PROVE  IsAddress(AddressOf(current))
    BY <2>2, AddressIsTyped DEF IsAddress
  <2> QED
    BY <1>3, <2>1, <2>2 DEF MakeServer, Throw, IsAddress
<1>4. CASE MakeSocket
  BY <1>4, SameHost DEF MakeSocket, Throw, IsAddress
<1>5. CASE BindSocket
  BY <1>5, SameHost DEF BindSocket, Throw, IsAddress, FreshInv, InUse
<1>6. CASE StartThread \/ StartFails
  BY <1>6, SameHost DEF StartThread, StartFails, Throw, IsAddress
<1>7. CASE InstallHandler \/ Poll \/ CtrlC \/ PressKey \/ LeaveTry \/ ServerAborts
  BY <1>7, SameHost DEF InstallHandler, Poll, CtrlC, PressKey, LeaveTry, ServerAborts, Throw, IsAddress
<1>8. CASE Cease \/ Vanish
  BY <1>8 DEF Cease, Vanish
<1>9. CASE TftpSessions \/ \E s \in Servers : EndThread(s)
  BY <1>9, SameHost DEF TftpSessions, EndThread, ThreadsBecome, IsAddress, Unwinding, Ending
<1> QED
  BY <1>1, <1>2, <1>3, <1>4, <1>5, <1>6, <1>7, <1>8, <1>9 DEF BootpdNext, MainStep

(* Every step keeps what the destructors rely on.                              *)
LEMMA UnwindingStep == BootpdInv /\ [BootpdNext]_bootpdVars => Unwinding'
<1> SUFFICES ASSUME BootpdInv, [BootpdNext]_bootpdVars
             PROVE  Unwinding'
  OBVIOUS
<1> USE DEF BootpdInv, Types, Unwinding, Servers, inputs, servers, handles, control,
            Unstarted, Ending
<1>1. CASE UNCHANGED bootpdVars
  BY <1>1 DEF bootpdVars
<1>2. CASE ReadConfig \/ MakeServer
  BY <1>2 DEF ReadConfig, MakeServer, Throw, Progress
<1>3. CASE MakeSocket
  BY <1>3, SocketIsNew DEF MakeSocket
<1>4. CASE BindSocket
  BY <1>4 DEF BindSocket, Throw, Progress, Made
<1>5. CASE StartThread \/ StartFails
  BY <1>5 DEF StartThread, StartFails, Throw, Progress, Made
<1>6. CASE InstallHandler \/ Poll \/ CtrlC \/ PressKey \/ ServerAborts
  BY <1>6 DEF InstallHandler, Poll, CtrlC, PressKey, ServerAborts, Throw, Running
<1>7. CASE LeaveTry
  BY <1>7 DEF LeaveTry, Unmade
<1>8. CASE Cease \/ Vanish
  BY <1>8 DEF Cease, Vanish, Destroyed
<1>9. CASE TftpSessions \/ \E s \in Servers : EndThread(s)
  BY <1>9 DEF TftpSessions, EndThread, ThreadsBecome
<1> QED
  BY <1>1, <1>2, <1>3, <1>4, <1>5, <1>6, <1>7, <1>8, <1>9 DEF BootpdNext, MainStep

(* Every step keeps the socket of make_udp its own.                            *)
LEMMA FreshStep == BootpdInv /\ [BootpdNext]_bootpdVars => FreshInv'
<1> SUFFICES ASSUME BootpdInv, [BootpdNext]_bootpdVars
             PROVE  FreshInv'
  OBVIOUS
<1> USE DEF BootpdInv, Types, FreshInv, Servers, inputs, servers, handles, control
<1>1. CASE UNCHANGED bootpdVars
  BY <1>1 DEF bootpdVars
<1>2. CASE ReadConfig \/ MakeServer
  BY <1>2 DEF ReadConfig, MakeServer, Throw
<1>3. CASE MakeSocket
  <2>1. place = "socket" /\ UNCHANGED m_sock
    BY <1>3 DEF MakeSocket
  <2> QED
    BY <1>3, <2>1, SocketIsNew, BootpdAssumption DEF SocketsAccounted
<1>4. CASE BindSocket
  BY <1>4, BootpdAssumption DEF BindSocket, Throw
<1>5. CASE StartThread \/ StartFails
  BY <1>5 DEF StartThread, StartFails, Throw
<1>6. CASE InstallHandler \/ Poll \/ CtrlC \/ PressKey \/ LeaveTry \/ ServerAborts
  BY <1>6 DEF InstallHandler, Poll, CtrlC, PressKey, LeaveTry, ServerAborts, Throw, Running
<1>7. CASE Cease \/ Vanish
  BY <1>7 DEF Cease, Vanish
<1>8. CASE TftpSessions \/ \E s \in Servers : EndThread(s)
  BY <1>8 DEF TftpSessions, EndThread, ThreadsBecome
<1> QED
  BY <1>1, <1>2, <1>3, <1>4, <1>5, <1>6, <1>7, <1>8 DEF BootpdNext, MainStep

(* Every step keeps the account of the sockets.                                *)
LEMMA SocketsStep == BootpdInv /\ [BootpdNext]_bootpdVars => SocketsAccounted'
<1> SUFFICES ASSUME BootpdInv, [BootpdNext]_bootpdVars
             PROVE  SocketsAccounted'
  OBVIOUS
<1> USE DEF BootpdInv, Types, SocketsAccounted, Servers, inputs, servers, handles, control
<1>1. CASE UNCHANGED bootpdVars
  BY <1>1 DEF bootpdVars
<1>2. CASE ReadConfig \/ MakeServer
  BY <1>2 DEF ReadConfig, MakeServer, Throw
<1>3. CASE MakeSocket
  <2>1. /\ place = "socket" /\ fresh = Invalid
        /\ UNCHANGED <<m_sock, threads>>
    BY <1>3 DEF MakeSocket, FreshInv
  <2> QED
    BY <1>3, <2>1, SocketIsNew, BootpdAssumption
<1>4. CASE BindSocket
  BY <1>4, BootpdAssumption DEF BindSocket, Throw, FreshInv, Progress, Unstarted, Unwinding, Ending
<1>5. CASE StartThread \/ StartFails
  BY <1>5, BootpdAssumption DEF StartThread, StartFails, Throw, Progress, Bound
<1>6. CASE InstallHandler \/ Poll \/ CtrlC \/ PressKey \/ LeaveTry \/ ServerAborts
  BY <1>6 DEF InstallHandler, Poll, CtrlC, PressKey, LeaveTry, ServerAborts, Throw
<1>7. CASE Cease
  BY <1>7 DEF Cease
<1>8. CASE Vanish
  BY <1>8, BootpdAssumption DEF Vanish, Destroyed, FreshInv
<1>9. CASE TftpSessions \/ \E s \in Servers : EndThread(s)
  BY <1>9 DEF TftpSessions, EndThread, ThreadsBecome
<1> QED
  BY <1>1, <1>2, <1>3, <1>4, <1>5, <1>6, <1>7, <1>8, <1>9 DEF BootpdNext, MainStep

(* The invariant is inductive.                                                 *)
LEMMA InvAlways == BootpdSpec => []BootpdInv
BY InvInit, TypesStep, ProgressStep, UnwindingStep, FreshStep, SocketsStep, PTL DEF BootpdInv, BootpdSpec

-----------------------------------------------------------------------------
(* The types.                                                                  *)
THEOREM BootpdTypeCorrect == BootpdSpec => []BootpdTypeOK
<1>1. BootpdInv => BootpdTypeOK
  BY DEF BootpdInv, Types, BootpdTypeOK, IsAddress
<1> QED
  BY <1>1, InvAlways, PTL

(* Main() gets to its loop only when both servers serve, each with both of its *)
(* threads and a socket of its own that is bound to its address, and the two   *)
(* addresses do not conflict: whatever the configuration, and whatever part of *)
(* the start the system has refused.                                           *)
THEOREM BothServersServe == BootpdSpec => []BothServe
<1>1. ASSUME BootpdInv, place = "loop"
      PROVE  BothServe
  <2>1. /\ current = "tftp"
        /\ \A s \in Servers : Serving(s) /\ IsAddress(address[s])
    BY <1>1 DEF BootpdInv, Progress, Servers, Made
  <2>2. /\ address["dhcp"] = [host |-> HostOf, port |-> address["dhcp"].port]
        /\ address["tftp"] = [host |-> HostOf, port |-> address["tftp"].port]
    BY <2>1 DEF IsAddress, Servers
  <2>3. address["tftp"] # address["dhcp"] \/ address["tftp"].port = 0
    BY <1>1, <2>1 DEF BootpdInv, Progress
  <2>4. address["dhcp"].host = address["tftp"].host
    <3>1. address["dhcp"].host = HostOf
      BY <2>2
    <3>2. address["tftp"].host = HostOf
      BY <2>2
    <3> QED
      BY <3>1, <3>2
  <2>5. address["dhcp"].port # address["tftp"].port \/ address["dhcp"].port = 0
    BY <2>2, <2>3
  <2> QED
    BY <2>1, <2>4, <2>5 DEF BothServe, Serving, Bound
<1>2. BootpdInv => BothServe
  BY <1>1 DEF BothServe
<1> QED
  BY <1>2, InvAlways, PTL

(* No socket is lost but the one that a failed bind() leaves open, which takes *)
(* no address; none is held by two servers, or closed while a thread uses it.  *)
THEOREM SocketsAreAccounted == BootpdSpec => []SocketsAccounted
BY InvAlways, PTL DEF BootpdInv

(* Once the destructors have run nothing serves, wherever the program failed.  *)
THEOREM NothingServesAtEnd == BootpdSpec => []EndedServesNothing
<1>1. ASSUME BootpdInv, place \in {"failed", "returned"}
      PROVE  EndedServesNothing
  <2>1. \A s \in Servers : Unstarted(s)
    BY <1>1 DEF BootpdInv, Unwinding
  <2>2. fresh = Invalid
    BY <1>1 DEF BootpdInv, FreshInv
  <2>3. \A h \in DOMAIN sockets : sockets[h] = None
    BY <1>1, <2>1, <2>2, BootpdAssumption DEF BootpdInv, Types, SocketsAccounted, Unstarted
  <2> QED
    BY <2>1, <2>3 DEF EndedServesNothing, Unstarted
<1>2. BootpdInv => EndedServesNothing
  BY <1>1 DEF EndedServesNothing
<1> QED
  BY <1>2, InvAlways, PTL

-----------------------------------------------------------------------------
(* The program uses each server as ServerLife says: it is made once, started   *)
(* when it is made, and destroyed, if ever it was made, by waiting for every   *)
(* one of its threads.                                                         *)
THEOREM ServersAreUsed == BootpdSpec => ServersLive
<1>1. BootpdInit => Dhcp!Init /\ Tftp!Init
  BY DEF BootpdInit, Dhcp!Init, Tftp!Init, lifeOf, Servers
<1>2. BootpdInv /\ [BootpdNext]_bootpdVars => [Dhcp!Next]_Dhcp!lifeVars
  <2> SUFFICES ASSUME BootpdInv, [BootpdNext]_bootpdVars
               PROVE  [Dhcp!Next]_Dhcp!lifeVars
    OBVIOUS
  <2> USE DEF BootpdInv, Types, Servers, inputs, servers, handles, control, lifeOf,
              Dhcp!Next, Dhcp!lifeVars, Dhcp!Own
  <2>1. CASE UNCHANGED bootpdVars
    BY <2>1 DEF bootpdVars
  <2>2. CASE ReadConfig
    BY <2>2 DEF ReadConfig, Throw, Dhcp!Abort
  <2>3. CASE MakeServer
    BY <2>3 DEF MakeServer, Throw, Progress, Made, Dhcp!Make
  <2>4. CASE MakeSocket \/ BindSocket \/ InstallHandler \/ Poll \/ PressKey \/ LeaveTry \/ StartFails
    BY <2>4 DEF MakeSocket, BindSocket, InstallHandler, Poll, PressKey, LeaveTry, StartFails, Throw
  <2>5. CASE StartThread
    BY <2>5 DEF StartThread, Progress, Made, Dhcp!StartThread
  <2>6. CASE CtrlC \/ ServerAborts
    BY <2>6 DEF CtrlC, ServerAborts, Running, Dhcp!Abort
  <2>7. CASE Cease
    BY <2>7 DEF Cease, Destroyed, Dhcp!Cease
  <2>8. CASE Vanish
    BY <2>8 DEF Vanish, Destroyed, Dhcp!Vanish
  <2>9. CASE TftpSessions
    BY <2>9 DEF TftpSessions, ThreadsBecome
  <2>10. ASSUME NEW s \in Servers, EndThread(s)
         PROVE  [Dhcp!Next]_Dhcp!lifeVars
    BY <2>10 DEF EndThread, ThreadsBecome, Running, Dhcp!EndThread
  <2> QED
    BY <2>1, <2>2, <2>3, <2>4, <2>5, <2>6, <2>7, <2>8, <2>9, <2>10 DEF BootpdNext, MainStep
<1>3. BootpdInv /\ [BootpdNext]_bootpdVars => [Tftp!Next]_Tftp!lifeVars
  <2> SUFFICES ASSUME BootpdInv, [BootpdNext]_bootpdVars
               PROVE  [Tftp!Next]_Tftp!lifeVars
    OBVIOUS
  <2> USE DEF BootpdInv, Types, Servers, inputs, servers, handles, control, lifeOf,
              Tftp!Next, Tftp!lifeVars, Tftp!Own
  <2>1. CASE UNCHANGED bootpdVars
    BY <2>1 DEF bootpdVars
  <2>2. CASE ReadConfig
    BY <2>2 DEF ReadConfig, Throw, Tftp!Abort
  <2>3. CASE MakeServer
    BY <2>3 DEF MakeServer, Throw, Progress, Made, Tftp!Make
  <2>4. CASE MakeSocket \/ BindSocket \/ InstallHandler \/ Poll \/ PressKey \/ LeaveTry \/ StartFails
    BY <2>4 DEF MakeSocket, BindSocket, InstallHandler, Poll, PressKey, LeaveTry, StartFails, Throw
  <2>5. CASE StartThread
    BY <2>5 DEF StartThread, Progress, Made, Tftp!StartThread
  <2>6. CASE CtrlC \/ ServerAborts
    BY <2>6 DEF CtrlC, ServerAborts, Running, Tftp!Abort
  <2>7. CASE Cease
    BY <2>7 DEF Cease, Destroyed, Tftp!Cease
  <2>8. CASE Vanish
    BY <2>8 DEF Vanish, Destroyed, Tftp!Vanish
  <2>9. CASE TftpSessions
    BY <2>9 DEF TftpSessions, ThreadsBecome, Tftp!StartSession, Tftp!EndSessions
  <2>10. ASSUME NEW s \in Servers, EndThread(s)
         PROVE  [Tftp!Next]_Tftp!lifeVars
    BY <2>10 DEF EndThread, ThreadsBecome, Running, Tftp!EndThread
  <2> QED
    BY <2>1, <2>2, <2>3, <2>4, <2>5, <2>6, <2>7, <2>8, <2>9, <2>10 DEF BootpdNext, MainStep
<1>4. BootpdSpec => Dhcp!Spec
  BY <1>1, <1>2, InvAlways, PTL DEF BootpdSpec, Dhcp!Spec
<1>5. BootpdSpec => Tftp!Spec
  BY <1>1, <1>3, InvAlways, PTL DEF BootpdSpec, Tftp!Spec
<1> QED
  BY <1>4, <1>5 DEF ServersLive

-----------------------------------------------------------------------------
(* The configuration, line by line: an induction on the number of lines *)

(* Every set of natural numbers has a least element.                           *)
LEMMA LeastElement ==
  ASSUME NEW T \in SUBSET Nat, T # {}
  PROVE  \E x \in T : \A y \in T : x <= y
<1> DEFINE Less == {pair \in Nat \X Nat : pair[1] < pair[2]}
<1>1. IsWellFoundedOn(Less, Nat)
  BY NatLessThanWellFounded DEF OpToRel
<1>2. PICK x \in T : \A y \in T : <<y, x>> \notin Less
  <2> HIDE DEF Less
  <2> QED
    BY <1>1, WFMin
<1>3. \A y \in T : y \in Nat /\ (<<y, x>> \in Less <=> y < x)
  OBVIOUS
<1>4. \A y \in T : ~(y < x)
  BY <1>2, <1>3
<1> QED
  BY <1>3, <1>4

(* g is the configuration after each of the first n lines.                     *)
IsParsed(g, lines, others, n) ==
  g = [i \in 0..n |-> IF i = 0 THEN EmptyConfig ELSE ReadLine(g[i-1], lines, others, i)]

(* There is one for any number of lines: it can always be made longer.         *)
LEMMA ParsedExists ==
  ASSUME NEW lines, NEW others, NEW n \in Nat
  PROVE  \E g : IsParsed(g, lines, others, n)
<1> DEFINE T == {m \in Nat : ~\E g : IsParsed(g, lines, others, m)}
<1> SUFFICES ASSUME T # {} PROVE FALSE
  OBVIOUS
<1>1. PICK m \in T : \A k \in T : m <= k
  BY LeastElement
<1>2. CASE m = 0
  <2>1. IsParsed([i \in 0..0 |-> EmptyConfig], lines, others, 0)
    BY DEF IsParsed
  <2> QED
    BY <1>1, <1>2, <2>1
<1>3. CASE m # 0
  <2>1. m \in Nat /\ m - 1 \in Nat /\ m - 1 \notin T
    BY <1>1, <1>3
  <2>2. PICK g : IsParsed(g, lines, others, m - 1)
    BY <2>1
  <2> DEFINE h == [i \in 0..m |-> IF i = m THEN ReadLine(g[m-1], lines, others, m) ELSE g[i]]
  <2>3. g = [i \in 0..m-1 |-> IF i = 0 THEN EmptyConfig ELSE ReadLine(g[i-1], lines, others, i)]
    BY <2>2 DEF IsParsed
  <2>4. h[m] = ReadLine(h[m-1], lines, others, m)
    BY <2>1
  <2>5. ASSUME NEW i \in 0..m-1
        PROVE  h[i] = IF i = 0 THEN EmptyConfig ELSE ReadLine(h[i-1], lines, others, i)
    <3>1. h[i] = g[i] /\ (i # 0 => h[i-1] = g[i-1])
      BY <2>1
    <3> QED
      BY <2>3, <3>1
  <2>6. ASSUME NEW i \in 0..m
        PROVE  h[i] = IF i = 0 THEN EmptyConfig ELSE ReadLine(h[i-1], lines, others, i)
    <3>1. CASE i = m
      BY <1>3, <2>4, <3>1
    <3>2. CASE i # m
      <4>1. i \in 0..m-1
        BY <2>1, <3>2
      <4> QED
        BY <2>5, <4>1
    <3> QED
      BY <3>1, <3>2
  <2>7. h = [i \in 0..m |-> h[i]]
    OBVIOUS
  <2> HIDE DEF h
  <2>8. IsParsed(h, lines, others, m)
    BY <2>6, <2>7 DEF IsParsed
  <2> QED
    BY <1>1, <2>8
<1> QED
  BY <1>2, <1>3

(* So Parsed is that function.                                                 *)
LEMMA ParsedByLine ==
  ASSUME NEW lines, NEW others, Len(lines) \in Nat, Len(others) \in Nat
  PROVE  IsParsed(Parsed(lines, others), lines, others, Len(lines) + Len(others))
<1>1. \E g : IsParsed(g, lines, others, Len(lines) + Len(others))
  BY ParsedExists
<1> QED
  BY <1>1 DEF Parsed, IsParsed

(* The shape of a config_ini.                                                  *)
IsConfig(c) ==
  /\ c = [data |-> c.data, section |-> c.section, thrown |-> c.thrown, undefined |-> c.undefined]
  /\ c.thrown \in BOOLEAN

SetsOne(line) == line.kind \in {"setting", "valueless"}

Assigned(c, section, line) ==
  [s \in DOMAIN c.data \cup {<<section, line.key>>} |->
     IF s = <<section, line.key>>
     THEN IF line.kind = "valueless" THEN Empty ELSE Unquoted(line.value)
     ELSE c.data[s]]

(* What one line does, if it does not throw.                                   *)
LineRead(c, line, r) ==
  /\ IsConfig(r)
  /\ ~r.thrown =>
       /\ ~c.thrown
       /\ r.section = IF line.kind = "section" THEN line.name ELSE c.section
       /\ r.data = IF SetsOne(line) THEN Assigned(c, c.section, line) ELSE c.data

(* parse_line does that.                                                       *)
LEMMA ParseLineReads ==
  ASSUME NEW c, IsConfig(c), NEW line, IsLine(line)
  PROVE  LineRead(c, line, parse_line(c, line))
<1>1. CASE c.thrown
  <2>1. parse_line(c, line) = c
    BY <1>1, Zenon DEF parse_line
  <2> QED
    BY <1>1, <2>1 DEF LineRead
<1>0. CASE ~c.thrown /\ line.kind = "blank"
  <2>1. parse_line(c, line) = c
    BY <1>0, Zenon DEF parse_line
  <2> QED
    BY <1>0, <2>1 DEF LineRead, SetsOne
<1>2. ASSUME NEW key, NEW value
      PROVE  /\ Assign(c, key, value).section = c.section
             /\ Assign(c, key, value).thrown = c.thrown
             /\ Assign(c, key, value).undefined = c.undefined
             /\ Assign(c, key, value).data =
                  [s \in DOMAIN c.data \cup {<<c.section, key>>} |->
                     IF s = <<c.section, key>> THEN value ELSE c.data[s]]
             /\ IsConfig(Assign(c, key, value))
  BY DEF Assign, IsConfig
<1>3. CASE ~c.thrown /\ line.kind = "section"
  <2>1. parse_line(c, line) = [c EXCEPT !.section = line.name]
    BY <1>3, Zenon DEF parse_line
  <2> QED
    BY <1>3, <2>1 DEF LineRead, SetsOne, IsConfig
<1>4. CASE ~c.thrown /\ line.kind = "setting"
  <2>1. parse_line(c, line) = Assign(c, line.key, Unquoted(line.value))
    BY <1>4, Zenon DEF parse_line
  <2> QED
    BY <1>2, <1>4, <2>1 DEF LineRead, SetsOne, Assigned
<1>5. CASE ~c.thrown /\ line.kind = "valueless"
  <2> DEFINE a == Assign(c, line.key, Empty)
  <2>1. parse_line(c, line) = [a EXCEPT !.undefined = TRUE]
    BY <1>5, Zenon DEF parse_line
  <2>2. IsConfig(a) /\ a.section = c.section /\ a.thrown = c.thrown /\ a.data = Assigned(c, c.section, line)
    BY <1>2, <1>5 DEF Assigned
  <2> HIDE DEF a
  <2> QED
    BY <1>5, <2>1, <2>2 DEF LineRead, SetsOne, IsConfig
<1>6. CASE ~c.thrown /\ line.kind = "quote"
  <2>1. parse_line(c, line) = [c EXCEPT !.undefined = TRUE, !.thrown = TRUE]
    BY <1>6, Zenon DEF parse_line
  <2> QED
    BY <2>1 DEF LineRead, IsConfig
<1>7. CASE ~c.thrown /\ line.kind = "bad"
  <2>1. parse_line(c, line) = [c EXCEPT !.thrown = TRUE]
    BY <1>7, Zenon DEF parse_line
  <2> QED
    BY <2>1 DEF LineRead, IsConfig
<1> QED
  BY <1>0, <1>1, <1>3, <1>4, <1>5, <1>6, <1>7 DEF IsLine

(* insert_line does it in NoSection.                                           *)
LEMMA InsertLineReads ==
  ASSUME NEW c, IsConfig(c), NEW line, IsLine(line)
  PROVE  LineRead([c EXCEPT !.section = NoSection], line, insert_line(c, line))
<1>1. IsConfig([c EXCEPT !.section = NoSection])
  BY DEF IsConfig
<1> QED
  BY <1>1, ParseLineReads DEF insert_line

-----------------------------------------------------------------------------
(* What the lines have come to after n of them, unless one has thrown.         *)
Tracks(c, n) ==
  /\ IsConfig(c)
  /\ ~c.thrown => SaidBy(c.data, n) /\ (n <= Len(Written) => c.section = SectionAt(n))

(* The lines are lines.                                                        *)
LEMMA LinesAreLines ==
  ASSUME arguments \in CommandLines
  PROVE  /\ Len(Written) \in Nat /\ Len(Overriding(arguments)) \in Nat
         /\ \A i \in 1..Len(Written) : IsLine(Written[i])
         /\ \A i \in 1..Len(Overriding(arguments)) : IsLine(Overriding(arguments)[i])
<1>1. IsFile(File(arguments)) /\ Len(<<>>) = 0
  BY BootpdAssumption
<1> QED
  BY <1>1, BootpdAssumption DEF Written, LinesOf, IsFile

(* The section of a line: that of the line before, unless one begins.          *)
LEMMA SectionGoesOn ==
  ASSUME arguments \in CommandLines, NEW n \in Nat
  PROVE  /\ SectionAt(0) = NoSection
         /\ n + 1 > Len(Written) => SectionAt(n + 1) = NoSection
         /\ n + 1 <= Len(Written) =>
              SectionAt(n + 1) = IF Written[n+1].kind = "section" THEN Written[n+1].name
                                 ELSE SectionAt(n)
<1>1. Len(Written) \in Nat
  BY LinesAreLines
<1>2. SectionAt(0) = NoSection
  BY <1>1 DEF SectionAt, Heads
<1>3. n + 1 > Len(Written) => SectionAt(n + 1) = NoSection
  BY <1>1 DEF SectionAt, Heads
<1>4. CASE n + 1 <= Len(Written) /\ Written[n+1].kind # "section"
  <2>1. Heads(n + 1) = Heads(n)
    <3>1. \A j : j \in 1..n+1 <=> j \in 1..n \/ j = n + 1
      OBVIOUS
    <3>2. ~(n + 1 > Len(Written)) /\ ~(n > Len(Written))
      BY <1>1, <1>4
    <3> QED
      BY <1>4, <3>1, <3>2 DEF Heads
  <2>2. SectionAt(n + 1) = SectionAt(n)
    BY <2>1 DEF SectionAt
  <2> QED
    BY <1>1, <1>2, <1>4, <2>2
<1>5. CASE n + 1 <= Len(Written) /\ Written[n+1].kind = "section"
  <2>1. n + 1 \in Heads(n + 1) /\ \A k \in Heads(n + 1) : k \in Int /\ k <= n + 1
    BY <1>1, <1>5 DEF Heads
  <2>2. Latest(Heads(n + 1)) = n + 1
    <3> DEFINE j == Latest(Heads(n + 1))
    <3>1. j \in Heads(n + 1) /\ \A k \in Heads(n + 1) : k <= j
      BY <2>1 DEF Latest
    <3> QED
      BY <2>1, <3>1
  <2>3. SectionAt(n + 1) = Written[n+1].name
    BY <2>1, <2>2 DEF SectionAt
  <2> QED
    BY <1>1, <1>2, <1>5, <2>3
<1> QED
  BY <1>2, <1>3, <1>4, <1>5

(* A line that sets nothing leaves what the others said.                       *)
LEMMA NothingSaid ==
  ASSUME NEW n \in Nat, NEW data, SaidBy(data, n), ~SetsOne(Line(n + 1))
  PROVE  SaidBy(data, n + 1)
<1>1. Setters(n + 1) = Setters(n)
  BY DEF Setters, SetsOne
<1> QED
  BY <1>1 DEF SaidBy

(* A line that sets one setting has the last word on it, and on no other.      *)
LEMMA OneSaid ==
  ASSUME NEW n \in Nat, NEW c, SaidBy(c.data, n), SetsOne(Line(n + 1))
  PROVE  SaidBy(Assigned(c, SectionAt(n + 1), Line(n + 1)), n + 1)
<1> DEFINE new == Assigned(c, SectionAt(n + 1), Line(n + 1))
           this == SettingAt(n + 1)
<1> SUFFICES SaidBy(new, n + 1)
  OBVIOUS
<1>1. /\ Setters(n + 1) = Setters(n) \cup {n + 1}
      /\ \A i \in Setters(n) : i \in Nat /\ i < n + 1
  BY DEF Setters, SetsOne
<1>2. /\ DOMAIN new = DOMAIN c.data \cup {this}
      /\ new[this] = ValueAt(n + 1)
      /\ \A s \in DOMAIN c.data : s # this => new[s] = c.data[s]
  BY DEF Assigned, SettingAt, ValueAt
<1> HIDE DEF new
<1>3. DOMAIN new = {SettingAt(i) : i \in Setters(n + 1)}
  BY <1>1, <1>2 DEF SaidBy
<1>4. ASSUME NEW i \in Setters(n + 1),
             \A j \in Setters(n + 1) : SettingAt(j) = SettingAt(i) => j <= i
      PROVE  new[SettingAt(i)] = ValueAt(i)
  <2>1. CASE i = n + 1
    BY <1>2, <2>1
  <2>2. CASE i # n + 1
    <3>1. i \in Setters(n) /\ SettingAt(i) # this
      BY <1>1, <1>4, <2>2
    <3>2. c.data[SettingAt(i)] = ValueAt(i) /\ SettingAt(i) \in DOMAIN c.data
      BY <1>1, <1>4, <3>1 DEF SaidBy
    <3> QED
      BY <1>2, <3>1, <3>2
  <2> QED
    BY <2>1, <2>2
<1> QED
  BY <1>3, <1>4 DEF SaidBy

(* One more line.                                                              *)
LEMMA LineTracks ==
  ASSUME arguments \in CommandLines, NEW n \in Nat, n < AllLines, NEW c, Tracks(c, n)
  PROVE  Tracks(ReadLine(c, Written, Overriding(arguments), n + 1), n + 1)
<1> DEFINE r == ReadLine(c, Written, Overriding(arguments), n + 1)
           before == IF n + 1 <= Len(Written) THEN c ELSE [c EXCEPT !.section = NoSection]
<1>1. Len(Written) \in Nat /\ Len(Overriding(arguments)) \in Nat
  BY LinesAreLines
<1>2. LineRead(before, Line(n + 1), r)
  <2>1. CASE n + 1 <= Len(Written)
    <3>1. IsLine(Written[n+1]) /\ Line(n + 1) = Written[n+1]
      BY <1>1, <2>1, LinesAreLines DEF Line
    <3> QED
      BY <2>1, <3>1, ParseLineReads DEF ReadLine, Tracks
  <2>2. CASE ~(n + 1 <= Len(Written))
    <3> DEFINE k == n + 1 - Len(Written)
    <3>1. k \in 1..Len(Overriding(arguments))
      BY <1>1, <2>2 DEF AllLines
    <3>2. IsLine(Overriding(arguments)[k]) /\ Line(n + 1) = Overriding(arguments)[k]
      BY <2>2, <3>1, LinesAreLines DEF Line
    <3> QED
      BY <2>2, <3>2, InsertLineReads DEF ReadLine, Tracks
  <2> QED
    BY <2>1, <2>2
<1>3. before.data = c.data /\ before.thrown = c.thrown
  BY DEF Tracks, IsConfig
<1> HIDE DEF r
<1>4. ASSUME ~r.thrown
      PROVE  SaidBy(r.data, n + 1) /\ (n + 1 <= Len(Written) => r.section = SectionAt(n + 1))
  <2>1. ~c.thrown /\ SaidBy(c.data, n)
    BY <1>2, <1>3, <1>4 DEF LineRead, Tracks
  <2>2. n + 1 <= Len(Written) => c.section = SectionAt(n) /\ Line(n + 1) = Written[n+1]
    BY <1>1, <2>1 DEF Tracks, Line
  <2>3. n + 1 <= Len(Written) => r.section = SectionAt(n + 1)
    BY <1>2, <1>4, <2>2, SectionGoesOn DEF LineRead
  <2>4. CASE SetsOne(Line(n + 1))
    <3>1. before.section = SectionAt(n + 1)
      <4>1. CASE n + 1 <= Len(Written)
        BY <2>2, <2>4, <4>1, SectionGoesOn DEF SetsOne
      <4>2. CASE ~(n + 1 <= Len(Written))
        BY <1>1, <4>2, SectionGoesOn DEF Tracks, IsConfig
      <4> QED
        BY <4>1, <4>2
    <3>2. r.data = Assigned(c, SectionAt(n + 1), Line(n + 1))
      BY <1>2, <1>3, <1>4, <2>4, <3>1 DEF LineRead, Assigned
    <3> QED
      BY <2>1, <2>3, <2>4, <3>2, OneSaid
  <2>5. CASE ~SetsOne(Line(n + 1))
    BY <1>2, <1>3, <1>4, <2>1, <2>3, <2>5, NothingSaid DEF LineRead
  <2> QED
    BY <2>4, <2>5
<1> QED
  BY <1>2, <1>4 DEF LineRead, Tracks, r

(* All of them: were there a first line after which the configuration is not   *)
(* what the lines say, the line before it would be such a line.                *)
LEMMA ParsedTracks ==
  ASSUME arguments \in CommandLines
  PROVE  Tracks(Parsed(Written, Overriding(arguments))[AllLines], AllLines)
<1> DEFINE after == Parsed(Written, Overriding(arguments))
           T == {n \in 0..AllLines : ~Tracks(after[n], n)}
<1>1. Len(Written) \in Nat /\ Len(Overriding(arguments)) \in Nat /\ AllLines \in Nat
  BY LinesAreLines DEF AllLines
<1>2. /\ after[0] = EmptyConfig
      /\ \A i \in 1..AllLines : after[i] = ReadLine(after[i-1], Written, Overriding(arguments), i)
  <2>1. IsParsed(after, Written, Overriding(arguments), AllLines)
    BY <1>1, ParsedByLine DEF AllLines
  <2> HIDE DEF after
  <2> QED
    BY <1>1, <2>1 DEF IsParsed
<1> HIDE DEF after
<1>3. Tracks(EmptyConfig, 0)
  <2>1. Setters(0) = {} /\ SectionAt(0) = NoSection
    BY SectionGoesOn DEF Setters
  <2>2. DOMAIN EmptyConfig.data = {} /\ EmptyConfig.section = NoSection /\ IsConfig(EmptyConfig)
    BY DEF EmptyConfig, IsConfig
  <2> QED
    BY <2>1, <2>2 DEF Tracks, SaidBy
<1>4. T = {}
  <2> SUFFICES ASSUME T # {} PROVE FALSE
    OBVIOUS
  <2>1. T \in SUBSET Nat
    BY <1>1
  <2>2. PICK m \in T : \A k \in T : m <= k
    BY <2>1, LeastElement
  <2>3. m # 0
    BY <1>2, <1>3, <2>2
  <2>4. m - 1 \in 0..AllLines /\ m - 1 \notin T /\ m \in 1..AllLines /\ m - 1 < AllLines
    BY <1>1, <2>2, <2>3
  <2>5. Tracks(after[m-1], m - 1) /\ m - 1 \in Nat /\ (m - 1) + 1 = m
    BY <1>1, <2>4
  <2>6. Tracks(ReadLine(after[m-1], Written, Overriding(arguments), m), m)
    BY <2>4, <2>5, LineTracks
  <2> QED
    BY <1>2, <2>2, <2>4, <2>6
<1> QED
  BY <1>1, <1>4 DEF after

(* What the lines say does not change, as the command line does not.           *)
LEMMA SaidForEver ==
  ASSUME UNCHANGED arguments
  PROVE  AllLines' = AllLines /\ \A data, n : SaidBy(data, n)' <=> SaidBy(data, n)
<1>1. Written' = Written /\ Overriding(arguments)' = Overriding(arguments)
  BY DEF Written
<1>2. ASSUME NEW i
      PROVE  Line(i)' = Line(i) /\ Heads(i)' = Heads(i)
  BY <1>1 DEF Line, Heads
<1>3. ASSUME NEW i
      PROVE  SectionAt(i)' = SectionAt(i)
  BY <1>1, <1>2 DEF SectionAt
<1>4. ASSUME NEW i
      PROVE  SettingAt(i)' = SettingAt(i) /\ ValueAt(i)' = ValueAt(i) /\ Setters(i)' = Setters(i)
  BY <1>2, <1>3 DEF SettingAt, ValueAt, Setters
<1>5. ASSUME NEW data, NEW n
      PROVE  SaidBy(data, n)' <=> SaidBy(data, n)
  BY <1>4 DEF SaidBy
<1> QED
  BY <1>1, <1>5 DEF AllLines

(* The configuration that main() makes its servers with is what the lines say, *)
(* in any file and after any -O: the last line that sets a setting counts, the *)
(* sections of the file do not reach into the lines of -O, and an exception    *)
(* leaves nothing half read.                                                   *)
THEOREM LastLineCounts == BootpdSpec => []SettingsInEffect
<1> DEFINE Inv == arguments \in CommandLines /\ SettingsInEffect
<1>1. BootpdInit => Inv
  BY DEF BootpdInit, SettingsInEffect
<1>2. Inv /\ [BootpdNext]_bootpdVars => Inv'
  <2> SUFFICES ASSUME Inv, [BootpdNext]_bootpdVars PROVE Inv'
    OBVIOUS
  <2>1. UNCHANGED arguments
    BY DEF BootpdNext, MainStep, bootpdVars, inputs, ReadConfig, MakeServer, MakeSocket, BindSocket,
       StartThread, StartFails, InstallHandler, Poll, Cease, Vanish, LeaveTry, CtrlC, PressKey,
       TftpSessions, ServerAborts, EndThread, ThreadsBecome
  <2>2. CASE ReadConfig
    <3>1. CASE place' = "make" /\ config' = Parsed(Written, Overriding(arguments))[AllLines].data
               /\ ~Parsed(Written, Overriding(arguments))[AllLines].thrown
      <4>1. SaidBy(config', AllLines)
        BY <3>1, ParsedTracks DEF Tracks
      <4> QED
        BY <2>1, <4>1, SaidForEver DEF SettingsInEffect
    <3>2. CASE thrown' \/ place' = "aborted"
      BY <2>1, <3>2 DEF SettingsInEffect
    <3> QED
      BY <2>2, <3>1, <3>2 DEF ReadConfig, Throw
  <2>3. CASE ~ReadConfig
    <3>1. UNCHANGED config
      BY <2>3 DEF BootpdNext, MainStep, bootpdVars, MakeServer, MakeSocket, BindSocket,
       StartThread, StartFails, InstallHandler, Poll, Cease, Vanish, LeaveTry, CtrlC, PressKey,
       TftpSessions, ServerAborts, EndThread, ThreadsBecome
    <3>2. place' \notin {"config", "killed", "aborted"} /\ ~thrown'
            => place \notin {"config", "killed", "aborted"} /\ ~thrown
      BY <2>3 DEF BootpdNext, MainStep, bootpdVars, MakeServer, MakeSocket, BindSocket,
       StartThread, StartFails, InstallHandler, Poll, Cease, Vanish, LeaveTry, CtrlC, PressKey,
       TftpSessions, ServerAborts, EndThread, ThreadsBecome, Throw, Running
    <3> QED
      BY <2>1, <3>1, <3>2, SaidForEver DEF SettingsInEffect
  <2> QED
    BY <2>2, <2>3
<1> QED
  BY <1>1, <1>2, PTL DEF BootpdSpec
=============================================================================
