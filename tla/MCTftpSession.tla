--------------------------- MODULE MCTftpSession ---------------------------
(* Model checking of TftpSession, by way of TftpRetries.                      *)
EXTENDS TftpRetries

Request(xfermode, path, dict) ==
  [xfermode |-> xfermode, path |-> path, options |-> dict]

MCRequests ==
  {Request("octet", "regular", dict) : dict \in
     {<<>>, [tsize |-> 0], [other |-> 0],
      [blksize |-> 1, timeout |-> 4, tsize |-> 0]}
     \cup [{"blksize"} -> {0, 1, 3, 9, Garbage}]
     \cup [{"timeout"} -> {0, 1, Garbage}]}
  \cup {Request("unknown", "regular", <<>>),
        Request("netascii", "missing", <<>>)}

(* "Expected packet from '{}', instead packet arrived from '{}', ignoring ..." *)
(* (tftp_session_v4.cpp:81): what a stranger sends neither ends nor advances   *)
(* the transfer. The code warns the stranger, but never leaves the packet out. *)
StrangerIsIgnored ==
  [][\A from \in Strangers, packet \in Incoming :
       Receive(from, packet) /\ sent' = {UnknownTransferId(from)}
         => result' = result /\ reader' = reader]_retriesVars

=============================================================================
