------------------------------ MODULE ServerLife ------------------------------
(* What a server, dhcp_server_v4 or tftp_server_v4, promises the program that  *)
(* makes it, as the program sees it: start() starts its threads, they run      *)
(* until the destructor tells them to stop, and the destructor does not return *)
(* while one of them, or a session that one of them has started, still runs.   *)
(* Whether it returns at all is not promised, and no thread ends alone, but    *)
(* what a server does may end the process: when, each server says for itself.  *)
EXTENDS Naturals

VARIABLES
  life,    \* "none", "made", "ceasing", "gone"; "aborted" ends the process
  threads  \* those that run; "sessions" are those of all the sessions

lifeVars == <<life, threads>>

Own == {"incoming", "outgoing"}

(* A server seen before it is made, or from the moment it has been started.    *)
Init == <<life, threads>> \in {<<"none", {}>>, <<"made", Own>>}

Make ==
  /\ life = "none"
  /\ life' = "made"
  /\ UNCHANGED threads

StartThread ==
  /\ life = "made"
  /\ \E t \in Own \ threads : threads' = threads \cup {t}
  /\ UNCHANGED life

StartSession ==
  /\ "outgoing" \in threads
  /\ threads' = threads \cup {"sessions"}
  /\ UNCHANGED life

EndSessions ==
  /\ threads' = threads \ {"sessions"}
  /\ UNCHANGED life

Cease ==
  /\ life = "made"
  /\ life' = "ceasing"
  /\ UNCHANGED threads

EndThread ==
  /\ life = "ceasing"
  /\ \E t \in Own \cap threads : threads' = threads \ {t}
  /\ UNCHANGED life

Vanish ==
  /\ life = "ceasing"
  /\ threads = {}
  /\ life' = "gone"
  /\ UNCHANGED threads

(* A thread lets an exception out, or touches memory that is not there.        *)
Abort ==
  /\ life' = "aborted"
  /\ UNCHANGED threads

Next ==
  \/ Make \/ StartThread \/ StartSession \/ EndSessions
  \/ Cease \/ EndThread \/ Vanish \/ Abort

Spec == Init /\ [][Next]_lifeVars
===============================================================================
