---------------------------- MODULE FileTransfer ----------------------------
(* What a read session promises: the client gets the blocks of the file, each *)
(* once and in order, and the session calls the transfer finished only when   *)
(* the client has them all. A session may fail or be stopped at any time.     *)
EXTENDS Naturals, Sequences

CONSTANT
  NoFile,    \* no file is open
  FilesOpen  \* the files that may be sent, with the block size: [length, blksiz]

VARIABLES
  file,      \* the file being sent
  received,  \* the blocks the client has: [number, size]
  outcome    \* "open", "finished", "failed", "stopped"

transferVars == <<file, received, outcome>>

(* The blocks of a file: full ones, then a shorter one, empty if need be.     *)
Blocks(f) ==
  LET full == f.length \div f.blksiz
  IN [i \in 1..full+1 |->
        [number |-> i, size |-> IF i <= full THEN f.blksiz
                                ELSE f.length % f.blksiz]]

Init ==
  /\ file = NoFile
  /\ received = <<>>
  /\ outcome = "open"

Open ==
  /\ file = NoFile
  /\ outcome = "open"
  /\ file' \in FilesOpen
  /\ UNCHANGED <<received, outcome>>

Deliver ==
  /\ file # NoFile
  /\ Len(received) < Len(Blocks(file))
  /\ received' = Append(received, Blocks(file)[Len(received) + 1])
  /\ UNCHANGED <<file, outcome>>

Finish ==
  /\ outcome = "open"
  /\ file # NoFile
  /\ received = Blocks(file)
  /\ outcome' = "finished"
  /\ UNCHANGED <<file, received>>

(* The session ends early; a session that has finished may still be told to.  *)
Abort ==
  \/ /\ outcome = "open"
     /\ outcome' \in {"failed", "stopped"}
     /\ UNCHANGED <<file, received>>
  \/ /\ outcome = "finished"
     /\ outcome' = "stopped"
     /\ UNCHANGED <<file, received>>

Next == Open \/ Deliver \/ Finish \/ Abort

Spec == Init /\ [][Next]_transferVars
=============================================================================
