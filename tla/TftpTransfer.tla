----------------------------- MODULE TftpTransfer -----------------------------
(* A read session (TftpSession) and its client over UDP, which may lose,       *)
(* duplicate, delay and reorder datagrams. The client is not part of this      *)
(* repository: it is a TFTP client as the session expects one, and            *)
(* acknowledges the block it waits for and, again, the block before it.        *)
EXTENDS TftpSession, Sequences, Bags, FiniteSetsExt

CONSTANTS
  NoFile,          \* no file is open, for FileTransfer
  Timely,          \* nobody times out while a datagram is in flight
  MaxLosses,       \* bounds on what the network and the client do in a run:
  MaxDuplicates,   \* datagrams lost, datagrams duplicated,
  MaxResends       \* and acknowledgements sent again by the client's timeout

ASSUME TransferAssumption ==
  /\ IdSpace < Word
  /\ NoFile \notin [length : 0..Word-1, blksiz : 1..MaxBuffer]
  /\ {MaxLosses, MaxDuplicates, MaxResends} \subseteq Nat

VARIABLES
  net,        \* the datagrams in flight: a bag
  got,        \* the blocks the client has accepted
  client,     \* "waiting" for a block, "complete", or "failed" by an ERROR
  lastAck,    \* the client's last acknowledgement, if it has sent one
  lost,       \* datagrams lost so far
  duplicated, \* datagrams duplicated so far
  resent      \* acknowledgements resent so far

netVars == <<net, got, client, lastAck, lost, duplicated, resent>>
allVars == <<ioVars, netVars>>

(* An acknowledgement on its way to the session. *)
Ack(id) == [to |-> "session", packet |-> Packet("ack", id)]

Carry(bag, datagrams) == bag (+) SetToBag(datagrams)

Without(bag, d) == bag (-) SetToBag({d})

TransferInit ==
  /\ Init
  /\ net = EmptyBag
  /\ got = <<>>
  /\ client = "waiting"
  /\ lastAck = {}
  /\ lost = 0
  /\ duplicated = 0
  /\ resent = 0

-----------------------------------------------------------------------------
(* The session, and what it sends *)

MayTimeOut == Timely => net = EmptyBag

SessionStep ==
  /\ \/ StartFails \/ Refuse \/ Accept \/ OackLoopEnds \/ DataLoopEnds
     \/ Send \/ StoreDone \/ Notify
     \/ MayTimeOut /\ RecvTimesOut
  /\ net' = Carry(net, sent')
  /\ UNCHANGED <<got, client, lastAck, lost, duplicated, resent>>

SessionReceives ==
  \E d \in BagToSet(net) :
    /\ d.to = "session"
    /\ Receive(Client, d.packet)
    /\ net' = Carry(Without(net, d), sent')
    /\ UNCHANGED <<got, client, lastAck, lost, duplicated, resent>>

SessionFails ==
  /\ RecvFails
  /\ UNCHANGED netVars

SessionIsStopped == RequestStop /\ UNCHANGED netVars

-----------------------------------------------------------------------------
(* The client *)

Answer(d, replies) ==
  /\ net' = Carry(Without(net, d), replies)
  /\ lastAck' = IF replies = {} THEN lastAck ELSE replies
  /\ UNCHANGED <<ioVars, lost, duplicated, resent>>

(* The OACK, before any data, or the block that is due. *)
AcceptBlock ==
  \E d \in BagToSet(net) :
    /\ d.to = Client
    /\ client = "waiting"
    /\ \/ /\ d.packet.kind = "oack"
          /\ got = <<>>
          /\ Answer(d, {Ack(0)})
          /\ UNCHANGED <<got, client>>
       \/ /\ d.packet.kind = "data"
          /\ d.packet.id = (Len(got) + 1) % IdSpace
          /\ got' = Append(got, [number |-> d.packet.number, size |-> d.packet.size])
          /\ client' = IF d.packet.size < options.blksize THEN "complete" ELSE client
          /\ Answer(d, {Ack(d.packet.id)})

(* The block the client has last: its acknowledgement was lost or is late. A   *)
(* client that has the whole file may have left.                               *)
AnswerAgain ==
  \E d \in BagToSet(net) :
    /\ d.to = Client
    /\ client # "failed"
    /\ d.packet.kind = "data"
    /\ got # <<>>
    /\ d.packet.id = Len(got) % IdSpace
    /\ \/ Answer(d, {Ack(d.packet.id)})
       \/ client = "complete" /\ Answer(d, {})
    /\ UNCHANGED <<got, client>>

(* An ERROR ends the transfer; what is left is ignored. *)
Discard ==
  \E d \in BagToSet(net) :
    /\ d.to = Client
    /\ \/ client = "failed"
       \/ d.packet.kind = "oack" /\ got # <<>>
       \/ d.packet.kind = "data" /\ d.packet.id \notin {Len(got) % IdSpace, (Len(got) + 1) % IdSpace}
       \/ d.packet.kind \notin {"data", "oack"}
    /\ client' = IF d.packet.kind \notin {"data", "oack"} /\ client = "waiting"
                 THEN "failed" ELSE client
    /\ Answer(d, {})
    /\ UNCHANGED got

(* The client's own timeout: it sends its last acknowledgement again. *)
Resend ==
  /\ resent < MaxResends
  /\ client = "waiting"
  /\ lastAck # {}
  /\ MayTimeOut
  /\ net' = Carry(net, lastAck)
  /\ resent' = resent + 1
  /\ UNCHANGED <<ioVars, got, client, lastAck, lost, duplicated>>

-----------------------------------------------------------------------------
(* The network *)

Lose ==
  /\ lost < MaxLosses
  /\ \E d \in BagToSet(net) : net' = Without(net, d)
  /\ lost' = lost + 1
  /\ UNCHANGED <<ioVars, got, client, lastAck, duplicated, resent>>

Duplicate ==
  /\ duplicated < MaxDuplicates
  /\ \E d \in BagToSet(net) : net' = Carry(net, {d})
  /\ duplicated' = duplicated + 1
  /\ UNCHANGED <<ioVars, got, client, lastAck, lost, resent>>

-----------------------------------------------------------------------------
ClientStep == AcceptBlock \/ AnswerAgain \/ Discard

TransferNext ==
  \/ SessionStep \/ SessionReceives \/ SessionFails \/ SessionIsStopped
  \/ ClientStep \/ Resend
  \/ Lose \/ Duplicate

TransferSpec == TransferInit /\ [][TransferNext]_allVars

(* The session thread runs, a datagram that is not lost arrives, and the       *)
(* client answers. Nothing makes the network lose or duplicate a datagram.     *)
TransferFairSpec ==
  /\ TransferSpec
  /\ WF_allVars(SessionStep)
  /\ WF_allVars(SessionReceives)
  /\ WF_allVars(ClientStep)

-----------------------------------------------------------------------------
(* Properties *)

TransferTypeOK ==
  /\ IsABag(net)
  /\ \A d \in BagToSet(net) : d.packet.id \in 0..IdSpace-1
  /\ got \in Seq([number : Nat, size : 0..MaxBuffer])
  /\ client \in {"waiting", "complete", "failed"}
  /\ lost \in 0..MaxLosses
  /\ duplicated \in 0..MaxDuplicates
  /\ resent \in 0..MaxResends

(* Lock step, which needs the block ids not to wrap during the life of a       *)
(* datagram: while it sends block n the session knows that the client has the  *)
(* n - 1 blocks before it, and the client never has more than n.               *)
LockStep ==
  pc \in {"data", "data_recv"} => Len(got) \in {reader.m_number - 1, reader.m_number}

(* The file of the session, and how the session has ended.                     *)
FileOpen ==
  IF reader.m_number = 0 THEN NoFile
  ELSE [length |-> reader.m_length, blksiz |-> reader.m_blksiz]

Outcome ==
  CASE result = "error" -> "failed"
    [] result = "finished" -> IF stop THEN "stopped" ELSE "finished"
    [] OTHER -> "open"

(* The promise of FileTransfer, whatever the network does: blocks delivered    *)
(* once and in order, and "Finished sending" only for a client that has all.   *)
Promise == INSTANCE FileTransfer WITH
  FilesOpen <- [length : 0..Word-1, blksiz : 1..MaxBuffer],
  file <- FileOpen,
  received <- got,
  outcome <- Outcome

ImplementsFileTransfer == Promise!Spec

(* On a network that neither duplicates nor delays datagrams past a timeout,   *)
(* the session, unless it is stopped, fails a client that still needs it only  *)
(* because as many datagrams as it has retries for one block were lost. It     *)
(* never fails by its own reading of an ACK: `block_id != (number_v & 0xffffu)` *)
(* is then never true. With a late or a duplicated ACK it is, and the transfer *)
(* is lost.                                                                    *)
FailsOnlyByLoss ==
  result = "error" /\ ~stop /\ client # "complete" => lost >= MaxRetries - 1

(* Such a network, losing fewer datagrams than that, gets the file across.     *)
Completes == <>(client = "complete" \/ stop \/ lost >= MaxRetries - 1)
=============================================================================
