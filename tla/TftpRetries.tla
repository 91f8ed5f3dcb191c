----------------------------- MODULE TftpRetries -----------------------------
(* How a session spends its retries: TftpSession with a history variable that  *)
(* counts the attempts of the current datagram, OACK or DATA, that came to     *)
(* nothing. It stops at MaxUnanswered, one more than a session may ever reach. *)
EXTENDS TftpSession

VARIABLE unanswered

retriesVars == <<ioVars, unanswered>>

MaxUnanswered == MaxRetries + 1

Loops == {"oack", "oack_recv", "data", "data_recv"}

RetriesInit == Init /\ unanswered = 0

(* A step that stays on the datagram and is back at the test of its loop. *)
AttemptLost ==
  /\ pc \in Loops
  /\ pc' \in {"oack", "data"}
  /\ reader' = reader
  /\ stop' = stop

RetriesNext ==
  /\ Next
  /\ unanswered' = IF AttemptLost THEN Lesser(unanswered + 1, MaxUnanswered)
                   ELSE IF reader' # reader THEN 0
                   ELSE unanswered

RetriesSpec == RetriesInit /\ [][RetriesNext]_retriesVars

RetriesFairSpec == RetriesSpec /\ Fairness

(* A session runs out of retries after exactly MAX_RETRIES attempts at the     *)
(* OACK and at the first block, but one less at every later block, because the *)
(* counter that an ACK resets (tftp_session_v4.cpp:54) is counted down before  *)
(* the next block is sent (line 46).                                           *)
RetryBudget ==
  retry = 0 /\ options.blksize # 0 =>
    unanswered = IF reader.m_number > 1 THEN MaxRetries - 1 ELSE MaxRetries
=============================================================================
