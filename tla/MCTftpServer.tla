---------------------------- MODULE MCTftpServer ----------------------------
(* Model checking of TftpServer: two session addresses, so that one is reused  *)
(* while the other is busy.                                                    *)
EXTENDS TftpServer
=============================================================================
