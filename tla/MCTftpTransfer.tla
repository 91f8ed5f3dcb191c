--------------------------- MODULE MCTftpTransfer ---------------------------
(* Model checking of TftpTransfer: requests the server accepts, with and      *)
(* without options.                                                           *)
EXTENDS TftpTransfer

MCRequests ==
  {[xfermode |-> "octet", path |-> "regular", options |-> dict] :
     dict \in {<<>>, [blksize |-> 1]}}

=============================================================================
