----------------------------- MODULE MCTftpFile -----------------------------
(* Model checking of TftpFile: every file of up to four bytes, with a CR LF,  *)
(* or without.                                                                *)
EXTENDS TftpFile

MCFiles == UNION {[1..n -> {"CR", "LF", "x"}] : n \in 0..4}

=============================================================================
