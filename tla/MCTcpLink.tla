----------------------------- MODULE MCTcpLink -----------------------------
(* Small instances of TcpLink: packet 1 is longer than the buffers, packet 2 is empty. *)
EXTENDS TcpLink

Bodies(n) == IF n = 1 THEN 2 ELSE 0
AtMost(e) == IF e = Client THEN 2 ELSE 1
=============================================================================
