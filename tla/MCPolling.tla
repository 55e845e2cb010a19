----------------------------- MODULE MCPolling -----------------------------
(* Two commands and the daemon's thread. *)
EXTENDS Polling

CONSTANTS p1, p2, daemon
Two == {p1, p2}
Three == {p1, p2, daemon}
=============================================================================
