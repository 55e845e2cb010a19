--------------------------- MODULE MCKeyValQueue ---------------------------
(* Instances of KeyValQueue for TLC *)
EXTENDS KeyValQueue, TLC

CONSTANTS w1, w2

Opts(no_lock, error_when_locked, delete_first, wait) ==
    [no_lock |-> no_lock, error_when_locked |-> error_when_locked,
     delete_first |-> delete_first, wait |-> wait]

Waiting == Opts(FALSE, FALSE, FALSE, TRUE)
Default == Opts(FALSE, FALSE, FALSE, FALSE)
Impatient == Opts(FALSE, TRUE, TRUE, FALSE)
Careless == Opts(TRUE, FALSE, FALSE, FALSE)

(* Workers as the command line starts them by default *)
DefaultOptions == w1 :> {Default} @@ w2 :> {Default}

(* One worker that waits for entries, and one that empties the queue       *)
MixedOptions == w1 :> {Waiting} @@ w2 :> {Default, Impatient, Careless}
=============================================================================
