---------------------------- MODULE MCInsertJobs ----------------------------
(* Instances of InsertJobs for TLC *)
EXTENDS InsertJobs, TLC

CONSTANTS p1, p2

Call(batch, force, quiet, dry_run) ==
    [batch |-> batch, force |-> force, quiet |-> quiet, dry_run |-> dry_run]

(* `evobench poll` of two branches, also with the same head, and `evobench *)
(* insert` with its options                                                *)
MixedCalls == {
    Call(<<p1, p2>>, FALSE, TRUE, FALSE), Call(<<p2, p2>>, FALSE, TRUE, FALSE),
    Call(<<p2, p1>>, FALSE, FALSE, FALSE), Call(<<p1>>, TRUE, FALSE, FALSE),
    Call(<<p2>>, FALSE, FALSE, TRUE)}

(* Two pollers that see the same two new commits *)
PollCalls == {Call(<<p1, p2>>, FALSE, TRUE, FALSE)}
=============================================================================
