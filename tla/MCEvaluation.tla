------------------------------ MODULE MCEvaluation -----------------------------
(* Evaluation for TLC: the thread ids are only compared.  *)
EXTENDS Evaluation, TLC

(* Many threads, with and without failing writes, or many scopes *)
Budget(threads, scopes, others, fail) ==
    [threads |-> threads, scopes |-> scopes, others |-> others, fail |-> fail]
MCBudgets ==
    {Budget(2, 2, 0, TRUE), Budget(2, 2, 1, FALSE), Budget(1, 2, 1, TRUE),
     Budget(1, 3, 0, FALSE), Budget(0, 3, 1, FALSE)}

Symmetry == Permutations(Tids)
================================================================================
