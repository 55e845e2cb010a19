------------------------------ MODULE Migration ------------------------------
(***************************************************************************)
(* Bringing the files of a table into the current format (migrate.rs), and *)
(* the temporary files that take the place of others (tempfile_utils.rs).  *)
(*                                                                         *)
(* A table is a function from keys to the texts of its files.  A text is   *)
(* [version, job, extracts, times]; version 1 is the old format, which has *)
(* log extracts, 2 the current one, anything else is not understood.       *)
(***************************************************************************)
EXTENDS Integers, FiniteSets, SequencesExt

CONSTANT Hash(_)        \* slow_hash, the key of a job in the current format

-----------------------------------------------------------------------------
(* from_str_migrating: the formats in turn, the current one first *)

Parse(text) ==
    IF text.version = 2 THEN [ok |-> TRUE, val |-> text, migrated |-> FALSE]
    ELSE IF text.version = 1
    THEN [ok |-> TRUE, val |-> [text EXCEPT !.version = 2, !.extracts = FALSE], migrated |-> TRUE]
    ELSE [ok |-> FALSE]

\* gen_key: that of a queue stays, that of the inserted jobs is calculated
GenKey(table, key, value) ==
    IF table = "queue" THEN key ELSE Hash(value.job)

\* The order of vectors.
Precedes(s, t) ==
    \/ \E i \in DOMAIN s \cap DOMAIN t : /\ \A j \in 1 .. i - 1 : s[j] = t[j]
                                         /\ s[i] < t[i]
    \/ IsPrefix(s, t)

\* handle_conflict of migrate_already_inserted: one of the two sequences of
\* times.
HandleConflict(a, b) ==
    [a EXCEPT !.times = IF Precedes(a.times, b.times) THEN a.times ELSE b.times]

\* What is to be done: keys to delete, and for each new key what to save.
Changes(table, entries) ==
    LET parsed == [k \in DOMAIN entries |-> Parse(entries[k])]
        New(k) == GenKey(table, k, parsed[k].val)
        changed == {k \in DOMAIN entries : parsed[k].ok /\ (parsed[k].migrated \/ New(k) # k)}
        Values(new) == SetToSortSeq({k \in changed : New(k) = new}, <)
    IN [ok |-> \A k \in DOMAIN entries : parsed[k].ok,
        deletions |-> {k \in changed : New(k) # k},
        saves |-> [new \in {New(k) : k \in changed} |->
                     LET ks == Values(new)
                     IN [i \in DOMAIN ks |-> [moved |-> New(ks[i]) # ks[i],
                                              value |-> parsed[ks[i]].val]]],
        count |-> Cardinality(changed)]

\* Of several values for a key, the last one with the others in turn.
Joined(values) == FoldLeft(LAMBDA v, other : HandleConflict(v, other.value),
                           Last(values).value, Front(values))

\* A value of a new key meets the one that is there; a value alone that
\* stays at its key replaces its file.
Save_Replaces(entries, new, values) ==
    [k \in DOMAIN entries \cup {new} |-> IF k = new THEN Joined(values) ELSE entries[k]]

Save(entries, new, values) ==
    LET conflict == Len(values) = 1 /\ values[1].moved /\ new \in DOMAIN entries
        value == IF conflict THEN HandleConflict(entries[new], Joined(values)) ELSE Joined(values)
    IN [k \in DOMAIN entries \cup {new} |-> IF k = new THEN value ELSE entries[k]]

\* migrate_key_val, and the tables that a crash can leave: first all the
\* deletions, then the new files in the order of their keys.
Stages(table, entries) ==
    LET changes == Changes(table, entries)
        old == SetToSortSeq(changes.deletions, <)
        new == SetToSortSeq(DOMAIN changes.saves, <)
        Without(n) == Restrict(entries, DOMAIN entries \ {old[i] : i \in 1 .. n})
        With(n) == FoldLeft(LAMBDA e, k : Save(e, k, changes.saves[k]),
                            Without(Len(old)), SubSeq(new, 1, n))
    IN IF changes.ok
       THEN [n \in 0 .. Len(old) + Len(new) |->
               IF n <= Len(old) THEN Without(n) ELSE With(n - Len(old))]
       ELSE [n \in {0} |-> entries]

Migrated(table, entries) ==
    LET stages == Stages(table, entries) IN stages[Max(DOMAIN stages)]

-----------------------------------------------------------------------------
(* Temporary files: `files` is a function from paths to [text, mode]; a     *)
(* path is [name, thread], where thread 0 is for a file with its own name.  *)

\* temp_path: the target with process and thread, in the same directory.
TempPath(target, thread) == [target EXCEPT !.thread = thread]

\* finish: the access rights of the target, if it is there, then rename.
Finish(files, target, thread, migrateAccess) ==
    LET temp == TempPath(target, thread)
        mode == IF migrateAccess /\ target \in DOMAIN files THEN files[target].mode
                ELSE files[temp].mode
    IN [p \in (DOMAIN files \ {temp}) \cup {target} |->
          IF p = target THEN [files[temp] EXCEPT !.mode = mode] ELSE files[p]]

\* drop: without finish, the temporary file is deleted if it is there.
Drop(files, target, thread) == Restrict(files, DOMAIN files \ {TempPath(target, thread)})
=============================================================================
