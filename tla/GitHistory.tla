----------------------------- MODULE GitHistory -----------------------------
(***************************************************************************)
(* The commit graph of a project (git.rs), filled from the output of       *)
(* `git log`, and what is looked up in it: the history of a commit, the    *)
(* closest ancestor for which a dataset exists (versioned_dataset_dir.rs,  *)
(* dataset_dir_env_var.rs), and the tags of a commit (git_tags.rs).        *)
(*                                                                         *)
(* `repository` is the sequence of all commits of the project,             *)
(* [parents, time]; a commit's hash is its place in it, and parents is a   *)
(* sequence of smaller places.                                             *)
(***************************************************************************)
EXTENDS Naturals, FiniteSets, SequencesExt

None == 0       \* Option::None where ids start at 1

-----------------------------------------------------------------------------
(* `git log`: newest first, by a queue ordered by committer time *)

\* A commit goes behind those that are as new as it is.
Enqueue(repository, queue, c) ==
    LET newer == SelectSeq(queue, LAMBDA q : repository[q].time >= repository[c].time)
        older == SelectSeq(queue, LAMBDA q : repository[q].time < repository[c].time)
    IN newer \o <<c>> \o older

RECURSIVE GitLog(_, _, _)
GitLog(repository, queue, seen) ==
    IF queue = <<>> THEN <<>>
    ELSE LET new == SelectSeq(repository[Head(queue)].parents, LAMBDA p : p \notin seen)
         IN <<Head(queue)>> \o
            GitLog(repository,
                   FoldLeft(LAMBDA q, p : Enqueue(repository, q, p), Tail(queue), new),
                   seen \cup ToSet(new))

\* git_log_commits: the commits as printed, parsed.
LogCommits(repository, reference) ==
    LET log == GitLog(repository, <<reference>>, {reference})
    IN [i \in DOMAIN log |-> [hash |-> log[i], parents |-> repository[log[i]].parents,
                              time |-> repository[log[i]].time]]

-----------------------------------------------------------------------------
(* GitGraphData: ecommits is a sequence, a commit's id is its place; *)
(* by_hash is the lookup from a hash to the id.                      *)

EmptyGraph == [ecommits |-> <<>>, by_hash |-> <<>>]

GetByHash(graph, hash) == IF hash \in DOMAIN graph.by_hash THEN graph.by_hash[hash] ELSE None

\* unchecked_push: the depth is one more than the deepest parent's.
Push(graph, commit) ==
    LET depth == Max({0} \cup {graph.ecommits[p].depth + 1 : p \in ToSet(commit.parents)})
        ecommit == [hash |-> commit.hash, parents |-> commit.parents,
                    time |-> commit.time, depth |-> depth]
        id == Len(graph.ecommits) + 1
    IN [ecommits |-> Append(graph.ecommits, ecommit),
        by_hash |-> [h \in DOMAIN graph.by_hash \cup {commit.hash} |->
                        IF h = commit.hash THEN id ELSE graph.by_hash[h]]]

\* One round of GitEntrypoint::from_commits.  A parent that is not there
\* yet is a panic.
AddCommit(state, commit) ==
    LET graph == state.graph
        parents == [i \in DOMAIN commit.parents |-> GetByHash(graph, commit.parents[i])]
        known == GetByHash(graph, commit.hash)
    IN IF state.panicked THEN state
       ELSE IF known # None THEN [state EXCEPT !.entry = known]
       ELSE IF None \in ToSet(parents) THEN [state EXCEPT !.panicked = TRUE]
       ELSE [state EXCEPT !.graph = Push(graph, [commit EXCEPT !.parents = parents]),
                          !.entry = Len(graph.ecommits) + 1]

\* GitGraphData::add_history_from_dir_ref: the log, oldest first.
AddHistory(graph, repository, reference) ==
    FoldLeft(AddCommit, [graph |-> graph, entry |-> None, panicked |-> FALSE],
             Reverse(LogCommits(repository, reference)))

\* with_ids_as_hashes
AsHashes(graph, id) ==
    LET e == graph.ecommits[id]
    IN [e EXCEPT !.parents = [i \in DOMAIN @ |-> graph.ecommits[@[i]].hash]]

\* The first parents only: the stack of the others is forgotten.
RECURSIVE Walk_FirstParents(_, _, _, _)
Walk_FirstParents(graph, id, ids, stack) ==
    LET parents == graph.ecommits[id].parents
    IN IF id \notin ids /\ parents # <<>>
       THEN Walk_FirstParents(graph, parents[1], ids \cup {id}, stack)
       ELSE ids \cup {id}

\* The loop of history_as_btreeset_from: the first parent at once, the
\* others from the stack later.
RECURSIVE Walk(_, _, _, _)
Walk(graph, id, ids, stack) ==
    LET parents == graph.ecommits[id].parents
    IN IF id \notin ids /\ parents # <<>>
       THEN Walk(graph, parents[1], ids \cup {id}, stack \o Tail(parents))
       ELSE IF stack # <<>> THEN Walk(graph, Last(stack), ids \cup {id}, Front(stack))
       ELSE ids \cup {id}

HistoryFrom(graph, id) == Walk(graph, id, {}, <<>>)

Newest(graph, ids) ==
    {i \in ids : \A j \in ids : graph.ecommits[j].time <= graph.ecommits[i].time}

\* closest_matching_ancestor_of, as the set of its possible results: the
\* hash set that it takes the newest commit from has no order of its own.
RECURSIVE Closest(_, _, _, _)
Closest(graph, current, seen, matches) ==
    IF current = {} THEN {None}
    ELSE IF current \cap matches # {} THEN Newest(graph, current \cap matches)
    ELSE UNION {LET parents == ToSet(graph.ecommits[c].parents)
                IN Closest(graph, (current \ {c}) \cup (parents \ seen), seen \cup parents, matches)
                    : c \in Newest(graph, current)}

ClosestMatchingAncestors(graph, id, matches) == Closest(graph, {id}, {id}, matches)

-----------------------------------------------------------------------------
(* Datasets: `entries` are the entries of a dataset's directory, each      *)
(* [name, kind, commit], where commit is what the name resolves to.        *)

\* VersionedDatasetReferencesIndex::read; of two names for one commit the
\* one that the directory listing has last is taken: either.
ReferenceIndexes(entries) ==
    LET dirs == {e \in entries : e.kind = "dir" /\ e.commit # None}
        commits == {e.commit : e \in dirs}
    IN IF \E e \in entries : e.kind = "broken" THEN {}
       ELSE {f \in [commits -> dirs] : \A c \in commits : f[c].commit = c}

\* dataset_dir_for_commit: the set of possible results, an error is None.
DatasetDirs(graph, entries, hash) ==
    UNION {LET matches == {GetByHash(graph, c) : c \in DOMAIN index} \ {None}
           IN {IF id = None THEN None ELSE index[graph.ecommits[id].hash].name :
                 id \in ClosestMatchingAncestors(graph, GetByHash(graph, hash), matches)} :
           index \in ReferenceIndexes(entries)}
    \cup (IF ReferenceIndexes(entries) = {} THEN {None} ELSE {})

\* dataset_dir_for: nothing to choose without a base directory or without
\* the parameter DATASET; an error without fresh tags or for another type.
DatasetChoice(fetchedTags, hasBaseDir, datasetType, DirsFor) ==
    IF ~fetchedTags THEN {"error"}
    ELSE IF ~hasBaseDir \/ datasetType = "unset" THEN {"nothing"}
    ELSE IF datasetType # "Dirname" THEN {"error"}
    ELSE {IF d = None THEN "error" ELSE d : d \in DirsFor}

-----------------------------------------------------------------------------
(* Tags: `listing` is the output of `git tag --list`, each [name, commit] *)

\* GitTags::from_dir: a tag that is gone again is left out.
Tags(listing) == SelectSeq(listing, LAMBDA t : t.commit # None)

TagsByHash(listing) ==
    LET tags == Tags(listing)
    IN [c \in {t.commit : t \in ToSet(tags)} |->
            SelectSeq([i \in DOMAIN tags |-> i], LAMBDA i : tags[i].commit = c)]

\* get_by_commit
TagsOfCommit(listing, commit) ==
    LET index == TagsByHash(listing)
        ids == IF commit \in DOMAIN index THEN index[commit] ELSE <<>>
    IN [i \in DOMAIN ids |-> Tags(listing)[ids[i]].name]
=============================================================================
