------------------------------ MODULE Algorithms ------------------------------
(***************************************************************************)
(* The pure algorithms of the program, each over all inputs of a small     *)
(* set: a state is one case, and there is an action for each kind of case. *)
(* The properties compare an algorithm with what its result should be, or  *)
(* several algorithms that have to fit together.                           *)
(***************************************************************************)
EXTENDS Configuration, Statistics, TLC

CONSTANTS Nil, Day, U32Max, SubPerSec, MilliPerSec, Hours

HashOf(job) == job + 1

\* The head of a log, and the lines between which a time is looked for.
ParseHead(lines) == [kind |-> lines[1], commit |-> "one", target |-> "api", params |-> (1 :> 3)]
IsStartLine(text) == text = "start"
IsEndLine(text) == text = "end"

History == INSTANCE GitHistory
Times == INSTANCE TimesAndNumbers
Lists == INSTANCE Listing
Logs == INSTANCE CommandLogs WITH Parse <- ParseHead, IsStart <- IsStartLine, IsEnd <- IsEndLine
Migrate == INSTANCE Migration WITH Hash <- HashOf

VARIABLE case

-----------------------------------------------------------------------------
(* Paths *)

Bases == {[root |-> TRUE, parts |-> <<>>],
          [root |-> FALSE, parts |-> <<Name("out")>>],
          [root |-> FALSE, parts |-> <<Up, Name("out"), Var(1, Number(7))>>]}

Targets == {Name("api"), Hash(8, TRUE), Time(4, FALSE, TRUE)}

Values == {Number(0), Number(7), Text({}, FALSE), Text({}, TRUE)}
          \cup {Text({flaw}, FALSE) : flaw \in {"newline", "slash", "long"}}

AllowedParameters == (1 :> [type |-> "String", required |-> FALSE]
                      @@ 2 :> [type |-> "Filename", required |-> TRUE]
                      @@ 3 :> [type |-> "U32", required |-> FALSE])

KeyVals == UNION {[keys -> Values] : keys \in {{1}, {2}, {1, 2}, {2, 3}, {1, 4}}}

Directories ==
    LET parameters == {ParametersDir(b, t, p) : b \in Bases, t \in Targets,
                            p \in {q \in KeyVals : CheckedFrom(q, AllowedParameters).ok} \cup {<<>>}}
        keys == {KeyDir(d, Hash(1, TRUE)) : d \in parameters}
    IN parameters \cup keys \cup {RunDir(d, Time(5, f, TRUE)) : d \in keys, f \in BOOLEAN}

PathCase == \E d \in Directories : case' = [topic |-> "path", dir |-> d]

Parsed(d, path) ==
    CASE d.level = "parameters" -> ParseParameters(path)
      [] d.level = "key" -> ParseKey(path)
      [] d.level = "run" -> ParseRun(path)

\* A target that looks like the name of a level below is taken for one.
LooksDeeper(d) ==
    d.level = "parameters" /\ DOMAIN d.params = {} /\ d.target.kind = "hash"

Below(d) == CASE d.level = "parameters" -> Hash(2, FALSE)
              [] d.level = "key" -> Time(6, TRUE, FALSE)
              [] d.level = "run" -> Name("evobench.log")

ParametersOf(d) == CASE d.level = "parameters" -> d.params
                     [] d.level = "key" -> d.parent.params
                     [] d.level = "run" -> d.parent.parent.params

IsReadBack(d) == /\ Parsed(d, ToPath(d)).ok
                 /\ Content(Parsed(d, ToPath(d)).val) = Content(d)

\* A String may have a slash (custom_parameter.rs:59-66), and then makes two
\* segments of the path.
HasSlash(d) == \E k \in DOMAIN ParametersOf(d) : "slash" \in ParametersOf(d)[k].flaws

\* The path of a directory leads back to the directory just when no parameter
\* has a slash: to the same base, target, parameters, commit and time, at each
\* level.  Then it does so, too, when the level has to be found out and when the
\* base is exchanged; and an entry that is found in a directory is what its whole
\* path says (structure.rs, which has no other database than these names).  The
\* comments in key.rs:125-129 and custom_parameter.rs:44-46 say instead that
\* there are "no possible remaining invalid cases".
PathsAreReadBack ==
    case.topic = "path" =>
    /\ IsReadBack(case.dir) <=> ~HasSlash(case.dir)
    /\ ~HasSlash(case.dir) =>
        LET d == case.dir
            path == ToPath(d)
            below == Below(d)
        IN /\ ToPath(Parsed(d, path).val) = path
           /\ LooksDeeper(d) \/ (ParseSubdir(path).ok /\ Content(ParseSubdir(path).val) = Content(d))
           /\ \A b \in Bases : /\ Parsed(d, ToPath(ReplaceBase(d, b))).ok
                               /\ Base(Parsed(d, ToPath(ReplaceBase(d, b))).val) = b
           /\ AppendSubdir(d, below).ok <=> d.level # "run"
           /\ d.level # "run" =>
                Content(AppendSubdir(d, below).val) = Content(ParseSubdir(Append1(path, below)).val)

-----------------------------------------------------------------------------
(* Commit graphs, with four commits *)

ParentsOf(c) == {<<>>} \cup {<<p>> : p \in 1 .. c - 1}
                \cup {<<p[1], p[2]>> : p \in {q \in (1 .. c - 1) \X (1 .. c - 1) : q[1] # q[2]}}

CommitTimes == {<<1, 2, 3, 4>>, <<1, 1, 1, 1>>, <<1, 2, 2, 3>>, <<2, 1, 3, 4>>, <<1, 3, 2, 4>>}

Repositories ==
    {[c \in 1 .. 4 |-> [parents |-> parents[c], time |-> times[c]]] :
        parents \in {<<a, b, c, d>> : a \in ParentsOf(1), b \in ParentsOf(2),
                                      c \in ParentsOf(3), d \in ParentsOf(4)},
        times \in CommitTimes}

HistoryCase ==
    \E repository \in Repositories, first, second \in 1 .. 4 :
        case' = [topic |-> "history", repository |-> repository, first |-> first, second |-> second]

Ancestors(repository, c) ==
    LET up[n \in 0 .. 4] ==
            IF n = 0 THEN {c}
            ELSE up[n - 1] \cup UNION {ToSet(repository[a].parents) : a \in up[n - 1]}
    IN up[4]

LongestPath(repository, commit) ==
    LET depth[c \in 1 .. 4] ==
            Max({0} \cup {depth[p] + 1 : p \in ToSet(repository[c].parents)})
    IN depth[commit]

\* What can be reached without going further back than a match.
Reached(graph, id, matches) ==
    LET back[n \in 0 .. 4] ==
            IF n = 0 THEN {id}
            ELSE back[n - 1] \cup UNION {ToSet(graph.ecommits[c].parents) : c \in back[n - 1] \ matches}
    IN back[4]

TimesIncrease(repository) ==
    \A c \in DOMAIN repository : \A p \in ToSet(repository[c].parents) :
        repository[p].time < repository[c].time

\* After two histories were added to a graph, it has exactly the commits of
\* both, each once, with its parents and the length of the longest path to
\* it; the history of an entry are its ancestors; and the closest ancestor
\* with a dataset is an ancestor, if there is one, and no other
\* is between.  The program only ends in a panic when a commit is not newer
\* than one of its parents (git.rs: "parents must exist").
HistoryIsComplete ==
    case.topic = "history" =>
        LET repository == case.repository
            one == History!AddHistory(History!EmptyGraph, repository, case.first)
            two == History!AddHistory(one.graph, repository, case.second)
            graph == two.graph
            wanted == Ancestors(repository, case.first) \cup Ancestors(repository, case.second)
            HashesOf(ids) == {graph.ecommits[i].hash : i \in ids}
            HistoryOf(id) == History!HistoryFrom(graph, id)
            Closest(matches) == History!ClosestMatchingAncestors(graph, two.entry, matches)
        IN /\ TimesIncrease(repository) => ~one.panicked /\ ~two.panicked
           /\ ~one.panicked /\ ~two.panicked =>
                /\ HashesOf(DOMAIN graph.ecommits) = wanted
                /\ Len(graph.ecommits) = Cardinality(wanted)
                /\ graph.ecommits[two.entry].hash = case.second
                /\ \A id \in DOMAIN graph.ecommits :
                        LET c == History!AsHashes(graph, id)
                        IN /\ c.parents = repository[c.hash].parents
                           /\ c.depth = LongestPath(repository, c.hash)
                           /\ HashesOf(HistoryOf(id)) = Ancestors(repository, c.hash)
                /\ \A matches \in SUBSET DOMAIN graph.ecommits :
                        Closest(matches) \subseteq
                            IF matches \cap HistoryOf(two.entry) = {} THEN {History!None}
                            ELSE matches \cap Reached(graph, two.entry, matches)

-----------------------------------------------------------------------------
(* Statistics *)

WeightedValues == [value : 0 .. 3, weight : 1 .. 2]

StatisticsCase ==
    \E length \in 1 .. 3 : \E vals \in [1 .. length -> WeightedValues] :
        case' = [topic |-> "statistics", vals |-> vals]

\* Each value as often as its weight says, in their order.
Expanded(vals) ==
    SortSeq(FoldLeft(LAMBDA seq, v : seq \o [i \in 1 .. v.weight |-> v.value], <<>>, vals), <=)

\* The spans for a row: none, one that did not end, one that took 1 or 2.
SpanLists == {<<>>, <<[start |-> 3, end |-> NoValue, n |-> 1]>>,
              <<[start |-> 3, end |-> 4, n |-> 1]>>, <<[start |-> 3, end |-> 5, n |-> 1]>>}

\* Rows of a probe name have key 8, those of paths 1 and 2: "A:" is less.
TableOf(run, showProbeNames) ==
    LET Shown(keys) == [k \in {j \in keys : run[j] # <<>>} |-> run[k]]
    IN TableForField(showProbeNames, Shown({8}), Shown({1, 2}))

TablesCase ==
    \E one, two \in [{1, 2, 8} -> SpanLists], field \in {Field("N"), Field("Average"), Tile(0)} :
        case' = [topic |-> "tables", runs |-> <<one, two>>, field |-> field]

TreePaths == {<<1>>, <<1, 1>>, <<1, 2>>, <<1, 1, 1>>}

TreeCase ==
    \E values \in [TreePaths -> {NoValue, 0, 1, 3}] : case' = [topic |-> "tree", values |-> values]

TreeOf(values) ==
    LET paths == SetToSeq({p \in TreePaths : values[p] # NoValue})
    IN FromKeyVal([i \in DOMAIN paths |-> [path |-> paths[i], val |-> values[paths[i]]]])

TotalOf(tree) == SumOver({p \in DOMAIN tree : tree[p] # NoValue}, LAMBDA p : tree[p])

ChildrenFit(tree) ==
    \A p \in DOMAIN tree : tree[p] # NoValue => NodeChildrenSum(tree, p) <= tree[p]

KeysOf(rows) == {rows[i].key : i \in DOMAIN rows}

\* Weighted values count as often as their weight says, in the median, the
\* tiles and the deviation as well as in the sum: this is what joined spans
\* rely on.  The summary of several runs has the rows that all of them have
\* with a value for the field, when the tables are sorted; and the lines of
\* a flame graph add up to the time of the outermost spans
\* (stats/mod.rs, all_fields_table.rs, join.rs, tree.rs).
StatisticsAreExact ==
    /\ case.topic = "statistics" =>
        LET stats == FromValues(case.vals)
            sorted == Expanded(case.vals)
            unweighted == [i \in DOMAIN sorted |-> [value |-> sorted[i], weight |-> 1]]
            mid == Len(sorted) \div 2
        IN /\ stats = FromValues(unweighted)
           /\ \A i \in DOMAIN sorted : Lookup(IndexedNumbers(case.vals), i - 1) = sorted[i]
           /\ stats.median = IF Len(sorted) % 2 = 1 THEN sorted[mid + 1]
                             ELSE AverageOfTwo(sorted[mid], sorted[mid + 1])
           /\ stats.tiles[0] = sorted[1] /\ stats.tiles[TileCount - 1] = Last(sorted)
           /\ \A i \in 1 .. TileCount - 1 : stats.tiles[i - 1] <= stats.tiles[i]
           /\ stats.average \in sorted[1] .. Last(sorted)
           /\ stats.sd <= Last(sorted) - sorted[1]
    /\ case.topic = "tables" =>
        \A tables \in {[i \in 1 .. 2 |-> TableOf(case.runs[i], FALSE)]} :
        \A summary \in {SummaryStatsForField(tables, case.field)} :
        LET Ended(k, i) == case.runs[i][k] # <<>> /\ case.runs[i][k][1].end # NoValue
            changes == Changes(tables[1], tables[2], Field("Sum"), FALSE)
            common == KeysOf(tables[1]) \cap KeysOf(tables[2])
            Contributing(k) == {i \in 1 .. 2 : case.field.name = "N" \/ Ended(k, i)}
        IN /\ KeysOf(summary) = {k \in common : Contributing(k) # {}}
           /\ \A i \in DOMAIN summary : summary[i].val.n = Cardinality(Contributing(summary[i].key))
           /\ changes.panic \/ KeysOf(changes.rows) = {k \in common : Ended(k, 1)}
    /\ case.topic = "tree" =>
        LET tree == TreeOf(case.values)
        IN ChildrenFit(tree) => TotalOf(FixTree(tree)) = NodeChildrenSum(tree, <<>>)

\* join.rs says of its sequences that they are "ordered by `KeyVal.key`",
\* and that all keys that are in all of them are preserved: a row that two
\* runs have is in their summary.  It need not be: the rows of the probe
\* names come before those of the paths, which are less.
SummaryKeepsCommonRows ==
    case.topic = "tables" =>
        LET tables == [i \in 1 .. 2 |-> TableOf(case.runs[i], TRUE)]
        IN KeysOf(tables[1]) \cap KeysOf(tables[2])
            \subseteq KeysOf(SummaryStatsForField(tables, Field("N")))

-----------------------------------------------------------------------------
(* Times and numbers *)

AllTimes == {Times!TimeOf(sec, sub) : sec \in 0 .. U32Max, sub \in 0 .. SubPerSec - 1}

DurationCase == \E a, b \in AllTimes : case' = [topic |-> "duration", a |-> a, b |-> b]

ClockChanges == [kind : {"none", "gap", "fold"}, hour : 0 .. Hours - 1]

PeriodCase ==
    \E change \in ClockChanges, from, to \in 0 .. Hours - 1,
       instant \in -Hours .. 2 * Hours, inside \in BOOLEAN :
        case' = [topic |-> "period", change |-> change, range |-> [from |-> from, to |-> to],
                 instant |-> instant, inside |-> inside]

DigitsCase ==
    \E length \in 0 .. 5 : \E ds \in [1 .. length -> {0, 1, 9}], precision \in 0 .. 3,
       underscores \in BOOLEAN :
        case' = [topic |-> "digits", ds |-> ds, precision |-> precision, underscores |-> underscores]

ValueOf(ds) == FoldLeft(LAMBDA n, d : n * 10 + d, 0, ds)

\* The periods of a range that begin within a few days.
Periods(change, range) ==
    {Times!WithStartDate(change, range, day) : day \in -3 .. 3} \ {Times!Nothing}

\* Sums and differences of times are those of their microseconds; they end
\* the process, instead of an answer, exactly when the sum does not fit and
\* when the difference is negative within a second.  A window of a queue is
\* the next one that has not ended, or begun, at the time; and a number
\* that is written with a dot and underscores has the digits of the number.
TimesAreExact ==
    /\ case.topic = "duration" =>
        LET a == case.a
            b == case.b
            sum == Times!AddTimes(a, b)
            difference == Times!CheckedSub(a, b)
            total == Times!ToIncrements(a) + Times!ToIncrements(b)
            less == Times!ToIncrements(a) - Times!ToIncrements(b)
            ms == Times!ToMilliseconds(a)
            unit == SubPerSec \div MilliPerSec
        IN /\ Times!FromIncrements(Times!ToIncrements(a)) = a
           /\ IF total >= (U32Max + 1) * SubPerSec THEN sum = Times!Panic
              ELSE /\ sum = Times!FromIncrements(total)
                   /\ Times!CheckedSub(sum, b) = a
           /\ IF less >= 0 THEN difference = Times!FromIncrements(less)
              ELSE difference = IF a.sec < b.sec THEN Times!Nothing ELSE Times!Panic
           /\ \/ ms = Times!Panic /\ Times!ToIncrements(a) >= (U32Max + 1) * unit
              \/ ms.ms * unit + ms.rest = Times!ToIncrements(a)
    /\ case.topic = "period" =>
        LET periods == Periods(case.change, case.range)
            found == Times!AfterDatetime(case.change, case.range, case.instant, case.inside)
            Comes(p) == IF case.inside THEN case.instant < p.to ELSE case.instant < p.from
            next == {p \in periods : /\ Comes(p)
                                     /\ \A q \in periods : Comes(q) => p.from <= q.from}
        IN found \in next \cup (IF case.change.kind = "none" THEN {} ELSE {Times!Nothing})
    /\ case.topic = "digits" =>
        LET digits == Times!DigitsOf(case.ds)
            number == Times!ToNumber(digits, 999)
            written == Times!WriteDigits(digits, case.precision, case.underscores, TRUE)
            plain == SelectSeq(written, LAMBDA c : c # Times!Underscore)
            dot == SelectInSeq(plain, LAMBDA c : c = Times!Dot)
        IN /\ number = IF ValueOf(case.ds) > 999 THEN Times!Nothing ELSE [num |-> ValueOf(case.ds)]
           /\ ValueOf(SelectSeq(plain, LAMBDA c : c # Times!Dot)) = ValueOf(case.ds)
           /\ IF case.precision = 0 THEN dot = 0 ELSE dot = Len(plain) - case.precision

-----------------------------------------------------------------------------
(* The configuration and the jobs made from it *)

\* The file with the time of modification 1, 2 or 3, or none: version 0.
FileVersion(texts, v) == [exists |-> v # 0, text |-> IF v = 0 THEN "none" ELSE texts[v], mtime |-> v]

\* Which version of the file is there whenever load_config reads it or looks
\* at its time, at first and in perhaps_reload_config, whose own look is between.
ReloadCase ==
    \E texts \in [1 .. 3 -> {"one", "two", "broken"}], times \in [1 .. 5 -> 0 .. 3] :
        case' = [topic |-> "reload",
                 files |-> [t \in 1 .. 5 |-> FileVersion(texts, times[t])]]

FindCase ==
    \E present \in SUBSET [dir : {"home", "etc", "other"}, ext : {"ron", "json", "txt"}] :
        case' = [topic |-> "find", present |-> present]

OneTarget(name, exe, type, required) ==
    [name |-> name, command |-> [target |-> name, exe |-> exe],
     allowed |-> 1 :> [type |-> type, required |-> required]]

TargetLists == {<<OneTarget(1, "a", "U32", TRUE)>>,
                <<OneTarget(1, "a", "U32", TRUE), OneTarget(2, "b", "U32", FALSE)>>,
                <<OneTarget(1, "a", "U32", FALSE), OneTarget(1, "b", "U32", FALSE)>>,
                <<OneTarget(1, "c", "U32", TRUE), OneTarget(2, "b", "U32", FALSE)>>,
                <<OneTarget(1, "a", "NonZeroU32", TRUE), OneTarget(2, "b", "U32", TRUE)>>}

NoParams == [k \in {} |-> Number(0)]

JobTemplates == {[target |-> t, params |-> p, priority |-> 3, boost |-> 1] :
                    t \in {1, 2}, p \in {NoParams, 1 :> Number(0), 1 :> Number(7)}}
                \cup {[target |-> 3, params |-> NoParams, priority |-> 0, boost |-> 0]}

TemplateLists == {<<t>> : t \in JobTemplates} \cup (JobTemplates \X JobTemplates)

Branches == {[ref |-> 1, val |-> <<>>], [ref |-> 2, val |-> <<>>]}
            \cup {[ref |-> Unset, val |-> <<t>>] : t \in JobTemplates}

Options(targets, list, branch) ==
    [targets |-> targets, lists |-> 1 :> list, branches |-> 1 :> branch,
     settings |-> [count |-> Unset, error_budget |-> 2],
     run_jobs_daemon |-> [state_dir |-> Unset, log_dir |-> Unset],
     polling_daemon |-> [state_dir |-> <<"~", "polling">>, log_dir |-> Unset],
     commit_tags_regex |-> Unset]

JobOptions == {[reason |-> Unset, priority |-> Unset, boost |-> Unset,
                settings |-> [count |-> Unset, error_budget |-> Unset]],
               [reason |-> <<"given">>, priority |-> 2, boost |-> 0,
                settings |-> [count |-> 7, error_budget |-> Unset]]}

\* References 1 and 3 are one commit; 4 does not resolve.
References == 1 :> 11 @@ 2 :> 10 @@ 3 :> 11 @@ 4 :> Unset

ConfigCase ==
    \E targets, later \in TargetLists, list \in TemplateLists, branch \in Branches,
       opts \in JobOptions, references \in {{1, 2, 3}, {2, 4}} :
        case' = [topic |-> "config", config |-> Options(targets, list, branch),
                 later |-> Options(later, <<>>, [ref |-> 1, val |-> <<>>]),
                 opts |-> opts, references |-> references]

IsChanged(handle, file) == file.exists /\ file.text # handle.text

\* A change of the configuration file is reported once, also when it cannot
\* be read, and the next change again; but if the file was replaced after it
\* was read and before its time was taken (config_file.rs:311-312), that is
\* not reported, until it changes once more.  A directory with two files
\* does not hide behind another.  A configuration that was accepted gives one job
\* for each commit and template, with parameters that its target allows;
\* written to a file such a job comes back unchanged, and by a later
\* configuration it is accepted only if that would accept it as a template,
\* for the same command.  A priority that the inserter gives replaces that of
\* the template, which config.rs:616-618 says is added to it.  A branch stands
\* for itself and its templates are those of the list that it names
\* (config_file.rs, config.rs, benchmarking_job.rs, insert.rs).
ConfigurationIsExact ==
    /\ case.topic = "reload" /\ LoadConfig(case.files[1], case.files[2]).ok =>
        LET handle == LoadConfig(case.files[1], case.files[2]).val
            seen == case.files[3]
            last == case.files[5]
            first == PerhapsReload(handle, seen, case.files[4], last)
            again == PerhapsReload(first.handle, seen, case.files[4], last)
            next == PerhapsReload(first.handle, last, last, last)
        IN /\ IsChanged(handle, seen) => (first.result = "none" <=> seen = case.files[2])
           /\ again.result = "none"
           /\ last.exists /\ last # seen /\ (seen.exists \/ last # case.files[2]) =>
                next.result = IF last.text = "broken" THEN "error" ELSE "new"
    /\ case.topic = "find" =>
        LET found == FindConfig(case.present)
            known == {f \in case.present : Backend(f.ext).ok /\ f.dir # "other"}
        IN /\ found = Good(NoFile) <=> known = {}
           /\ found.ok /\ known # {} =>
                /\ found.val \in known
                /\ \A f \in known \ {found.val} : found.val.dir = "home" /\ f.dir = "etc"
    /\ case.topic = "config" /\ CheckConfig(case.config).ok =>
        LET config == CheckConfig(case.config).val
            opts == case.opts
            templates == config.lists[1]
            commits == {References[r] : r \in case.references} \ {Unset}
            made == InsertTemplates(config, opts, References, 1, case.references)
            ofBranch == InsertTemplatesOfBranch(config, opts, References, "p", 1, case.references)
            branch == InsertBranch(config, opts, References, "p", Unset, 1, case.references)
            later == CheckConfig(case.later).val
            AsTemplate(job) == [target |-> job.command.target, params |-> job.params,
                                priority |-> job.priority, boost |-> job.boost]
        IN /\ [i \in DOMAIN made.val |-> JobParameters(made.val[i])]
                = [i \in 1 .. Cardinality(commits) * Len(templates) |->
                     LET t == templates[((i - 1) % Len(templates)) + 1]
                     IN [commit |-> SetToSortSeq(commits, <)[(i - 1) \div Len(templates) + 1],
                         params |-> t.params, command |-> t.command]]
           /\ \A i \in DOMAIN made.val :
                /\ CheckTemplate(AsTemplate(made.val[i]), config.targets).ok
                /\ JobPriority(made.val[i]) = IF opts.priority = Unset THEN 4 ELSE 2
                /\ made.val[i].state.error_budget = 2
           /\ InsertJobFiles(config, opts, Unset, FALSE, made.val) = made
           /\ InsertJobFiles(config, opts, Unset, TRUE, made.val) = made
           /\ CheckConfig(case.later).ok /\ InsertJobFiles(later, opts, Unset, FALSE, made.val).ok =>
                \A i \in DOMAIN made.val :
                    LET checked == CheckTemplate(AsTemplate(made.val[i]), later.targets)
                    IN checked.ok /\ checked.val.command = made.val[i].command
           /\ case.config.branches[1].ref # Unset => config.branches[1] = templates
           /\ ToSet(ofBranch.val) \subseteq ToSet(branch.val)
           /\ \E i \in DOMAIN branch.val : branch.val[i].commit = References[1]

-----------------------------------------------------------------------------
(* Listings *)

Inserted == {<<>>} \cup {<<t>> : t \in 1 .. 3} \cup {<<2, 1>>, <<1, 2>>, <<2, 2>>}

ListAllCase ==
    \E one, two, three \in Inserted :
        case' = [topic |-> "list all",
                 jobs |-> <<[params |-> 1, times |-> one], [params |-> 2, times |-> two],
                            [params |-> 3, times |-> three]>>]

\* A queue of jobs with keys 1, 2, ..; the last of them may be gone when it
\* is to be opened, and the one with key `locked` runs or did not unlock.
QueueCase ==
    \E length \in 0 .. 5, locked \in 0 .. 3, gone, extra, inactive, all \in BOOLEAN,
       maxLen \in 1 .. 3, current \in {Nil, 8}, now \in 3 .. 5 :
        case' = [topic |-> "queue", all |-> all, maxLen |-> maxLen, current |-> current, now |-> now,
                 queue |-> [keys |-> [i \in 1 .. length |-> i], extra |-> extra,
                            inactive |-> inactive,
                            jobs |-> [k \in 1 .. length - (IF gone /\ length > 0 THEN 1 ELSE 0) |->
                                        [time |-> k, locked |-> k = locked, last_wd |-> Nil]]]]

TextLengths == {0, 2, 40}

RowCase ==
    \E view \in {"separated", "relative", "full", "url"}, verbose, styled \in BOOLEAN,
       tsv \in BOOLEAN, first, second, last \in TextLengths :
        case' = [topic |-> "row", view |-> view, verbose |-> verbose, styled |-> styled,
                 tsv |-> tsv, texts |-> <<first, second, last>>]

\* A row of a job: as many cells as there are titles.
JobRow(view, texts) ==
    [i \in DOMAIN Lists!Titles(view) |->
        [text |-> texts[IF i = 1 THEN 1 ELSE IF i < Len(Lists!Titles(view)) THEN 2 ELSE 3], span |-> 1]]

\* The listing of all insertions has each insertion once, in the order of
\* time and of equal times in that of the jobs.  The listing of a queue has
\* the last entries, and never tells that a single one was left out; only
\* the job that runs has a working directory of now.  All rows fit the
\* columns of their view, and cells that fit their columns are below their
\* titles (list.rs, list_all.rs, output_table/terminal.rs).
ListingIsComplete ==
    /\ case.topic = "list all" =>
        LET rows == Lists!ListAll(case.jobs)
            Count(j, t) == Cardinality({i \in DOMAIN case.jobs[j].times : case.jobs[j].times[i] = t})
        IN /\ \A j, t \in 1 .. 3 :
                Cardinality({i \in DOMAIN rows : rows[i] = [params |-> j, time |-> t]}) = Count(j, t)
           /\ Len(rows) = Len(case.jobs[1].times) + Len(case.jobs[2].times) + Len(case.jobs[3].times)
           /\ \A i, j \in DOMAIN rows : i < j =>
                \/ rows[i].time < rows[j].time
                \/ (rows[i].time = rows[j].time /\ rows[i].params <= rows[j].params)
    /\ case.topic = "queue" =>
        LET queue == case.queue
            n == Len(queue.keys)
            listed == Lists!QueueRows(queue, case.current, [w \in {8} |-> "Processing"], case.now,
                                      case.all, case.maxLen)
            shown == {listed.rows[i].key : i \in DOMAIN listed.rows}
            skipped == Lists!NumSkipped(queue.keys, queue.extra, case.all, case.maxLen)
        IN /\ skipped # 1 /\ (skipped > 0 => n - skipped = case.maxLen)
           /\ shown = {k \in DOMAIN queue.jobs : k > skipped}
           /\ \A i \in DOMAIN listed.rows :
                listed.rows[i].wd # Nil =>
                    queue.jobs[listed.rows[i].key].locked /\ listed.rows[i].s = "R"
           /\ listed.ok <=> \A k \in shown : queue.jobs[k].time <= case.now
    /\ case.topic = "row" =>
        LET widths == Lists!TerminalWidths(case.view, case.verbose)
            Drawn(row) == Lists!TerminalRow(row, widths, case.styled, case.tsv)
            titles == Drawn(Lists!TitleRow(case.view))
            job == Drawn(JobRow(case.view, case.texts))
            Fits(cells) == \A i \in DOMAIN widths : cells[i].text < widths[i]
        IN /\ \A row \in {titles, job, Drawn(Lists!QueueTitle(case.view, case.verbose))} :
                ~row.error /\ ~row.panic
           /\ ~case.tsv /\ Fits(JobRow(case.view, case.texts)) =>
                \A i \in DOMAIN job.starts :
                    job.starts[i] = FoldLeft(+, 0, SubSeq(widths, 1, i - 1))

-----------------------------------------------------------------------------
(* Files that are read again *)

StampedLines == [stamp : 1 .. 3, text : {"start", "end", "other"}]

Streams == {<<>>} \cup {<<l>> : l \in StampedLines}
           \cup {s \in StampedLines \X StampedLines : s[1].stamp <= s[2].stamp}

Heads == {<<>>, <<"job">>, <<"broken">>}

LogCase ==
    \E out, err \in Streams, head \in Heads :
        case' = [topic |-> "log", streams |-> <<out, err>>, head |-> head]

\* Without the line's number, which depends on the other stream.
DurationOf(log) ==
    LET found == Logs!FindDuration(log)
    IN <<found.kind, IF found.kind = "span" THEN found.duration ELSE 0>>

\* Whether all the lines that matter come from one of the streams.
InOneStream(streams) ==
    \E t \in 1 .. 2 : \A i \in DOMAIN streams[t] : streams[t][i].text = "other"

OldTexts == [version : {1}, job : 1 .. 2, extracts : BOOLEAN, times : {<<1>>, <<2>>}]
CurrentTexts == [version : {2}, job : 1 .. 2, extracts : {FALSE}, times : {<<1>>, <<1, 3>>}]
UnknownTexts == [version : {3}, job : {1}, extracts : {FALSE}, times : {<<1>>}]

MigrationCase ==
    \E keys \in SUBSET (1 .. 3) :
        \E entries \in [keys -> OldTexts \cup CurrentTexts \cup UnknownTexts],
           table \in {"queue", "inserted jobs"} :
            case' = [topic |-> "migration", table |-> table, entries |-> entries]

\* Two threads, 1 and 2, replace the same file.
Paths == [name : {"file"}, thread : 0 .. 2]

TempFileCase ==
    \E exists, migrateAccess \in BOOLEAN, first \in 1 .. 2, modes \in [0 .. 2 -> {0, 1}] :
        case' = [topic |-> "temp file", first |-> first, migrateAccess |-> migrateAccess,
                 files |-> [p \in {q \in Paths : exists \/ q.thread # 0} |->
                                [text |-> p.thread, mode |-> modes[p.thread]]]]

EntriesFor(entries, key) == {k \in DOMAIN entries : HashOf(entries[k].job) = key}

\* Several entries come to a key that one has already: that one is replaced,
\* however old it is.
MeetsThree(entries, key) ==
    /\ key \in EntriesFor(entries, key) /\ entries[key].version = 2
    /\ Cardinality(EntriesFor(entries, key)) > 2

JobsOf(entries) == {entries[k].job : k \in DOMAIN entries}

\* The head of a run's log and the lines after it are found again, and the
\* time between two lines of one stream does not depend on the order in
\* which the two threads wrote; the search of many logs prints the times of
\* those that are wanted and passes over logs without a head.  After a migration all entries are current
\* and at their keys, none of the jobs is missing, the older times of two
\* entries for a job remain, and migrating again changes nothing; when an
\* entry cannot be read nothing is changed at all.  A crash leaves only
\* entries from before and from afterwards; and two threads that replace
\* one file leave the text of the last, and no temporary file
\* (output_capture_log.rs, command_log_file.rs, grep_diff.rs, migrate.rs,
\* tempfile_utils.rs).
FilesAreReadBack ==
    /\ case.topic = "log" =>
        LET logs == Logs!Captured(case.head, case.streams)
            IsEmpty == \A t \in 1 .. 2 : case.streams[t] = <<>>
        IN /\ ~IsEmpty => \A log \in logs :
                LET rest == Logs!Rest(log)
                IN /\ rest.lines = SubSeq(log, Len(case.head) + 1, Len(log))
                   /\ rest.lineno = Len(case.head) + 1
                   /\ Logs!LogParams(log).kind
                        = IF case.head = <<>> THEN "missing head" ELSE case.head[1]
                   /\ case.head # <<>> =>
                        LET broken == case.head[1] = "broken"
                            found == Logs!FindDuration(log)
                            Grep(commit) == Logs!GrepDiff(<<rest.lines, log, log>>, commit, "any", (1 :> 3))
                        IN /\ Grep("one").error = (broken \/ found.kind = "error")
                           /\ Grep("one").printed = IF broken \/ found.kind # "span" THEN <<>>
                                                ELSE <<found, found>>
                           /\ Grep("two") = [printed |-> <<>>, error |-> broken]
           /\ InOneStream(case.streams) => Cardinality({DurationOf(log) : log \in logs}) = 1
    /\ case.topic = "migration" =>
        LET entries == case.entries IN
        \A migrated \in {Migrate!Migrated(case.table, entries)},
           stages \in {Migrate!Stages(case.table, entries)} :
           IF \E k \in DOMAIN entries : ~Migrate!Parse(entries[k]).ok
           THEN DOMAIN stages = {0} /\ migrated = entries
           ELSE /\ \A k \in DOMAIN migrated :
                        /\ migrated[k].version = 2
                        /\ Migrate!GenKey(case.table, k, migrated[k]) = k
                        /\ \E j \in DOMAIN entries : /\ entries[j].job = migrated[k].job
                                                     /\ entries[j].times = migrated[k].times
                /\ JobsOf(migrated) = JobsOf(entries)
                /\ \A k \in DOMAIN migrated :
                        case.table = "inserted jobs" /\ ~MeetsThree(entries, k) =>
                            \A j \in EntriesFor(entries, k) :
                                Migrate!Precedes(migrated[k].times, entries[j].times)
                /\ case.table = "queue" => DOMAIN migrated = DOMAIN entries
                /\ Migrate!Changes(case.table, migrated).count = 0
                /\ \A n \in DOMAIN stages : \A k \in DOMAIN stages[n] :
                        \/ k \in DOMAIN entries /\ stages[n][k] = entries[k]
                        \/ k \in DOMAIN migrated /\ stages[n][k] = migrated[k]
    /\ case.topic = "temp file" =>
        LET target == [name |-> "file", thread |-> 0]
            first == Migrate!Finish(case.files, target, case.first, case.migrateAccess)
            both == Migrate!Finish(first, target, 3 - case.first, case.migrateAccess)
            dropped == Migrate!Drop(first, target, 3 - case.first)
        IN /\ DOMAIN both = {target} /\ both[target].text = 3 - case.first
           /\ DOMAIN dropped = {target} /\ dropped[target].text = case.first
           /\ case.migrateAccess /\ target \in DOMAIN case.files =>
                both[target].mode = case.files[target].mode

-----------------------------------------------------------------------------
Init == case = [topic |-> "none"]

Next == case.topic = "none" /\
    (PathCase \/ HistoryCase \/ StatisticsCase \/ TablesCase \/ TreeCase
     \/ DurationCase \/ PeriodCase \/ DigitsCase
     \/ ReloadCase \/ FindCase \/ ConfigCase
     \/ ListAllCase \/ QueueCase \/ RowCase
     \/ LogCase \/ MigrationCase \/ TempFileCase)

Spec == Init /\ [][Next]_case
=============================================================================
