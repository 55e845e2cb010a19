--------------------------- MODULE Configuration ---------------------------
(***************************************************************************)
(* The configuration file: how it is found and loaded again when it        *)
(* changes (config_file.rs), how it is checked (config.rs); and the jobs   *)
(* that are made from it (benchmarking_job.rs, insert.rs).                 *)
(*                                                                         *)
(* Unset stands for Option::None.  Priorities are numbers; paths below the *)
(* home directory are sequences of names.                                  *)
(***************************************************************************)
EXTENDS Integers, OutputPaths

CONSTANT Unset

Or(a, b) == IF a = Unset THEN b ELSE a

\* Result::collect: all checked values, or the error.
CheckAll(results) ==
    IF \A i \in DOMAIN results : results[i].ok
    THEN Good([i \in DOMAIN results |-> results[i].val])
    ELSE Bad

-----------------------------------------------------------------------------
(* Finding the file: `present` is a set of [dir, ext] *)

FileExtensions == <<"ron", "json5", "json", "yml", "yaml", "hcl">>

Backend(ext) ==
    CASE ext = "ron" -> Good("RON")
      [] ext \in {"json5", "json"} -> Good("JSON5")
      [] ext \in {"yml", "yaml"} -> Good("YAML")
      [] ext = "hcl" -> Good("HCL")
      [] OTHER -> Bad

DefaultConfigDirs == <<"home", "etc">>      \* in the home directory the name starts with a dot

NoFile == [dir |-> Unset, ext |-> Unset]

\* load_config without a path: the first directory that has any; two files
\* in it are an error.  Without any, the caller's `or_else` decides.
FindConfig(present) ==
    LET In(dir) == {f \in present : f.dir = dir /\ f.ext \in ToSet(FileExtensions)}
        dirs == SelectSeq(DefaultConfigDirs, LAMBDA dir : In(dir) # {})
    IN IF dirs = <<>> THEN Good(NoFile)
       ELSE IF Cardinality(In(dirs[1])) = 1
       THEN Good(CHOOSE f \in In(dirs[1]) : TRUE)
       ELSE Bad

-----------------------------------------------------------------------------
(* Loading again.  A file is [exists, text, mtime]; "broken" does not parse *)

\* load_config with a path, while a writer may replace the file: its text
\* is read first, its time of modification afterwards.
LoadConfig(whenRead, whenStat) ==
    IF ~whenRead.exists \/ whenRead.text = "broken" \/ ~whenStat.exists
    THEN Bad
    ELSE Good([text |-> whenRead.text, mtime |-> whenStat.mtime])

\* Only a good reload remembers the time: the error comes at every check.
PerhapsReload_Forgets(handle, file, whenRead, whenStat) ==
    IF ~file.exists \/ file.mtime = handle.mtime
    THEN [handle |-> handle, result |-> "none"]
    ELSE IF LoadConfig(whenRead, whenStat).ok
    THEN [handle |-> [handle EXCEPT !.mtime = file.mtime], result |-> "new"]
    ELSE [handle |-> handle, result |-> "error"]

\* perhaps_reload_config: the time is remembered before the load is tried.
PerhapsReload(handle, file, whenRead, whenStat) ==
    IF ~file.exists \/ file.mtime = handle.mtime
    THEN [handle |-> handle, result |-> "none"]
    ELSE [handle |-> [handle EXCEPT !.mtime = file.mtime],
          result |-> IF LoadConfig(whenRead, whenStat).ok THEN "new" ELSE "error"]

WarrantsRestart(reload) == reload.result = "new"

-----------------------------------------------------------------------------
(* Checking: the parts of RunConfigOpts that are looked at *)

\* ValOrRef::value_with_context
ValueWithContext(v, context) ==
    IF v.ref = Unset THEN Good(v.val)
    ELSE IF v.ref \in DOMAIN context THEN Good(context[v.ref])
    ELSE Bad

\* A target is [name, command, allowed]; two of a name are an error.
TargetsByName(targets) ==
    IF \E i, j \in DOMAIN targets : i # j /\ targets[i].name = targets[j].name
    THEN Bad
    ELSE Good([n \in {targets[i].name : i \in DOMAIN targets} |->
                 CHOOSE t \in ToSet(targets) : t.name = n])

\* JobTemplateOpts::check
CheckTemplate(template, targets) ==
    IF /\ template.target \in DOMAIN targets
       /\ CheckedFrom(template.params, targets[template.target].allowed).ok
    THEN Good([priority |-> template.priority, boost |-> template.boost,
               command |-> targets[template.target].command,
               params |-> template.params])
    ELSE Bad

CheckTemplates(list, targets) ==
    CheckAll([i \in DOMAIN list |-> CheckTemplate(list[i], targets)])

CheckLists(lists, targets) ==
    IF \A name \in DOMAIN lists : CheckTemplates(lists[name], targets).ok
    THEN Good([name \in DOMAIN lists |-> CheckTemplates(lists[name], targets).val])
    ELSE Bad

\* RemoteRepositoryOpts::check: each branch has templates, or names a list.
CheckBranches(branches, lists, targets) ==
    LET Own(b) == IF branches[b].ref = Unset THEN CheckTemplates(branches[b].val, targets)
                  ELSE Good(<<>>)
        Templates(b) == IF Own(b).ok
                        THEN ValueWithContext([branches[b] EXCEPT !.val = Own(b).val], lists)
                        ELSE Bad
    IN IF \A b \in DOMAIN branches : Templates(b).ok
       THEN Good([b \in DOMAIN branches |-> Templates(b).val])
       ELSE Bad

\* GlobalAppStateDir::subdir
AppSubdir(name) == <<"home", ".evobench", name>>

\* TildePath::resolve
Resolve(path) == IF path # <<>> /\ Head(path) = "~" THEN <<"home">> \o Tail(path) ELSE path

\* DaemonPathsOpts::check
DaemonPaths(opts, defaultSubdir) ==
    LET state == IF opts.state_dir = Unset THEN AppSubdir(defaultSubdir)
                 ELSE Resolve(opts.state_dir)
    IN [state_dir |-> state,
        log_dir |-> IF opts.log_dir = Unset THEN Append(state, "logs") ELSE Resolve(opts.log_dir)]

\* QueuesConfig::run_queues_basedir
RunQueuesBasedir(basedir) == IF basedir = Unset THEN AppSubdir("queues") ELSE Resolve(basedir)

\* working_directory_change_signals_path
ChangeSignalsPath(config) == Append(config.run_jobs_daemon.state_dir, "working_directory_change.signals")

\* RunConfigOpts::check
CheckConfig(opts) ==
    LET targets == TargetsByName(opts.targets)
        lists == CheckLists(opts.lists, targets.val)
        branches == CheckBranches(opts.branches, lists.val, targets.val)
    IN IF targets.ok /\ lists.ok /\ branches.ok
       THEN Good([targets |-> targets.val, lists |-> lists.val, branches |-> branches.val,
                  settings |-> opts.settings,
                  run_jobs_daemon |-> DaemonPaths(opts.run_jobs_daemon, "run_jobs_daemon"),
                  polling_daemon |-> DaemonPaths(opts.polling_daemon, "polling_daemon"),
                  commit_tags_regex |-> Or(opts.commit_tags_regex, ".*")])
       ELSE Bad

-----------------------------------------------------------------------------
(* The condition of a queue: [kind, priority, stop_start, move, situation] *)

TimedQueueDefaultPriority == 3      \* in halves: 1.5

IsInactive(condition) == condition.kind = "Inactive"

QueuePriority(condition) ==
    CASE condition.kind = "Immediately" -> 0
      [] condition.kind = "LocalNaiveTimeWindow" -> Or(condition.priority, TimedQueueDefaultPriority)
      [] IsInactive(condition) -> Unset

StopStart(condition) ==
    IF condition.kind = "LocalNaiveTimeWindow" THEN condition.stop_start ELSE Unset

MoveWhenTimeWindowEnds(condition) == condition.kind = "LocalNaiveTimeWindow" /\ condition.move

Situation(condition) == IF IsInactive(condition) THEN Unset ELSE condition.situation

\* RunWithPreExec::command: code before the program needs a shell.
PreExecCode(global, own) == SelectSeq(<<global, own>>, LAMBDA code : code # "")

RunProgram(global, own, program) ==
    IF PreExecCode(global, own) = <<>> THEN program
    ELSE [shell |-> "bash",
          code |-> <<"set -meuo pipefail", "IFS=">> \o PreExecCode(global, own) \o <<"exec">>,
          program |-> program]

-----------------------------------------------------------------------------
(* Jobs *)

DefaultSettings == [count |-> 5, error_budget |-> 3]

\* BenchmarkingJobSettingsOpts::falling_back_to, and into settings
FallingBackTo(opts, fallback) ==
    [count |-> Or(opts.count, fallback.count),
     error_budget |-> Or(opts.error_budget, fallback.error_budget)]

Settings(opts) == FallingBackTo(opts, DefaultSettings)

JobState(settings) ==
    [count |-> settings.count, error_budget |-> settings.error_budget, last_wd |-> Unset]

\* BenchmarkingJobOpts::complete_jobs: one job per template.
CompleteJobs(opts, commit, templates) ==
    [i \in DOMAIN templates |->
        [reason |-> opts.reason,
         commit |-> commit,
         params |-> templates[i].params,
         command |-> templates[i].command,
         state |-> JobState(Settings(opts.settings)),
         priority |-> Or(opts.priority, templates[i].priority),
         boost |-> Or(opts.boost, templates[i].boost)]]

\* insert_templates_with_references: references that do not resolve are
\* left out, and each commit counts once; commits come in their order.
JobsForReferences(config, opts, repository, templates, references) ==
    LET completed == [opts EXCEPT !.settings = FallingBackTo(@, config.settings)]
        commits == {repository[r] : r \in references} \ {Unset}
    IN FoldLeft(LAMBDA jobs, c : jobs \o CompleteJobs(completed, c, templates),
                <<>>, SetToSortSeq(commits, <))

DefaultReason(opts, reason) == [opts EXCEPT !.reason = Or(@, reason)]

\* Insert::Templates
InsertTemplates(config, opts, repository, list, references) ==
    IF list \notin DOMAIN config.lists THEN Bad
    ELSE Good(JobsForReferences(config, DefaultReason(opts, <<"T", list>>), repository,
                                config.lists[list], references))

\* Insert::TemplatesOfBranch: the branch is not one of the references.
InsertTemplatesOfBranch(config, opts, repository, place, branch, references) ==
    IF branch \notin DOMAIN config.branches THEN Bad
    ELSE Good(JobsForReferences(config, DefaultReason(opts, <<place, branch>>), repository,
                                config.branches[branch], references))

\* Insert::Branch: the branch is the given or the current one, and one of
\* the references.
InsertBranch(config, opts, repository, place, given, current, references) ==
    LET branch == Or(given, current)
    IN IF branch = Unset THEN Bad
       ELSE InsertTemplatesOfBranch(config, opts, repository, place, branch,
                                    references \cup {branch})

\* check_and_init for a job read from a file: its settings start again, and
\* it must fit the configuration of today.
CheckAndInit(config, job, opts, commit, force) ==
    LET init == [job EXCEPT
                    !.state = JobState(Settings(FallingBackTo(opts.settings, config.settings))),
                    !.boost = Or(opts.boost, @),
                    !.priority = Or(opts.priority, @),
                    !.reason = Or(opts.reason, @),
                    !.commit = Or(commit, @)]
        target == config.targets[job.command.target]
        fits == /\ job.command.target \in DOMAIN config.targets
                /\ CheckedFrom(job.params, target.allowed).ok
                /\ job.command = target.command
    IN IF force \/ fits THEN Good(init) ELSE Bad

\* Insert::JobFiles: all of the files, or none.
InsertJobFiles(config, opts, commit, force, files) ==
    CheckAll([i \in DOMAIN files |-> CheckAndInit(config, files[i], opts, commit, force)])

JobPriority(job) == job.priority + job.boost

\* clone_for_queue_reinsertion: the boost is for the first run only.
CloneForQueueReinsertion(job, state) == [job EXCEPT !.state = state, !.boost = 0]

\* benchmarking_job_parameters: what the results depend on.
JobParameters(job) == [commit |-> job.commit, params |-> job.params, command |-> job.command]
=============================================================================
