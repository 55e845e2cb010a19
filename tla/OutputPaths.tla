---------------------------- MODULE OutputPaths ----------------------------
(***************************************************************************)
(* The names of the output directories: structure.rs turns a key (target,  *)
(* custom parameters, commit) and the time of a run into a path, and reads *)
(* such paths back, since the file system is the only database of results. *)
(*                                                                         *)
(* A path is what Rust's Path::components gives: root or not, and a        *)
(* sequence of segments.  A segment is a record whose kind tells how the   *)
(* string parses.  Double slashes and inner "." are not in a path: Path    *)
(* skips them.  Strings are names and numbers; case and digits of a hash   *)
(* and the way a time is written are the flag `canonical`.                 *)
(***************************************************************************)
EXTENDS Naturals, FiniteSets, SequencesExt

CONSTANTS Reserved,     \* variable names that AllowableCustomEnvVar refuses
          MaxU32        \* u32::MAX

ASSUME MaxU32Assumption == MaxU32 \in Nat \ {0}

Bad == [ok |-> FALSE]
Good(v) == [ok |-> TRUE, val |-> v]

-----------------------------------------------------------------------------
(* Strings and segments *)

\* What a value given by the user can look like: a number or a text, with
\* the characteristics that some check looks at.
Number(n) == [number |-> n, flaws |-> {}, extension |-> FALSE]
Text(flaws, extension) == [number |-> MaxU32 + 1, flaws |-> flaws, extension |-> extension]

\* flaws: "slash" "newline" "nul" "empty" "dots" "long"
IsProperFilename(v) == v.flaws = {}

IsProperDirname(v) == IsProperFilename(v) /\ ~v.extension

Var(key, val) == [kind |-> "var", key |-> key, val |-> val]
Name(name) == [kind |-> "name", name |-> name]
File(name) == [kind |-> "file", name |-> name]
Hash(id, canonical) == [kind |-> "hash", id |-> id, canonical |-> canonical]
\* a time prints its fraction of a second only when there is one
Time(at, fraction, canonical) ==
    [kind |-> "time", at |-> at, fraction |-> fraction, canonical |-> canonical]
Up == [kind |-> "up"]
Here == [kind |-> "here"]

\* Parsing normalizes: lower case for a hash, to_rfc3339 for a time.
Canonical(s) == IF s.kind \in {"hash", "time"} THEN [s EXCEPT !.canonical = TRUE] ELSE s

\* What follows the last dot of a time with a fraction is a file extension.
IsDirnameSegment(s) == s.kind \in {"name", "hash"} \/ (s.kind = "time" /\ ~s.fraction)

IsTop(path) == path.parts = <<>>

HasFileName(path) == ~IsTop(path) /\ Last(path.parts).kind \notin {"up", "here"}

Parent(path) == [path EXCEPT !.parts = Front(@)]

Append1(path, s) == [path EXCEPT !.parts = Append(@, s)]

\* parse_path_filename: the last segment as the wanted kind, and the parent.
ParseFileName(path, kind) ==
    IF HasFileName(path) /\ Last(path.parts).kind = kind
    THEN Good(Canonical(Last(path.parts)))
    ELSE Bad

-----------------------------------------------------------------------------
(* Custom parameters *)

AllowEnvVar(name) == name \notin Reserved

CheckedValue(type, v) ==
    CASE type = "String" -> "nul" \notin v.flaws
      [] type = "Filename" -> IsProperFilename(v)
      [] type = "Dirname" -> IsProperDirname(v)
      [] type = "Bool" -> v \in {Number(0), Number(1)}
      [] type = "NonZeroU32" -> v.number \in 1 .. MaxU32
      [] type = "U32" -> v.number \in 0 .. MaxU32

\* `allowed` gives each configured name a type and whether it is required.
CheckedFrom(keyvals, allowed) ==
    IF /\ \A k \in DOMAIN keyvals : k \in DOMAIN allowed
                                    /\ CheckedValue(allowed[k].type, keyvals[k])
       /\ \A k \in DOMAIN allowed : allowed[k].required => k \in DOMAIN keyvals
    THEN Good(keyvals)
    ELSE Bad

SortedKeys(keyvals) == SetToSortSeq(DOMAIN keyvals, <)

\* A slash in a value ends the segment: what follows it is one more.
ValueSegments(key, v) ==
    IF "slash" \in v.flaws
    THEN <<Var(key, [v EXCEPT !.flaws = @ \ {"slash"}]), Name("rest")>>
    ELSE <<Var(key, v)>>

ExtendPath(path, keyvals) ==
    LET keys == SortedKeys(keyvals)
    IN [path EXCEPT !.parts =
            FoldLeft(LAMBDA parts, k : parts \o ValueSegments(k, keyvals[k]), @, keys)]

-----------------------------------------------------------------------------
(* The three kinds of directories.  `cache` is the path_cache: the path a  *)
(* directory was parsed from, or nothing as yet.                           *)

NoCache == [root |-> FALSE, parts |-> <<>>]

ParametersDir(base, target, params) ==
    [level |-> "parameters", base |-> base, target |-> target, params |-> params,
     cache |-> NoCache]

KeyDir(parent, commit) ==
    [level |-> "key", parent |-> parent, commit |-> commit, cache |-> NoCache]

RunDir(parent, timestamp) ==
    [level |-> "run", parent |-> parent, timestamp |-> timestamp, cache |-> NoCache]

Cached(d, path) == IF d.cache # NoCache THEN d.cache ELSE path

ParametersPath(d) == Cached(d, ExtendPath(Append1(d.base, d.target), d.params))

KeyPath(d) == Cached(d, Append1(ParametersPath(d.parent), d.commit))

RunPath(d) == Cached(d, Append1(KeyPath(d.parent), d.timestamp))

ToPath(d) == CASE d.level = "parameters" -> ParametersPath(d)
               [] d.level = "key" -> KeyPath(d)
               [] d.level = "run" -> RunPath(d)

\* ParametersDir::try_from: variables are collected from the right up to the
\* target; a variable met again, further left, replaces the one before.
ParseParameters(path) ==
    LET parts == path.parts
        targets == {i \in DOMAIN parts : parts[i].kind # "var"}
        t == Max(targets)
        vars == t + 1 .. Len(parts)
        Leftmost(k) == Min({i \in vars : parts[i].key = k})
        params == [k \in {parts[i].key : i \in vars} |-> parts[Leftmost(k)].val]
    IN IF /\ targets # {}
          /\ \A i \in vars : AllowEnvVar(parts[i].key)
          /\ IsDirnameSegment(parts[t])
       THEN Good([ParametersDir([path EXCEPT !.parts = SubSeq(@, 1, t - 1)], parts[t], params)
                    EXCEPT !.cache = path])
       ELSE Bad

\* KeyDir::try_from, RunDir::try_from: the last segment, then the parent.
ParseKey(path) ==
    LET commit == ParseFileName(path, "hash")
        parent == ParseParameters(Parent(path))
    IN IF commit.ok /\ parent.ok
       THEN Good([KeyDir(parent.val, commit.val) EXCEPT !.cache = path])
       ELSE Bad

ParseRun(path) ==
    LET timestamp == ParseFileName(path, "time")
        parent == ParseKey(Parent(path))
    IN IF timestamp.ok /\ parent.ok
       THEN Good([RunDir(parent.val, timestamp.val) EXCEPT !.cache = path])
       ELSE Bad

\* The most general directory first.
ParseSubdir_Shallow(path) ==
    IF ParseParameters(path).ok THEN ParseParameters(path)
    ELSE IF ParseKey(path).ok THEN ParseKey(path)
    ELSE ParseRun(path)

\* OutputSubdir::try_from: all levels, the deepest first.
ParseSubdir(path) ==
    IF ParseRun(path).ok THEN ParseRun(path)
    ELSE IF ParseKey(path).ok THEN ParseKey(path)
    ELSE ParseParameters(path)

Base(d) == CASE d.level = "parameters" -> d.base
             [] d.level = "key" -> d.parent.base
             [] d.level = "run" -> d.parent.parent.base

\* A new base drops the cached paths of all levels.
ReplaceBaseOfParameters(d, base) == ParametersDir(base, d.target, d.params)

ReplaceBaseOfKey(d, base) == KeyDir(ReplaceBaseOfParameters(d.parent, base), d.commit)

ReplaceBase(d, base) ==
    CASE d.level = "parameters" -> ReplaceBaseOfParameters(d, base)
      [] d.level = "key" -> ReplaceBaseOfKey(d, base)
      [] d.level = "run" -> RunDir(ReplaceBaseOfKey(d.parent, base), d.timestamp)

\* append_subdir_str: the name of a file system entry as the level below.
AppendSubdir(d, s) ==
    CASE d.level = "parameters" /\ s.kind = "hash" -> Good(KeyDir(d, Canonical(s)))
      [] d.level = "key" /\ s.kind = "time" -> Good(RunDir(d, Canonical(s)))
      [] OTHER -> Bad

\* sub_dirs: files, and directories that do not parse, are passed over.
SubDirs(d, entries) ==
    {AppendSubdir(d, e.name).val : e \in {f \in entries : f.isDir /\ AppendSubdir(d, f.name).ok}}

\* Below a run: its own three files, and any proper file name.
RunFile(d, name) == Append1(RunPath(d), File(name))

AppendStr(d, v) == IF IsProperFilename(v) THEN Good(RunFile(d, v)) ELSE Bad

-----------------------------------------------------------------------------
\* KeyDir::from_base_target_params for checked parameters, and
\* ParametersDir::from_job_template for those of a job template.
FromJob(base, target, job, allowed) ==
    LET params == CheckedFrom(job.params, allowed)
    IN IF params.ok
       THEN Good(KeyDir(ParametersDir(base, target, params.val), job.commit))
       ELSE Bad

\* The information in a directory, without the caches.
Content(d) == ReplaceBase(d, Base(d))
=============================================================================
