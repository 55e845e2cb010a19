---------------------------- MODULE CommandLogs ----------------------------
(***************************************************************************)
(* The log of a benchmark run: two threads copy the output and the errors  *)
(* of the program into it, line by line (output_capture_log.rs); later the *)
(* job's parameters at its head are read again (command_log_file.rs), and  *)
(* the time between two lines is extracted (grep_diff.rs).                 *)
(*                                                                         *)
(* A line is [stamp, text], and NoStamp when the part before its first tab *)
(* is not a time.                                                          *)
(***************************************************************************)
EXTENDS Integers, FiniteSets, SequencesExt

CONSTANTS Parse(_),    \* the parser of the head's format
          IsStart(_),  \* GrepDiffRegion::regex_start
          IsEnd(_)     \* GrepDiffRegion::regex_end

NoStamp == -1

-----------------------------------------------------------------------------
(* Capturing: `streams` gives for each thread the lines that it reads, with *)
(* the times at which it reads them.                                        *)

Lines(streams) == UNION {{<<t, i>> : i \in DOMAIN streams[t]} : t \in DOMAIN streams}

StampOf(streams, l) == streams[l[1]][l[2]].stamp

\* new_proxy_thread: each thread writes its lines in their order, under a
\* lock, but stamps a line before it waits for the lock.  It reads the next
\* line after that: only one line of a thread can be older than lines of
\* the other thread that are before it.
Orders(streams) ==
    {f \in SetToSeqs(Lines(streams)) :
        \A i, j \in DOMAIN f : i < j =>
            /\ f[i][1] = f[j][1] => f[i][2] < f[j][2]
            /\ \/ StampOf(streams, f[i]) <= StampOf(streams, f[j])
               \/ \A k \in i + 1 .. j - 1 : f[k][1] # f[j][1]}

\* The log: first the head, by write_str, then the lines.
Captured(head, streams) ==
    {[i \in 1 .. Len(head) + Len(f) |->
        IF i <= Len(head) THEN [stamp |-> NoStamp, text |-> head[i]]
        ELSE LET l == f[i - Len(head)]
             IN [stamp |-> StampOf(streams, l), text |-> streams[l[1]][l[2]].text]] :
     f \in Orders(streams)}

\* last_part: the last `len` of the bytes, and whether these are all.
LastPart(file, len) ==
    [all |-> Len(file) < len,
     part |-> SubSeq(file, IF Len(file) < len THEN 1 ELSE Len(file) - len + 1, Len(file))]

-----------------------------------------------------------------------------
(* Reading *)

\* split_off_log_file_params: the head ends before the first line with a
\* time; there is none when that is the first line, or when there is none.
FirstStamped(log) == SelectInSeq(log, LAMBDA l : l.stamp # NoStamp)

HasHead(log) == FirstStamped(log) > 1

\* log_contents_rest: the lines after the head, and the number of the first.
Rest(log) ==
    LET first == IF HasHead(log) THEN FirstStamped(log) ELSE 1
    IN [lines |-> SubSeq(log, first, Len(log)), lineno |-> first]

\* parse_log_file_params
LogParams(log) ==
    IF ~HasHead(log) THEN [kind |-> "missing head"]
    ELSE Parse([i \in 1 .. FirstStamped(log) - 1 |-> log[i].text])

\* find_matching_spans_for: from a start to the next end, from there on to
\* the next start; a start without end makes it fail.
FindSpans(rest) ==
    LET Stamped(i) == rest.lines[i].stamp # NoStamp
        Text(i) == rest.lines[i].text
        Timing(i) == [stamp |-> rest.lines[i].stamp, lineno |-> rest.lineno + i - 1]
        Step(state, i) ==
            CASE state.open = 0 /\ Stamped(i) /\ IsStart(Text(i)) -> [state EXCEPT !.open = i]
              [] state.open # 0 /\ Stamped(i) /\ IsEnd(Text(i)) ->
                    [spans |-> Append(state.spans, [start |-> Timing(state.open), end |-> Timing(i)]),
                     open |-> 0]
              [] OTHER -> state
    IN FoldLeft(Step, [spans |-> <<>>, open |-> 0], [i \in DOMAIN rest.lines |-> i])

\* find_duration_for, and duration_nanotime for the one span: nothing when
\* there is no span or an open one, an error when there are several or when
\* the end is older than the start.
FindDuration(log) ==
    LET found == FindSpans(Rest(log))
        span == found.spans[1]
    IN IF found.open # 0 \/ found.spans = <<>> THEN [kind |-> "nothing"]
       ELSE IF Len(found.spans) > 1 \/ span.end.stamp < span.start.stamp THEN [kind |-> "error"]
       ELSE [kind |-> "span", duration |-> span.end.stamp - span.start.stamp,
             lineno |-> span.start.lineno]

\* The filters of grep_diff: commit, target and parameters, each optional
\* ("any"); a parameter the job does not have does not match.
IsWanted(job, commit, target, params) ==
    /\ commit \in {"any", job.commit}
    /\ target \in {"any", job.target}
    /\ \A k \in DOMAIN params : k \in DOMAIN job.params /\ job.params[k] = params[k]

\* grep_diff: what it prints before the first error; logs without a head,
\* and those that are not wanted, are passed over.
GrepDiff(logs, commit, target, params) ==
    LET Step(state, log) ==
            LET job == LogParams(log)
                found == FindDuration(log)
                Passed == \/ state.error
                          \/ job.kind = "missing head"
                          \/ job.kind = "job" /\ ~IsWanted(job, commit, target, params)
                          \/ job.kind = "job" /\ found.kind = "nothing"
            IN IF Passed THEN state
               ELSE IF job.kind = "job" /\ found.kind = "span"
               THEN [state EXCEPT !.printed = Append(@, found)]
               ELSE [state EXCEPT !.error = TRUE]
    IN FoldLeft(Step, [printed |-> <<>>, error |-> FALSE], logs)
=============================================================================
