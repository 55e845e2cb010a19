------------------------------- MODULE Listing -------------------------------
(***************************************************************************)
(* The tables of `evobench list` (list.rs), `list all` (list_all.rs) and   *)
(* of the tables' output as text (output_table/terminal.rs) and HTML.      *)
(***************************************************************************)
EXTENDS Integers, FiniteSets, SequencesExt

CONSTANTS Nil,          \* Option::None
          Day           \* the age in seconds from which an entry is faded

Titles(view) ==
    <<"Insertion_time", "S", "Prio", "WD", "Reason">> \o
    (CASE view = "separated" -> <<"Commit_id", "Target_name", "Custom_parameters">>
       [] view \in {"relative", "full"} -> <<"Output_path">>
       [] view = "url" -> <<"Output_URL">>)

\* The start of the paths; an error when the URL is wanted and not known.
PathBase(view, outputDir, url) ==
    CASE view = "relative" -> ""
      [] view = "full" -> outputDir
      [] view = "url" -> url
      [] view = "separated" -> ""

-----------------------------------------------------------------------------
(* One queue: `keys` in their order *)

\* shown_sorted_keys: one more than the limit when that is all there is.
Shown(keys, extra, all, maxLen) ==
    IF extra /\ ~all /\ Len(keys) >= maxLen + 2
    THEN SubSeq(keys, Len(keys) - maxLen + 1, Len(keys))
    ELSE keys

NumSkipped(keys, extra, all, maxLen) == Len(keys) - Len(Shown(keys, extra, all, maxLen))

\* The column "S".  The job that is locked is the one that runs: its
\* working directory is the current one.
StatusLetter(status) ==
    CASE status = "CheckedOut" -> "R0"
      [] status = "Processing" -> "R"
      [] status = "Error" -> "F"
      [] status = "Finished" -> "E"
      [] status = "Examination" -> "X"

IsShownLocked(inactive, locked) == ~inactive /\ locked

LockColumn(inactive, locked, current, statusOf) ==
    CASE ~IsShownLocked(inactive, locked) -> ""
      [] IsShownLocked(inactive, locked) /\ current = Nil -> "R"
      [] IsShownLocked(inactive, locked) /\ current # Nil -> StatusLetter(statusOf[current])

\* The column "WD": where it runs, or where it ran last.
WdColumn(inactive, locked, current, last) ==
    IF IsShownLocked(inactive, locked) THEN current ELSE last

\* A key from the future, after the clock was set back, is an error.
Age(now, time) == IF time > now THEN "error" ELSE IF now - time > Day THEN "older" ELSE "recent"

\* show_queue: the rows, or the error that ends the whole listing.  An
\* entry that is gone when it is to be opened is passed over.
QueueRows(queue, current, statusOf, now, all, maxLen) ==
    LET keys == SelectSeq(Shown(queue.keys, queue.extra, all, maxLen),
                          LAMBDA k : k \in DOMAIN queue.jobs)
        Row(k) ==
            LET job == queue.jobs[k]
            IN [key |-> k, s |-> LockColumn(queue.inactive, job.locked, current, statusOf),
                wd |-> WdColumn(queue.inactive, job.locked, current, job.last_wd),
                faded |-> Age(now, job.time) = "older"]
    IN [ok |-> \A i \in DOMAIN keys : Age(now, queue.jobs[keys[i]].time) # "error",
        rows |-> [i \in DOMAIN keys |-> Row(keys[i])]]

\* output_to_table: the pipeline, then the done and the failed jobs.
ListQueues(pipeline, done, erroneous, current, statusOf, now, all, maxLen) ==
    LET extra == SelectSeq(<<done, erroneous>>, LAMBDA q : q # Nil)
        queues == pipeline \o extra
        tables == [i \in DOMAIN queues |-> QueueRows(queues[i], current, statusOf, now, all, maxLen)]
    IN [ok |-> \A i \in DOMAIN tables : tables[i].ok, tables |-> tables]

\* Job by job, without the sort.
ListAll_ByJob(inserted) ==
    FoldLeft(LAMBDA rows, job :
                rows \o [i \in DOMAIN job.times |-> [params |-> job.params, time |-> job.times[i]]],
             <<>>, inserted)

\* ListAllOpts::run: every insertion of every job, by time; the sort is
\* stable.  `inserted` is a sequence of [params, times].
ListAll(inserted) ==
    LET flat == FoldLeft(LAMBDA rows, job :
                           rows \o [i \in DOMAIN job.times |->
                                      [params |-> job.params, time |-> job.times[i]]],
                         <<>>, inserted)
        order == SetToSortSeq(DOMAIN flat, LAMBDA i, j : \/ flat[i].time < flat[j].time
                                                         \/ (flat[i].time = flat[j].time /\ i < j))
    IN [i \in DOMAIN order |-> flat[order[i]]]

-----------------------------------------------------------------------------
(* Rows of a table of `widths` + 1 columns.  A cell is [text, span], where  *)
(* text is the length of the text.                                          *)

NumColumns(widths) == Len(widths) + 1

LogicalLen(row) == FoldLeft(LAMBDA n, cell : n + cell.span, 0, row)

\* string_and_widths: a cell that reaches the last column needs no width;
\* one that spans nothing is not there.
CellWidths(row, widths) ==
    LET cells == SelectSeq(row, LAMBDA cell : cell.span > 0)
        From(i) == LogicalLen(SubSeq(cells, 1, i - 1)) + 1
        To(i) == From(i) + cells[i].span - 1
        Total(i) == FoldLeft(+, 0, SubSeq(widths, From(i), To(i)))
    IN [i \in DOMAIN cells |->
          [text |-> cells[i].text,
           width |-> IF To(i) <= Len(widths) THEN Total(i) ELSE Nil]]

TooWide == -1       \* the end of the process

\* The spaces after a cell are cut from a string that is as long as the
\* widest column.
Padding(cell, widths, styled) ==
    LET least == IF styled THEN 0 ELSE 1
        text == IF styled THEN cell.text + 1 ELSE cell.text
        wanted == Max({cell.width - text, least})
    IN IF cell.width = Nil THEN 0
       ELSE IF wanted > Max({0} \cup ToSet(widths)) THEN TooWide
       ELSE wanted

\* write_row of the terminal: the column in which each cell starts.
TerminalRow(row, widths, styled, tsv) ==
    LET cells == CellWidths(row, widths)
        paddings == [i \in DOMAIN cells |-> IF tsv THEN 0 ELSE Padding(cells[i], widths, styled)]
        Extent(i) == cells[i].text + (IF styled THEN 1 ELSE 0) + paddings[i]
    IN [error |-> LogicalLen(row) # NumColumns(widths),
        panic |-> TooWide \in ToSet(paddings),
        starts |-> [i \in DOMAIN cells |->
                      FoldLeft(LAMBDA n, j : n + Extent(j), 0, [j \in 1 .. i - 1 |-> j])]]

\* The widths for the two views.
TerminalWidths(view, verbose) ==
    LET all == <<IF verbose THEN 82 ELSE 37, 3, 6, 5, 25, 42, 14>>
    IN IF view = "separated" THEN all ELSE SubSeq(all, 1, 5)

\* The row of titles; and that of a queue, which spans the table.
TitleRow(view) == [i \in DOMAIN Titles(view) |-> [text |-> 10, span |-> 1]]

QueueTitle(view, verbose) == <<[text |-> 30, span |-> NumColumns(TerminalWidths(view, verbose))]>>

WantColor(tsv, color, isTerminal) ==
    ~tsv /\ (color = "always" \/ (color = "auto" /\ isTerminal))

\* to_css_style: what is faded is gray, unless it has a color; the only
\* color that is known is 4.
CssColor(style) ==
    CASE style.color = 4 -> "#e46000"
      [] style.color # 4 /\ style.faded -> "gray"
      [] style.color # 4 /\ ~style.faded -> Nil

\* A cell with a link is drawn as one when there is an URL to link to.
CellLink(url, keyDir) == IF url = Nil THEN Nil ELSE <<url, keyDir>>
=============================================================================
