----------------------------- MODULE IndexFiles -----------------------------
(***************************************************************************)
(* run/open_run_queues.rs, run/output_directory/html_files.rs: the index   *)
(* files show the queues and working directories.  Whoever changes these   *)
(* sends a signal; the daemon's thread and every command that has changed  *)
(* something regenerate the files when there are signals that nobody has   *)
(* confirmed.                                                              *)
(***************************************************************************)
EXTENDS Naturals

CONSTANTS Regenerators, \* threads and processes with a RegenerateIndexFiles
          MaxErrors     \* bound: failures of regenerate_index_files

VARIABLES
    state,     \* how often queues or working directories have changed
    signals,   \* SharedPollingSignals: how many signals were sent,
    done,      \*   and up to which one they were handled
    index,     \* the state that the files show
    regen,     \* where each regenerator is
    seen,      \* the signal that it has seen, and the state that it has read
    read,
    mixed,     \* auxiliary: two have regenerated at the same time
    silent,    \* auxiliary: changes whose author died before the signal
    errors     \* how often regenerate_index_files failed
indexVars == <<state, signals, done, index, regen, seen, read, mixed, silent, errors>>

IndexTypeOK ==
    /\ {state, signals, silent} \subseteq Nat
    /\ done \in 0 .. signals /\ index \in 0 .. state
    /\ regen \in [Regenerators -> {"idle", "read", "write", "confirm"}]
    /\ seen \in [Regenerators -> 0 .. signals] /\ read \in [Regenerators -> 0 .. state]

IndexInit ==
    /\ state = 0 /\ signals = 0 /\ done = 0 /\ index = 0
    /\ regen = [r \in Regenerators |-> "idle"]
    /\ seen = [r \in Regenerators |-> 0] /\ read = [r \in Regenerators |-> 0]
    /\ mixed = FALSE /\ silent = 0 /\ errors = 0

\* A change, and the signal about it, are two steps.
ChangeState ==
    /\ state' = state + 1
    /\ UNCHANGED <<signals, done, index, regen, seen, read, mixed, silent, errors>>
SendSignal ==
    /\ signals' = signals + 1
    /\ UNCHANGED <<state, done, index, regen, seen, read, mixed, silent, errors>>
NoSignal ==
    /\ silent' = silent + 1
    /\ UNCHANGED <<state, signals, done, index, regen, seen, read, mixed, errors>>

\* run_one: get_latest_signal.
Moves(r, from, to) == regen[r] = from /\ regen' = [regen EXCEPT ![r] = to]
GetLatestSignal(r) ==
    /\ signals # done
    /\ Moves(r, "idle", "read")
    /\ seen' = [seen EXCEPT ![r] = signals]
    /\ mixed' = (mixed \/ \E s \in Regenerators : regen[s] # "idle")
    /\ UNCHANGED <<state, signals, done, index, read, silent, errors>>

\* regenerate_index_files: reads the state, writes a temporary file, renames it.
ReadState(r) ==
    /\ Moves(r, "read", "write")
    /\ read' = [read EXCEPT ![r] = state]
    /\ UNCHANGED <<state, signals, done, index, seen, mixed, silent, errors>>
WriteIndex(r) ==
    /\ Moves(r, "write", "confirm")
    /\ index' = read[r]
    /\ UNCHANGED <<state, signals, done, seen, read, mixed, silent, errors>>

RegenerateFails_Ends(r) ==
    /\ errors < MaxErrors /\ errors' = errors + 1
    /\ \/ Moves(r, "read", "ended") \/ Moves(r, "write", "ended")
    /\ UNCHANGED <<state, signals, done, index, seen, read, mixed, silent>>

\* An error: the signal is ignored and stays unhandled.
RegenerateFails(r) ==
    /\ errors < MaxErrors /\ errors' = errors + 1
    /\ \/ Moves(r, "read", "idle") \/ Moves(r, "write", "idle")
    /\ UNCHANGED <<state, signals, done, index, seen, read, mixed, silent>>

Confirm_Latest(r) ==
    /\ Moves(r, "confirm", "idle")
    /\ done' = signals
    /\ UNCHANGED <<state, signals, index, seen, read, mixed, silent, errors>>

\* The signal that was seen before reading is handled, later ones are not.
Confirm(r) ==
    /\ Moves(r, "confirm", "idle")
    /\ done' = seen[r]
    /\ UNCHANGED <<state, signals, index, seen, read, mixed, silent, errors>>

Regenerate(r) == GetLatestSignal(r) \/ ReadState(r) \/ WriteIndex(r) \/ Confirm(r)

-----------------------------------------------------------------------------
\* When all signals are handled and nobody regenerates, the files show the state,
\* but for changes that are not signalled yet or never; a signal that arrives while
\* they are regenerated is not lost.  Not so when two have regenerated at the same
\* time, as the older list may be renamed last (RegenerateIndexFiles::run_one).
IndexIsCurrent(unsignalled) ==
    /\ signals = done /\ ~mixed
    /\ \A r \in Regenerators : regen[r] = "idle"
    => state - index <= unsignalled + silent
=============================================================================
