--------------------------- MODULE CleanupDaemon ---------------------------
(***************************************************************************)
(* utillib/cleanup_daemon.rs: a process that can end in any way tells a    *)
(* child of it, over a pipe, which files it has to delete when the process *)
(* has ended.  There may be several such processes in the course of time;  *)
(* each has a child of its own.                                            *)
(***************************************************************************)
EXTENDS Naturals, Sequences

CONSTANTS Processes,  \* processes that start a cleanup daemon
          Items,      \* CleanupItem: the files to be deleted
          PipeCapacity \* messages that the pipe can take up

VARIABLES
    open,        \* processes whose end of the pipe is open
    pipe,        \* for each process, the messages its child has not read yet
    items,       \* for each process, what its child has read and not deleted
    cleaner,     \* for each process, the state of its child
    registered   \* auxiliary: for each process, the items it has registered
                 \* and neither cancelled nor failed to register
cleanupVars == <<open, pipe, items, cleaner, registered>>

Message == [op : {"Add", "Cancel"}, item : Items]
CleanerStates == {"none", "reads", "cleans", "ended", "killed"}

CleanupTypeOK ==
    /\ open \subseteq Processes
    /\ pipe \in [Processes -> Seq(Message)]
    /\ items \in [Processes -> SUBSET Items]
    /\ cleaner \in [Processes -> CleanerStates]
    /\ registered \in [Processes -> SUBSET Items]

CleanupInit ==
    /\ open = {}
    /\ pipe = [p \in Processes |-> <<>>]
    /\ items = [p \in Processes |-> {}]
    /\ cleaner = [p \in Processes |-> "none"]
    /\ registered = [p \in Processes |-> {}]

-----------------------------------------------------------------------------
(* The process.                                                            *)

\* CleanupDaemon::start forks: the parent keeps the writer.
StartCleaner(p) ==
    /\ cleaner[p] = "none"
    /\ cleaner' = [cleaner EXCEPT ![p] = "reads"]
    /\ open' = open \cup {p}
    /\ UNCHANGED <<pipe, items, registered>>

\* A write to the pipe waits while it is full, and fails when the reader is gone.
CanSend(p) == p \in open /\ cleaner[p] = "reads"

Send(p, op, f) ==
    /\ CanSend(p) /\ Len(pipe[p]) < PipeCapacity
    /\ pipe' = [pipe EXCEPT ![p] = Append(@, [op |-> op, item |-> f])]

RegisterCleanup(p, f) ==
    /\ Send(p, "Add", f)
    /\ registered' = [registered EXCEPT ![p] = @ \cup {f}]
    /\ UNCHANGED <<open, items, cleaner>>

CancelCleanup(p, f) ==
    /\ Send(p, "Cancel", f)
    /\ registered' = [registered EXCEPT ![p] = @ \ {f}]
    /\ UNCHANGED <<open, items, cleaner>>

\* The process ends or executes another program: nobody has the writer.
ProcessEnds(p) ==
    /\ open' = open \ {p}
    /\ UNCHANGED <<pipe, items, cleaner, registered>>

-----------------------------------------------------------------------------
(* The child.                                                              *)

\* One turn of the loop over the reader.
ReadMessage(p) ==
    /\ cleaner[p] = "reads"
    /\ pipe[p] # <<>>
    /\ LET m == Head(pipe[p])
       IN  items' = [items EXCEPT ![p] = IF m.op = "Add" THEN @ \cup {m.item}
                                                         ELSE @ \ {m.item}]
    /\ pipe' = [pipe EXCEPT ![p] = Tail(@)]
    /\ UNCHANGED <<open, cleaner, registered>>

SeeEnd_Unread(p) ==
    /\ cleaner[p] = "reads"
    /\ p \notin open
    /\ cleaner' = [cleaner EXCEPT ![p] = "cleans"]
    /\ UNCHANGED <<open, pipe, items, registered>>

\* The reader is at its end when the pipe is empty and has no writer.
SeeEnd(p) ==
    /\ cleaner[p] = "reads"
    /\ pipe[p] = <<>>
    /\ p \notin open
    /\ cleaner' = [cleaner EXCEPT ![p] = "cleans"]
    /\ UNCHANGED <<open, pipe, items, registered>>

\* run_cleanup of one item of the set, in any order.  An error is a warning.
CleanItem(p, f) ==
    /\ cleaner[p] = "cleans"
    /\ f \in items[p]
    /\ items' = [items EXCEPT ![p] = @ \ {f}]
    /\ UNCHANGED <<open, pipe, cleaner, registered>>

CleanerEnds(p) ==
    /\ cleaner[p] = "cleans"
    /\ items[p] = {}
    /\ cleaner' = [cleaner EXCEPT ![p] = "ended"]
    /\ UNCHANGED <<open, pipe, items, registered>>

\* The child is killed, or ends by an error, without cleaning.
CleanerDies(p) ==
    /\ cleaner[p] \in {"reads", "cleans"}
    /\ cleaner' = [cleaner EXCEPT ![p] = "killed"]
    /\ UNCHANGED <<open, pipe, items, registered>>

CleanupNext ==
    \E p \in Processes :
        \/ StartCleaner(p) \/ ProcessEnds(p)
        \/ ReadMessage(p) \/ SeeEnd(p) \/ CleanerEnds(p) \/ CleanerDies(p)
        \/ \E f \in Items : \/ RegisterCleanup(p, f) \/ CancelCleanup(p, f)
                            \/ CleanItem(p, f)

CleanupSpec == CleanupInit /\ [][CleanupNext]_cleanupVars

-----------------------------------------------------------------------------
\* What the child of p will have in its set when it has read the pipe: the last
\* message about an item counts, and without one, whether it is there already.
About(p, f) == {k \in 1 .. Len(pipe[p]) : pipe[p][k].item = f}
WillClean(p, f) ==
    IF About(p, f) = {}
    THEN f \in items[p]
    ELSE \E k \in About(p, f) : /\ \A l \in About(p, f) : l <= k
                                /\ pipe[p][k].op = "Add"

\* Until it cleans, a child will delete exactly what its process has registered
\* and not cancelled, whatever is still in the pipe when the process ends; and
\* while it cleans, nothing else (cleanup_daemon.rs, the loop over the reader).
CleansWhatIsRegistered ==
    \A p \in Processes, f \in Items :
        /\ cleaner[p] = "reads" => (WillClean(p, f) <=> f \in registered[p])
        /\ cleaner[p] \in {"cleans", "ended"} /\ f \in items[p] => f \in registered[p]
=============================================================================
