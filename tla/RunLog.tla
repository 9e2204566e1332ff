------------------------------- MODULE RunLog -------------------------------
(***************************************************************************)
(* events.jsonl of one run and the processes that append to it             *)
(* (durable_io.py, run_store.py, and their callers in controller.py).      *)
(*                                                                         *)
(* run() drives a run without a lock.  resume and cancel take the recovery *)
(* lock, read the log, tolerate one truncated line at its end, and append  *)
(* from there with a sequence number they keep in memory.  Only resume     *)
(* repairs the truncated line, and only when the run is not over.  A crash *)
(* in an append leaves a part of the line in the file.                     *)
(*                                                                         *)
(* The terminal event is not the last one: run() and resume remove the     *)
(* worktrees of their attempts after it and log that, while cancel does so *)
(* before it; and a resume that finds the end in the log but not in        *)
(* state.json adds a note.                                                 *)
(***************************************************************************)
EXTENDS Integers, Sequences

CONSTANTS
    Recoverers,   \* processes that may resume or cancel the run
    Operations,   \* what they may do: a subset of {"resume", "cancel"}
    Leftovers,    \* what a crash may leave of a line: "fragment" (not a JSON
                  \* object yet) or "object" (all but the line feed)
    Overlap,      \* may recovery start while run() is still alive?
    MaxSteps,     \* bound: sequence numbers of events but the terminal one and notes
    MaxCrashes    \* bound: crashes

ASSUME RunLogAssumption ==
    /\ "run" \notin Recoverers /\ "free" \notin Recoverers
    /\ Operations \subseteq {"resume", "cancel"}
    /\ Leftovers \subseteq {"fragment", "object"}
    /\ Overlap \in BOOLEAN
    /\ MaxSteps \in Nat /\ MaxCrashes \in Nat

Free == "free"
Processes == {"run"} \cup Recoverers

VARIABLES
    lines,    \* the complete lines of events.jsonl
    tail,     \* the bytes after the last line feed
    snapshot, \* state.json: last_sequence and terminal
    lock,     \* holder of the recovery lock
    op,       \* what each process is doing
    pc,       \* and where it is
    last,     \* RunStore._last_sequence of each process
    over,     \* runtime.machine.terminal of each process
    crashes

vars == <<lines, tail, snapshot, lock, op, pc, last, over, crashes>>

\* A line is an event, or what appending to a dirty tail makes of it: a line that
\* is not JSON, or an object that the line feed leaves open.
\* A step is any event of a run under way, a cleanup says that a worktree was removed
\* or could not be, when nothing else is left to do.
EventKinds == {"step", "note", "end", "cleanup"}
Malformed == [kind |-> "malformed", seq |-> 0]
Open == [kind |-> "open", seq |-> 0]
Clean == [kind |-> "none", seq |-> 0]

LineKinds == EventKinds \cup {"malformed", "open"}
TailKinds == {"none", "fragment", "garbage"} \cup EventKinds

TypeOK ==
    /\ lines \in Seq([kind : LineKinds, seq : Nat])
    /\ tail \in [kind : TailKinds, seq : Nat]
    /\ snapshot \in [seq : Nat, terminal : BOOLEAN]
    /\ lock \in {Free} \cup Recoverers
    /\ op \in [Processes -> {"run", "resume", "cancel", "handler", "cleanup"}]
    /\ pc \in [Processes -> {"idle", "load", "repair", "reconcile", "emit", "snapshot"}]
    /\ last \in [Processes -> Nat]
    /\ over \in [Processes -> BOOLEAN]
    /\ crashes \in 0 .. MaxCrashes
-----------------------------------------------------------------------------
(* Reading: read_jsonl_tolerant, validate_event_stream and the snapshot check *)
(* of _load_recovery_runtime                                                  *)

\* A final physical line that is a truncated object is skipped.
Tolerated ==
    /\ \A i \in DOMAIN lines :
          /\ lines[i].kind # "malformed"
          /\ lines[i].kind = "open" => i = Len(lines) /\ tail = Clean
    /\ tail.kind # "garbage"

\* The physical lines of the file: an object that only lacks its line feed is one.
Physical == IF tail.kind \in EventKinds THEN Append(lines, tail) ELSE lines

\* Where the reader finds its events.
Events == {i \in DOMAIN Physical : Physical[i].kind \in EventKinds}

Increasing == \A i, j \in Events : i < j => Physical[i].seq < Physical[j].seq

Loadable ==
    /\ Tolerated /\ Increasing
    /\ \E i \in Events : Physical[i].seq = snapshot.seq

\* (Mutation of EndLogged: recovery does not look for the terminal event.)
EndIgnored == FALSE

EndLogged == \E i \in Events : Physical[i].kind = "end"

\* (Mutation of LastSequence: recovery counts from state.json.)
SnapshotSequence == snapshot.seq

LastEvent == CHOOSE i \in Events : \A j \in Events : j <= i

\* Numbering goes on from the last event of the log.
LastSequence == Physical[LastEvent].seq
-----------------------------------------------------------------------------
(* Writing: append_jsonl_durable through RunStore.append_event               *)

\* The line as it stands in the file once the whole of it is written.
Written(event) ==
    IF tail = Clean THEN {event}
    ELSE IF tail.kind = "fragment" THEN {Malformed, Open}
    ELSE {Malformed}

\* (Mutation of Partial: the line feed reaches the disk before the object.)
LineFeedFirst(event) == {[kind |-> "open", seq |-> 0]}

\* What is left of it when the process dies on the way.
Partial(event) ==
    IF tail = Clean
    THEN (IF "fragment" \in Leftovers THEN {[Clean EXCEPT !.kind = "fragment"]} ELSE {})
         \cup (IF "object" \in Leftovers THEN {event} ELSE {})
    ELSE {[kind |-> "garbage", seq |-> 0]}

Emits(p, kind) ==
    IF pc[p] = "reconcile" THEN kind = "note"
    ELSE \/ kind = "end" /\ op[p] # "cleanup"
         \/ /\ last[p] < MaxSteps
            /\ IF op[p] \in {"cancel", "cleanup"} THEN kind = "cleanup"
               ELSE kind \in {"step", "note"}

\* Who ended a run that it was driving still has worktrees to remove.
AfterEvent(p, kind) ==
    IF kind = "end" /\ op[p] \in {"run", "resume"} THEN "cleanup" ELSE op[p]

\* The events that a runner reports are appended one after the other before state.json
\* follows them (_emit_runtime_events).
Follows(p, kind) ==
    IF kind = "step" /\ op[p] # "handler" THEN {"snapshot", "emit"} ELSE {"snapshot"}

AppendEvent(p, kind) ==
    LET event == [kind |-> kind, seq |-> last[p] + 1] IN
    /\ pc[p] \in {"emit", "reconcile"}
    /\ Emits(p, kind)
    /\ \E line \in Written(event) : lines' = Append(lines, line)
    /\ tail' = Clean
    /\ last' = [last EXCEPT ![p] = @ + 1]
    /\ over' = [over EXCEPT ![p] = @ \/ kind = "end"]
    /\ op' = [op EXCEPT ![p] = AfterEvent(p, kind)]
    /\ \E next \in Follows(p, kind) : pc' = [pc EXCEPT ![p] = next]
    /\ UNCHANGED <<snapshot, lock, crashes>>

Release(p) == lock' = IF lock = p THEN Free ELSE lock

\* The process goes on, above all with a worktree to remove after the end, or stops.
GoesOn(p) ==
    \/ /\ over[p] => op[p] = "cleanup"
       /\ pc' = [pc EXCEPT ![p] = "emit"]
       /\ UNCHANGED lock
    \/ /\ over[p]
       /\ pc' = [pc EXCEPT ![p] = "idle"]
       /\ Release(p)

\* (Mutation of PersistState: the snapshot counts the event to come.)
PersistStateAhead(p) ==
    /\ pc[p] = "snapshot"
    /\ snapshot' = [seq |-> last[p] + 1, terminal |-> over[p]]
    /\ GoesOn(p)
    /\ UNCHANGED <<lines, tail, op, last, over, crashes>>

\* state.json follows the event.
PersistState(p) ==
    /\ pc[p] = "snapshot"
    /\ snapshot' = [seq |-> last[p], terminal |-> over[p]]
    /\ GoesOn(p)
    /\ UNCHANGED <<lines, tail, op, last, over, crashes>>
-----------------------------------------------------------------------------
(* resume and cancel                                                         *)

Start(p) ==
    /\ p \in Recoverers /\ pc[p] = "idle" /\ lock = Free
    /\ Overlap \/ pc["run"] = "idle"
    /\ lock' = p
    /\ \E o \in Operations : op' = [op EXCEPT ![p] = o]
    /\ pc' = [pc EXCEPT ![p] = "load"]
    /\ UNCHANGED <<lines, tail, snapshot, last, over, crashes>>

\* What follows when the log has been read: nothing for a run that is over
\* (unless resume finds that state.json does not say so), the repair of a
\* truncated line (resume only), or the first event.
AfterLoad(p) ==
    IF ~Loadable THEN "idle"
    ELSE IF op[p] = "cancel" THEN (IF EndLogged THEN "idle" ELSE "emit")
    ELSE IF snapshot.terminal THEN "idle"
    ELSE IF EndLogged THEN "reconcile"
    ELSE IF tail.kind = "fragment" THEN "repair" ELSE "emit"

Load(p) ==
    /\ pc[p] = "load"
    /\ pc' = [pc EXCEPT ![p] = AfterLoad(p)]
    /\ IF Loadable
       THEN last' = [last EXCEPT ![p] = LastSequence]
            /\ over' = [over EXCEPT ![p] = EndLogged]
       ELSE UNCHANGED <<last, over>>
    /\ IF pc'[p] = "idle" THEN Release(p) ELSE UNCHANGED lock
    /\ UNCHANGED <<lines, tail, snapshot, op, crashes>>

\* (Mutation of Repair: the fragment stays.)
NoRepair(p) ==
    /\ pc[p] = "repair" /\ pc' = [pc EXCEPT ![p] = "emit"]
    /\ UNCHANGED <<lines, tail, snapshot, lock, op, last, over, crashes>>

\* repair_truncated_final_jsonl; an object that lacks its line feed is left.
Repair(p) ==
    /\ pc[p] = "repair"
    /\ tail' = Clean
    /\ pc' = [pc EXCEPT ![p] = "emit"]
    /\ UNCHANGED <<lines, snapshot, lock, op, last, over, crashes>>

\* An exception: run() and resume() report it in the log themselves, and resume
\* has left the recovery lock when its handler does.  Elsewhere, and once the run is
\* over, it ends the process.
Raise(p) ==
    /\ pc[p] = "emit"
    /\ IF op[p] \in {"run", "resume"}
       THEN op' = [op EXCEPT ![p] = "handler"] /\ UNCHANGED pc
       ELSE pc' = [pc EXCEPT ![p] = "idle"] /\ UNCHANGED op
    /\ Release(p)
    /\ UNCHANGED <<lines, tail, snapshot, last, over, crashes>>
-----------------------------------------------------------------------------
\* The process dies; the operating system drops its lock.
Crash(p) ==
    /\ pc[p] # "idle" /\ crashes < MaxCrashes
    /\ \/ UNCHANGED tail
       \/ /\ pc[p] \in {"emit", "reconcile"}
          /\ \E kind \in EventKinds :
                /\ Emits(p, kind)
                /\ tail' \in Partial([kind |-> kind, seq |-> last[p] + 1])
    /\ pc' = [pc EXCEPT ![p] = "idle"]
    /\ crashes' = crashes + 1
    /\ Release(p)
    /\ UNCHANGED <<lines, snapshot, op, last, over>>

Init ==
    /\ lines = <<[kind |-> "step", seq |-> 1]>> /\ tail = Clean
    /\ snapshot = [seq |-> 1, terminal |-> FALSE]
    /\ lock = Free
    /\ op = [p \in Processes |-> "run"]
    /\ pc = [p \in Processes |-> IF p = "run" THEN "emit" ELSE "idle"]
    /\ last = [p \in Processes |-> 1]
    /\ over = [p \in Processes |-> FALSE]
    /\ crashes = 0

Next ==
    \E p \in Processes :
        \/ \E kind \in EventKinds : AppendEvent(p, kind)
        \/ PersistState(p)
        \/ Start(p) \/ Load(p) \/ Repair(p) \/ Raise(p)
        \/ Crash(p)

Spec == Init /\ [][Next]_vars
-----------------------------------------------------------------------------
(* Properties *)

\* docs/CLOSED_LOOP.md: "A truncated final JSONL line after a process crash may be
\* ignored during recovery, but earlier valid lines must remain readable."
Readable == Tolerated

\* docs/CLOSED_LOOP.md, invariant 6: "Event sequence numbers are monotonic within a
\* run": whatever processes wrote the events a reader gets, none reuses a number.
SequencesIncrease == Increasing

\* state.json never refers to an event that a reader of the log does not get, which
\* would make the run impossible to recover (_load_recovery_runtime).
SnapshotCommitted == \E i \in Events : Physical[i].seq = snapshot.seq

\* Nobody goes on with a run that has ended, nor ends it once more, although state.json
\* may not say yet that it has: after the terminal event the log holds nothing but
\* removals of worktrees (_cleanup_attempt_worktree) and notes of recovery.
EndIsFinal ==
    \A i, j \in Events :
        i < j /\ Physical[i].kind = "end" => Physical[j].kind \in {"cleanup", "note"}
=============================================================================
