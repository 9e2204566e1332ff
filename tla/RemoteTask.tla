----------------------------- MODULE RemoteTask -----------------------------
(***************************************************************************)
(* What remote dispatch promises about one task: it has one owner at a     *)
(* time, ownership is granted a bounded number of times, a result is       *)
(* accepted from the owner only and only for work it has really done, a    *)
(* cancellation that was requested prevails, and the end is final.         *)
(***************************************************************************)
EXTENDS Naturals

CONSTANTS Workers, Nobody, MaxAttempts

VARIABLES
    status,    \* where the task stands
    owner,     \* who owns it, or whose result was accepted
    grants,    \* how often it was handed out
    cancelled, \* was a cancellation requested?
    done       \* the workers that have completed the work of the task

taskVars == <<status, owner, grants, cancelled, done>>

Init ==
    /\ status = "new" /\ owner = Nobody /\ grants = 0
    /\ cancelled = FALSE /\ done = {}

Submit ==
    /\ status = "new"
    /\ status' = "waiting"
    /\ UNCHANGED <<owner, grants, cancelled, done>>

\* A waiting task, or one whose owner has lost it, is handed out.
Grant(w) ==
    /\ status \in {"waiting", "owned"}
    /\ ~cancelled /\ grants < MaxAttempts
    /\ status' = "owned" /\ owner' = w /\ grants' = grants + 1
    /\ UNCHANGED <<cancelled, done>>

Return ==
    /\ status = "owned" /\ ~cancelled /\ grants < MaxAttempts
    /\ status' = "waiting" /\ owner' = Nobody
    /\ UNCHANGED <<grants, cancelled, done>>

Work(w) ==
    /\ done' = done \cup {w}
    /\ UNCHANGED <<status, owner, grants, cancelled>>

Accept ==
    /\ status = "owned" /\ ~cancelled /\ owner \in done
    /\ status' = "completed"
    /\ UNCHANGED <<owner, grants, cancelled, done>>

GiveUp ==
    /\ status \in {"waiting", "owned"} /\ ~cancelled
    /\ status' = "dead_letter" /\ owner' = Nobody
    /\ UNCHANGED <<grants, cancelled, done>>

RequestCancellation ==
    /\ ~cancelled
    /\ cancelled' = TRUE
    /\ \/ status = "owned" /\ UNCHANGED status
       \/ status = "waiting" /\ status' = "cancelled"
    /\ UNCHANGED <<owner, grants, done>>

EndCancelled ==
    /\ status = "owned" /\ cancelled
    /\ status' = "cancelled" /\ owner' = Nobody
    /\ UNCHANGED <<grants, cancelled, done>>

Next ==
    \/ Submit \/ Return \/ Accept \/ GiveUp \/ RequestCancellation \/ EndCancelled
    \/ \E w \in Workers : Grant(w) \/ Work(w)

Spec == Init /\ [][Next]_taskVars
=============================================================================
