--------------------------- MODULE RemoteDispatch ---------------------------
(***************************************************************************)
(* Pull-based remote execution: the control plane's tasks and leases       *)
(* (services/remote_dispatch.py) and the workers that claim, execute and   *)
(* report them (agentd's remote_worker.py).                                *)
(*                                                                         *)
(* A request of the server is one transaction: it locks the rows it works  *)
(* on, and a claim skips the rows that others have locked.  Time is a set  *)
(* of flags that only go up: a lease has run out, a retry delay has        *)
(* passed, a deadline has passed.  Requests and answers get lost or are    *)
(* repeated; workers die and come back with nothing but their disk.        *)
(***************************************************************************)
EXTENDS Integers, FiniteSets

CONSTANTS
    Tasks, Workers, Nobody,
    MaxAttempts,  \* RemoteTask.max_attempts
    Concurrency,  \* Worker.concurrency
    Deadlined,    \* the tasks submitted with a deadline
    Constrained,  \* the tasks whose required capabilities
    Able,         \* only these workers have
    RetryDelayed, \* is remote_task_retry_delay_seconds positive?
    MaxCrashes    \* bound: deaths of workers

ASSUME RemoteDispatchAssumption ==
    /\ Nobody \notin Workers
    /\ MaxAttempts \in Nat \ {0} /\ Concurrency \in Nat \ {0}
    /\ Deadlined \subseteq Tasks /\ Constrained \subseteq Tasks /\ Able \subseteq Workers
    /\ RetryDelayed \in BOOLEAN
    /\ MaxCrashes \in Nat

VARIABLES
    \* models.RemoteTask
    state, attempts, cancelRequested, eligible, overdue,
    finishedBy,   \* the attempt whose completion the task holds, or 0
    \* models.TaskLease, by task and attempt number
    lease,
    \* requests to complete a lease that the server may (still, again) receive
    completions,
    \* RemoteExecutionWorker
    pc, job, result,
    \* the managed workspaces: completion markers, and children of dead workers
    marker, orphans,
    crashes

serverVars == <<state, attempts, cancelRequested, eligible, overdue, finishedBy, lease>>
workerVars == <<pc, job, result, marker, orphans, crashes>>
vars == <<serverVars, completions, workerVars>>

Attempts == 1 .. MaxAttempts
TERMINAL_TASK_STATES == {"completed", "cancelled", "dead_letter"}
TaskStates == {"unsubmitted", "queued", "leased"} \cup TERMINAL_TASK_STATES
Statuses == {"succeeded", "failed", "cancelled"}
LeaseStates == {"none", "active", "expired", "completed", "failed", "cancelled"}
Lease == [state : LeaseStates, worker : Workers \cup {Nobody}, late : BOOLEAN]
NoLease == [state |-> "none", worker |-> Nobody, late |-> FALSE]
Jobs == [task : Tasks, attempt : Attempts]
NoJob == [task |-> Nobody, attempt |-> 0]
WorkerPCs == {"poll", "execute", "child", "mark", "report"}

TypeOK ==
    /\ state \in [Tasks -> TaskStates]
    /\ attempts \in [Tasks -> 0 .. MaxAttempts]
    /\ cancelRequested \in [Tasks -> BOOLEAN]
    /\ eligible \in [Tasks -> BOOLEAN]
    /\ overdue \in [Tasks -> BOOLEAN]
    /\ finishedBy \in [Tasks -> 0 .. MaxAttempts]
    /\ lease \in [Tasks -> [Attempts -> Lease]]
    /\ completions \subseteq [task : Tasks, attempt : Attempts, status : Statuses]
    /\ pc \in [Workers -> WorkerPCs]
    /\ job \in [Workers -> Jobs \cup {NoJob}]
    /\ result \in [Workers -> Statuses]
    /\ marker \in [Workers -> [Tasks -> {"none", "partial", "whole"}]]
    /\ orphans \in [Workers -> SUBSET Tasks]
    /\ crashes \in 0 .. MaxCrashes

Init ==
    /\ state = [t \in Tasks |-> "unsubmitted"]
    /\ attempts = [t \in Tasks |-> 0]
    /\ cancelRequested = [t \in Tasks |-> FALSE]
    /\ eligible = [t \in Tasks |-> FALSE]
    /\ overdue = [t \in Tasks |-> FALSE]
    /\ finishedBy = [t \in Tasks |-> 0]
    /\ lease = [t \in Tasks |-> [a \in Attempts |-> NoLease]]
    /\ completions = {}
    /\ pc = [w \in Workers |-> "poll"]
    /\ job = [w \in Workers |-> NoJob]
    /\ result = [w \in Workers |-> "failed"]
    /\ marker = [w \in Workers |-> [t \in Tasks |-> "none"]]
    /\ orphans = [w \in Workers |-> {}]
    /\ crashes = 0
-----------------------------------------------------------------------------
(* The server                                                              *)

Live(l) == l.state = "active" /\ ~l.late

\* A repeated submission finds its idempotency key and changes nothing.
Submit(t) ==
    /\ state[t] = "unsubmitted"
    /\ state' = [state EXCEPT ![t] = "queued"]
    /\ eligible' = [eligible EXCEPT ![t] = TRUE]
    /\ UNCHANGED <<attempts, cancelRequested, overdue, finishedBy, lease, completions, workerVars>>

\* A task goes back to the queue unless its budget or its time is spent.
AfterFailure(t) ==
    IF attempts[t] >= MaxAttempts \/ overdue[t] THEN "dead_letter" ELSE "queued"

AfterExpiry(t) == IF cancelRequested[t] THEN "cancelled" ELSE AfterFailure(t)

Matches(w, t) == t \in Constrained => w \in Able

\* (Mutation of LateTasks: the expiry leaves out tasks that are being cancelled.)
LateUncancelled ==
    {t \in Tasks : /\ ~cancelRequested[t]
                   /\ \E a \in Attempts : lease[t][a].state = "active" /\ lease[t][a].late}

LateTasks == {t \in Tasks : \E a \in Attempts : lease[t][a].state = "active" /\ lease[t][a].late}
OverdueTasks == {t \in Tasks : state[t] = "queued" /\ overdue[t]}

\* _expire_leases and _expire_deadlines, on the rows that this claim got hold of.
TaskSwept(t, expiring, dropping) ==
    IF t \in expiring THEN AfterExpiry(t)
    ELSE IF t \in dropping THEN "dead_letter"
    ELSE state[t]

EligibleSwept(t, expiring) ==
    IF t \in expiring /\ AfterExpiry(t) = "queued" THEN ~RetryDelayed ELSE eligible[t]

LeaseSwept(t, a, expiring) ==
    IF t \in expiring /\ lease[t][a].state = "active" /\ lease[t][a].late
    THEN [lease[t][a] EXCEPT !.state = "expired"]
    ELSE lease[t][a]

LiveLeases(w) == {j \in Jobs : /\ Live(lease[j.task][j.attempt])
                               /\ lease[j.task][j.attempt].worker = w}

Available(w, t, expiring, dropping) ==
    /\ TaskSwept(t, expiring, dropping) = "queued"
    /\ EligibleSwept(t, expiring)
    /\ ~overdue[t]
    /\ Matches(w, t)

\* claim without a task to hand out: a worker at its capacity, or nothing available.
ClaimNothing(w, expiring, dropping) ==
    /\ state' = [t \in Tasks |-> TaskSwept(t, expiring, dropping)]
    /\ eligible' = [t \in Tasks |-> EligibleSwept(t, expiring)]
    /\ lease' = [t \in Tasks |-> [a \in Attempts |-> LeaseSwept(t, a, expiring)]]
    /\ UNCHANGED <<attempts, cancelRequested, overdue, finishedBy, completions, workerVars>>

\* claim of task t: the answer reaches the worker, or it does not.
ClaimTask(w, t, expiring, dropping) ==
    /\ Cardinality(LiveLeases(w)) < Concurrency
    /\ Available(w, t, expiring, dropping)
    /\ state' = [u \in Tasks |-> IF u = t THEN "leased" ELSE TaskSwept(u, expiring, dropping)]
    /\ attempts' = [attempts EXCEPT ![t] = @ + 1]
    /\ eligible' = [u \in Tasks |-> EligibleSwept(u, expiring)]
    /\ lease' = [u \in Tasks |-> [a \in Attempts |->
                    IF u = t /\ a = attempts[t] + 1
                    THEN [state |-> "active", worker |-> w, late |-> FALSE]
                    ELSE LeaseSwept(u, a, expiring)]]
    /\ \/ /\ pc' = [pc EXCEPT ![w] = "execute"]
          /\ job' = [job EXCEPT ![w] = [task |-> t, attempt |-> attempts[t] + 1]]
       \/ UNCHANGED <<pc, job>>
    /\ UNCHANGED <<cancelRequested, overdue, finishedBy, completions,
                   result, marker, orphans, crashes>>

\* Other transactions may hold any of the rows: a claim sees a part of them.
Claim(w) ==
    /\ pc[w] = "poll"
    /\ \E expiring \in SUBSET LateTasks, dropping \in SUBSET OverdueTasks :
          \/ ClaimNothing(w, expiring, dropping)
          \/ \E t \in Tasks : ClaimTask(w, t, expiring, dropping)

Cancel(t) ==
    /\ state[t] \notin TERMINAL_TASK_STATES \cup {"unsubmitted"}
    /\ ~cancelRequested[t]
    /\ cancelRequested' = [cancelRequested EXCEPT ![t] = TRUE]
    /\ state' = [state EXCEPT ![t] = IF @ = "queued" THEN "cancelled" ELSE @]
    /\ UNCHANGED <<attempts, eligible, overdue, finishedBy, lease, completions, workerVars>>

TaskCompleted(t, status) ==
    CASE cancelRequested[t]    -> "cancelled"
      [] ~cancelRequested[t] /\ status = "succeeded" -> "completed"
      [] ~cancelRequested[t] /\ status = "cancelled" -> "cancelled"
      [] ~cancelRequested[t] /\ status = "failed"    -> AfterFailure(t)

LeaseCompleted(t, status) ==
    CASE cancelRequested[t]    -> "cancelled"
      [] ~cancelRequested[t] /\ status = "succeeded" -> "completed"
      [] ~cancelRequested[t] /\ status = "cancelled" -> "cancelled"
      [] ~cancelRequested[t] /\ status = "failed"    -> "failed"

\* (Mutation of MayComplete: the server takes the result of a lease that it expired.)
MayCompleteLate(l) == l.state \in {"active", "expired"}

\* A lease that has been completed answers again or refuses, one that has run out refuses.
MayComplete(l) == Live(l)

Complete(m) ==
    LET t == m.task
        after == TaskCompleted(t, m.status)
    IN  /\ MayComplete(lease[t][m.attempt])
        /\ after = "completed" => finishedBy[t] = 0
        /\ state' = [state EXCEPT ![t] = after]
        /\ lease' = [lease EXCEPT ![t][m.attempt].state = LeaseCompleted(t, m.status)]
        /\ finishedBy' = [finishedBy EXCEPT ![t] =
                             IF after \in {"completed", "cancelled"} THEN m.attempt ELSE @]
        /\ eligible' = [eligible EXCEPT ![t] = IF after = "queued" THEN ~RetryDelayed ELSE @]
        /\ UNCHANGED <<attempts, cancelRequested, overdue, completions, workerVars>>
-----------------------------------------------------------------------------
(* Time                                                                    *)

RunOut(t, a) ==
    /\ Live(lease[t][a])
    /\ lease' = [lease EXCEPT ![t][a].late = TRUE]
    /\ UNCHANGED <<state, attempts, cancelRequested, eligible, overdue, finishedBy,
                   completions, workerVars>>

RetryDelayPasses(t) ==
    /\ state[t] = "queued" /\ ~eligible[t]
    /\ eligible' = [eligible EXCEPT ![t] = TRUE]
    /\ UNCHANGED <<state, attempts, cancelRequested, overdue, finishedBy, lease,
                   completions, workerVars>>

\* A deadline has to be in the future when the task is submitted.
DeadlinePasses(t) ==
    /\ t \in Deadlined /\ state[t] # "unsubmitted" /\ ~overdue[t]
    /\ overdue' = [overdue EXCEPT ![t] = TRUE]
    /\ UNCHANGED <<state, attempts, cancelRequested, eligible, finishedBy, lease,
                   completions, workerVars>>
-----------------------------------------------------------------------------
(* The worker: run_once, _execute_task, _run_child                         *)

Task(w) == job[w].task

\* The executor has returned, or raised, and run_once will report it.
Executed(w, status) ==
    /\ pc' = [pc EXCEPT ![w] = "report"]
    /\ result' = [result EXCEPT ![w] = status]
    /\ UNCHANGED <<job, orphans, crashes, serverVars, completions>>

\* (Mutation of Reuse: a marker that cannot be read passes for a success.)
ReusePartial(w) ==
    /\ pc[w] = "execute" /\ marker[w][Task(w)] # "none"
    /\ Executed(w, "succeeded")
    /\ UNCHANGED marker

\* A completion marker of an earlier attempt stands in for the execution.
Reuse(w) ==
    /\ pc[w] = "execute" /\ marker[w][Task(w)] # "none"
    /\ Executed(w, IF marker[w][Task(w)] = "whole" THEN "succeeded" ELSE "failed")
    /\ UNCHANGED marker

CheckoutFails(w) ==
    /\ pc[w] = "execute" /\ marker[w][Task(w)] = "none"
    /\ Executed(w, "failed")
    /\ UNCHANGED marker

StartChild(w) ==
    /\ pc[w] = "execute" /\ marker[w][Task(w)] = "none"
    /\ pc' = [pc EXCEPT ![w] = "child"]
    /\ UNCHANGED <<job, result, marker, orphans, crashes, serverVars, completions>>

\* A renewal tells the worker of a cancellation: it terminates the child.  A renewal
\* that only extends the lease changes nothing here: RunOut may come at any time.
RenewCancelled(w) ==
    /\ pc[w] = "child"
    /\ Live(lease[Task(w)][job[w].attempt]) /\ cancelRequested[Task(w)]
    /\ Executed(w, "cancelled")
    /\ UNCHANGED marker

\* The child exits with an error, or a renewal is refused or lost and the child is
\* terminated.
ChildFails(w) ==
    /\ pc[w] = "child"
    /\ Executed(w, "failed")
    /\ UNCHANGED marker

ChildSucceeds(w) ==
    /\ pc[w] = "child"
    /\ pc' = [pc EXCEPT ![w] = "mark"]
    /\ UNCHANGED <<job, result, marker, orphans, crashes, serverVars, completions>>

WriteMarker(w) ==
    /\ pc[w] = "mark"
    /\ marker' = [marker EXCEPT ![w][Task(w)] = "whole"]
    /\ Executed(w, "succeeded")

\* What an interrupted or failing write_text may leave.
TornMarkers == {"none", "partial"}

MarkerFails(w) ==
    /\ pc[w] = "mark"
    /\ \E torn \in TornMarkers : marker' = [marker EXCEPT ![w][Task(w)] = torn]
    /\ Executed(w, "failed")

\* run_once does not look at the answer: a refusal or a lost one ends the iteration.
Report(w) ==
    /\ pc[w] = "report"
    /\ completions' = completions \cup
          {[task |-> Task(w), attempt |-> job[w].attempt, status |-> result[w]]}
    /\ pc' = [pc EXCEPT ![w] = "poll"]
    /\ job' = [job EXCEPT ![w] = NoJob]
    /\ UNCHANGED <<result, marker, orphans, crashes, serverVars>>

\* agentd dies.  The child has a session of its own and lives on.
Crash(w) ==
    /\ crashes < MaxCrashes /\ pc[w] # "poll"
    /\ crashes' = crashes + 1
    /\ pc' = [pc EXCEPT ![w] = "poll"]
    /\ job' = [job EXCEPT ![w] = NoJob]
    /\ orphans' = [orphans EXCEPT ![w] = IF pc[w] = "child" THEN @ \cup {Task(w)} ELSE @]
    /\ IF pc[w] = "mark"
       THEN \E torn \in TornMarkers : marker' = [marker EXCEPT ![w][Task(w)] = torn]
       ELSE UNCHANGED marker
    /\ UNCHANGED <<result, serverVars, completions>>

OrphanEnds(w, t) ==
    /\ t \in orphans[w]
    /\ orphans' = [orphans EXCEPT ![w] = @ \ {t}]
    /\ UNCHANGED <<pc, job, result, marker, crashes, serverVars, completions>>
-----------------------------------------------------------------------------
WorkerStep(w) ==
    \/ Reuse(w) \/ CheckoutFails(w) \/ StartChild(w)
    \/ RenewCancelled(w) \/ ChildFails(w) \/ ChildSucceeds(w)
    \/ WriteMarker(w) \/ MarkerFails(w) \/ Report(w)

TaskStep(t) ==
    \/ Submit(t) \/ Cancel(t) \/ RetryDelayPasses(t) \/ DeadlinePasses(t)
    \/ \E a \in Attempts : RunOut(t, a)

Next ==
    \/ \E t \in Tasks : TaskStep(t)
    \/ \E w \in Workers : Claim(w) \/ WorkerStep(w) \/ Crash(w)
    \/ \E w \in Workers, t \in Tasks : OrphanEnds(w, t)
    \/ \E m \in completions : Complete(m)

Spec == Init /\ [][Next]_vars

\* Time and living processes go on: agentd polls, a child ends, a delay and a deadline
\* pass, and a lease runs out that no running child renews.  A poll takes what there is.
Poll(w) ==
    /\ pc[w] = "poll"
    /\ LET taken(t) == /\ Cardinality(LiveLeases(w)) < Concurrency
                       /\ Available(w, t, LateTasks, OverdueTasks)
       IN  IF \E t \in Tasks : taken(t)
           THEN \E t \in Tasks : ClaimTask(w, t, LateTasks, OverdueTasks)
           ELSE ClaimNothing(w, LateTasks, OverdueTasks)

Unrenewed(t, a) == \A w \in Workers : ~(pc[w] = "child" /\ job[w] = [task |-> t, attempt |-> a])

Fairness ==
    /\ \A w \in Workers : WF_vars(Poll(w)) /\ WF_vars(WorkerStep(w))
    /\ \A t \in Tasks :
          /\ WF_vars(RetryDelayPasses(t)) /\ WF_vars(DeadlinePasses(t))
          /\ \A a \in Attempts : WF_vars(RunOut(t, a) /\ Unrenewed(t, a))

FairSpec == Spec /\ Fairness
-----------------------------------------------------------------------------
(* Properties                                                              *)

\* A task is leased exactly while its latest attempt, and no other, has an active
\* lease.  claim, expiry, cancel and complete each maintain a part of this, and the
\* server relies on it: it never asks how many leases a task has.
OneOwner ==
    \A t \in Tasks, a \in Attempts :
        /\ lease[t][a].state = "none" <=> a > attempts[t]
        /\ lease[t][a].state = "active" <=> state[t] = "leased" /\ a = attempts[t]

\* A completed task has one lease that completed it, and the worker of that lease has
\* the completion marker on its disk: the success of a dead or stale owner, or one
\* read from a torn marker, is never accepted.
ResultIsReal ==
    /\ \A t \in Tasks : state[t] = "completed" =>
          finishedBy[t] # 0 /\ lease[t][finishedBy[t]].state = "completed"
    /\ \A t \in Tasks, a \in Attempts : lease[t][a].state = "completed" =>
          /\ state[t] = "completed" /\ finishedBy[t] = a
          /\ marker[lease[t][a].worker][t] = "whole"

\* Once a cancellation is recorded the task is not queued again, not given up and not
\* completed, whatever its worker reports afterwards.
CancellationPrevails ==
    \A t \in Tasks : cancelRequested[t] => state[t] \in {"leased", "cancelled"}

\* A queued task has an attempt left: claim does not look at the budget, it relies on
\* every way back to the queue to do so.
QueuedHasBudget ==
    \A t \in Tasks : state[t] = "queued" => attempts[t] < MaxAttempts

\* No request, however late or often it arrives, changes a task that has ended.
TerminalIsFinal ==
    [][\A t \in Tasks : state[t] \in TERMINAL_TASK_STATES =>
          state'[t] = state[t] /\ finishedBy'[t] = finishedBy[t]]_vars

\* Every submitted task that some worker can serve, or that has a deadline, ends:
\* whatever is lost, and whoever dies.
EveryTaskEnds ==
    \A t \in Tasks :
        (t \in Deadlined \/ \E w \in Workers : Matches(w, t)) =>
            (state[t] = "queued" ~> state[t] \in TERMINAL_TASK_STATES)

\* What a worker is at, it holds or held a lease for; what it is about to report is true.
WorkersInv ==
    \A w \in Workers :
        /\ pc[w] = "poll" => job[w] = NoJob
        /\ pc[w] # "poll" =>
              /\ job[w] \in Jobs
              /\ lease[Task(w)][job[w].attempt].worker = w
        /\ pc[w] \in {"child", "mark"} => marker[w][Task(w)] = "none"
        /\ pc[w] = "report" /\ result[w] = "succeeded" => marker[w][Task(w)] = "whole"
        /\ pc[w] = "report" /\ result[w] = "cancelled" => cancelRequested[Task(w)]

\* So is every completion on its way, for ever.
CompletionsInv ==
    \A m \in completions :
        LET w == lease[m.task][m.attempt].worker
        IN  /\ w \in Workers
            /\ m.status = "succeeded" => marker[w][m.task] = "whole"
            /\ m.status = "cancelled" => cancelRequested[m.task]

LeasesInv ==
    \A t \in Tasks :
        /\ state[t] = "unsubmitted" => attempts[t] = 0
        /\ state[t] = "leased" => attempts[t] > 0
        /\ state[t] = "cancelled" => cancelRequested[t]
        /\ \A a \in Attempts : lease[t][a].worker = Nobody <=> lease[t][a].state = "none"

\* The inductive invariant of the proofs: the records of the server agree with each
\* other, and what workers hold, report or have sent agrees with both.
IInv ==
    /\ TypeOK
    /\ OneOwner /\ LeasesInv /\ QueuedHasBudget /\ CancellationPrevails
    /\ WorkersInv /\ CompletionsInv /\ ResultIsReal

\* At most one child executes a task at any time.
OneExecution ==
    \A t \in Tasks :
        LET attended == {w \in Workers : pc[w] = "child" /\ Task(w) = t}
            left     == {w \in Workers : t \in orphans[w]}
        IN  Cardinality(attended) + Cardinality(left) <= 1

\* Each task is handled as RemoteTask promises.
StatusOf(t) ==
    IF state[t] = "unsubmitted" THEN "new"
    ELSE IF state[t] = "queued" THEN "waiting"
    ELSE IF state[t] = "leased" THEN "owned"
    ELSE state[t]

OwnerOf(t) ==
    IF state[t] \in {"leased", "completed"} THEN lease[t][attempts[t]].worker ELSE Nobody

Promise(t) == INSTANCE RemoteTask WITH
    status <- StatusOf(t), owner <- OwnerOf(t), grants <- attempts[t],
    cancelled <- cancelRequested[t],
    done <- {w \in Workers : marker[w][t] = "whole"}

\* The server and its workers implement RemoteTask for every task.
ImplementsRemoteTask ==
    /\ \A t \in Tasks : Promise(t)!Init
    /\ [][\A t \in Tasks : [Promise(t)!Next]_(Promise(t)!taskVars)]_vars
=============================================================================
