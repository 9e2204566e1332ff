------------------------- MODULE RemoteDispatchProofs -------------------------
(***************************************************************************)
(* RemoteDispatch for every set of tasks and workers and every number of   *)
(* attempts: its invariant is inductive, the properties of its runs follow *)
(* from it, and every step is a step of RemoteTask or a stutter for each   *)
(* task.                                                                   *)
(*                                                                         *)
(* A state of the queue alone does not exclude two owners: that needs the  *)
(* leases (LeasesInv), what the workers do with theirs (WorkersInv), and   *)
(* the completions on their way (CompletionsInv).                          *)
(***************************************************************************)
EXTENDS RemoteDispatch, TLAPS
-----------------------------------------------------------------------------

(* Facts about leases and the sweep of a claim                            *)

LEMMA LeaseExpires ==
    ASSUME NEW l \in Lease
    PROVE  /\ [l EXCEPT !.state = "expired"] \in Lease
           /\ [l EXCEPT !.state = "expired"].worker = l.worker
           /\ [l EXCEPT !.state = "expired"].state = "expired"
BY DEF Lease, LeaseStates

LEMMA LeaseEnds ==
    ASSUME NEW l \in Lease, NEW s \in LeaseStates
    PROVE  [l EXCEPT !.state = s] \in Lease /\ [l EXCEPT !.late = TRUE] \in Lease
BY DEF Lease

LEMMA LeaseEndsFields ==
    ASSUME NEW l \in Lease, NEW s
    PROVE  /\ [l EXCEPT !.state = s].state = s
           /\ [l EXCEPT !.state = s].worker = l.worker
BY DEF Lease

LEMMA LeaseUpdate ==
    ASSUME NEW f \in [Tasks -> [Attempts -> Lease]],
           NEW t \in Tasks, NEW a \in Attempts, NEW l \in Lease
    PROVE  [f EXCEPT ![t] = [f[t] EXCEPT ![a] = l]] \in [Tasks -> [Attempts -> Lease]]
OBVIOUS

LEMMA LeaseSweptKinds ==
    ASSUME TypeOK, NEW t \in Tasks, NEW a \in Attempts, NEW expiring
    PROVE  /\ LeaseSwept(t, a, expiring) \in Lease
           /\ LeaseSwept(t, a, expiring).worker = lease[t][a].worker
           /\ \/ LeaseSwept(t, a, expiring).state = lease[t][a].state
              \/ /\ lease[t][a].state = "active"
                 /\ LeaseSwept(t, a, expiring).state = "expired"
<1>1. lease[t][a] \in Lease
  BY DEF TypeOK
<1> DEFINE runOut == t \in expiring /\ lease[t][a].state = "active" /\ lease[t][a].late
<1>3. CASE runOut
  BY <1>1, <1>3, LeaseExpires, Zenon DEF LeaseSwept
<1>4. CASE ~runOut
  <2>1. LeaseSwept(t, a, expiring) = lease[t][a]
    BY <1>4, Zenon DEF LeaseSwept
  <2> HIDE DEF runOut
  <2> QED BY <1>1, <2>1, Zenon
<1> QED BY <1>3, <1>4

LEMMA TaskSweptKinds ==
    ASSUME TypeOK, NEW t \in Tasks, NEW expiring, NEW dropping
    PROVE  TaskSwept(t, expiring, dropping) \in TaskStates /\ EligibleSwept(t, expiring) \in BOOLEAN
<1>1. AfterFailure(t) \in TaskStates /\ AfterExpiry(t) \in TaskStates
  BY DEF AfterFailure, AfterExpiry, TaskStates, TERMINAL_TASK_STATES
<1>2. TaskSwept(t, expiring, dropping) \in TaskStates
  BY <1>1 DEF TypeOK, TaskSwept, TaskStates, TERMINAL_TASK_STATES
<1>3. EligibleSwept(t, expiring) \in BOOLEAN
  BY DEF TypeOK, EligibleSwept
<1> QED BY <1>2, <1>3

LEMMA ServerUntouched ==
    ASSUME IInv, UNCHANGED serverVars
    PROVE  OneOwner' /\ LeasesInv' /\ QueuedHasBudget' /\ CancellationPrevails'
BY DEF IInv, serverVars, OneOwner, LeasesInv, QueuedHasBudget,
   CancellationPrevails

-----------------------------------------------------------------------------
(* Every action preserves the invariant                                    *)

LEMMA SubmitStep ==
    ASSUME IInv, NEW t \in Tasks, Submit(t)
    PROVE  IInv'
<1>1. TypeOK'
  BY DEF TypeOK, TaskStates, IInv, workerVars, Submit
<1>2. OneOwner'
  BY DEF IInv, OneOwner, Submit
<1>3. LeasesInv'
  BY DEF IInv, Submit, LeasesInv
<1>4. QueuedHasBudget'
  BY RemoteDispatchAssumption DEF IInv, Submit, LeasesInv, QueuedHasBudget
<1>5. CancellationPrevails'
  BY DEF IInv, Submit, CancellationPrevails
<1>6. WorkersInv'
  BY DEF IInv, workerVars, Submit, Task, WorkersInv
<1>7. CompletionsInv'
  BY DEF IInv, workerVars, Submit, CompletionsInv
<1>8. ResultIsReal'
  BY DEF IInv, workerVars, ResultIsReal, Submit
<1> QED BY <1>1, <1>2, <1>3, <1>4, <1>5, <1>6, <1>7, <1>8 DEF IInv

LEMMA ClaimNothingStep ==
    ASSUME IInv, NEW w \in Workers,
           NEW expiring \in SUBSET LateTasks, NEW dropping \in SUBSET OverdueTasks,
           ClaimNothing(w, expiring, dropping)
    PROVE  IInv'
<1>1. TypeOK' /\ CompletionsInv'
  <2>1. state' \in [Tasks -> TaskStates] /\ eligible' \in [Tasks -> BOOLEAN]
    BY TaskSweptKinds DEF IInv, ClaimNothing
  <2>2. lease' \in [Tasks -> [Attempts -> Lease]]
    BY LeaseSweptKinds DEF IInv, ClaimNothing
  <2>3. TypeOK'
    BY <2>1, <2>2 DEF IInv, TypeOK, ClaimNothing, workerVars
  <2>a. TypeOK
    BY DEF IInv
  <2>4. \A t \in Tasks, a \in Attempts : lease'[t][a].worker = lease[t][a].worker
    BY <2>a, LeaseSweptKinds DEF ClaimNothing
  <2>5. CompletionsInv'
    <3> SUFFICES ASSUME NEW m \in completions
                 PROVE  lease'[m.task][m.attempt].worker = lease[m.task][m.attempt].worker
      BY DEF IInv, CompletionsInv, ClaimNothing, workerVars
    <3>1. m.task \in Tasks /\ m.attempt \in Attempts
      BY <2>a DEF TypeOK
    <3> QED BY <2>4, <3>1
  <2> QED BY <2>3, <2>5
<1>2. OneOwner'
  BY DEF IInv, OneOwner, ClaimNothing, TaskSwept, LeaseSwept, AfterExpiry,
     AfterFailure, LateTasks, OverdueTasks
<1>3. LeasesInv'
  BY DEF IInv, ClaimNothing, TaskSwept, LeaseSwept, AfterExpiry, AfterFailure,
     LeasesInv
<1>4. QueuedHasBudget'
  BY RemoteDispatchAssumption DEF Attempts, IInv, ClaimNothing, TaskSwept,
     AfterExpiry, AfterFailure, LateTasks, Task, OneOwner, QueuedHasBudget
<1>5. CancellationPrevails'
  BY DEF IInv, ClaimNothing, TaskSwept, AfterExpiry, OverdueTasks,
     CancellationPrevails
<1>6. WorkersInv'
  <2>1. \A t \in Tasks, a \in Attempts : lease'[t][a].worker = lease[t][a].worker
    BY LeaseSweptKinds DEF IInv, ClaimNothing
  <2>2. UNCHANGED <<pc, job, result, marker, cancelRequested>>
    BY DEF ClaimNothing, workerVars
  <2>3. \A v \in Workers : job[v] \in Jobs => job[v].task \in Tasks /\ job[v].attempt \in Attempts
    BY DEF Jobs
  <2> QED BY <2>1, <2>2, <2>3 DEF IInv, WorkersInv, Task
<1>7. ResultIsReal'
  <2>1. \A u \in Tasks : state'[u] = "completed" <=> state[u] = "completed"
    BY DEF ClaimNothing, TaskSwept, AfterExpiry, AfterFailure, LateTasks,
       OverdueTasks, IInv, OneOwner
  <2>2. \A u \in Tasks, a \in Attempts :
           /\ lease'[u][a].worker = lease[u][a].worker
           /\ lease'[u][a].state = "completed" <=> lease[u][a].state = "completed"
    BY LeaseSweptKinds DEF ClaimNothing, IInv
  <2>3. finishedBy' = finishedBy /\ marker' = marker
    BY DEF ClaimNothing, workerVars
  <2>4. \A u \in Tasks : finishedBy[u] # 0 => finishedBy[u] \in Attempts
    BY DEF IInv, TypeOK, Attempts
  <2> QED BY <2>1, <2>2, <2>3, <2>4 DEF IInv, ResultIsReal
<1> QED BY <1>1, <1>2, <1>3, <1>4, <1>5, <1>6, <1>7 DEF IInv

LEMMA ClaimTaskStep ==
    ASSUME IInv, NEW w \in Workers, NEW t \in Tasks,
           NEW expiring \in SUBSET LateTasks, NEW dropping \in SUBSET OverdueTasks,
           pc[w] = "poll", ClaimTask(w, t, expiring, dropping)
    PROVE  IInv'
<1>1. TypeOK' /\ CompletionsInv' /\ ResultIsReal'
  <2> DEFINE next == attempts[t] + 1
  <2>1. state' \in [Tasks -> TaskStates] /\ eligible' \in [Tasks -> BOOLEAN]
    BY TaskSweptKinds DEF IInv, ClaimTask, TaskStates
  <2>2. state[t] \in {"queued", "leased"} /\ attempts[t] < MaxAttempts
    <3>1. TaskSwept(t, expiring, dropping) = "queued"
      BY DEF ClaimTask, Available
    <3>2. CASE t \in expiring
      <4>1. AfterFailure(t) = "queued"
        BY <3>1, <3>2 DEF TaskSwept, AfterExpiry
      <4>2. ~(attempts[t] >= MaxAttempts) /\ attempts[t] \in 0 .. MaxAttempts
        BY <4>1 DEF AfterFailure, IInv, TypeOK
      <4>3. state[t] = "leased"
        BY <3>2 DEF LateTasks, IInv, OneOwner
      <4> QED BY <4>2, <4>3, RemoteDispatchAssumption
    <3>3. CASE t \notin expiring
      <4>1. state[t] = "queued"
        BY <3>1, <3>3 DEF TaskSwept
      <4> QED BY <4>1 DEF IInv, QueuedHasBudget
    <3> QED BY <3>2, <3>3
  <2>3. next \in Attempts /\ attempts' \in [Tasks -> 0 .. MaxAttempts]
    BY <2>2, RemoteDispatchAssumption DEF IInv, TypeOK, ClaimTask, Attempts
  <2>4. [state |-> "active", worker |-> w, late |-> FALSE] \in Lease
    BY DEF Lease, LeaseStates
  <2>a. TypeOK
    BY DEF IInv
  <2>5. lease' \in [Tasks -> [Attempts -> Lease]]
    BY <2>a, <2>4, LeaseSweptKinds DEF ClaimTask
  <2>6. pc' \in [Workers -> WorkerPCs] /\ job' \in [Workers -> Jobs \cup {NoJob}]
    <3>1. [task |-> t, attempt |-> next] \in Jobs
      BY <2>3 DEF Jobs
    <3>2. pc \in [Workers -> WorkerPCs] /\ job \in [Workers -> Jobs \cup {NoJob}]
      BY DEF IInv, TypeOK
    <3>3. \/ pc' = pc /\ job' = job
          \/ /\ pc' = [pc EXCEPT ![w] = "execute"]
             /\ job' = [job EXCEPT ![w] = [task |-> t, attempt |-> next]]
      BY DEF ClaimTask
    <3> HIDE DEF next
    <3> QED BY <3>1, <3>2, <3>3 DEF WorkerPCs
  <2>7. TypeOK'
    BY <2>1, <2>3, <2>5, <2>6 DEF IInv, TypeOK, ClaimTask
  <2>8. \A u \in Tasks, a \in Attempts : ~(u = t /\ a = next) =>
           /\ lease'[u][a].worker = lease[u][a].worker
           /\ lease'[u][a].state = "completed" <=> lease[u][a].state = "completed"
    BY <2>a, LeaseSweptKinds DEF ClaimTask
  <2>9. lease[t][next] .worker = Nobody
    BY <2>3 DEF IInv, TypeOK, OneOwner, LeasesInv
  <2>10. CompletionsInv'
    <3> SUFFICES ASSUME NEW m \in completions
                 PROVE  /\ lease'[m.task][m.attempt].worker = lease[m.task][m.attempt].worker
                        /\ lease[m.task][m.attempt].worker \in Workers
      BY DEF IInv, CompletionsInv, ClaimTask
    <3>1. m.task \in Tasks /\ m.attempt \in Attempts
      BY <2>a DEF TypeOK
    <3>2. lease[m.task][m.attempt].worker \in Workers
      BY DEF IInv, CompletionsInv
    <3>3. ~(m.task = t /\ m.attempt = next)
      BY <2>9, <3>2, RemoteDispatchAssumption
    <3> QED BY <2>8, <3>1, <3>2, <3>3
  <2>11. \A u \in Tasks : state[u] = "completed" <=> state'[u] = "completed"
    BY <2>2 DEF IInv, ClaimTask, TaskSwept, AfterExpiry, AfterFailure,
       OneOwner, LateTasks, OverdueTasks
  <2>12. \A u \in Tasks : state[u] = "completed" => ~(u = t)
    BY <2>2
  <2>13. lease'[t][next].state = "active"
    BY <2>3 DEF ClaimTask
  <2>14. ResultIsReal'
    <3>1. ASSUME NEW u \in Tasks, state'[u] = "completed"
          PROVE  finishedBy'[u] # 0 /\ lease'[u][finishedBy'[u]].state = "completed"
      <4>1. state[u] = "completed" /\ u # t
        BY <3>1, <2>11, <2>12
      <4>2. finishedBy[u] # 0 /\ lease[u][finishedBy[u]].state = "completed"
        BY <4>1 DEF IInv, ResultIsReal
      <4>3. finishedBy' = finishedBy /\ finishedBy[u] \in Attempts
        BY <4>2 DEF IInv, TypeOK, ClaimTask, Attempts
      <4> QED BY <2>8, <4>1, <4>2, <4>3
    <3>2. ASSUME NEW u \in Tasks, NEW a \in Attempts, lease'[u][a].state = "completed"
          PROVE  /\ state'[u] = "completed" /\ finishedBy'[u] = a
                 /\ marker'[lease'[u][a].worker][u] = "whole"
      <4>1. ~(u = t /\ a = next)
        BY <3>2, <2>13
      <4>2. lease[u][a].state = "completed" /\ lease'[u][a].worker = lease[u][a].worker
        BY <3>2, <4>1, <2>8
      <4>3. finishedBy' = finishedBy /\ marker' = marker
        BY DEF ClaimTask
      <4>4. state[u] = "completed" /\ finishedBy[u] = a /\ marker[lease[u][a].worker][u] = "whole"
        BY <4>2 DEF IInv, ResultIsReal
      <4> QED BY <2>11, <4>2, <4>3, <4>4
    <3> QED BY <3>1, <3>2 DEF ResultIsReal
  <2> QED BY <2>7, <2>10, <2>14
<1>2. OneOwner'
  <2>1. /\ attempts' = [attempts EXCEPT ![t] = attempts[t] + 1]
        /\ attempts[t] \in Nat /\ attempts[t] < MaxAttempts
    BY RemoteDispatchAssumption DEF ClaimTask, Available, TaskSwept,
       AfterExpiry, AfterFailure, IInv, TypeOK, QueuedHasBudget
  <2> SUFFICES ASSUME NEW u \in Tasks, NEW a \in Attempts
               PROVE  /\ lease'[u][a].state = "none" <=> a > attempts'[u]
                      /\ lease'[u][a].state = "active" <=> state'[u] = "leased" /\ a = attempts'[u]
    BY DEF OneOwner
  <2>2. CASE u # t
    BY <2>1, <2>2 DEF ClaimTask, TaskSwept, LeaseSwept, AfterExpiry,
       AfterFailure, LateTasks, OverdueTasks, IInv, OneOwner
  <2>3. CASE u = t /\ a = attempts[t] + 1
    BY <2>1, <2>3 DEF ClaimTask, IInv, TypeOK
  <2>4. CASE u = t /\ a # attempts[t] + 1
    <3>1. lease'[u][a] = LeaseSwept(u, a, expiring)
      BY <2>4 DEF ClaimTask
    <3>2. lease[u][a].state # "active" \/ u \in expiring
      BY <2>4 DEF ClaimTask, Available, TaskSwept, IInv, OneOwner
    <3>3. lease'[u][a].state # "active"
      BY <3>1, <3>2 DEF LeaseSwept, LateTasks, IInv, OneOwner
    <3>4. lease'[u][a].state = "none" <=> lease[u][a].state = "none"
      BY <3>1, LeaseSweptKinds DEF IInv
    <3>5. a \in Nat /\ (a > attempts[t] <=> a > attempts[t] + 1)
      BY <2>1, <2>4 DEF Attempts
    <3>6. state'[u] = "leased" /\ attempts'[u] = attempts[t] + 1
      BY <2>1, <2>4 DEF ClaimTask, IInv, TypeOK
    <3> QED BY <2>4, <3>3, <3>4, <3>5, <3>6 DEF IInv, OneOwner
  <2> QED BY <2>2, <2>3, <2>4
<1>3. LeasesInv'
  BY RemoteDispatchAssumption DEF TypeOK, IInv, ClaimTask, TaskSwept,
     LeaseSwept, AfterExpiry, AfterFailure, LeasesInv
<1>4. QueuedHasBudget'
  BY RemoteDispatchAssumption DEF Attempts, IInv, ClaimTask, TaskSwept,
     AfterExpiry, AfterFailure, LateTasks, OneOwner, QueuedHasBudget,
     CancellationPrevails
<1>5. CancellationPrevails'
  BY DEF IInv, ClaimTask, TaskSwept, AfterExpiry, OverdueTasks,
     CancellationPrevails
<1>6. WorkersInv'
  <2> DEFINE next == attempts[t] + 1
  <2>1. \A u \in Tasks, a \in Attempts : ~(u = t /\ a = next) =>
           lease'[u][a].worker = lease[u][a].worker
    BY LeaseSweptKinds DEF IInv, ClaimTask
  <2>2. next \in Attempts
    <3>1. /\ attempts' = [attempts EXCEPT ![t] = next]
          /\ attempts' \in [Tasks -> 0 .. MaxAttempts]
      BY <1>1 DEF ClaimTask, TypeOK
    <3>2. attempts[t] \in 0 .. MaxAttempts
      BY DEF IInv, TypeOK
    <3> QED BY <3>1, <3>2, RemoteDispatchAssumption DEF IInv, TypeOK, Attempts
  <2>3. lease[t][next].worker = Nobody /\ lease'[t][next].worker = w
    <3>1. next > attempts[t]
      BY <2>2 DEF IInv, TypeOK, Attempts
    <3>2. lease[t][next].state = "none"
      BY <2>2, <3>1 DEF IInv, OneOwner
    <3> QED BY <2>2, <3>2 DEF IInv, LeasesInv, ClaimTask
  <2>4. \/ pc' = pc /\ job' = job
        \/ /\ pc' = [pc EXCEPT ![w] = "execute"]
           /\ job' = [job EXCEPT ![w] = [task |-> t, attempt |-> next]]
    BY DEF ClaimTask
  <2>5. UNCHANGED <<result, marker, cancelRequested>>
    BY DEF ClaimTask
  <2>6. pc \in [Workers -> WorkerPCs] /\ job \in [Workers -> Jobs \cup {NoJob}]
    BY DEF IInv, TypeOK
  <2> SUFFICES ASSUME NEW v \in Workers
               PROVE  /\ pc'[v] = "poll" => job'[v] = NoJob
                      /\ pc'[v] # "poll" =>
                            /\ job'[v] \in Jobs
                            /\ lease'[Task(v)'][job'[v].attempt].worker = v
                      /\ pc'[v] \in {"child", "mark"} => marker'[v][Task(v)'] = "none"
                      /\ pc'[v] = "report" /\ result'[v] = "succeeded" => marker'[v][Task(v)'] = "whole"
                      /\ pc'[v] = "report" /\ result'[v] = "cancelled" => cancelRequested'[Task(v)']
    BY DEF WorkersInv
  <2>7. CASE pc'[v] = pc[v] /\ job'[v] = job[v]
    <3>1. ASSUME pc[v] # "poll"
          PROVE  /\ job[v] \in Jobs
                 /\ lease'[job[v].task][job[v].attempt].worker = v
      <4>1. job[v] \in Jobs /\ lease[job[v].task][job[v].attempt].worker = v
        BY <3>1 DEF IInv, WorkersInv, Task
      <4>2. job[v].task \in Tasks /\ job[v].attempt \in Attempts
        BY <4>1 DEF Jobs
      <4>3. ~(job[v].task = t /\ job[v].attempt = next)
        BY <2>3, <4>1, RemoteDispatchAssumption
      <4> QED BY <2>1, <4>1, <4>2, <4>3
    <3> QED BY <2>5, <2>7, <3>1 DEF IInv, WorkersInv, Task
  <2>8. CASE v = w /\ pc'[w] = "execute" /\ job'[w] = [task |-> t, attempt |-> next]
    BY <2>2, <2>3, <2>8 DEF Task, Jobs
  <2> QED BY <2>4, <2>6, <2>7, <2>8
<1> QED BY <1>1, <1>2, <1>3, <1>4, <1>5, <1>6 DEF IInv

LEMMA CancelStep ==
    ASSUME IInv, NEW t \in Tasks, Cancel(t)
    PROVE  IInv'
<1>1. TypeOK'
  BY DEF TypeOK, TaskStates, TERMINAL_TASK_STATES, IInv, workerVars, Cancel
<1>2. OneOwner'
  BY DEF IInv, OneOwner, Cancel
<1>3. LeasesInv'
  BY DEF TypeOK, IInv, Cancel, LeasesInv
<1>4. QueuedHasBudget'
  BY DEF IInv, Cancel, QueuedHasBudget
<1>5. CancellationPrevails'
  BY DEF TypeOK, TaskStates, IInv, Cancel, CancellationPrevails
<1>6. WorkersInv'
  BY DEF IInv, workerVars, Cancel, Task, WorkersInv
<1>7. CompletionsInv'
  BY DEF IInv, workerVars, Cancel, CompletionsInv
<1>8. ResultIsReal'
  BY DEF IInv, workerVars, ResultIsReal, Cancel
<1> QED BY <1>1, <1>2, <1>3, <1>4, <1>5, <1>6, <1>7, <1>8 DEF IInv

LEMMA CompleteStep ==
    ASSUME IInv, NEW m \in completions, Complete(m)
    PROVE  IInv'
<1> DEFINE t == m.task
           a == m.attempt
           after == TaskCompleted(t, m.status)
           ending == LeaseCompleted(t, m.status)
           l == [lease[t][a] EXCEPT !.state = ending]
<1>1. TypeOK /\ t \in Tasks /\ a \in Attempts /\ m.status \in Statuses
  BY DEF IInv, TypeOK
<1>2. /\ after \in {"completed", "cancelled", "queued", "dead_letter"}
      /\ ending \in {"completed", "cancelled", "failed"}
      /\ after = "completed" <=> ending = "completed"
      /\ after = "completed" => m.status = "succeeded" /\ ~cancelRequested[t]
      /\ cancelRequested[t] => after = "cancelled"
      /\ after = "queued" => attempts[t] < MaxAttempts
      /\ after = "cancelled" => cancelRequested[t]
  <2>1. m.status = "cancelled" => cancelRequested[t]
    BY DEF IInv, CompletionsInv
  <2>2. attempts[t] >= MaxAttempts \/ attempts[t] < MaxAttempts
    BY <1>1, RemoteDispatchAssumption DEF TypeOK
  <2>3. cancelRequested[t] \in BOOLEAN
    BY <1>1 DEF TypeOK
  <2> QED BY <1>1, <2>1, <2>2, <2>3 DEF TaskCompleted, LeaseCompleted, AfterFailure, Statuses
<1>3. lease[t][a] \in Lease /\ l \in Lease /\ l.state = ending /\ l.worker = lease[t][a].worker
  <2>1. lease[t][a] \in Lease
    BY <1>1 DEF TypeOK
  <2>2. ending \in LeaseStates
    BY <1>2 DEF LeaseStates
  <2> QED BY <2>1, <2>2, LeaseEnds, LeaseEndsFields, Zenon
<1>4. lease' = [lease EXCEPT ![t] = [lease[t] EXCEPT ![a] = l]]
  BY Zenon DEF Complete
<1>5. lease' \in [Tasks -> [Attempts -> Lease]]
  BY <1>1, <1>3, <1>4, LeaseUpdate DEF TypeOK
<1>6. /\ lease'[t][a] = l
      /\ \A u \in Tasks, b \in Attempts : ~(u = t /\ b = a) => lease'[u][b] = lease[u][b]
  BY <1>1, <1>4 DEF TypeOK
<1>7. state' = [state EXCEPT ![t] = after]
  BY DEF Complete
<1>8. /\ finishedBy' = [finishedBy EXCEPT ![t] =
                           IF after \in {"completed", "cancelled"} THEN a ELSE finishedBy[t]]
      /\ UNCHANGED <<attempts, cancelRequested, overdue, completions, workerVars>>
  BY DEF Complete
<1>9. lease[t][a].state = "active" /\ state[t] = "leased" /\ a = attempts[t]
  BY <1>1 DEF Complete, MayComplete, Live, IInv, OneOwner
<1> HIDE DEF t, a, after, ending, l
<1>10. TypeOK'
  <2>1. state' \in [Tasks -> TaskStates]
    BY <1>1, <1>2, <1>7 DEF TypeOK, TaskStates, TERMINAL_TASK_STATES
  <2>2. finishedBy' \in [Tasks -> 0 .. MaxAttempts]
    BY <1>1, <1>8 DEF TypeOK, Attempts
  <2>3. eligible' \in [Tasks -> BOOLEAN]
    BY <1>1 DEF TypeOK, Complete, t
  <2> QED BY <1>1, <1>5, <1>8, <2>1, <2>2, <2>3 DEF TypeOK, workerVars
<1>11. OneOwner'
  BY <1>1, <1>2, <1>3, <1>6, <1>7, <1>8, <1>9 DEF IInv, OneOwner, TypeOK
<1>12. LeasesInv'
  <2>1. ASSUME NEW u \in Tasks, NEW b \in Attempts
        PROVE  lease'[u][b].worker = Nobody <=> lease'[u][b].state = "none"
    <3>1. CASE u = t /\ b = a
      BY <1>1, <1>2, <1>3, <1>6, <1>9, <3>1 DEF IInv, LeasesInv
    <3>2. CASE ~(u = t /\ b = a)
      BY <1>6, <3>2 DEF IInv, LeasesInv
    <3> QED BY <3>1, <3>2
  <2>2. ASSUME NEW u \in Tasks
        PROVE  /\ state'[u] = "unsubmitted" => attempts'[u] = 0
               /\ state'[u] = "leased" => attempts'[u] > 0
               /\ state'[u] = "cancelled" => cancelRequested'[u]
    <3>1. CASE u = t
      BY <1>1, <1>2, <1>7, <1>8, <3>1 DEF TypeOK
    <3>2. CASE u # t
      BY <1>7, <1>8, <3>2 DEF TypeOK, IInv, LeasesInv
    <3> QED BY <3>1, <3>2
  <2> QED BY <2>1, <2>2 DEF LeasesInv
<1>13. QueuedHasBudget' /\ CancellationPrevails'
  BY <1>1, <1>2, <1>7, <1>8 DEF IInv, QueuedHasBudget, CancellationPrevails, TypeOK
<1>14. \A u \in Tasks, b \in Attempts : lease'[u][b].worker = lease[u][b].worker
  BY <1>3, <1>6
<1>15. WorkersInv'
  <2>1. \A w \in Workers : job[w] \in Jobs => Task(w) \in Tasks /\ job[w].attempt \in Attempts
    BY DEF Jobs, Task
  <2> QED BY <1>8, <1>14, <2>1 DEF IInv, WorkersInv, workerVars, Task
<1>16. CompletionsInv'
  <2>1. \A n \in completions : n.task \in Tasks /\ n.attempt \in Attempts
    BY <1>1 DEF TypeOK
  <2> QED BY <1>8, <1>14, <2>1 DEF IInv, CompletionsInv, workerVars
<1>17. ResultIsReal'
  <2>1. ASSUME NEW u \in Tasks, state'[u] = "completed"
        PROVE  finishedBy'[u] # 0 /\ lease'[u][finishedBy'[u]].state = "completed"
    <3>1. CASE u = t
      <4>1. after = "completed" /\ finishedBy'[u] = a
        BY <1>1, <1>7, <1>8, <2>1, <3>1 DEF TypeOK
      <4> QED BY <1>1, <1>2, <1>3, <1>6, <3>1, <4>1, RemoteDispatchAssumption DEF Attempts
    <3>2. CASE u # t
      <4>1. state[u] = "completed" /\ finishedBy'[u] = finishedBy[u]
        BY <1>7, <1>8, <2>1, <3>2 DEF TypeOK
      <4>2. finishedBy[u] \in Attempts /\ lease[u][finishedBy[u]].state = "completed"
        BY <1>1, <4>1, RemoteDispatchAssumption DEF IInv, ResultIsReal, TypeOK, Attempts
      <4> QED BY <1>6, <3>2, <4>1, <4>2, RemoteDispatchAssumption DEF Attempts
    <3> QED BY <3>1, <3>2
  <2>2. ASSUME NEW u \in Tasks, NEW b \in Attempts, lease'[u][b].state = "completed"
        PROVE  /\ state'[u] = "completed" /\ finishedBy'[u] = b
               /\ marker'[lease'[u][b].worker][u] = "whole"
    <3>1. CASE u = t /\ b = a
      <4>1. after = "completed" /\ m.status = "succeeded"
        BY <1>2, <1>3, <1>6, <2>2, <3>1
      <4>2. marker[lease[t][a].worker][t] = "whole"
        BY <4>1 DEF IInv, CompletionsInv, t, a
      <4> QED BY <1>1, <1>7, <1>8, <1>14, <3>1, <4>1, <4>2 DEF TypeOK, workerVars
    <3>2. CASE ~(u = t /\ b = a)
      <4>1. lease[u][b].state = "completed"
        BY <1>6, <2>2, <3>2
      <4>2. state[u] = "completed" /\ finishedBy[u] = b /\ marker[lease[u][b].worker][u] = "whole"
        BY <4>1 DEF IInv, ResultIsReal
      <4>3. u # t
        BY <1>9, <4>2
      <4> QED BY <1>7, <1>8, <1>14, <4>2, <4>3 DEF TypeOK, workerVars
    <3> QED BY <3>1, <3>2
  <2> QED BY <2>1, <2>2 DEF ResultIsReal
<1> QED BY <1>10, <1>11, <1>12, <1>13, <1>15, <1>16, <1>17 DEF IInv

LEMMA RunOutStep ==
    ASSUME IInv, NEW t \in Tasks, NEW a \in Attempts, RunOut(t, a)
    PROVE  IInv'
<1>1. TypeOK'
  <2> DEFINE l == [lease[t][a] EXCEPT !.late = TRUE]
  <2>a. lease[t][a] \in Lease /\ "expired" \in LeaseStates
    BY DEF IInv, TypeOK, LeaseStates
  <2>1. l \in Lease
    BY <2>a, LeaseEnds, Zenon
  <2>2. lease' = [lease EXCEPT ![t] = [lease[t] EXCEPT ![a] = l]]
    BY Zenon DEF RunOut
  <2>3. lease' \in [Tasks -> [Attempts -> Lease]]
    BY <2>1, <2>2, LeaseUpdate DEF IInv, TypeOK
  <2> QED BY <2>3 DEF IInv, TypeOK, RunOut, workerVars
<1>2. OneOwner'
  BY DEF IInv, OneOwner, RunOut
<1>3. LeasesInv'
  BY DEF IInv, RunOut, LeasesInv
<1>4. QueuedHasBudget'
  BY DEF IInv, RunOut, QueuedHasBudget
<1>5. CancellationPrevails'
  BY DEF IInv, RunOut, CancellationPrevails
<1>6. WorkersInv'
  BY DEF IInv, workerVars, RunOut, Task, WorkersInv
<1>7. CompletionsInv'
  <2>1. \A u \in Tasks, b \in Attempts : lease'[u][b].worker = lease[u][b].worker
    BY DEF IInv, TypeOK, RunOut, Lease
  <2>2. UNCHANGED <<completions, marker, cancelRequested>>
    BY DEF RunOut, workerVars
  <2>3. \A m \in completions : m.task \in Tasks /\ m.attempt \in Attempts
    BY DEF IInv, TypeOK
  <2> QED BY <2>1, <2>2, <2>3 DEF IInv, CompletionsInv
<1>8. ResultIsReal'
  BY DEF IInv, workerVars, ResultIsReal, RunOut
<1> QED BY <1>1, <1>2, <1>3, <1>4, <1>5, <1>6, <1>7, <1>8 DEF IInv

LEMMA RetryDelayPassesStep ==
    ASSUME IInv, NEW t \in Tasks, RetryDelayPasses(t)
    PROVE  IInv'
<1>1. TypeOK'
  BY DEF TypeOK, IInv, workerVars, RetryDelayPasses
<1>2. OneOwner' /\ LeasesInv' /\ QueuedHasBudget' /\ CancellationPrevails'
  BY DEF IInv, RetryDelayPasses, OneOwner, LeasesInv, QueuedHasBudget,
     CancellationPrevails
<1>3. WorkersInv'
  BY DEF IInv, workerVars, RetryDelayPasses, Task, WorkersInv
<1>4. CompletionsInv'
  BY DEF IInv, workerVars, RetryDelayPasses, CompletionsInv
<1>5. ResultIsReal'
  BY DEF IInv, workerVars, RetryDelayPasses, ResultIsReal
<1> QED BY <1>1, <1>2, <1>3, <1>4, <1>5 DEF IInv

LEMMA DeadlinePassesStep ==
    ASSUME IInv, NEW t \in Tasks, DeadlinePasses(t)
    PROVE  IInv'
<1>1. TypeOK'
  BY DEF TypeOK, IInv, workerVars, DeadlinePasses
<1>2. OneOwner' /\ LeasesInv' /\ QueuedHasBudget' /\ CancellationPrevails'
  BY DEF IInv, DeadlinePasses, OneOwner, LeasesInv, QueuedHasBudget,
     CancellationPrevails
<1>3. WorkersInv'
  BY DEF IInv, workerVars, DeadlinePasses, Task, WorkersInv
<1>4. CompletionsInv'
  BY DEF IInv, workerVars, DeadlinePasses, CompletionsInv
<1>5. ResultIsReal'
  BY DEF IInv, workerVars, DeadlinePasses, ResultIsReal
<1> QED BY <1>1, <1>2, <1>3, <1>4, <1>5 DEF IInv

LEMMA ReuseStep ==
    ASSUME IInv, NEW w \in Workers, Reuse(w)
    PROVE  IInv'
<1>1. TypeOK'
  BY DEF TypeOK, Statuses, WorkerPCs, IInv, serverVars, Reuse, Executed
<1>2. OneOwner' /\ LeasesInv' /\ QueuedHasBudget' /\ CancellationPrevails'
  BY ServerUntouched DEF Reuse, Executed
<1>3. WorkersInv'
  BY DEF TypeOK, IInv, serverVars, Reuse, Executed, Task, WorkersInv
<1>4. CompletionsInv'
  BY DEF IInv, serverVars, Reuse, Executed, CompletionsInv
<1>5. ResultIsReal'
  BY DEF IInv, serverVars, Reuse, Executed, ResultIsReal
<1> QED BY <1>1, <1>2, <1>3, <1>4, <1>5 DEF IInv

LEMMA CheckoutFailsStep ==
    ASSUME IInv, NEW w \in Workers, CheckoutFails(w)
    PROVE  IInv'
<1>1. TypeOK'
  BY DEF TypeOK, Statuses, WorkerPCs, IInv, serverVars, CheckoutFails, Executed
<1>2. OneOwner' /\ LeasesInv' /\ QueuedHasBudget' /\ CancellationPrevails'
  BY ServerUntouched DEF CheckoutFails, Executed
<1>3. WorkersInv'
  BY DEF TypeOK, IInv, serverVars, CheckoutFails, Executed, Task, WorkersInv
<1>4. CompletionsInv'
  BY DEF IInv, serverVars, CheckoutFails, Executed, CompletionsInv
<1>5. ResultIsReal'
  BY DEF IInv, serverVars, CheckoutFails, Executed, ResultIsReal
<1> QED BY <1>1, <1>2, <1>3, <1>4, <1>5 DEF IInv

LEMMA StartChildStep ==
    ASSUME IInv, NEW w \in Workers, StartChild(w)
    PROVE  IInv'
<1>1. TypeOK'
  BY DEF TypeOK, WorkerPCs, IInv, serverVars, StartChild
<1>2. OneOwner' /\ LeasesInv' /\ QueuedHasBudget' /\ CancellationPrevails'
  BY ServerUntouched DEF StartChild
<1>3. WorkersInv'
  BY DEF IInv, serverVars, StartChild, Task, WorkersInv
<1>4. CompletionsInv'
  BY DEF IInv, serverVars, StartChild, CompletionsInv
<1>5. ResultIsReal'
  BY DEF IInv, serverVars, StartChild, ResultIsReal
<1> QED BY <1>1, <1>2, <1>3, <1>4, <1>5 DEF IInv

LEMMA RenewCancelledStep ==
    ASSUME IInv, NEW w \in Workers, RenewCancelled(w)
    PROVE  IInv'
<1>1. TypeOK'
  BY DEF TypeOK, Statuses, WorkerPCs, IInv, serverVars, RenewCancelled,
     Executed
<1>2. OneOwner' /\ LeasesInv' /\ QueuedHasBudget' /\ CancellationPrevails'
  BY ServerUntouched DEF RenewCancelled, Executed
<1>3. WorkersInv'
  <2>1. /\ pc[w] = "child" /\ cancelRequested[Task(w)]
        /\ pc' = [pc EXCEPT ![w] = "report"] /\ result' = [result EXCEPT ![w] = "cancelled"]
        /\ UNCHANGED <<job, lease, marker, cancelRequested>>
    BY DEF RenewCancelled, Executed, serverVars
  <2>2. DOMAIN pc = Workers /\ DOMAIN result = Workers
    BY DEF IInv, TypeOK
  <2>3. WorkersInv
    BY DEF IInv
  <2> QED BY <2>1, <2>2, <2>3 DEF WorkersInv, Task
<1>4. CompletionsInv'
  BY DEF IInv, serverVars, RenewCancelled, Executed, CompletionsInv
<1>5. ResultIsReal'
  BY DEF IInv, serverVars, RenewCancelled, Executed, ResultIsReal
<1> QED BY <1>1, <1>2, <1>3, <1>4, <1>5 DEF IInv

LEMMA ChildFailsStep ==
    ASSUME IInv, NEW w \in Workers, ChildFails(w)
    PROVE  IInv'
<1>1. TypeOK'
  BY DEF TypeOK, Statuses, WorkerPCs, IInv, serverVars, ChildFails, Executed
<1>2. OneOwner' /\ LeasesInv' /\ QueuedHasBudget' /\ CancellationPrevails'
  BY ServerUntouched DEF ChildFails, Executed
<1>3. WorkersInv'
  BY DEF TypeOK, IInv, serverVars, ChildFails, Executed, Task, WorkersInv
<1>4. CompletionsInv'
  BY DEF IInv, serverVars, ChildFails, Executed, CompletionsInv
<1>5. ResultIsReal'
  BY DEF IInv, serverVars, ChildFails, Executed, ResultIsReal
<1> QED BY <1>1, <1>2, <1>3, <1>4, <1>5 DEF IInv

LEMMA ChildSucceedsStep ==
    ASSUME IInv, NEW w \in Workers, ChildSucceeds(w)
    PROVE  IInv'
<1>1. TypeOK'
  BY DEF TypeOK, WorkerPCs, IInv, serverVars, ChildSucceeds
<1>2. OneOwner' /\ LeasesInv' /\ QueuedHasBudget' /\ CancellationPrevails'
  BY ServerUntouched DEF ChildSucceeds
<1>3. WorkersInv'
  BY DEF IInv, serverVars, ChildSucceeds, Task, WorkersInv
<1>4. CompletionsInv'
  BY DEF IInv, serverVars, ChildSucceeds, CompletionsInv
<1>5. ResultIsReal'
  BY DEF IInv, serverVars, ChildSucceeds, ResultIsReal
<1> QED BY <1>1, <1>2, <1>3, <1>4, <1>5 DEF IInv

LEMMA WriteMarkerStep ==
    ASSUME IInv, NEW w \in Workers, WriteMarker(w)
    PROVE  IInv'
<1>1. TypeOK'
  BY DEF TypeOK, Statuses, WorkerPCs, IInv, serverVars, WriteMarker, Executed
<1>2. OneOwner' /\ LeasesInv' /\ QueuedHasBudget' /\ CancellationPrevails'
  BY ServerUntouched DEF WriteMarker, Executed
<1>3. WorkersInv'
  BY DEF TypeOK, Jobs, IInv, serverVars, WriteMarker, Executed, Task,
     WorkersInv
<1>4. CompletionsInv'
  BY DEF IInv, serverVars, WriteMarker, Executed, CompletionsInv
<1>5. ResultIsReal'
  BY DEF IInv, serverVars, WriteMarker, Executed, ResultIsReal
<1> QED BY <1>1, <1>2, <1>3, <1>4, <1>5 DEF IInv

LEMMA MarkerFailsStep ==
    ASSUME IInv, NEW w \in Workers, MarkerFails(w)
    PROVE  IInv'
<1>1. TypeOK'
  BY DEF TypeOK, Statuses, Jobs, WorkerPCs, IInv, serverVars, MarkerFails,
     Executed, TornMarkers, Task, WorkersInv
<1>2. OneOwner' /\ LeasesInv' /\ QueuedHasBudget' /\ CancellationPrevails'
  BY ServerUntouched DEF MarkerFails, Executed
<1>3. WorkersInv'
  BY DEF TypeOK, IInv, serverVars, MarkerFails, Executed, Task,
     CancellationPrevails, WorkersInv
<1>4. CompletionsInv'
  <2>1. marker[w][Task(w)] = "none"
    BY DEF IInv, WorkersInv, MarkerFails
  <2>2. \A v \in Workers, t \in Tasks : marker[v][t] = "whole" => marker'[v][t] = "whole"
    BY <2>1 DEF IInv, TypeOK, MarkerFails
  <2>3. UNCHANGED <<completions, lease, cancelRequested>>
    BY DEF MarkerFails, Executed, serverVars
  <2>4. \A m \in completions : m.task \in Tasks
    BY DEF IInv, TypeOK
  <2> QED BY <2>2, <2>3, <2>4 DEF IInv, CompletionsInv
<1>5. ResultIsReal'
  BY DEF IInv, serverVars, MarkerFails, Executed, WorkersInv, ResultIsReal
<1> QED BY <1>1, <1>2, <1>3, <1>4, <1>5 DEF IInv

LEMMA ReportStep ==
    ASSUME IInv, NEW w \in Workers, Report(w)
    PROVE  IInv'
<1>1. CompletionsInv'
  <2> DEFINE sent == [task |-> Task(w), attempt |-> job[w].attempt, status |-> result[w]]
  <2>1. completions' = completions \cup {sent} /\ lease' = lease /\ marker' = marker /\ cancelRequested' = cancelRequested
    BY DEF Report, serverVars
  <2>2. lease[sent.task][sent.attempt].worker = w
    BY DEF IInv, WorkersInv, Report
  <2>3. /\ sent.status = "succeeded" => marker[w][sent.task] = "whole"
        /\ sent.status = "cancelled" => cancelRequested[sent.task]
    BY DEF IInv, WorkersInv, Report
  <2>4. CompletionsInv
    BY DEF IInv
  <2> QED BY <2>1, <2>2, <2>3, <2>4 DEF CompletionsInv
<1>2. TypeOK'
  BY DEF TypeOK, Statuses, Jobs, WorkerPCs, IInv, serverVars, Report, Task,
     WorkersInv
<1>3. OneOwner' /\ LeasesInv' /\ QueuedHasBudget' /\ CancellationPrevails'
  BY ServerUntouched DEF Report
<1>4. WorkersInv'
  BY DEF TypeOK, IInv, serverVars, Report, Task, WorkersInv
<1>5. ResultIsReal'
  BY DEF IInv, serverVars, Report, ResultIsReal
<1> QED BY <1>1, <1>2, <1>3, <1>4, <1>5 DEF IInv

LEMMA CrashStep ==
    ASSUME IInv, NEW w \in Workers, Crash(w)
    PROVE  IInv'
<1>1. TypeOK' /\ CompletionsInv' /\ ResultIsReal'
  <2>1. /\ pc' = [pc EXCEPT ![w] = "poll"] /\ job' = [job EXCEPT ![w] = NoJob]
        /\ crashes < MaxCrashes /\ crashes' = crashes + 1
        /\ UNCHANGED <<result, state, attempts, cancelRequested, eligible, overdue, finishedBy, lease, completions>>
    BY DEF Crash, serverVars
  <2>2. pc[w] # "poll" /\ job[w] \in Jobs /\ Task(w) \in Tasks
    BY DEF IInv, WorkersInv, Crash, Task, Jobs
  <2>3. orphans' \in [Workers -> SUBSET Tasks]
    BY <2>2 DEF IInv, TypeOK, Crash
  <2>4. /\ marker' \in [Workers -> [Tasks -> {"none", "partial", "whole"}]]
        /\ \A v \in Workers, t \in Tasks : marker[v][t] = "whole" => marker'[v][t] = "whole"
    <3>1. CASE pc[w] = "mark"
      <4>1. PICK torn \in TornMarkers : marker' = [marker EXCEPT ![w][Task(w)] = torn]
        BY <3>1 DEF Crash
      <4>2. marker[w][Task(w)] = "none"
        BY <3>1 DEF IInv, WorkersInv
      <4>3. marker' = [marker EXCEPT ![w] = [marker[w] EXCEPT ![Task(w)] = torn]]
        BY <4>1, <2>2
      <4> QED BY <2>2, <4>2, <4>3 DEF IInv, TypeOK, TornMarkers
    <3>2. CASE pc[w] # "mark"
      BY <3>2 DEF IInv, TypeOK, Crash
    <3> QED BY <3>1, <3>2
  <2>5. crashes' \in 0 .. MaxCrashes
    BY <2>1, RemoteDispatchAssumption DEF IInv, TypeOK
  <2>6. TypeOK'
    BY <2>1, <2>3, <2>4, <2>5 DEF IInv, TypeOK, WorkerPCs
  <2>7. CompletionsInv'
    BY <2>1, <2>4 DEF IInv, TypeOK, CompletionsInv
  <2>8. ASSUME NEW t \in Tasks, NEW a \in Attempts, lease[t][a].state = "completed"
        PROVE  lease[t][a].worker \in Workers
    BY <2>8 DEF IInv, TypeOK, LeasesInv, Lease
  <2>9. ResultIsReal'
    BY <2>1, <2>4, <2>8 DEF IInv, ResultIsReal
  <2> QED BY <2>6, <2>7, <2>9
<1>2. OneOwner' /\ LeasesInv' /\ QueuedHasBudget' /\ CancellationPrevails'
  BY ServerUntouched DEF Crash
<1>3. WorkersInv'
  BY DEF TypeOK, IInv, serverVars, Crash, Task, WorkersInv
<1> QED BY <1>1, <1>2, <1>3 DEF IInv

LEMMA OrphanEndsStep ==
    ASSUME IInv, NEW w \in Workers, NEW t \in Tasks, OrphanEnds(w, t)
    PROVE  IInv'
<1>1. TypeOK'
  BY DEF TypeOK, IInv, serverVars, OrphanEnds
<1>2. OneOwner' /\ LeasesInv' /\ QueuedHasBudget' /\ CancellationPrevails'
  BY ServerUntouched DEF OrphanEnds
<1>3. WorkersInv'
  BY DEF IInv, serverVars, OrphanEnds, Task, WorkersInv
<1>4. CompletionsInv'
  BY DEF IInv, serverVars, OrphanEnds, CompletionsInv
<1>5. ResultIsReal'
  BY DEF IInv, serverVars, OrphanEnds, ResultIsReal
<1> QED BY <1>1, <1>2, <1>3, <1>4, <1>5 DEF IInv

LEMMA StutterStep ==
    ASSUME IInv, UNCHANGED vars
    PROVE  IInv'
<1> USE DEF IInv, vars, serverVars, workerVars
<1>1. TypeOK'
  BY DEF TypeOK
<1>2. OneOwner' /\ LeasesInv' /\ QueuedHasBudget' /\ CancellationPrevails'
  BY ServerUntouched
<1>3. WorkersInv'
  BY DEF WorkersInv, Task
<1>4. CompletionsInv'
  BY DEF CompletionsInv
<1>5. ResultIsReal'
  BY DEF ResultIsReal
<1> QED BY <1>1, <1>2, <1>3, <1>4, <1>5

LEMMA Inductive ==
    ASSUME IInv, [Next]_vars
    PROVE  IInv'
<1>1. ASSUME NEW t \in Tasks, TaskStep(t)
      PROVE  IInv'
  BY <1>1, SubmitStep, CancelStep, RetryDelayPassesStep, DeadlinePassesStep, RunOutStep DEF TaskStep
<1>2. ASSUME NEW w \in Workers, Claim(w)
      PROVE  IInv'
  BY <1>2, ClaimNothingStep, ClaimTaskStep DEF Claim
<1>3. ASSUME NEW w \in Workers, WorkerStep(w)
      PROVE  IInv'
  BY <1>3, ReuseStep, CheckoutFailsStep, StartChildStep, RenewCancelledStep, ChildFailsStep,
     ChildSucceedsStep, WriteMarkerStep, MarkerFailsStep, ReportStep DEF WorkerStep
<1> QED BY <1>1, <1>2, <1>3, CrashStep, OrphanEndsStep, CompleteStep, StutterStep DEF Next

LEMMA InitIInv == Init => IInv
<1> SUFFICES ASSUME Init PROVE IInv
  OBVIOUS
<1>1. TypeOK
  BY RemoteDispatchAssumption DEF Init, TypeOK, TaskStates, Statuses, LeaseStates, Lease,
     NoLease, WorkerPCs, Attempts
<1>2. OneOwner /\ LeasesInv
  BY RemoteDispatchAssumption DEF Init, OneOwner, LeasesInv, Attempts, NoLease
<1>3. QueuedHasBudget /\ CancellationPrevails /\ WorkersInv /\ CompletionsInv /\ ResultIsReal
  BY DEF Init, QueuedHasBudget, CancellationPrevails, WorkersInv, CompletionsInv,
     ResultIsReal, NoLease
<1> QED BY <1>1, <1>2, <1>3 DEF IInv

-----------------------------------------------------------------------------
(* The theorems about states                                               *)

\* The inductive invariant holds, for any number of tasks, workers and attempts.
THEOREM InvariantHolds == Spec => []IInv
<1>1. IInv /\ [Next]_vars => IInv'
  BY Inductive
<1> QED BY InitIInv, <1>1, PTL DEF Spec

\* Every variable keeps to its type.
THEOREM TypeCorrect == Spec => []TypeOK
BY InvariantHolds, PTL DEF IInv

\* A task is leased as long as its newest attempt holds the one active lease; every older
\* attempt has ended (claim, complete and the expiry in _claim_task).
THEOREM OwnershipIsExclusive == Spec => []OneOwner
BY InvariantHolds, PTL DEF IInv

\* A completed task was completed by one attempt, whose worker has the whole result.
THEOREM ResultsAreReal == Spec => []ResultIsReal
BY InvariantHolds, PTL DEF IInv

\* A task whose cancellation was requested is never handed out or queued again.
THEOREM CancellationsPrevail == Spec => []CancellationPrevails
BY InvariantHolds, PTL DEF IInv

\* A queued task has an attempt left.
THEOREM QueuedTasksHaveBudget == Spec => []QueuedHasBudget
BY InvariantHolds, PTL DEF IInv

\* A terminal task keeps its state and its result for ever, whatever lease, completion or
\* cancellation arrives later.
THEOREM EndIsFinal == Spec => TerminalIsFinal
<1>1. IInv /\ [Next]_vars =>
        [\A t \in Tasks : state[t] \in TERMINAL_TASK_STATES =>
           state'[t] = state[t] /\ finishedBy'[t] = finishedBy[t]]_vars
  <2> SUFFICES ASSUME IInv, Next, NEW t \in Tasks, state[t] \in TERMINAL_TASK_STATES
               PROVE  state'[t] = state[t] /\ finishedBy'[t] = finishedBy[t]
    OBVIOUS
  <2>1. ASSUME NEW u \in Tasks, TaskStep(u)
        PROVE  state'[t] = state[t] /\ finishedBy'[t] = finishedBy[t]
    BY <2>1 DEF TaskStep, Submit, Cancel, RetryDelayPasses, DeadlinePasses, RunOut, IInv,
       TypeOK, TERMINAL_TASK_STATES
  <2>2. ASSUME NEW w \in Workers, Claim(w)
        PROVE  state'[t] = state[t] /\ finishedBy'[t] = finishedBy[t]
    <3>1. PICK expiring \in SUBSET LateTasks, dropping \in SUBSET OverdueTasks :
             \/ ClaimNothing(w, expiring, dropping)
             \/ \E u \in Tasks : ClaimTask(w, u, expiring, dropping)
      BY <2>2 DEF Claim
    <3>2. t \notin expiring /\ t \notin dropping
      BY DEF LateTasks, OverdueTasks, IInv, OneOwner, TERMINAL_TASK_STATES
    <3> QED BY <3>1, <3>2 DEF ClaimNothing, ClaimTask, Available, TaskSwept, TERMINAL_TASK_STATES
  <2>3. ASSUME NEW m \in completions, Complete(m)
        PROVE  state'[t] = state[t] /\ finishedBy'[t] = finishedBy[t]
    <3>1. m.task \in Tasks /\ m.attempt \in Attempts
      BY DEF IInv, TypeOK
    <3>2. state[m.task] = "leased"
      BY <2>3, <3>1 DEF Complete, MayComplete, Live, IInv, OneOwner
    <3>3. t # m.task
      BY <3>2 DEF TERMINAL_TASK_STATES
    <3> QED BY <2>3, <3>3 DEF Complete, IInv, TypeOK
  <2>4. ASSUME NEW w \in Workers, WorkerStep(w) \/ Crash(w) \/ \E u \in Tasks : OrphanEnds(w, u)
        PROVE  state'[t] = state[t] /\ finishedBy'[t] = finishedBy[t]
    BY <2>4 DEF WorkerStep, Crash, OrphanEnds, Reuse, CheckoutFails, StartChild, RenewCancelled,
       ChildFails, ChildSucceeds, WriteMarker, MarkerFails, Report, Executed, serverVars
  <2> QED BY <2>1, <2>2, <2>3, <2>4 DEF Next
<1> QED BY <1>1, InvariantHolds, PTL DEF Spec, TerminalIsFinal

-----------------------------------------------------------------------------
(* The refinement: what a step is for one task                             *)

\* What RemoteTask sees of a task.
Mapped(u) == <<StatusOf(u), OwnerOf(u), attempts[u], cancelRequested[u],
               {w \in Workers : marker[w][u] = "whole"}>>

\* A step of RemoteTask, or a stutter, for a task.
StepOf(u) == [Promise(u)!Next]_(Promise(u)!taskVars)

LEMMA Idle ==
    ASSUME NEW u \in Tasks, UNCHANGED Mapped(u)
    PROVE  StepOf(u)
BY DEF Mapped, StepOf, Promise!taskVars

LEMMA RSubmit ==
    ASSUME IInv, NEW t \in Tasks, Submit(t), NEW u \in Tasks
    PROVE  StepOf(u)
<1>1. CASE u = t
  <2>1. Promise(u)!Submit
    BY <1>1 DEF Submit, Promise!Submit, StatusOf, OwnerOf, IInv, TypeOK, serverVars, workerVars
  <2> QED BY <2>1 DEF Promise!Next, StepOf
<1>2. CASE u # t
  BY <1>2, Idle DEF Submit, Mapped, StatusOf, OwnerOf, IInv, TypeOK, serverVars, workerVars
<1> QED BY <1>1, <1>2

LEMMA SweptWorker ==
    ASSUME TypeOK, NEW u \in Tasks, NEW expiring, NEW a \in Attempts
    PROVE  LeaseSwept(u, a, expiring).worker = lease[u][a].worker
BY LeaseSweptKinds

LEMMA Numbered ==
    ASSUME IInv, NEW u \in Tasks
    PROVE  state[u] \in {"leased", "completed"} => attempts[u] \in Attempts
<1>1. attempts[u] \in 0 .. MaxAttempts /\ finishedBy[u] \in 0 .. MaxAttempts
  BY DEF IInv, TypeOK
<1>2. CASE state[u] = "leased"
  BY <1>1, <1>2, RemoteDispatchAssumption DEF IInv, Attempts, LeasesInv
<1>3. CASE state[u] = "completed"
  <2>1. finishedBy[u] \in Attempts /\ lease[u][finishedBy[u]].state = "completed"
    BY <1>1, <1>3, RemoteDispatchAssumption DEF IInv, ResultIsReal, Attempts
  <2>2. ~(finishedBy[u] > attempts[u])
    BY <2>1 DEF IInv, OneOwner
  <2> QED BY <1>1, <2>1, <2>2, RemoteDispatchAssumption DEF Attempts
<1> QED BY <1>2, <1>3

LEMMA RSwept ==
    ASSUME IInv, NEW u \in Tasks, NEW expiring \in SUBSET LateTasks,
       NEW dropping \in SUBSET OverdueTasks,
           state'[u] = TaskSwept(u, expiring, dropping),
           \A a \in Attempts : lease'[u][a].worker = lease[u][a].worker,
           attempts'[u] = attempts[u], cancelRequested' = cancelRequested, marker' = marker
    PROVE  StepOf(u)
<1>1. CASE u \in expiring
  <2>1. state[u] = "leased"
    BY <1>1 DEF LateTasks, IInv, OneOwner
  <2>2. state'[u] = AfterExpiry(u)
    BY <1>1 DEF TaskSwept
  <2>3. CASE cancelRequested[u]
    <3>1. Promise(u)!EndCancelled
      BY <2>1, <2>2, <2>3 DEF AfterExpiry, Promise!EndCancelled, StatusOf, OwnerOf
    <3> QED BY <3>1 DEF Promise!Next, StepOf
  <2>4. CASE ~cancelRequested[u] /\ state'[u] = "queued"
    <3>a. attempts[u] < MaxAttempts
      BY <2>2, <2>4, RemoteDispatchAssumption DEF AfterExpiry, AfterFailure, IInv, TypeOK
    <3>1. Promise(u)!Return
      BY <2>1, <2>4, <3>a DEF Promise!Return, StatusOf, OwnerOf
    <3> QED BY <3>1 DEF Promise!Next, StepOf
  <2>5. CASE ~cancelRequested[u] /\ state'[u] = "dead_letter"
    <3>1. Promise(u)!GiveUp
      BY <2>1, <2>5 DEF Promise!GiveUp, StatusOf, OwnerOf
    <3> QED BY <3>1 DEF Promise!Next, StepOf
  <2> QED BY <2>2, <2>3, <2>4, <2>5 DEF AfterExpiry, AfterFailure
<1>2. CASE u \notin expiring /\ u \in dropping
  <2>1. state[u] = "queued" /\ ~cancelRequested[u] /\ state'[u] = "dead_letter"
    BY <1>2 DEF OverdueTasks, IInv, CancellationPrevails, TaskSwept
  <2>2. Promise(u)!GiveUp
    BY <2>1 DEF Promise!GiveUp, StatusOf, OwnerOf
  <2> QED BY <2>2 DEF Promise!Next, StepOf
<1>3. CASE u \notin expiring /\ u \notin dropping
  <2>1. state'[u] = state[u]
    BY <1>3 DEF TaskSwept
  <2>2. state[u] \in {"leased", "completed"} => attempts[u] \in Attempts
    BY Numbered
  <2>3. UNCHANGED Mapped(u)
    BY <2>1, <2>2 DEF Mapped, StatusOf, OwnerOf
  <2> QED BY <2>3, Idle
<1> QED BY <1>1, <1>2, <1>3

LEMMA RCancel ==
    ASSUME IInv, NEW t \in Tasks, Cancel(t), NEW u \in Tasks
    PROVE  StepOf(u)
<1>1. CASE u = t
  <2>1. state[t] \in {"queued", "leased"}
    BY DEF Cancel, IInv, TypeOK, TaskStates
  <2>2. Promise(u)!RequestCancellation
    BY <1>1, <2>1 DEF Cancel, Promise!RequestCancellation, StatusOf, OwnerOf, IInv, TypeOK,
       workerVars
  <2> QED BY <2>2 DEF Promise!Next, StepOf
<1>2. CASE u # t
  BY <1>2, Idle DEF Cancel, Mapped, StatusOf, OwnerOf, IInv, TypeOK, workerVars
<1> QED BY <1>1, <1>2

LEMMA RComplete ==
    ASSUME IInv, NEW m \in completions, Complete(m), NEW u \in Tasks
    PROVE  StepOf(u)
<1> DEFINE t == m.task
           a == m.attempt
           after == TaskCompleted(t, m.status)
<1>1. t \in Tasks /\ a \in Attempts /\ m.status \in Statuses
  BY DEF IInv, TypeOK
<1>2. /\ state' = [state EXCEPT ![t] = after]
      /\ UNCHANGED <<attempts, cancelRequested, marker>>
  BY DEF Complete, workerVars
<1>3. CASE u = t
  <2>1. state[u] = "leased" /\ a = attempts[u]
    BY <1>1, <1>3 DEF Complete, MayComplete, Live, IInv, OneOwner
  <2>2. state'[u] = after
    BY <1>2, <1>3 DEF IInv, TypeOK
  <2>3. CASE after = "completed"
    <3>1. m.status = "succeeded" /\ ~cancelRequested[u]
      BY <2>3, <1>1, <1>3 DEF TaskCompleted, AfterFailure, Statuses
    <3>2. lease[u][a].worker \in Workers /\ marker[lease[u][a].worker][u] = "whole"
      BY <3>1, <1>3 DEF IInv, CompletionsInv
    <3>3. lease'[u][a].worker = lease[u][a].worker
      BY <1>1, <1>3 DEF Complete, IInv, TypeOK, Lease
    <3>4. Promise(u)!Accept
      BY <1>2, <2>1, <2>2, <2>3, <3>1, <3>2, <3>3 DEF Promise!Accept, StatusOf, OwnerOf
    <3> QED BY <3>4 DEF Promise!Next, StepOf
  <2>4. CASE after = "cancelled"
    <3>1. cancelRequested[u]
      BY <2>4, <1>1, <1>3 DEF TaskCompleted, AfterFailure, Statuses, IInv, CompletionsInv
    <3>2. Promise(u)!EndCancelled
      BY <1>2, <2>1, <2>2, <2>4, <3>1 DEF Promise!EndCancelled, StatusOf, OwnerOf
    <3> QED BY <3>2 DEF Promise!Next, StepOf
  <2>5. CASE after \in {"queued", "dead_letter"}
    <3>1. ~cancelRequested[u] /\ after = AfterFailure(u)
      BY <2>5, <1>1, <1>3 DEF TaskCompleted, Statuses
    <3>2. CASE after = "queued"
      <4>a. attempts[u] < MaxAttempts
        BY <3>1, <3>2, RemoteDispatchAssumption DEF AfterFailure, IInv, TypeOK
      <4>1. Promise(u)!Return
        BY <1>2, <2>1, <2>2, <3>1, <3>2, <4>a DEF Promise!Return, StatusOf, OwnerOf
      <4> QED BY <4>1 DEF Promise!Next, StepOf
    <3>3. CASE after = "dead_letter"
      <4>1. Promise(u)!GiveUp
        BY <1>2, <2>1, <2>2, <3>1, <3>3 DEF Promise!GiveUp, StatusOf, OwnerOf
      <4> QED BY <4>1 DEF Promise!Next, StepOf
    <3> QED BY <2>5, <3>2, <3>3
  <2> QED BY <1>1, <2>3, <2>4, <2>5 DEF TaskCompleted, AfterFailure, Statuses
<1>4. CASE u # t
  <2>1. lease'[u] = lease[u]
    BY <1>4, <1>1 DEF Complete, IInv, TypeOK
  <2>2. UNCHANGED Mapped(u)
    BY <1>2, <1>4, <1>1, <2>1 DEF Mapped, StatusOf, OwnerOf, IInv, TypeOK
  <2> QED BY <2>2, Idle
<1> QED BY <1>3, <1>4

LEMMA RClaimTask ==
    ASSUME IInv, NEW w \in Workers, NEW t \in Tasks,
           NEW expiring \in SUBSET LateTasks, NEW dropping \in SUBSET OverdueTasks,
           ClaimTask(w, t, expiring, dropping), NEW u \in Tasks
    PROVE  StepOf(u)
<1>1. CASE u = t
  <2>1. /\ state[t] \in {"queued", "leased"}
        /\ ~cancelRequested[t] /\ attempts[t] < MaxAttempts
    BY <1>1, RemoteDispatchAssumption DEF ClaimTask, Available, TaskSwept, AfterExpiry,
       AfterFailure, IInv, TypeOK,
       QueuedHasBudget, CancellationPrevails, LateTasks, OneOwner, OverdueTasks
  <2>2. attempts[t] + 1 \in Attempts /\ attempts'[t] = attempts[t] + 1
    BY <2>1, RemoteDispatchAssumption DEF IInv, TypeOK, Attempts, ClaimTask
  <2>3. state'[t] = "leased" /\ lease'[t][attempts'[t]].worker = w
    BY <2>2 DEF ClaimTask
  <2>4. Promise(u)!Grant(w)
    BY <1>1, <2>1, <2>2, <2>3 DEF Promise!Grant, StatusOf, OwnerOf, ClaimTask
  <2> QED BY <2>4 DEF Promise!Next, StepOf
<1>2. CASE u # t
  <2>1. state'[u] = TaskSwept(u, expiring, dropping)
    BY <1>2 DEF ClaimTask
  <2>2. \A a \in Attempts : lease'[u][a].worker = lease[u][a].worker
    BY <1>2, SweptWorker DEF ClaimTask, IInv
  <2>3. attempts'[u] = attempts[u] /\ cancelRequested' = cancelRequested /\ marker' = marker
    BY <1>2 DEF ClaimTask, IInv, TypeOK
  <2> QED BY <2>1, <2>2, <2>3, RSwept
<1> QED BY <1>1, <1>2

LEMMA RClaimNothing ==
    ASSUME IInv, NEW w \in Workers,
           NEW expiring \in SUBSET LateTasks, NEW dropping \in SUBSET OverdueTasks,
           ClaimNothing(w, expiring, dropping), NEW u \in Tasks
    PROVE  StepOf(u)
<1>1. state'[u] = TaskSwept(u, expiring, dropping)
  BY DEF ClaimNothing
<1>2. \A a \in Attempts : lease'[u][a].worker = lease[u][a].worker
  BY SweptWorker DEF ClaimNothing, IInv
<1>3. attempts'[u] = attempts[u] /\ cancelRequested' = cancelRequested /\ marker' = marker
  BY DEF ClaimNothing, workerVars
<1> QED BY <1>1, <1>2, <1>3, RSwept

LEMMA RTime ==
    ASSUME IInv, NEW t \in Tasks, NEW u \in Tasks,
           RetryDelayPasses(t) \/ DeadlinePasses(t) \/ \E a \in Attempts : RunOut(t, a)
    PROVE  StepOf(u)
<1>1. UNCHANGED <<state, attempts, cancelRequested, marker>>
  BY DEF RetryDelayPasses, DeadlinePasses, RunOut, workerVars
<1>2. \A b \in Attempts : lease'[u][b].worker = lease[u][b].worker
  <2>1. CASE lease' = lease
    BY <2>1
  <2>2. CASE \E a \in Attempts : RunOut(t, a)
    <3>1. PICK a \in Attempts : RunOut(t, a)
      BY <2>2
    <3> QED BY <3>1 DEF RunOut, IInv, TypeOK, Lease
  <2> QED BY <2>1, <2>2 DEF RetryDelayPasses, DeadlinePasses
<1>3. state[u] \in {"leased", "completed"} => attempts[u] \in Attempts
  BY Numbered
<1> QED BY <1>1, <1>2, <1>3, Idle DEF Mapped, StatusOf, OwnerOf

LEMMA RDisk ==
    ASSUME IInv, UNCHANGED serverVars, NEW u \in Tasks,
           \A v \in Workers : marker'[v][u] = "whole" <=> marker[v][u] = "whole"
    PROVE  StepOf(u)
BY Idle DEF Mapped, StatusOf, OwnerOf, serverVars

LEMMA RWriteMarker ==
    ASSUME IInv, NEW w \in Workers, WriteMarker(w), NEW u \in Tasks
    PROVE  StepOf(u)
<1>1. Task(w) \in Tasks
  BY DEF WriteMarker, IInv, WorkersInv, Jobs, Task
<1>2. CASE u = Task(w)
  <2>1. Promise(u)!Work(w)
    BY <1>1, <1>2 DEF WriteMarker, Executed, Promise!Work, StatusOf, OwnerOf, serverVars,
       IInv, TypeOK
  <2> QED BY <2>1 DEF Promise!Next, StepOf
<1>3. CASE u # Task(w)
  BY <1>1, <1>3, RDisk DEF WriteMarker, Executed, IInv, TypeOK
<1> QED BY <1>2, <1>3

LEMMA RTorn ==
    ASSUME IInv, NEW w \in Workers, MarkerFails(w) \/ Crash(w), NEW u \in Tasks
    PROVE  StepOf(u)
<1>1. Task(w) \in Tasks
  BY DEF MarkerFails, Crash, IInv, WorkersInv, Jobs, Task
<1>2. \A v \in Workers : marker'[v][u] = "whole" <=> marker[v][u] = "whole"
  <2>1. CASE marker' = marker
    BY <2>1
  <2>2. CASE \E torn \in TornMarkers : marker' = [marker EXCEPT ![w][Task(w)] = torn]
    <3>1. PICK torn \in TornMarkers : marker' = [marker EXCEPT ![w][Task(w)] = torn]
      BY <2>2
    <3>2. CASE pc[w] = "mark"
      BY <3>1, <3>2, <1>1 DEF IInv, TypeOK, WorkersInv, TornMarkers
    <3>3. CASE pc[w] # "mark"
      BY <3>3, <2>1 DEF MarkerFails, Crash
    <3> QED BY <3>2, <3>3
  <2> QED BY <2>1, <2>2 DEF MarkerFails, Crash
<1>3. UNCHANGED serverVars
  BY DEF MarkerFails, Executed, Crash
<1> QED BY <1>2, <1>3, RDisk

LEMMA RWorker ==
    ASSUME IInv, NEW w \in Workers, NEW u \in Tasks,
           \/ Reuse(w) \/ CheckoutFails(w) \/ StartChild(w) \/ RenewCancelled(w)
           \/ ChildFails(w) \/ ChildSucceeds(w) \/ Report(w)
           \/ \E t \in Tasks : OrphanEnds(w, t)
    PROVE  StepOf(u)
BY RDisk DEF Reuse, CheckoutFails, StartChild, RenewCancelled, ChildFails, ChildSucceeds,
   Report, OrphanEnds, Executed

LEMMA StepMaps ==
    ASSUME IInv, [Next]_vars, NEW u \in Tasks
    PROVE  StepOf(u)
<1>1. CASE UNCHANGED vars
  <2>1. UNCHANGED <<StatusOf(u), OwnerOf(u), attempts[u], cancelRequested[u],
                    {w \in Workers : marker[w][u] = "whole"}>>
    BY <1>1 DEF vars, serverVars, workerVars, StatusOf, OwnerOf
  <2> QED BY <2>1, Idle DEF Mapped
<1>2. ASSUME NEW t \in Tasks, TaskStep(t)
      PROVE  StepOf(u)
  BY <1>2, RSubmit, RCancel, RTime DEF TaskStep
<1>3. ASSUME NEW w \in Workers, Claim(w)
      PROVE  StepOf(u)
  BY <1>3, RClaimNothing, RClaimTask DEF Claim
<1>4. ASSUME NEW w \in Workers, WorkerStep(w) \/ Crash(w) \/ \E t \in Tasks : OrphanEnds(w, t)
      PROVE  StepOf(u)
  BY <1>4, RWorker, RWriteMarker, RTorn DEF WorkerStep
<1> QED BY <1>1, <1>2, <1>3, <1>4, RComplete DEF Next

LEMMA InitMaps ==
    ASSUME Init
    PROVE  \A t \in Tasks : Promise(t)!Init
BY DEF Init, Promise!Init, StatusOf, OwnerOf

\* The queue of the control plane, with any number of workers, crashes and expired leases,
\* keeps the promise of RemoteTask for every task.
THEOREM Implements == Spec => ImplementsRemoteTask
<1>1. Init => \A t \in Tasks : Promise(t)!Init
  BY InitMaps
<1>2. IInv /\ [Next]_vars => [\A t \in Tasks : [Promise(t)!Next]_(Promise(t)!taskVars)]_vars
  BY StepMaps DEF StepOf
<1> QED BY <1>1, <1>2, InvariantHolds, PTL DEF Spec, ImplementsRemoteTask
=============================================================================
