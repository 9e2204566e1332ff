------------------------- MODULE CandidateSchedule -------------------------
(***************************************************************************)
(* One batch of parallel candidates: CandidateScheduler.execute with its   *)
(* thread pool and its journal candidate_schedule.jsonl, and the part of   *)
(* the controller around it (_run_parallel_strategy), which hands out the  *)
(* attempt ids, commits the results one by one, and starts a new batch     *)
(* when the process died before the first commit.                          *)
(*                                                                         *)
(* A candidate is its attempt id.  A runner ends by itself: the signal     *)
(* that cancels a candidate is looked at before its runner is called, and  *)
(* is not the one the runner watches.  Sequential strategies never come    *)
(* here.  Costs and the other events of the journal are left out.          *)
(***************************************************************************)
EXTENDS Integers, FiniteSets, FiniteSetsExt

CONSTANTS
    N,           \* candidates of a batch, and its attempt budget
    Parallelism, \* maximum_parallelism
    Requirement, \* accepted_candidate_requirement
    Compare,     \* stop_policy is "compare", not "stop_on_sufficient"
    MayGiveUp,   \* may marginal success or cost stop the batch?
    MaxCrashes   \* bound: crashes

ASSUME CandidateAssumption ==
    /\ N \in Nat \ {0} /\ Parallelism \in 1..N /\ Requirement \in 1..N
    /\ Compare \in BOOLEAN /\ MayGiveUp \in BOOLEAN
    /\ ~Compare => Requirement = 1
    /\ MaxCrashes \in Nat

\* Attempt ids: every batch begins with the id of the policy decision, 1.
Candidates == 1..(N + MaxCrashes * (N - 1))

Verdicts == {"verified", "failed", "cancelled"}
Events == {"started"} \cup Verdicts
ThreadStates == {"none", "queued", "counted", "started", "running", "ended", "void"}
PCs == {"recover", "cancel", "loop", "wait", "judge", "decide", "stop", "drain", "ready",
        "commit", "done", "left", "failed"}

VARIABLES
    log,       \* the events of candidate_schedule.jsonl, as <<candidate, event>>
    torn,      \* does the journal end in the middle of a line?
    malformed, \* is there a line that is not JSON, with others after it?
    pc,        \* where execute or the controller is
    plans,     \* the candidates of this batch; all that are left to run are available
    next,      \* those that are not scheduled yet
    pending,   \* those whose future is not dealt with
    batch,     \* those of the loop under way: interrupted ones, or futures that are done
    asked,     \* those that were asked to stop
    thread,    \* what the pool's thread does for each
    started,   \* the count of started candidates in this batch
    observed,  \* the observations, by verdict
    committed, \* attempts that the controller has committed to the run
    invoked,   \* how often the runner was called for each (history)
    crashes

vars == <<log, torn, malformed, pc, plans, next, pending, batch, asked, thread, started,
          observed, committed, invoked, crashes>>

Grades == {"qualifying", "eligible", "rejected"}

TypeOK ==
    /\ log \subseteq Candidates \X Events
    /\ torn \in BOOLEAN /\ malformed \in BOOLEAN
    /\ pc \in PCs
    /\ plans \subseteq Candidates /\ next \subseteq plans
    /\ pending \subseteq plans \ next /\ asked \subseteq pending
    /\ batch \subseteq IF pc = "cancel" THEN Candidates ELSE pending
    /\ thread \in [Candidates -> ThreadStates]
    /\ started \in Nat
    /\ observed \in [Grades -> SUBSET plans]
    /\ committed \subseteq Candidates
    /\ invoked \in [Candidates -> Nat]
    /\ crashes \in 0..MaxCrashes

Idle == [c \in Candidates |-> "none"]
Nothing == [g \in Grades |-> {}]

Init ==
    /\ log = {} /\ torn = FALSE /\ malformed = FALSE
    /\ pc = "recover"
    /\ plans = 1..N /\ next = {} /\ pending = {} /\ batch = {} /\ asked = {}
    /\ thread = Idle /\ started = 0 /\ observed = Nothing
    /\ committed = {} /\ invoked = [c \in Candidates |-> 0]
    /\ crashes = 0
----------------------------------------------------------------------------
Logged(event) == {c \in Candidates : <<c, event>> \in log}
Judged == UNION {Logged(e) : e \in Verdicts}
Observations == observed["qualifying"] \cup observed["eligible"] \cup observed["rejected"]
Eligible == observed["qualifying"] \cup observed["eligible"]

\* append_jsonl_durable under the journal's lock: behind the rest of a line that a crash
\* has left, the new line becomes a part of something that is not JSON.
Append(lines) ==
    /\ log' = IF torn THEN log ELSE log \cup lines
    /\ malformed' = (malformed \/ torn)
    /\ torn' = FALSE

NoAppend == UNCHANGED <<log, torn, malformed>>

\* (Mutation of Interrupted: only a cancelled candidate counts as dealt with.)
NotCancelled == Logged("started") \ Logged("cancelled")

Interrupted == Logged("started") \ Judged

\* _recovered: a journal that cannot be read fails the run; the candidates that were
\* interrupted and those with a verdict are not available.
ReadJournal ==
    /\ pc = "recover"
    /\ IF malformed THEN pc' = "failed" /\ UNCHANGED <<next, batch>>
       ELSE /\ pc' = "cancel"
            /\ batch' = Interrupted /\ next' = plans \ (Judged \cup Interrupted)
    /\ UNCHANGED <<log, torn, malformed, plans, pending, asked, thread, started, observed,
                   committed, invoked, crashes>>

\* Those interrupted are cancelled, one line after the other.
CancelInterrupted ==
    /\ pc = "cancel" /\ batch # {}
    /\ batch' = batch \ {Min(batch)}
    /\ Append({<<Min(batch), "cancelled">>})
    /\ UNCHANGED <<pc, plans, next, pending, asked, thread, started, observed, committed,
                   invoked, crashes>>

\* "scheduling_started"
BeginBatch ==
    /\ pc = "cancel" /\ batch = {}
    /\ Append({})
    /\ pc' = "loop"
    /\ UNCHANGED <<plans, next, pending, batch, asked, thread, started, observed, committed,
                   invoked, crashes>>

\* (Mutation of MaySchedule: those in flight are not counted.)
MayScheduleMore ==
    /\ next # {} /\ Cardinality(pending) < Parallelism
    /\ Compare => Cardinality(Eligible) < Requirement

\* The condition of the inner loop.
MaySchedule ==
    /\ next # {} /\ Cardinality(pending) < Parallelism
    /\ Compare => Cardinality(pending) < Requirement - Cardinality(Eligible)

Schedule ==
    /\ pc = "loop" /\ MaySchedule
    /\ LET c == Min(next)
       IN  /\ next' = next \ {c} /\ pending' = pending \cup {c}
           /\ thread' = [thread EXCEPT ![c] = "queued"]
    /\ Append({})
    /\ UNCHANGED <<pc, plans, batch, asked, started, observed, committed, invoked, crashes>>

\* Nothing more can be scheduled: wait for a future, or leave the outer loop.
EndScheduling ==
    /\ pc = "loop" /\ ~MaySchedule
    /\ pc' = IF pending = {} THEN "ready" ELSE "wait"
    /\ UNCHANGED <<log, torn, malformed, plans, next, pending, batch, asked, thread, started,
                   observed, committed, invoked, crashes>>

\* (Mutation of Ended: a future that was cancelled before it ran does not count as done.)
EndedByItself(c) == thread[c] = "ended"

\* (Mutation of Ended: every future that has left the queue counts as done.)
LeftTheQueue(c) == thread[c] \notin {"none", "queued"}

Ended(c) == thread[c] \in {"ended", "void"}

\* wait(..., FIRST_COMPLETED)
Wait ==
    /\ pc = "wait" /\ \E c \in pending : Ended(c)
    /\ batch' = {c \in pending : Ended(c)}
    /\ pc' = "judge"
    /\ UNCHANGED <<log, torn, malformed, plans, next, pending, asked, thread, started,
                   observed, committed, invoked, crashes>>

\* The first future of the batch: a runner or a verifier that raised makes a failed
\* candidate, otherwise the verifier decides.
Judge ==
    /\ pc = "judge" /\ batch # {}
    /\ LET c == Min(batch)
       IN  /\ batch' = batch \ {c} /\ pending' = pending \ {c}
           /\ \/ /\ observed' = [observed EXCEPT !["rejected"] = @ \cup {c}]
                 /\ Append({<<c, "failed">>})
              \/ /\ \E g \in Grades : observed' = [observed EXCEPT ![g] = @ \cup {c}]
                 /\ Append({<<c, "verified">>})
    /\ UNCHANGED <<pc, plans, next, asked, thread, started, committed, invoked, crashes>>

Sufficient == Cardinality(observed["qualifying"]) >= Requirement

\* adaptive_stop: enough, nothing left of the plans or of the budget, or not worth it.
Exhausted == Cardinality(Observations) >= N \/ started >= N

MustStop == Sufficient \/ Exhausted

Decide ==
    /\ pc = "judge" /\ batch = {}
    /\ \E stop \in {MustStop, MustStop \/ MayGiveUp} :
         IF stop THEN pc' = "stop" /\ next' = {} ELSE pc' = "loop" /\ UNCHANGED next
    /\ UNCHANGED <<log, torn, malformed, plans, pending, batch, asked, thread, started,
                   observed, committed, invoked, crashes>>

\* The signal, future.cancel() and "cancellation_requested".
RequestStop ==
    /\ pc = "stop" /\ pending \ asked # {}
    /\ LET c == Min(pending \ asked)
       IN  /\ asked' = asked \cup {c}
           /\ thread' = IF thread[c] = "queued" THEN [thread EXCEPT ![c] = "void"] ELSE thread
    /\ Append({})
    /\ UNCHANGED <<pc, plans, next, pending, batch, started, observed, committed, invoked, crashes>>

EndStop ==
    /\ pc = "stop" /\ pending \subseteq asked
    /\ pc' = "drain"
    /\ UNCHANGED <<log, torn, malformed, plans, next, pending, batch, asked, thread, started,
                   observed, committed, invoked, crashes>>

\* What still ran is waited for and counts as cancelled, whatever it returned.
Drain ==
    /\ pc = "drain" /\ pending # {} /\ Ended(Min(pending))
    /\ pending' = pending \ {Min(pending)} /\ asked' = asked \ {Min(pending)}
    /\ Append({<<Min(pending), "cancelled">>})
    /\ UNCHANGED <<pc, plans, next, batch, thread, started, observed, committed, invoked, crashes>>

EndDrain ==
    /\ pc = "drain" /\ pending = {}
    /\ pc' = "ready"
    /\ UNCHANGED <<log, torn, malformed, plans, next, pending, batch, asked, thread, started,
                   observed, committed, invoked, crashes>>

\* "selection_ready" and, after the pool's shutdown, "scheduling_completed".
Finish ==
    /\ pc = "ready"
    /\ Append({})
    /\ pc' = "commit"
    /\ UNCHANGED <<plans, next, pending, batch, asked, thread, started, observed, committed,
                   invoked, crashes>>

\* The controller runs the candidates that were not cancelled through _run_attempt.
Commit ==
    /\ pc = "commit"
    /\ IF Observations \subseteq committed THEN pc' = "done" /\ UNCHANGED committed
       ELSE committed' = committed \cup {Min(Observations \ committed)} /\ UNCHANGED pc
    /\ UNCHANGED <<log, torn, malformed, plans, next, pending, batch, asked, thread, started,
                   observed, invoked, crashes>>
----------------------------------------------------------------------------
(* The threads of the pool: invoke *)

Busy == {c \in Candidates : thread[c] \in {"counted", "started", "running"}}

Goto(c, step) == thread' = [thread EXCEPT ![c] = step]

Count(c) ==
    /\ thread[c] = "queued" /\ Cardinality(Busy) < Parallelism
    /\ Goto(c, "counted") /\ started' = started + 1
    /\ UNCHANGED <<log, torn, malformed, pc, plans, next, pending, batch, asked, observed,
                   committed, invoked, crashes>>

\* (Mutation of LogStart: the runner is called before the start is in the journal.)
LogStartLater(c) ==
    /\ thread[c] = "counted"
    /\ Goto(c, "started")
    /\ UNCHANGED <<log, torn, malformed, pc, plans, next, pending, batch, asked, started, observed,
                   committed, invoked, crashes>>

LogStart(c) ==
    /\ thread[c] = "counted"
    /\ Goto(c, "started") /\ Append({<<c, "started">>})
    /\ UNCHANGED <<pc, plans, next, pending, batch, asked, started, observed, committed,
                   invoked, crashes>>

\* generate: a candidate that was asked to stop returns without calling its runner.
Generate(c) ==
    /\ thread[c] = "started"
    /\ IF c \in asked THEN Goto(c, "ended") /\ UNCHANGED invoked
       ELSE Goto(c, "running") /\ invoked' = [invoked EXCEPT ![c] = @ + 1]
    /\ UNCHANGED <<log, torn, malformed, pc, plans, next, pending, batch, asked, started,
                   observed, committed, crashes>>

End(c) ==
    /\ thread[c] = "running"
    /\ Goto(c, "ended")
    /\ UNCHANGED <<log, torn, malformed, pc, plans, next, pending, batch, asked, started,
                   observed, committed, invoked, crashes>>

Thread(c) == Count(c) \/ LogStart(c) \/ Generate(c) \/ End(c)
----------------------------------------------------------------------------
(* A crash, and the resumption of the run *)

\* Steps of the main thread that write to the journal.
Appending == {"cancel", "loop", "judge", "stop", "drain", "ready"}

\* Ids are recovered from the decision (1) and from the directories of attempts whose
\* runner was called; the others of the next batch are fresh.
Allocated == {1} \cup {c \in Candidates : invoked[c] > 0}
Fresh == {c \in Candidates : c > Max(Allocated)}
NextPlans == {1} \cup {c \in Fresh : c <= Max(Allocated) + N - 1}

\* Once an attempt is committed the run goes on sequentially, without the scheduler.
Crash ==
    /\ pc \notin {"done", "left", "failed"} /\ crashes < MaxCrashes
    /\ crashes' = crashes + 1
    /\ torn' \in {torn, torn \/ pc \in Appending \/ \E c \in Candidates : thread[c] = "counted"}
    /\ pc' = IF committed = {} THEN "recover" ELSE "left"
    /\ plans' = NextPlans /\ next' = {} /\ pending' = {} /\ batch' = {} /\ asked' = {}
    /\ thread' = Idle /\ started' = 0 /\ observed' = Nothing
    /\ UNCHANGED <<log, malformed, committed, invoked>>

Main ==
    \/ ReadJournal \/ CancelInterrupted \/ BeginBatch \/ Schedule \/ EndScheduling \/ Wait
    \/ Judge \/ Decide \/ RequestStop \/ EndStop \/ Drain \/ EndDrain \/ Finish \/ Commit

Next == Main \/ (\E c \in Candidates : Thread(c)) \/ Crash

Spec == Init /\ [][Next]_vars

\* The main thread and the pool's threads are scheduled; runners have time limits.
FairSpec == Spec /\ WF_vars(Main) /\ \A c \in Candidates : WF_vars(Thread(c))
----------------------------------------------------------------------------
(* Properties *)

\* However threads, crashes and resumptions interleave, the runner is called at most once
\* for an attempt id (PLANS.md:2049; scheduler.py:89 "never invoke the same candidate
\* identity again").
NeverInvokedTwice == \A c \in Candidates : invoked[c] <= 1

\* The journal has one verdict at most on every candidate, also when recovery cancels
\* what an earlier process has started.
OneVerdict ==
    \A c \in Candidates : \A e, f \in Verdicts :
      <<c, e>> \in log /\ <<c, f>> \in log => e = f

\* Comparing, the candidates in flight and the eligible ones never exceed the number that
\* is wanted (scheduler.py:143), so that no accepted one is paid for in vain.
QuotaIsKept == Compare => Cardinality(pending) + Cardinality(Eligible) <= Requirement

\* What is committed to the run was judged, never cancelled, and its runner was called by
\* the process that commits it.
CommittedIsJudged ==
    \A c \in committed : invoked[c] = 1 /\ c \notin Logged("cancelled")

\* A batch comes to its end, for a fair pool and runners that end.
BatchEnds == <>(pc \in {"done", "left", "failed"})

\* A candidate in flight is cancelled after a sufficient one only (PLANS.md:2046), not
\* because the first results were bad.
CancelledForASufficientOne == ~MayGiveUp /\ asked # {} => Sufficient

\* A candidate that the verifier accepted gets into the run, unless the run fails.
AcceptedIsCommitted ==
    pc = "done" => \A c \in Logged("verified") : c \in committed

\* The runner is not called more often than the budget allows, crashes or not.
BudgetIsKept == Cardinality({c \in Candidates : invoked[c] > 0}) <= N
=============================================================================
