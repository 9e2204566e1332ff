# Villani: a TLA+ verification project

Villani runs coding agents in a closed loop: it classifies a task, asks a policy
what to do, runs an isolated attempt, verifies it independently, selects one
accepted candidate and delivers its patch to a target repository. A run is a
directory of durable files (the *run bundle*) that survives crashes, is resumed or
cancelled by other processes, and is later uploaded to a control plane.

This directory holds TLA+ models of that system, the TLC configurations that check
them, and proofs that TLAPS checks. Paths below are relative to the root of the
repository unless they start with `closed_loop/`, which stands for
`components/villani-ops/villani_ops/closed_loop/`.

    tlc -workers 2 -config ClosedLoop_crashes.cfg ClosedLoopRefinement   # one of the runs
    tlapm ClosedLoopProofs.tla                                           # one of the proofs

`PROJECT.json` maps every definition to the lines it translates, and lists runs,
mutations, findings, hazards and theorems.

Contents: [1 Inventory](#1-inventory) · [2 Plan](#2-plan) ·
[3 Controller](#3-the-controller-closedloop) · [4 Event log](#4-the-event-log-runlog) ·
[5 Delivery](#5-the-delivery-workflow-delivery) ·
[6 Candidates](#6-parallel-candidates-candidateschedule) ·
[7 Synchronization](#7-synchronization-spoolsync) ·
[8 Remote dispatch](#8-remote-dispatch-remotedispatch) ·
[9 Updates](#9-the-update-system-updatesystem) ·
[10 Runs](#10-runs-and-what-they-show) ·
[11 Disagreements](#11-where-code-and-documents-disagree) ·
[12 Proofs](#12-proofs) · [13 Not modelled](#13-what-is-not-modelled)

## 1 Inventory

### Core components

**Closed-loop controller** (`closed_loop/controller.py`, `state_machine.py`,
`protocol.py`).
*State*: the run bundle (`events.jsonl`, `state.json`, `manifest.json`,
`classification.json`, `policy_decisions.jsonl`, `attempts/<id>/attempt.json`,
`verification/<id>.json`, `selection.json`, `materialization.json`) and, in memory,
a `ControllerRuntime` with the eligible candidates.
*Operations*: `run`, `resume`, `cancel`, `approval_action`; each step of `_drive`.
*Interacts with*: policy, runner, verifier, selector and materializer (calls), run
store (durable writes), the process that cancels (an event object and the recovery
lock). *Hard*: a crash between any two writes; a cancellation between any two
steps; recovery from whatever is on disk. *Correct means*: the target repository
holds at most one patch, once, of an accepted candidate; the reported outcome is
true of it; no attempt runs twice; evidence is never rewritten; a terminal run
stays as it is; every run ends.

**Run store and event log** (`closed_loop/durable_io.py`, `run_store.py`,
`event_writer.py`). *State*: the lines of `events.jsonl`, the bytes after the last
line feed, `state.json`, the recovery lock, `_last_sequence` of every process.
*Operations*: durable append, tolerant read, repair, snapshot, lock. *Hard*: several
processes append to one file; a crash leaves a part of a line. *Correct means*: the
log stays readable, sequence numbers increase, the snapshot never refers to an
event that is not in the log, the end is final.

**Policy** (`closed_loop/policy.py`, `stage_budget.py`). *State*: none of its own;
decides from the persisted history. *Hard*: the boundary of the attempt budget, the
one permitted validation retry. *Correct means*: its answers only lead to
transitions that the state machine allows.

**Materialization** (`closed_loop/adapters/patch_materializer.py`,
`villani_ops/materialize.py`). *State*: the target repository. *Hard*: a crash while
git writes, or after it wrote and before the report is durable. *Correct means*:
never twice, and never half taken for whole.

**Delivery workflow** (`closed_loop/delivery_workflow.py`, `delivery/`, and
`approval_action` of the controller). *State*: `delivery.json`, the approvals audit,
the delivery mode. *Operations*: approve, reject, choose another candidate, rerun,
expire. *Hard*: an approval races its deadline; the mode changes by timeout between
two files. *Correct means*: one decision counts; what was only suggested is not
applied.

**Candidate strategies** (`closed_loop/candidate_strategies/`). *State*: a journal,
a pool of threads, accepted and cancelled candidates. *Hard*: acceptance of two
candidates at once, cancellation of losers, restart in the middle of a batch.
*Correct means*: no candidate is started twice; the stop policy is obeyed.

**Local spool** (`components/villani-agentd`: `spool.py`, `uploader.py`).
*State*: SQLite tables of events, artifacts, finalizations and dead letters. *Hard*:
answers are lost and batches resent; a permanent error dead-letters a whole batch.
*Correct means*: nothing is lost or uploaded out of order, and outcomes follow their
events.

**Ingestion and outcome ledger** (`components/villani-control-plane`:
`services/ingestion.py`, `outcome_ledger.py`). *State*: idempotency records, events,
versions of outcomes. *Hard*: duplicated and conflicting deliveries. *Correct means*:
a resend changes nothing, a conflict is refused.

**Remote dispatch** (`services/remote_dispatch.py`, agentd `remote_worker.py`).
*State*: tasks, leases, attempts. *Operations*: submit, claim, renew, complete,
cancel, expiry. *Hard*: a lease expires under a working worker; completions are
repeated. *Correct means*: one owner at a time and one accepted result.

**Update system** (`components/villani/villani_distribution/update_system.py`).
*State*: update lock, journal, installed versions. *Hard*: takeover of a stale lock by
two processes; interruption of an activation. *Correct means*: one updater; either
the old or the new version is active.

### Other components

| component | why it comes later or not at all |
|---|---|
| agentd service, console, lifecycle | HTTP and process plumbing; a cancellation from the console is part of `RunLog` |
| CLI supervision of agents (`cli_runtime/supervisor.py`) | asynchronous process control; a candidate for a later module |
| guarded and shadow routing | staged promotion of policies; a candidate for a later module |
| verification graph, probes, adaptive verification | planning of what a verification does; its outcome is a free choice of `ClosedLoop` |
| qualification, economics, offline evaluation | numeric analysis of recorded runs, no concurrent state |
| run presentation | renders what the log already holds; the event sink is part of `SpoolSync` |
| legacy orchestration of villani-ops | the engine the closed loop replaced |
| isolation, execution environments | file system and containers around an attempt |
| control-plane API, governance, fleet | request handlers over single transactions |
| villani-code agent | runs inside an attempt; its result is a free choice |
| TypeScript viewers, deployment, schemas, docs | no protocol state |

`PROJECT.json` lists every component with its sources and status, and under
`hazards` the places of the code that are hard to test.

## 2 Plan

The order is that of consequence: first what may damage the user's repository or
lose a run, then what may lose its record, then what may leave the user without a
working installation.

| # | module | models | composes or refines | state |
|---|---|---|---|---|
| 1 | `ControllerStates` | the transition table | | done |
| 2 | `ClosedLoop` | `run`, `resume`, `cancel` with crashes | `ControllerStates` | done |
| 3 | `ClosedLoopInvariant` | its inductive invariant | `ClosedLoop` | done |
| 4 | `RunLifecycle` | what a run promises (abstract) | | done |
| 5 | `ClosedLoopRefinement` | `ClosedLoop` implements `RunLifecycle` | both | done |
| 6 | `RunLog` | the event log and its writers | | done |
| 7 | `ClosedLoopProofs` | invariant, safety and action properties, the refinement of row 5 | `ClosedLoopRefinement` | done |
| 8 | `Delivery` | approval, deadline, timeout policy, materializers | `ControllerStates` | done |
| 9 | `DeliveryProofs` | types, one application, approvals | `Delivery` | done |
| 10 | `CandidateSchedule` | thread pool, journal, stop policies, the controller around a batch | | done |
| 11 | `CandidateScheduleProofs` | its safety properties | `CandidateSchedule` | done |
| 12 | `RemoteTask` | what dispatch promises of one task (abstract) | | done |
| 13 | `RemoteDispatch` | leases, several workers, lost answers | implements `RemoteTask` | done |
| 14 | `RemoteDispatchProofs` | invariant, ownership, refinement | `RemoteDispatch`, `RemoteTask` | done |
| 15 | `SpoolSync` | bundle, spool, uploader, ingestion and ledger as one protocol | | done |
| 16 | `SpoolSyncProofs` | nothing lost, outcomes last | `SpoolSync` | done |
| 17 | `AtomicInstallation` | what an update promises (abstract) | | done |
| 18 | `UpdateSystem` | lock takeover, journal, recovery, rollback | implements `AtomicInstallation` | done |
| 19 | `RunLogProofs` | the properties of the log under their side conditions | `RunLog` | done |
| 20 | `UpdateSystemProofs` | the lock, and that an installation stays | `UpdateSystem` | done |
| 21 | `UpdateRefinementProofs` | which builds are where, and the refinement of row 17 | `UpdateSystemProofs` | done |
| 22 | guarded routing, CLI supervisor | promotion of policies; process control | | later |

Every safety and action property and every refinement of a passing run is a theorem.
Liveness stays with TLC.

Modules are written to be proved about: parameters are CONSTANTS with a named
assumption, every operation is one action, invariants are conjunctions of named
parts, and there is no RECURSIVE operator.

## 3 The controller (`ClosedLoop`)

### State

The variables fall into what survives a crash and what does not.

| variable | code |
|---|---|
| `log` | state after the last transition event of `events.jsonl` |
| `snap` | the state in `state.json`; `manifest.json` is written with it |
| `classification`, `selection`, `materialization` | the files of these names |
| `decision` | the last line of `policy_decisions.jsonl`, and whether its `policy_selected` event is in the log |
| `allocated` | the highest attempt id any decision carries (`_next_attempt_id`) |
| `started`, `recorded`, `verdict` | `attempt_started` events, `attempt.json`, `verification/<id>.json` |
| `applied`, `torn` | the target repository: how often each patch was applied, and whether git left a part of one |
| `pc`, `session`, `eligible`, `then`, `cancelRequested` | the process: next step, started by `run` or `resume`, `eligible_candidate_ids`, where a verification returns to, the cancellation event |

### Actions

Every durable write is one action. A transition is the pair "append the event,
rewrite the snapshots", and `Emit` lets the process die in between, so that `snap`
may be one transition behind `log`; `Crash` lets it die between any other two steps.
`resume` is `Resume` (rebuild the memory from the bundle and choose a branch of
`_reconcile_and_continue`, `RecoveryStep`) followed by the ordinary steps, or by
the few that only recovery has: `RestartClassification`, `RerecordPolicy`,
`ReusePolicy`, `RecordInterrupted`, `Recheck`, `InspectTarget`,
`UnsupportedRecovery`. `cancel` is `CancelPersisted`; a cancellation of a living run
is `RequestCancel`, seen where the code calls `_cancel_if_requested`.

The answers of the policy, the runner, the verifier, the selector and the
materializer are free choices within what the surrounding code enforces: `MayDecide`
follows the order of the policy's rules, with budgets and routing left open;
`Possible` is what `_normalize_verification` lets through; `Select` takes any
eligible candidate. A contract violation or an exception of theirs is `Fail`, the
handler of `run` and `resume`. An exception that meets a pending cancellation is
cancelled by that handler; this is the same as `RequestCancel` with the next check.

### What it promises (`RunLifecycle`, `ClosedLoopRefinement`)

`RunLifecycle` has four actions: a candidate is accepted, one accepted candidate is
delivered, the target is damaged by a dying git, the run is closed with an outcome
that is true of the target. `ClosedLoopRefinement` maps the controller to it: a
candidate is accepted when its verification file is on disk, delivered when git has
applied its patch, and the run is closed when its terminal event is in the log. The
mapping shows what the promises rest on: on files and not on the events about them,
which a crash may lose.

### Properties

`AppliedOnce`, `CompletedMeansApplied`, `StoppedMeansUntouched` relate the reported
outcome and the evidence to the target; `EligibleIsDurable` and
`ExhaustedMeansNothingAccepted` relate memory to the bundle, in both directions;
`NeverRunTwice`, `EvidenceIsFinal` and `TerminalIsFinal` say what no step may do;
`RunEnds` says that every run ends and that its snapshot says so.

*Fairness.* `RunEnds` assumes `WF_vars(ControllerStep)`: the process keeps going
until it crashes, which is what a sequential program does; and
`WF_vars(Resume \/ ResumeTerminal)`: somebody runs `villani resume` on an interrupted
run. Crashes and cancellations are not fair. Calls of agents return, because the
runners enforce their own timeouts.

## 4 The event log (`RunLog`)

The model looks at one file and the processes that append to it. `lines` are the
complete lines, `tail` is what follows the last line feed. A process keeps its own
`last` sequence number, as `RunStore` does. `run` takes no lock; `resume` and `cancel`
take the recovery lock, read the log tolerantly (`Loadable` is
`read_jsonl_tolerant` with `validate_event_stream` and the comparison with
`state.json`), and go on from the last event. Only `resume` repairs, and only a
final line that is no JSON object. An exception sends `run` and `resume` to their
handlers, which append too, and `resume`'s handler runs after the lock was released
(`Raise`). A process may append several events that its runner reports before
`state.json` follows them (`Follows`, `_emit_runtime_events`).

The terminal event is not the last thing that is written. `run` and `resume` remove the
worktrees of the run after they have ended it (controller.py:3332, 3378, 3500), and each
removal is an event of its own, `attempt_worktree_removed` or `attempt_cleanup_failed`
(`_cleanup_attempt_worktree`), after which `state.json` is written again: `AfterEvent`
turns whoever has written the end into a process that cleans up, and `GoesOn` lets it
write such events until it stops. `cancel` removes worktrees before its end, and stops
with it.

A crash in an append leaves nothing, a fragment, or the whole object without its
line feed (`Leftovers`); appending to a dirty tail makes one malformed line of both,
or a line that reads as an open object (`Written`).

`Readable`: what the tolerant reader accepts at any time, so that earlier events are
never lost. `SequencesIncrease`: no number is reused, whoever wrote. `SnapshotCommitted`:
`state.json` refers to an event of the log. `EndIsFinal`: nobody goes on with a run that
has ended or ends it again; only removals of worktrees and notes of recovery follow the
terminal event, although `state.json` may not say yet that the run is over.

`Physical` are the lines of the file, with a tail that only lacks its line feed as the
last of them. The events a reader gets are given by their places among these (`Events`,
the latest is `LastEvent`). `validate_event_stream` compares neighbours of the sequence
it reads; `Increasing` and `EndIsFinal` say the same of any two places.

The properties need conditions that the code does not enforce, and `RunLogProofs` names
them. `SingleWriter`: `run` is dead before recovery starts, and no second process recovers
while the handler of a failed `resume` writes without the lock (case 4 of section 11 is
what happens otherwise). `Repaired`: besides, what a crash leaves is a fragment, and whoever goes on
is `resume`, since `cancel` does not repair (case 3).

## 5 The delivery workflow (`Delivery`)

The module starts where `ClosedLoop` leaves `SELECTING`, when the run was configured
with the delivery workflow (the command line always does that), and ends with the run.

| variable | code |
|---|---|
| `log`, `selection`, `delivery`, `materialization` | the last transition of `events.jsonl` and the files of these names; of `delivery.json` the candidate, mode, state, approval status, authority and deadline |
| `records`, `audit` | `approval-records/*.json` and `approval-audit.jsonl` |
| `receipts` | `delivery/<hash of the idempotency key>.json`, the commit marker of a delivery |
| `manifest`, `config` | the policy configuration on disk and in the process: delivery mode, whether an approval policy is set, the approval records the guard looks at |
| `applied`, `torn` | the target repository, as in `ClosedLoop` |
| `pc`, `action`, `authenticated`, `candidate` | the process and the request it carries out |
| `requested`, `now`, `crashes` | the settings of the user, the deadlines that have passed, crashes so far |

*The two copies of the configuration* are the heart of the module. `_transition`
appends the event, then writes `state.json` and `manifest.json`; an approval and the
fallback to "suggest" change the configuration in memory and become durable with the
*next* transition. `Transition` therefore has a second outcome, the crash between the
event and the manifest. A process that takes over loads `manifest` into `config`.

| actions | code |
|---|---|
| `RecordDelivery`, `AwaitApproval`, `Pause`, `RefuseDelivery`, `DeliverNow` | `_continue_delivery_workflow` with `_new_delivery_record` and `_await_delivery_approval` |
| `StartMaterialization` | the first transition of `_materialize_delivery_workflow` |
| `GuardDelivery` | `ApprovalGuardedMaterializer` with `approval_requirements` and `validate_approval` |
| `ReplayReceipt`, `DeliverPatch`, `DeliveryError`, `WriteReceipt` | `DeliveryMaterializerAdapter` |
| `ReportApplied` | `PatchMaterializerAdapter`, which reports before the receipt |
| `PersistMaterialization`, `FinishDelivery`, `EndRun` | `_persist_materialization`, `_finish_delivery_materialization`, and the failure branches beside them |
| `Approve`, `Decline`, `ChooseCandidate`, `DenyAction` | `approval_action` up to its branches |
| `RecordDecision`, `ApproveDelivery`, `AuditApproval`, `AuditDecline`, `DeclineDelivery` | `_approve_delivery`, `_decline_delivery`: one durable write each, in the order of the code, which differs between the two |
| `ChangeSelection`, `ReplaceDelivery`, `AuditChange` | `_change_approval_candidate` |
| `AuditTimeout`, `TimeOut` | `_resume_awaiting_approval` |
| `Resume`, `ResumeMaterialization`, `Cancel` | `resume`, `_resume_materialization`, `cancel` |
| `Crash`, `Tick` | the process dies, git perhaps half way; a deadline passes |

Requests that the code refuses without writing anything (a run that is not waiting, a
candidate that may not be chosen) are not actions. Deadlines are numbered in the order
in which they pass; an approval record expires at the deadline of its delivery. An
approval policy that is configured from the start (`Guarded`) has a rule for
`local_patch_apply`; where none is configured, `_approval_record` adds one to the
configuration in memory.

`Trusted` (in `DeliveryProofs`) is when the report of a run can be believed: an approval
policy is configured from the start, or neither the candidate nor the mode changes while
the run waits. Otherwise the process that takes over falls back to a manifest from before
the change: with the constants of `Delivery_timeout` a run that reports "suggested" has
applied its patch, and with those of `Delivery_choice` `ReportMatchesTarget` fails too,
since the record is about another candidate than the one applied.

*Fairness*: a living process goes on, deadlines pass, and somebody resumes a run that
was interrupted or whose deadline has passed. Nobody has to approve anything.

## 6 Parallel candidates (`CandidateSchedule`)

One batch of `CandidateScheduler.execute` with its thread pool, its journal, and the
part of the controller around it (`_run_parallel_strategy`), which hands out the
attempt ids before and commits the results after it. Sequential strategies do not use
the scheduler.

| variable | code |
|---|---|
| `log`, `torn`, `malformed` | `candidate_schedule.jsonl`: the candidates' events, a line cut off at the end, a line that is no JSON with others behind it |
| `pc`, `plans`, `next`, `pending`, `batch`, `asked`, `started`, `observed` | the main thread: its step, the plans, what is not scheduled yet, the futures, those that are done, those asked to stop, the counters and observations of `adaptive_stop` |
| `thread` | `invoke` in the pool: queued, counted, start journalled, runner called, ended; or cancelled while queued |
| `committed` | attempts that `_run_attempt` has taken over into the run |
| `invoked`, `crashes` | history: calls of the runner for each id; crashes |

| actions | code |
|---|---|
| `ReadJournal`, `CancelInterrupted`, `BeginBatch` | `_recovered` and the loop that cancels what an earlier process has started |
| `Schedule`, `EndScheduling`, `Wait`, `Judge`, `Decide` | the loops of `execute`: submit, wait for the first future, verify, `adaptive_stop` |
| `RequestStop`, `EndStop`, `Drain`, `EndDrain`, `Finish` | stopping: signal and `future.cancel()`, then waiting for what still runs |
| `Count`, `LogStart`, `Generate`, `End` | `invoke` in a thread of the pool |
| `Commit`, `Crash` | the controller; the process dies, a line of the journal perhaps half way |

A crash before the first commit starts another batch: its ids are that of the policy
decision and, for the others, fresh ones behind the directories on disk (`NextPlans`).
After the first commit the run goes on sequentially.

*Properties.* `NeverInvokedTwice`: the runner is called at most once for an id, which
rests on the order "journal, then call" and on what `ReadJournal` makes of a start
without an end. `OneVerdict`: the recovery cancels nothing that was judged.
`QuotaIsKept`: in a comparison no more are in flight than are still wanted.
`CommittedIsJudged`: what enters the run was run once and never cancelled. `BatchEnds`.

*Fairness*: the main thread and every thread of the pool are scheduled, and a runner
ends, since the runners have time limits.

## 7 Synchronization (`SpoolSync`)

The way of a run's events, outcome and metadata from the bundle through agentd's spool
to the control plane, as one protocol of five parties: the run's process (with its
event sink), the importer and upload worker of the daemon, a `sync-once` beside it, the
server, and the network between them.

| variable | code |
|---|---|
| `written`, `closed` | the run bundle: events in `events.jsonl`, runs with terminal `state.json` and `manifest.json` |
| `delivered`, `sunk` | `event_sink.py`: the last event handed over, runs finalized by their process |
| `upload`, `waiting` | `upload_state` of every row of the SQLite tables (an acknowledged event is deleted), rows whose `next_retry_at` is in the future |
| `finalizer`, `imported` | who wrote `final_payload_json`; `local_run_imports` |
| `pc`, `todo`, `current`, `ended`, `stage`, `queue`, `batch`, `verdict` | a syncer: `LocalRunImporter.run_once`, then `SynchronizationWorker.sync_once` |
| `stored`, `batches`, `commitment`, `policy` | the server: events and outcomes with the policy under which they were stored, `IngestBatch`, `RunCommitment`, the policy in force |
| `late` | requests that may be served after their sender has given up |

| actions | code |
|---|---|
| `WriteEvent`, `Close`, `SubmitEvent`, `SinkFinalize` | the run's process and its sink |
| `Begin`, `ImportRun`, `Ingest`, `Register`, `Finalize`, `RecordImport` | `_import_one`: one transaction of the spool each |
| `SelectEvents`, `Proceed` | `pending_events`, `pending_finalizations`, `pending_artifacts` |
| `Answered`, `Unanswered`, `ServeLate` | a request, its verdict and the server's transaction (`Serve`); no answer; the request is served later |
| `Settle` | `acknowledge_*`, `retry_*`, `dead_letter_*` |
| `RetryDelayPasses`, `ChangePolicy`, `Crash` | time, an administrator, the death of a syncer between any two statements |

The rows of a run are its events up to the terminal one (`Length`), one outcome and one
artifact; the removals of worktrees that may follow the terminal event are left out
(section 13). `Differing` are the
runs whose outcome the process and the importer see differently, `Refused` the events
that the server refuses for what they are.

*Properties.* `NothingLost`: a row is deleted or acknowledged only when the server has
the item, whoever else worked on the same rows. `OutcomeAfterEvents` and
`SynchronizedIsStored`: what the outcome and the console claim is true of the server.
`GivenUpForACause`: an event becomes a dead letter only with a batch in which one is
refused for what it is, or is stored under a policy that is no longer in force; never
because an answer was lost, a syncer died or two of them sent the same rows in different
batches. (That an event which is *stored* is not given up, `StoredIsNotGivenUp`, is false:
case 13 of section 11.) `SettledIsFinal`. `EveryRunArrives`: no run that ended is stuck in
silence.

*Fairness*: runs go on writing, delays pass, and the daemon's loop does not stop; that
the network fails a bounded number of times is `MaxFailures`.

## 8 Remote dispatch (`RemoteDispatch`)

The queue of the control plane and the workers that pull from it.

| variable | code |
|---|---|
| `state`, `attempts`, `cancelRequested`, `finishedBy` | columns of `models.RemoteTask`; of the completion only whose it is |
| `eligible`, `overdue` | whether `eligible_at` and the deadline have passed |
| `lease` | `models.TaskLease` by task and attempt number, and whether `expires_at` has passed |
| `completions` | completion requests that the server may still, or again, receive |
| `pc`, `job`, `result` | `RemoteExecutionWorker.run_once` |
| `marker`, `orphans` | on the worker's disk and in its process table: completion markers, children that outlived their agentd |

`Claim` is the whole request: both sweeps (`_expire_leases`, `_expire_deadlines`) on
those rows that no other transaction has locked, then the choice of a task, and an
answer that may get lost. `Complete` has the guards of `complete`, in their order.
`Reuse`, `CheckoutFails`, `StartChild`, `RenewCancelled`, `ChildFails`, `ChildSucceeds`,
`WriteMarker`, `MarkerFails` and `Report` are the branches of `_execute_task` and
`_run_child`; `Crash` leaves the child alive (it has a session of its own) and may tear
the marker. `RunOut`, `RetryDelayPasses` and `DeadlinePasses` are time: flags that only
go up, so that no order of two moments is excluded.

`RemoteTask` is what all this promises of one task: one owner at a time, a bounded
number of grants, a result only from the owner and only for work that was really done,
a cancellation that prevails, a final end. The mapping reads the owner off the newest
lease and "done" off the completion markers on the workers' disks.

*Fairness*: workers poll and go on, delays and deadlines pass, and a lease runs out
unless a running child renews it. Nobody has to cancel; answers may always get lost.
`EveryTaskEnds` then says that a submitted task ends if some worker can serve it or if
it has a deadline.

## 9 The update system (`UpdateSystem`)

Several processes run `villani update status`, `check`, `channel`, `install` and
`rollback` under one home. Every step is one access to the file system, and a process of
`Mortal` may be killed, once, before a step of `Interruptible`.

| variable | code |
|---|---|
| `at` | which build is in `current` and in the directories of each transaction (staged, previous, failed, interrupted, forward) |
| `journal` | `transaction.json` of every transaction: phase, and whether a previous installation was saved |
| `known` | `previous_installation` of `update-state.json` |
| `lock` | `update.lock`: who created it, and whether the name is in it yet |
| `verified` | history: builds that have passed startup and doctor |
| `pc`, `my` | where a process is, and its local variables |

`CreateLock` ... `ReleaseLock` are `_acquire_update_lock` and its release; `ReadJournal`
... `ReportRecovery` are the loop of `recover_interrupted_update`, which `status`, `check`
and `channel` run *without* the lock; `Stage` ... `Finish` are `_install_artifact`,
`ChoosePrevious` ... `ReportRollback` are `_rollback`, which has no journal; `WriteNote` is
the write of `update-state.json` by `check` and `channel`. An `os.replace` works if
its source is there and its target is not (`Movable`); otherwise it is an error, with
the handler of the code around it.

`AtomicInstallation` is the promise: a build is verified beside the active one, and the
switch to a verified build is one step. In the mapping the active build is
`Effective`: while a journal is unfinished, or a rollback under way, it is the one that
an undo would bring back; the switch happens when the journal is finished.

Two conditions say how far the code goes, both in `UpdateSystemProofs`.

- `Uncontended`, for the exclusion: there are two processes, or no kill hits a process
  that holds the lock. With three, one may die with the lock and the others remove each
  other's (`UpdateSystem_takeover`).
- `Undoable`, for the installation: no move fails that could work
  (`UpdateSystem_activation`); and either kills spare whoever holds the lock, or there are
  two processes (`UpdateSystem_readers` and `UpdateSystem_recovery` have three), a process
  that may be killed is the only one to roll back, since a rollback recovers nothing
  first, and no kill meets a rollback or the end of a refused installation
  (`UpdateSystem_undo`). Nothing is asked of the number of transactions and commands.

The bounds of `UpdateSystem_switch` meet both, and start with an installation, which the
refinement needs: `AtomicInstallation` begins with one.

*Fairness*: a command that has begun goes on (weak), and somebody asks for the status
again and again (strong, since the user may always prefer another command).

## 10 Runs and what they show

Deadlock checking is off everywhere because these systems really stop: a run ends, a
batch is committed, everything is synchronized, the bounds are reached.

| run | bounds | shows |
|---|---|---|
| `ClosedLoop_crashes` | 3 attempts, 2 candidates wanted, changes required, adaptive stop, 2 crashes; fair | safety and action properties, `RunEnds`, and the refinement of `RunLifecycle` (110 thousand states) |
| `RunLog_repaired` | 1 recoverer that resumes, 1 crash leaving a fragment, 5 events | the four properties of the log, where the repair works (15 thousand) |
| `RunLog_interrupted` | resume and cancel, 3 crashes, both leftovers | sequence numbers increase whatever crashes leave, as long as `run` is dead before recovery starts (561 thousand) |
| `Delivery_approve` | 2 candidates, one of them without a patch, all modes, policies "reject" and "fail", authenticated approvals, no configured approval policy, 2 crashes; fair | `AppliedOnce`, `ReportMatchesTarget`, `DeliveryEnds` (15 thousand) |
| `Delivery_guarded` | 3 candidates, change of candidate allowed, policy "suggest", configured approval policy, 2 crashes | `AppliedIsApproved` and `DeclinedLeavesTargetAlone` (3.4 million) |
| `CandidateSchedule_batch` | 3 candidates, 2 at a time, 2 wanted, comparison, 2 crashes that may tear the journal; fair | the four safety properties and `BatchEnds` (2.6 million) |
| `SpoolSync_pair` | 1 run of 2 events that ends, daemon and `sync-once`, 2 policies, 1 crash | `OutcomeAfterEvents`, `SynchronizedIsStored`, `NothingLost`, `GivenUpForACause` (700 thousand) |
| `SpoolSync_process` | 2 runs, one with a connected process, room for one event, 1 lost answer; fair | `SettledIsFinal`, `EveryRunArrives` (210 thousand) |
| `RemoteDispatch_ends` | 1 task with a deadline and a retry delay, 2 workers, 3 attempts, 2 crashes; fair | `OneOwner`, `ResultIsReal`, `EveryTaskEnds`, and the refinement of `RemoteTask` (117 thousand) |
| `UpdateSystem_switch` | 2 processes, one killed once before a forward step of an installation or before its undoing begins, 3 transactions; fair | `ActiveIsVerified`, `InstallationSurvives`, `InterruptedUpdatesEnd`, and the refinement of `AtomicInstallation` (411 thousand) |
| `ClosedLoop_exhaust_collecting` | 2 attempts, no crash | a disagreement, section 11 |
| `CandidateSchedule_cancelled` | 2 candidates at once, 1 wanted, no crash | a disagreement, section 11 |

The type invariants are checked in one of the runs of each module, or proved and checked
beside the inductive invariant by three more configurations, which have no line of their
own because the proofs and the refinements imply what they check:
`ClosedLoop_proved` (with `ClosedLoopInvariant`), `RemoteDispatch_proved` and
`UpdateSystem_proved` (with `UpdateRefinementProofs`).

*Why the bounds are enough.* Three attempts with two candidates wanted give a retry
after a rejection, an escalation, an exhausted budget, an accepted candidate that waits
while others run, and the boundary between collecting and exhausting. Two crashes give a
crash in the recovery from a crash, which is where a recovery that is not idempotent
shows. The bundle is all that recovery sees, so that a third crash starts from a bundle
that two have already produced; the proofs do not depend on the bound at all. In `RunLog`
three crashes give a leftover on top of a leftover, and two recoverers one that overtakes
the other. `MaxSteps` bounds ordinary events only, never the terminal one or a note. In
`Delivery` two crashes suffice to interrupt a change of candidate and then the approval
that follows it, and three candidates include one that cannot be delivered and two that
can be exchanged for each other. In `CandidateSchedule` three candidates for two places
leave one to schedule after the first result, and two crashes give the malformed journal
(a torn line with another one behind it). In `SpoolSync` one run of two events with two
syncers is enough for two readers of the same rows to settle them differently; what two
runs add is the order of scopes and the room in the spool. The proofs hold for any
number. In `RemoteDispatch` two workers and three attempts give an attempt that is late
while the next is under way and one that meets the last of the budget; tasks only
interact through the capacity of a worker. The task of `RemoteDispatch_ends` has a
deadline, so that `EveryTaskEnds` says nothing of leases that would have to carry the
progress alone. In `UpdateSystem` two installations and a
rollback suffice for each to find what the others have left; which steps may be
interrupted is the subject of section 11.

Every property of a passing run has a mutation in `PROJECT.json`: a definition of the
model changed as a plausible bug would change the code (the table not consulted, the
target not inspected, a retry under the old id, a late completion taken, a start
journalled after the call, rows deleted whatever the answer, ...), which TLC then finds
out. The mutated forms stand next to the definitions they replace, marked "Mutation of".

## 11 Where code and documents disagree

Each item has a configuration of its own, with a counterexample that is a run of the
program. Two of them are runs of `PROJECT.json` (1 and 7); the others are here to be run
by hand, with the module named before the underscore.

**Controller and log**

1. `ClosedLoop_exhaust_collecting`. Two accepted candidates are wanted, the first is
   accepted, the second rejected, the budget is spent. `_drive` wants to select the
   first, but `_transition_to_selecting` starts from `POLICY_SELECTED` or `VERIFIED`
   only and the log is in `REJECTED`: it raises and the run is `FAILED`.
   `docs/CLOSED_LOOP.md` (invariant 12) lets a spent budget end in `EXHAUSTED`. A
   second trace to the same property: a crash between the report of a rejecting
   verification and its rejection leaves `VERIFIED`; if recovery then finds the budget
   spent, `EXHAUSTED` is no transition from there and the run is `FAILED` as well.
2. `ClosedLoop_resume`. A crash between `escalation_selected` and `policy_selected`
   leaves `ESCALATING`, for which recovery has no branch; the documented
   `villani resume` fails the run. A second trace to the same property: the retry of a
   repository validation keeps its attempt's id, and after a crash in
   `POLICY_SELECTED` recovery takes the `attempt_started` event of that id for a
   violation and fails the run.
3. `RunLog_cancel_fragment`. `cancel` appends to a truncated line without repairing it.
   So does `resume` when the run is over in the log (its notes are written before any
   repair). With `Leftovers` set to whole objects the same property fails for another
   reason: an event that lacks only its line feed counts as complete, is not repaired,
   and the next event lands on its line.
4. `RunLog_unlocked_handler`. `resume` reports a failed recovery after it has released
   the lock, while another recovery may be at work and continues the same numbering.
   With `Overlap` the numbering also breaks without a failure: `run` holds no lock, so
   `cancel` may interleave with it.

**Delivery**

5. `Delivery_timeout`. The approval times out with policy "suggest". The mode changes
   in memory and in `delivery.json`; the process dies between `materialization_started`
   and `manifest.json`. `resume` takes the configuration from the manifest, which still
   says `local_patch_apply` and holds no approval policy: the patch is applied, and
   `delivery.json` reports it as suggested.
6. `Delivery_choice`. A change of candidate is interrupted after `selection.json` and
   before `delivery.json`. The approval that follows is recorded for the old candidate.
   The process dies again between `materialization_started` and `manifest.json`, which
   loses the approval policy and its record; `resume` applies the candidate of
   `selection.json`, which nobody has approved.

**Candidates**

7. `CandidateSchedule_cancelled`. `adaptive_stop` gets the budget less the candidates
   that have *started* (`planner.py:206`). As soon as all have, nothing remains, and the
   first results, rejected as they may be, stop the batch: those in flight are thrown
   away whatever they return, and the run can end `EXHAUSTED`. `PLANS.md:2046` has
   stop-on-sufficient cancel "after the first confidence/evidence-qualified eligible
   result".
8. `CandidateSchedule_lost`. A crash between a candidate's verdict and its commit: the
   batch of the resumed run skips whatever has a verdict, so that an accepted candidate
   is neither run again nor committed.
9. `CandidateSchedule_budget`. Each crash hands out fresh ids for the rest of the batch;
   the runner is called more often than `max_attempts`.

**Synchronization**

10. `SpoolSync_starves`. A run that never ended (its process was killed and nobody
    resumed it) is imported again in every cycle, because only ended runs are recorded;
    with at least `batch_size` events it fills the one batch of every cycle
    (`spool.py:720` orders by scope), and later runs are never sent. `PLANS.md:1753`
    promises that "offline events synchronize after reconnection in causal order within
    each sequence scope".
11. `SpoolSync_overtaken`. A batch waits for its retry while the next batch of the same
    run is sent (`uploader.py:169`), against the same sentence.
12. `SpoolSync_commitment`. The commitment of a run is computed when its terminal event
    is new, over the events that have arrived by then (`ingestion.py:695`), and never
    again (`PLANS.md:2309`: "Finalized run event payload hashes receive a Merkle root").
13. `SpoolSync_policy`. Digests are compared after the governance policy in force has
    been applied (`ingestion.py:452`): if it changed between a delivery whose answer was
    lost and its repetition, equal content is a conflict, and the stored batch becomes
    dead letters (`PLANS.md:1680` calls such replays duplicates). `GivenUpForACause` is
    what remains true.
14. `SpoolSync_early_outcome`. A process that could not hand over its last events
    finalizes the run all the same (`event_sink.py:161`); the spool holds an outcome
    back only for events that are in it.

**Remote dispatch**

15. `RemoteDispatch_overlap`. Only `_run_child` renews the lease (`remote_worker.py:343`);
    the checkout before it does not, and nothing looks at the lease between the two. It
    runs out, another worker gets the task, and both run a child. A comment of the
    worker (`remote_worker.py:311`) wants to avoid just this: "Continuing after
    lease-renewal failure could overlap a reassigned task." With `MaxCrashes` above 0
    the child that outlives its agentd is another way.

**Updates**

16. `UpdateSystem_undo`. A build fails its verification and the old one is moved back
    before the journal says `rolled_back`. A crash in between leaves "verifying" with
    the good installation in `current`: the next `status` moves it to the failures
    (`docs/SELF_SERVICE.md:115`: "restored fail closed"). `UpdateSystem_recovery` is the
    same gap in the recovery itself, which is not idempotent: killed after it has put
    the previous installation back, it leaves a journal by which the next one takes it
    away again.
17. `UpdateSystem_activation`. No crash at all: `os.replace(staged, current)` fails, the
    handler puts the previous installation back and leaves the journal at
    "previous_saved" (`update_system.py:806`); the next command undoes the undone.
18. `UpdateSystem_takeover`. Two processes find the same stale lock. The slower one
    removes the lock that the faster one has created meanwhile (`update_system.py:164`),
    and both install: `OneInstaller` fails with three processes, one of them killed. With
    two, the takeover leaves only one alive, so that no passing run lists the property;
    `LockExcludes` in section 12 proves it for `Uncontended` locks.
19. `UpdateSystem_readers`. `status` recovers without the lock; two of them work on one
    journal, and the second moves away what the first has put back.
20. `UpdateSystem_first`. The very first installation is killed between the switch and
    "activated": the journal says "prepared", and the unverified build stays active.

`Delivery_guarded` shows that 5 and 6 need a configuration without `approval_policy`:
where one is configured the guard refuses in both cases and the run fails with the
target untouched, and `ApprovalsAreExplicit` (section 12) proves it. The price, not
counted as a disagreement, is that an approval interrupted before `manifest.json` cannot
be resumed there.

Further observations, which the models contain or their comments mention and no
configuration is about. An approval that was recorded, but interrupted before
`MATERIALIZING`, is overridden by the deadline; the approval status that
`choose_candidate` carries over may be that of an interrupted approval of the old
candidate. `run` may return in `CREATED`: it finds its configuration invalid where
`FAILED` is no transition, and swallows the exception. The signals in the controller's
`cancellation_events` are set by nobody, so that a running candidate is never told to
stop; a torn line of the candidates' journal is never repaired, and a second crash makes
it unreadable, which fails the run. A run whose process and importer disagree about its
outcome is imported again in every cycle; a spool full of dead letters blocks all imports; after
`rotate-credential` a running daemon dead-letters everything that is due; an exception
other than `RemoteError` ends the uploader's thread. A rollback has no journal, and
`cleanup` removes unrecovered journals after seven days.

Around these the passing runs show how far the damage goes: in none of the cases 1 to 4
is a patch applied twice, a success claimed falsely or an accepted verification
overwritten; in none of 7 to 9 is an attempt run or judged twice; in none of 10 to 14 is
something deleted that the server does not have; in case 15 one result at most is
accepted, from the owner. `UpdateSystem_switch` interrupts everything but the steps of a
recovery (16), of a rollback, which nothing would undo, and the last two of the undoing of
a rejected build (16 again), and shows that an interrupted update is undone as a whole.

## 12 Proofs

Eight modules hold proofs. Each assumes no more of the constants than the named
assumption in the component's module, which says that they have their types and, where
it is noted, what more of them the theorem assumes. Such a condition is one that a run
meets, and sections 5, 9 and 11 say what happens without it. Every invariance proof has
one lemma per action and one that puts them together by the disjuncts of `Next`.

**`ClosedLoopProofs`**, for every number of attempts, of wanted candidates and of
crashes:

| theorem | states |
|---|---|
| `InvariantHolds`, `TypeCorrect` | `Spec => []IInv`, `Spec => []TypeOK` |
| `PatchAppliedOnce` | `Spec => []AppliedOnce` |
| `SuccessIsDelivered` | `Spec => []CompletedMeansApplied` |
| `StoppedIsUntouched` | `Spec => []StoppedMeansUntouched` |
| `CandidatesAreDurable` | `Spec => []EligibleIsDurable` |
| `NothingAcceptedIsLost` | `Spec => []ExhaustedMeansNothingAccepted` |
| `AttemptsRunOnce`, `EvidenceStays`, `EndIsForever` | `Spec => NeverRunTwice`, `Spec => EvidenceIsFinal`, `Spec => TerminalIsFinal` |

None of the properties is inductive. That a patch is applied once needs to know that
`Materialize` is reached only with a clean target, which needs to know what recovery
found, which depends on the files that each step has written before. `IInv` therefore
ties together

- `ControlInv`: at which state of the log each step is taken;
- `IdsInv`: attempt ids are handed out in order and all but the latest are recorded;
  the latest is unrecorded only while its decision is being carried out. This is
  what makes `_next_attempt_id` safe, since it counts decisions while the budget
  counts recorded attempts;
- `DecisionInv`: a decision names a fresh attempt, or the latest one if its
  validation could not run;
- `ProgressInv`: which files of the current attempt exist at each step;
- `EligibleIsDurable`: what is eligible in memory is accepted on disk;
- `DeliveryInv`: nothing reaches the target before `MATERIALIZING`, then only the
  selection, and `materialization.json` tells the truth;
- `CandidatesInv`: what is accepted on disk is eligible in memory, but for the
  candidate whose verification is just being reported.

One lemma per action shows that it keeps `IInv`, with one step for each conjunct;
`Inductive` puts them together by the disjuncts of `Next`. TLC checks the same `IInv`
in `ClosedLoop_proved`. The other modules are built the same way.

The same module proves the refinement, `KeepsLifecycle` (`Spec => ImplementsLifecycle`).
Three actions do something that the owner of the target sees: `Verify` accepts a candidate,
`Materialize` delivers it, a crash of git may damage the target; a lemma for every other
action shows that it is `Silent` (it accepts nobody and leaves the target alone) or
closes the run. What a run may close with follows from `IInv`: the steps that close it
know the target (`DeliveryInv`), so that the refinement needs no invariant of its own.
`DeliveredMeansApplied` links the two levels: the candidate the abstract run has
delivered is the one whose patch is in the target.

**`RunLogProofs`**, for any recoverers, operations, leftovers and crashes:

| theorem | states | under |
|---|---|---|
| `TypeCorrect` | `Spec => []TypeOK` | |
| `NumbersIncrease` | `Spec => []SequencesIncrease` | `SingleWriter` |
| `EndStaysLast` | `Spec => []EndIsFinal` | `SingleWriter` |
| `LogStaysReadable` | `Spec => [](crashes <= 1 => Readable)` | `Repaired` |
| `SnapshotIsLogged` | `Spec => [](crashes <= 1 => SnapshotCommitted)` | `Repaired` |

`LastInv`: there is an event, and a last one. `WriterInv`: one process at a time is at
work. On that rest `NumberInv` (whoever writes has counted every event of the file, which
is what makes the next number new, whatever leftover a crash has merged into a line),
`EndInv` (whoever may write more than a note has seen no end, or has written it itself and
only removes worktrees), `OnceInv` (until a second crash every line is an event, and nobody
appends to the fragment: where it is what remains of a removal after the end, `state.json`
already says that the run is over, so that recovery leaves it alone) and `SnapshotInv`. The
bound `crashes <= 1` belongs to the statements: when a first crash has left the end in the
log but not in `state.json`, and a second one cuts the note about it, the next `resume`
writes its note behind the fragment without a repair (case 3), and `Readable` fails.

**`DeliveryProofs`**, for any candidates, settings and crashes:

| theorem | states | under |
|---|---|---|
| `WorkflowIsSound`, `TypeCorrect` | `Spec => []WorkflowInv`, `Spec => []TypeOK` | |
| `PatchAppliedOnce` | `Spec => []AppliedOnce` | |
| `ApprovalsAreExplicit` | `Spec => []AppliedIsApproved` | an approval policy is configured (`Guarded = TRUE`) |
| `ReportIsTrue` | `Spec => []ReportMatchesTarget` | `Trusted` |
| `DeclinedIsNotApplied` | `Spec => []DeclinedLeavesTargetAlone` | `Trusted` |

`WorkflowInv` is `TypeOK`, at which state of the log each step is
taken (`ControlInv`), and what is known of `delivery.json` there (`RecordInv`: it exists
from the approval pause on, and every deadline after the first has cost a crash). The approvals need
`GuardInv`, which is about the guard's *copy* of them: `ManifestInv`, the approvals in
the manifest are on file and audited; `ProcessInv`, so are those in memory, but for the
one that the process is just carrying out, and that process cannot get to the guard
before the audit; `TargetInv`, what was applied was approved. Without the guard the
theorem is false (cases 5 and 6). The two theorems about the report need `ReportInv`:
`OrderInv`, what the files say of each other at each state of the log (the manifest still
holds the requested mode while the run waits, and agrees with `delivery.json` once
`MATERIALIZING` is reached); `HoldsInv`, what they say of the target (only the candidate
of `delivery.json` is in it, and nothing is if the delivery was declined); `CourseInv`,
what the process has read and what it is about to do.

**`CandidateScheduleProofs`**, for any number of candidates, places and crashes:
`InvariantHolds`, `TypeCorrect`, `InvokedOnce` (`NeverInvokedTwice`), `JudgedOnce`
(`OneVerdict`), `QuotaHolds` (`QuotaIsKept`), `CommitmentsAreJudged` (`CommittedIsJudged`).
The invariant says what the journal knows (`JournalInv`: whoever was run is in it unless
it is unreadable, and whoever may still be judged has no verdict in it), for whom a
runner is yet to be called (`InvocationsInv`), where the futures are (`FuturesInv`) and
that results are out of the scheduler's hands (`ResultsInv`).

**`SpoolSyncProofs`**, for any runs, lengths, batches, policies, failures and crashes:

| theorem | states | under |
|---|---|---|
| `InvariantHolds`, `TypeCorrect` | `Spec => []BaseInv`, `Spec => []TypeOK` | |
| `NothingIsLost` | `Spec => NothingLost` | |
| `OutcomesComeLast` | `Spec => []OutcomeAfterEvents` | no run has a connected process (case 14) |
| `SynchronizedMeansStored` | `Spec => []SynchronizedIsStored` | the same |
| `DeadLettersHaveACause` | `Spec => GivenUpForACause` | |
| `LoneSyncerSettlesOnce` | `Spec => SettledIsFinal` | one syncer |

`BaseInv`: what the server accepted, or agentd counts as acknowledged, is stored.
`RowsChange` and `ServerChanges` summarise what any step may do to rows and to the
server, so that the other invariants need not go through the actions again. `OrderInv`
follows an outcome on its way: before its row exists all events of the run are covered
(in the spool or stored), and before it is sent they have arrived. `DeadLettersHaveACause`
needs to know that the cause the server had is still there when the syncer settles its
rows, whatever others have done in between. `LedgerInv`: what is stored keeps the policy
of its first delivery, and a batch is stored with one policy as a whole. `GivenUpInv`: a
syncer whose batch was refused has a cause at hand. Policies only advance, so that it does
not go away (`CauseStays`).

**`RemoteDispatchProofs`**, for any number of tasks, workers, attempts and crashes:
`InvariantHolds`, `TypeCorrect`, `OwnershipIsExclusive` (`OneOwner`), `ResultsAreReal`
(`ResultIsReal`), `CancellationsPrevail`, `QueuedTasksHaveBudget`, `EndIsFinal`
(`TerminalIsFinal`) and `Implements` (`ImplementsRemoteTask`: every step of the queue is
one of `RemoteTask` or a stutter, for every task). `IInv` adds to the properties that the
records of the server agree with each other (`LeasesInv`), that a worker holds or held
the lease of its job and reports what is true (`WorkersInv`), and that the same goes for
every completion on its way (`CompletionsInv`), however late it arrives.

**`UpdateSystemProofs`**, for any processes, kills and number of transactions:

| theorem | states | under |
|---|---|---|
| `TypesHold`, `TypeCorrect` | `Spec => []TypeInv`, `Spec => []TypeOK` | |
| `LockExcludes` | `Spec => []OneInstaller` | `Uncontended` (case 18) |
| `InstallationStays` | `Spec => []InstallationSurvives` | `Undoable` |

`LockInv` is about the lock: whoever holds it is named in it (`HolderInv`), a lock nobody
holds was left by a process that was killed (`LeftInv`), and one that is being removed is
such a lock (`UnlinkInv`). `MemoryInv` is about what processes remember: a transaction
has one owner, and a previous installation is one that an update saved or a rollback
displaced. `SafeInv` says where the builds are: while nobody is busy (`QuietInv`)
everything is finished and something is installed, or one journal is unfinished and can
be recovered from, or all are dead; and at each step of an installation (`InstallAt`), of
a rollback (`RollbackAt`) and of a recovery (`RepairAt`) which places are occupied and
what the journal says, so that the next step, and the recovery of a process killed there,
find what they need. `LoopAt` follows the recovery that an installation begins with:
behind it no journal is unfinished. `Alone` is what the lock is for: one process is busy
at a time, so that each of these is disturbed by the steps of its own process only.

**`UpdateRefinementProofs`**, under `Undoable` and with an installation at first
(`HasInstallation`):

| theorem | states |
|---|---|
| `ActiveStaysVerified` | `Spec => []ActiveIsVerified` |
| `KeepsInstallation` | `Spec => ImplementsAtomicInstallation` |

`AllInv` knows which places are occupied, the promise is about builds. `TrustInv` adds
which of them have passed verification: what was saved or displaced has (`SavedInv`), and
so has what is in `current`, unless a journal says that a new build is there *and* the one
to give back is still kept (`CurrentInv`); a journal that says "prepared" goes either with
a full `current` or with a saved installation, never with both (`PreparedInv`). The rest is
what single steps rely on (`TrustAt`): an installation saves nothing twice, its last write
follows a verification, and a rollback goes back to an older transaction than its own. It
follows that what counts as installed is verified as long as somebody lives
(`EffectiveIsVerified`), so that a step that verifies nothing is a switch to a verified
build, if only to the same one (`SwitchIsPromised`). The verification of a new build and a
kill leave alone what counts (`VerifyIsPromised`, `KillIsPromised`), and the older build
that a rollback verifies has passed before (`VerifyPreviousIsPromised`). `ActiveIsVerified`
says of the end what the refinement says all along. TLC checks it in
`UpdateSystem_switch`, and it and `TrustInv` in `UpdateSystem_proved` (with `UpdateRefinementProofs`).

*Only model-checked*: liveness (`RunEnds`, `DeliveryEnds`, `BatchEnds`,
`EveryRunArrives`, `EveryTaskEnds`, `InterruptedUpdatesEnd`), which is beyond the proof
system.

## 13 What is not modelled

- Of the delivery workflow the branch and pull-request modes, provenance signing, the
  review document, and a second process that runs beside `run` (see `RunLog`).
  `ClosedLoop` covers runs without the workflow, so that `AWAITING_APPROVAL` is never
  reached there.
- The probes that run inside a verification; the derivation of candidate plans and
  their costs. `ClosedLoop` and `CandidateSchedule` are not composed: the first covers
  sequential attempts, the second ends when the results of a batch are committed.
- Crashes while the bundle is being created, and I/O errors of a process that keeps
  living (a full disk). Snapshots are replaced atomically (`os.replace`), so that a
  reader sees the old or the new one.
- In `RunLog` the bytes of a line: a tail is nothing, a fragment, a whole object or
  garbage.
- In `SpoolSync` the events that follow the terminal one (section 4). An importer that
  looks between the end and the last removal of a worktree imports the rest in a later
  cycle (`local_import.py` compares the digest and the last sequence number), so that the
  outcome may precede *those* events; `OutcomeAfterEvents` and `SynchronizedIsStored` speak
  of the events up to the end.
- In `SpoolSync` also the migration of the schema, redaction, events that other programs
  post to the local HTTP service, versions of outcomes, quotas, webhooks, credentials,
  and the transfer of an artifact's bytes. A syncer looks at all runs in one pass: the
  assumption bounds their number by `BatchSize`.
- In `RemoteDispatch` authentication, the secret broker and the limits on documents;
  how long a lease, a delay or a deadline is.
- In `UpdateSystem` feeds, downloads, extraction, `config.yaml` and its backup (which
  travels with the installation), launchers and their failure after a successful
  verification, the Windows runner, `cleanup` and migrations.
- Content: prompts, patches, scores, costs and routing. Where a decision depends on
  them the model chooses freely.
- The components of the second table of section 1, for the reasons given there.
