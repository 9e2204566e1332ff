------------------------------ MODULE ClosedLoop ------------------------------
(***************************************************************************)
(* One run of the closed-loop controller                                   *)
(* (villani_ops/closed_loop/controller.py): classify, ask the policy, run  *)
(* an isolated attempt, verify it, select an accepted candidate and        *)
(* materialize its patch in the target repository.                         *)
(*                                                                         *)
(* Every durable write is a step of its own, and the process may crash     *)
(* between any two of them; "resume" then reconciles the run bundle and    *)
(* continues, and "cancel" may end a run that no process is driving.  A    *)
(* transition appends its event to events.jsonl and only then rewrites     *)
(* state.json, so the snapshot may be one transition behind the log.       *)
(*                                                                         *)
(* Runs without the delivery workflow are modelled here (the workflow that *)
(* adds the approval pause starts where this module leaves SELECTING), and *)
(* candidates are produced one at a time.                                  *)
(***************************************************************************)
EXTENDS Integers, FiniteSets, ControllerStates

CONSTANTS
    MaxAttempts,      \* request.max_attempts
    Required,         \* policy accepted_candidates_required
    RequiresChanges,  \* request.requires_file_changes
    AdaptiveStop,     \* is an explicit candidate_reliability section configured?
    MaxCrashes        \* bound: crashes of the process that drives the run

ASSUME ParametersAssumption ==
    /\ MaxAttempts \in Nat \ {0}
    /\ Required \in Nat \ {0}
    /\ RequiresChanges \in BOOLEAN
    /\ AdaptiveStop \in BOOLEAN
    /\ MaxCrashes \in Nat

\* Attempt ids.  An escalation decided when the budget is spent still carries a
\* fresh id, hence one more id than attempts.
Attempts == 1 .. MaxAttempts + 1
None == 0

\* What attempt.json says: a captured patch, a run that changed nothing, a run
\* found interrupted by recovery, a runner that raised.
Outcomes == {"patch", "empty", "interrupted", "failed"}

\* What verification/<id>.json says.  "infra" is a rejection because the
\* repository validation itself could not run, "infra_again" the same after its
\* one permitted retry.
Verdicts == {"accepted", "rejected", "infra", "infra_again"}

AttemptActions == {"attempt", "retry", "escalate"}
Actions == AttemptActions \cup {"revalidate", "select", "exhaust", "fail"}

VARIABLES
    \* --- the run bundle and the target repository (they survive a crash)
    log,             \* state after the last transition event of events.jsonl
    snap,            \* the state in state.json
    classification,  \* has classification.json been written?
    decision,        \* last line of policy_decisions.jsonl; is its event logged?
    allocated,       \* highest attempt id a policy decision carries
    started,         \* attempts with an attempt_started event
    recorded,        \* attempt.json of each attempt
    verdict,         \* verification/<id>.json of each attempt
    selection,       \* selection.json
    materialization, \* materialization.json
    applied,         \* how often each candidate's patch was applied to the target
    torn,            \* is a half-applied patch left in the target?
    \* --- the process that drives the run (lost in a crash)
    pc,              \* what it does next; "down" after a crash
    session,         \* was it started by run() or by resume()?
    eligible,        \* eligible_candidate_ids
    then,            \* where control returns when the verification is over
    cancelRequested, \* request.cancellation_event
    crashes          \* crashes so far

bundle == <<classification, decision, allocated, started, recorded, verdict,
            selection, materialization, applied, torn>>
memory == <<session, eligible, then, cancelRequested>>
vars == <<log, snap, bundle, pc, memory, crashes>>

\* Where recovery starts, by what it finds in the bundle.
RecoveryPCs == {"restart", "reuse", "lost", "recheck", "inspect", "unsupported"}

PCs == {"created", "classify", "classified", "ask", "record", "rerecord", "act",
        "run", "ran", "raised", "giveup", "completed", "emptied", "interrupted",
        "dropped", "verify", "judged", "verified", "attempted", "select", "selected",
        "materialize", "applied", "finish", "refused", "down", "returned"} \cup RecoveryPCs

TypeOK ==
    /\ log \in States /\ snap \in States
    /\ classification \in BOOLEAN
    /\ decision \in [action : Actions \cup {"none"}, attempt : {None} \cup Attempts,
                     logged : BOOLEAN]
    /\ allocated \in {None} \cup Attempts
    /\ started \in SUBSET Attempts
    /\ recorded \in [Attempts -> Outcomes \cup {"none"}]
    /\ verdict \in [Attempts -> Verdicts \cup {"none"}]
    /\ selection \in {None} \cup Attempts
    /\ materialization \in {"none", "succeeded", "failed"}
    /\ applied \in [Attempts -> Nat] /\ torn \in BOOLEAN
    /\ pc \in PCs /\ session \in {"run", "resume"}
    /\ eligible \in SUBSET Attempts
    /\ then \in {"attempted", "ask"}
    /\ cancelRequested \in BOOLEAN
    /\ crashes \in 0 .. MaxCrashes
-----------------------------------------------------------------------------
(* Transitions *)

Terminal == log \in TERMINAL_STATES
Up == pc \notin {"down", "returned"}

\* The transition event is durable before the snapshots are rewritten: a crash
\* in between leaves state.json behind the log.
Emit(s, next) ==
    /\ log' = s
    /\ \/ snap' = s /\ pc' = next /\ UNCHANGED crashes
       \/ /\ crashes < MaxCrashes
          /\ crashes' = crashes + 1 /\ pc' = "down" /\ UNCHANGED snap

\* (Mutation of Transition: the table is not consulted.)
UncheckedTransition(s, next) == Emit(s, next)

Transition(s, next) == s \in ALLOWED_TRANSITIONS[log] /\ Emit(s, next)

\* A write that is not a transition leaves the state alone.
Continue(next) == pc' = next /\ UNCHANGED <<log, snap, crashes>>

\* The handlers of run() and resume() end the run as FAILED on an exception.  A
\* transition the table forbids is such an exception.
Fail == Transition("FAILED", "returned")

TransitionOrFail(s, next) ==
    IF s \in ALLOWED_TRANSITIONS[log] THEN Emit(s, next) ELSE Fail

\* _cancel_if_requested, checked at the points where the code checks it.
Cancelled == cancelRequested /\ Transition("CANCELLED", "returned")

\* _transition_to_selecting
StartSelection ==
    IF log \in {"POLICY_SELECTED", "VERIFIED"}
    THEN Transition("SELECTING", "select")
    ELSE Fail
-----------------------------------------------------------------------------
Init ==
    /\ log = "CREATED" /\ snap = "CREATED"
    /\ classification = FALSE
    /\ decision = [action |-> "none", attempt |-> None, logged |-> TRUE]
    /\ allocated = None /\ started = {}
    /\ recorded = [a \in Attempts |-> "none"]
    /\ verdict = [a \in Attempts |-> "none"]
    /\ selection = None /\ materialization = "none"
    /\ applied = [a \in Attempts |-> 0] /\ torn = FALSE
    /\ pc = "created" /\ session = "run"
    /\ eligible = {} /\ then = "ask"
    /\ cancelRequested = FALSE /\ crashes = 0
-----------------------------------------------------------------------------
(* Classification: run() up to _drive, and _classify *)

\* The first steps of run(): a pending cancellation, then the validation of the
\* configuration, then the classification starts.  An invalid configuration makes
\* run() return: its handler asks for FAILED, which CREATED does not allow.
StartRun ==
    /\ pc = "created"
    /\ \/ Cancelled
       \/ ~cancelRequested /\ "FAILED" \notin ALLOWED_TRANSITIONS[log] /\ Continue("returned")
       \/ ~cancelRequested /\ Transition("CLASSIFYING", "classify")
    /\ UNCHANGED <<bundle, memory>>

\* The classifier answers and classification.json is written, or it fails.
Classify ==
    /\ pc = "classify"
    /\ \/ classification' = TRUE /\ Continue("classified")
       \/ Fail /\ UNCHANGED classification
    /\ UNCHANGED <<decision, allocated, started, recorded, verdict, selection,
                   materialization, applied, torn, memory>>

CompleteClassification ==
    /\ pc = "classified"
    /\ Transition("CLASSIFIED", "ask")
    /\ UNCHANGED <<bundle, memory>>
-----------------------------------------------------------------------------
(* Policy decisions: _ask_policy and _record_policy_state *)

\* (Mutation of AttemptsRemain: one attempt too many.)
AttemptsRemainLate == \E a \in Attempts : recorded[a] = "none"

\* The ids that ran are 1, 2, ..., so the budget (max_attempts minus the number
\* of recorded attempts) is positive as long as one of these is unrecorded.
AttemptsRemain == \E a \in 1 .. MaxAttempts : recorded[a] = "none"

Latest == IF allocated = None THEN "none" ELSE verdict[allocated]

\* What the bootstrap policy may answer.  Once enough candidates are eligible it
\* selects; a validation that could not run is retried once (if its backend is
\* still configured) and then blamed on the environment; otherwise budgets and
\* routing (abstracted) decide.
MayDecide(action) ==
    \/ Cardinality(eligible) >= Required /\ eligible # {} /\ action = "select"
    \/ /\ Cardinality(eligible) < Required
       /\ \/ Latest = "infra" /\ action \in {"revalidate", "escalate", "fail"}
          \/ Latest = "infra_again" /\ action \in {"escalate", "fail"}
          \/ /\ Latest \notin {"infra", "infra_again"}
             /\ \/ action = "exhaust"
                \/ /\ AttemptsRemain
                   /\ action \in IF allocated = None THEN {"attempt"}
                                 ELSE {"retry", "escalate", "fail"}

\* (Mutation of AttemptFor: a retry keeps its predecessor's id.)
ReusedAttemptFor(action) ==
    CASE action \in {"revalidate", "retry"} -> allocated
      [] action \in AttemptActions         -> allocated + 1
      [] OTHER                              -> None

\* _next_attempt_id; a validation retry keeps the latest attempt's id.
AttemptFor(action) ==
    CASE action = "revalidate"      -> allocated
      [] action \in AttemptActions -> allocated + 1
      [] OTHER                      -> None

\* The decision is appended to policy_decisions.jsonl before any event tells of
\* it.  An answer that breaks the rules of the policy interface fails the run.
AskPolicy ==
    /\ pc = "ask"
    /\ \/ Cancelled /\ UNCHANGED <<decision, allocated>>
       \/ /\ ~cancelRequested
          /\ \E action \in Actions :
                /\ MayDecide(action)
                /\ decision' = [action |-> action, attempt |-> AttemptFor(action),
                                logged |-> FALSE]
          /\ allocated' = IF decision'.attempt = None THEN allocated
                          ELSE decision'.attempt
          /\ pc' = "record" /\ snap' = log /\ UNCHANGED <<log, crashes>>
       \/ /\ ~cancelRequested
          /\ Fail /\ UNCHANGED <<decision, allocated>>
    /\ UNCHANGED <<classification, started, recorded, verdict, selection,
                   materialization, applied, torn, memory>>

\* _record_policy_state, one event at a time.  Leaving VERIFIED takes a
\* transition of its own, and so does an escalation; decisions that end the run
\* or select from VERIFIED are only put on record.
StateKept ==
    \/ decision.action \in {"exhaust", "fail"}
    \/ decision.action = "select" /\ log = "VERIFIED"

Escalating == decision.action = "escalate" /\ log = "REJECTED"

OnRecord == decision' = [decision EXCEPT !.logged = TRUE]

RecordDecision(here, afterEvent, afterTransition) ==
    /\ pc = here
    /\ \/ /\ StateKept
          /\ OnRecord /\ snap' = log /\ pc' = afterEvent /\ UNCHANGED <<log, crashes>>
       \/ /\ ~StateKept /\ log = "VERIFIED"
          /\ Transition("REJECTED", here) /\ UNCHANGED decision
       \/ Escalating /\ Transition("ESCALATING", here) /\ UNCHANGED decision
       \/ /\ ~StateKept /\ ~Escalating /\ log # "VERIFIED"
          /\ Transition("POLICY_SELECTED", afterTransition) /\ OnRecord
    /\ UNCHANGED <<classification, allocated, started, recorded, verdict,
                   selection, materialization, applied, torn, memory>>

RecordPolicy == RecordDecision("record", "act", "act")

\* Recovery finds a decision whose policy_selected event is missing.  It looks
\* at the state again afterwards; a decision that kept the state is forgotten.
RerecordPolicy == RecordDecision("rerecord", "ask", "reuse")

\* Recovery in POLICY_SELECTED continues with the recorded decision, unless the
\* attempt it names has been started before.
ReusePolicy ==
    /\ pc = "reuse"
    /\ IF decision.attempt \in started THEN Fail
       ELSE Continue("act")
    /\ UNCHANGED <<bundle, memory>>

\* _drive, once the decision is on record.
ActOnDecision ==
    /\ pc = "act"
    /\ \/ Cancelled /\ UNCHANGED <<started, then>>
       \/ /\ ~cancelRequested /\ decision.action = "fail"
          /\ Fail /\ UNCHANGED <<started, then>>
       \/ /\ ~cancelRequested /\ decision.action = "exhaust"
          /\ IF eligible # {} THEN StartSelection
             ELSE TransitionOrFail("EXHAUSTED", "returned")
          /\ UNCHANGED <<started, then>>
       \/ /\ ~cancelRequested /\ decision.action = "select"
          /\ StartSelection /\ UNCHANGED <<started, then>>
       \/ \* the runner may be unable to rehydrate the validation
          /\ ~cancelRequested /\ decision.action = "revalidate"
          /\ Transition("VERIFYING", "verify") \/ Fail
          /\ then' = "ask" /\ UNCHANGED started
       \/ \* a budget (attempts, wall time or cost) forbids another attempt
          /\ ~cancelRequested /\ decision.action \in AttemptActions
          /\ IF eligible # {} THEN StartSelection
             ELSE Transition("EXHAUSTED", "returned")
          /\ UNCHANGED <<started, then>>
       \/ /\ ~cancelRequested /\ decision.action \in AttemptActions /\ AttemptsRemain
          /\ Transition("ATTEMPT_RUNNING", "run")
          /\ started' = started \cup {decision.attempt}
          /\ then' = "attempted"
    /\ UNCHANGED <<classification, decision, allocated, recorded, verdict, selection,
                   materialization, applied, torn, session, eligible, cancelRequested>>
-----------------------------------------------------------------------------
(* An attempt: _run_attempt and _record_interrupted_attempt *)

Current == decision.attempt

Record(outcome) == recorded' = [recorded EXCEPT ![Current] = outcome]

\* The runner returns or raises, and attempt.json is written.
RunAttempt ==
    /\ pc = "run"
    /\ \/ \E outcome \in {"patch", "empty"} : Record(outcome) /\ Continue("ran")
       \/ Record("failed") /\ Continue("raised")
    /\ UNCHANGED <<classification, decision, allocated, started, verdict, selection,
                   materialization, applied, torn, memory>>

\* attempt_completed, or attempt_failed and then the end of the run when the
\* runner raised, or the two transitions that drop an interrupted attempt.
CompleteAttempt ==
    /\ \/ pc = "ran" /\ Transition("ATTEMPT_COMPLETED", "completed")
       \/ pc = "raised" /\ Transition("ATTEMPT_COMPLETED", "giveup")
       \/ pc = "giveup" /\ Fail
       \/ pc = "interrupted" /\ Transition("ATTEMPT_COMPLETED", "dropped")
       \/ pc = "dropped" /\ Transition("REJECTED", "ask")
    /\ UNCHANGED <<bundle, memory>>

Judge(v) == verdict' = [verdict EXCEPT ![Current] = v]

\* After patch_captured: a cancellation, a patch that is empty although changes
\* were required (rejected without a verifier), or the verification starts.
AfterCompletion ==
    LET emptyPatch == RequiresChanges /\ recorded[Current] # "patch"
    IN  /\ pc = "completed"
        /\ \/ Cancelled /\ UNCHANGED verdict
           \/ ~cancelRequested /\ emptyPatch /\ Judge("rejected") /\ Continue("emptied")
           \/ /\ ~cancelRequested /\ ~emptyPatch
              /\ Transition("VERIFYING", "verify") /\ UNCHANGED verdict
        /\ UNCHANGED <<classification, decision, allocated, started, recorded,
                       selection, materialization, applied, torn, memory>>

RejectEmpty ==
    /\ pc = "emptied"
    /\ Transition("REJECTED", then)
    /\ UNCHANGED <<bundle, memory>>
-----------------------------------------------------------------------------
(* Verification: _verify_attempt, _normalize_verification and                *)
(* _retry_repository_validation                                              *)

\* Whatever the verifier says, normalization accepts a candidate without a patch
\* only when the task requires no change.
Possible(a) ==
    {"rejected"}
    \cup (IF recorded[a] = "patch" \/ ~RequiresChanges THEN {"accepted"} ELSE {})
    \cup (IF recorded[a] # "patch" THEN {}
          ELSE IF verdict[a] = "none" THEN {"infra"} ELSE {"infra_again"})

\* The verifier answers, its retries used up, and verification/<id>.json is
\* written before any event tells of the outcome.  A repository validation that
\* cannot be repeated fails the run.
Verify ==
    /\ pc = "verify"
    /\ \/ \E v \in Possible(Current) : Judge(v) /\ Continue("judged")
       \/ /\ decision.action = "revalidate"
          /\ Fail /\ UNCHANGED verdict
    /\ UNCHANGED <<classification, decision, allocated, started, recorded, selection,
                   materialization, applied, torn, memory>>

CompleteVerification ==
    /\ pc = "judged"
    /\ Transition("VERIFIED", "verified")
    /\ UNCHANGED <<bundle, memory>>

\* (Mutation of AfterVerification: every candidate becomes eligible.)
EagerAfterVerification ==
    /\ pc = "verified"
    /\ eligible' = eligible \cup {Current}
    /\ snap' = log /\ pc' = then
    /\ UNCHANGED <<log, crashes, bundle, session, then, cancelRequested>>

AfterVerification ==
    /\ pc = "verified"
    /\ \/ Cancelled /\ UNCHANGED eligible
       \/ /\ ~cancelRequested /\ verdict[Current] = "accepted"
          /\ eligible' = eligible \cup {Current}
          /\ snap' = log /\ pc' = then /\ UNCHANGED <<log, crashes>>
       \/ /\ ~cancelRequested /\ verdict[Current] # "accepted"
          /\ Transition("REJECTED", then) /\ UNCHANGED eligible
    /\ UNCHANGED <<bundle, session, then, cancelRequested>>

\* The end of a round of _drive: cancellation, then _apply_reliability_stop.
AfterAttempt ==
    /\ pc = "attempted"
    /\ \/ Cancelled
       \/ ~cancelRequested /\ Continue("ask")
       \/ /\ ~cancelRequested /\ AdaptiveStop
          /\ IF eligible # {} THEN StartSelection
             ELSE TransitionOrFail("EXHAUSTED", "returned")
    /\ UNCHANGED <<bundle, memory>>
-----------------------------------------------------------------------------
(* Selection and materialization: _select_and_materialize                    *)

\* The selector answers with an eligible candidate and selection.json is
\* written, or it breaks its contract.
Select ==
    /\ pc = "select"
    /\ \/ selection' \in eligible /\ Continue("selected")
       \/ Fail /\ UNCHANGED selection
    /\ UNCHANGED <<classification, decision, allocated, started, recorded, verdict,
                   materialization, applied, torn, memory>>

StartMaterialization ==
    /\ pc = "selected"
    /\ Transition("MATERIALIZING", "materialize")
    /\ UNCHANGED <<bundle, memory>>

\* The materializer refuses (no patch, target moved, patch does not apply), or
\* applies the patch, or applies it and then fails to write its report.
Materialize ==
    /\ pc = "materialize"
    /\ \/ /\ materialization' = "failed" /\ Continue("refused")
          /\ UNCHANGED applied
       \/ /\ recorded[selection] = "patch" /\ ~torn
          /\ applied' = [applied EXCEPT ![selection] = @ + 1]
          /\ \/ Continue("applied") /\ UNCHANGED materialization
             \/ Continue("refused") /\ materialization' = "failed"
    /\ UNCHANGED <<classification, decision, allocated, started, recorded, verdict,
                   selection, torn, memory>>

RecordMaterialization ==
    /\ pc = "applied"
    /\ materialization' = "succeeded" /\ Continue("finish")
    /\ UNCHANGED <<classification, decision, allocated, started, recorded, verdict,
                   selection, applied, torn, memory>>

Finish ==
    /\ \/ pc = "finish" /\ Transition("COMPLETED", "returned")
       \/ pc = "refused" /\ Fail
    /\ UNCHANGED <<bundle, memory>>
-----------------------------------------------------------------------------
(* Recovery: resume, _load_recovery_runtime and _reconcile_and_continue      *)

Accepted == {a \in Attempts : recorded[a] # "none" /\ verdict[a] = "accepted"}

\* (Mutation of VerificationStep: the verifier is asked again.)
RepeatVerification == "verify"

\* A verification that is on disk is not repeated.
VerificationStep == IF verdict[Current] # "none" THEN "judged" ELSE "verify"

\* The step recovery starts with, by the state it finds in the log.
RecoveryStep ==
    CASE log = "CREATED"           -> "restart"
      [] log = "CLASSIFYING"       -> IF classification THEN "classified" ELSE "classify"
      [] log \in {"CLASSIFIED", "REJECTED", "VERIFIED"} ->
            IF decision.logged THEN "ask" ELSE "rerecord"
      [] log = "POLICY_SELECTED"   -> "reuse"
      [] log = "ATTEMPT_RUNNING"   -> IF recorded[Current] = "none" THEN "lost" ELSE "ran"
      [] log = "ATTEMPT_COMPLETED" -> "recheck"
      [] log = "VERIFYING"         -> VerificationStep
      [] log = "SELECTING"         -> IF selection # None THEN "selected" ELSE "select"
      [] log = "MATERIALIZING"     -> CASE materialization = "succeeded" -> "finish"
                                        [] materialization = "failed"    -> "refused"
                                        [] OTHER                         -> "inspect"
      [] OTHER                     -> "unsupported"

\* resume() rebuilds its memory from the bundle and continues; its recovery
\* event rewrites the snapshots.
Resume ==
    /\ ~Up /\ ~Terminal
    /\ session' = "resume" /\ cancelRequested' = FALSE
    /\ eligible' = Accepted /\ then' = "ask"
    /\ pc' = RecoveryStep
    /\ snap' = IF pc' = "ask" THEN snap ELSE log
    /\ UNCHANGED <<log, bundle, crashes>>

\* A run whose last event is terminal is only brought up to date.
ResumeTerminal ==
    /\ ~Up /\ Terminal /\ snap # log
    /\ snap' = log /\ pc' = "returned"
    /\ UNCHANGED <<log, bundle, memory, crashes>>

RestartClassification ==
    /\ pc = "restart"
    /\ Transition("CLASSIFYING", "classify")
    /\ UNCHANGED <<bundle, memory>>

\* An attempt without attempt.json is recorded as interrupted, never run again.
RecordInterrupted ==
    /\ pc = "lost"
    /\ Record("interrupted") /\ Continue("interrupted")
    /\ UNCHANGED <<classification, decision, allocated, started, verdict, selection,
                   materialization, applied, torn, memory>>

\* A completed attempt is verified, or only its events are, when the verification
\* is on disk.
Recheck ==
    /\ pc = "recheck"
    /\ Transition("VERIFYING", VerificationStep)
    /\ UNCHANGED <<bundle, memory>>

\* (Mutation of InspectTarget: the target is not looked at.)
BlindInspectTarget ==
    pc = "inspect" /\ Continue("materialize") /\ UNCHANGED <<bundle, memory>>

\* git apply --check, backwards and forwards, tells whether the selected patch is
\* in the target.  Neither holds when it is there by half, when it is empty or
\* when the target has moved on.
InspectTarget ==
    /\ pc = "inspect"
    /\ \/ /\ recorded[selection] = "patch" /\ ~torn
          /\ Continue(IF applied[selection] > 0 THEN "applied" ELSE "materialize")
       \/ Fail
    /\ UNCHANGED <<bundle, memory>>

\* (Mutation of UnsupportedRecovery: resume gives up without a word.)
SilentRecovery ==
    pc = "unsupported" /\ Continue("returned") /\ UNCHANGED <<bundle, memory>>

UnsupportedRecovery ==
    /\ pc = "unsupported"
    /\ Fail
    /\ UNCHANGED <<bundle, memory>>
-----------------------------------------------------------------------------
(* The environment *)

\* The process dies; if git was writing, it may leave a part of the patch.
Crash ==
    /\ Up /\ crashes < MaxCrashes
    /\ crashes' = crashes + 1 /\ pc' = "down"
    /\ torn' \in {torn, torn \/ (pc = "materialize" /\ recorded[selection] = "patch")}
    /\ UNCHANGED <<log, snap, classification, decision, allocated, started, recorded,
                   verdict, selection, materialization, applied, memory>>

\* The user interrupts the command that drives the run (not a resumed one).
RequestCancel ==
    /\ Up /\ session = "run" /\ ~cancelRequested
    /\ cancelRequested' = TRUE
    /\ UNCHANGED <<log, snap, bundle, pc, session, eligible, then, crashes>>

\* (Mutation of CancelPersisted: a run can be cancelled in every state.)
CancelAnywhere ==
    ~Up /\ ~Terminal /\ Emit("CANCELLED", "returned") /\ UNCHANGED <<bundle, memory>>

\* cancel() on a persisted run that no process drives.
CancelPersisted ==
    /\ ~Up
    /\ Transition("CANCELLED", "returned")
    /\ UNCHANGED <<bundle, memory>>
-----------------------------------------------------------------------------
ControllerStep ==
    \/ StartRun \/ Classify \/ CompleteClassification
    \/ AskPolicy \/ RecordPolicy \/ RerecordPolicy \/ ReusePolicy \/ ActOnDecision
    \/ RunAttempt \/ CompleteAttempt \/ AfterCompletion \/ RejectEmpty
    \/ Verify \/ CompleteVerification \/ AfterVerification \/ AfterAttempt
    \/ Select \/ StartMaterialization \/ Materialize \/ RecordMaterialization \/ Finish
    \/ RestartClassification \/ RecordInterrupted \/ Recheck \/ InspectTarget
    \/ UnsupportedRecovery

Next ==
    \/ ControllerStep
    \/ Resume \/ ResumeTerminal
    \/ Crash \/ RequestCancel \/ CancelPersisted

\* The process keeps running until it crashes, and whoever started an
\* interrupted run resumes it.
Fairness == WF_vars(ControllerStep) /\ WF_vars(Resume \/ ResumeTerminal)

Spec == Init /\ [][Next]_vars

FairSpec == Spec /\ Fairness
-----------------------------------------------------------------------------
(* Properties *)

\* The target repository only ever holds the patch of the one candidate that was
\* selected and that an independent verification accepted, and holds it once,
\* however often the run was interrupted (materialize, resume).
AppliedOnce ==
    \A a \in Attempts :
        applied[a] > 0 => applied[a] = 1 /\ selection = a /\ verdict[a] = "accepted"

\* A run that reports success has delivered: the selected patch is in the target
\* as a whole and materialization.json says so (_finish_recovered_materialization).
CompletedMeansApplied ==
    log = "COMPLETED" => /\ selection # None /\ applied[selection] = 1 /\ ~torn
                         /\ materialization = "succeeded"

\* A run reported as cancelled or exhausted has not touched the target, not even
\* by half (_cancel records "target_repository_modified": False).
StoppedMeansUntouched ==
    log \in {"CANCELLED", "EXHAUSTED"} => ~torn /\ \A a \in Attempts : applied[a] = 0

\* What the controller holds eligible in memory is on disk as an accepted
\* verification of a recorded attempt, so a crash cannot lose or invent a candidate.
EligibleIsDurable == Up => eligible \subseteq Accepted

\* An attempt is never run twice: recovery records a lost attempt and takes a
\* fresh id (_record_interrupted_attempt, _next_attempt_id).
NeverRunTwice ==
    [][log' = "ATTEMPT_RUNNING" /\ log # log' => decision.attempt \notin started]_vars

\* The evidence a run is judged by stays: the outcome of an attempt, an acceptance and
\* the selection do not change any more (labels and telemetry are added to their files
\* later, by _record_attempt_progress and _complete_loaded_attempt).
EvidenceIsFinal ==
    [][ /\ \A a \in Attempts : /\ recorded[a] # "none" => recorded'[a] = recorded[a]
                               /\ verdict[a] = "accepted" => verdict'[a] = "accepted"
        /\ selection # None => selection' = selection ]_vars

\* A run is never exhausted while a candidate that passed verification waits to be
\* delivered, whatever was lost in crashes (_drive selects it instead).
ExhaustedMeansNothingAccepted == log = "EXHAUSTED" => Accepted = {}

\* Once events.jsonl or state.json says that the run is over no event is added to
\* change it (resume and cancel leave a terminal run alone).
TerminalIsFinal == [][Terminal \/ snap \in TERMINAL_STATES => log' = log]_vars

\* Every run ends, and its snapshot says so, if it is resumed after each crash.
RunEnds == <>[](Terminal /\ snap = log)

(* What the documents and comments say, and the code does not do              *)

\* docs/CLOSED_LOOP.md, invariant 12: "Budget exhaustion produces terminal
\* EXHAUSTED state"; with accepted candidates at hand the controller selects
\* instead.  Neither is a failure.
ExhaustionIsNoFailure ==
    [][pc = "act" /\ decision.action = "exhaust" => log' # "FAILED"]_vars

\* README of villani-ops: "Interrupted runs can be resumed".  Neither what recovery
\* finds (a state it does not know, a decision it takes for a protocol violation) nor
\* the place of the interruption is a reason to fail a run.
InterruptedRunsResume ==
    [][pc = "unsupported" \/ pc = "reuse" => log' # "FAILED"]_vars
===============================================================================
