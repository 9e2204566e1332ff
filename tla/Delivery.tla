------------------------------- MODULE Delivery -------------------------------
(***************************************************************************)
(* The delivery workflow of the controller: what happens to an accepted    *)
(* candidate once it has been selected.  The run pauses for an approval,   *)
(* is approved, declined or given another candidate, times out, and hands  *)
(* the patch to the materializer chain (approval guard, idempotent         *)
(* delivery, git).  The module starts where ClosedLoop leaves SELECTING.   *)
(*                                                                         *)
(* Every durable write is a step, and the process may die between any two. *)
(* A transition appends its event and then writes manifest.json, which     *)
(* carries the policy configuration: a change of the configuration that    *)
(* was made in memory is durable only after the next transition.  All      *)
(* operations but the first run() hold the recovery lock, so one process   *)
(* at a time is modelled.                                                  *)
(***************************************************************************)
EXTENDS Integers, ControllerStates

CONSTANTS
    Candidates,              \* attempts with an accepted verification
    Patched,                 \* those whose patch is not empty
    Nobody,                  \* no candidate
    Modes,                   \* delivery modes the run may be started with
    TimeoutPolicies,         \* values delivery.approval.timeout_policy may have
    AllowChange,             \* delivery.approval.allow_candidate_change
    AuthenticationRequired,  \* delivery.approval.authenticated_required
    Guarded,                 \* is approval_policy configured from the start, with a
                             \* rule for local_patch_apply?
    MaxCrashes               \* bound: crashes of the process

ASSUME DeliveryAssumption ==
    /\ Patched \subseteq Candidates
    /\ Nobody \notin Candidates
    /\ Modes \subseteq {"suggest", "approve", "apply"}
    /\ TimeoutPolicies \subseteq {"reject", "suggest", "fail"}
    /\ AllowChange \in BOOLEAN
    /\ AuthenticationRequired \in BOOLEAN
    /\ Guarded \in BOOLEAN
    /\ MaxCrashes \in Nat

DeliveryMode == {"suggest", "approve", "apply"}
DeliveryState == {"selected", "awaiting_approval", "approved", "suggested", "applied",
                  "rejected", "rerun_requested", "timed_out", "failed"}
ApprovalStatus == {"not_required", "pending", "approved", "rejected",
                   "rerun_requested", "timed_out"}
Decisions == {"approve", "reject", "request_rerun"}

\* Deadlines are numbered in the order in which they pass; each interrupted change
\* of the candidate may leave one more behind.
Deadlines == 0 .. MaxCrashes + 2

VARIABLES
    \* --- the run bundle and the target repository
    log,             \* state after the last transition event
    selection,       \* selection.json
    delivery,        \* delivery.json
    records,         \* approval-records/: explicit decisions
    audit,           \* approval-audit.jsonl
    materialization, \* materialization.json
    receipts,        \* delivery/<idempotency key>.json
    manifest,        \* the policy configuration in manifest.json
    applied,         \* how often each patch was applied to the target
    torn,            \* is a half-applied patch left in the target?
    \* --- the process
    pc,              \* what it does next; "idle" when there is no process
    config,          \* request.policy_configuration
    action,          \* the approval action asked for
    authenticated,   \* and whether it came authenticated
    candidate,       \* the candidate chosen or handed to the materializer
    \* --- the world
    requested,       \* what the user configured: delivery mode and timeout policy
    now,             \* the last deadline that has passed
    crashes

target == <<applied, torn>>
approvals == <<records, audit>>
outcome == <<materialization, receipts>>
call == <<config, action, authenticated, candidate>>
world == <<requested, now>>
vars == <<log, selection, delivery, approvals, outcome, manifest, target, pc, call,
          world, crashes>>

NoDelivery == [candidate |-> Nobody, mode |-> "suggest", state |-> "selected",
               approval |-> "not_required", permitted |-> FALSE, deadline |-> 0]

PCs == {"idle", "continue", "await", "start", "guard", "deliver", "applied", "receipt",
        "persist", "finish", "complete", "refused", "failing", "fail", "rematerialize",
        "expire", "expired", "deny", "decide", "approved", "declined", "audited",
        "choose", "replace", "replaced", "changed"}

Settings == [mode : Modes, timeout_policy : TimeoutPolicies]

Configurations ==
    [mode : DeliveryMode, guarded : BOOLEAN,
     records : SUBSET [candidate : Candidates, decision : {"approved", "denied"},
                       expires : Deadlines]]

TypeOK ==
    /\ log \in States /\ selection \in Candidates
    /\ delivery = NoDelivery \/
       delivery \in [candidate : Candidates, mode : DeliveryMode, state : DeliveryState,
                     approval : ApprovalStatus, permitted : BOOLEAN, deadline : Deadlines]
    /\ records \subseteq [candidate : Candidates, decision : {"approved", "denied"},
                          expires : Deadlines]
    /\ audit \subseteq [result : Decisions \cup {"timeout", "denied", "selected"},
                        candidate : Candidates, authenticated : BOOLEAN]
    /\ materialization \in {"none", "succeeded", "failed"}
    /\ receipts \subseteq Candidates \X {"local_patch_apply", "patch_export"}
    /\ manifest \in Configurations /\ config \in Configurations
    /\ applied \in [Candidates -> Nat] /\ torn \in BOOLEAN
    /\ pc \in PCs
    /\ action \in Decisions \cup {"choose_candidate"} /\ authenticated \in BOOLEAN
    /\ candidate \in Candidates \cup {Nobody}
    /\ requested \in Settings /\ now \in Deadlines /\ crashes \in 0 .. MaxCrashes
-----------------------------------------------------------------------------
(* Transitions *)

Terminal == log \in TERMINAL_STATES

\* The event first, then the snapshots: a crash in between leaves the configuration
\* of the last transition but one in manifest.json.
Transition(s, next) ==
    /\ s \in ALLOWED_TRANSITIONS[log]
    /\ log' = s
    /\ \/ manifest' = config /\ pc' = next /\ UNCHANGED crashes
       \/ /\ crashes < MaxCrashes
          /\ crashes' = crashes + 1 /\ pc' = "idle" /\ UNCHANGED manifest

\* A write that is not a transition leaves state and configuration as they are.
Continue(next) == pc' = next /\ UNCHANGED <<log, manifest, crashes>>

Init ==
    /\ requested \in Settings
    /\ log = "SELECTING" /\ selection \in Candidates
    /\ delivery = NoDelivery
    /\ records = {} /\ audit = {}
    /\ materialization = "none" /\ receipts = {}
    /\ manifest = [mode |-> requested.mode, guarded |-> Guarded, records |-> {}]
    /\ applied = [c \in Candidates |-> 0] /\ torn = FALSE
    /\ pc = "continue"
    /\ config = manifest
    /\ action = "approve" /\ authenticated = FALSE /\ candidate = Nobody
    /\ now = 0 /\ crashes = 0
-----------------------------------------------------------------------------
(* From the selection to the approval pause or the materialization *)

\* _new_delivery_record.  The authority of mode "apply" is decided by configuration
\* and verification, here left open.
NewDeliveryRecord(c) ==
    { [candidate |-> c, mode |-> config.mode, state |-> "selected",
       approval |-> IF config.mode = "approve" THEN "pending" ELSE "not_required",
       permitted |-> p,
       deadline |-> IF config.mode = "approve" THEN delivery.deadline + 1 ELSE 0] :
      p \in CASE config.mode = "suggest" -> {TRUE}
              [] config.mode = "approve" -> {FALSE}
              [] config.mode = "apply"   -> BOOLEAN }

\* run() and resume() end the run as FAILED when the record cannot be made.
RecordDelivery ==
    /\ pc = "continue" /\ delivery.candidate # selection
    /\ \/ /\ selection \in Patched
          /\ delivery' \in NewDeliveryRecord(selection)
          /\ Continue("continue")
       \/ /\ selection \notin Patched
          /\ Transition("FAILED", "idle")
          /\ UNCHANGED delivery
    /\ UNCHANGED <<selection, approvals, outcome, target, call, world>>

NeedsApproval == delivery.mode = "approve" /\ delivery.approval # "approved"

AwaitApproval ==
    /\ pc = "continue" /\ delivery.candidate = selection /\ NeedsApproval
    /\ delivery' = [delivery EXCEPT !.state = "awaiting_approval"]
    /\ Continue("await")
    /\ UNCHANGED <<selection, approvals, outcome, target, call, world>>

\* The process returns; the run waits.
Pause ==
    /\ pc = "await"
    /\ Transition("AWAITING_APPROVAL", "idle")
    /\ UNCHANGED <<selection, delivery, approvals, outcome, target, call, world>>

LacksAuthority == delivery.mode = "apply" /\ ~delivery.permitted

RefuseDelivery ==
    /\ pc = "continue" /\ delivery.candidate = selection /\ LacksAuthority
    /\ delivery' = [delivery EXCEPT !.state = "failed"]
    /\ Continue("fail")
    /\ UNCHANGED <<selection, approvals, outcome, target, call, world>>

DeliverNow ==
    /\ pc = "continue" /\ delivery.candidate = selection
    /\ ~NeedsApproval /\ ~LacksAuthority
    /\ candidate' = selection
    /\ Continue("start")
    /\ UNCHANGED <<selection, delivery, approvals, outcome, target, config, action,
                   authenticated, world>>
-----------------------------------------------------------------------------
(* The materializer chain *)

KindOf(mode) == IF mode = "suggest" THEN "patch_export" ELSE "local_patch_apply"
Kind == KindOf(config.mode)

StartMaterialization ==
    /\ pc = "start"
    /\ Transition("MATERIALIZING", "guard")
    /\ UNCHANGED <<selection, delivery, approvals, outcome, target, call, world>>

\* (Mutation of ApprovalRequired: the rule is looked up with the records.)
ApprovalRequiredOnRecord ==
    config.guarded /\ config.records # {} /\ Kind = "local_patch_apply"

ApprovalRequired == config.guarded /\ Kind = "local_patch_apply"

\* (Mutation of Covers: the scope of the record is not compared.)
CoversAnything(r) == r.decision = "approved" /\ now < r.expires

\* validate_approval: approved, for this attempt, not expired.
Covers(r) == r.decision = "approved" /\ r.candidate = candidate /\ now < r.expires

\* ApprovalGuardedMaterializer
GuardDelivery ==
    /\ pc = "guard"
    /\ Continue(IF ApprovalRequired => \E r \in config.records : Covers(r)
                THEN "deliver" ELSE "refused")
    /\ UNCHANGED <<selection, delivery, approvals, outcome, target, call, world>>

\* A delivery that has its receipt is not repeated.
ReplayReceipt ==
    /\ pc = "deliver" /\ selection = candidate
    /\ <<candidate, Kind>> \in receipts
    /\ Continue("persist")
    /\ UNCHANGED <<selection, delivery, approvals, outcome, target, call, world>>

\* (Mutation of AlreadyApplied: any trace of the patch counts.)
AnyTrace == applied[candidate] > 0 \/ torn

AlreadyApplied == applied[candidate] > 0 /\ ~torn
Clean == ~torn /\ \A c \in Candidates : applied[c] = 0

\* (Mutation of ApplyPatch: the target is not inspected first.)
ApplyBlindly ==
    applied' = [applied EXCEPT ![candidate] = @ + 1] /\ Continue("applied")

\* git apply, unless the exact patch is already there.
ApplyPatch ==
    \/ AlreadyApplied /\ Continue("receipt") /\ UNCHANGED applied
    \/ /\ ~AlreadyApplied /\ Clean
       /\ applied' = [applied EXCEPT ![candidate] = @ + 1]
       /\ Continue("applied")

DeliverPatch ==
    /\ pc = "deliver" /\ selection = candidate
    /\ <<candidate, Kind>> \notin receipts
    /\ \/ Kind = "local_patch_apply" /\ ApplyPatch
       \/ Kind = "patch_export" /\ Continue("receipt") /\ UNCHANGED applied
    /\ UNCHANGED <<selection, delivery, approvals, outcome, torn, call, world>>

\* The selection names another candidate, the target is not as the attempts found
\* it (a torn patch, an edit of the user), or the export fails.
DeliveryError ==
    /\ pc = "deliver"
    /\ selection = candidate => <<candidate, Kind>> \notin receipts
    /\ Continue("refused")
    /\ UNCHANGED <<selection, delivery, approvals, outcome, target, call, world>>

\* PatchMaterializerAdapter reports before the receipt is written.
ReportApplied ==
    /\ pc = "applied"
    /\ materialization' = "succeeded"
    /\ Continue("receipt")
    /\ UNCHANGED <<selection, delivery, approvals, receipts, target, call, world>>

\* "The receipt is the commit marker and is written only after delivery."
WriteReceipt ==
    /\ pc = "receipt"
    /\ receipts' = receipts \cup {<<candidate, Kind>>}
    /\ Continue("persist")
    /\ UNCHANGED <<selection, delivery, approvals, materialization, target, call, world>>

PersistMaterialization ==
    /\ \/ pc = "persist" /\ materialization' = "succeeded" /\ Continue("finish")
       \/ pc = "refused" /\ materialization' = "failed" /\ Continue("failing")
    /\ UNCHANGED <<selection, delivery, approvals, receipts, target, call, world>>

\* (Mutation of successful_delivery_state: the mode itself.)
ModeAsState(mode) == mode

successful_delivery_state(mode) == IF mode = "suggest" THEN "suggested" ELSE "applied"

\* delivery.json before the terminal event.
FinishDelivery ==
    /\ \/ /\ pc = "finish"
          /\ delivery' = [delivery EXCEPT !.state = successful_delivery_state(delivery.mode)]
          /\ Continue("complete")
       \/ /\ pc = "failing"
          /\ delivery' = [delivery EXCEPT !.state = "failed"]
          /\ Continue("fail")
    /\ UNCHANGED <<selection, approvals, outcome, target, call, world>>

EndRun ==
    /\ \/ pc = "complete" /\ Transition("COMPLETED", "idle")
       \/ pc = "fail" /\ Transition("FAILED", "idle")
    /\ UNCHANGED <<selection, delivery, approvals, outcome, target, call, world>>
-----------------------------------------------------------------------------
(* Approval actions and resumption, each under the recovery lock *)

Late == now >= delivery.deadline

Permitted(auth) == AuthenticationRequired => auth

\* approval_action
RequestAction(a, c, auth) ==
    /\ pc = "idle" /\ log = "AWAITING_APPROVAL"
    /\ config' = manifest
    /\ action' = a /\ candidate' = c /\ authenticated' = auth
    /\ \/ Late /\ Continue("expire")
       \/ ~Late /\ ~Permitted(auth) /\ Continue("deny")
       \/ /\ ~Late /\ Permitted(auth)
          /\ Continue(IF a = "choose_candidate" THEN "choose" ELSE "decide")
    /\ UNCHANGED <<selection, delivery, approvals, outcome, target, world>>

\* choose_candidate: the early returns and refusals change nothing.
MayChoose(c) == AllowChange /\ c # delivery.candidate

Approve(auth) == RequestAction("approve", Nobody, auth)
Decline(auth) == \E a \in {"reject", "request_rerun"} : RequestAction(a, Nobody, auth)
ChooseCandidate(auth) ==
    \E c \in Candidates : MayChoose(c) /\ RequestAction("choose_candidate", c, auth)

Audit(result, c) ==
    audit' = audit \cup {[result |-> result, candidate |-> c,
                          authenticated |-> authenticated]}

\* The caller gets a PermissionError.
DenyAction ==
    /\ pc = "deny"
    /\ Audit("denied", IF candidate = Nobody THEN delivery.candidate ELSE candidate)
    /\ Continue("idle")
    /\ UNCHANGED <<selection, delivery, records, outcome, target, call, world>>

\* _approval_record: the file is durable, the configuration is not until the next
\* transition.
RecordDecision ==
    LET r == [candidate |-> delivery.candidate,
              decision |-> IF action = "approve" THEN "approved" ELSE "denied",
              expires |-> delivery.deadline]
    IN /\ pc = "decide"
       /\ records' = records \cup {r}
       /\ config' = [config EXCEPT !.guarded = TRUE, !.records = @ \cup {r}]
       /\ Continue(IF action = "approve" THEN "approved" ELSE "declined")
       /\ UNCHANGED <<selection, delivery, audit, outcome, target, action,
                      authenticated, candidate, world>>

\* _approve_delivery
ApproveDelivery ==
    /\ pc = "approved"
    /\ delivery' = [delivery EXCEPT !.state = "approved", !.approval = "approved",
                                    !.permitted = TRUE]
    /\ Continue("audited")
    /\ UNCHANGED <<selection, approvals, outcome, target, call, world>>

AuditApproval ==
    /\ pc = "audited" /\ action = "approve"
    /\ Audit("approve", delivery.candidate)
    /\ candidate' = delivery.candidate
    /\ Continue("start")
    /\ UNCHANGED <<selection, delivery, records, outcome, target, config, action,
                   authenticated, world>>

\* _decline_delivery: the audit comes before delivery.json.
AuditDecline ==
    /\ pc = "declined"
    /\ Audit(action, delivery.candidate)
    /\ Continue("audited")
    /\ UNCHANGED <<selection, delivery, records, outcome, target, call, world>>

DeclineDelivery ==
    LET status == IF action = "reject" THEN "rejected" ELSE "rerun_requested"
    IN /\ pc = "audited" /\ action \in {"reject", "request_rerun"}
       /\ delivery' = [delivery EXCEPT !.state = status, !.approval = status]
       /\ Continue("complete")
       /\ UNCHANGED <<selection, approvals, outcome, target, call, world>>

\* _change_approval_candidate: the selection first, then a new record, then the same
\* record with the approval of the old one.  An exception leaves the selection.
ChangeSelection ==
    /\ pc = "choose"
    /\ selection' = candidate
    /\ Continue(IF candidate \in Patched THEN "replace" ELSE "idle")
    /\ UNCHANGED <<delivery, approvals, outcome, target, call, world>>

ReplaceDelivery ==
    /\ pc = "replace"
    /\ \E new \in NewDeliveryRecord(candidate) :
          \/ /\ delivery' = [new EXCEPT !.state = "awaiting_approval",
                                        !.approval = delivery.approval,
                                        !.deadline = delivery.deadline]
             /\ Continue("changed")
          \/ /\ crashes < MaxCrashes /\ crashes' = crashes + 1
             /\ delivery' = new
             /\ pc' = "idle" /\ UNCHANGED <<log, manifest>>
    /\ UNCHANGED <<selection, approvals, outcome, target, call, world>>

AuditChange ==
    /\ pc = "changed"
    /\ Audit("selected", candidate)
    /\ Continue("idle")
    /\ UNCHANGED <<selection, delivery, records, outcome, target, call, world>>

\* _resume_awaiting_approval, once the deadline has passed.
AuditTimeout ==
    /\ pc = "expire"
    /\ audit' = audit \cup {[result |-> "timeout", candidate |-> delivery.candidate,
                             authenticated |-> TRUE]}
    /\ Continue("expired")
    /\ UNCHANGED <<selection, delivery, records, outcome, target, call, world>>

\* The mode changes in memory and in delivery.json; manifest.json follows with the
\* next transition.
TimeOut ==
    /\ pc = "expired"
    /\ \/ /\ requested.timeout_policy = "suggest"
          /\ config' = [config EXCEPT !.mode = "suggest"]
          /\ delivery' = [delivery EXCEPT !.mode = "suggest", !.state = "timed_out",
                              !.approval = "timed_out", !.permitted = TRUE]
          /\ candidate' = delivery.candidate
          /\ Continue("start")
       \/ /\ requested.timeout_policy = "fail"
          /\ delivery' = [delivery EXCEPT !.state = "failed", !.approval = "timed_out"]
          /\ Continue("fail") /\ UNCHANGED <<config, candidate>>
       \/ /\ requested.timeout_policy = "reject"
          /\ delivery' = [delivery EXCEPT !.state = "timed_out", !.approval = "timed_out"]
          /\ Continue("complete") /\ UNCHANGED <<config, candidate>>
    /\ UNCHANGED <<selection, approvals, outcome, target, action, authenticated, world>>

\* (Mutation of Expired: an approval pause is left to the approver.)
LeftToApprover == FALSE

Expired == log = "AWAITING_APPROVAL" /\ Late

\* resume()
Resume ==
    /\ pc = "idle"
    /\ config' = manifest
    /\ \/ log = "SELECTING" /\ Continue("continue")
       \/ Expired /\ Continue("expire")
       \/ log = "MATERIALIZING" /\ Continue("rematerialize")
    /\ UNCHANGED <<selection, delivery, approvals, outcome, target, action,
                   authenticated, candidate, world>>

\* _resume_materialization: a report on disk is final, whatever it says.
ResumeMaterialization ==
    /\ pc = "rematerialize"
    /\ candidate' = selection
    /\ Continue(CASE materialization = "succeeded" -> "finish"
                  [] materialization = "failed"    -> "failing"
                  [] materialization = "none"      -> "guard")
    /\ UNCHANGED <<selection, delivery, approvals, outcome, target, config, action,
                   authenticated, world>>

\* cancel()
Cancel ==
    /\ pc = "idle" /\ config' = manifest
    /\ "CANCELLED" \in ALLOWED_TRANSITIONS[log]
    /\ log' = "CANCELLED"
    /\ UNCHANGED <<selection, delivery, approvals, outcome, manifest, target, pc, action,
                   authenticated, candidate, world, crashes>>
-----------------------------------------------------------------------------
\* The process dies; git may die with it half way through the patch.
Crash ==
    /\ pc # "idle" /\ crashes < MaxCrashes
    /\ crashes' = crashes + 1 /\ pc' = "idle"
    /\ \/ UNCHANGED torn
       \/ /\ pc = "deliver" /\ selection = candidate /\ Kind = "local_patch_apply"
          /\ <<candidate, Kind>> \notin receipts
          /\ ~AlreadyApplied /\ Clean
          /\ torn' = TRUE
    /\ UNCHANGED <<log, selection, delivery, approvals, outcome, manifest, applied,
                   call, world>>

\* A deadline passes.
Tick ==
    /\ ~Terminal /\ now < delivery.deadline
    /\ now' = now + 1
    /\ UNCHANGED <<log, selection, delivery, approvals, outcome, manifest, target, pc,
                   call, requested, crashes>>

ProcessStep ==
    \/ RecordDelivery \/ AwaitApproval \/ Pause \/ RefuseDelivery \/ DeliverNow
    \/ StartMaterialization \/ GuardDelivery \/ ReplayReceipt \/ DeliverPatch
    \/ DeliveryError \/ ReportApplied \/ WriteReceipt \/ PersistMaterialization
    \/ FinishDelivery \/ EndRun
    \/ DenyAction \/ RecordDecision \/ ApproveDelivery \/ AuditApproval
    \/ AuditDecline \/ DeclineDelivery
    \/ ChangeSelection \/ ReplaceDelivery \/ AuditChange
    \/ AuditTimeout \/ TimeOut \/ ResumeMaterialization

Request ==
    \E auth \in BOOLEAN : Approve(auth) \/ Decline(auth) \/ ChooseCandidate(auth)

Next == ProcessStep \/ Request \/ Resume \/ Cancel \/ Crash \/ Tick

Spec == Init /\ [][Next]_vars

\* A living process goes on, deadlines pass, and somebody resumes a run that waits
\* past its deadline or was interrupted.  Nobody has to approve anything.
FairSpec == Spec /\ WF_vars(ProcessStep) /\ WF_vars(Resume) /\ WF_vars(Tick)
-----------------------------------------------------------------------------
(* Properties *)

Untouched == ~torn /\ \A c \in Candidates : applied[c] = 0

\* In approve mode no patch reaches the target without an explicit approval of that
\* very candidate on file, given by someone who was allowed to, and audited
\* (_approve_delivery: "an in-scope explicit approval was persisted").
AppliedIsApproved ==
    \A c \in Candidates :
        requested.mode = "approve" /\ applied[c] > 0 =>
            /\ \E r \in records : r.candidate = c /\ r.decision = "approved"
            /\ \E e \in audit : /\ e.result = "approve" /\ e.candidate = c
                                /\ AuthenticationRequired => e.authenticated

\* Whatever happens in between, one patch at most is applied, and once.
AppliedOnce ==
    \A c, d \in Candidates :
        applied[c] > 0 /\ applied[d] > 0 => c = d /\ applied[c] = 1

\* What delivery.json reports of a run that ended well is what the target holds, and
\* a cancelled run has left it alone (_finish_delivery_materialization,
\* _complete_without_materialization).
ReportMatchesTarget ==
    /\ log = "COMPLETED" =>
          IF delivery.state = "applied"
          THEN applied[delivery.candidate] = 1 /\ ~torn
          ELSE /\ delivery.state \in {"suggested", "rejected", "rerun_requested",
                                      "timed_out"}
               /\ Untouched
    /\ log = "CANCELLED" => Untouched

\* A patch that was only suggested, declined or left unanswered is not in the target,
\* not even by half ("suggest mode never mutates the target repository").
DeclinedLeavesTargetAlone ==
    delivery.state \in {"suggested", "rejected", "rerun_requested", "timed_out"} =>
        Untouched

\* Every delivery ends: an approval that never comes is ended by its deadline, an
\* interrupted delivery by its resumption.
DeliveryEnds == <>[]Terminal
===============================================================================
