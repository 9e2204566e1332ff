--------------------------- MODULE DeliveryProofs ---------------------------
(***************************************************************************)
(* Delivery for any candidates, settings and crashes: its types, that one  *)
(* patch at most is applied, and once, and, where an approval policy is    *)
(* configured, that only a patch is applied whose explicit approval is on  *)
(* file and audited; and, where nothing changes under the process that     *)
(* delivers, that the report is what the target holds.                     *)
(*                                                                         *)
(* The types need WorkflowInv: at which state of the log each step is      *)
(* taken, and that a delivery record exists from the approval pause on.    *)
(*                                                                         *)
(* The approvals need GuardInv, which says what the guard's copy of them   *)
(* is worth: the manifest holds approvals that are on file and audited,    *)
(* and a process that carries one out has one more, which is about to be   *)
(* audited, and does not get to the guard before.                          *)
(*                                                                         *)
(* The report needs ReportInv: that the delivery record and the manifest   *)
(* agree, or differ such that the guard lets nothing be applied, and what  *)
(* the process has read of them at each step.                              *)
(***************************************************************************)
EXTENDS Delivery, TLAPS

\* delivery.json, once it is written.
DeliveryRecords ==
    [candidate : Candidates, mode : DeliveryMode, state : DeliveryState,
     approval : ApprovalStatus, permitted : BOOLEAN, deadline : Deadlines]

\* The steps of an approval action and of a timeout, of the materializer chain, and
\* those that need a candidate.
Deciding == {"expire", "expired", "deny", "decide", "approved", "declined", "audited",
             "choose", "replace", "changed"}
Materializing == {"guard", "deliver", "applied", "receipt", "persist", "refused", "finish",
                  "failing", "rematerialize"}
Handing == {"start", "guard", "deliver", "applied", "receipt", "choose", "replace", "changed"}

\* At which state of the log each step is taken.
ControlInv ==
    /\ pc \in {"continue", "await"} => log = "SELECTING"
    /\ pc \in Deciding => log = "AWAITING_APPROVAL"
    /\ pc \in Materializing => log = "MATERIALIZING"
    /\ pc \in Handing => candidate # Nobody
    /\ pc \in {"decide", "approved", "declined"} => action \in Decisions

\* The delivery record belongs to the selection until an approver chooses another one,
\* and only interrupted choices have used up deadlines.
RecordInv ==
    /\ log \in {"AWAITING_APPROVAL", "MATERIALIZING"} \/ pc \in {"await", "start"} =>
          delivery.candidate # Nobody
    /\ log = "SELECTING" => delivery = NoDelivery \/ delivery.candidate = selection
    /\ delivery.deadline <= crashes + 1

WorkflowInv == TypeOK /\ ControlInv /\ RecordInv
-----------------------------------------------------------------------------
\* A record with a candidate is one that was written.
LEMMA DeliveryIs ==
    ASSUME TypeOK, delivery.candidate # Nobody
    PROVE  delivery \in DeliveryRecords
BY DEF TypeOK, NoDelivery, DeliveryRecords

\* What _new_delivery_record returns.
LEMMA NewRecordIs ==
    ASSUME WorkflowInv, NEW c \in Candidates, NEW new \in NewDeliveryRecord(c)
    PROVE  /\ new \in DeliveryRecords /\ new.candidate = c
           /\ new.deadline <= delivery.deadline + 1
<1>1. delivery.deadline \in 0 .. MaxCrashes + 1
  BY DeliveryAssumption DEF WorkflowInv, TypeOK, RecordInv, DeliveryAssumption,
     NoDelivery, Deadlines
<1>2. config.mode \in DeliveryMode
  BY DEF WorkflowInv, TypeOK, Configurations
<1>3. PICK p \in BOOLEAN :
         new = [candidate |-> c, mode |-> config.mode, state |-> "selected",
                approval |-> IF config.mode = "approve" THEN "pending" ELSE "not_required",
                permitted |-> p,
                deadline |-> IF config.mode = "approve" THEN delivery.deadline + 1 ELSE 0]
  BY <1>2 DEF NewDeliveryRecord, DeliveryMode
<1> QED
  BY <1>1, <1>2, <1>3, DeliveryAssumption
  DEF DeliveryRecords, DeliveryState, ApprovalStatus, Deadlines, DeliveryAssumption

\* Each step keeps WorkflowInv.
LEMMA RecordDeliveryStep ==
    ASSUME WorkflowInv, RecordDelivery
    PROVE  WorkflowInv'
<1> USE DeliveryAssumption DEF DeliveryAssumption, WorkflowInv
<1>a. log = "SELECTING" /\ delivery = NoDelivery /\ selection \in Candidates
  BY DEF TypeOK, ControlInv, RecordInv, RecordDelivery
<1>b. UNCHANGED <<selection, records, audit, outcome, target, config, action, authenticated,
                  candidate, world>>
  BY DEF RecordDelivery, approvals, outcome, target, call, world
<1>c. crashes \in 0 .. MaxCrashes
  BY DEF TypeOK
<1>1. CASE selection \in Patched
  <2>1. delivery' \in DeliveryRecords /\ delivery'.candidate = selection /\ delivery'.deadline <= 1
    BY <1>1, <1>a, NewRecordIs DEF RecordDelivery, NoDelivery
  <2>2. UNCHANGED <<log, manifest, crashes, pc>>
    BY <1>1 DEF RecordDelivery, Continue
  <2>3. TypeOK'
    BY <1>b, <2>1, <2>2 DEF TypeOK, DeliveryRecords, outcome, target, world
  <2>4. ControlInv'
    BY <1>b, <2>2 DEF ControlInv
  <2>5. RecordInv'
    BY <1>a, <1>b, <1>c, <2>1, <2>2 DEF RecordInv, DeliveryRecords, Deadlines
  <2> QED BY <2>3, <2>4, <2>5
<1>2. CASE selection \notin Patched
  <2>1. log' = "FAILED" /\ pc' = "idle"
    BY <1>2 DEF RecordDelivery, Transition
  <2>6. UNCHANGED delivery
    BY <1>2 DEF RecordDelivery
  <2>2. crashes' \in 0 .. MaxCrashes /\ crashes <= crashes' /\ manifest' \in Configurations
    BY <1>2 DEF RecordDelivery, Transition, TypeOK
  <2>3. TypeOK'
    BY <1>b, <2>1, <2>2, <2>6 DEF TypeOK, States, TERMINAL_STATES, PCs, outcome, target, world
  <2>4. ControlInv'
    BY <2>1 DEF ControlInv, PCs, Deciding, Materializing, Handing
  <2>5. RecordInv'
    <3>1. delivery'.deadline = 0
      BY <1>a, <2>6 DEF NoDelivery
    <3>2. \A n \in 0 .. MaxCrashes : 0 <= n + 1
      OBVIOUS
    <3>3. 0 <= crashes' + 1
      BY <2>2, <3>2
    <3> QED BY <2>1, <3>1, <3>3 DEF RecordInv
  <2> QED BY <2>3, <2>4, <2>5
<1> QED BY <1>1, <1>2

LEMMA AwaitApprovalStep ==
    ASSUME WorkflowInv, AwaitApproval
    PROVE  WorkflowInv'
<1> USE DeliveryAssumption DEF DeliveryAssumption, WorkflowInv
<1>1. TypeOK'
  BY DeliveryIs DEF TypeOK, AwaitApproval, Continue, approvals, outcome, target,
     call, world, PCs, DeliveryRecords, DeliveryState
<1>2. ControlInv'
  BY DEF ControlInv, AwaitApproval, Continue, approvals, outcome, target, call,
     world, Deciding, Materializing, Handing
<1>3. RecordInv'
  BY DeliveryIs DEF RecordInv, AwaitApproval, Continue, approvals, outcome, target,
     call, world, ControlInv, Materializing, Deciding, TypeOK, NoDelivery,
     DeliveryRecords
<1> QED BY <1>1, <1>2, <1>3

LEMMA PauseStep ==
    ASSUME WorkflowInv, Pause
    PROVE  WorkflowInv'
<1> USE DeliveryAssumption DEF DeliveryAssumption, WorkflowInv
<1>1. TypeOK'
  BY DEF TypeOK, Pause, Transition, approvals, outcome, target, call, world, PCs,
     States, TERMINAL_STATES
<1>2. ControlInv'
  BY DEF ControlInv, Pause, Transition, approvals, outcome, target, call, world,
     Deciding, Materializing, Handing
<1>3. RecordInv'
  BY DEF RecordInv, Pause, Transition, approvals, outcome, target, call, world,
     ControlInv, Materializing, Deciding, TypeOK, NoDelivery, Deadlines
<1> QED BY <1>1, <1>2, <1>3

LEMMA RefuseDeliveryStep ==
    ASSUME WorkflowInv, RefuseDelivery
    PROVE  WorkflowInv'
<1> USE DeliveryAssumption DEF DeliveryAssumption, WorkflowInv
<1>1. TypeOK'
  BY DeliveryIs DEF TypeOK, RefuseDelivery, Continue, approvals, outcome, target,
     call, world, PCs, DeliveryRecords, DeliveryState
<1>2. ControlInv'
  BY DEF ControlInv, RefuseDelivery, Continue, approvals, outcome, target, call,
     world, Deciding, Materializing, Handing
<1>3. RecordInv'
  BY DeliveryIs DEF RecordInv, RefuseDelivery, Continue, approvals, outcome, target,
     call, world, ControlInv, Materializing, Deciding, TypeOK, NoDelivery,
     DeliveryRecords
<1> QED BY <1>1, <1>2, <1>3

LEMMA DeliverNowStep ==
    ASSUME WorkflowInv, DeliverNow
    PROVE  WorkflowInv'
<1> USE DeliveryAssumption DEF DeliveryAssumption, WorkflowInv
<1>1. TypeOK'
  BY DEF TypeOK, DeliverNow, Continue, approvals, outcome, target, world, PCs
<1>2. ControlInv'
  BY DEF ControlInv, DeliverNow, Continue, approvals, outcome, target, world,
     Deciding, Materializing, Handing, TypeOK
<1>3. RecordInv'
  BY DEF RecordInv, DeliverNow, Continue, approvals, outcome, target, world,
     ControlInv, Materializing, Deciding, TypeOK
<1> QED BY <1>1, <1>2, <1>3

LEMMA StartMaterializationStep ==
    ASSUME WorkflowInv, StartMaterialization
    PROVE  WorkflowInv'
<1> USE DeliveryAssumption DEF DeliveryAssumption, WorkflowInv
<1>1. TypeOK'
  BY DEF TypeOK, StartMaterialization, Transition, approvals, outcome, target, call,
     world, PCs, States, TERMINAL_STATES
<1>2. ControlInv'
  BY DEF ControlInv, StartMaterialization, Transition, approvals, outcome, target,
     call, world, Deciding, Materializing, Handing
<1>3. RecordInv'
  BY DEF RecordInv, StartMaterialization, Transition, approvals, outcome, target,
     call, world, ControlInv, Materializing, Deciding, TypeOK, NoDelivery, Deadlines
<1> QED BY <1>1, <1>2, <1>3

LEMMA GuardDeliveryStep ==
    ASSUME WorkflowInv, GuardDelivery
    PROVE  WorkflowInv'
<1> USE DeliveryAssumption DEF DeliveryAssumption, WorkflowInv
<1>1. TypeOK'
  BY DEF TypeOK, GuardDelivery, Continue, approvals, outcome, target, call, world,
     PCs
<1>2. ControlInv'
  BY DEF ControlInv, GuardDelivery, Continue, approvals, outcome, target, call,
     world, Deciding, Materializing, Handing
<1>3. RecordInv'
  BY DEF RecordInv, GuardDelivery, Continue, approvals, outcome, target, call,
     world, ControlInv, Materializing, Deciding
<1> QED BY <1>1, <1>2, <1>3

LEMMA ReplayReceiptStep ==
    ASSUME WorkflowInv, ReplayReceipt
    PROVE  WorkflowInv'
<1> USE DeliveryAssumption DEF DeliveryAssumption, WorkflowInv
<1>1. TypeOK'
  BY DEF TypeOK, ReplayReceipt, Continue, approvals, outcome, target, call, world,
     PCs
<1>2. ControlInv'
  BY DEF ControlInv, ReplayReceipt, Continue, approvals, outcome, target, call,
     world, Deciding, Materializing, Handing
<1>3. RecordInv'
  BY DEF RecordInv, ReplayReceipt, Continue, approvals, outcome, target, call,
     world, ControlInv, Materializing, Deciding
<1> QED BY <1>1, <1>2, <1>3

LEMMA DeliverPatchStep ==
    ASSUME WorkflowInv, DeliverPatch
    PROVE  WorkflowInv'
<1> USE DeliveryAssumption DEF DeliveryAssumption, WorkflowInv
<1>a. applied' \in [Candidates -> Nat]
  BY DEF TypeOK, DeliverPatch, ApplyPatch
<1>b. pc = "deliver" /\ pc' \in {"applied", "receipt"}
  BY DEF DeliverPatch, ApplyPatch, Continue
<1>c. UNCHANGED <<log, manifest, crashes, selection, delivery, records, audit, outcome,
                  torn, config,
                  action, authenticated, candidate, world>>
  BY DEF DeliverPatch, ApplyPatch, Continue, approvals, call
<1>1. TypeOK'
  BY <1>a, <1>b, <1>c DEF TypeOK, PCs, outcome, world
<1>2. ControlInv'
  BY <1>b, <1>c DEF ControlInv, PCs, Deciding, Materializing, Handing
<1>3. RecordInv'
  BY <1>b, <1>c DEF RecordInv
<1> QED BY <1>1, <1>2, <1>3

LEMMA DeliveryErrorStep ==
    ASSUME WorkflowInv, DeliveryError
    PROVE  WorkflowInv'
<1> USE DeliveryAssumption DEF DeliveryAssumption, WorkflowInv
<1>1. TypeOK'
  BY DEF TypeOK, DeliveryError, Continue, approvals, outcome, target, call, world,
     PCs
<1>2. ControlInv'
  BY DEF ControlInv, DeliveryError, Continue, approvals, outcome, target, call,
     world, Deciding, Materializing, Handing
<1>3. RecordInv'
  BY DEF RecordInv, DeliveryError, Continue, approvals, outcome, target, call,
     world, ControlInv, Materializing, Deciding
<1> QED BY <1>1, <1>2, <1>3

LEMMA ReportAppliedStep ==
    ASSUME WorkflowInv, ReportApplied
    PROVE  WorkflowInv'
<1> USE DeliveryAssumption DEF DeliveryAssumption, WorkflowInv
<1>1. TypeOK'
  BY DEF TypeOK, ReportApplied, Continue, approvals, target, call, world, PCs
<1>2. ControlInv'
  BY DEF ControlInv, ReportApplied, Continue, approvals, target, call, world,
     Deciding, Materializing, Handing
<1>3. RecordInv'
  BY DEF RecordInv, ReportApplied, Continue, approvals, target, call, world,
     ControlInv, Materializing, Deciding
<1> QED BY <1>1, <1>2, <1>3

LEMMA WriteReceiptStep ==
    ASSUME WorkflowInv, WriteReceipt
    PROVE  WorkflowInv'
<1> USE DeliveryAssumption DEF DeliveryAssumption, WorkflowInv
<1>a. candidate \in Candidates /\ Kind \in {"local_patch_apply", "patch_export"}
  BY DEF TypeOK, ControlInv, Handing, WriteReceipt, Kind, KindOf
<1>1. TypeOK'
  BY <1>a DEF TypeOK, WriteReceipt, Continue, PCs, approvals, outcome, target, call, world
<1>2. ControlInv'
  BY DEF ControlInv, WriteReceipt, Continue, call, PCs, Deciding, Materializing, Handing
<1>3. RecordInv'
  BY DEF RecordInv, WriteReceipt, Continue
<1> QED BY <1>1, <1>2, <1>3

LEMMA PersistMaterializationStep ==
    ASSUME WorkflowInv, PersistMaterialization
    PROVE  WorkflowInv'
<1> USE DeliveryAssumption DEF DeliveryAssumption, WorkflowInv
<1>1. TypeOK'
  BY DEF TypeOK, PersistMaterialization, Continue, approvals, target, call, world,
     PCs
<1>2. ControlInv'
  BY DEF ControlInv, PersistMaterialization, Continue, approvals, target, call,
     world, Deciding, Materializing, Handing
<1>3. RecordInv'
  BY DEF RecordInv, PersistMaterialization, Continue, approvals, target, call,
     world, ControlInv, Materializing, Deciding
<1> QED BY <1>1, <1>2, <1>3

LEMMA FinishDeliveryStep ==
    ASSUME WorkflowInv, FinishDelivery
    PROVE  WorkflowInv'
<1> USE DeliveryAssumption DEF DeliveryAssumption, WorkflowInv
<1>a. delivery \in DeliveryRecords
  BY DeliveryIs DEF ControlInv, RecordInv, FinishDelivery, Deciding, Materializing
<1>b. /\ delivery' \in DeliveryRecords
      /\ delivery'.candidate = delivery.candidate /\ delivery'.deadline = delivery.deadline
  BY <1>a DEF DeliveryRecords, DeliveryState, ApprovalStatus, DeliveryMode,
     FinishDelivery, successful_delivery_state
<1>c. UNCHANGED <<log, manifest, crashes, selection, records, audit, outcome, target,
                  config, action, authenticated, candidate, world>>
  BY DEF FinishDelivery, Continue, approvals, call
<1>d. pc \in {"finish", "failing"} /\ pc' \in {"complete", "fail"}
  BY DEF FinishDelivery, Continue
<1>1. TypeOK'
  BY <1>b, <1>c, <1>d DEF TypeOK, PCs, DeliveryRecords, outcome, target, world
<1>2. ControlInv'
  BY <1>c, <1>d DEF ControlInv, PCs, Deciding, Materializing, Handing
<1>3. RecordInv'
  BY <1>b, <1>c, <1>d DEF RecordInv, ControlInv, Deciding, Materializing
<1> QED BY <1>1, <1>2, <1>3

LEMMA EndRunStep ==
    ASSUME WorkflowInv, EndRun
    PROVE  WorkflowInv'
<1> USE DeliveryAssumption DEF DeliveryAssumption, WorkflowInv
<1>1. TypeOK'
  BY DEF TypeOK, EndRun, Transition, approvals, outcome, target, call, world, PCs,
     States, TERMINAL_STATES
<1>2. ControlInv'
  BY DEF ControlInv, EndRun, Transition, approvals, outcome, target, call, world,
     Deciding, Materializing, Handing
<1>3. RecordInv'
  BY DEF RecordInv, EndRun, Transition, approvals, outcome, target, call, world,
     ControlInv, Materializing, Deciding, TypeOK, NoDelivery, Deadlines
<1> QED BY <1>1, <1>2, <1>3

LEMMA DenyActionStep ==
    ASSUME WorkflowInv, DenyAction
    PROVE  WorkflowInv'
<1> USE DeliveryAssumption DEF DeliveryAssumption, WorkflowInv
<1>1. TypeOK'
  BY DeliveryIs DEF TypeOK, DenyAction, Continue, Audit, outcome, target, call,
     world, PCs, ControlInv, RecordInv, Deciding, DeliveryRecords
<1>2. ControlInv'
  BY DEF ControlInv, DenyAction, Continue, Audit, outcome, target, call, world,
     Deciding, Materializing, Handing
<1>3. RecordInv'
  BY DEF RecordInv, DenyAction, Continue, Audit, outcome, target, call, world,
     ControlInv, Materializing, Deciding
<1> QED BY <1>1, <1>2, <1>3

LEMMA RecordDecisionStep ==
    ASSUME WorkflowInv, RecordDecision
    PROVE  WorkflowInv'
<1> USE DeliveryAssumption DEF DeliveryAssumption, WorkflowInv
<1> DEFINE r == [candidate |-> delivery.candidate,
                 decision |-> IF action = "approve" THEN "approved" ELSE "denied",
                 expires |-> delivery.deadline]
<1>a. delivery \in DeliveryRecords /\ action \in Decisions
  BY DeliveryIs DEF ControlInv, RecordInv, RecordDecision, Deciding
<1>b. r \in [candidate : Candidates, decision : {"approved", "denied"}, expires : Deadlines]
  BY <1>a DEF DeliveryRecords
<1>c. /\ records' = records \cup {r}
      /\ config' = [config EXCEPT !.guarded = TRUE, !.records = @ \cup {r}]
  BY DEF RecordDecision
<1>d. /\ pc = "decide" /\ pc' \in {"approved", "declined"}
      /\ UNCHANGED <<log, manifest, crashes, selection, delivery, audit, outcome, target,
                     action, authenticated, candidate, world>>
  BY DEF RecordDecision, Continue
<1> HIDE DEF r
<1>e. config' \in Configurations
  BY <1>b, <1>c DEF TypeOK, Configurations
<1>1. TypeOK'
  BY <1>b, <1>c, <1>d, <1>e DEF TypeOK, PCs, outcome, target, world
<1>2. ControlInv'
  BY <1>a, <1>d DEF ControlInv, PCs, Deciding, Materializing, Handing
<1>3. RecordInv'
  BY <1>d DEF RecordInv, ControlInv, Deciding
<1> QED BY <1>1, <1>2, <1>3

LEMMA ApproveDeliveryStep ==
    ASSUME WorkflowInv, ApproveDelivery
    PROVE  WorkflowInv'
<1> USE DeliveryAssumption DEF DeliveryAssumption, WorkflowInv
<1>a. delivery \in DeliveryRecords
  BY DeliveryIs DEF ControlInv, RecordInv, ApproveDelivery, Deciding, Materializing
<1>b. /\ delivery' \in DeliveryRecords
      /\ delivery'.candidate = delivery.candidate /\ delivery'.deadline = delivery.deadline
  BY <1>a DEF DeliveryRecords, DeliveryState, ApprovalStatus, DeliveryMode, ApproveDelivery
<1>c. UNCHANGED <<log, manifest, crashes, selection, records, audit, outcome, target,
                  config, action, authenticated, candidate, world>>
  BY DEF ApproveDelivery, Continue, approvals, call
<1>d. pc = "approved" /\ pc' = "audited"
  BY DEF ApproveDelivery, Continue
<1>1. TypeOK'
  BY <1>b, <1>c, <1>d DEF TypeOK, PCs, DeliveryRecords, outcome, target, world
<1>2. ControlInv'
  BY <1>c, <1>d DEF ControlInv, PCs, Deciding, Materializing, Handing
<1>3. RecordInv'
  BY <1>b, <1>c, <1>d DEF RecordInv, ControlInv, Deciding, Materializing
<1> QED BY <1>1, <1>2, <1>3

LEMMA AuditApprovalStep ==
    ASSUME WorkflowInv, AuditApproval
    PROVE  WorkflowInv'
<1> USE DeliveryAssumption DEF DeliveryAssumption, WorkflowInv
<1>1. TypeOK'
  BY DeliveryIs DEF TypeOK, AuditApproval, Continue, Audit, outcome, target, world,
     PCs, ControlInv, RecordInv, Deciding, DeliveryRecords
<1>2. ControlInv'
  BY DEF ControlInv, AuditApproval, Continue, Audit, outcome, target, world,
     Deciding, Materializing, Handing, RecordInv
<1>3. RecordInv'
  BY DEF RecordInv, AuditApproval, Continue, Audit, outcome, target, world,
     ControlInv, Materializing, Deciding
<1> QED BY <1>1, <1>2, <1>3

LEMMA AuditDeclineStep ==
    ASSUME WorkflowInv, AuditDecline
    PROVE  WorkflowInv'
<1> USE DeliveryAssumption DEF DeliveryAssumption, WorkflowInv
<1>1. TypeOK'
  BY DeliveryIs DEF TypeOK, AuditDecline, Continue, Audit, outcome, target, call,
     world, PCs, Decisions, ControlInv, RecordInv, Deciding, DeliveryRecords
<1>2. ControlInv'
  BY DEF ControlInv, AuditDecline, Continue, Audit, outcome, target, call, world,
     Deciding, Materializing, Handing
<1>3. RecordInv'
  BY DEF RecordInv, AuditDecline, Continue, Audit, outcome, target, call, world,
     ControlInv, Materializing, Deciding
<1> QED BY <1>1, <1>2, <1>3

LEMMA DeclineDeliveryStep ==
    ASSUME WorkflowInv, DeclineDelivery
    PROVE  WorkflowInv'
<1> USE DeliveryAssumption DEF DeliveryAssumption, WorkflowInv
<1>a. delivery \in DeliveryRecords
  BY DeliveryIs DEF ControlInv, RecordInv, DeclineDelivery, Deciding, Materializing
<1>b. /\ delivery' \in DeliveryRecords
      /\ delivery'.candidate = delivery.candidate /\ delivery'.deadline = delivery.deadline
  BY <1>a DEF DeliveryRecords, DeliveryState, ApprovalStatus, DeliveryMode, DeclineDelivery
<1>c. UNCHANGED <<log, manifest, crashes, selection, records, audit, outcome, target,
                  config, action, authenticated, candidate, world>>
  BY DEF DeclineDelivery, Continue, approvals, call
<1>d. pc = "audited" /\ pc' = "complete"
  BY DEF DeclineDelivery, Continue
<1>1. TypeOK'
  BY <1>b, <1>c, <1>d DEF TypeOK, PCs, DeliveryRecords, outcome, target, world
<1>2. ControlInv'
  BY <1>c, <1>d DEF ControlInv, PCs, Deciding, Materializing, Handing
<1>3. RecordInv'
  BY <1>b, <1>c, <1>d DEF RecordInv, ControlInv, Deciding, Materializing
<1> QED BY <1>1, <1>2, <1>3

LEMMA ChangeSelectionStep ==
    ASSUME WorkflowInv, ChangeSelection
    PROVE  WorkflowInv'
<1> USE DeliveryAssumption DEF DeliveryAssumption, WorkflowInv
<1>1. TypeOK'
  BY DEF TypeOK, ChangeSelection, Continue, approvals, outcome, target, call, world,
     PCs, ControlInv, Handing
<1>2. ControlInv'
  BY DEF ControlInv, ChangeSelection, Continue, approvals, outcome, target, call,
     world, Deciding, Materializing, Handing
<1>3. RecordInv'
  BY DEF RecordInv, ChangeSelection, Continue, approvals, outcome, target, call,
     world, ControlInv, Materializing, Deciding
<1> QED BY <1>1, <1>2, <1>3

LEMMA ReplaceDeliveryStep ==
    ASSUME WorkflowInv, ReplaceDelivery
    PROVE  WorkflowInv'
<1> USE DeliveryAssumption DEF DeliveryAssumption, WorkflowInv
<1>a. /\ pc = "replace" /\ log = "AWAITING_APPROVAL" /\ candidate \in Candidates
      /\ delivery \in DeliveryRecords
  BY DeliveryIs DEF TypeOK, ControlInv, RecordInv, Deciding, Handing, ReplaceDelivery
<1>b. PICK new \in NewDeliveryRecord(candidate) :
         \/ /\ delivery' = [new EXCEPT !.state = "awaiting_approval", !.approval = delivery.approval,
                                       !.deadline = delivery.deadline]
            /\ Continue("changed")
         \/ /\ crashes < MaxCrashes /\ crashes' = crashes + 1
            /\ delivery' = new
            /\ pc' = "idle" /\ UNCHANGED <<log, manifest>>
  BY DEF ReplaceDelivery
<1>c. new \in DeliveryRecords /\ new.candidate = candidate /\ new.deadline <= delivery.deadline + 1
  BY <1>a, NewRecordIs
<1>f. crashes \in 0 .. MaxCrashes /\ delivery.deadline \in Nat /\ delivery.deadline <= crashes + 1
  BY <1>a DEF TypeOK, RecordInv, DeliveryRecords, Deadlines
<1>d. /\ delivery' \in DeliveryRecords /\ delivery'.candidate = candidate
      /\ delivery'.deadline <= crashes' + 1
      /\ crashes' \in 0 .. MaxCrashes
      /\ pc' \in {"changed", "idle"}
      /\ UNCHANGED <<log, manifest>>
  <2>1. CASE /\ delivery' = [new EXCEPT !.state = "awaiting_approval", !.approval = delivery.approval,
                                        !.deadline = delivery.deadline]
             /\ Continue("changed")
    <3>1. /\ delivery' \in DeliveryRecords /\ delivery'.candidate = candidate
          /\ delivery'.deadline = delivery.deadline
      BY <1>a, <1>c, <2>1 DEF DeliveryRecords, DeliveryState
    <3> QED BY <1>f, <2>1, <3>1 DEF Continue
  <2>2. CASE /\ crashes < MaxCrashes /\ crashes' = crashes + 1
             /\ delivery' = new
             /\ pc' = "idle" /\ UNCHANGED <<log, manifest>>
    <3>1. new.deadline \in Nat
      BY <1>c DEF DeliveryRecords, Deadlines
    <3> QED BY <1>c, <1>f, <2>2, <3>1
  <2> QED BY <1>b, <2>1, <2>2
<1>e. UNCHANGED <<selection, records, audit, outcome, target, config, action, authenticated,
                  candidate, world>>
  BY DEF ReplaceDelivery, approvals, call
<1>1. TypeOK'
  BY <1>d, <1>e DEF TypeOK, PCs, DeliveryRecords, outcome, target, world
<1>2. ControlInv'
  BY <1>a, <1>d, <1>e DEF ControlInv, PCs, Deciding, Materializing, Handing
<1>3. RecordInv'
  BY <1>a, <1>d DEF RecordInv
<1> QED BY <1>1, <1>2, <1>3

LEMMA AuditChangeStep ==
    ASSUME WorkflowInv, AuditChange
    PROVE  WorkflowInv'
<1> USE DeliveryAssumption DEF DeliveryAssumption, WorkflowInv
<1>1. TypeOK'
  BY DEF TypeOK, AuditChange, Continue, Audit, outcome, target, call, world, PCs,
     ControlInv, Handing
<1>2. ControlInv'
  BY DEF ControlInv, AuditChange, Continue, Audit, outcome, target, call, world,
     Deciding, Materializing, Handing
<1>3. RecordInv'
  BY DEF RecordInv, AuditChange, Continue, Audit, outcome, target, call, world,
     ControlInv, Materializing, Deciding
<1> QED BY <1>1, <1>2, <1>3

LEMMA AuditTimeoutStep ==
    ASSUME WorkflowInv, AuditTimeout
    PROVE  WorkflowInv'
<1> USE DeliveryAssumption DEF DeliveryAssumption, WorkflowInv
<1>a. delivery.candidate \in Candidates
  BY DeliveryIs DEF ControlInv, RecordInv, AuditTimeout, Deciding, DeliveryRecords
<1>b. audit' \subseteq [result : Decisions \cup {"timeout", "denied", "selected"},
                        candidate : Candidates, authenticated : BOOLEAN]
  <2>1. audit' = audit \cup {[result |-> "timeout", candidate |-> delivery.candidate,
                            authenticated |-> TRUE]}
    BY DEF AuditTimeout
  <2>2. audit \subseteq [result : Decisions \cup {"timeout", "denied", "selected"},
                         candidate : Candidates, authenticated : BOOLEAN]
    BY DEF TypeOK
  <2>3. [result |-> "timeout", candidate |-> delivery.candidate, authenticated |-> TRUE]
          \in [result : Decisions \cup {"timeout", "denied", "selected"},
               candidate : Candidates, authenticated : BOOLEAN]
    BY <1>a
  <2> QED BY <2>1, <2>2, <2>3
<1>c. /\ pc = "expire" /\ pc' = "expired"
      /\ UNCHANGED <<log, manifest, crashes, selection, delivery, records, outcome, target,
                     call, world>>
  BY DEF AuditTimeout, Continue
<1>1. TypeOK'
  BY <1>b, <1>c DEF TypeOK, PCs, outcome, target, call, world
<1>2. ControlInv'
  BY <1>c DEF ControlInv, call, PCs, Deciding, Materializing, Handing
<1>3. RecordInv'
  BY <1>c DEF RecordInv
<1> QED BY <1>1, <1>2, <1>3

LEMMA TimeOutStep ==
    ASSUME WorkflowInv, TimeOut
    PROVE  WorkflowInv'
<1> USE DeliveryAssumption DEF DeliveryAssumption, WorkflowInv
<1>a. delivery \in DeliveryRecords
  BY DeliveryIs DEF ControlInv, RecordInv, TimeOut, Deciding
<1>b. /\ delivery' \in DeliveryRecords
      /\ delivery'.candidate = delivery.candidate /\ delivery'.deadline = delivery.deadline
  <2>1. \/ delivery' = [delivery EXCEPT !.mode = "suggest", !.state = "timed_out",
                            !.approval = "timed_out", !.permitted = TRUE]
        \/ delivery' = [delivery EXCEPT !.state = "failed", !.approval = "timed_out"]
        \/ delivery' = [delivery EXCEPT !.state = "timed_out", !.approval = "timed_out"]
    BY DEF TimeOut
  <2> HIDE DEF WorkflowInv
  <2>2. CASE delivery' = [delivery EXCEPT !.mode = "suggest", !.state = "timed_out",
                              !.approval = "timed_out", !.permitted = TRUE]
    BY <1>a, <2>2 DEF DeliveryRecords, DeliveryState, ApprovalStatus, DeliveryMode
  <2>3. CASE delivery' = [delivery EXCEPT !.state = "failed", !.approval = "timed_out"]
    BY <1>a, <2>3 DEF DeliveryRecords, DeliveryState, ApprovalStatus
  <2>4. CASE delivery' = [delivery EXCEPT !.state = "timed_out", !.approval = "timed_out"]
    BY <1>a, <2>4 DEF DeliveryRecords, DeliveryState, ApprovalStatus
  <2> QED BY <2>1, <2>2, <2>3, <2>4
<1>c. /\ config' \in Configurations
      /\ candidate' \in {candidate, delivery.candidate}
      /\ pc' = "start" => candidate' = delivery.candidate
  BY DEF TypeOK, Configurations, DeliveryMode, TimeOut, Continue
<1>d. /\ pc = "expired" /\ pc' \in {"start", "fail", "complete"}
      /\ UNCHANGED <<log, manifest, crashes, selection, records, audit, outcome, target,
                     action, authenticated, world>>
  BY DEF TimeOut, Continue, approvals
<1>1. TypeOK'
  BY <1>a, <1>b, <1>c, <1>d DEF TypeOK, PCs, DeliveryRecords, outcome, target, world
<1>2. ControlInv'
  BY <1>a, <1>c, <1>d DEF ControlInv, RecordInv, PCs, Deciding, Materializing, Handing
<1>3. RecordInv'
  BY <1>b, <1>d DEF RecordInv, ControlInv, Deciding
<1> QED BY <1>1, <1>2, <1>3

LEMMA ResumeMaterializationStep ==
    ASSUME WorkflowInv, ResumeMaterialization
    PROVE  WorkflowInv'
<1> USE DeliveryAssumption DEF DeliveryAssumption, WorkflowInv
<1>1. TypeOK'
  BY DEF TypeOK, ResumeMaterialization, Continue, approvals, outcome, target, world,
     PCs
<1>2. ControlInv'
  BY DEF ControlInv, ResumeMaterialization, Continue, approvals, outcome, target,
     world, Deciding, Materializing, Handing, TypeOK
<1>3. RecordInv'
  BY DEF RecordInv, ResumeMaterialization, Continue, approvals, outcome, target,
     world, ControlInv, Materializing, Deciding
<1> QED BY <1>1, <1>2, <1>3

LEMMA RequestStep ==
    ASSUME WorkflowInv, Request
    PROVE  WorkflowInv'
<1> USE DeliveryAssumption DEF DeliveryAssumption, WorkflowInv
<1>1. PICK auth \in BOOLEAN, a \in Decisions \cup {"choose_candidate"},
           c \in Candidates \cup {Nobody} :
         /\ RequestAction(a, c, auth)
         /\ a = "choose_candidate" => c # Nobody
  BY DEF Request, Approve, Decline, ChooseCandidate, Decisions
<1>a. /\ pc = "idle" /\ log = "AWAITING_APPROVAL"
      /\ config' = manifest /\ action' = a /\ candidate' = c /\ authenticated' = auth
      /\ UNCHANGED <<log, manifest, crashes, selection, delivery, records, audit, outcome,
                     target, world>>
  BY <1>1 DEF RequestAction, Continue, approvals
<1>b. /\ pc' \in {"expire", "deny", "choose", "decide"}
      /\ (pc' \in {"choose"} => a = "choose_candidate")
                /\ (pc' = "decide" => a # "choose_candidate")
  BY <1>1 DEF RequestAction, Continue
<1>2. TypeOK'
  BY <1>a, <1>b DEF TypeOK, PCs, outcome, target, world
<1>3. ControlInv'
  BY <1>1, <1>a, <1>b DEF ControlInv, PCs, Deciding, Materializing, Handing
<1>4. RecordInv'
  BY <1>a, <1>b DEF RecordInv
<1> QED BY <1>2, <1>3, <1>4

LEMMA ResumeStep ==
    ASSUME WorkflowInv, Resume
    PROVE  WorkflowInv'
<1> USE DeliveryAssumption DEF DeliveryAssumption, WorkflowInv
<1>a. /\ config' = manifest
      /\ UNCHANGED <<log, manifest, crashes, selection, delivery, records, audit, outcome,
                     target, action, authenticated, candidate, world>>
  BY DEF Resume, Continue, approvals
<1>b. \/ log = "SELECTING" /\ pc' = "continue"
      \/ log = "AWAITING_APPROVAL" /\ pc' = "expire"
      \/ log = "MATERIALIZING" /\ pc' = "rematerialize"
  BY DEF Resume, Continue, Expired
<1>2. TypeOK'
  BY <1>a, <1>b DEF TypeOK, PCs, outcome, target, world
<1>3. ControlInv'
  BY <1>a, <1>b DEF ControlInv, PCs, Deciding, Materializing, Handing
<1>4. RecordInv'
  BY <1>a, <1>b DEF RecordInv
<1> QED BY <1>2, <1>3, <1>4

LEMMA CancelStep ==
    ASSUME WorkflowInv, Cancel
    PROVE  WorkflowInv'
<1> USE DeliveryAssumption DEF DeliveryAssumption, WorkflowInv
<1>1. TypeOK'
  BY DEF TypeOK, Cancel, approvals, outcome, target, world, PCs, States,
     TERMINAL_STATES
<1>2. ControlInv'
  BY DEF ControlInv, Cancel, approvals, outcome, target, world, Deciding,
     Materializing, Handing
<1>3. RecordInv'
  BY DEF RecordInv, Cancel, approvals, outcome, target, world, ControlInv,
     Materializing, Deciding
<1> QED BY <1>1, <1>2, <1>3

LEMMA CrashStep ==
    ASSUME WorkflowInv, Crash
    PROVE  WorkflowInv'
<1> USE DeliveryAssumption DEF DeliveryAssumption, WorkflowInv
<1>b. crashes \in 0 .. MaxCrashes /\ torn \in BOOLEAN
  BY DEF TypeOK
<1>c. /\ pc' = "idle"
      /\ UNCHANGED <<log, selection, delivery, records, audit, outcome, manifest, applied,
                     call, world>>
  BY DEF Crash, approvals
<1>a. crashes' \in 0 .. MaxCrashes /\ crashes <= crashes'
  BY <1>b DEF Crash
<1>d. torn' \in BOOLEAN
  BY <1>b DEF Crash
<1>2. TypeOK'
  BY <1>a, <1>c, <1>d DEF TypeOK, PCs, outcome, call, world
<1>3. ControlInv'
  BY <1>c DEF ControlInv, PCs, Deciding, Materializing, Handing
<1>5. delivery.deadline \in Nat
  BY DEF TypeOK, NoDelivery, Deadlines
<1>4. RecordInv'
  BY <1>a, <1>b, <1>c, <1>5 DEF RecordInv
<1> QED BY <1>2, <1>3, <1>4

LEMMA TickStep ==
    ASSUME WorkflowInv, Tick
    PROVE  WorkflowInv'
<1> USE DeliveryAssumption DEF DeliveryAssumption, WorkflowInv
<1>1. TypeOK'
  BY DEF TypeOK, Tick, approvals, outcome, target, call, PCs, Deadlines, NoDelivery
<1>2. ControlInv'
  BY DEF ControlInv, Tick, approvals, outcome, target, call, Deciding,
     Materializing, Handing
<1>3. RecordInv'
  BY DEF RecordInv, Tick, approvals, outcome, target, call, ControlInv,
     Materializing, Deciding
<1> QED BY <1>1, <1>2, <1>3

\* It holds in the beginning, and a stuttering step keeps it.
LEMMA InitWorkflow ==
    ASSUME Init
    PROVE  WorkflowInv
<1> USE DeliveryAssumption DEF DeliveryAssumption, Init
<1>1. manifest \in Configurations /\ config \in Configurations
  BY DEF Configurations, DeliveryMode, Settings
<1>a. applied \in [Candidates -> Nat] /\ now \in Deadlines /\ crashes \in 0 .. MaxCrashes
  BY DEF Deadlines
<1>b. /\ log \in States /\ selection \in Candidates /\ delivery = NoDelivery
      /\ pc \in PCs /\ action \in Decisions /\ candidate \in Candidates \cup {Nobody}
  BY DEF States, PCs, Decisions
<1>2. TypeOK
  BY <1>1, <1>a, <1>b DEF TypeOK
<1>3. ControlInv
  BY DEF ControlInv, Deciding, Materializing, Handing
<1>4. RecordInv
  BY DEF RecordInv, NoDelivery
<1> QED BY <1>2, <1>3, <1>4 DEF WorkflowInv

LEMMA StutterWorkflow ==
    ASSUME WorkflowInv, UNCHANGED vars
    PROVE  WorkflowInv'
BY DEF WorkflowInv, TypeOK, ControlInv, RecordInv, vars, target, approvals, outcome, call, world

\* So it is inductive.
LEMMA NextWorkflow ==
    ASSUME WorkflowInv, [Next]_vars
    PROVE  WorkflowInv'
<1>1. CASE ProcessStep
  BY <1>1, RecordDeliveryStep, AwaitApprovalStep, PauseStep, RefuseDeliveryStep,
     DeliverNowStep, StartMaterializationStep, GuardDeliveryStep, ReplayReceiptStep,
     DeliverPatchStep, DeliveryErrorStep, ReportAppliedStep, WriteReceiptStep,
     PersistMaterializationStep, FinishDeliveryStep, EndRunStep, DenyActionStep,
     RecordDecisionStep, ApproveDeliveryStep, AuditApprovalStep, AuditDeclineStep,
     DeclineDeliveryStep, ChangeSelectionStep, ReplaceDeliveryStep, AuditChangeStep,
     AuditTimeoutStep, TimeOutStep, ResumeMaterializationStep
  DEF ProcessStep
<1>2. CASE Request \/ Resume \/ Cancel \/ Crash \/ Tick
  BY <1>2, RequestStep, ResumeStep, CancelStep, CrashStep, TickStep
<1> QED BY <1>1, <1>2, StutterWorkflow DEF Next

\* The steps of the delivery workflow are taken in the states of the run that belong to
\* them, with a delivery record where they need one (_continue_delivery_workflow,
\* approval_action, _resume_materialization).
THEOREM WorkflowIsSound == Spec => []WorkflowInv
<1> QED BY InitWorkflow, NextWorkflow, PTL DEF Spec

\* Every variable of the delivery workflow keeps its type, deadlines their bound.
THEOREM TypeCorrect == Spec => []TypeOK
<1>1. WorkflowInv => TypeOK
  BY DEF WorkflowInv
<1> QED BY <1>1, WorkflowIsSound, PTL

\* Whatever is interrupted, resumed and approved, one patch at most is applied to the
\* target, and once: git apply looks at the target first.
THEOREM PatchAppliedOnce == Spec => []AppliedOnce
<1>1. Init => AppliedOnce
  BY DEF Init, AppliedOnce
<1>2. ASSUME WorkflowInv, AppliedOnce, [Next]_vars
      PROVE  AppliedOnce'
  <2>1. CASE DeliverPatch /\ applied' # applied
    <3>1. /\ \A c \in Candidates : applied[c] = 0
          /\ applied' = [applied EXCEPT ![candidate] = @ + 1]
      BY <2>1 DEF DeliverPatch, ApplyPatch, Clean
    <3>2. \A c \in Candidates : applied'[c] = IF c = candidate THEN 1 ELSE 0
      BY <3>1, <1>2 DEF WorkflowInv, TypeOK
    <3> QED BY <3>2 DEF AppliedOnce
  <2>2. CASE UNCHANGED applied
    BY <1>2, <2>2 DEF AppliedOnce
  <2>3. DeliverPatch \/ UNCHANGED applied
    BY <1>2 DEF Next, ProcessStep, vars, target, RecordDelivery, AwaitApproval, Pause,
       RefuseDelivery, DeliverNow, StartMaterialization, GuardDelivery, ReplayReceipt,
       DeliveryError, ReportApplied, WriteReceipt, PersistMaterialization, FinishDelivery, EndRun,
       DenyAction, RecordDecision, ApproveDelivery, AuditApproval, AuditDecline, DeclineDelivery,
       ChangeSelection, ReplaceDelivery, AuditChange, AuditTimeout, TimeOut,
       ResumeMaterialization, Request, Approve, Decline, ChooseCandidate, RequestAction, Resume,
       Cancel, Crash, Tick
  <2> QED BY <2>1, <2>2, <2>3
<1> QED BY <1>1, <1>2, WorkflowIsSound, PTL DEF Spec
-----------------------------------------------------------------------------
\* The approval of c was audited, and came from somebody who was allowed to give it.
Audited(c) ==
    \E e \in audit : /\ e.result = "approve" /\ e.candidate = c
                     /\ AuthenticationRequired => e.authenticated

\* It is on file.
Filed(c) == \E r \in records : r.candidate = c /\ r.decision = "approved"

\* What manifest.json says of approvals is true.
ManifestInv ==
    /\ manifest.guarded /\ manifest.records \subseteq records
    /\ \A r \in manifest.records : r.decision = "approved" => Audited(r.candidate)

\* The process has recorded an approval and not audited it yet.
Approving == pc \in {"approved", "audited"} /\ action = "approve"

\* So is what a process has in memory, but for the approval it carries out.
ProcessInv ==
    pc # "idle" =>
      /\ config.guarded /\ config.records \subseteq records
      /\ \A r \in config.records : r.decision = "approved" =>
            Audited(r.candidate) \/ (Approving /\ r.candidate = delivery.candidate)
      /\ pc \in {"decide", "approved", "declined", "audited"} => Permitted(authenticated)
      /\ pc = "declined" => action # "approve"
      /\ pc = "deliver" /\ Kind = "local_patch_apply" => Filed(candidate) /\ Audited(candidate)

\* What was applied was approved.
TargetInv == \A c \in Candidates : applied[c] > 0 => Filed(c) /\ Audited(c)

GuardInv == ManifestInv /\ ProcessInv /\ TargetInv

\* Being on file and being audited is for ever.
LEMMA EvidenceStays ==
    ASSUME records \subseteq records', audit \subseteq audit', NEW c
    PROVE  (Filed(c) => Filed(c)') /\ (Audited(c) => Audited(c)')
BY DEF Filed, Audited

LEMMA TargetStays ==
    ASSUME TargetInv, records \subseteq records', audit \subseteq audit', UNCHANGED applied
    PROVE  TargetInv'
BY EvidenceStays DEF TargetInv

\* A step that approves nothing and delivers nothing: it may make the configuration
\* durable, or end the process.
LEMMA QuietStep ==
    ASSUME GuardInv, pc # "idle", ~Approving,
           records' = records, audit \subseteq audit', UNCHANGED applied,
           config'.records = config.records, config'.guarded = config.guarded,
           manifest' \in {manifest, config},
           pc' \notin {"decide", "approved", "audited", "declined", "deliver"}
    PROVE  GuardInv'
<1>1. \A r \in config.records : r.decision = "approved" => Audited(r.candidate)'
  BY EvidenceStays DEF GuardInv, ProcessInv
<1>2. \A r \in manifest.records : r.decision = "approved" => Audited(r.candidate)'
  BY EvidenceStays DEF GuardInv, ManifestInv
<1>3. ManifestInv'
  BY <1>1, <1>2 DEF GuardInv, ManifestInv, ProcessInv
<1>4. ProcessInv'
  BY <1>1 DEF GuardInv, ProcessInv
<1>5. TargetInv'
  BY TargetStays DEF GuardInv
<1> QED BY <1>3, <1>4, <1>5 DEF GuardInv

\* A process takes over with the configuration that is on disk.
LEMMA TakeOver ==
    ASSUME GuardInv, UNCHANGED <<records, audit, applied, manifest>>,
           config' = manifest,
           pc' \notin {"approved", "audited", "declined", "deliver"},
           pc' = "decide" => Permitted(authenticated')
    PROVE  GuardInv'
<1>1. ManifestInv'
  BY EvidenceStays DEF GuardInv, ManifestInv
<1>2. ProcessInv'
  BY EvidenceStays DEF GuardInv, ManifestInv, ProcessInv, Permitted
<1>3. TargetInv'
  BY TargetStays DEF GuardInv
<1> QED BY <1>1, <1>2, <1>3 DEF GuardInv

\* The guard lets a patch pass whose approval is on file and audited.
LEMMA GuardDeliveryGuarded ==
    ASSUME WorkflowInv, GuardInv, GuardDelivery
    PROVE  GuardInv'
<1>1. /\ pc = "guard" /\ pc' \in {"deliver", "refused"}
      /\ pc' = "deliver" => (ApprovalRequired => \E r \in config.records : Covers(r))
      /\ UNCHANGED <<records, audit, applied, manifest, config, candidate, delivery, action,
                     authenticated>>
  BY DEF GuardDelivery, Continue, approvals, target, call
<1>2. ASSUME pc' = "deliver", Kind = "local_patch_apply"
      PROVE  Filed(candidate) /\ Audited(candidate)
  <2>1. PICK r \in config.records : Covers(r)
    BY <1>1, <1>2 DEF ApprovalRequired, GuardInv, ProcessInv
  <2> QED BY <1>1, <2>1 DEF Covers, GuardInv, ProcessInv, Approving, Filed
<1>3. ManifestInv'
  BY <1>1, EvidenceStays DEF GuardInv, ManifestInv
<1>4. Kind' = Kind
  BY <1>1 DEF Kind
<1>5. ProcessInv'
  BY <1>1, <1>2, <1>4, EvidenceStays DEF GuardInv, ProcessInv, Approving
<1>6. TargetInv'
  BY <1>1, TargetStays DEF GuardInv
<1> QED BY <1>3, <1>5, <1>6 DEF GuardInv

LEMMA DeliverPatchGuarded ==
    ASSUME WorkflowInv, GuardInv, DeliverPatch
    PROVE  GuardInv'
<1>1. /\ pc = "deliver" /\ pc' \in {"applied", "receipt"}
      /\ UNCHANGED <<records, audit, manifest, config, candidate, delivery, action,
                     authenticated>>
  BY DEF DeliverPatch, ApplyPatch, Continue, approvals, call
<1>2. \/ UNCHANGED applied
      \/ Kind = "local_patch_apply" /\ applied' = [applied EXCEPT ![candidate] = @ + 1]
  BY DEF DeliverPatch, ApplyPatch
<1>3. ManifestInv'
  BY <1>1, EvidenceStays DEF GuardInv, ManifestInv
<1>4. ProcessInv'
  BY <1>1, EvidenceStays DEF GuardInv, ProcessInv, Approving
<1>5. TargetInv'
  <2>1. CASE UNCHANGED applied
    BY <1>1, <2>1, TargetStays DEF GuardInv
  <2>2. CASE Kind = "local_patch_apply" /\ applied' = [applied EXCEPT ![candidate] = @ + 1]
    <3>1. Filed(candidate) /\ Audited(candidate)
      BY <1>1, <2>2 DEF GuardInv, ProcessInv
    <3>2. \A c \in Candidates : c # candidate => applied'[c] = applied[c]
      BY <2>2 DEF WorkflowInv, TypeOK
    <3>3. \A c \in Candidates : applied'[c] > 0 => Filed(c) /\ Audited(c)
      BY <3>1, <3>2 DEF GuardInv, TargetInv
    <3> QED BY <1>1, <3>3, EvidenceStays DEF TargetInv
  <2> QED BY <1>2, <2>1, <2>2
<1> QED BY <1>3, <1>4, <1>5 DEF GuardInv

\* An approval is recorded, carried out, and audited, in this order.
LEMMA RecordDecisionGuarded ==
    ASSUME WorkflowInv, GuardInv, RecordDecision
    PROVE  GuardInv'
<1> DEFINE r == [candidate |-> delivery.candidate,
                 decision |-> IF action = "approve" THEN "approved" ELSE "denied",
                 expires |-> delivery.deadline]
<1>1. /\ records' = records \cup {r}
      /\ config' = [config EXCEPT !.guarded = TRUE, !.records = @ \cup {r}]
      /\ pc = "decide"
      /\ pc' = IF action = "approve" THEN "approved" ELSE "declined"
      /\ UNCHANGED <<audit, applied, manifest, delivery, action, authenticated>>
  BY DEF RecordDecision, Continue, target
<1>2. r.candidate = delivery.candidate /\ (r.decision = "approved" => action = "approve")
  OBVIOUS
<1> HIDE DEF r
<1>3. config'.guarded = TRUE /\ config'.records = config.records \cup {r}
  BY <1>1 DEF WorkflowInv, TypeOK, Configurations
<1>4. \A q \in config.records : q.decision = "approved" => Audited(q.candidate)'
  BY <1>1, EvidenceStays DEF GuardInv, ProcessInv, Approving
<1>5. ManifestInv'
  BY <1>1, EvidenceStays DEF GuardInv, ManifestInv
<1>6. ProcessInv'
  BY <1>1, <1>2, <1>3, <1>4 DEF GuardInv, ProcessInv, Approving, Permitted
<1>7. TargetInv'
  BY <1>1, TargetStays DEF GuardInv
<1> QED BY <1>5, <1>6, <1>7 DEF GuardInv

LEMMA ApproveDeliveryGuarded ==
    ASSUME WorkflowInv, GuardInv, ApproveDelivery
    PROVE  GuardInv'
<1>1. /\ pc = "approved" /\ pc' = "audited"
      /\ UNCHANGED <<records, audit, applied, manifest, config, action, authenticated>>
  BY DEF ApproveDelivery, Continue, approvals, target, call
<1>2. delivery'.candidate = delivery.candidate
  <2>1. delivery \in DeliveryRecords
    BY DeliveryIs, <1>1 DEF WorkflowInv, ControlInv, RecordInv, Deciding
  <2> QED BY <2>1 DEF ApproveDelivery, DeliveryRecords
<1>3. ManifestInv'
  BY <1>1, EvidenceStays DEF GuardInv, ManifestInv
<1>4. ProcessInv'
  BY <1>1, <1>2, EvidenceStays DEF GuardInv, ProcessInv, Approving, Permitted
<1>5. TargetInv'
  BY <1>1, TargetStays DEF GuardInv
<1> QED BY <1>3, <1>4, <1>5 DEF GuardInv

LEMMA AuditApprovalGuarded ==
    ASSUME WorkflowInv, GuardInv, AuditApproval
    PROVE  GuardInv'
<1>1. /\ pc = "audited" /\ pc' = "start" /\ action = "approve"
      /\ audit' = audit \cup {[result |-> "approve", candidate |-> delivery.candidate,
                               authenticated |-> authenticated]}
      /\ UNCHANGED <<records, applied, manifest, config, delivery>>
  BY DEF AuditApproval, Audit, Continue, target
<1>2. Audited(delivery.candidate)'
  <2>1. Permitted(authenticated)
    BY <1>1 DEF GuardInv, ProcessInv
  <2>2. [result |-> "approve", candidate |-> delivery.candidate,
         authenticated |-> authenticated] \in audit'
    BY <1>1
  <2> QED BY <1>1, <2>1, <2>2 DEF Audited, Permitted
<1>3. \A q \in config.records : q.decision = "approved" => Audited(q.candidate)'
  BY <1>1, <1>2, EvidenceStays DEF GuardInv, ProcessInv
<1>4. ManifestInv'
  BY <1>1, EvidenceStays DEF GuardInv, ManifestInv
<1>5. ProcessInv'
  BY <1>1, <1>3 DEF GuardInv, ProcessInv
<1>6. TargetInv'
  BY <1>1, TargetStays DEF GuardInv
<1> QED BY <1>4, <1>5, <1>6 DEF GuardInv

LEMMA AuditDeclineGuarded ==
    ASSUME WorkflowInv, GuardInv, AuditDecline
    PROVE  GuardInv'
<1>1. /\ pc = "declined" /\ pc' = "audited" /\ audit \subseteq audit' /\ action # "approve"
      /\ UNCHANGED <<records, applied, manifest, config, delivery, action, authenticated>>
  BY DEF AuditDecline, Audit, Continue, target, call, GuardInv, ProcessInv
<1>2. \A q \in config.records : q.decision = "approved" => Audited(q.candidate)'
  BY <1>1, EvidenceStays DEF GuardInv, ProcessInv, Approving
<1>3. ManifestInv'
  BY <1>1, EvidenceStays DEF GuardInv, ManifestInv
<1>4. ProcessInv'
  BY <1>1, <1>2 DEF GuardInv, ProcessInv, Permitted
<1>5. TargetInv'
  BY <1>1, TargetStays DEF GuardInv
<1> QED BY <1>3, <1>4, <1>5 DEF GuardInv

\* Such are all steps of a process but the six that follow them.
Quiet ==
    \/ RecordDelivery \/ AwaitApproval \/ Pause \/ RefuseDelivery \/ DeliverNow
    \/ StartMaterialization \/ ReplayReceipt \/ DeliveryError \/ ReportApplied
    \/ WriteReceipt \/ PersistMaterialization \/ FinishDelivery \/ EndRun \/ DenyAction
    \/ DeclineDelivery \/ ChangeSelection \/ ReplaceDelivery \/ AuditChange
    \/ AuditTimeout \/ TimeOut \/ ResumeMaterialization

LEMMA QuietGuarded ==
    ASSUME WorkflowInv, GuardInv, Quiet
    PROVE  GuardInv'
<1> USE DEF Continue, Transition, approvals, target, call, Audit
<1>1. /\ pc # "idle" /\ ~Approving
      /\ pc' \notin {"decide", "approved", "audited", "declined", "deliver"}
      /\ records' = records /\ audit \subseteq audit' /\ UNCHANGED applied
      /\ manifest' \in {manifest, config}
      /\ config'.records = config.records /\ config'.guarded = config.guarded
  <2>1. CASE RecordDelivery
    BY <2>1 DEF RecordDelivery, Approving
  <2>2. CASE AwaitApproval
    BY <2>2 DEF AwaitApproval, Approving
  <2>3. CASE Pause
    BY <2>3 DEF Pause, Approving
  <2>4. CASE RefuseDelivery
    BY <2>4 DEF RefuseDelivery, Approving
  <2>5. CASE DeliverNow
    BY <2>5 DEF DeliverNow, Approving
  <2>6. CASE StartMaterialization
    BY <2>6 DEF StartMaterialization, Approving
  <2>7. CASE ReplayReceipt
    BY <2>7 DEF ReplayReceipt, Approving
  <2>8. CASE DeliveryError
    BY <2>8 DEF DeliveryError, Approving
  <2>9. CASE ReportApplied
    BY <2>9 DEF ReportApplied, Approving
  <2>10. CASE WriteReceipt
    BY <2>10 DEF WriteReceipt, Approving
  <2>11. CASE PersistMaterialization
    BY <2>11 DEF PersistMaterialization, Approving
  <2>12. CASE FinishDelivery
    BY <2>12 DEF FinishDelivery, Approving
  <2>13. CASE EndRun
    BY <2>13 DEF EndRun, Approving
  <2>14. CASE DenyAction
    BY <2>14 DEF DenyAction, Approving
  <2>15. CASE DeclineDelivery
    BY <2>15 DEF DeclineDelivery, Approving
  <2>16. CASE ChangeSelection
    BY <2>16 DEF ChangeSelection, Approving
  <2>17. CASE ReplaceDelivery
    BY <2>17 DEF ReplaceDelivery, Approving
  <2>18. CASE AuditChange
    BY <2>18 DEF AuditChange, Approving
  <2>19. CASE AuditTimeout
    BY <2>19 DEF AuditTimeout, Approving
  <2>20. CASE TimeOut
    <3>1. config \in Configurations
      BY DEF WorkflowInv, TypeOK
    <3>2. config'.records = config.records /\ config'.guarded = config.guarded
      BY <2>20, <3>1 DEF TimeOut, Configurations
    <3> QED BY <2>20, <3>2 DEF TimeOut, Approving
  <2>21. CASE ResumeMaterialization
    <3>1. materialization \in {"none", "succeeded", "failed"}
      BY DEF WorkflowInv, TypeOK
    <3> QED BY <2>21, <3>1 DEF ResumeMaterialization, Approving
  <2> QED BY <2>1, <2>2, <2>3, <2>4, <2>5, <2>6, <2>7, <2>8, <2>9, <2>10, <2>11, <2>12,
     <2>13, <2>14, <2>15, <2>16, <2>17, <2>18, <2>19, <2>20, <2>21 DEF Quiet
<1> QED BY <1>1, QuietStep

\* The steps of others.
LEMMA RequestGuarded ==
    ASSUME WorkflowInv, GuardInv, Request
    PROVE  GuardInv'
<1>1. PICK auth \in BOOLEAN, a \in Decisions \cup {"choose_candidate"},
           c \in Candidates \cup {Nobody} :
         RequestAction(a, c, auth)
  BY DEF Request, Approve, Decline, ChooseCandidate, Decisions
<1> QED BY <1>1, TakeOver DEF RequestAction, Continue, approvals, target

LEMMA ResumeGuarded ==
    ASSUME WorkflowInv, GuardInv, Resume
    PROVE  GuardInv'
BY TakeOver DEF Resume, Continue, approvals, target

LEMMA CancelGuarded ==
    ASSUME WorkflowInv, GuardInv, Cancel
    PROVE  GuardInv'
BY TakeOver DEF Cancel, approvals, target

LEMMA CrashGuarded ==
    ASSUME WorkflowInv, GuardInv, Crash
    PROVE  GuardInv'
<1>1. pc' = "idle" /\ UNCHANGED <<records, audit, manifest, applied>>
  BY DEF Crash, approvals
<1>2. ManifestInv'
  BY <1>1, EvidenceStays DEF GuardInv, ManifestInv
<1>3. TargetInv'
  BY <1>1, TargetStays DEF GuardInv
<1> QED BY <1>1, <1>2, <1>3 DEF GuardInv, ProcessInv

\* Time, and a step that changes nothing.
LEMMA TickGuarded ==
    ASSUME GuardInv,
           UNCHANGED <<delivery, records, audit, manifest, applied, pc, config, action,
                       authenticated, candidate>>
    PROVE  GuardInv'
<1>1. ManifestInv'
  BY EvidenceStays DEF GuardInv, ManifestInv
<1>2. ProcessInv'
  BY EvidenceStays DEF GuardInv, ProcessInv, Approving, Permitted, Kind
<1>3. TargetInv'
  BY TargetStays DEF GuardInv
<1> QED BY <1>1, <1>2, <1>3 DEF GuardInv

\* GuardInv is inductive together with WorkflowInv, where a policy is configured.
LEMMA NextGuarded ==
    ASSUME WorkflowInv, GuardInv, [Next]_vars
    PROVE  GuardInv'
<1>1. CASE ProcessStep
  BY <1>1, QuietGuarded, GuardDeliveryGuarded, DeliverPatchGuarded, RecordDecisionGuarded,
     ApproveDeliveryGuarded, AuditApprovalGuarded, AuditDeclineGuarded
  DEF ProcessStep, Quiet
<1>2. CASE Request \/ Resume \/ Cancel \/ Crash
  BY <1>2, RequestGuarded, ResumeGuarded, CancelGuarded, CrashGuarded
<1>3. CASE Tick \/ UNCHANGED vars
  BY <1>3, TickGuarded DEF Tick, vars, approvals, target, call
<1> QED BY <1>1, <1>2, <1>3 DEF Next

LEMMA InitGuarded ==
    ASSUME Init, Guarded = TRUE
    PROVE  GuardInv
<1>1. manifest.guarded = TRUE /\ manifest.records = {} /\ config = manifest
  BY DEF Init
<1>2. ManifestInv
  BY <1>1 DEF ManifestInv
<1>3. ProcessInv
  BY <1>1 DEF Init, ProcessInv
<1>4. TargetInv
  BY DEF Init, TargetInv
<1> QED BY <1>2, <1>3, <1>4 DEF GuardInv

\* With an approval policy in the configuration no patch reaches the target without an
\* explicit approval of that candidate on file, by somebody who was allowed to give it,
\* and audited: whatever crashes, timeouts and changes of the candidate interrupt.
THEOREM ApprovalsAreExplicit ==
    ASSUME Guarded = TRUE
    PROVE  Spec => []AppliedIsApproved
<1>1. GuardInv => AppliedIsApproved
  BY DEF GuardInv, TargetInv, AppliedIsApproved, Filed, Audited
<1>2. Init => GuardInv
  BY InitGuarded
<1>3. WorkflowInv /\ GuardInv /\ [Next]_vars => GuardInv'
  BY NextGuarded
<1> QED BY <1>1, <1>2, <1>3, WorkflowIsSound, PTL DEF Spec
-----------------------------------------------------------------------------
\* Where the report of a run can be trusted: an approval policy is configured from the
\* start, or neither the candidate nor the mode changes while the run waits.
Trusted == Guarded = TRUE \/ (AllowChange = FALSE /\ "suggest" \notin TimeoutPolicies)

Declined == {"suggested", "rejected", "rerun_requested", "timed_out"}

\* The steps before a decision, those that carry one out, and those that deliver.
Undecided == {"continue", "await", "expire", "expired", "deny", "decide", "choose",
              "replace", "changed"}
Carrying == {"decide", "approved", "declined", "audited", "choose", "replace", "changed"}
Delivering == {"deliver", "applied", "receipt", "persist"}

\* A configuration that a delivery may be carried out with: that of the delivery record,
\* or one under which the guard lets nothing be applied.
Agrees(cf) ==
    /\ \/ cf.mode = delivery.mode
       \/ cf.guarded = TRUE /\ cf.mode = "approve" /\ cf.records = {} /\ delivery.mode = "suggest"
    /\ \A r \in cf.records : r.candidate = delivery.candidate

\* The delivery record and the manifest say what the user asked for, or what a timeout
\* has made of it for good.
OrderInv ==
    /\ log \in {"SELECTING", "AWAITING_APPROVAL", "MATERIALIZING"} \cup TERMINAL_STATES
    /\ log \in {"SELECTING", "AWAITING_APPROVAL"} =>
          manifest.mode = requested.mode /\ manifest.records = {}
    /\ log = "AWAITING_APPROVAL" => requested.mode = "approve"
    /\ log = "SELECTING" => delivery.approval # "timed_out"
    /\ log = "AWAITING_APPROVAL" /\ delivery.approval = "timed_out" => Late
    /\ log = "MATERIALIZING" => Agrees(manifest)
    /\ delivery.candidate # Nobody =>
          \/ delivery.mode = requested.mode
          \/ /\ delivery.mode = "suggest" /\ delivery.approval = "timed_out"
             /\ requested.mode = "approve" /\ requested.timeout_policy = "suggest"
    /\ Guarded = TRUE => manifest.guarded = TRUE
    /\ Guarded = FALSE => delivery.candidate \in {Nobody, selection}

Reported == IF delivery.state = "applied"
            THEN delivery.candidate # Nobody /\ applied[delivery.candidate] = 1
            ELSE delivery.state \in Declined /\ Untouched

\* What the target holds, and what the files say of it.
HoldsInv ==
    /\ torn = TRUE => \A c \in Candidates : applied[c] = 0
    /\ \A c \in Candidates : applied[c] > 0 => c = delivery.candidate /\ applied[c] = 1
    /\ ~Untouched => /\ log \notin {"SELECTING", "AWAITING_APPROVAL", "CANCELLED"}
                     /\ delivery.mode # "suggest" /\ delivery.state \notin Declined
    /\ log = "MATERIALIZING" => delivery.mode = "suggest" \/ delivery.state \notin Declined
    /\ log = "SELECTING" => delivery.state \notin Declined
    /\ \A c \in Candidates : <<c, "local_patch_apply">> \in receipts => applied[c] > 0
    /\ materialization = "succeeded" =>
          \/ delivery.mode = "suggest"
          \/ delivery.candidate # Nobody /\ applied[delivery.candidate] > 0
    /\ log \in {"SELECTING", "AWAITING_APPROVAL"} => materialization = "none"
    /\ log = "COMPLETED" => Reported

\* What the process is about to do follows from what it has read and written.
CourseInv ==
    /\ pc # "idle" => log \notin TERMINAL_STATES
    /\ Guarded = TRUE /\ pc # "idle" => config.guarded = TRUE
    /\ Guarded = FALSE /\ pc \in Handing => candidate = selection
    /\ pc \in Undecided \cup Carrying => config.mode = requested.mode
    /\ pc \in Undecided => config.records = {}
    /\ pc = "await" => delivery.mode = "approve"
    /\ pc \in {"expire", "expired"} => Late
    /\ pc = "declined" => action # "approve"
    /\ pc = "audited" /\ action = "approve" => delivery.state \notin Declined
    /\ pc \in Carrying => /\ delivery.approval # "timed_out"
                          /\ \A r \in config.records : r.candidate = delivery.candidate
    /\ pc = "start" => /\ Agrees(config)
                       /\ delivery.mode = "suggest" \/ delivery.state \notin Declined
    /\ pc \in Materializing => config = manifest
    /\ pc \in Delivering => /\ Kind = KindOf(delivery.mode)
                            /\ Kind = "local_patch_apply" => candidate = delivery.candidate
    /\ pc \in {"applied", "receipt", "persist"} /\ Kind = "local_patch_apply" =>
          applied[candidate] > 0
    /\ pc = "finish" => materialization = "succeeded"
    /\ pc = "complete" => Reported

ReportInv == OrderInv /\ HoldsInv /\ CourseInv

\* Where a run may be cancelled, and handed to the materializers.
LEMMA TransitionTable ==
    ASSUME NEW s \in States
    PROVE  /\ "CANCELLED" \in ALLOWED_TRANSITIONS[s] =>
                 s \notin TERMINAL_STATES /\ s # "MATERIALIZING"
           /\ "MATERIALIZING" \in ALLOWED_TRANSITIONS[s] =>
                 s \in {"SELECTING", "AWAITING_APPROVAL"}
BY DEF ALLOWED_TRANSITIONS, TERMINAL_STATES, States

\* What a step of the process leaves on disk, if it writes nothing.
store == <<log, selection, delivery, materialization, receipts, manifest, applied, torn, world>>

LEMMA StoreStays ==
    ASSUME ReportInv, UNCHANGED store
    PROVE  OrderInv' /\ HoldsInv'
<1>1. OrderInv'
  BY DEF ReportInv, OrderInv, store, world, Agrees, Late
<1>2. HoldsInv'
  BY DEF ReportInv, HoldsInv, store, Reported, Untouched
<1> QED BY <1>1, <1>2

\* Nothing is left to be said of a process that has ended.
LEMMA IdleReport ==
    ASSUME pc' = "idle"
    PROVE  CourseInv'
BY DEF CourseInv, Undecided, Carrying, Delivering, Materializing, Handing

LEMMA ReplayReceiptReport ==
    ASSUME WorkflowInv, ReportInv, ReplayReceipt
    PROVE  ReportInv'
<1>1. /\ pc = "deliver" /\ pc' \in {"persist"}
      /\ <<candidate, Kind>> \in receipts
      /\ UNCHANGED <<config, action, candidate, store>>
  BY DEF ReplayReceipt, Continue, store, outcome, target, call, world
<1>2. OrderInv' /\ HoldsInv'
  BY <1>1, StoreStays
<1>3. CourseInv'
  BY <1>1 DEF ReportInv, CourseInv, store, world, Agrees, Reported, Untouched, Kind, Late,
     PCs, Undecided, Carrying, Delivering, Deciding, Materializing, Handing,
     HoldsInv, WorkflowInv, TypeOK, ControlInv
<1> QED BY <1>2, <1>3 DEF ReportInv

LEMMA DeliveryErrorReport ==
    ASSUME WorkflowInv, ReportInv, DeliveryError
    PROVE  ReportInv'
<1>1. /\ pc = "deliver" /\ pc' \in {"refused"}
      /\ UNCHANGED <<config, action, candidate, store>>
  BY DEF DeliveryError, Continue, store, outcome, target, call, world
<1>2. OrderInv' /\ HoldsInv'
  BY <1>1, StoreStays
<1>3. CourseInv'
  BY <1>1 DEF ReportInv, CourseInv, store, world, Agrees, Reported, Untouched, Kind, Late,
     PCs, Undecided, Carrying, Delivering, Deciding, Materializing, Handing
<1> QED BY <1>2, <1>3 DEF ReportInv

LEMMA DenyActionReport ==
    ASSUME WorkflowInv, ReportInv, DenyAction
    PROVE  ReportInv'
<1>1. /\ pc = "deny" /\ pc' \in {"idle"}
      /\ UNCHANGED <<config, action, candidate, store>>
  BY DEF DenyAction, Continue, store, outcome, target, call, world
<1>2. OrderInv' /\ HoldsInv'
  BY <1>1, StoreStays
<1>3. CourseInv'
  BY <1>1 DEF ReportInv, CourseInv, store, world, Agrees, Reported, Untouched, Kind, Late,
     PCs, Undecided, Carrying, Delivering, Deciding, Materializing, Handing
<1> QED BY <1>2, <1>3 DEF ReportInv

LEMMA AuditDeclineReport ==
    ASSUME WorkflowInv, ReportInv, AuditDecline
    PROVE  ReportInv'
<1>1. /\ pc = "declined" /\ pc' \in {"audited"}
      /\ UNCHANGED <<config, action, candidate, store>>
  BY DEF AuditDecline, Continue, store, outcome, target, call, world
<1>2. OrderInv' /\ HoldsInv'
  BY <1>1, StoreStays
<1>3. CourseInv'
  BY <1>1 DEF ReportInv, CourseInv, store, world, Agrees, Reported, Untouched, Kind, Late,
     PCs, Undecided, Carrying, Delivering, Deciding, Materializing, Handing
<1> QED BY <1>2, <1>3 DEF ReportInv

LEMMA AuditChangeReport ==
    ASSUME WorkflowInv, ReportInv, AuditChange
    PROVE  ReportInv'
<1>1. /\ pc = "changed" /\ pc' \in {"idle"}
      /\ UNCHANGED <<config, action, candidate, store>>
  BY DEF AuditChange, Continue, store, outcome, target, call, world
<1>2. OrderInv' /\ HoldsInv'
  BY <1>1, StoreStays
<1>3. CourseInv'
  BY <1>1 DEF ReportInv, CourseInv, store, world, Agrees, Reported, Untouched, Kind, Late,
     PCs, Undecided, Carrying, Delivering, Deciding, Materializing, Handing
<1> QED BY <1>2, <1>3 DEF ReportInv

LEMMA AuditTimeoutReport ==
    ASSUME WorkflowInv, ReportInv, AuditTimeout
    PROVE  ReportInv'
<1>1. /\ pc = "expire" /\ pc' \in {"expired"}
      /\ UNCHANGED <<config, action, candidate, store>>
  BY DEF AuditTimeout, Continue, store, outcome, target, call, world
<1>2. OrderInv' /\ HoldsInv'
  BY <1>1, StoreStays
<1>3. CourseInv'
  BY <1>1 DEF ReportInv, CourseInv, store, world, Agrees, Reported, Untouched, Kind, Late,
     PCs, Undecided, Carrying, Delivering, Deciding, Materializing, Handing
<1> QED BY <1>2, <1>3 DEF ReportInv

\* The guard lets a patch be applied that the delivery record names.
LEMMA GuardDeliveryReport ==
    ASSUME WorkflowInv, ReportInv, GuardDelivery
    PROVE  ReportInv'
<1>1. /\ pc = "guard" /\ pc' \in {"deliver", "refused"}
      /\ pc' = "deliver" => (ApprovalRequired => \E r \in config.records : Covers(r))
      /\ UNCHANGED <<config, candidate, store>>
  BY DEF GuardDelivery, Continue, store, outcome, target, call, world
<1>2. OrderInv' /\ HoldsInv'
  BY <1>1, StoreStays
<1>3. /\ log = "MATERIALIZING" /\ delivery.candidate # Nobody /\ candidate # Nobody
      /\ Agrees(config)
      /\ Guarded = TRUE => config.guarded = TRUE
      /\ Guarded = FALSE => candidate = selection /\ delivery.candidate \in {Nobody, selection}
  BY <1>1 DEF WorkflowInv, ControlInv, RecordInv, ReportInv, OrderInv, CourseInv,
     Materializing, Handing
<1>4. ASSUME pc' = "deliver"
      PROVE  /\ Kind = KindOf(delivery.mode)
             /\ Kind = "local_patch_apply" => candidate = delivery.candidate
  <2>1. CASE config.mode # delivery.mode
    BY <1>1, <1>3, <1>4, <2>1 DEF Agrees, ApprovalRequired, Kind, KindOf
  <2>2. CASE config.mode = delivery.mode /\ Guarded = TRUE
    BY <1>1, <1>3, <1>4, <2>2 DEF Agrees, ApprovalRequired, Kind, Covers
  <2>3. CASE config.mode = delivery.mode /\ Guarded = FALSE
    BY <1>3, <2>3 DEF Kind
  <2> QED BY <2>1, <2>2, <2>3, DeliveryAssumption DEF DeliveryAssumption
<1>5. CourseInv'
  BY <1>1, <1>4 DEF ReportInv, CourseInv, store, world, Kind, Undecided, Carrying,
     Delivering, Materializing, Handing
<1> QED BY <1>2, <1>5 DEF ReportInv

LEMMA DeliverNowReport ==
    ASSUME WorkflowInv, ReportInv, DeliverNow
    PROVE  ReportInv'
<1>1. /\ pc = "continue" /\ pc' = "start" /\ candidate' = selection
      /\ delivery.candidate = selection
      /\ UNCHANGED <<config, action, store>>
  BY DEF DeliverNow, Continue, store, outcome, target, world
<1>2. OrderInv' /\ HoldsInv'
  BY <1>1, StoreStays
<1>3. log = "SELECTING" /\ delivery.candidate # Nobody
  BY <1>1, DeliveryAssumption DEF DeliveryAssumption, WorkflowInv, TypeOK, ControlInv
<1>4. Agrees(config) /\ delivery.state \notin Declined
  BY <1>1, <1>3 DEF ReportInv, OrderInv, HoldsInv, CourseInv, Agrees, Undecided
<1>5. CourseInv'
  BY <1>1, <1>4 DEF ReportInv, CourseInv, store, Agrees, PCs, Undecided, Carrying,
     Delivering, Materializing, Handing
<1> QED BY <1>2, <1>5 DEF ReportInv

LEMMA AuditApprovalReport ==
    ASSUME WorkflowInv, ReportInv, AuditApproval
    PROVE  ReportInv'
<1>1. /\ pc = "audited" /\ action = "approve" /\ pc' = "start" /\ candidate' = delivery.candidate
      /\ UNCHANGED <<config, store>>
  BY DEF AuditApproval, Continue, store, outcome, target, world
<1>2. OrderInv' /\ HoldsInv'
  BY <1>1, StoreStays
<1>3. log = "AWAITING_APPROVAL" /\ delivery.candidate # Nobody
  BY <1>1 DEF WorkflowInv, ControlInv, RecordInv, Deciding
<1>4. Agrees(config) /\ delivery.state \notin Declined
  BY <1>1, <1>3 DEF ReportInv, OrderInv, CourseInv, Agrees, Carrying
<1>5. Guarded = FALSE => candidate' = selection'
  BY <1>1, <1>3 DEF ReportInv, OrderInv, store
<1>6. CourseInv'
  BY <1>1, <1>4, <1>5 DEF ReportInv, CourseInv, store, Agrees, PCs, Undecided, Carrying,
     Delivering, Materializing, Handing
<1> QED BY <1>2, <1>6 DEF ReportInv

LEMMA ResumeMaterializationReport ==
    ASSUME WorkflowInv, ReportInv, ResumeMaterialization
    PROVE  ReportInv'
<1>1. /\ pc = "rematerialize" /\ candidate' = selection
      /\ UNCHANGED <<config, store>>
  BY DEF ResumeMaterialization, Continue, store, outcome, target, world
<1>2. OrderInv' /\ HoldsInv'
  BY <1>1, StoreStays
<1>3. materialization \in {"none", "succeeded", "failed"}
  BY DEF WorkflowInv, TypeOK
<1>4. pc' \in {"finish", "failing", "guard"} /\ (pc' = "finish" => materialization = "succeeded")
  BY <1>3 DEF ResumeMaterialization, Continue
<1>5. CourseInv'
  BY <1>1, <1>4 DEF ReportInv, CourseInv, store, PCs, Undecided, Carrying,
     Delivering, Materializing, Handing
<1> QED BY <1>2, <1>5 DEF ReportInv

\* A process takes over what is on disk.
LEMMA RequestReport ==
    ASSUME Trusted, WorkflowInv, ReportInv, Request
    PROVE  ReportInv'
<1>1. PICK auth \in BOOLEAN, a \in Decisions \cup {"choose_candidate"},
           c \in Candidates \cup {Nobody} :
         RequestAction(a, c, auth) /\ (a = "choose_candidate" => AllowChange = TRUE)
  BY DeliveryAssumption DEF DeliveryAssumption, Request, Approve, Decline, ChooseCandidate,
     MayChoose, Decisions
<1>2. /\ pc = "idle" /\ log = "AWAITING_APPROVAL" /\ config' = manifest
      /\ pc' \in {"expire", "deny", "choose", "decide"}
      /\ pc' = "expire" => Late
      /\ pc' \in {"choose", "decide"} => ~Late
      /\ pc' = "choose" => Guarded = TRUE
      /\ UNCHANGED store
  BY <1>1 DEF Trusted, RequestAction, Continue, store, outcome, target, world
<1>3. OrderInv' /\ HoldsInv'
  BY <1>2, StoreStays
<1>4. /\ manifest.mode = requested.mode /\ manifest.records = {}
      /\ Guarded = TRUE => manifest.guarded = TRUE
      /\ ~Late => delivery.approval # "timed_out"
  BY <1>2 DEF ReportInv, OrderInv
<1>5. CourseInv'
  BY <1>2, <1>4, DeliveryAssumption
  DEF DeliveryAssumption, CourseInv, store, world, Late, TERMINAL_STATES, Undecided,
     Carrying, Delivering, Materializing, Handing
<1> QED BY <1>3, <1>5 DEF ReportInv

LEMMA ResumeReport ==
    ASSUME WorkflowInv, ReportInv, Resume
    PROVE  ReportInv'
<1>1. /\ config' = manifest /\ UNCHANGED store
      /\ \/ log = "SELECTING" /\ pc' = "continue"
         \/ log = "AWAITING_APPROVAL" /\ Late /\ pc' = "expire"
         \/ log = "MATERIALIZING" /\ pc' = "rematerialize"
  BY DEF Resume, Expired, Continue, store, outcome, target, world
<1>2. OrderInv' /\ HoldsInv'
  BY <1>1, StoreStays
<1>3. /\ log \in {"SELECTING", "AWAITING_APPROVAL"} =>
            manifest.mode = requested.mode /\ manifest.records = {}
      /\ Guarded = TRUE => manifest.guarded = TRUE
  BY DEF ReportInv, OrderInv
<1>4. CourseInv'
  BY <1>1, <1>3 DEF CourseInv, store, world, Late, TERMINAL_STATES, Undecided, Carrying,
     Delivering, Materializing, Handing
<1> QED BY <1>2, <1>4 DEF ReportInv

LEMMA CancelReport ==
    ASSUME WorkflowInv, ReportInv, Cancel
    PROVE  ReportInv'
<1>1. /\ pc' = "idle" /\ log' = "CANCELLED"
      /\ UNCHANGED <<selection, delivery, materialization, receipts, manifest, applied, torn,
                     world>>
  BY DEF Cancel, outcome, target
<1>2. log \in States /\ log \notin TERMINAL_STATES /\ log # "MATERIALIZING"
  BY TransitionTable DEF Cancel, WorkflowInv, TypeOK
<1>3. Untouched
  BY <1>2 DEF ReportInv, OrderInv, HoldsInv
<1>4. OrderInv'
  BY <1>1 DEF ReportInv, OrderInv, TERMINAL_STATES, world
<1>5. HoldsInv'
  BY <1>1, <1>3 DEF ReportInv, HoldsInv, Untouched
<1> QED BY <1>1, <1>4, <1>5, IdleReport DEF ReportInv

\* One patch at most is applied where the target was clean, and none but the one that
\* the delivery record names.
LEMMA DeliverPatchReport ==
    ASSUME WorkflowInv, ReportInv, DeliverPatch
    PROVE  ReportInv'
<1>1. /\ pc = "deliver" /\ pc' \in {"applied", "receipt"}
      /\ UNCHANGED <<log, selection, delivery, materialization, receipts, manifest, torn,
                     config, candidate, world>>
  BY DEF DeliverPatch, ApplyPatch, Continue, approvals, outcome, call
<1>2. Kind \in {"local_patch_apply", "patch_export"}
  BY DEF Kind, KindOf
<1>3. log = "MATERIALIZING" /\ candidate \in Candidates /\ applied \in [Candidates -> Nat]
  BY <1>1 DEF WorkflowInv, TypeOK, ControlInv, Materializing, Handing
<1>4. /\ Kind = KindOf(delivery.mode) /\ Kind' = Kind
      /\ Kind = "local_patch_apply" =>
           /\ candidate = delivery.candidate /\ delivery.mode # "suggest"
           /\ delivery.state \notin Declined
  BY <1>1, <1>3 DEF ReportInv, CourseInv, HoldsInv, Delivering, Kind, KindOf
<1>5. \/ UNCHANGED applied /\ (Kind = "local_patch_apply" => applied[candidate] > 0)
      \/ /\ Kind = "local_patch_apply" /\ ~torn
         /\ \A c \in Candidates : applied'[c] = IF c = candidate THEN 1 ELSE 0
         /\ applied' = [applied EXCEPT ![candidate] = 1]
  BY <1>2, <1>3 DEF DeliverPatch, ApplyPatch, AlreadyApplied, Clean
<1>6. OrderInv'
  BY <1>1 DEF ReportInv, OrderInv, Agrees, Late, world
<1>7. HoldsInv' /\ (Kind = "local_patch_apply" => applied'[candidate] > 0)
  <2>1. CASE UNCHANGED applied /\ (Kind = "local_patch_apply" => applied[candidate] > 0)
    BY <1>1, <1>3, <2>1 DEF ReportInv, HoldsInv, Untouched
  <2>2. CASE /\ Kind = "local_patch_apply" /\ ~torn
             /\ \A c \in Candidates : applied'[c] = IF c = candidate THEN 1 ELSE 0
    <3>1. /\ candidate = delivery.candidate /\ delivery.mode # "suggest"
          /\ delivery.state \notin Declined /\ candidate # Nobody
      BY <1>3, <1>4, <2>2, DeliveryAssumption DEF DeliveryAssumption
    <3>2. \A c \in Candidates : applied'[c] > 0 => c = delivery.candidate /\ applied'[c] = 1
      BY <2>2, <3>1
    <3>3. applied'[candidate] > 0
      BY <1>3, <2>2
    <3>4. \A c \in Candidates : <<c, "local_patch_apply">> \in receipts => applied'[c] > 0
      <4>1. \A c \in Candidates : applied[c] > 0 => c = candidate
        BY <3>1 DEF ReportInv, HoldsInv
      <4> QED BY <3>3, <4>1 DEF ReportInv, HoldsInv
    <3>5. torn' # TRUE /\ log' = "MATERIALIZING"
      BY <1>1, <1>3, <2>2
    <3> HIDE DEF Declined
    <3> QED BY <1>1, <3>1, <3>2, <3>3, <3>4, <3>5 DEF HoldsInv
  <2> QED BY <1>5, <2>1, <2>2
<1>8. CourseInv'
  BY <1>1, <1>3, <1>4, <1>7 DEF ReportInv, CourseInv, TERMINAL_STATES, Undecided, Carrying,
     Delivering, Materializing, Handing
<1> QED BY <1>6, <1>7, <1>8 DEF ReportInv

\* A success is reported of a patch that is in the target, or was exported.
LEMMA SuccessHolds ==
    ASSUME WorkflowInv, ReportInv, pc \in {"applied", "receipt", "persist"}
    PROVE  /\ log = "MATERIALIZING" /\ delivery.candidate # Nobody
           /\ delivery.mode = "suggest" \/ applied[delivery.candidate] > 0
<1>1. log = "MATERIALIZING" /\ delivery.candidate # Nobody
  BY DEF WorkflowInv, ControlInv, RecordInv, Materializing
<1>2. ASSUME delivery.mode # "suggest"
      PROVE  Kind = "local_patch_apply"
  BY <1>2 DEF ReportInv, CourseInv, Delivering, KindOf
<1> QED BY <1>1, <1>2 DEF ReportInv, CourseInv, Delivering

LEMMA ReportAppliedReport ==
    ASSUME WorkflowInv, ReportInv, ReportApplied
    PROVE  ReportInv'
<1>1. /\ pc = "applied" /\ pc' = "receipt" /\ materialization' = "succeeded"
      /\ UNCHANGED <<log, selection, delivery, receipts, manifest, applied, torn,
                     config, candidate, world>>
  BY DEF ReportApplied, Continue, target, call
<1>2. /\ log = "MATERIALIZING" /\ delivery.candidate # Nobody
      /\ delivery.mode = "suggest" \/ applied[delivery.candidate] > 0
  BY <1>1, SuccessHolds
<1>3. OrderInv'
  BY <1>1 DEF ReportInv, OrderInv, Agrees, Late, world
<1>4. HoldsInv'
  BY <1>1, <1>2 DEF ReportInv, HoldsInv, Untouched
<1>5. CourseInv'
  BY <1>1, <1>2 DEF ReportInv, CourseInv, Kind, TERMINAL_STATES, Undecided, Carrying,
     Delivering, Materializing, Handing
<1> QED BY <1>3, <1>4, <1>5 DEF ReportInv

LEMMA WriteReceiptReport ==
    ASSUME WorkflowInv, ReportInv, WriteReceipt
    PROVE  ReportInv'
<1>1. /\ pc = "receipt" /\ pc' = "persist" /\ receipts' = receipts \cup {<<candidate, Kind>>}
      /\ UNCHANGED <<log, selection, delivery, materialization, manifest, applied, torn,
                     config, candidate, world>>
  BY DEF WriteReceipt, Continue, target, call
<1>2. log = "MATERIALIZING"
  BY <1>1, SuccessHolds
<1>3. \A c \in Candidates : <<c, "local_patch_apply">> \in receipts' => applied[c] > 0
  BY <1>1 DEF ReportInv, HoldsInv, CourseInv
<1>4. OrderInv'
  BY <1>1 DEF ReportInv, OrderInv, Agrees, Late, world
<1>5. HoldsInv'
  BY <1>1, <1>2, <1>3 DEF ReportInv, HoldsInv, Untouched
<1>6. CourseInv'
  BY <1>1, <1>2 DEF ReportInv, CourseInv, Kind, TERMINAL_STATES, Undecided, Carrying,
     Delivering, Materializing, Handing
<1> QED BY <1>4, <1>5, <1>6 DEF ReportInv

LEMMA PersistMaterializationReport ==
    ASSUME WorkflowInv, ReportInv, PersistMaterialization
    PROVE  ReportInv'
<1>1. /\ \/ pc = "persist" /\ pc' = "finish" /\ materialization' = "succeeded"
         \/ pc = "refused" /\ pc' = "failing" /\ materialization' = "failed"
      /\ UNCHANGED <<log, selection, delivery, receipts, manifest, applied, torn,
                     config, candidate, world>>
  BY DEF PersistMaterialization, Continue, target, call
<1>2. /\ log = "MATERIALIZING"
      /\ materialization' = "succeeded" =>
            /\ delivery.candidate # Nobody
            /\ delivery.mode = "suggest" \/ applied[delivery.candidate] > 0
  BY <1>1, SuccessHolds DEF WorkflowInv, ControlInv, Materializing
<1>3. OrderInv'
  BY <1>1 DEF ReportInv, OrderInv, Agrees, Late, world
<1>4. HoldsInv'
  BY <1>1, <1>2 DEF ReportInv, HoldsInv, Untouched
<1>5. CourseInv'
  BY <1>1, <1>2 DEF ReportInv, CourseInv, TERMINAL_STATES, Undecided, Carrying,
     Delivering, Materializing, Handing
<1> QED BY <1>3, <1>4, <1>5 DEF ReportInv

\* git may die half way, in a target that held nothing.
LEMMA CrashReport ==
    ASSUME WorkflowInv, ReportInv, Crash
    PROVE  ReportInv'
<1>1. /\ pc' = "idle"
      /\ UNCHANGED <<log, selection, delivery, materialization, receipts, manifest, applied, world>>
  BY DEF Crash, outcome, call
<1>2. \/ UNCHANGED torn
      \/ /\ \A c \in Candidates : applied[c] = 0
         /\ log = "MATERIALIZING" /\ delivery.mode # "suggest" /\ delivery.state \notin Declined
  <2>1. CASE UNCHANGED torn
    BY <2>1
  <2>2. CASE pc = "deliver" /\ Kind = "local_patch_apply" /\ Clean
    BY <2>2 DEF Clean, WorkflowInv, ControlInv, Materializing, ReportInv, CourseInv, HoldsInv,
       Delivering, KindOf
  <2> QED BY <2>1, <2>2 DEF Crash
<1>3. OrderInv'
  BY <1>1 DEF ReportInv, OrderInv, Agrees, Late, world
<1>4. HoldsInv'
  BY <1>1, <1>2 DEF ReportInv, HoldsInv, Untouched, Reported
<1> QED BY <1>1, <1>3, <1>4, IdleReport DEF ReportInv

LEMMA TickReport ==
    ASSUME WorkflowInv, ReportInv, Tick
    PROVE  ReportInv'
<1>1. /\ now' = now + 1
      /\ UNCHANGED <<log, selection, delivery, materialization, receipts, manifest, applied, torn,
                     pc, config, candidate, action, requested>>
  BY DEF Tick, outcome, target, call
<1>2. Late => Late'
  BY <1>1 DEF Late, WorkflowInv, TypeOK, NoDelivery, Deadlines
<1>3. OrderInv'
  BY <1>1, <1>2 DEF ReportInv, OrderInv, Agrees
<1>4. HoldsInv'
  BY <1>1 DEF ReportInv, HoldsInv, Untouched, Reported
<1>5. CourseInv'
  BY <1>1, <1>2 DEF ReportInv, CourseInv, Agrees, Reported, Untouched, Kind
<1> QED BY <1>3, <1>4, <1>5 DEF ReportInv

\* What a new delivery record says.
LEMMA NewRecordSays ==
    ASSUME config.mode \in DeliveryMode, NEW c \in Candidates, NEW new \in NewDeliveryRecord(c)
    PROVE  /\ new.mode = config.mode /\ new.candidate = c /\ new.state = "selected"
           /\ new.approval \in {"pending", "not_required"}
<1>1. PICK p \in BOOLEAN :
         new = [candidate |-> c, mode |-> config.mode, state |-> "selected",
                approval |-> IF config.mode = "approve" THEN "pending" ELSE "not_required",
                permitted |-> p,
                deadline |-> IF config.mode = "approve" THEN delivery.deadline + 1 ELSE 0]
  BY DEF NewDeliveryRecord, DeliveryMode
<1> QED BY <1>1

\* A transition makes the configuration durable, or the process dies.
LEMMA PauseReport ==
    ASSUME WorkflowInv, ReportInv, Pause
    PROVE  ReportInv'
<1>1. /\ pc = "await" /\ log' = "AWAITING_APPROVAL" /\ pc' = "idle"
      /\ manifest' \in {manifest, config}
      /\ UNCHANGED <<selection, delivery, materialization, receipts, applied, torn, world>>
  BY DEF Pause, Transition, outcome, target, call
<1>2. log = "SELECTING" /\ delivery.candidate # Nobody
  BY <1>1 DEF WorkflowInv, ControlInv, RecordInv
<1>3. /\ manifest'.mode = requested.mode /\ manifest'.records = {}
      /\ Guarded = TRUE => manifest'.guarded = TRUE
      /\ requested.mode = "approve" /\ delivery.approval # "timed_out"
  BY <1>1, <1>2 DEF ReportInv, OrderInv, CourseInv, Undecided
<1>4. OrderInv'
  BY <1>1, <1>3 DEF ReportInv, OrderInv, world
<1>5. HoldsInv'
  BY <1>1, <1>2 DEF ReportInv, HoldsInv, Untouched
<1> QED BY <1>1, <1>4, <1>5, IdleReport DEF ReportInv

\* The manifest that the materialization may be resumed with is that of the process that
\* handed it over, or the one before, under which nothing is applied that the user has
\* not asked for.
LEMMA StartMaterializationReport ==
    ASSUME Trusted, WorkflowInv, ReportInv, StartMaterialization
    PROVE  ReportInv'
<1>1. /\ pc = "start" /\ log' = "MATERIALIZING"
      /\ \/ pc' = "guard" /\ manifest' = config
         \/ pc' = "idle" /\ manifest' = manifest
      /\ UNCHANGED <<selection, delivery, materialization, receipts, applied, torn, world,
                     config, candidate>>
  BY DEF StartMaterialization, Transition, outcome, target, call
<1>2. log \in {"SELECTING", "AWAITING_APPROVAL"}
  BY TransitionTable DEF StartMaterialization, Transition, WorkflowInv, TypeOK
<1>3. delivery.candidate # Nobody
  BY <1>1 DEF WorkflowInv, RecordInv
<1>4. manifest.mode = requested.mode /\ manifest.records = {}
  BY <1>2 DEF ReportInv, OrderInv
<1>5. ASSUME delivery.mode # requested.mode
      PROVE  /\ delivery.mode = "suggest" /\ requested.mode = "approve"
             /\ manifest.guarded = TRUE
  <2>1. /\ delivery.mode = "suggest" /\ requested.mode = "approve"
        /\ requested.timeout_policy = "suggest"
    BY <1>3, <1>5 DEF ReportInv, OrderInv
  <2>2. requested.timeout_policy \in TimeoutPolicies
    BY DEF WorkflowInv, TypeOK, Settings
  <2> QED BY <2>1, <2>2 DEF Trusted, ReportInv, OrderInv
<1>6. Agrees(manifest)
  BY <1>4, <1>5 DEF Agrees
<1>7. Agrees(manifest)'
  BY <1>1, <1>6 DEF Agrees, ReportInv, CourseInv
<1>8. OrderInv'
  BY <1>1, <1>2, <1>7 DEF ReportInv, OrderInv, CourseInv, world
<1>9. HoldsInv'
  BY <1>1, <1>2 DEF ReportInv, HoldsInv, CourseInv, Untouched
<1>10. CourseInv'
  BY <1>1 DEF ReportInv, CourseInv, TERMINAL_STATES, Undecided, Carrying,
     Delivering, Materializing, Handing
<1> QED BY <1>8, <1>9, <1>10 DEF ReportInv

LEMMA EndRunReport ==
    ASSUME WorkflowInv, ReportInv, EndRun
    PROVE  ReportInv'
<1>1. /\ pc' = "idle" /\ manifest' \in {manifest, config}
      /\ \/ pc = "complete" /\ log' = "COMPLETED"
         \/ pc = "fail" /\ log' = "FAILED"
      /\ UNCHANGED <<selection, delivery, materialization, receipts, applied, torn, world>>
  BY DEF EndRun, Transition, outcome, target, call
<1>2. Guarded = TRUE => manifest'.guarded = TRUE
  BY <1>1 DEF ReportInv, OrderInv, CourseInv
<1>3. OrderInv'
  BY <1>1, <1>2 DEF ReportInv, OrderInv, TERMINAL_STATES, world
<1>4. log' = "COMPLETED" => Reported'
  BY <1>1 DEF ReportInv, CourseInv, Reported, Untouched
<1>5. HoldsInv'
  BY <1>1, <1>4 DEF ReportInv, HoldsInv, Untouched
<1> QED BY <1>1, <1>3, <1>5, IdleReport DEF ReportInv

\* A run without a delivery record has not touched the target.
LEMMA RecordDeliveryReport ==
    ASSUME WorkflowInv, ReportInv, RecordDelivery
    PROVE  ReportInv'
<1>1. /\ pc = "continue"
      /\ UNCHANGED <<selection, materialization, receipts, applied, torn, world, config, candidate>>
  BY DEF RecordDelivery, outcome, target, call
<1>2. log = "SELECTING" /\ config.mode = requested.mode /\ config.records = {}
  BY <1>1 DEF WorkflowInv, ControlInv, ReportInv, CourseInv, Undecided
<1>3. Untouched
  BY <1>2 DEF ReportInv, HoldsInv
<1>4. \/ /\ delivery' \in NewDeliveryRecord(selection) /\ UNCHANGED <<log, manifest, pc>>
      \/ /\ pc' = "idle" /\ log' = "FAILED" /\ manifest' \in {manifest, config}
         /\ UNCHANGED delivery
  BY DEF RecordDelivery, Continue, Transition
<1>5. CASE delivery' \in NewDeliveryRecord(selection) /\ UNCHANGED <<log, manifest, pc>>
  <2>1. /\ delivery'.mode = config.mode /\ delivery'.state = "selected"
        /\ delivery'.approval \in {"pending", "not_required"} /\ delivery'.candidate = selection
    BY <1>5, NewRecordSays DEF WorkflowInv, TypeOK, Configurations
  <2>2. OrderInv'
    BY <1>1, <1>2, <1>5, <2>1 DEF ReportInv, OrderInv, world
  <2>3. HoldsInv'
    BY <1>1, <1>2, <1>3, <1>5, <2>1 DEF ReportInv, HoldsInv, Untouched, Declined
  <2>4. CourseInv'
    BY <1>1, <1>2, <1>5 DEF ReportInv, CourseInv, TERMINAL_STATES, world, Undecided, Carrying,
       Delivering, Materializing, Handing
  <2> QED BY <2>2, <2>3, <2>4 DEF ReportInv
<1>6. CASE /\ pc' = "idle" /\ log' = "FAILED" /\ manifest' \in {manifest, config}
           /\ UNCHANGED delivery
  <2>1. OrderInv'
    BY <1>1, <1>6 DEF ReportInv, OrderInv, CourseInv, TERMINAL_STATES, world
  <2>2. HoldsInv'
    BY <1>1, <1>3, <1>6 DEF ReportInv, HoldsInv, Untouched
  <2> QED BY <1>6, <2>1, <2>2, IdleReport DEF ReportInv
<1> QED BY <1>4, <1>5, <1>6

\* What is written to a delivery record before the target is touched, or that changes
\* nothing but its state to one that reports what the target holds, keeps it true.
LEMMA EarlyRecord ==
    ASSUME ReportInv, log \in {"SELECTING", "AWAITING_APPROVAL"},
           UNCHANGED <<log, selection, materialization, receipts, manifest, applied, torn, world>>,
           delivery'.candidate # Nobody,
           Guarded = FALSE => delivery'.candidate = selection,
           \/ delivery'.mode = requested.mode
           \/ /\ delivery'.mode = "suggest" /\ delivery'.approval = "timed_out"
              /\ requested.mode = "approve" /\ requested.timeout_policy = "suggest",
           log = "SELECTING" => delivery'.approval # "timed_out" /\ delivery'.state \notin Declined,
           delivery'.approval = "timed_out" => Late'
    PROVE  OrderInv' /\ HoldsInv'
<1>1. Untouched /\ materialization = "none" /\ ~(\E c \in Candidates : applied[c] > 0)
  BY DEF ReportInv, HoldsInv, Untouched
<1>2. OrderInv'
  BY DEF ReportInv, OrderInv, world
<1> HIDE DEF Declined
<1>3. HoldsInv'
  BY <1>1 DEF ReportInv, HoldsInv, Untouched
<1> QED BY <1>2, <1>3

LEMMA AwaitApprovalReport ==
    ASSUME WorkflowInv, ReportInv, AwaitApproval
    PROVE  ReportInv'
<1>1. /\ pc = "continue" /\ pc' = "await" /\ delivery.candidate = selection
      /\ delivery.mode = "approve" /\ delivery' = [delivery EXCEPT !.state = "awaiting_approval"]
      /\ UNCHANGED <<log, selection, materialization, receipts, manifest, applied, torn, world,
                     config>>
  BY DEF AwaitApproval, NeedsApproval, Continue, outcome, target, call
<1>2. log = "SELECTING" /\ delivery.candidate # Nobody
  BY <1>1, DeliveryAssumption DEF DeliveryAssumption, WorkflowInv, TypeOK, ControlInv
<1>3. /\ delivery'.candidate = delivery.candidate /\ delivery'.mode = delivery.mode
      /\ delivery'.approval = delivery.approval /\ delivery'.state = "awaiting_approval"
  BY <1>1, <1>2, DeliveryIs DEF WorkflowInv, DeliveryRecords
<1>4. delivery.mode = requested.mode /\ delivery.approval # "timed_out"
  BY <1>2 DEF ReportInv, OrderInv
<1>5. OrderInv' /\ HoldsInv'
  BY <1>1, <1>2, <1>3, <1>4, EarlyRecord DEF Declined
<1>6. CourseInv'
  BY <1>1, <1>2, <1>3 DEF ReportInv, CourseInv, TERMINAL_STATES, world, Undecided, Carrying,
     Delivering, Materializing, Handing
<1> QED BY <1>5, <1>6 DEF ReportInv

LEMMA RefuseDeliveryReport ==
    ASSUME WorkflowInv, ReportInv, RefuseDelivery
    PROVE  ReportInv'
<1>1. /\ pc = "continue" /\ pc' = "fail" /\ delivery.candidate = selection
      /\ delivery' = [delivery EXCEPT !.state = "failed"]
      /\ UNCHANGED <<log, selection, materialization, receipts, manifest, applied, torn, world,
                     config>>
  BY DEF RefuseDelivery, Continue, outcome, target, call
<1>2. log = "SELECTING" /\ delivery.candidate # Nobody
  BY <1>1, DeliveryAssumption DEF DeliveryAssumption, WorkflowInv, TypeOK, ControlInv
<1>3. /\ delivery'.candidate = delivery.candidate /\ delivery'.mode = delivery.mode
      /\ delivery'.approval = delivery.approval /\ delivery'.state = "failed"
  BY <1>1, <1>2, DeliveryIs DEF WorkflowInv, DeliveryRecords
<1>4. delivery.mode = requested.mode /\ delivery.approval # "timed_out"
  BY <1>2 DEF ReportInv, OrderInv
<1>5. OrderInv' /\ HoldsInv'
  BY <1>1, <1>2, <1>3, <1>4, EarlyRecord DEF Declined
<1>6. CourseInv'
  BY <1>1, <1>2 DEF ReportInv, CourseInv, TERMINAL_STATES, world, Undecided, Carrying,
     Delivering, Materializing, Handing
<1> QED BY <1>5, <1>6 DEF ReportInv

LEMMA ApproveDeliveryReport ==
    ASSUME WorkflowInv, ReportInv, ApproveDelivery
    PROVE  ReportInv'
<1>1. /\ pc = "approved" /\ pc' = "audited"
      /\ delivery' = [delivery EXCEPT !.state = "approved", !.approval = "approved",
                                      !.permitted = TRUE]
      /\ UNCHANGED <<log, selection, materialization, receipts, manifest, applied, torn, world,
                     config, action>>
  BY DEF ApproveDelivery, Continue, outcome, target, call
<1>2. log = "AWAITING_APPROVAL" /\ delivery.candidate # Nobody
  BY <1>1 DEF WorkflowInv, ControlInv, RecordInv, Deciding
<1>3. /\ delivery'.candidate = delivery.candidate /\ delivery'.mode = delivery.mode
      /\ delivery'.approval = "approved" /\ delivery'.state = "approved"
  BY <1>1, <1>2, DeliveryIs DEF WorkflowInv, DeliveryRecords
<1>4. delivery.mode = requested.mode
  BY <1>1, <1>2 DEF ReportInv, OrderInv, CourseInv, Carrying
<1>5. Guarded = FALSE => delivery.candidate = selection
  BY <1>2 DEF ReportInv, OrderInv
<1>6. OrderInv' /\ HoldsInv'
  BY <1>1, <1>2, <1>3, <1>4, <1>5, EarlyRecord
<1>7. CourseInv'
  BY <1>1, <1>2, <1>3 DEF ReportInv, CourseInv, TERMINAL_STATES, world, Undecided, Carrying,
     Delivering, Materializing, Handing, Declined
<1> QED BY <1>6, <1>7 DEF ReportInv

LEMMA DeclineDeliveryReport ==
    ASSUME WorkflowInv, ReportInv, DeclineDelivery
    PROVE  ReportInv'
<1> DEFINE status == IF action = "reject" THEN "rejected" ELSE "rerun_requested"
<1>1. /\ pc = "audited" /\ pc' = "complete"
      /\ delivery' = [delivery EXCEPT !.state = status, !.approval = status]
      /\ UNCHANGED <<log, selection, materialization, receipts, manifest, applied, torn, world,
                     config>>
  BY DEF DeclineDelivery, Continue, outcome, target, call
<1>2. log = "AWAITING_APPROVAL" /\ delivery.candidate # Nobody
  BY <1>1 DEF WorkflowInv, ControlInv, RecordInv, Deciding
<1>0. status \in {"rejected", "rerun_requested"}
  OBVIOUS
<1> HIDE DEF status
<1>3. /\ delivery'.candidate = delivery.candidate /\ delivery'.mode = delivery.mode
      /\ delivery'.approval = status /\ delivery'.state = status
  BY <1>1, <1>2, DeliveryIs DEF WorkflowInv, DeliveryRecords
<1>4. delivery.mode = requested.mode
  BY <1>1, <1>2 DEF ReportInv, OrderInv, CourseInv, Carrying
<1>5. Guarded = FALSE => delivery.candidate = selection
  BY <1>2 DEF ReportInv, OrderInv
<1>6. OrderInv' /\ HoldsInv'
  BY <1>0, <1>1, <1>2, <1>3, <1>4, <1>5, EarlyRecord
<1>7. Reported'
  BY <1>0, <1>1, <1>2, <1>3 DEF ReportInv, HoldsInv, Reported, Untouched, Declined
<1>8. CourseInv'
  BY <1>1, <1>2, <1>7 DEF ReportInv, CourseInv, TERMINAL_STATES, Undecided, Carrying,
     Delivering, Materializing, Handing
<1> QED BY <1>6, <1>8 DEF ReportInv

LEMMA ReplaceDeliveryReport ==
    ASSUME WorkflowInv, ReportInv, ReplaceDelivery
    PROVE  ReportInv'
<1>1. /\ pc = "replace"
      /\ UNCHANGED <<log, selection, materialization, receipts, manifest, applied, torn, world,
                     config, candidate, action>>
  BY DEF ReplaceDelivery, Continue, outcome, target, call
<1>2. /\ log = "AWAITING_APPROVAL" /\ candidate \in Candidates
      /\ config.mode = requested.mode /\ delivery.approval # "timed_out" /\ config.records = {}
      /\ Guarded = FALSE => candidate = selection
  BY <1>1 DEF WorkflowInv, TypeOK, ControlInv, Deciding, Handing, ReportInv, CourseInv, Undecided,
     Carrying
<1>3. PICK new \in NewDeliveryRecord(candidate) :
         \/ /\ pc' = "changed"
            /\ delivery' = [new EXCEPT !.state = "awaiting_approval",
                                       !.approval = delivery.approval,
                                       !.deadline = delivery.deadline]
         \/ pc' = "idle" /\ delivery' = new
  BY DEF ReplaceDelivery, Continue
<1>4. /\ new.mode = config.mode /\ new.candidate = candidate
      /\ new.approval \in {"pending", "not_required"} /\ new \in DeliveryRecords
  <2>1. config.mode \in DeliveryMode
    BY DEF WorkflowInv, TypeOK, Configurations
  <2> QED BY <1>2, <2>1, NewRecordSays, NewRecordIs
<1>5. /\ delivery'.mode = config.mode /\ delivery'.candidate = candidate
      /\ delivery'.approval # "timed_out"
  <2>1. CASE delivery' = [new EXCEPT !.state = "awaiting_approval",
                                     !.approval = delivery.approval,
                                     !.deadline = delivery.deadline]
    BY <1>2, <1>4, <2>1 DEF DeliveryRecords
  <2>2. CASE delivery' = new
    BY <1>4, <2>2
  <2> QED BY <1>3, <2>1, <2>2
<1>6. OrderInv' /\ HoldsInv'
  BY <1>1, <1>2, <1>5, EarlyRecord, DeliveryAssumption DEF DeliveryAssumption
<1>7. CourseInv'
  BY <1>1, <1>2, <1>3, <1>5 DEF ReportInv, CourseInv, TERMINAL_STATES, world, Undecided, Carrying,
     Delivering, Materializing, Handing
<1> QED BY <1>6, <1>7 DEF ReportInv

\* A timeout that suggests is guarded, where the report is to be trusted.
LEMMA TimeOutReport ==
    ASSUME Trusted, WorkflowInv, ReportInv, TimeOut
    PROVE  ReportInv'
<1>1. /\ pc = "expired"
      /\ UNCHANGED <<log, selection, materialization, receipts, manifest, applied, torn, world>>
  BY DEF TimeOut, Continue, outcome, target
<1>2. log = "AWAITING_APPROVAL" /\ delivery \in DeliveryRecords /\ delivery.candidate # Nobody
  BY <1>1, DeliveryIs DEF WorkflowInv, ControlInv, RecordInv, Deciding
<1>3. /\ requested.mode = "approve" /\ config.mode = requested.mode /\ config.records = {} /\ Late
      /\ Guarded = TRUE => config.guarded = TRUE
      /\ Guarded = FALSE => delivery.candidate = selection
      /\ delivery.mode \in {requested.mode, "suggest"}
      /\ delivery.mode # requested.mode => requested.timeout_policy = "suggest"
      /\ Untouched
  BY <1>1, <1>2 DEF ReportInv, OrderInv, HoldsInv, CourseInv, Undecided
<1>4. \/ /\ pc' = "start" /\ requested.timeout_policy = "suggest"
         /\ config' = [config EXCEPT !.mode = "suggest"] /\ candidate' = delivery.candidate
         /\ delivery' = [delivery EXCEPT !.mode = "suggest", !.state = "timed_out",
                              !.approval = "timed_out", !.permitted = TRUE]
      \/ /\ pc' = "fail" /\ config' = config
         /\ delivery' = [delivery EXCEPT !.state = "failed", !.approval = "timed_out"]
      \/ /\ pc' = "complete" /\ config' = config
         /\ delivery' = [delivery EXCEPT !.state = "timed_out", !.approval = "timed_out"]
  BY DEF TimeOut, Continue
<1>5. /\ delivery'.candidate = delivery.candidate /\ delivery'.deadline = delivery.deadline
      /\ delivery'.approval = "timed_out"
      /\ delivery'.mode = IF pc' = "start" THEN "suggest" ELSE delivery.mode
      /\ pc' = "complete" => delivery'.state = "timed_out"
  <2> HIDE DEF WorkflowInv, ReportInv, Trusted
  <2>1. CASE /\ pc' = "start"
             /\ delivery' = [delivery EXCEPT !.mode = "suggest", !.state = "timed_out",
                                  !.approval = "timed_out", !.permitted = TRUE]
    BY <1>2, <2>1 DEF DeliveryRecords
  <2>2. CASE /\ pc' = "fail"
             /\ delivery' = [delivery EXCEPT !.state = "failed", !.approval = "timed_out"]
    BY <1>2, <2>2 DEF DeliveryRecords
  <2>3. CASE /\ pc' = "complete"
             /\ delivery' = [delivery EXCEPT !.state = "timed_out", !.approval = "timed_out"]
    BY <1>2, <2>3 DEF DeliveryRecords
  <2> QED BY <1>4, <2>1, <2>2, <2>3
<1>6. OrderInv' /\ HoldsInv'
  <2>1. \/ delivery'.mode = requested.mode
        \/ delivery'.mode = "suggest" /\ requested.timeout_policy = "suggest"
    BY <1>3, <1>4, <1>5
  <2>2. Late'
    BY <1>1, <1>3, <1>5 DEF Late, world
  <2> QED BY <1>1, <1>2, <1>3, <1>5, <2>1, <2>2, EarlyRecord
<1>7. CASE pc' = "start"
  <2>1. config'.mode = "suggest" /\ config'.records = {} /\ config'.guarded = config.guarded
    BY <1>3, <1>4, <1>7 DEF WorkflowInv, TypeOK, Configurations
  <2>2. candidate' = delivery.candidate
    BY <1>4, <1>7
  <2>3. CourseInv'
    BY <1>1, <1>2, <1>3, <1>5, <1>7, <2>1, <2>2 DEF CourseInv, TERMINAL_STATES, Agrees, Undecided,
       Carrying, Delivering, Materializing, Handing
  <2> QED BY <1>6, <2>3 DEF ReportInv
<1>8. CASE pc' # "start"
  <2>1. pc' \in {"fail", "complete"} /\ config' = config
    BY <1>4, <1>8
  <2>2. pc' = "complete" => Reported'
    BY <1>1, <1>3, <1>5 DEF Reported, Untouched, Declined
  <2>3. CourseInv'
    BY <1>1, <1>2, <1>3, <2>1, <2>2 DEF CourseInv, TERMINAL_STATES, Undecided,
       Carrying, Delivering, Materializing, Handing
  <2> QED BY <1>6, <2>3 DEF ReportInv
<1> QED BY <1>7, <1>8

\* What was delivered is reported.
LEMMA FinishDeliveryReport ==
    ASSUME WorkflowInv, ReportInv, FinishDelivery
    PROVE  ReportInv'
<1>1. /\ pc \in {"finish", "failing"}
      /\ UNCHANGED <<log, selection, materialization, receipts, manifest, applied, torn, world,
                     config>>
  BY DEF FinishDelivery, Continue, outcome, target, call
<1>2. /\ log = "MATERIALIZING" /\ delivery \in DeliveryRecords /\ delivery.candidate # Nobody
      /\ applied \in [Candidates -> Nat] /\ delivery.candidate \in Candidates
  BY <1>1, DeliveryIs DEF WorkflowInv, TypeOK, ControlInv, RecordInv, Materializing, DeliveryRecords
<1>3. /\ delivery'.candidate = delivery.candidate /\ delivery'.mode = delivery.mode
      /\ delivery'.approval = delivery.approval /\ delivery'.deadline = delivery.deadline
      /\ \/ /\ pc = "finish" /\ pc' = "complete"
            /\ delivery'.state = IF delivery.mode = "suggest" THEN "suggested" ELSE "applied"
         \/ pc = "failing" /\ pc' = "fail" /\ delivery'.state = "failed"
  BY <1>2 DEF FinishDelivery, Continue, successful_delivery_state, DeliveryRecords
<1>4. OrderInv'
  BY <1>1, <1>3 DEF ReportInv, OrderInv, Agrees, Late, world
<1>5. HoldsInv'
  BY <1>1, <1>2, <1>3 DEF ReportInv, HoldsInv, Untouched, Declined
<1>6. ASSUME pc = "finish"
      PROVE  Reported'
  <2>1. CASE delivery.mode = "suggest"
    BY <1>1, <1>3, <1>6, <2>1 DEF ReportInv, HoldsInv, Reported, Untouched, Declined
  <2>2. CASE delivery.mode # "suggest"
    <3>1. applied[delivery.candidate] > 0
      BY <1>6, <2>2 DEF ReportInv, HoldsInv, CourseInv
    <3>2. applied[delivery.candidate] = 1
      BY <1>2, <3>1 DEF ReportInv, HoldsInv
    <3> QED BY <1>1, <1>2, <1>3, <1>6, <2>2, <3>2 DEF Reported
  <2> QED BY <2>1, <2>2
<1>7. CourseInv'
  BY <1>1, <1>2, <1>3, <1>6 DEF ReportInv, CourseInv, TERMINAL_STATES, Undecided, Carrying,
     Delivering, Materializing, Handing
<1> QED BY <1>4, <1>5, <1>7 DEF ReportInv

\* The selection changes before the delivery record, where an approval policy holds the
\* record against it.
LEMMA ChangeSelectionReport ==
    ASSUME WorkflowInv, ReportInv, ChangeSelection
    PROVE  ReportInv'
<1>1. /\ pc = "choose" /\ pc' \in {"replace", "idle"} /\ selection' = candidate
      /\ UNCHANGED <<log, delivery, materialization, receipts, manifest, applied, torn, world,
                     config, candidate, action>>
  BY DEF ChangeSelection, Continue, outcome, target, call
<1>2. Guarded = FALSE => selection' = selection
  BY <1>1 DEF ReportInv, CourseInv, Handing
<1>3. OrderInv'
  BY <1>1, <1>2 DEF ReportInv, OrderInv, Agrees, Late, world
<1>4. HoldsInv'
  BY <1>1 DEF ReportInv, HoldsInv, Untouched, Reported
<1>5. CourseInv'
  BY <1>1, <1>2 DEF ReportInv, CourseInv, world, Undecided, Carrying,
     Delivering, Materializing, Handing
<1> QED BY <1>3, <1>4, <1>5 DEF ReportInv

LEMMA RecordDecisionReport ==
    ASSUME WorkflowInv, ReportInv, RecordDecision
    PROVE  ReportInv'
<1> DEFINE r == [candidate |-> delivery.candidate,
                 decision |-> IF action = "approve" THEN "approved" ELSE "denied",
                 expires |-> delivery.deadline]
<1>1. /\ pc = "decide" /\ pc' = IF action = "approve" THEN "approved" ELSE "declined"
      /\ config' = [config EXCEPT !.guarded = TRUE, !.records = @ \cup {r}]
      /\ UNCHANGED <<store, action>>
  BY DEF RecordDecision, Continue, store, outcome, target, world
<1>2. r.candidate = delivery.candidate
  OBVIOUS
<1> HIDE DEF r
<1>3. OrderInv' /\ HoldsInv'
  BY <1>1, StoreStays
<1>4. /\ config'.guarded = TRUE /\ config'.records = config.records \cup {r}
      /\ config'.mode = config.mode
  BY <1>1 DEF WorkflowInv, TypeOK, Configurations
<1>5. CourseInv'
  BY <1>1, <1>2, <1>4 DEF ReportInv, CourseInv, store, world, Undecided, Carrying,
     Delivering, Materializing, Handing
<1> QED BY <1>3, <1>5 DEF ReportInv

\* The invariant is inductive together with WorkflowInv.
LEMMA NextReport ==
    ASSUME Trusted, WorkflowInv, ReportInv, [Next]_vars
    PROVE  ReportInv'
<1>1. CASE ProcessStep
  BY <1>1, RecordDeliveryReport, AwaitApprovalReport, PauseReport, RefuseDeliveryReport,
     DeliverNowReport, StartMaterializationReport, GuardDeliveryReport, ReplayReceiptReport,
     DeliverPatchReport, DeliveryErrorReport, ReportAppliedReport, WriteReceiptReport,
     PersistMaterializationReport, FinishDeliveryReport, EndRunReport, DenyActionReport,
     RecordDecisionReport, ApproveDeliveryReport, AuditApprovalReport, AuditDeclineReport,
     DeclineDeliveryReport, ChangeSelectionReport, ReplaceDeliveryReport, AuditChangeReport,
     AuditTimeoutReport, TimeOutReport, ResumeMaterializationReport
  DEF ProcessStep
<1>2. CASE Request \/ Resume \/ Cancel \/ Crash \/ Tick
  BY <1>2, RequestReport, ResumeReport, CancelReport, CrashReport, TickReport
<1>3. CASE UNCHANGED vars
  <2>1. UNCHANGED <<store, pc, config, candidate, action>>
    BY <1>3 DEF vars, store, outcome, target, call, world
  <2>2. OrderInv' /\ HoldsInv'
    BY <2>1, StoreStays
  <2>3. CourseInv'
    BY <2>1 DEF ReportInv, CourseInv, store, world, Agrees, Reported, Untouched, Kind, Late
  <2> QED BY <2>2, <2>3 DEF ReportInv
<1> QED BY <1>1, <1>2, <1>3 DEF Next

LEMMA InitReport ==
    ASSUME Init
    PROVE  ReportInv
<1>1. /\ log = "SELECTING" /\ delivery = NoDelivery /\ materialization = "none" /\ receipts = {}
      /\ manifest = [mode |-> requested.mode, guarded |-> Guarded, records |-> {}]
      /\ config = manifest /\ pc = "continue" /\ torn = FALSE
      /\ \A c \in Candidates : applied[c] = 0
  BY DEF Init
<1>2. OrderInv
  BY <1>1 DEF OrderInv, NoDelivery
<1>3. HoldsInv
  BY <1>1 DEF HoldsInv, NoDelivery, Untouched, Declined
<1>4. CourseInv
  BY <1>1 DEF CourseInv, TERMINAL_STATES, Undecided, Carrying, Delivering, Materializing, Handing
<1> QED BY <1>2, <1>3, <1>4 DEF ReportInv

LEMMA ReportIsSound ==
    ASSUME Trusted
    PROVE  Spec => []ReportInv
<1>1. WorkflowInv /\ ReportInv /\ [Next]_vars => ReportInv'
  BY NextReport
<1> QED BY <1>1, InitReport, WorkflowIsSound, PTL DEF Spec

\* What delivery.json reports of a run that ended is what the target holds, wherever the
\* report can be trusted: where crashes interrupt a change of the candidate or of the
\* mode and no approval policy is configured, it cannot.
THEOREM ReportIsTrue ==
    ASSUME Trusted
    PROVE  Spec => []ReportMatchesTarget
<1>1. ASSUME WorkflowInv, ReportInv
      PROVE  ReportMatchesTarget
  <2>1. log = "COMPLETED" => Reported
    BY <1>1 DEF ReportInv, HoldsInv
  <2>2. log = "CANCELLED" => Untouched
    BY <1>1 DEF ReportInv, HoldsInv
  <2>3. delivery.candidate # Nobody => delivery.candidate \in Candidates
    BY <1>1, DeliveryIs DEF WorkflowInv, DeliveryRecords
  <2>4. torn => \A c \in Candidates : applied[c] # 1
    BY <1>1 DEF ReportInv, HoldsInv, WorkflowInv, TypeOK
  <2> QED BY <2>1, <2>2, <2>3, <2>4 DEF Reported, Declined, ReportMatchesTarget
<1> QED BY <1>1, ReportIsSound, WorkflowIsSound, PTL

\* Nor does a patch that was only suggested, declined or left unanswered reach the
\* target, not even by half.
THEOREM DeclinedIsNotApplied ==
    ASSUME Trusted
    PROVE  Spec => []DeclinedLeavesTargetAlone
<1>1. ReportInv => DeclinedLeavesTargetAlone
  BY DEF ReportInv, HoldsInv, Declined, DeclinedLeavesTargetAlone
<1> QED BY <1>1, ReportIsSound, PTL
===============================================================================
