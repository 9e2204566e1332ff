------------------------- MODULE ClosedLoopInvariant -------------------------
(***************************************************************************)
(* The inductive invariant behind the safety properties of ClosedLoop: how *)
(* the program counter, the log and the files of the bundle hang together. *)
(***************************************************************************)
EXTENDS ClosedLoop

Deciding == {"CLASSIFIED", "REJECTED", "VERIFIED"}

\* The states of the log at which each step is taken.
ControlInv ==
    /\ log # "AWAITING_APPROVAL"
    /\ snap \in TERMINAL_STATES => log = snap
    /\ pc \in {"created", "restart"} => log = "CREATED"
    /\ pc \in {"classify", "classified"} => log = "CLASSIFYING"
    /\ pc = "ask" => log \in Deciding
    /\ pc \in {"record", "rerecord"} => log \in Deciding \cup {"ESCALATING"}
    /\ pc = "reuse" => log = "POLICY_SELECTED"
    /\ pc = "act" => log \in Deciding \cup {"POLICY_SELECTED"}
    /\ pc \in {"run", "ran", "raised", "lost", "interrupted"} => log = "ATTEMPT_RUNNING"
    /\ pc \in {"giveup", "completed", "emptied", "dropped", "recheck"} =>
         log = "ATTEMPT_COMPLETED"
    /\ pc \in {"verify", "judged"} => log = "VERIFYING"
    /\ pc = "verified" => log = "VERIFIED"
    /\ pc = "attempted" => log \in {"VERIFIED", "REJECTED"}
    /\ pc \in {"select", "selected"} => log = "SELECTING"
    /\ pc \in {"materialize", "applied", "finish", "refused", "inspect"} =>
         log = "MATERIALIZING"
    /\ pc = "unsupported" => log = "ESCALATING"

\* Attempt ids are handed out in order, and every id but the latest has been
\* recorded; the latest one is unrecorded only while its decision is being
\* carried out.
IdsInv ==
    /\ \A a \in Attempts : /\ verdict[a] # "none" => recorded[a] # "none"
                           /\ recorded[a] # "none" => a \in started
                           /\ a \in started => a <= MaxAttempts /\ a <= allocated
                           /\ a < allocated => recorded[a] # "none"
    /\ (/\ log \in Deciding /\ allocated # None
        /\ decision.logged \/ decision.action \notin AttemptActions)
         => recorded[allocated] # "none"
    /\ pc \in {"record", "rerecord"} => ~decision.logged
    /\ pc \in {"ask", "act", "reuse", "attempted", "verified"} => decision.logged
    /\ log = "POLICY_SELECTED" => decision.logged
    /\ log \in {"CREATED", "CLASSIFYING"} => allocated = None /\ decision.logged

\* A decision names the attempt it is about: a fresh one, or the latest one whose
\* validation could not run.
DecisionInv ==
    /\ decision.attempt # None <=> decision.action \in AttemptActions \cup {"revalidate"}
    /\ decision.attempt # None => decision.attempt = allocated
    /\ log \in {"ATTEMPT_RUNNING", "ATTEMPT_COMPLETED", "VERIFYING"} \/ pc = "verified"
         => decision.attempt \in started /\ decision.logged
    /\ ~decision.logged \/ log \in {"POLICY_SELECTED", "ESCALATING"}
         => /\ decision.action \in AttemptActions
                 => decision.attempt \notin started
            /\ decision.action = "revalidate" => verdict[decision.attempt] = "infra"
    /\ log = "ESCALATING" => decision.action = "escalate"
    /\ pc = "act" /\ log \in Deciding =>
         decision.action \in {"select", "exhaust", "fail"}

\* Where the current attempt stands.
ProgressInv ==
    /\ log \in {"ATTEMPT_COMPLETED", "VERIFYING"} => recorded[Current] # "none"
    /\ pc \in {"run", "lost"} => recorded[Current] = "none"
    /\ pc \in {"ran", "raised", "interrupted"} => recorded[Current] # "none"
    /\ pc \in {"run", "ran", "raised", "lost", "interrupted", "completed", "giveup",
               "dropped"}
         => verdict[Current] = "none"
    /\ log = "ATTEMPT_RUNNING" => verdict[Current] = "none"
    /\ pc = "verify" => verdict[Current] \notin {"accepted"}
    /\ pc \in {"judged", "verified"} => verdict[Current] # "none"

\* Nothing reaches the target before MATERIALIZING, and then only the selection.
DeliveryInv ==
    /\ Terminal => ~Up
    /\ log \notin {"MATERIALIZING", "COMPLETED", "FAILED"} =>
         /\ materialization = "none" /\ ~torn
         /\ \A a \in Attempts : applied[a] = 0
    /\ selection # None =>
         /\ verdict[selection] = "accepted" /\ recorded[selection] # "none"
         /\ log \in {"SELECTING", "MATERIALIZING"} \cup TERMINAL_STATES
    /\ pc = "select" => selection = None
    /\ pc = "selected" \/ log \in {"MATERIALIZING", "COMPLETED"} => selection # None
    /\ \A a \in Attempts : applied[a] > 0 => a = selection /\ applied[a] = 1
    /\ materialization = "succeeded" => selection # None /\ applied[selection] = 1 /\ ~torn
    /\ pc \in {"materialize", "inspect", "applied"} => materialization = "none"
    /\ pc = "materialize" => applied[selection] = 0 /\ ~torn
    /\ pc = "applied" => applied[selection] = 1 /\ ~torn
    /\ pc = "finish" \/ log = "COMPLETED" => materialization = "succeeded"

\* An accepted verification is known to the process that drives the run; the one
\* it has just received becomes eligible with the next step.
CandidatesInv ==
    /\ Up => Accepted \subseteq eligible \cup (IF pc \in {"judged", "verified"}
                                            THEN {Current} ELSE {})
    /\ log = "EXHAUSTED" => Accepted = {}

IInv ==
    /\ TypeOK /\ ControlInv /\ IdsInv /\ DecisionInv /\ ProgressInv
    /\ EligibleIsDurable /\ DeliveryInv /\ CandidatesInv
=============================================================================
