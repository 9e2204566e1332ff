--------------------------- MODULE ControllerStates ---------------------------
(***************************************************************************)
(* The transition table of the closed-loop controller                      *)
(* (closed_loop/state_machine.py).  The controller consults it before      *)
(* every transition event it appends to events.jsonl, and recovery replays *)
(* the log through the same table.                                         *)
(***************************************************************************)

TERMINAL_STATES == {"COMPLETED", "EXHAUSTED", "FAILED", "CANCELLED"}

States ==
    TERMINAL_STATES \cup
    {"CREATED", "CLASSIFYING", "CLASSIFIED", "POLICY_SELECTED",
     "ATTEMPT_RUNNING", "ATTEMPT_COMPLETED", "VERIFYING", "VERIFIED",
     "REJECTED", "ESCALATING", "SELECTING", "AWAITING_APPROVAL",
     "MATERIALIZING"}

\* States from which both FAILED and CANCELLED are always reachable.
LOCAL Stop == {"FAILED", "CANCELLED"}

ALLOWED_TRANSITIONS ==
    [s \in States |->
        CASE s = "CREATED"           -> {"CLASSIFYING", "CANCELLED"}
          [] s = "CLASSIFYING"       -> {"CLASSIFIED"} \cup Stop
          [] s = "CLASSIFIED"        -> {"POLICY_SELECTED", "EXHAUSTED"} \cup Stop
          [] s = "POLICY_SELECTED"   -> {"ATTEMPT_RUNNING", "VERIFYING", "SELECTING",
                                         "EXHAUSTED"} \cup Stop
          [] s = "ATTEMPT_RUNNING"   -> {"ATTEMPT_COMPLETED"} \cup Stop
          [] s = "ATTEMPT_COMPLETED" -> {"VERIFYING", "REJECTED"} \cup Stop
          [] s = "VERIFYING"         -> {"VERIFIED"} \cup Stop
          [] s = "VERIFIED"          -> {"SELECTING", "REJECTED"} \cup Stop
          [] s = "REJECTED"          -> {"POLICY_SELECTED", "ESCALATING",
                                         "EXHAUSTED"} \cup Stop
          [] s = "ESCALATING"        -> {"POLICY_SELECTED", "EXHAUSTED"} \cup Stop
          [] s = "SELECTING"         -> {"AWAITING_APPROVAL", "MATERIALIZING",
                                         "EXHAUSTED"} \cup Stop
          [] s = "AWAITING_APPROVAL" -> {"MATERIALIZING", "COMPLETED"} \cup Stop
          [] s = "MATERIALIZING"     -> {"COMPLETED", "FAILED"}
          [] OTHER                   -> {}]
===============================================================================
