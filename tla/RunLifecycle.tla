---------------------------- MODULE RunLifecycle ----------------------------
(***************************************************************************)
(* What one closed-loop run promises to the owner of the target            *)
(* repository, without its crashes, budgets and retries: candidates are    *)
(* accepted one by one, at most one of the accepted ones is delivered, and *)
(* the run closes with an outcome that tells the truth about the target.   *)
(***************************************************************************)
EXTENDS FiniteSets

CONSTANTS
    Candidates,
    Nobody      \* not a candidate

VARIABLES
    accepted,   \* candidates that passed verification
    delivered,  \* the candidate whose patch is in the target, or Nobody
    damaged,    \* does the target hold a part of a patch?
    outcome     \* "open", or how the run was reported to have ended

lifecycle == <<accepted, delivered, damaged, outcome>>

Outcomes == {"COMPLETED", "EXHAUSTED", "FAILED", "CANCELLED"}

LifecycleInit ==
    /\ accepted = {} /\ delivered = Nobody /\ damaged = FALSE
    /\ outcome = "open"

Accept(c) ==
    /\ outcome = "open" /\ delivered = Nobody /\ ~damaged
    /\ c \notin accepted
    /\ accepted' = accepted \cup {c}
    /\ UNCHANGED <<delivered, damaged, outcome>>

Deliver(c) ==
    /\ outcome = "open" /\ delivered = Nobody /\ ~damaged
    /\ c \in accepted
    /\ delivered' = c
    /\ UNCHANGED <<accepted, damaged, outcome>>

\* Git dies while it writes an accepted patch.
Damage ==
    /\ outcome = "open" /\ delivered = Nobody /\ accepted # {}
    /\ damaged' = TRUE
    /\ UNCHANGED <<accepted, delivered, outcome>>

\* Success is claimed only for a delivered patch, exhaustion only when nothing was
\* accepted, and a cancelled run has left the target alone.  A failed run promises
\* nothing about the target but what it already did.
Close(o) ==
    /\ outcome = "open"
    /\ o = "COMPLETED" => delivered # Nobody /\ ~damaged
    /\ o = "CANCELLED" => delivered = Nobody /\ ~damaged
    /\ o = "EXHAUSTED" => accepted = {} /\ delivered = Nobody /\ ~damaged
    /\ outcome' = o
    /\ UNCHANGED <<accepted, delivered, damaged>>

LifecycleNext ==
    \/ \E c \in Candidates : Accept(c) \/ Deliver(c)
    \/ Damage
    \/ \E o \in Outcomes : Close(o)

LifecycleSpec == LifecycleInit /\ [][LifecycleNext]_lifecycle
=============================================================================
