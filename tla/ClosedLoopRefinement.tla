------------------------ MODULE ClosedLoopRefinement ------------------------
(***************************************************************************)
(* The controller of ClosedLoop, with its crashes, recoveries and          *)
(* cancellations, implements RunLifecycle.  A candidate counts as accepted *)
(* once its verification file is on disk, and as delivered once git has    *)
(* applied its patch: both before the event that reports it is logged.     *)
(***************************************************************************)
EXTENDS ClosedLoopInvariant

DeliveredCandidate ==
    IF \E a \in Attempts : applied[a] > 0
    THEN CHOOSE a \in Attempts : applied[a] > 0
    ELSE None

Lifecycle ==
    INSTANCE RunLifecycle WITH
        Candidates <- Attempts,
        Nobody     <- None,
        accepted   <- Accepted,
        delivered  <- DeliveredCandidate,
        damaged    <- torn,
        outcome    <- IF Terminal THEN log ELSE "open"

\* Every run keeps the promises of RunLifecycle: one accepted candidate at most is
\* delivered, once, and the terminal state tells the truth about the target
\* (run, resume and cancel taken together).
ImplementsLifecycle == Lifecycle!LifecycleSpec
=============================================================================
