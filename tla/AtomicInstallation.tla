------------------------- MODULE AtomicInstallation -------------------------
(***************************************************************************)
(* What the update system promises of the installation under the Villani   *)
(* home: there is always one that works.  A new build is verified beside   *)
(* the active one, and the switch to a verified build is one step, forward *)
(* (install) or backward (rollback); nothing else replaces it.             *)
(***************************************************************************)
CONSTANTS Builds, First   \* every build; the one that is installed at first

VARIABLES active, trusted

vars == <<active, trusted>>

Init == active = First /\ trusted = {First}

\* A build passes startup and doctor verification.
Verify(b) == trusted' = trusted \cup {b} /\ UNCHANGED active

\* A verified build becomes the active one.
Switch(b) == b \in trusted /\ active' = b /\ UNCHANGED trusted

Next == \E b \in Builds : Verify(b) \/ Switch(b)

Spec == Init /\ [][Next]_vars
=============================================================================
