---------------------------- MODULE UpdateSystem ----------------------------
(***************************************************************************)
(* The installation under one Villani home and the commands that change it *)
(* (villani_distribution/update_system.py).                                *)
(*                                                                         *)
(* A process runs one command after the other: `update status` (also what  *)
(* doctor and preview call), `update check`, `update channel`, `install`   *)
(* and `update rollback`.  Every step is one access to the file system; a  *)
(* process may be killed between two of them.  Of a build only where its   *)
(* directory is matters, and whether it has passed verification.           *)
(* config.yaml, which is saved and restored beside the installation,       *)
(* downloads, launchers and the contents of reports are left out.          *)
(***************************************************************************)
EXTENDS Integers

CONSTANTS
    Processes,       \* who runs commands under this home
    Mortal,          \* the processes that may be killed, once each
    Interruptible,   \* the steps before which they may be killed
    Operators,       \* the processes whose user rolls back
    HasInstallation, \* is a verified build installed at first?
    ActivationFails, \* may os.replace(staged, current) fail although it could work?
    MaxTransactions, \* bound: installations and rollbacks that are begun
    None             \* no build, no directory, no lock, no command

Transactions == 1..MaxTransactions
First == 0                          \* the build that is installed at first
Builds == {First} \cup Transactions \* transaction t brings build t

\* Directories under the home: current and, per transaction, the others.
Current == <<"current", 0>>
Kinds == {"staged", "previous", "failed", "interrupted", "forward"}
Places == {Current} \cup (Kinds \X Transactions)
Place(kind, t) == <<kind, t>>

Finished == {"complete", "rolled_back", "recovered"}
Switching == {"previous_saved", "activated", "verifying"}
Phases == {"none", "prepared"} \cup Switching \cup Finished

Commands == {"status", "check", "recheck", "channel", "install", "rollback"}
Locking == {"install", "rollback"}
LockSteps == {"lock", "sign", "inspect", "unlink", "release"}
RecoverySteps == {"recover", "judge", "put_aside", "restore", "put_back", "recovered", "report"}
InstallSteps == {"stage", "prepare", "save", "saved", "activate", "activated",
                 "announce", "verifying", "verify", "reject", "revert", "failed",
                 "rolled_back", "verified", "complete"}
RollbackSteps == {"choose", "displace", "reinstate", "check_old", "retract",
                  "put_forward", "switched"}
Steps == {"note"} \cup LockSteps \cup RecoverySteps \cup InstallSteps \cup RollbackSteps

ASSUME UpdateAssumption ==
    /\ Mortal \subseteq Processes /\ Operators \subseteq Processes
    /\ Interruptible \subseteq Steps
    /\ HasInstallation \in BOOLEAN /\ ActivationFails \in BOOLEAN
    /\ MaxTransactions \in Nat
    /\ None \notin Builds \cup Places \cup Commands \cup [holder : Processes, signed : BOOLEAN]

VARIABLES
    at,       \* the build in each directory
    journal,  \* transaction.json of each transaction
    known,    \* previous_installation of update-state.json
    lock,     \* update.lock
    verified, \* the builds that have passed verification (history)
    count,    \* transactions begun
    pc, my    \* where each process is, and its local variables

vars == <<at, journal, known, lock, verified, count, pc, my>>

\* Local variables: the command; the journal of the recovery loop (turn, of upto)
\* and what was read of it; the own transaction and whether it saved a previous
\* installation; a previous_installation read earlier; attempts at the lock.
Fresh == [command |-> None, turn |-> 0, upto |-> 0, phase |-> "none", previous |-> FALSE,
          txn |-> 0, saved |-> FALSE, place |-> None, tries |-> 0]

TypeOK ==
    /\ at \in [Places -> Builds \cup {None}]
    /\ journal \in [Transactions -> [phase : Phases, previous : BOOLEAN]]
    /\ known \in Places \cup {None}
    /\ lock \in [holder : Processes, signed : BOOLEAN] \cup {None}
    /\ verified \subseteq Builds /\ count \in 0..MaxTransactions
    /\ pc \in [Processes -> Steps \cup {"idle", "dead"}]
    /\ \A p \in Processes :
         /\ my[p].command \in Commands \cup {None}
         /\ my[p].turn \in 0..(my[p].upto + 1) /\ my[p].upto \in 0..count
         /\ my[p].phase \in Phases \ Finished
         /\ my[p].txn \in 0..count /\ my[p].place \in Places \cup {None}
         /\ my[p].tries \in 0..2

Init ==
    /\ at = [x \in Places |-> IF x = Current /\ HasInstallation THEN First ELSE None]
    /\ journal = [t \in Transactions |-> [phase |-> "none", previous |-> FALSE]]
    /\ known = None /\ lock = None /\ count = 0
    /\ verified = IF HasInstallation THEN {First} ELSE {}
    /\ pc = [p \in Processes |-> "idle"]
    /\ my = [p \in Processes |-> Fresh]
----------------------------------------------------------------------------
Occupied(x) == at[x] # None

\* os.replace of a directory: the source must exist, and the target must not (a
\* directory with files in it is never replaced).
Movable(x, y) == Occupied(x) /\ ~Occupied(y)
Move(x, y) == at' = [at EXCEPT ![x] = None, ![y] = at[x]]

Alive(p) == pc[p] \notin {"idle", "dead"}

\* (Mutation of OwnerRunning: whether the owner is still there is not looked at.)
OwnerOnRecord(t) == \E p \in Processes : my[p].txn = t

\* _process_running(journal["owner_pid"])
OwnerRunning(t) == \E p \in Processes : Alive(p) /\ my[p].txn = t

Goto(p, step) == pc' = [pc EXCEPT ![p] = step]
Set(p, record) == my' = [my EXCEPT ![p] = record]
Return(p) == Goto(p, "idle") /\ Set(p, Fresh)

\* The command ends, with a result or an exception; finally releases the lock.
Leave(p) ==
    IF my[p].command \in Locking THEN Goto(p, "release") /\ UNCHANGED my ELSE Return(p)

\* The loop over the transactions that exist now.
Recover(p, local) == Goto(p, "recover") /\ Set(p, [local EXCEPT !.turn = 1, !.upto = count])

\* The user starts a command.
Begin(p, c) ==
    /\ pc[p] = "idle" /\ c # "recheck"
    /\ c = "rollback" => p \in Operators
    /\ LET local == [Fresh EXCEPT !.command = c]
       IN  IF c \in Locking THEN Goto(p, "lock") /\ Set(p, local) ELSE Recover(p, local)
    /\ UNCHANGED <<at, journal, known, lock, verified, count>>

\* A kill or a power failure.
Kill(p) ==
    /\ p \in Mortal /\ pc[p] \in Interruptible /\ Goto(p, "dead")
    /\ UNCHANGED <<at, journal, known, lock, verified, count, my>>
----------------------------------------------------------------------------
(* _acquire_update_lock and _release_update_lock *)

\* os.open with O_EXCL, at most twice.
CreateLock(p) ==
    /\ pc[p] = "lock"
    /\ IF my[p].tries = 2 THEN Return(p) /\ UNCHANGED lock
       ELSE /\ UNCHANGED my
            /\ IF lock = None
               THEN lock' = [holder |-> p, signed |-> FALSE] /\ Goto(p, "sign")
               ELSE UNCHANGED lock /\ Goto(p, "inspect")
    /\ UNCHANGED <<at, journal, known, verified, count>>

\* The owner is written; into a file without a name if the lock was removed.
SignLock(p) ==
    /\ pc[p] = "sign"
    /\ lock' = IF lock # None /\ lock.holder = p THEN [lock EXCEPT !.signed = TRUE] ELSE lock
    /\ IF my[p].command = "install" THEN Recover(p, my[p]) ELSE Goto(p, "choose") /\ UNCHANGED my
    /\ UNCHANGED <<at, journal, known, verified, count>>

\* A lock with a name in it whose owner is gone; any other is an error.
Stale == lock # None /\ lock.signed /\ pc[lock.holder] = "dead"

InspectLock(p) ==
    /\ pc[p] = "inspect"
    /\ IF Stale THEN Goto(p, "unlink") /\ UNCHANGED my ELSE Return(p)
    /\ UNCHANGED <<at, journal, known, lock, verified, count>>

\* Whatever lock is there by now.
UnlinkLock(p) ==
    /\ pc[p] = "unlink"
    /\ lock' = None
    /\ Goto(p, "lock") /\ Set(p, [my[p] EXCEPT !.tries = @ + 1])
    /\ UNCHANGED <<at, journal, known, verified, count>>

ReleaseLock(p) ==
    /\ pc[p] = "release"
    /\ lock' = IF lock = [holder |-> p, signed |-> TRUE] THEN None ELSE lock
    /\ Return(p)
    /\ UNCHANGED <<at, journal, known, verified, count>>
----------------------------------------------------------------------------
(* recover_interrupted_update, without the lock unless install calls it *)

\* (Mutation of Unfinished: recovery only skips what has no journal.)
Journalled(t) == journal[t].phase # "none"

Unfinished(t) == journal[t].phase \notin Finished \cup {"none"}
Journal(t, phase) == journal' = [journal EXCEPT ![t].phase = phase]

\* After the loop: install goes on, the others read update-state.json; check does so twice.
AfterRecovery(p) ==
    CASE my[p].command = "install" -> Goto(p, "stage") /\ UNCHANGED my
      [] my[p].command = "status" -> Return(p)
      [] my[p].command = "check" ->
           Recover(p, [my[p] EXCEPT !.command = "recheck", !.place = known])
      [] my[p].command = "recheck" -> Goto(p, "note") /\ UNCHANGED my
      [] my[p].command = "channel" ->
           Goto(p, "note") /\ Set(p, [my[p] EXCEPT !.place = known])

ReadJournal(p) ==
    LET t == my[p].turn
    IN  /\ pc[p] = "recover"
        /\ IF t > my[p].upto THEN AfterRecovery(p)
           ELSE IF Unfinished(t) /\ ~OwnerRunning(t)
           THEN /\ Goto(p, "judge")
                /\ Set(p, [my[p] EXCEPT !.phase = journal[t].phase, !.previous = journal[t].previous])
           ELSE Goto(p, "recover") /\ Set(p, [my[p] EXCEPT !.turn = t + 1])
        /\ UNCHANGED <<at, journal, known, lock, verified, count>>

\* (Mutation of Suspect: an installation is trusted as soon as its verification runs.)
SuspectUnlessVerifying(phase) == Occupied(Current) /\ phase \in Switching \ {"verifying"}

\* The journal says that current may hold the new build.
Suspect(phase) == Occupied(Current) /\ phase \in Switching

JudgeCurrent(p) ==
    /\ pc[p] = "judge"
    /\ IF ~Suspect(my[p].phase) THEN Goto(p, "restore") /\ UNCHANGED my
       ELSE IF Occupied(Place("interrupted", my[p].turn)) THEN Leave(p)
       ELSE Goto(p, "put_aside") /\ UNCHANGED my
    /\ UNCHANGED <<at, journal, known, lock, verified, count>>

\* One os.replace of process p, and the step after it; an OSError ends the command.
Replace(p, x, y, step) ==
    /\ IF Movable(x, y) THEN Move(x, y) /\ Goto(p, step) /\ UNCHANGED my
       ELSE Leave(p) /\ UNCHANGED at
    /\ UNCHANGED <<journal, known, lock, verified, count>>

PutAside(p) ==
    /\ pc[p] = "put_aside"
    /\ Replace(p, Current, Place("interrupted", my[p].turn), "restore")

\* (Mutation of Restorable: the previous installation is not put back.)
NeverRestorable(p) == FALSE

Restorable(p) ==
    my[p].previous /\ Occupied(Place("previous", my[p].turn)) /\ ~Occupied(Current)

RestorePrevious(p) ==
    /\ pc[p] = "restore"
    /\ Goto(p, IF Restorable(p) THEN "put_back" ELSE "recovered")
    /\ UNCHANGED <<at, journal, known, lock, verified, count, my>>

PutBack(p) ==
    /\ pc[p] = "put_back"
    /\ Replace(p, Place("previous", my[p].turn), Current, "recovered")

\* The journal as it was read, with its phase changed.
WriteRecovered(p) ==
    /\ pc[p] = "recovered"
    /\ journal' = [journal EXCEPT ![my[p].turn] = [phase |-> "recovered", previous |-> my[p].previous]]
    /\ Goto(p, "report")
    /\ UNCHANGED <<at, known, lock, verified, count, my>>

ReportRecovery(p) ==
    /\ pc[p] = "report"
    /\ known' = None
    /\ Goto(p, "recover") /\ Set(p, [my[p] EXCEPT !.turn = @ + 1])
    /\ UNCHANGED <<at, journal, lock, verified, count>>

\* check and set_policy write back the previous_installation they have read.
WriteNote(p) ==
    /\ pc[p] = "note"
    /\ known' = my[p].place /\ Return(p)
    /\ UNCHANGED <<at, journal, lock, verified, count>>
----------------------------------------------------------------------------
(* _install_artifact, under the lock *)

Mine(p, kind) == Place(kind, my[p].txn)

\* Download, extraction and backup; a failure leaves nothing that counts.
Stage(p) ==
    /\ pc[p] = "stage"
    /\ \/ /\ count < MaxTransactions /\ count' = count + 1
          /\ at' = [at EXCEPT ![Place("staged", count + 1)] = count + 1]
          /\ Goto(p, "prepare") /\ Set(p, [my[p] EXCEPT !.txn = count + 1])
       \/ Leave(p) /\ UNCHANGED <<at, count>>
    /\ UNCHANGED <<journal, known, lock, verified>>

Prepare(p) ==
    /\ pc[p] = "prepare"
    /\ journal' = [journal EXCEPT ![my[p].txn] = [phase |-> "prepared", previous |-> Occupied(Current)]]
    /\ Goto(p, "save")
    /\ UNCHANGED <<at, known, lock, verified, count, my>>

SavePrevious(p) ==
    /\ pc[p] = "save"
    /\ IF Occupied(Current)
       THEN Move(Current, Mine(p, "previous")) /\ Goto(p, "saved") /\ Set(p, [my[p] EXCEPT !.saved = TRUE])
       ELSE Goto(p, "activate") /\ UNCHANGED <<at, my>>
    /\ UNCHANGED <<journal, known, lock, verified, count>>

\* (Mutation of AfterPhase: the journal says "previous_saved" after the switch only.)
AfterPhaseLate(step) ==
    CASE step = "saved" -> <<"prepared", "activate">>
      [] step = "activated" -> <<"activated", "announce">>
      [] step = "verifying" -> <<"verifying", "verify">>

\* What the journal says at a step of the installation, and the step after it.
AfterPhase(step) ==
    CASE step = "saved" -> <<"previous_saved", "activate">>
      [] step = "activated" -> <<"activated", "announce">>
      [] step = "verifying" -> <<"verifying", "verify">>

WritePhase(p) ==
    /\ pc[p] \in {"saved", "activated", "verifying"}
    /\ Journal(my[p].txn, AfterPhase(pc[p])[1]) /\ Goto(p, AfterPhase(pc[p])[2])
    /\ UNCHANGED <<at, known, lock, verified, count, my>>

\* os.replace may fail although it could work (a file is held open, for one).
Outcomes == IF ActivationFails THEN BOOLEAN ELSE {TRUE}

\* When the switch fails the handler gives the previous installation back; the journal
\* stays as it is.
Activate(p) ==
    /\ pc[p] = "activate"
    /\ \E works \in Outcomes :
         IF works /\ Movable(Mine(p, "staged"), Current)
         THEN Move(Mine(p, "staged"), Current) /\ Goto(p, "activated") /\ UNCHANGED my
         ELSE /\ IF my[p].saved /\ Movable(Mine(p, "previous"), Current)
                 THEN Move(Mine(p, "previous"), Current) ELSE UNCHANGED at
              /\ Leave(p)
    /\ UNCHANGED <<journal, known, lock, verified, count>>

Saved(p) == IF my[p].saved THEN Mine(p, "previous") ELSE None

\* update-state.json: "installing", and "verified" at the end.
Announce(p) ==
    /\ pc[p] \in {"announce", "verified"}
    /\ known' = Saved(p)
    /\ Goto(p, IF pc[p] = "announce" THEN "verifying" ELSE "complete")
    /\ UNCHANGED <<at, journal, lock, verified, count, my>>

\* The new binary reports its version and doctor finds it healthy, or not.
Verification(p, ok, onSuccess, onFailure) ==
    /\ ok => Occupied(Current)
    /\ verified' = IF ok THEN verified \cup {at[Current]} ELSE verified
    /\ Goto(p, IF ok THEN onSuccess ELSE onFailure)
    /\ UNCHANGED <<at, journal, known, lock, count, my>>

Verify(p) ==
    /\ pc[p] = "verify"
    /\ \E ok \in BOOLEAN : Verification(p, ok, "verified", "reject")

Reject(p) == pc[p] = "reject" /\ Replace(p, Current, Mine(p, "failed"), "revert")

Revert(p) ==
    /\ pc[p] = "revert"
    /\ IF my[p].saved /\ Occupied(Mine(p, "previous"))
       THEN Replace(p, Mine(p, "previous"), Current, "failed")
       ELSE Goto(p, "failed") /\ UNCHANGED <<at, journal, known, lock, verified, count, my>>

ReportFailure(p) ==
    /\ pc[p] = "failed"
    /\ known' = None /\ Goto(p, "rolled_back")
    /\ UNCHANGED <<at, journal, lock, verified, count, my>>

\* The last write to the journal: "rolled_back" or "complete".
Finish(p) ==
    /\ pc[p] \in {"rolled_back", "complete"}
    /\ Journal(my[p].txn, pc[p]) /\ Leave(p)
    /\ UNCHANGED <<at, known, lock, verified, count>>
----------------------------------------------------------------------------
(* _rollback, under the lock: no recovery before it, no journal *)

\* The previous installation of update-state.json must be there and intact.
ChoosePrevious(p) ==
    /\ pc[p] = "choose"
    /\ \/ /\ known # None /\ Occupied(known) /\ count < MaxTransactions
          /\ count' = count + 1
          /\ Goto(p, "displace") /\ Set(p, [my[p] EXCEPT !.place = known, !.txn = count + 1])
       \/ Leave(p) /\ UNCHANGED count
    /\ UNCHANGED <<at, journal, known, lock, verified>>

Displace(p) == pc[p] = "displace" /\ Replace(p, Current, Mine(p, "forward"), "reinstate")

\* When the move fails the displaced installation is given back.
Reinstate(p) ==
    /\ pc[p] = "reinstate"
    /\ \E works \in Outcomes :
         IF works /\ Movable(my[p].place, Current)
         THEN /\ Move(my[p].place, Current) /\ Goto(p, "check_old")
              /\ UNCHANGED <<journal, known, lock, verified, count, my>>
         ELSE Replace(p, Mine(p, "forward"), Current, "release")

VerifyPrevious(p) ==
    /\ pc[p] = "check_old"
    /\ \E ok \in BOOLEAN : Verification(p, ok, "switched", "retract")

\* The older build does not start: both moves are undone.
Retract(p) == pc[p] = "retract" /\ Replace(p, Current, my[p].place, "put_forward")

PutForward(p) == pc[p] = "put_forward" /\ Replace(p, Mine(p, "forward"), Current, "release")

ReportRollback(p) ==
    /\ pc[p] = "switched"
    /\ known' = Mine(p, "forward") /\ Leave(p)
    /\ UNCHANGED <<at, journal, lock, verified, count>>
----------------------------------------------------------------------------
LockStep(p) ==
    CreateLock(p) \/ SignLock(p) \/ InspectLock(p) \/ UnlinkLock(p) \/ ReleaseLock(p)

RecoveryStep(p) ==
    \/ ReadJournal(p) \/ JudgeCurrent(p) \/ PutAside(p) \/ RestorePrevious(p)
    \/ PutBack(p) \/ WriteRecovered(p) \/ ReportRecovery(p)

InstallStep(p) ==
    \/ Stage(p) \/ Prepare(p) \/ SavePrevious(p) \/ WritePhase(p) \/ Activate(p)
    \/ Announce(p) \/ Verify(p) \/ Reject(p) \/ Revert(p)
    \/ ReportFailure(p) \/ Finish(p)

RollbackStep(p) ==
    \/ ChoosePrevious(p) \/ Displace(p) \/ Reinstate(p) \/ PutForward(p)
    \/ VerifyPrevious(p) \/ Retract(p) \/ ReportRollback(p)

Step(p) == LockStep(p) \/ RecoveryStep(p) \/ WriteNote(p) \/ InstallStep(p) \/ RollbackStep(p)

Next == \E p \in Processes : Step(p) \/ Kill(p) \/ \E c \in Commands : Begin(p, c)

Spec == Init /\ [][Next]_vars

\* Commands that have begun go on, and somebody asks for the status again and again,
\* which is when an interrupted update is noticed.
FairSpec ==
    /\ Spec
    /\ \A p \in Processes : WF_vars(Step(p)) /\ SF_vars(Begin(p, "status"))
----------------------------------------------------------------------------
(* Properties *)

InTransaction(p) == pc[p] \in InstallSteps \cup RollbackSteps

\* The update lock (update_system.py:141) excludes: at most one process that is alive
\* installs or rolls back at any time.  It does as long as no two processes can take over
\* the lock of a third one that was killed.
OneInstaller == \A p, q \in Processes : InTransaction(p) /\ InTransaction(q) => p = q

\* No command is under way and no journal tells of an interrupted update.
Settled ==
    /\ \A p \in Processes : ~Alive(p)
    /\ \A t \in Transactions : ~Unfinished(t)

\* Whatever was installed, refused, rolled back, killed and recovered, in the end there
\* is an active installation if there was one at first (update_system.py:264).
InstallationSurvives == Settled /\ HasInstallation => Occupied(Current)

\* ... and it is one that has passed verification: a build that was switched on to be
\* verified does not stay when its verification fails or is interrupted.
ActiveIsVerified == Settled /\ Occupied(Current) => at[Current] \in verified

\* The journal of an interrupted update is finished by a later status or install, so
\* that the update is undone: recovery never gets stuck (docs/SELF_SERVICE.md).
InterruptedUpdatesEnd ==
    \A t \in Transactions : Unfinished(t) ~> ~Unfinished(t)

\* The installation that is active once the command under way has come to its end or
\* has been undone: the saved one until the journal is finished, the displaced one until
\* the verification of the older one has succeeded.
Undone ==
    {Place("previous", t) : t \in {u \in Transactions : Unfinished(u)}}
      \cup {Mine(p, "forward") : p \in {q \in Processes :
              pc[q] \in {"reinstate", "check_old", "retract", "put_forward"}}}

Effective ==
    IF \E x \in Undone : Occupied(x) THEN at[CHOOSE x \in Undone : Occupied(x)] ELSE at[Current]

Promise == INSTANCE AtomicInstallation WITH active <- Effective, trusted <- verified

\* Seen from outside, installations are switched as a whole, and only to verified ones.
ImplementsAtomicInstallation == Promise!Spec
=============================================================================
