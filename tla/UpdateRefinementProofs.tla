------------------------ MODULE UpdateRefinementProofs ------------------------
(***************************************************************************)
(* Seen from outside, the update system switches installations as a whole, *)
(* and only to verified ones: UpdateSystem implements AtomicInstallation,  *)
(* for any number of transactions.                                         *)
(*                                                                         *)
(* SafeInv knows which places are occupied.  The promise is about builds:  *)
(* TrustInv says which of them have passed verification, and when the one  *)
(* in current is only on trial.                                            *)
(***************************************************************************)
EXTENDS UpdateSystemProofs

\* Where an installation is kept that has been replaced.
Saving == {"previous", "forward"}

\* What was replaced has passed verification; its transaction has been begun.
SavedInv ==
    \A k \in Saving, t \in Transactions :
      Occupied(Place(k, t)) => at[Place(k, t)] \in verified /\ t <= count

\* A journal says that current holds a new build, and the old one is kept.
Tentative == \E t \in Transactions : journal[t].phase \in Switching /\ Occupied(Prev(t))

CurrentInv == Occupied(Current) /\ ~Tentative => at[Current] \in verified

\* While a journal says "prepared" either nothing is saved or current is empty.
PreparedInv ==
    \A t \in Transactions :
      journal[t].phase = "prepared" /\ Occupied(Current) => ~Occupied(Prev(t))

\* A replaced installation of a transaction before t.
Older(x, t) == \E k \in Saving, u \in Transactions : x = Place(k, u) /\ u < t

TrustIs(s, t, u, place) ==
    /\ s \in {"prepare", "save"} \cup UndoSteps => ~Occupied(Prev(t))
    /\ s \in {"verified", "complete"} => at[Current] \in verified
    /\ s \in RollbackSteps \ {"choose"} => Older(place, t)
    /\ s = "recovered" => ~Occupied(Prev(u))

TrustAt(p) == TrustIs(pc[p], my[p].txn, my[p].turn, my[p].place)

TrustInv ==
    SavedInv /\ CurrentInv /\ PreparedInv /\ \A p \in Processes : TrustAt(p)

\* The steps at which TrustAt says something.
Charged == {"prepare", "save", "verified", "complete", "recovered"} \cup UndoSteps
             \cup (RollbackSteps \ {"choose"})
-----------------------------------------------------------------------------
(* What moves and journal entries do to the builds *)

LEMMA Uncharged ==
    ASSUME NEW p \in Processes, pc'[p] \notin Charged
    PROVE  TrustAt(p)'
  BY DEF TrustAt, TrustIs, Charged

LEMMA MovesBuild ==
    ASSUME TypeInv, NEW x \in Places, NEW y \in Places, x # y, Move(x, y)
    PROVE  /\ at'[y] = at[x] /\ at'[x] = None
           /\ \A z \in Places : z # x /\ z # y => at'[z] = at[z]
  BY DEF TypeInv, StoreInv, Move

LEMMA SavingPlaces ==
    /\ Saving \subseteq Kinds /\ Current \in Places
    /\ \A k \in Saving, t \in Transactions : Place(k, t) \in Places /\ Place(k, t) # Current
    /\ \A t \in Transactions : Prev(t) = Place("previous", t) /\ "previous" \in Saving
  BY PlacesAre, Apart DEF Saving, Kinds, Prev

LEMMA SavedMoves ==
    ASSUME TypeInv, SavedInv, NEW x \in Places, NEW y \in Places, x # y, Occupied(x), Move(x, y),
           UNCHANGED count, verified \subseteq verified',
           \A k \in Saving, t \in Transactions : y = Place(k, t) => at[x] \in verified /\ t <= count
    PROVE  SavedInv'
  <1> SUFFICES ASSUME NEW k \in Saving, NEW t \in Transactions, Occupied(Place(k, t))'
               PROVE  at'[Place(k, t)] \in verified' /\ t <= count
    BY DEF SavedInv
  <1>1. Place(k, t) \in Places
    BY SavingPlaces
  <1>2. /\ at'[y] = at[x] /\ at'[x] = None
        /\ \A z \in Places : z # x /\ z # y => at'[z] = at[z]
    BY MovesBuild
  <1>3. Place(k, t) # x
    BY <1>2 DEF Occupied
  <1>4. CASE Place(k, t) = y
    BY <1>2, <1>4
  <1>5. CASE Place(k, t) # y
    BY <1>1, <1>2, <1>3, <1>5 DEF Occupied, SavedInv
  <1> QED BY <1>4, <1>5

LEMMA SavedStays ==
    ASSUME SavedInv, UNCHANGED <<at, count>>, verified \subseteq verified'
    PROVE  SavedInv'
  BY DEF SavedInv, Occupied

\* What is in current has passed verification unless a journal says otherwise.
LEMMA NothingTentative ==
    ASSUME CurrentInv, Occupied(Current),
           \A t \in Transactions : Unfinished(t) =>
             journal[t].phase \notin Switching \/ ~Occupied(Prev(t))
    PROVE  at[Current] \in verified
  <1>1. \A t \in Transactions : journal[t].phase \in Switching => Unfinished(t)
    BY DEF Switching, Unfinished, Finished
  <1>2. ~Tentative
    BY <1>1 DEF Tentative
  <1> QED BY <1>2 DEF CurrentInv

LEMMA ReadyIsVerified ==
    ASSUME CurrentInv, Occupied(Current), Ready
    PROVE  at[Current] \in verified
  BY NothingTentative DEF Ready

\* A step that moves nothing and writes no journal.
LEMMA TrustStays ==
    ASSUME TypeInv, TrustInv, NEW p \in Processes, Others(p), UNCHANGED <<at, journal>>,
           verified \subseteq verified', count' \in Nat, count <= count', TrustAt(p)'
    PROVE  TrustInv'
  <1>1. \A x : Occupied(x)' <=> Occupied(x)
    BY DEF Occupied
  <1>2. SavedInv'
    <2>1. \A k, m, n \in Nat : k <= m /\ m <= n => k <= n
      OBVIOUS
    <2>2. \A t \in Transactions : t \in Nat
      BY DEF Transactions
    <2>3. count \in Nat
      BY UpdateAssumption DEF TypeInv, StoreInv, UpdateAssumption
    <2>4. \A t \in Transactions : t <= count => t <= count'
      BY <2>1, <2>2, <2>3
    <2> QED BY <1>1, <2>4 DEF TrustInv, SavedInv
  <1>3. CurrentInv'
    BY <1>1 DEF TrustInv, CurrentInv, Tentative, Prev
  <1>4. PreparedInv'
    BY <1>1 DEF TrustInv, PreparedInv, Prev
  <1>5. ASSUME NEW q \in Processes, q # p
        PROVE  TrustAt(q)'
    <2>1. pc'[q] = pc[q] /\ my'[q] = my[q]
      BY <1>5 DEF Others
    <2>2. TrustAt(q)
      BY DEF TrustInv
    <2> QED BY <1>1, <2>1, <2>2 DEF TrustAt, TrustIs, Older, Prev
  <1> QED BY <1>2, <1>3, <1>4, <1>5 DEF TrustInv

\* A step of a process that changes the installation: the others have no part in it.
LEMMA TrustMoves ==
    ASSUME Undoable, AllInv, NEW p \in Processes, Busy(p), Others(p),
           SavedInv', CurrentInv', PreparedInv', TrustAt(p)'
    PROVE  TrustInv'
  <1>1. ASSUME NEW q \in Processes, q # p
        PROVE  TrustAt(q)'
    <2>1. ~Busy(q) /\ pc'[q] = pc[q]
      BY <1>1, Alone DEF Others
    <2>2. pc'[q] \notin Charged
      BY <2>1 DEF Busy, Charged, InstallSteps, UndoSteps, RepairSteps
    <2> QED BY <2>2, Uncharged
  <1> QED BY <1>1 DEF TrustInv

\* Where nothing is left in current, or no journal says "prepared".
LEMMA NothingPrepared ==
    ASSUME ~Occupied(Current)' \/ Ready' \/ \E t \in Transactions : Only(t)' /\ journal'[t].phase # "prepared"
    PROVE  PreparedInv'
  <1>1. \A t \in Transactions : journal'[t].phase = "prepared" => Unfinished(t)'
    BY DEF Unfinished, Finished
  <1> QED BY <1>1 DEF PreparedInv, Ready, Only
-----------------------------------------------------------------------------
(* Steps that leave the installation and the journals alone *)

Aside == {"idle", "note", "recover", "judge", "put_aside", "restore", "report", "stage", "choose"}
           \cup LockSteps

Untouched == UNCHANGED <<at, journal, verified, count>>

LEMMA AsideIsUncharged == \A s \in Aside \cup {"dead"} : s \notin Charged
  BY DEF Aside, LockSteps, Charged, UndoSteps, RollbackSteps

\* Where a step that only goes on leads.
LEMMA LeadsTo ==
    ASSUME TypeInv, NEW p \in Processes,
           \/ Return(p) \/ Leave(p)
           \/ \E s \in Aside : Goto(p, s) /\ (UNCHANGED my \/ \E r : Set(p, r))
    PROVE  Others(p) /\ pc'[p] \in Aside
  <1>1. PICK s \in Aside : Goto(p, s) /\ (UNCHANGED my \/ \E r : Set(p, r))
    BY DEF Return, Leave, Aside, LockSteps
  <1> QED BY <1>1, GoesToStep, GoesWith

LEMMA LockLeads ==
    ASSUME TypeInv, NEW p \in Processes, LockStep(p) \/ \E c \in Commands : Begin(p, c)
    PROVE  Untouched /\ Others(p) /\ pc[p] \in Aside /\ pc'[p] \in Aside
  <1>1. Untouched /\ pc[p] \in Aside
    BY DEF LockStep, CreateLock, SignLock, InspectLock, UnlinkLock, ReleaseLock, Begin, Untouched,
           Aside, LockSteps
  <1>2. \/ Return(p)
        \/ \E s \in {"sign", "inspect", "recover", "choose", "unlink", "lock"} :
             Goto(p, s) /\ (UNCHANGED my \/ \E r : Set(p, r))
    BY DEF LockStep, CreateLock, SignLock, InspectLock, UnlinkLock, ReleaseLock, Begin, Recover
  <1>3. {"sign", "inspect", "recover", "choose", "unlink", "lock"} \subseteq Aside
    BY DEF Aside, LockSteps
  <1> QED BY <1>1, <1>2, <1>3, LeadsTo

LEMMA LookLeads ==
    ASSUME TypeInv, NEW p \in Processes,
           ReadJournal(p) \/ JudgeCurrent(p) \/ ReportRecovery(p) \/ WriteNote(p)
    PROVE  Untouched /\ Others(p) /\ pc[p] \in Aside /\ pc'[p] \in Aside
  <1>1. Untouched /\ pc[p] \in Aside
    BY DEF ReadJournal, JudgeCurrent, ReportRecovery, WriteNote, Untouched, Aside
  <1>2. {"recover", "stage", "note", "judge", "restore", "put_aside"} \subseteq Aside
    BY DEF Aside
  <1>3. CASE ReadJournal(p)
    <2>1. Fits("recover", my[p], count)
      BY <1>3 DEF ReadJournal, TypeInv, ProcessInv
    <2>2. my[p].command \in {"install", "status", "check", "recheck", "channel"}
      BY <2>1 DEF Fits, RecoverySteps
    <2>3. AfterRecovery(p) =>
            \/ Return(p)
            \/ \E s \in {"stage", "recover", "note"} : Goto(p, s) /\ (UNCHANGED my \/ \E r : Set(p, r))
      BY <2>2 DEF AfterRecovery, Recover
    <2>4. \/ AfterRecovery(p)
          \/ \E s \in {"judge", "recover"} : Goto(p, s) /\ \E r : Set(p, r)
      BY <1>3 DEF ReadJournal
    <2> QED BY <1>1, <1>2, <2>3, <2>4, LeadsTo
  <1>4. CASE JudgeCurrent(p) \/ ReportRecovery(p) \/ WriteNote(p)
    <2>1. \/ Leave(p) \/ Return(p)
          \/ \E s \in {"restore", "put_aside", "recover"} :
               Goto(p, s) /\ (UNCHANGED my \/ \E r : Set(p, r))
      BY <1>4 DEF JudgeCurrent, ReportRecovery, WriteNote
    <2> QED BY <1>1, <1>2, <2>1, LeadsTo
  <1> QED BY <1>3, <1>4

LEMMA KillLeads ==
    ASSUME TypeInv, NEW p \in Processes, Kill(p)
    PROVE  Untouched /\ Others(p) /\ pc'[p] = "dead"
  BY GoesToStep DEF Kill, Untouched

LEMMA AsideKeepsTrust ==
    ASSUME TypeInv, TrustInv, NEW p \in Processes, Untouched, Others(p), pc'[p] \in Aside \cup {"dead"}
    PROVE  TrustInv'
  <1>1. TrustAt(p)'
    BY AsideIsUncharged, Uncharged
  <1>2. count' \in Nat /\ count <= count' /\ verified \subseteq verified' /\ UNCHANGED <<at, journal>>
    BY UpdateAssumption DEF Untouched, TypeInv, StoreInv, UpdateAssumption
  <1> QED BY <1>1, <1>2, TrustStays
-----------------------------------------------------------------------------
(* The steps of an installation *)

LEMMA Own ==
    ASSUME AllInv, TrustInv, NEW p \in Processes, NEW s \in InstallSteps \ {"stage"}, pc[p] = s,
           NEW t \in Transactions, t = my[p].txn
    PROVE  /\ TrustIs(s, t, my[p].turn, my[p].place) /\ InstallIs(s, t, my[p].saved) /\ Busy(p) /\ TypeInv
  BY InstallNow DEF TrustInv, TrustAt, Busy

LEMMA StageTrust ==
    ASSUME Undoable, AllInv, AllInv', TrustInv, NEW p \in Processes, Stage(p)
    PROVE  TrustInv'
  <1>1. /\ pc[p] = "stage" /\ UNCHANGED <<journal, verified>> /\ TypeInv
        /\ my[p] \in Local /\ count \in 0..MaxTransactions /\ Busy(p)
    BY DEF Stage, AllInv, TypeInv, StoreInv, ProcessInv, Busy, InstallSteps
  <1>2. CASE Leave(p) /\ UNCHANGED <<at, count>>
    <2>1. Others(p) /\ pc'[p] \in Aside /\ Untouched
      BY <1>1, <1>2, LeadsTo DEF Untouched
    <2> QED BY <1>1, <2>1, AsideKeepsTrust
  <1>3. CASE /\ count < MaxTransactions /\ count' = count + 1
             /\ at' = [at EXCEPT ![Place("staged", count + 1)] = count + 1]
             /\ Goto(p, "prepare") /\ Set(p, [my[p] EXCEPT !.txn = count + 1])
    <2>1. PICK t \in Transactions : t = count + 1
      BY <1>1, <1>3, UpdateAssumption DEF Transactions, UpdateAssumption
    <2>2. Others(p) /\ pc'[p] = "prepare" /\ my'[p].txn = t
      <3>1. [my[p] EXCEPT !.txn = count + 1].txn = count + 1
        BY <1>1 DEF Local
      <3> QED BY <1>1, <1>3, <2>1, <3>1, GoesWith
    <2>3. /\ at'[Current] = at[Current]
          /\ \A k \in Saving, u \in Transactions : at'[Place(k, u)] = at[Place(k, u)]
      <3>1. at \in [Places -> Builds \cup {None}] /\ at' = [at EXCEPT ![Place("staged", t)] = t]
        BY <1>1, <1>3, <2>1 DEF TypeInv, StoreInv
      <3>2. /\ Place("staged", t) # Current
            /\ \A k \in Saving, u \in Transactions : Place(k, u) # Place("staged", t)
        BY Apart DEF Saving, Kinds
      <3> QED BY <3>1, <3>2, SavingPlaces
    <2>4. \A u \in Transactions : (Occupied(Prev(u))' <=> Occupied(Prev(u)))
      BY <2>3, SavingPlaces DEF Occupied
    <2>5. \A u \in Transactions : u <= count => u <= count'
      <3>1. \A m, n \in Nat : m <= n => m <= n + 1
        OBVIOUS
      <3> QED BY <1>1, <1>3, <3>1 DEF Transactions
    <2>6. SavedInv'
      BY <1>1, <2>3, <2>5 DEF TrustInv, SavedInv, Occupied
    <2>7. CurrentInv'
      BY <1>1, <2>3, <2>4 DEF TrustInv, CurrentInv, Tentative, Occupied
    <2>8. PreparedInv'
      BY <1>1, <2>3, <2>4 DEF TrustInv, PreparedInv, Occupied
    <2>9. ~Occupied(Prev(t))
      <3>1. \A n \in Nat : ~(n + 1 <= n)
        OBVIOUS
      <3>2. ~(t <= count)
        BY <1>1, <2>1, <3>1
      <3> QED BY <3>2, SavingPlaces DEF TrustInv, SavedInv
    <2>10. TrustAt(p)'
      BY <2>2, <2>4, <2>9 DEF TrustAt, TrustIs, RollbackSteps
    <2> QED BY <1>1, <2>2, <2>6, <2>7, <2>8, <2>10, TrustMoves
  <1> QED BY <1>2, <1>3, <1>1 DEF Stage

LEMMA PrepareTrust ==
    ASSUME Undoable, AllInv, AllInv', TrustInv, NEW p \in Processes, Prepare(p)
    PROVE  TrustInv'
  <1>1. /\ pc[p] = "prepare" /\ Goto(p, "save") /\ UNCHANGED <<at, verified, count, my>>
        /\ journal \in [Transactions -> [phase : Phases, previous : BOOLEAN]]
        /\ journal' = [journal EXCEPT ![my[p].txn] = [phase |-> "prepared", previous |-> Occupied(Current)]]
        /\ {"prepare", "save"} \subseteq InstallSteps \ {"stage"}
    BY DEF Prepare, AllInv, TypeInv, StoreInv, InstallSteps
  <1>2. PICK t \in Transactions : t = my[p].txn
    BY <1>1, InstallNow
  <1>3. /\ TrustIs("prepare", t, my[p].turn, my[p].place) /\ InstallIs("prepare", t, my[p].saved)
        /\ Busy(p) /\ TypeInv
    BY <1>1, <1>2, Own
  <1>4. Ready /\ Occupied(Current) /\ ~Occupied(Prev(t))
    BY <1>3 DEF InstallIs, TrustIs
  <1>5. at[Current] \in verified
    BY <1>4, ReadyIsVerified DEF TrustInv
  <1>6. Others(p) /\ pc'[p] = "save" /\ my'[p] = my[p]
    BY <1>1, <1>3, GoesToStep
  <1>7. /\ journal'[t].phase = "prepared"
        /\ \A u \in Transactions : u # t => journal'[u] = journal[u]
    BY <1>1, <1>2
  <1>8. SavedInv'
    BY <1>1, SavedStays DEF TrustInv
  <1>9. CurrentInv'
    BY <1>1, <1>5 DEF CurrentInv
  <1>10. PreparedInv'
    BY <1>1, <1>4, <1>7 DEF TrustInv, PreparedInv, Occupied, Prev
  <1>11. TrustAt(p)'
    BY <1>1, <1>2, <1>4, <1>6 DEF TrustAt, TrustIs, RollbackSteps, Occupied, Prev
  <1> QED BY <1>3, <1>6, <1>8, <1>9, <1>10, <1>11, TrustMoves

LEMMA SaveTrust ==
    ASSUME Undoable, AllInv, AllInv', TrustInv, NEW p \in Processes, SavePrevious(p)
    PROVE  TrustInv'
  <1> DEFINE r == [my[p] EXCEPT !.saved = TRUE]
  <1>1. /\ pc[p] = "save" /\ UNCHANGED <<journal, verified, count>> /\ my[p] \in Local
        /\ "save" \in InstallSteps \ {"stage"} /\ "save" \in Journaled
    BY DEF SavePrevious, AllInv, TypeInv, ProcessInv, InstallSteps, Journaled
  <1>2. PICK t \in Transactions : t = my[p].txn
    BY <1>1, InstallNow
  <1>3. InstallIs("save", t, my[p].saved) /\ Busy(p) /\ TypeInv
    BY <1>1, <1>2, Own
  <1>4. Occupied(Current) /\ Only(t) /\ journal[t].phase = "prepared"
    BY <1>1, <1>3 DEF InstallIs
  <1>5. Move(Current, Place("previous", t)) /\ Goto(p, "saved") /\ Set(p, r)
    BY <1>2, <1>4 DEF SavePrevious, Mine
  <1>6. at[Current] \in verified
    <2>1. \A u \in Transactions : Unfinished(u) => journal[u].phase \notin Switching
      BY <1>4 DEF Only, Switching
    <2> QED BY <1>4, <2>1, NothingTentative DEF TrustInv
  <1>7. t <= count
    BY <1>2 DEF AllInv, TypeInv, ProcessInv, Fits
  <1>8. Others(p) /\ pc'[p] = "saved"
    BY <1>3, <1>5, GoesWith
  <1>9. ~Occupied(Current)'
    BY <1>3, <1>4, <1>5, SavingPlaces, Moves DEF Saving
  <1>10. SavedInv'
    <2>1. \A k \in Saving, u \in Transactions : Place("previous", t) = Place(k, u) => u = t
      BY Apart DEF Saving, Kinds
    <2>2. Place("previous", t) \in Places /\ Place("previous", t) # Current /\ Current \in Places
      BY SavingPlaces DEF Saving
    <2> QED BY <1>1, <1>3, <1>4, <1>5, <1>6, <1>7, <2>1, <2>2, SavedMoves DEF TrustInv
  <1>11. CurrentInv' /\ PreparedInv'
    BY <1>9 DEF CurrentInv, PreparedInv
  <1>12. TrustAt(p)'
    BY <1>8, Uncharged DEF Charged, UndoSteps, RollbackSteps
  <1> QED BY <1>3, <1>8, <1>10, <1>11, <1>12, TrustMoves

LEMMA WritePhaseTrust ==
    ASSUME Undoable, AllInv, AllInv', TrustInv, NEW p \in Processes, WritePhase(p)
    PROVE  TrustInv'
  <1>1. /\ UNCHANGED <<at, count, verified, my>> /\ pc[p] \in {"saved", "activated", "verifying"}
        /\ Journal(my[p].txn, AfterPhase(pc[p])[1]) /\ Goto(p, AfterPhase(pc[p])[2])
    BY DEF WritePhase
  <1>2. PICK s \in {"saved", "activated", "verifying"} : pc[p] = s
    BY <1>1
  <1>3. {"saved", "activated", "verifying"} \subseteq InstallSteps \ {"stage"}
    BY DEF InstallSteps
  <1>4. PICK t \in Transactions : t = my[p].txn
    BY <1>2, <1>3, InstallNow
  <1>5. InstallIs(s, t, my[p].saved) /\ Busy(p) /\ TypeInv
    BY <1>2, <1>3, <1>4, Own
  <1>6. PICK phase \in Switching, u \in {"activate", "announce", "verify"} :
          Journal(t, phase) /\ Goto(p, u)
    <2>1. /\ AfterPhase("saved") = <<"previous_saved", "activate">>
          /\ AfterPhase("activated") = <<"activated", "announce">>
          /\ AfterPhase("verifying") = <<"verifying", "verify">>
      BY DEF AfterPhase
    <2>2. {"previous_saved", "activated", "verifying"} \subseteq Switching
      BY DEF Switching
    <2> QED BY <1>1, <1>2, <1>4, <2>1, <2>2
  <1>7. journal'[t].phase = phase /\ \A v \in Transactions : v # t => journal'[v] = journal[v]
    BY <1>5, <1>6, JournalChanges
  <1>8. Others(p) /\ pc'[p] = u
    BY <1>1, <1>5, <1>6, GoesToStep
  <1>9. \A x : Occupied(x)' <=> Occupied(x)
    BY <1>1 DEF Occupied
  <1>10. Occupied(Prev(t))
    BY <1>5, <1>2 DEF InstallIs, SwitchedSteps
  <1>11. Tentative'
    BY <1>7, <1>9, <1>10 DEF Tentative, Prev
  <1>12. SavedInv' /\ CurrentInv'
    BY <1>1, <1>11, SavedStays DEF TrustInv, CurrentInv
  <1>13. PreparedInv'
    BY <1>7, <1>9 DEF TrustInv, PreparedInv, Switching, Prev
  <1>14. TrustAt(p)'
    BY <1>8, Uncharged DEF Charged, UndoSteps, RollbackSteps
  <1> QED BY <1>5, <1>8, <1>12, <1>13, <1>14, TrustMoves

LEMMA ActivateTrust ==
    ASSUME Undoable, AllInv, AllInv', TrustInv, NEW p \in Processes, Activate(p)
    PROVE  TrustInv'
  <1>1. /\ pc[p] = "activate" /\ UNCHANGED <<journal, count, verified>>
        /\ "activate" \in InstallSteps \ {"stage"} /\ "activate" \in Journaled
    BY DEF Activate, InstallSteps, Journaled
  <1>2. PICK t \in Transactions : t = my[p].txn
    BY <1>1, InstallNow
  <1>3. InstallIs("activate", t, my[p].saved) /\ Busy(p) /\ TypeInv
    BY <1>1, <1>2, Own
  <1>4. /\ ~Occupied(Current) /\ Occupied(Prev(t)) /\ Occupied(Place("staged", t))
        /\ journal[t].phase \in Switching /\ Only(t)
    BY <1>1, <1>3 DEF InstallIs
  <1>5. Move(Place("staged", t), Current) /\ Goto(p, "activated") /\ UNCHANGED my
    BY <1>2, <1>4 DEF Activate, Outcomes, Undoable, Movable, Mine
  <1>6. Others(p) /\ pc'[p] = "activated"
    BY <1>3, <1>5, GoesToStep
  <1>7. SavedInv'
    <2>1. \A k \in Saving, u \in Transactions : Current # Place(k, u)
      BY SavingPlaces
    <2> QED BY <1>1, <1>3, <1>4, <1>5, <2>1, OwnPlaces, SavedMoves DEF TrustInv
  <1>8. Tentative'
    <2>1. Occupied(Prev(t))'
      BY <1>3, <1>4, <1>5, OwnPlaces, Moves DEF Prev
    <2> QED BY <1>1, <1>4, <2>1 DEF Tentative
  <1>9. PreparedInv'
    <2>1. Only(t)' /\ journal'[t].phase # "prepared"
      BY <1>1, <1>4 DEF Only, Unfinished, Switching
    <2> QED BY <2>1, NothingPrepared
  <1>10. TrustAt(p)'
    BY <1>6, Uncharged DEF Charged, UndoSteps, RollbackSteps
  <1> QED BY <1>3, <1>6, <1>7, <1>8, <1>9, <1>10, TrustMoves DEF CurrentInv

\* A build passes verification, or the outcome is written down.
LEMMA ReportTrust ==
    ASSUME Undoable, AllInv, AllInv', TrustInv, NEW p \in Processes,
           Announce(p) \/ Verify(p) \/ ReportFailure(p)
    PROVE  TrustInv'
  <1>1. /\ UNCHANGED <<at, journal, count, my>> /\ verified \subseteq verified' /\ TypeInv
        /\ count' \in Nat /\ count <= count'
    BY UpdateAssumption DEF Announce, Verify, Verification, ReportFailure, AllInv, TypeInv, StoreInv, UpdateAssumption
  <1>2. /\ pc[p] \in {"announce", "verified", "verify", "failed"}
        /\ \E u \in {"verifying", "complete", "verified", "reject", "rolled_back"} :
             /\ Goto(p, u)
             /\ u = "complete" => pc[p] = "verified"
             /\ u = "verified" => verified' = verified \cup {at[Current]}
             /\ u = "rolled_back" => pc[p] = "failed"
    BY DEF Announce, Verify, Verification, ReportFailure
  <1>3. PICK u \in {"verifying", "complete", "verified", "reject", "rolled_back"} :
          /\ Goto(p, u)
          /\ u = "complete" => pc[p] = "verified"
          /\ u = "verified" => verified' = verified \cup {at[Current]}
          /\ u = "rolled_back" => pc[p] = "failed"
    BY <1>2
  <1>4. Others(p) /\ pc'[p] = u /\ my'[p] = my[p]
    BY <1>1, <1>3, GoesToStep
  <1>5. TrustIs(pc[p], my[p].txn, my[p].turn, my[p].place)
    BY DEF TrustInv, TrustAt
  <1>6. /\ u \in {"complete", "verified"} => at'[Current] \in verified'
        /\ u = "rolled_back" => ~Occupied(Prev(my[p].txn))
    BY <1>1, <1>3, <1>5 DEF TrustIs, UndoSteps
  <1>7. TrustAt(p)'
    BY <1>1, <1>4, <1>6 DEF TrustAt, TrustIs, UndoSteps, RollbackSteps, Occupied, Prev
  <1> QED BY <1>1, <1>4, <1>7, TrustStays

LEMMA RejectTrust ==
    ASSUME Undoable, AllInv, AllInv', TrustInv, NEW p \in Processes, Reject(p)
    PROVE  TrustInv'
  <1>1. /\ pc[p] = "reject" /\ UNCHANGED <<journal, count, verified>>
        /\ "reject" \in InstallSteps \ {"stage"} /\ "reject" \in SwitchedSteps /\ "reject" \in BeforeReject
        /\ Replace(p, Current, Mine(p, "failed"), "revert")
    BY DEF Reject, Replace, InstallSteps, SwitchedSteps, BeforeReject
  <1>2. PICK t \in Transactions : t = my[p].txn
    BY <1>1, InstallNow
  <1>3. InstallIs("reject", t, my[p].saved) /\ Busy(p) /\ TypeInv
    BY <1>1, <1>2, Own
  <1>4. Occupied(Current)
    BY <1>1, <1>3 DEF InstallIs
  <1>5. ~Occupied(Place("failed", t))
    BY <1>1, <1>2 DEF AllInv, SafeInv, FailedInv
  <1>6. Move(Current, Place("failed", t)) /\ Goto(p, "revert") /\ UNCHANGED my
    BY <1>1, <1>2, <1>4, <1>5 DEF Replace, Movable, Mine
  <1>7. Others(p) /\ pc'[p] = "revert"
    BY <1>3, <1>6, GoesToStep
  <1>8. ~Occupied(Current)'
    BY <1>3, <1>4, <1>6, OwnPlaces, Moves
  <1>9. SavedInv'
    <2>1. \A k \in Saving, u \in Transactions : Place("failed", t) # Place(k, u)
      BY Apart DEF Saving, Kinds
    <2> QED BY <1>1, <1>3, <1>4, <1>6, <2>1, OwnPlaces, SavedMoves DEF TrustInv
  <1>10. CurrentInv' /\ PreparedInv'
    BY <1>8 DEF CurrentInv, PreparedInv
  <1>11. TrustAt(p)'
    BY <1>7, Uncharged DEF Charged, UndoSteps, RollbackSteps
  <1> QED BY <1>3, <1>7, <1>9, <1>10, <1>11, TrustMoves

\* What was kept is verified, wherever it goes.
LEMMA KeptReturns ==
    ASSUME TypeInv, TrustInv, NEW k \in Saving, NEW t \in Transactions, Occupied(Place(k, t)),
           Move(Place(k, t), Current), UNCHANGED <<verified, count>>
    PROVE  SavedInv' /\ CurrentInv' /\ Occupied(Current)' /\ ~Occupied(Place(k, t))'
  <1>1. Place(k, t) \in Places /\ Current \in Places /\ Place(k, t) # Current
    BY SavingPlaces
  <1>2. at'[Current] = at[Place(k, t)] /\ Occupied(Current)' /\ ~Occupied(Place(k, t))'
    BY <1>1, MovesBuild, Moves
  <1>3. at[Place(k, t)] \in verified
    BY DEF TrustInv, SavedInv
  <1>4. SavedInv'
    <2>1. \A l \in Saving, u \in Transactions : Current # Place(l, u)
      BY SavingPlaces
    <2> QED BY <1>1, <2>1, SavedMoves DEF TrustInv
  <1> QED BY <1>2, <1>3, <1>4 DEF CurrentInv

LEMMA RevertTrust ==
    ASSUME Undoable, AllInv, AllInv', TrustInv, NEW p \in Processes, Revert(p)
    PROVE  TrustInv'
  <1>1. pc[p] = "revert" /\ "revert" \in InstallSteps \ {"stage"} /\ "revert" \in Journaled
    BY DEF Revert, InstallSteps, Journaled
  <1>2. PICK t \in Transactions : t = my[p].txn
    BY <1>1, InstallNow
  <1>3. InstallIs("revert", t, my[p].saved) /\ Busy(p) /\ TypeInv
    BY <1>1, <1>2, Own
  <1>4. /\ ~Occupied(Current) /\ Occupied(Prev(t)) /\ my[p].saved
        /\ Only(t) /\ journal[t].phase \in Switching
    BY <1>1, <1>3 DEF InstallIs
  <1>5. /\ Move(Place("previous", t), Current) /\ Goto(p, "failed") /\ UNCHANGED my
        /\ UNCHANGED <<journal, count, verified>>
    BY <1>2, <1>4 DEF Revert, Replace, Movable, Mine, Prev
  <1>6. Others(p) /\ pc'[p] = "failed" /\ my'[p] = my[p]
    BY <1>3, <1>5, GoesToStep
  <1>7. SavedInv' /\ CurrentInv' /\ ~Occupied(Prev(t))'
    BY <1>3, <1>4, <1>5, KeptReturns DEF Saving, Prev
  <1>8. PreparedInv'
    <2>1. Only(t)' /\ journal'[t].phase # "prepared"
      BY <1>4, <1>5 DEF Only, Unfinished, Switching
    <2> QED BY <2>1, NothingPrepared
  <1>9. TrustAt(p)'
    BY <1>2, <1>6, <1>7 DEF TrustAt, TrustIs, RollbackSteps
  <1> QED BY <1>3, <1>6, <1>7, <1>8, <1>9, TrustMoves

LEMMA FinishTrust ==
    ASSUME Undoable, AllInv, AllInv', TrustInv, NEW p \in Processes, Finish(p)
    PROVE  TrustInv'
  <1>1. PICK s \in {"rolled_back", "complete"} : pc[p] = s
    BY DEF Finish
  <1>2. /\ Journal(my[p].txn, s) /\ Leave(p) /\ UNCHANGED <<at, count, verified>>
        /\ {"rolled_back", "complete"} \subseteq InstallSteps \ {"stage"}
        /\ s \in Finished /\ s \in Journaled
    BY <1>1 DEF Finish, InstallSteps, Finished, Journaled
  <1>3. PICK t \in Transactions : t = my[p].txn
    BY <1>1, <1>2, InstallNow
  <1>4. /\ TrustIs(s, t, my[p].turn, my[p].place) /\ InstallIs(s, t, my[p].saved)
        /\ Busy(p) /\ TypeInv
    BY <1>1, <1>2, <1>3, Own
  <1>5. Only(t) /\ Occupied(Current)
    BY <1>2, <1>4 DEF InstallIs, SwitchedSteps, UndoSteps
  <1>6. at[Current] \in verified
    <2>1. CASE s = "complete"
      BY <1>4, <2>1 DEF TrustIs
    <2>2. CASE s = "rolled_back"
      <3>1. ~Occupied(Prev(t))
        BY <1>4, <2>2 DEF TrustIs, UndoSteps
      <3> QED BY <1>5, <3>1, NothingTentative DEF TrustInv, Only
    <2> QED BY <2>1, <2>2
  <1>7. Ready'
    <2>1. journal'[t].phase = s /\ \A v \in Transactions : v # t => journal'[v] = journal[v]
      BY <1>2, <1>3, <1>4, JournalChanges
    <2> QED BY <1>2, <1>5, <2>1 DEF Unfinished, Only, Ready
  <1>8. Others(p) /\ pc'[p] \in Aside
    BY <1>2, <1>4, LeadsTo
  <1>9. SavedInv' /\ CurrentInv' /\ PreparedInv'
    BY <1>2, <1>6, <1>7, SavedStays, NothingPrepared DEF TrustInv, CurrentInv
  <1>10. TrustAt(p)'
    BY <1>8, AsideIsUncharged, Uncharged
  <1> QED BY <1>4, <1>8, <1>9, <1>10, TrustMoves
-----------------------------------------------------------------------------
(* The steps of a recovery *)

LEMMA RestoreTrust ==
    ASSUME Undoable, AllInv, AllInv', TrustInv, NEW p \in Processes, RestorePrevious(p)
    PROVE  TrustInv'
  <1>1. /\ pc[p] = "restore" /\ UNCHANGED <<at, journal, verified, count, my>> /\ TypeInv
        /\ {"restore", "put_back", "recovered"} \subseteq RepairSteps
        /\ count' \in Nat /\ count <= count'
    BY UpdateAssumption DEF RestorePrevious, AllInv, RepairSteps, TypeInv, StoreInv, UpdateAssumption
  <1>2. PICK t \in Transactions : t = my[p].turn
    BY <1>1, RepairNow
  <1>3. RepairIs("restore", t, my[p].phase, my[p].previous)
    BY <1>1, <1>2, RepairNow
  <1>4. /\ my[p].previous
        /\ IF Occupied(Current) THEN journal[t].phase = "prepared" ELSE Occupied(Prev(t))
    BY <1>1, <1>3 DEF RepairIs
  <1>5. PICK u \in {"put_back", "recovered"} : Goto(p, u) /\ (u = "recovered" => ~Restorable(p))
    BY DEF RestorePrevious
  <1>6. Others(p) /\ pc'[p] = u /\ my'[p] = my[p]
    BY <1>1, <1>5, GoesToStep
  <1>7. u = "recovered" => ~Occupied(Prev(t))
    <2>1. ~Restorable(p) => Occupied(Current) \/ ~Occupied(Prev(t))
      BY <1>2, <1>4 DEF Restorable, Prev
    <2>2. Occupied(Current) => ~Occupied(Prev(t))
      BY <1>4 DEF TrustInv, PreparedInv
    <2> QED BY <1>5, <2>1, <2>2
  <1>8. TrustAt(p)'
    BY <1>1, <1>2, <1>6, <1>7 DEF TrustAt, TrustIs, RollbackSteps, UndoSteps, Occupied, Prev
  <1> QED BY <1>1, <1>6, <1>8, TrustStays

LEMMA PutAsideTrust ==
    ASSUME Undoable, AllInv, AllInv', TrustInv, NEW p \in Processes, PutAside(p)
    PROVE  TrustInv'
  <1>1. /\ pc[p] = "put_aside" /\ UNCHANGED <<journal, count, verified>> /\ TypeInv
        /\ "put_aside" \in RepairSteps
        /\ Replace(p, Current, Place("interrupted", my[p].turn), "restore")
    BY DEF PutAside, Replace, AllInv, RepairSteps
  <1>2. PICK t \in Transactions : t = my[p].turn
    BY <1>1, RepairNow
  <1>3. Busy(p)
    BY <1>1, RepairNow
  <1>4. CASE Leave(p) /\ UNCHANGED at
    <2>1. Others(p) /\ pc'[p] \in Aside /\ Untouched
      BY <1>1, <1>4, LeadsTo DEF Untouched
    <2> QED BY <1>1, <2>1, AsideKeepsTrust
  <1>5. CASE /\ Occupied(Current) /\ Move(Current, Place("interrupted", t))
             /\ Goto(p, "restore") /\ UNCHANGED my
    <2>1. Others(p) /\ pc'[p] = "restore"
      BY <1>1, <1>5, GoesToStep
    <2>2. ~Occupied(Current)'
      BY <1>1, <1>5, OwnPlaces, Moves
    <2>3. SavedInv'
      <3>1. \A k \in Saving, u \in Transactions : Place("interrupted", t) # Place(k, u)
        BY Apart DEF Saving, Kinds
      <3> QED BY <1>1, <1>5, <3>1, OwnPlaces, SavedMoves DEF TrustInv
    <2>4. CurrentInv' /\ PreparedInv'
      BY <2>2 DEF CurrentInv, PreparedInv
    <2>5. TrustAt(p)'
      BY <2>1, Uncharged DEF Charged, UndoSteps, RollbackSteps
    <2> QED BY <1>3, <2>1, <2>3, <2>4, <2>5, TrustMoves
  <1> QED BY <1>1, <1>2, <1>4, <1>5 DEF Replace, Movable

LEMMA PutBackTrust ==
    ASSUME Undoable, AllInv, AllInv', TrustInv, NEW p \in Processes, PutBack(p)
    PROVE  TrustInv'
  <1>1. pc[p] = "put_back" /\ TypeInv /\ "put_back" \in RepairSteps
    BY DEF PutBack, AllInv, RepairSteps
  <1>2. PICK t \in Transactions : t = my[p].turn
    BY <1>1, RepairNow
  <1>3. RepairIs("put_back", t, my[p].phase, my[p].previous) /\ Busy(p)
    BY <1>1, <1>2, RepairNow
  <1>4. ~Occupied(Current) /\ Occupied(Prev(t)) /\ Only(t)
    BY <1>1, <1>3 DEF RepairIs
  <1>5. /\ Move(Place("previous", t), Current) /\ Goto(p, "recovered") /\ UNCHANGED my
        /\ UNCHANGED <<journal, verified, count>>
    BY <1>2, <1>4 DEF PutBack, Replace, Movable, Prev
  <1>6. Others(p) /\ pc'[p] = "recovered" /\ my'[p] = my[p]
    BY <1>1, <1>5, GoesToStep
  <1>7. SavedInv' /\ CurrentInv' /\ ~Occupied(Prev(t))'
    BY <1>1, <1>4, <1>5, KeptReturns DEF Saving, Prev
  <1>8. PreparedInv'
    <2>1. \A u \in Transactions : journal'[u].phase = "prepared" => u = t
      BY <1>4, <1>5 DEF Only, Unfinished, Finished
    <2> QED BY <1>7, <2>1 DEF PreparedInv
  <1>9. TrustAt(p)'
    BY <1>2, <1>6, <1>7 DEF TrustAt, TrustIs, RollbackSteps, UndoSteps
  <1> QED BY <1>3, <1>6, <1>7, <1>8, <1>9, TrustMoves

LEMMA WriteRecoveredTrust ==
    ASSUME Undoable, AllInv, AllInv', TrustInv, NEW p \in Processes, WriteRecovered(p)
    PROVE  TrustInv'
  <1>1. /\ pc[p] = "recovered" /\ "recovered" \in RepairSteps /\ Goto(p, "report")
        /\ UNCHANGED <<at, verified, count, my>> /\ TypeInv
        /\ journal \in [Transactions -> [phase : Phases, previous : BOOLEAN]]
        /\ journal' = [journal EXCEPT ![my[p].turn] = [phase |-> "recovered", previous |-> my[p].previous]]
    BY DEF WriteRecovered, RepairSteps, AllInv, TypeInv, StoreInv
  <1>2. PICK t \in Transactions : t = my[p].turn
    BY <1>1, RepairNow
  <1>3. RepairIs("recovered", t, my[p].phase, my[p].previous) /\ Busy(p)
    BY <1>1, <1>2, RepairNow
  <1>4. Only(t) /\ Occupied(Current)
    BY <1>1, <1>3 DEF RepairIs
  <1>5. ~Occupied(Prev(t))
    BY <1>1, <1>2 DEF TrustInv, TrustAt, TrustIs
  <1>6. at[Current] \in verified
    BY <1>4, <1>5, NothingTentative DEF TrustInv, Only
  <1>7. Ready'
    <2>1. journal'[t].phase = "recovered" /\ \A u \in Transactions : u # t => journal'[u] = journal[u]
      BY <1>1, <1>2
    <2> QED BY <1>4, <2>1 DEF Ready, Only, Unfinished, Finished
  <1>8. Others(p) /\ pc'[p] = "report"
    BY <1>1, GoesToStep
  <1>9. SavedInv' /\ CurrentInv' /\ PreparedInv'
    BY <1>1, <1>6, <1>7, SavedStays, NothingPrepared DEF TrustInv, CurrentInv
  <1>10. TrustAt(p)'
    BY <1>8, Uncharged DEF Charged, UndoSteps, RollbackSteps
  <1> QED BY <1>3, <1>8, <1>9, <1>10, TrustMoves
-----------------------------------------------------------------------------
(* The steps of a rollback *)

LEMMA BackNow ==
    ASSUME AllInv, TrustInv, NEW p \in Processes, NEW s \in RollbackSteps \ {"choose"}, pc[p] = s,
           NEW t \in Transactions, t = my[p].txn
    PROVE  /\ RollbackIs(s, t, my[p].place) /\ Older(my[p].place, t) /\ my[p].place \in Places
           /\ Ready /\ Busy(p) /\ TypeInv
  BY RollbackNow DEF TrustInv, TrustAt, TrustIs

\* A rollback under way remembers where it is going to.
LEMMA StillOlder ==
    ASSUME NEW p \in Processes, Older(my[p].place, my[p].txn), my'[p] = my[p],
           pc'[p] \in RollbackSteps \ {"choose"}
    PROVE  TrustAt(p)'
  BY DEF TrustAt, TrustIs, Older, RollbackSteps, UndoSteps

\* A rollback that leaves without a move.
LEMMA BackLeaves ==
    ASSUME TypeInv, TrustInv, NEW p \in Processes, Leave(p),
           UNCHANGED <<at, journal, verified, count>>
    PROVE  TrustInv'
  BY LeadsTo, AsideKeepsTrust DEF Untouched

LEMMA ChooseTrust ==
    ASSUME Undoable, AllInv, AllInv', TrustInv, NEW p \in Processes, ChoosePrevious(p)
    PROVE  TrustInv'
  <1> DEFINE r == [my[p] EXCEPT !.place = known, !.txn = count + 1]
  <1>1. /\ UNCHANGED <<at, journal, verified>> /\ TypeInv /\ my[p] \in Local
        /\ count \in 0..MaxTransactions /\ known \in Kept
    BY DEF ChoosePrevious, AllInv, TypeInv, StoreInv, ProcessInv, MemoryInv, PlaceInv
  <1>2. CASE Leave(p) /\ UNCHANGED count
    BY <1>1, <1>2, BackLeaves
  <1>3. CASE /\ known # None /\ Occupied(known) /\ count < MaxTransactions /\ count' = count + 1
             /\ Goto(p, "displace") /\ Set(p, r)
    <2>1. PICK k \in Saving, u \in Transactions : known = Place(k, u)
      BY <1>1, <1>3 DEF Kept, Saving, Place
    <2>2. u <= count
      BY <1>3, <2>1 DEF TrustInv, SavedInv
    <2>3. u < count + 1 /\ count' \in Nat /\ count <= count'
      <3>1. \A m, n \in Nat : (m <= n => m < n + 1) /\ n + 1 \in Nat /\ n <= n + 1
        OBVIOUS
      <3> QED BY <1>1, <1>3, <2>2, <3>1 DEF Transactions
    <2>4. r.place = known /\ r.txn = count + 1
      BY <1>1 DEF Local
    <2>5. Older(r.place, r.txn)
      BY <2>1, <2>3, <2>4 DEF Older
    <2>6. Others(p) /\ pc'[p] = "displace" /\ my'[p] = r
      BY <1>1, <1>3, GoesWith
    <2> HIDE DEF r
    <2>7. Older(my'[p].place, my'[p].txn)
      BY <2>5, <2>6
    <2>8. TrustAt(p)'
      BY <2>6, <2>7 DEF TrustAt, TrustIs, Older, UndoSteps
    <2> QED BY <1>1, <2>3, <2>6, <2>8, TrustStays
  <1> QED BY <1>2, <1>3 DEF ChoosePrevious

LEMMA DisplaceTrust ==
    ASSUME Undoable, AllInv, AllInv', TrustInv, NEW p \in Processes, Displace(p)
    PROVE  TrustInv'
  <1>1. /\ pc[p] = "displace" /\ {"displace", "reinstate"} \subseteq RollbackSteps \ {"choose"}
        /\ UNCHANGED <<journal, verified, count>> /\ Replace(p, Current, Mine(p, "forward"), "reinstate")
    BY DEF Displace, Replace, RollbackSteps
  <1>2. PICK t \in Transactions : t = my[p].txn
    BY <1>1, RollbackNow
  <1>3. Ready /\ Occupied(Current) /\ Older(my[p].place, t) /\ Busy(p) /\ TypeInv
    BY <1>1, <1>2, BackNow DEF RollbackIs
  <1>4. CASE Move(Current, Place("forward", t)) /\ Goto(p, "reinstate") /\ UNCHANGED my
    <2>1. Others(p) /\ pc'[p] = "reinstate" /\ my'[p] = my[p]
      BY <1>3, <1>4, GoesToStep
    <2>2. ~Occupied(Current)'
      BY <1>3, <1>4, OwnPlaces, Moves
    <2>3. at[Current] \in verified /\ t <= count
      BY <1>2, <1>3, ReadyIsVerified DEF TrustInv, AllInv, TypeInv, ProcessInv, Fits
    <2>4. SavedInv'
      <3>1. \A k \in Saving, u \in Transactions : Place("forward", t) = Place(k, u) => u = t
        BY Apart DEF Saving, Kinds
      <3> QED BY <1>1, <1>3, <1>4, <2>3, <3>1, OwnPlaces, SavedMoves DEF TrustInv
    <2>5. CurrentInv' /\ PreparedInv'
      BY <2>2 DEF CurrentInv, PreparedInv
    <2>6. TrustAt(p)'
      BY <1>1, <1>2, <1>3, <2>1, StillOlder
    <2> QED BY <1>3, <2>1, <2>4, <2>5, <2>6, TrustMoves
  <1>5. CASE Leave(p) /\ UNCHANGED at
    BY <1>1, <1>3, <1>5, BackLeaves
  <1> QED BY <1>1, <1>2, <1>4, <1>5 DEF Replace, Mine

LEMMA GivesBackTrust ==
    ASSUME Undoable, AllInv, AllInv', TrustInv, NEW p \in Processes,
           NEW s \in {"reinstate", "put_forward"}, pc[p] = s,
           Replace(p, Mine(p, "forward"), Current, "release")
    PROVE  TrustInv'
  <1>1. {"reinstate", "put_forward"} \subseteq RollbackSteps \ {"choose"} /\ UNCHANGED <<journal, verified, count>>
    BY DEF Replace, RollbackSteps
  <1>2. PICK t \in Transactions : t = my[p].txn
    BY <1>1, RollbackNow
  <1>3. Ready /\ ~Occupied(Current) /\ Occupied(Place("forward", t)) /\ Busy(p) /\ TypeInv
    BY <1>1, <1>2, BackNow DEF RollbackIs
  <1>4. Move(Place("forward", t), Current) /\ Goto(p, "release") /\ UNCHANGED my
    BY <1>2, <1>3 DEF Replace, Movable, Mine
  <1>5. Others(p) /\ pc'[p] = "release"
    BY <1>3, <1>4, GoesToStep
  <1>6. SavedInv' /\ CurrentInv'
    BY <1>1, <1>3, <1>4, KeptReturns DEF Saving
  <1>7. Ready'
    BY <1>1, <1>3 DEF Ready, Unfinished
  <1>8. TrustAt(p)'
    BY <1>5, Uncharged DEF Charged, UndoSteps, RollbackSteps
  <1> QED BY <1>3, <1>5, <1>6, <1>7, <1>8, TrustMoves, NothingPrepared

LEMMA ReinstateTrust ==
    ASSUME Undoable, AllInv, AllInv', TrustInv, NEW p \in Processes, Reinstate(p)
    PROVE  TrustInv'
  <1>1. /\ pc[p] = "reinstate" /\ {"reinstate", "check_old"} \subseteq RollbackSteps \ {"choose"}
    BY DEF Reinstate, RollbackSteps
  <1>2. PICK t \in Transactions : t = my[p].txn
    BY <1>1, RollbackNow
  <1>3. Ready /\ Older(my[p].place, t) /\ Busy(p) /\ TypeInv
    BY <1>1, <1>2, BackNow
  <1>4. PICK k \in Saving, u \in Transactions : my[p].place = Place(k, u)
    BY <1>3 DEF Older
  <1>5. CASE /\ Movable(Place(k, u), Current) /\ Move(Place(k, u), Current) /\ Goto(p, "check_old")
             /\ UNCHANGED <<journal, verified, count, my>>
    <2>1. Others(p) /\ pc'[p] = "check_old" /\ my'[p] = my[p]
      BY <1>3, <1>5, GoesToStep
    <2>2. SavedInv' /\ CurrentInv'
      BY <1>3, <1>5, KeptReturns DEF Movable
    <2>3. Ready'
      BY <1>3, <1>5 DEF Ready, Unfinished
    <2>4. TrustAt(p)'
      BY <1>1, <1>2, <1>3, <2>1, StillOlder
    <2> QED BY <1>3, <2>1, <2>2, <2>3, <2>4, TrustMoves, NothingPrepared
  <1>6. CASE Replace(p, Mine(p, "forward"), Current, "release")
    BY <1>1, <1>6, GivesBackTrust
  <1> QED BY <1>4, <1>5, <1>6 DEF Reinstate

LEMMA VerifyPreviousTrust ==
    ASSUME Undoable, AllInv, AllInv', TrustInv, NEW p \in Processes, VerifyPrevious(p)
    PROVE  TrustInv'
  <1>1. /\ pc[p] = "check_old" /\ UNCHANGED <<at, journal, count, my>> /\ verified \subseteq verified'
        /\ {"check_old", "switched", "retract"} \subseteq RollbackSteps \ {"choose"}
        /\ count' \in Nat /\ count <= count'
        /\ \E u \in {"switched", "retract"} : Goto(p, u)
    BY UpdateAssumption DEF VerifyPrevious, Verification, RollbackSteps, AllInv, TypeInv, StoreInv, UpdateAssumption
  <1>2. PICK u \in {"switched", "retract"} : Goto(p, u)
    BY <1>1
  <1>3. PICK t \in Transactions : t = my[p].txn
    BY <1>1, RollbackNow
  <1>4. Older(my[p].place, t) /\ TypeInv
    BY <1>1, <1>3, BackNow
  <1>5. Others(p) /\ pc'[p] = u /\ my'[p] = my[p]
    BY <1>1, <1>2, <1>4, GoesToStep
  <1>6. TrustAt(p)'
    BY <1>1, <1>3, <1>4, <1>5, StillOlder
  <1> QED BY <1>1, <1>4, <1>5, <1>6, TrustStays

LEMMA RetractTrust ==
    ASSUME Undoable, AllInv, AllInv', TrustInv, NEW p \in Processes, Retract(p)
    PROVE  TrustInv'
  <1>1. /\ pc[p] = "retract" /\ {"retract", "put_forward"} \subseteq RollbackSteps \ {"choose"}
        /\ UNCHANGED <<journal, verified, count>> /\ Replace(p, Current, my[p].place, "put_forward")
    BY DEF Retract, Replace, RollbackSteps
  <1>2. PICK t \in Transactions : t = my[p].txn
    BY <1>1, RollbackNow
  <1>3. Ready /\ Occupied(Current) /\ Older(my[p].place, t) /\ Busy(p) /\ TypeInv
    BY <1>1, <1>2, BackNow DEF RollbackIs
  <1>4. PICK k \in Saving, u \in Transactions : my[p].place = Place(k, u) /\ u < t
    BY <1>3 DEF Older
  <1>5. CASE Leave(p) /\ UNCHANGED at
    BY <1>1, <1>3, <1>5, BackLeaves
  <1>6. CASE Move(Current, Place(k, u)) /\ Goto(p, "put_forward") /\ UNCHANGED my
    <2>1. Others(p) /\ pc'[p] = "put_forward" /\ my'[p] = my[p]
      BY <1>3, <1>6, GoesToStep
    <2>2. Place(k, u) \in Places /\ Place(k, u) # Current /\ Current \in Places
      BY SavingPlaces
    <2>3. ~Occupied(Current)'
      BY <1>3, <1>6, <2>2, Moves
    <2>4. at[Current] \in verified
      BY <1>3, ReadyIsVerified DEF TrustInv
    <2>5. u <= count
      <3>1. t <= count /\ count \in Nat
        BY <1>2, UpdateAssumption DEF AllInv, TypeInv, StoreInv, ProcessInv, Fits, UpdateAssumption
      <3> QED BY <1>4, <3>1 DEF Transactions
    <2>6. SavedInv'
      <3>1. \A l \in Saving, v \in Transactions : Place(k, u) = Place(l, v) => v = u
        BY Apart, SavingPlaces
      <3> QED BY <1>1, <1>3, <1>6, <2>2, <2>4, <2>5, <3>1, SavedMoves DEF TrustInv
    <2>7. CurrentInv' /\ PreparedInv'
      BY <2>3 DEF CurrentInv, PreparedInv
    <2>8. TrustAt(p)'
      BY <1>1, <1>2, <1>3, <2>1, StillOlder
    <2> QED BY <1>3, <2>1, <2>6, <2>7, <2>8, TrustMoves
  <1> QED BY <1>1, <1>4, <1>5, <1>6 DEF Replace

LEMMA RollbackTrust ==
    ASSUME Undoable, AllInv, AllInv', TrustInv, NEW p \in Processes, RollbackStep(p)
    PROVE  TrustInv'
  <1>1. CASE PutForward(p)
    BY <1>1, GivesBackTrust DEF PutForward
  <1>2. CASE ReportRollback(p)
    BY <1>2, BackLeaves DEF ReportRollback, AllInv
  <1> QED BY <1>1, <1>2, ChooseTrust, DisplaceTrust, ReinstateTrust, VerifyPreviousTrust, RetractTrust
      DEF RollbackStep
-----------------------------------------------------------------------------
(* TrustInv is kept *)

LEMMA InitTrust == Init => TrustInv
  <1> SUFFICES ASSUME Init PROVE TrustInv
    OBVIOUS
  <1>1. \A k \in Saving, t \in Transactions : ~Occupied(Place(k, t))
    BY SavingPlaces DEF Init, Occupied
  <1>2. \A t \in Transactions : journal[t].phase = "none" /\ ~Occupied(Prev(t))
    BY <1>1, SavingPlaces DEF Init
  <1>3. Occupied(Current) => at[Current] \in verified
    BY SavingPlaces DEF Init, Occupied
  <1>4. \A p \in Processes : TrustAt(p)
    BY DEF Init, TrustAt, TrustIs, UndoSteps, RollbackSteps
  <1> QED BY <1>1, <1>2, <1>3, <1>4 DEF TrustInv, SavedInv, CurrentInv, PreparedInv

LEMMA StepTrust ==
    ASSUME Undoable, AllInv, AllInv', TrustInv, [Next]_vars
    PROVE  TrustInv'
  <1>0. TypeInv
    BY DEF AllInv
  <1>1. CASE UNCHANGED vars
    <2>1. \A x : Occupied(x)' <=> Occupied(x)
      BY <1>1 DEF vars, Occupied
    <2> QED BY <1>1, <2>1 DEF vars, TrustInv, SavedInv, CurrentInv, Tentative, PreparedInv, TrustAt,
                TrustIs, Older, Prev
  <1>2. ASSUME NEW p \in Processes, Step(p)
        PROVE  TrustInv'
    <2>1. CASE LockStep(p)
      BY <1>0, <2>1, LockLeads, AsideKeepsTrust
    <2>2. CASE RecoveryStep(p) \/ WriteNote(p)
      BY <1>0, <2>2, LookLeads, AsideKeepsTrust, RestoreTrust, PutAsideTrust, PutBackTrust, WriteRecoveredTrust
         DEF RecoveryStep
    <2>3. CASE InstallStep(p)
      BY <2>3, StageTrust, PrepareTrust, SaveTrust, WritePhaseTrust, ActivateTrust, ReportTrust, RejectTrust,
         RevertTrust, FinishTrust DEF InstallStep
    <2>4. CASE RollbackStep(p)
      BY <2>4, RollbackTrust
    <2> QED BY <1>2, <2>1, <2>2, <2>3, <2>4 DEF Step
  <1>3. ASSUME NEW p \in Processes, Kill(p)
        PROVE  TrustInv'
    BY <1>0, <1>3, KillLeads, AsideKeepsTrust
  <1>4. ASSUME NEW p \in Processes, NEW c \in Commands, Begin(p, c)
        PROVE  TrustInv'
    BY <1>0, <1>4, LockLeads, AsideKeepsTrust
  <1> QED BY <1>1, <1>2, <1>3, <1>4 DEF Next
-----------------------------------------------------------------------------
(* The installation that is seen from outside *)

Forwarding == {"reinstate", "check_old", "retract", "put_forward"}

\* What is to be given back is one of the saved installations.
LEMMA UndoneIsSaved ==
    ASSUME TypeInv, NEW x \in Undone
    PROVE  \E k \in Saving, t \in Transactions : x = Place(k, t)
  <1>1. CASE \E t \in Transactions : x = Place("previous", t)
    BY <1>1 DEF Saving
  <1>2. CASE \E q \in Processes : pc[q] \in Forwarding /\ x = Mine(q, "forward")
    <2>1. PICK q \in Processes : pc[q] \in Forwarding /\ x = Mine(q, "forward")
      BY <1>2
    <2>2. Forwarding \subseteq RollbackSteps \ {"choose"}
      BY DEF Forwarding, RollbackSteps
    <2>3. my[q].txn \in Transactions
      BY <2>1, <2>2, OwnIsTransaction
    <2> QED BY <2>1, <2>3 DEF Mine, Saving
  <1> QED BY <1>1, <1>2 DEF Undone, Forwarding

\* If nothing that would be given back is there, current is.
LEMMA CurrentIsThere ==
    ASSUME AllInv, \E p \in Processes : pc[p] # "dead", \A x \in Undone : ~Occupied(x)
    PROVE  Occupied(Current)
  <1>1. \A t \in Transactions : Unfinished(t) => ~Occupied(Prev(t))
    BY DEF Undone, Prev
  <1>2. CASE \A p \in Processes : ~Busy(p)
    BY <1>1, <1>2 DEF AllInv, SafeInv, QuietInv, AtRest, Stuck, Recoverable
  <1>3. ASSUME NEW p \in Processes, pc[p] \in InstallSteps
        PROVE  Occupied(Current)
    <2>1. PICK s \in InstallSteps : pc[p] = s
      BY <1>3
    <2>2. CASE s = "stage"
      BY <2>1, <2>2 DEF AllInv, SafeInv, InstallAt, InstallIs
    <2>3. CASE s # "stage"
      <3>1. PICK t \in Transactions : t = my[p].txn
        BY <2>1, <2>3, InstallNow
      <3>2. InstallIs(s, t, my[p].saved)
        BY <2>1, <2>3, <3>1, InstallNow
      <3>3. s \in Journaled => ~Occupied(Prev(t))
        BY <1>1, <3>2 DEF InstallIs
      <3>4. \/ s \in {"prepare", "save"} \cup SwitchedSteps \cup UndoSteps
            \/ s \in {"saved", "activate", "revert"} /\ s \in Journaled
        BY <2>3 DEF InstallSteps, SwitchedSteps, UndoSteps, Journaled
      <3> QED BY <3>2, <3>3, <3>4 DEF InstallIs
    <2> QED BY <2>2, <2>3
  <1>4. ASSUME NEW p \in Processes, pc[p] \in RollbackSteps
        PROVE  Occupied(Current)
    <2>1. RollbackIs(pc[p], my[p].txn, my[p].place)
      BY DEF AllInv, SafeInv, RollbackAt
    <2>2. pc[p] \in {"reinstate", "put_forward"} => ~Occupied(Place("forward", my[p].txn))
      BY DEF Undone, Mine
    <2> QED BY <1>4, <2>1, <2>2 DEF RollbackIs, RollbackSteps
  <1>5. ASSUME NEW p \in Processes, pc[p] \in RepairSteps
        PROVE  Occupied(Current)
    <2>1. PICK t \in Transactions : t = my[p].turn
      BY <1>5, RepairNow
    <2>2. RepairIs(pc[p], t, my[p].phase, my[p].previous)
      BY <1>5, <2>1, RepairNow
    <2>3. ~Occupied(Prev(t))
      BY <1>1, <1>5, <2>2 DEF RepairIs
    <2> QED BY <1>5, <2>2, <2>3 DEF RepairIs, RepairSteps, Recoverable
  <1> QED BY <1>2, <1>3, <1>4, <1>5 DEF Busy

\* What counts as installed has passed verification as long as somebody lives.
LEMMA EffectiveIsVerified ==
    AllInv /\ TrustInv /\ (\E p \in Processes : pc[p] # "dead") => Effective \in verified
  <1> SUFFICES ASSUME AllInv, TrustInv, \E p \in Processes : pc[p] # "dead"
               PROVE  Effective \in verified
    OBVIOUS
  <1>1. CASE \E x \in Undone : Occupied(x)
    <2>1. PICK x \in Undone : Occupied(x) /\ Effective = at[x]
      BY <1>1 DEF Effective
    <2>2. PICK k \in Saving, t \in Transactions : x = Place(k, t)
      BY UndoneIsSaved DEF AllInv
    <2> QED BY <2>1, <2>2 DEF TrustInv, SavedInv
  <1>2. CASE \A x \in Undone : ~Occupied(x)
    <2>1. Effective = at[Current]
      BY <1>2 DEF Effective
    <2>2. Occupied(Current)
      BY <1>2, CurrentIsThere
    <2>3. \A t \in Transactions : Unfinished(t) => ~Occupied(Prev(t))
      BY <1>2 DEF Undone, Prev
    <2> QED BY <2>1, <2>2, <2>3, NothingTentative DEF TrustInv
  <1> QED BY <1>1, <1>2

LEMMA EffectiveIsVerifiedNext ==
    (AllInv /\ TrustInv /\ (\E p \in Processes : pc[p] # "dead") => Effective \in verified)'
  BY EffectiveIsVerified, PTL

\* A step that moves nothing, writes no journal and is none of a rollback under way.
LEMMA EffectiveStays ==
    ASSUME NEW p \in Processes, Others(p), UNCHANGED <<at, journal>>,
           pc[p] \notin Forwarding, pc'[p] \notin Forwarding
    PROVE  Effective' = Effective
  <1>1. \A q \in Processes :
          /\ pc'[q] \in Forwarding <=> pc[q] \in Forwarding
          /\ pc[q] \in Forwarding => Mine(q, "forward")' = Mine(q, "forward")
    BY DEF Others, Mine
  <1>2. \A t \in Transactions : Unfinished(t)' <=> Unfinished(t)
    BY DEF Unfinished
  <1>3. Undone' = Undone
    BY <1>1, <1>2 DEF Undone, Forwarding
  <1> QED BY <1>3 DEF Effective, Occupied
-----------------------------------------------------------------------------
(* Every step keeps the promise *)

\* What a step may do in the eyes of AtomicInstallation.
Promised == [Promise!Next]_(Promise!vars)

\* Only a kill makes a process dead.
LEMMA LivesOn ==
    ASSUME TypeInv, NEW p \in Processes,
           \/ Return(p) \/ Leave(p)
           \/ \E s \in Steps : Goto(p, s) \/ \E x, y : Replace(p, x, y, s)
    PROVE  pc'[p] # "dead"
  <1>1. "dead" \notin Steps
    BY DEF Steps, LockSteps, RecoverySteps, InstallSteps, RollbackSteps
  <1>2. \E s \in Steps \cup {"idle"} : Goto(p, s)
    BY DEF Return, Leave, Replace, Steps, LockSteps
  <1> QED BY <1>1, <1>2 DEF TypeInv, ProcessInv, Goto

\* The steps that move or write, and verify nothing.
LEMMA MovesLive ==
    ASSUME TypeInv, NEW p \in Processes,
           \/ PutAside(p) \/ RestorePrevious(p) \/ PutBack(p) \/ WriteRecovered(p)
           \/ InstallStep(p) /\ ~Verify(p)
           \/ RollbackStep(p) /\ ~VerifyPrevious(p)
    PROVE  UNCHANGED verified /\ pc'[p] # "dead"
  <1>1. RecoverySteps \subseteq Steps /\ InstallSteps \subseteq Steps /\ RollbackSteps \subseteq Steps /\ "release" \in Steps
    BY DEF Steps, LockSteps
  <1>2. CASE PutAside(p) \/ RestorePrevious(p) \/ PutBack(p) \/ WriteRecovered(p)
    <2>1. {"restore", "put_back", "recovered", "report"} \subseteq Steps
      BY <1>1 DEF RecoverySteps
    <2>2. UNCHANGED verified
      BY <1>2 DEF PutAside, RestorePrevious, PutBack, WriteRecovered, Replace
    <2>3. \E s \in {"restore", "put_back", "recovered", "report"} : Goto(p, s) \/ \E x, y : Replace(p, x, y, s)
      BY <1>2 DEF PutAside, RestorePrevious, PutBack, WriteRecovered
    <2> QED BY <2>1, <2>2, <2>3, LivesOn
  <1>3. CASE InstallStep(p) /\ ~Verify(p)
    <2>1. UNCHANGED verified
      BY <1>3 DEF InstallStep, Stage, Prepare, SavePrevious, WritePhase, Activate, Announce, Reject, Revert,
                  ReportFailure, Finish, Replace
    <2>2. CASE Stage(p) \/ Prepare(p) \/ SavePrevious(p) \/ Activate(p) \/ Finish(p)
      <3>1. {"prepare", "save", "saved", "activate", "activated"} \subseteq Steps
        BY <1>1 DEF InstallSteps
      <3>2. \/ Leave(p)
            \/ \E s \in {"prepare", "save", "saved", "activate", "activated"} : Goto(p, s)
        BY <2>2 DEF Stage, Prepare, SavePrevious, Activate, Finish
      <3> QED BY <2>1, <3>1, <3>2, LivesOn
    <2>3. CASE Announce(p) \/ Reject(p) \/ Revert(p) \/ ReportFailure(p)
      <3>1. {"verifying", "complete", "revert", "failed", "rolled_back"} \subseteq Steps
        BY <1>1 DEF InstallSteps
      <3>2. \E s \in {"verifying", "complete", "revert", "failed", "rolled_back"} :
              Goto(p, s) \/ \E x, y : Replace(p, x, y, s)
        BY <2>3 DEF Announce, Reject, Revert, ReportFailure
      <3> QED BY <2>1, <3>1, <3>2, LivesOn
    <2>4. CASE WritePhase(p)
      <3>1. {"activate", "announce", "verify"} \subseteq Steps
        BY <1>1 DEF InstallSteps
      <3>2. \E s \in {"activate", "announce", "verify"} : Goto(p, s)
        <4>1. /\ AfterPhase("saved")[2] = "activate" /\ AfterPhase("activated")[2] = "announce"
              /\ AfterPhase("verifying")[2] = "verify"
          BY DEF AfterPhase
        <4> QED BY <2>4, <4>1 DEF WritePhase
      <3> QED BY <2>1, <3>1, <3>2, LivesOn
    <2> QED BY <1>3, <2>2, <2>3, <2>4 DEF InstallStep
  <1>4. CASE RollbackStep(p) /\ ~VerifyPrevious(p)
    <2>1. UNCHANGED verified
      BY <1>4 DEF RollbackStep, ChoosePrevious, Displace, Reinstate, PutForward, Retract, ReportRollback, Replace
    <2>2. {"displace", "reinstate", "check_old", "put_forward", "release"} \subseteq Steps
      BY <1>1 DEF RollbackSteps
    <2>3. \/ Leave(p)
          \/ \E s \in {"displace", "reinstate", "check_old", "put_forward", "release"} :
               Goto(p, s) \/ \E x, y : Replace(p, x, y, s)
      BY <1>4 DEF RollbackStep, ChoosePrevious, Displace, Reinstate, PutForward, Retract, ReportRollback
    <2> QED BY <2>1, <2>2, <2>3, LivesOn
  <1> QED BY <1>2, <1>3, <1>4

\* A step that verifies nothing leads to a verified installation, if only to the same one.
LEMMA SwitchIsPromised ==
    ASSUME AllInv', TrustInv', NEW p \in Processes, pc'[p] # "dead", UNCHANGED verified
    PROVE  Promised
  <1>1. Effective' \in verified'
    BY EffectiveIsVerifiedNext
  <1>2. verified' \subseteq Builds
    BY DEF AllInv, TypeInv, StoreInv
  <1>3. Promise!Switch(Effective')
    BY <1>1 DEF Promise!Switch
  <1> QED BY <1>1, <1>2, <1>3 DEF Promised, Promise!Next

\* The new build is verified while the saved one is still what counts.
LEMMA VerifyIsPromised ==
    ASSUME AllInv, NEW p \in Processes, Verify(p)
    PROVE  Promised
  <1>1. /\ pc[p] = "verify" /\ TypeInv /\ UNCHANGED <<at, journal, my>>
        /\ \E s \in {"verified", "reject"} : Goto(p, s)
        /\ \/ UNCHANGED verified
           \/ Occupied(Current) /\ verified' = verified \cup {at[Current]}
    BY DEF Verify, Verification, AllInv
  <1>2. Others(p) /\ pc'[p] \in {"verified", "reject"}
    BY <1>1, GoesToStep
  <1>3. Effective' = Effective
    BY <1>1, <1>2, EffectiveStays DEF Forwarding
  <1>4. CASE UNCHANGED verified
    BY <1>3, <1>4 DEF Promised, Promise!vars
  <1>5. CASE Occupied(Current) /\ verified' = verified \cup {at[Current]}
    <2>1. at[Current] \in Builds
      BY <1>1, <1>5, SavingPlaces DEF TypeInv, StoreInv, Occupied
    <2>2. Promise!Verify(at[Current])
      BY <1>3, <1>5 DEF Promise!Verify
    <2> QED BY <2>1, <2>2 DEF Promised, Promise!Next
  <1> QED BY <1>1, <1>4, <1>5

\* The older build, which is verified once more, is one that has passed before.
LEMMA VerifyPreviousIsPromised ==
    ASSUME AllInv, TrustInv, AllInv', TrustInv', NEW p \in Processes, VerifyPrevious(p)
    PROVE  Promised
  <1>1. /\ pc[p] = "check_old" /\ TypeInv
        /\ \E s \in {"switched", "retract"} : Goto(p, s)
        /\ UNCHANGED verified \/ verified' = verified \cup {at[Current]}
    BY DEF VerifyPrevious, Verification, AllInv
  <1>2. Ready /\ Occupied(Current)
    BY <1>1 DEF AllInv, SafeInv, RollbackAt, RollbackIs, RollbackSteps
  <1>3. at[Current] \in verified
    BY <1>2, ReadyIsVerified DEF TrustInv
  <1>4. {"switched", "retract"} \subseteq Steps
    BY DEF Steps, RollbackSteps
  <1>5. UNCHANGED verified /\ pc'[p] # "dead"
    BY <1>1, <1>3, <1>4, LivesOn
  <1> QED BY <1>5, SwitchIsPromised

LEMMA KillIsPromised ==
    ASSUME Undoable, AllInv, NEW p \in Processes, Kill(p)
    PROVE  Promised
  <1>1. TypeInv /\ pc[p] \in Interruptible /\ UNCHANGED <<at, journal, verified>>
    BY DEF Kill, AllInv
  <1>2. Others(p) /\ pc'[p] = "dead"
    BY <1>1, KillLeads
  <1>3. pc[p] \notin Forwarding
    BY <1>1 DEF Undoable, KillsSpareHolders, Forwarding, RollbackSteps
  <1>4. Effective' = Effective
    BY <1>1, <1>2, <1>3, EffectiveStays DEF Forwarding
  <1> QED BY <1>1, <1>4 DEF Promised, Promise!vars

LEMMA StepIsPromised ==
    ASSUME Undoable, AllInv, TrustInv, AllInv', TrustInv', [Next]_vars
    PROVE  Promised
  <1>0. TypeInv
    BY DEF AllInv
  <1>1. CASE UNCHANGED vars
    <2>1. Undone' = Undone
      BY <1>1 DEF vars, Undone, Unfinished, Mine
    <2> QED BY <1>1, <2>1 DEF vars, Effective, Occupied, Promised, Promise!vars
  <1>2. ASSUME NEW p \in Processes, LockStep(p) \/ \E c \in Commands : Begin(p, c)
        PROVE  Promised
    <2>1. Untouched /\ pc'[p] # "dead"
      BY <1>0, <1>2, LockLeads DEF Aside, LockSteps
    <2> QED BY <2>1, SwitchIsPromised DEF Untouched
  <1>3. ASSUME NEW p \in Processes, RecoveryStep(p) \/ WriteNote(p)
        PROVE  Promised
    <2>1. CASE ReadJournal(p) \/ JudgeCurrent(p) \/ ReportRecovery(p) \/ WriteNote(p)
      <3>1. Untouched /\ pc'[p] # "dead"
        BY <1>0, <2>1, LookLeads DEF Aside, LockSteps
      <3> QED BY <3>1, SwitchIsPromised DEF Untouched
    <2>2. CASE PutAside(p) \/ RestorePrevious(p) \/ PutBack(p) \/ WriteRecovered(p)
      BY <1>0, <2>2, MovesLive, SwitchIsPromised
    <2> QED BY <1>3, <2>1, <2>2 DEF RecoveryStep
  <1>4. ASSUME NEW p \in Processes, InstallStep(p) \/ RollbackStep(p)
        PROVE  Promised
    <2>1. CASE Verify(p) \/ VerifyPrevious(p)
      BY <2>1, VerifyIsPromised, VerifyPreviousIsPromised
    <2>2. CASE ~Verify(p) /\ ~VerifyPrevious(p)
      BY <1>0, <1>4, <2>2, MovesLive, SwitchIsPromised
    <2> QED BY <2>1, <2>2
  <1>5. ASSUME NEW p \in Processes, Kill(p)
        PROVE  Promised
    BY <1>5, KillIsPromised
  <1> QED BY <1>1, <1>2, <1>3, <1>4, <1>5 DEF Next, Step

\* At first the first build is installed, and nothing is to be given back.
LEMMA BeginsInstalled ==
    ASSUME Init, HasInstallation
    PROVE  Promise!Init
  <1>1. Undone = {}
    BY DEF Init, Undone, Unfinished
  <1>2. Effective = First
    BY <1>1, SavingPlaces DEF Init, Effective
  <1> QED BY <1>2 DEF Init, Promise!Init
-----------------------------------------------------------------------------
\* What is in current once every command and every interrupted update has come to its end
\* has passed verification (_verify_activated, recover_interrupted_update), if there was
\* an installation at first and under the conditions of Undoable.
THEOREM ActiveStaysVerified ==
    ASSUME Undoable, HasInstallation
    PROVE  Spec => []ActiveIsVerified
  <1>1. Init => AllInv /\ TrustInv
    BY InitTypes, InitLock, InitMemory, InitSafe, InitTrust DEF AllInv
  <1>2. AllInv /\ TrustInv /\ [Next]_vars => AllInv' /\ TrustInv'
    BY StepTypes, StepLock, StepMemory, StepSafe, UndoableIsUncontended, StepTrust DEF AllInv
  <1>3. TrustInv => ActiveIsVerified
    BY ReadyIsVerified DEF TrustInv, ActiveIsVerified, Settled, Ready
  <1> QED BY <1>1, <1>2, <1>3, PTL DEF Spec

\* Seen from outside, installations are switched as a whole, and only to verified ones
\* (_install_artifact, _rollback, recover_interrupted_update): UpdateSystem implements
\* AtomicInstallation under the same conditions.
THEOREM KeepsInstallation ==
    ASSUME Undoable, HasInstallation
    PROVE  Spec => ImplementsAtomicInstallation
  <1>1. Init => AllInv /\ TrustInv /\ Promise!Init
    BY InitTypes, InitLock, InitMemory, InitSafe, InitTrust, BeginsInstalled DEF AllInv
  <1>2. AllInv /\ TrustInv /\ [Next]_vars => AllInv' /\ TrustInv'
    BY StepTypes, StepLock, StepMemory, StepSafe, UndoableIsUncontended, StepTrust DEF AllInv
  <1>3. AllInv /\ TrustInv /\ AllInv' /\ TrustInv' /\ [Next]_vars => [Promise!Next]_(Promise!vars)
    BY StepIsPromised DEF Promised
  <1> QED BY <1>1, <1>2, <1>3, PTL DEF Spec, ImplementsAtomicInstallation, Promise!Spec
=============================================================================
