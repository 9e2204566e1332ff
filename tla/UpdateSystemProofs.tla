-------------------------- MODULE UpdateSystemProofs --------------------------
(***************************************************************************)
(* The update system, for any number of transactions.                      *)
(*                                                                         *)
(* The types hold for any processes and any kills.  That one process       *)
(* installs at a time is proved from who holds the lock, whose lock is     *)
(* left behind and who is about to remove one: LockInv.  That there is an  *)
(* installation in the end is proved from what is in which place at every  *)
(* step of an installation, of a rollback and of a recovery, and while     *)
(* nobody is at one: SafeInv.                                              *)
(***************************************************************************)
EXTENDS UpdateSystem, TLAPS

Local ==
    [command : Commands \cup {None}, turn : Nat, upto : Nat, phase : Phases \ Finished,
     previous : BOOLEAN, txn : Nat, saved : BOOLEAN, place : Places \cup {None}, tries : 0..2]

PCs == Steps \cup {"idle", "dead"}

\* What a process remembers at each step, when n transactions have been begun.
Fits(s, r, n) ==
    /\ r.upto <= n /\ r.turn <= r.upto + 1 /\ r.txn <= n
    /\ s \in LockSteps => r.command \in Locking
    /\ s \in {"inspect", "unlink"} => r.tries # 2
    /\ s \in InstallSteps => r.command = "install"
    /\ s \in RollbackSteps => r.command = "rollback"
    /\ s \in RecoverySteps =>
         r.command \in {"install", "status", "check", "recheck", "channel"} /\ r.turn >= 1
    /\ s \in RecoverySteps \ {"recover"} => r.turn <= r.upto
    /\ s \in InstallSteps \ {"stage"} => r.txn >= 1
    /\ s \in RollbackSteps \ {"choose"} => r.txn >= 1 /\ r.place # None

StoreInv ==
    /\ at \in [Places -> Builds \cup {None}]
    /\ journal \in [Transactions -> [phase : Phases, previous : BOOLEAN]]
    /\ known \in Places \cup {None}
    /\ lock \in [holder : Processes, signed : BOOLEAN] \cup {None}
    /\ verified \subseteq Builds /\ count \in 0..MaxTransactions

ProcessInv ==
    /\ pc \in [Processes -> PCs] /\ my \in [Processes -> Local]
    /\ \A p \in Processes : Fits(pc[p], my[p], count)

TypeInv == StoreInv /\ ProcessInv
-----------------------------------------------------------------------------
(* Where a process goes *)

\* One process goes on to step s with local variables r, and the others stay.
LEMMA GoesOn ==
    ASSUME ProcessInv, count \in Nat, count' \in Nat, count <= count',
           NEW p \in Processes, NEW s \in PCs, NEW r \in Local,
           Goto(p, s), Set(p, r), Fits(s, r, count')
    PROVE  ProcessInv'
  <1>1. /\ pc' \in [Processes -> PCs] /\ pc'[p] = s
        /\ \A q \in Processes : q # p => pc'[q] = pc[q]
    BY DEF Goto, ProcessInv
  <1>2. /\ my' \in [Processes -> Local] /\ my'[p] = r
        /\ \A q \in Processes : q # p => my'[q] = my[q]
    BY DEF Set, ProcessInv
  <1>3. ASSUME NEW q \in Processes PROVE Fits(pc'[q], my'[q], count')
    <2>1. CASE q = p
      BY <1>1, <1>2, <2>1
    <2>2. CASE q # p
      <3>1. Fits(pc[q], my[q], count) /\ pc'[q] = pc[q] /\ my'[q] = my[q]
        BY <1>1, <1>2, <2>2 DEF ProcessInv
      <3>2. my[q].upto \in Nat /\ my[q].txn \in Nat
        BY DEF ProcessInv, Local
      <3> QED BY <3>1, <3>2 DEF Fits
    <2> QED BY <2>1, <2>2
  <1> QED BY <1>1, <1>2, <1>3 DEF ProcessInv

\* ... or keeps its local variables.
LEMMA GoesTo ==
    ASSUME ProcessInv, count \in Nat, UNCHANGED <<my, count>>,
           NEW p \in Processes, NEW s \in PCs, Goto(p, s), Fits(s, my[p], count)
    PROVE  ProcessInv'
  <1>1. my[p] \in Local /\ Set(p, my[p])
    BY DEF ProcessInv, Set
  <1> QED BY <1>1, GoesOn

LEMMA FreshIsLocal == Fresh \in Local
  BY DEF Fresh, Local, Phases, Finished

LEMMA Returns ==
    ASSUME ProcessInv, count \in Nat, UNCHANGED count, NEW p \in Processes, Return(p)
    PROVE  ProcessInv'
  <1>1. Fits("idle", Fresh, count)
    BY DEF Fits, Fresh, LockSteps, InstallSteps, RollbackSteps, RecoverySteps
  <1>2. "idle" \in PCs
    BY DEF PCs
  <1> QED BY <1>1, <1>2, FreshIsLocal, GoesOn DEF Return

LEMMA Leaves ==
    ASSUME ProcessInv, count \in Nat, UNCHANGED count, NEW p \in Processes, Leave(p)
    PROVE  ProcessInv'
  <1>1. CASE my[p].command \in Locking
    <2>1. Fits("release", my[p], count)
      BY <1>1 DEF Fits, ProcessInv, LockSteps, InstallSteps, RollbackSteps, RecoverySteps
    <2>2. "release" \in PCs
      BY DEF PCs, Steps, LockSteps
    <2> QED BY <1>1, <2>1, <2>2, GoesTo DEF Leave
  <1>2. CASE my[p].command \notin Locking
    BY <1>2, Returns DEF Leave
  <1> QED BY <1>1, <1>2

\* Recovery starts with the first transaction (recover_interrupted_update).
LEMMA StartsRecovery ==
    ASSUME ProcessInv, count \in Nat, UNCHANGED count, NEW p \in Processes,
           NEW r \in Local, Recover(p, r), r.txn <= count,
           r.command \in {"install", "status", "check", "recheck", "channel"}
    PROVE  ProcessInv'
  <1> DEFINE x == [r EXCEPT !.turn = 1, !.upto = count]
  <1>1. /\ x \in Local /\ x.turn = 1 /\ x.upto = count /\ x.txn = r.txn
        /\ x.command = r.command
    BY DEF Local
  <1>2. Fits("recover", x, count)
    BY <1>1 DEF Fits, LockSteps, InstallSteps, RollbackSteps, RecoverySteps
  <1>3. "recover" \in PCs
    BY DEF PCs, Steps, RecoverySteps
  <1>4. Goto(p, "recover") /\ Set(p, x)
    BY DEF Recover
  <1> QED BY <1>1, <1>2, <1>3, <1>4, GoesOn
-----------------------------------------------------------------------------
(* The types *)

USE UpdateAssumption

LEMMA BeginTypes ==
    ASSUME TypeInv, NEW p \in Processes, NEW c \in Commands, Begin(p, c)
    PROVE  TypeInv'
  <1> DEFINE r == [Fresh EXCEPT !.command = c]
  <1>1. r \in Local /\ r.turn = 0 /\ r.upto = 0 /\ r.txn = 0 /\ r.command = c
    BY FreshIsLocal DEF Local, Fresh
  <1>2. StoreInv' /\ UNCHANGED count /\ count \in Nat /\ ProcessInv
    BY DEF TypeInv, StoreInv, Begin
  <1>a. (c \in Locking => Goto(p, "lock") /\ Set(p, r)) /\ (c \notin Locking => Recover(p, r))
    BY DEF Begin
  <1> HIDE DEF r
  <1>3. CASE c \in Locking
    <2>1. Goto(p, "lock") /\ Set(p, r)
      BY <1>3, <1>a
    <2>2. Fits("lock", r, count) /\ "lock" \in PCs
      BY <1>1, <1>2, <1>3
      DEF Fits, LockSteps, InstallSteps, RollbackSteps, RecoverySteps, PCs, Steps
    <2> QED BY <1>1, <1>2, <2>1, <2>2, GoesOn DEF TypeInv
  <1>4. CASE c \notin Locking
    <2>1. Recover(p, r) /\ r.txn <= count
      BY <1>1, <1>2, <1>4, <1>a
    <2>2. r.command \in {"install", "status", "check", "recheck", "channel"}
      BY <1>1, <1>4 DEF Commands, Locking
    <2> QED BY <1>1, <1>2, <2>1, <2>2, StartsRecovery DEF TypeInv
  <1> QED BY <1>3, <1>4

LEMMA KillTypes ==
    ASSUME TypeInv, NEW p \in Processes, Kill(p)
    PROVE  TypeInv'
  <1>1. StoreInv' /\ UNCHANGED <<my, count>> /\ count \in Nat /\ ProcessInv /\ Goto(p, "dead")
    BY DEF TypeInv, StoreInv, Kill
  <1>2. Fits("dead", my[p], count) /\ "dead" \in PCs
    BY <1>1 DEF ProcessInv, Fits, LockSteps, InstallSteps, RollbackSteps, RecoverySteps, PCs
  <1> QED BY <1>1, <1>2, GoesTo DEF TypeInv

LEMMA CreateLockTypes ==
    ASSUME TypeInv, NEW p \in Processes, CreateLock(p)
    PROVE  TypeInv'
  <1>1. /\ UNCHANGED <<at, journal, known, verified, count>> /\ count \in Nat /\ ProcessInv
        /\ pc[p] = "lock" /\ Fits("lock", my[p], count)
    BY DEF TypeInv, StoreInv, CreateLock, ProcessInv
  <1>2. \/ Return(p) /\ UNCHANGED lock
        \/ UNCHANGED my /\ lock' = [holder |-> p, signed |-> FALSE] /\ Goto(p, "sign")
        \/ UNCHANGED my /\ UNCHANGED lock /\ Goto(p, "inspect") /\ my[p].tries # 2
    BY DEF CreateLock
  <1>a. lock' \in [holder : Processes, signed : BOOLEAN] \cup {None}
    <2>1. [holder |-> p, signed |-> FALSE] \in [holder : Processes, signed : BOOLEAN]
      OBVIOUS
    <2>2. lock' = lock \/ lock' = [holder |-> p, signed |-> FALSE]
      BY <1>2
    <2>3. lock \in [holder : Processes, signed : BOOLEAN] \cup {None}
      BY DEF TypeInv, StoreInv
    <2> QED BY <2>1, <2>2, <2>3
  <1>3. StoreInv'
    BY <1>1, <1>a DEF TypeInv, StoreInv
  <1>4. /\ Fits("sign", my[p], count) /\ "sign" \in PCs
        /\ my[p].tries # 2 => Fits("inspect", my[p], count) /\ "inspect" \in PCs
    BY <1>1 DEF Fits, LockSteps, InstallSteps, RollbackSteps, RecoverySteps, PCs, Steps
  <1>5. CASE Return(p)
    BY <1>1, <1>3, <1>5, Returns DEF TypeInv
  <1>6. CASE UNCHANGED my /\ Goto(p, "sign")
    BY <1>1, <1>3, <1>4, <1>6, GoesTo DEF TypeInv
  <1>7. CASE UNCHANGED my /\ Goto(p, "inspect") /\ my[p].tries # 2
    BY <1>1, <1>3, <1>4, <1>7, GoesTo DEF TypeInv
  <1> QED BY <1>2, <1>5, <1>6, <1>7

LEMMA SignLockTypes ==
    ASSUME TypeInv, NEW p \in Processes, SignLock(p)
    PROVE  TypeInv'
  <1>1. /\ UNCHANGED <<at, journal, known, verified, count>> /\ count \in Nat /\ ProcessInv
        /\ pc[p] = "sign" /\ Fits("sign", my[p], count) /\ my[p] \in Local
    BY DEF TypeInv, StoreInv, SignLock, ProcessInv
  <1>2. lock' = lock \/ (lock # None /\ lock' = [lock EXCEPT !.signed = TRUE])
    BY DEF SignLock
  <1>3. StoreInv'
    BY <1>1, <1>2 DEF TypeInv, StoreInv
  <1>4. CASE my[p].command = "install"
    <2>1. Recover(p, my[p]) /\ my[p].txn <= count
      BY <1>1, <1>4 DEF SignLock, Fits
    <2> QED BY <1>1, <1>3, <1>4, <2>1, StartsRecovery DEF TypeInv
  <1>5. CASE my[p].command # "install"
    <2>1. Goto(p, "choose") /\ UNCHANGED my
      BY <1>5 DEF SignLock
    <2>2. Fits("choose", my[p], count) /\ "choose" \in PCs
      BY <1>1, <1>5
      DEF Fits, LockSteps, InstallSteps, RollbackSteps, RecoverySteps, PCs, Steps, Locking
    <2> QED BY <1>1, <1>3, <2>1, <2>2, GoesTo DEF TypeInv
  <1> QED BY <1>4, <1>5

LEMMA OtherLockTypes ==
    ASSUME TypeInv, NEW p \in Processes, InspectLock(p) \/ UnlinkLock(p) \/ ReleaseLock(p)
    PROVE  TypeInv'
  <1>1. /\ UNCHANGED <<at, journal, known, verified, count>> /\ count \in Nat /\ ProcessInv
        /\ Fits(pc[p], my[p], count) /\ my[p] \in Local
    BY DEF TypeInv, StoreInv, InspectLock, UnlinkLock, ReleaseLock, ProcessInv
  <1>2. CASE InspectLock(p)
    <2>1. /\ UNCHANGED lock /\ pc[p] = "inspect"
          /\ Return(p) \/ (Goto(p, "unlink") /\ UNCHANGED my)
      BY <1>2 DEF InspectLock
    <2>2. Fits("unlink", my[p], count) /\ "unlink" \in PCs
      BY <1>1, <2>1 DEF Fits, LockSteps, InstallSteps, RollbackSteps, RecoverySteps, PCs, Steps
    <2> QED BY <1>1, <2>1, <2>2, Returns, GoesTo DEF TypeInv, StoreInv
  <1>3. CASE UnlinkLock(p)
    <2> DEFINE r == [my[p] EXCEPT !.tries = @ + 1]
    <2>1. pc[p] = "unlink" /\ lock' = None /\ Goto(p, "lock") /\ Set(p, r)
      BY <1>3 DEF UnlinkLock
    <2>2. my[p].tries \in 0..2 /\ my[p].tries # 2 /\ my[p].command \in Locking
      BY <1>1, <2>1 DEF Local, Fits, LockSteps
    <2>3. /\ r \in Local /\ r.turn = my[p].turn /\ r.upto = my[p].upto /\ r.txn = my[p].txn
          /\ r.command = my[p].command
      BY <1>1, <2>2 DEF Local
    <2>4. Fits("lock", r, count) /\ "lock" \in PCs
      BY <1>1, <2>1, <2>2, <2>3
      DEF Fits, LockSteps, InstallSteps, RollbackSteps, RecoverySteps, PCs, Steps
    <2>5. StoreInv'
      BY <1>1, <2>1 DEF TypeInv, StoreInv
    <2> HIDE DEF r
    <2> QED BY <1>1, <2>1, <2>3, <2>4, <2>5, GoesOn DEF TypeInv
  <1>4. CASE ReleaseLock(p)
    <2>1. lock' \in {None, lock} /\ Return(p)
      BY <1>4 DEF ReleaseLock
    <2> QED BY <1>1, <2>1, Returns DEF TypeInv, StoreInv
  <1> QED BY <1>2, <1>3, <1>4

LEMMA PlacesAre ==
    /\ Current \in Places
    /\ \A kind \in Kinds, t \in Transactions : Place(kind, t) \in Places
  BY DEF Places, Place

LEMMA TurnIsTransaction ==
    ASSUME TypeInv, NEW p \in Processes, pc[p] \in RecoverySteps \ {"recover"}
    PROVE  my[p].turn \in Transactions
  <1>1. /\ Fits(pc[p], my[p], count) /\ my[p].turn \in Nat /\ my[p].upto \in Nat
        /\ count \in 0..MaxTransactions
    BY DEF TypeInv, StoreInv, ProcessInv, Local
  <1>2. 1 <= my[p].turn /\ my[p].turn <= my[p].upto /\ my[p].upto <= count
    BY <1>1 DEF Fits
  <1> QED BY <1>1, <1>2 DEF Transactions

LEMMA OwnIsTransaction ==
    ASSUME TypeInv, NEW p \in Processes,
           pc[p] \in (InstallSteps \ {"stage"}) \cup (RollbackSteps \ {"choose"})
    PROVE  my[p].txn \in Transactions
  <1>1. /\ Fits(pc[p], my[p], count) /\ my[p].txn \in Nat
        /\ count \in 0..MaxTransactions
    BY DEF TypeInv, StoreInv, ProcessInv, Local
  <1>2. 1 <= my[p].txn /\ my[p].txn <= count
    BY <1>1 DEF Fits
  <1> QED BY <1>1, <1>2 DEF Transactions

\* An os.replace between two places, or the end of the command.
LEMMA ReplaceTypes ==
    ASSUME TypeInv, NEW p \in Processes, NEW x \in Places, NEW y \in Places,
           NEW s \in PCs, Fits(s, my[p], count), Replace(p, x, y, s)
    PROVE  TypeInv'
  <1>1. /\ UNCHANGED <<journal, known, lock, verified, count>> /\ count \in Nat /\ ProcessInv
        /\ at \in [Places -> Builds \cup {None}]
    BY DEF TypeInv, StoreInv, Replace
  <1>2. CASE Movable(x, y)
    <2>1. Move(x, y) /\ Goto(p, s) /\ UNCHANGED my
      BY <1>2 DEF Replace
    <2>2. at' \in [Places -> Builds \cup {None}]
      BY <1>1, <2>1 DEF Move
    <2>3. StoreInv'
      BY <1>1, <2>2 DEF TypeInv, StoreInv
    <2> QED BY <1>1, <2>1, <2>3, GoesTo DEF TypeInv
  <1>3. CASE ~Movable(x, y)
    <2>1. Leave(p) /\ UNCHANGED at
      BY <1>3 DEF Replace
    <2>2. StoreInv'
      BY <1>1, <2>1 DEF TypeInv, StoreInv
    <2> QED BY <1>1, <2>1, <2>2, Leaves DEF TypeInv
  <1> QED BY <1>2, <1>3

\* What each step of recovery needs: its place in the loop.
LEMMA RecoveryFits ==
    ASSUME TypeInv, NEW p \in Processes, pc[p] \in RecoverySteps \ {"recover"},
           NEW s \in RecoverySteps
    PROVE  Fits(s, my[p], count) /\ s \in PCs
  BY DEF TypeInv, ProcessInv, Fits, PCs, Steps, LockSteps, InstallSteps, RollbackSteps, RecoverySteps

LEMMA AfterRecoveryTypes ==
    ASSUME TypeInv, NEW p \in Processes, pc[p] = "recover", AfterRecovery(p),
           UNCHANGED <<at, journal, known, lock, verified, count>>
    PROVE  TypeInv'
  <1>1. /\ count \in Nat /\ ProcessInv /\ Fits("recover", my[p], count) /\ my[p] \in Local
        /\ known \in Places \cup {None} /\ StoreInv'
    BY DEF TypeInv, StoreInv, ProcessInv
  <1>2. my[p].command \in {"install", "status", "check", "recheck", "channel"}
    BY <1>1 DEF Fits, RecoverySteps
  <1>3. CASE my[p].command = "install"
    <2>1. Goto(p, "stage") /\ UNCHANGED my
      BY <1>3 DEF AfterRecovery
    <2>2. Fits("stage", my[p], count) /\ "stage" \in PCs
      BY <1>1, <1>3
      DEF Fits, LockSteps, InstallSteps, RollbackSteps, RecoverySteps, PCs, Steps
    <2> QED BY <1>1, <2>1, <2>2, GoesTo DEF TypeInv
  <1>4. CASE my[p].command = "status"
    <2>1. Return(p)
      BY <1>4 DEF AfterRecovery
    <2> QED BY <1>1, <2>1, Returns DEF TypeInv
  <1>5. CASE my[p].command = "check"
    <2> DEFINE r == [my[p] EXCEPT !.command = "recheck", !.place = known]
    <2>1. Recover(p, r)
      BY <1>5 DEF AfterRecovery
    <2>2. "recheck" \in Commands
      BY DEF Commands
    <2>3. r \in Local /\ r.txn = my[p].txn /\ r.command = "recheck"
      BY <1>1, <2>2 DEF Local
    <2>4. r.txn <= count
      BY <1>1, <2>3 DEF Fits
    <2> HIDE DEF r
    <2> QED BY <1>1, <2>1, <2>3, <2>4, StartsRecovery DEF TypeInv
  <1>6. CASE my[p].command = "recheck"
    <2>1. Goto(p, "note") /\ UNCHANGED my
      BY <1>6 DEF AfterRecovery
    <2>2. Fits("note", my[p], count) /\ "note" \in PCs
      BY <1>1
      DEF Fits, LockSteps, InstallSteps, RollbackSteps, RecoverySteps, PCs, Steps
    <2> QED BY <1>1, <2>1, <2>2, GoesTo DEF TypeInv
  <1>7. CASE my[p].command = "channel"
    <2> DEFINE r == [my[p] EXCEPT !.place = known]
    <2>1. Goto(p, "note") /\ Set(p, r)
      BY <1>7 DEF AfterRecovery
    <2>2. /\ r \in Local /\ r.txn = my[p].txn /\ r.upto = my[p].upto /\ r.turn = my[p].turn
      BY <1>1 DEF Local
    <2>3. Fits("note", r, count) /\ "note" \in PCs
      BY <1>1, <2>2
      DEF Fits, LockSteps, InstallSteps, RollbackSteps, RecoverySteps, PCs, Steps
    <2> HIDE DEF r
    <2> QED BY <1>1, <2>1, <2>2, <2>3, GoesOn DEF TypeInv
  <1> QED BY <1>2, <1>3, <1>4, <1>5, <1>6, <1>7

LEMMA ReadJournalTypes ==
    ASSUME TypeInv, NEW p \in Processes, ReadJournal(p)
    PROVE  TypeInv'
  <1> DEFINE t == my[p].turn
  <1>1. /\ count \in Nat /\ ProcessInv /\ Fits("recover", my[p], count) /\ my[p] \in Local
        /\ pc[p] = "recover" /\ UNCHANGED <<at, journal, known, lock, verified, count>>
        /\ count \in 0..MaxTransactions
        /\ journal \in [Transactions -> [phase : Phases, previous : BOOLEAN]] /\ StoreInv'
    BY DEF TypeInv, StoreInv, ProcessInv, ReadJournal
  <1>2. t \in Nat /\ my[p].upto \in Nat /\ 1 <= t /\ my[p].upto <= count /\ my[p].txn <= count
    BY <1>1 DEF Fits, Local, RecoverySteps
  <1>3. CASE t > my[p].upto
    BY <1>1, <1>3, AfterRecoveryTypes DEF ReadJournal
  <1>4. CASE ~(t > my[p].upto) /\ Unfinished(t) /\ ~OwnerRunning(t)
    <2> DEFINE r == [my[p] EXCEPT !.phase = journal[t].phase, !.previous = journal[t].previous]
    <2>1. Goto(p, "judge") /\ Set(p, r)
      BY <1>4 DEF ReadJournal
    <2>2. t \in Transactions /\ t <= my[p].upto
      BY <1>1, <1>2, <1>4 DEF Transactions
    <2>3. journal[t].phase \in Phases \ Finished /\ journal[t].previous \in BOOLEAN
      BY <1>1, <1>4, <2>2 DEF Unfinished
    <2>4. /\ r \in Local /\ r.txn = my[p].txn /\ r.upto = my[p].upto /\ r.turn = my[p].turn
          /\ r.command = my[p].command
      BY <1>1, <2>3 DEF Local
    <2>5. Fits("judge", r, count) /\ "judge" \in PCs
      BY <1>1, <1>2, <2>2, <2>4
      DEF Fits, LockSteps, InstallSteps, RollbackSteps, RecoverySteps, PCs, Steps
    <2> HIDE DEF r
    <2> QED BY <1>1, <2>1, <2>4, <2>5, GoesOn DEF TypeInv
  <1>5. CASE ~(t > my[p].upto) /\ ~(Unfinished(t) /\ ~OwnerRunning(t))
    <2> DEFINE r == [my[p] EXCEPT !.turn = t + 1]
    <2>1. Goto(p, "recover") /\ Set(p, r)
      BY <1>5 DEF ReadJournal
    <2>2. /\ r \in Local /\ r.txn = my[p].txn /\ r.upto = my[p].upto /\ r.turn = t + 1
          /\ r.command = my[p].command
      BY <1>1, <1>2 DEF Local
    <2>3. Fits("recover", r, count) /\ "recover" \in PCs
      BY <1>1, <1>2, <1>5, <2>2
      DEF Fits, LockSteps, InstallSteps, RollbackSteps, RecoverySteps, PCs, Steps
    <2> HIDE DEF r
    <2> QED BY <1>1, <2>1, <2>2, <2>3, GoesOn DEF TypeInv
  <1> QED BY <1>3, <1>4, <1>5

LEMMA JudgeTypes ==
    ASSUME TypeInv, NEW p \in Processes, JudgeCurrent(p) \/ RestorePrevious(p)
    PROVE  TypeInv'
  <1>1. /\ count \in Nat /\ ProcessInv /\ pc[p] \in RecoverySteps \ {"recover"}
        /\ UNCHANGED <<at, journal, known, lock, verified, count>> /\ StoreInv'
    BY DEF TypeInv, StoreInv, JudgeCurrent, RestorePrevious, RecoverySteps
  <1>2. \/ Leave(p)
        \/ UNCHANGED my /\ \E s \in {"restore", "put_aside", "put_back", "recovered"} : Goto(p, s)
    BY DEF JudgeCurrent, RestorePrevious
  <1>3. CASE Leave(p)
    BY <1>1, <1>3, Leaves DEF TypeInv
  <1>4. ASSUME NEW s \in {"restore", "put_aside", "put_back", "recovered"},
               UNCHANGED my, Goto(p, s)
        PROVE  TypeInv'
    <2>1. s \in RecoverySteps
      BY DEF RecoverySteps
    <2>2. Fits(s, my[p], count) /\ s \in PCs
      BY <1>1, <2>1, RecoveryFits
    <2> QED BY <1>1, <1>4, <2>2, GoesTo DEF TypeInv
  <1> QED BY <1>2, <1>3, <1>4

LEMMA PutTypes ==
    ASSUME TypeInv, NEW p \in Processes, PutAside(p) \/ PutBack(p)
    PROVE  TypeInv'
  <1>1. pc[p] \in RecoverySteps \ {"recover"} /\ {"restore", "recovered"} \subseteq RecoverySteps
    BY DEF PutAside, PutBack, RecoverySteps
  <1>2. my[p].turn \in Transactions
    BY <1>1, TurnIsTransaction
  <1>3. /\ Place("interrupted", my[p].turn) \in Places /\ Place("previous", my[p].turn) \in Places
        /\ Current \in Places
    BY <1>2, PlacesAre DEF Kinds
  <1>4. \A s \in {"restore", "recovered"} : Fits(s, my[p], count) /\ s \in PCs
    BY <1>1, RecoveryFits
  <1>5. CASE PutAside(p)
    BY <1>3, <1>4, <1>5, ReplaceTypes DEF PutAside
  <1>6. CASE PutBack(p)
    BY <1>3, <1>4, <1>6, ReplaceTypes DEF PutBack
  <1> QED BY <1>5, <1>6

LEMMA WriteRecoveredTypes ==
    ASSUME TypeInv, NEW p \in Processes, WriteRecovered(p)
    PROVE  TypeInv'
  <1>1. /\ count \in Nat /\ ProcessInv /\ pc[p] = "recovered" /\ my[p] \in Local
        /\ UNCHANGED <<at, known, lock, verified, count, my>> /\ Goto(p, "report")
        /\ journal \in [Transactions -> [phase : Phases, previous : BOOLEAN]]
    BY DEF TypeInv, StoreInv, ProcessInv, WriteRecovered
  <1>2. [phase |-> "recovered", previous |-> my[p].previous] \in [phase : Phases, previous : BOOLEAN]
    BY <1>1 DEF Local, Phases, Finished
  <1>3. journal' \in [Transactions -> [phase : Phases, previous : BOOLEAN]]
    BY <1>1, <1>2 DEF WriteRecovered
  <1>4. Fits("report", my[p], count) /\ "report" \in PCs
    BY <1>1, RecoveryFits DEF RecoverySteps
  <1>5. StoreInv'
    BY <1>1, <1>3 DEF TypeInv, StoreInv
  <1> QED BY <1>1, <1>4, <1>5, GoesTo DEF TypeInv

LEMMA ReportRecoveryTypes ==
    ASSUME TypeInv, NEW p \in Processes, ReportRecovery(p)
    PROVE  TypeInv'
  <1> DEFINE r == [my[p] EXCEPT !.turn = @ + 1]
  <1>1. /\ count \in Nat /\ ProcessInv /\ Fits("report", my[p], count) /\ my[p] \in Local
        /\ pc[p] = "report" /\ UNCHANGED count /\ Goto(p, "recover") /\ Set(p, r)
    BY DEF TypeInv, StoreInv, ProcessInv, ReportRecovery
  <1>2. StoreInv'
    BY DEF TypeInv, StoreInv, ReportRecovery
  <1>3. /\ my[p].turn \in Nat /\ my[p].upto \in Nat /\ my[p].turn <= my[p].upto
        /\ my[p].upto <= count /\ my[p].txn <= count
        /\ my[p].command \in {"install", "status", "check", "recheck", "channel"}
    BY <1>1 DEF Fits, Local, RecoverySteps
  <1>4. /\ r \in Local /\ r.txn = my[p].txn /\ r.upto = my[p].upto /\ r.turn = my[p].turn + 1
        /\ r.command = my[p].command
    BY <1>1, <1>3 DEF Local
  <1> HIDE DEF r
  <1>5. Fits("recover", r, count) /\ "recover" \in PCs
    BY <1>3, <1>4
    DEF Fits, LockSteps, InstallSteps, RollbackSteps, RecoverySteps, PCs, Steps
  <1> QED BY <1>1, <1>2, <1>4, <1>5, GoesOn DEF TypeInv

LEMMA WriteNoteTypes ==
    ASSUME TypeInv, NEW p \in Processes, WriteNote(p)
    PROVE  TypeInv'
  <1>1. /\ count \in Nat /\ ProcessInv /\ UNCHANGED <<at, journal, lock, verified, count>>
        /\ known' = my[p].place /\ Return(p) /\ my[p] \in Local
    BY DEF TypeInv, StoreInv, ProcessInv, WriteNote
  <1>2. StoreInv'
    BY <1>1 DEF TypeInv, StoreInv, Local
  <1> QED BY <1>1, <1>2, Returns DEF TypeInv

\* Within an installation, and within a rollback, what a process remembers fits on.
LEMMA InstallFits ==
    ASSUME TypeInv, NEW p \in Processes, pc[p] \in InstallSteps \ {"stage"}, NEW s \in InstallSteps
    PROVE  Fits(s, my[p], count) /\ s \in PCs
  BY DEF TypeInv, ProcessInv, Fits, PCs, Steps, LockSteps, InstallSteps, RollbackSteps, RecoverySteps

LEMMA RollbackFits ==
    ASSUME TypeInv, NEW p \in Processes, pc[p] \in RollbackSteps \ {"choose"},
           NEW s \in RollbackSteps \cup {"release"}
    PROVE  Fits(s, my[p], count) /\ s \in PCs
  BY DEF TypeInv, ProcessInv, Fits, PCs, Steps, LockSteps, InstallSteps, RollbackSteps, RecoverySteps,
         Locking

LEMMA MyPlaces ==
    ASSUME TypeInv, NEW p \in Processes,
           pc[p] \in (InstallSteps \ {"stage"}) \cup (RollbackSteps \ {"choose"})
    PROVE  \A kind \in Kinds : Mine(p, kind) \in Places
  BY OwnIsTransaction, PlacesAre DEF Mine

\* A transaction is begun: a counted one, which process p keeps in r.
LEMMA Counts ==
    ASSUME TypeInv, NEW p \in Processes, count < MaxTransactions, count' = count + 1,
           NEW s \in PCs, NEW r \in Local, Goto(p, s), Set(p, r), Fits(s, r, count + 1)
    PROVE  ProcessInv' /\ count' \in 0..MaxTransactions
  <1>1. count \in Nat /\ count' \in Nat /\ count <= count' /\ ProcessInv
        /\ count' \in 0..MaxTransactions
    BY DEF TypeInv, StoreInv
  <1>2. Fits(s, r, count')
    BY DEF Fits
  <1> QED BY <1>1, <1>2, GoesOn

LEMMA StageTypes ==
    ASSUME TypeInv, NEW p \in Processes, Stage(p)
    PROVE  TypeInv'
  <1> DEFINE r == [my[p] EXCEPT !.txn = count + 1]
  <1>1. /\ count \in 0..MaxTransactions /\ ProcessInv /\ pc[p] = "stage" /\ my[p] \in Local
        /\ UNCHANGED <<journal, known, lock, verified>> /\ Fits("stage", my[p], count)
        /\ at \in [Places -> Builds \cup {None}]
    BY DEF TypeInv, StoreInv, ProcessInv, Stage
  <1>2. CASE Leave(p) /\ UNCHANGED <<at, count>>
    <2>1. StoreInv'
      BY <1>1, <1>2 DEF TypeInv, StoreInv
    <2> QED BY <1>1, <1>2, <2>1, Leaves DEF TypeInv
  <1>3. CASE /\ count < MaxTransactions /\ count' = count + 1
             /\ at' = [at EXCEPT ![Place("staged", count + 1)] = count + 1]
             /\ Goto(p, "prepare") /\ Set(p, r)
    <2>1. count + 1 \in Transactions /\ count + 1 \in Nat
      BY <1>1, <1>3 DEF Transactions
    <2>2. count + 1 \in Builds
      BY <2>1 DEF Builds
    <2>3. at' \in [Places -> Builds \cup {None}]
      BY <1>1, <1>3, <2>2
    <2>4. /\ r \in Local /\ r.txn = count + 1 /\ r.upto = my[p].upto /\ r.turn = my[p].turn
          /\ r.command = my[p].command
      BY <1>1, <2>1 DEF Local
    <2>5. my[p].upto \in Nat /\ my[p].upto <= count /\ my[p].turn <= my[p].upto + 1
      BY <1>1 DEF Local, Fits
    <2>6. my[p].command = "install"
      BY <1>1 DEF Fits, InstallSteps
    <2>7. Fits("prepare", r, count + 1) /\ "prepare" \in PCs
      BY <1>1, <2>1, <2>4, <2>5, <2>6
      DEF Fits, LockSteps, InstallSteps, RollbackSteps, RecoverySteps, PCs, Steps
    <2> HIDE DEF r
    <2>8. ProcessInv' /\ count' \in 0..MaxTransactions
      BY <1>3, <2>4, <2>7, Counts
    <2>9. StoreInv'
      BY <1>1, <2>3, <2>8 DEF TypeInv, StoreInv
    <2> QED BY <2>8, <2>9 DEF TypeInv
  <1> QED BY <1>2, <1>3 DEF Stage

LEMMA PrepareTypes ==
    ASSUME TypeInv, NEW p \in Processes, Prepare(p)
    PROVE  TypeInv'
  <1>1. /\ count \in Nat /\ ProcessInv /\ pc[p] = "prepare" /\ Goto(p, "save")
        /\ UNCHANGED <<at, known, lock, verified, count, my>>
        /\ journal \in [Transactions -> [phase : Phases, previous : BOOLEAN]]
    BY DEF TypeInv, StoreInv, Prepare
  <1>2. [phase |-> "prepared", previous |-> Occupied(Current)] \in [phase : Phases, previous : BOOLEAN]
    BY DEF Occupied, Phases
  <1>3. journal' \in [Transactions -> [phase : Phases, previous : BOOLEAN]]
    BY <1>1, <1>2 DEF Prepare
  <1>4. StoreInv'
    BY <1>1, <1>3 DEF TypeInv, StoreInv
  <1>5. Fits("save", my[p], count) /\ "save" \in PCs
    BY <1>1, InstallFits DEF InstallSteps
  <1> QED BY <1>1, <1>4, <1>5, GoesTo DEF TypeInv

LEMMA SavePreviousTypes ==
    ASSUME TypeInv, NEW p \in Processes, SavePrevious(p)
    PROVE  TypeInv'
  <1> DEFINE r == [my[p] EXCEPT !.saved = TRUE]
  <1>1. /\ count \in Nat /\ ProcessInv /\ pc[p] = "save" /\ my[p] \in Local
        /\ UNCHANGED <<journal, known, lock, verified, count>>
        /\ at \in [Places -> Builds \cup {None}]
    BY DEF TypeInv, StoreInv, ProcessInv, SavePrevious
  <1>2. \A s \in {"saved", "activate"} : Fits(s, my[p], count) /\ s \in PCs
    BY <1>1, InstallFits DEF InstallSteps
  <1>3. CASE Occupied(Current)
    <2>1. Move(Current, Mine(p, "previous")) /\ Goto(p, "saved") /\ Set(p, r)
      BY <1>3 DEF SavePrevious
    <2>2. at' \in [Places -> Builds \cup {None}]
      <3>1. Current \in Places
        BY PlacesAre
      <3> QED BY <1>1, <2>1, <3>1 DEF Move
    <2>3. /\ r \in Local /\ r.txn = my[p].txn /\ r.upto = my[p].upto /\ r.turn = my[p].turn
          /\ r.command = my[p].command /\ r.place = my[p].place /\ r.tries = my[p].tries
      BY <1>1 DEF Local
    <2> HIDE DEF r
    <2>4. Fits("saved", r, count) /\ "saved" \in PCs
      BY <1>2, <2>3 DEF Fits
    <2>5. StoreInv'
      BY <1>1, <2>2 DEF TypeInv, StoreInv
    <2> QED BY <1>1, <2>1, <2>3, <2>4, <2>5, GoesOn DEF TypeInv
  <1>4. CASE ~Occupied(Current)
    <2>1. Goto(p, "activate") /\ UNCHANGED <<at, my>>
      BY <1>4 DEF SavePrevious
    <2>2. StoreInv'
      BY <1>1, <2>1 DEF TypeInv, StoreInv
    <2> QED BY <1>1, <1>2, <2>1, <2>2, GoesTo DEF TypeInv
  <1> QED BY <1>3, <1>4

\* The phase of one journal is changed.
LEMMA JournalTypes ==
    ASSUME TypeInv, NEW t \in Transactions, NEW phase \in Phases, Journal(t, phase)
    PROVE  journal' \in [Transactions -> [phase : Phases, previous : BOOLEAN]]
  <1>1. journal \in [Transactions -> [phase : Phases, previous : BOOLEAN]]
    BY DEF TypeInv, StoreInv
  <1> QED BY <1>1 DEF Journal

LEMMA WritePhaseTypes ==
    ASSUME TypeInv, NEW p \in Processes, WritePhase(p)
    PROVE  TypeInv'
  <1>1. /\ count \in Nat /\ ProcessInv /\ pc[p] \in InstallSteps \ {"stage"}
        /\ UNCHANGED <<at, known, lock, verified, count, my>>
    BY DEF TypeInv, StoreInv, WritePhase, InstallSteps
  <1>2. PICK phase \in {"previous_saved", "activated", "verifying"},
             s \in {"activate", "announce", "verify"} :
          Journal(my[p].txn, phase) /\ Goto(p, s)
    <2>1. pc[p] \in {"saved", "activated", "verifying"}
          /\ Journal(my[p].txn, AfterPhase(pc[p])[1]) /\ Goto(p, AfterPhase(pc[p])[2])
      BY DEF WritePhase
    <2>2. /\ AfterPhase("saved") = <<"previous_saved", "activate">>
          /\ AfterPhase("activated") = <<"activated", "announce">>
          /\ AfterPhase("verifying") = <<"verifying", "verify">>
      BY DEF AfterPhase
    <2> QED BY <2>1, <2>2
  <1>3. my[p].txn \in Transactions
    BY <1>1, OwnIsTransaction
  <1>4. phase \in Phases
    BY DEF Phases, Switching
  <1>5. journal' \in [Transactions -> [phase : Phases, previous : BOOLEAN]]
    BY <1>2, <1>3, <1>4, JournalTypes
  <1>6. StoreInv'
    BY <1>1, <1>5 DEF TypeInv, StoreInv
  <1>7. Fits(s, my[p], count) /\ s \in PCs
    BY <1>1, InstallFits DEF InstallSteps
  <1> QED BY <1>1, <1>2, <1>6, <1>7, GoesTo DEF TypeInv

LEMMA ActivateTypes ==
    ASSUME TypeInv, NEW p \in Processes, Activate(p)
    PROVE  TypeInv'
  <1>1. /\ count \in Nat /\ ProcessInv /\ pc[p] = "activate"
        /\ UNCHANGED <<journal, known, lock, verified, count>>
        /\ at \in [Places -> Builds \cup {None}]
    BY DEF TypeInv, StoreInv, Activate
  <1>2. \A kind \in Kinds : Mine(p, kind) \in Places
    BY <1>1, MyPlaces DEF InstallSteps
  <1>3. /\ Current \in Places /\ Mine(p, "staged") \in Places /\ Mine(p, "previous") \in Places
    BY <1>2, PlacesAre DEF Kinds
  <1>4. \/ Move(Mine(p, "staged"), Current) /\ Goto(p, "activated") /\ UNCHANGED my
        \/ Move(Mine(p, "previous"), Current) /\ Leave(p)
        \/ UNCHANGED at /\ Leave(p)
    BY DEF Activate
  <1>5. at' \in [Places -> Builds \cup {None}]
    BY <1>1, <1>3, <1>4 DEF Move
  <1>6. StoreInv'
    BY <1>1, <1>5 DEF TypeInv, StoreInv
  <1>7. CASE Goto(p, "activated") /\ UNCHANGED my
    <2>1. Fits("activated", my[p], count) /\ "activated" \in PCs
      BY <1>1, InstallFits DEF InstallSteps
    <2> QED BY <1>1, <1>6, <1>7, <2>1, GoesTo DEF TypeInv
  <1>8. CASE Leave(p)
    BY <1>1, <1>6, <1>8, Leaves DEF TypeInv
  <1> QED BY <1>4, <1>7, <1>8

LEMMA AnnounceTypes ==
    ASSUME TypeInv, NEW p \in Processes, Announce(p) \/ ReportFailure(p)
    PROVE  TypeInv'
  <1>1. /\ count \in Nat /\ ProcessInv /\ pc[p] \in InstallSteps \ {"stage"}
        /\ UNCHANGED <<at, journal, lock, verified, count, my>>
        /\ known' \in {None, Mine(p, "previous")}
        /\ \E s \in {"verifying", "complete", "rolled_back"} : Goto(p, s)
    BY DEF TypeInv, StoreInv, Announce, ReportFailure, InstallSteps, Saved
  <1>2. Mine(p, "previous") \in Places
    BY <1>1, MyPlaces DEF Kinds
  <1>3. StoreInv'
    BY <1>1, <1>2 DEF TypeInv, StoreInv
  <1>4. PICK s \in {"verifying", "complete", "rolled_back"} : Goto(p, s)
    BY <1>1
  <1>5. Fits(s, my[p], count) /\ s \in PCs
    BY <1>1, InstallFits DEF InstallSteps
  <1> QED BY <1>1, <1>3, <1>4, <1>5, GoesTo DEF TypeInv

\* What current holds is a build, and both outcomes fit.
LEMMA VerificationTypes ==
    ASSUME TypeInv, NEW p \in Processes, NEW ok \in BOOLEAN, NEW s \in PCs, NEW u \in PCs,
           Fits(s, my[p], count), Fits(u, my[p], count), Verification(p, ok, s, u)
    PROVE  TypeInv'
  <1>1. /\ count \in Nat /\ ProcessInv /\ UNCHANGED <<at, journal, known, lock, count, my>>
        /\ at \in [Places -> Builds \cup {None}] /\ verified \subseteq Builds
    BY DEF TypeInv, StoreInv, Verification
  <1>2. Occupied(Current) => at[Current] \in Builds
    BY <1>1, PlacesAre DEF Occupied
  <1>3. verified' \subseteq Builds
    BY <1>1, <1>2 DEF Verification
  <1>4. StoreInv'
    BY <1>1, <1>3 DEF TypeInv, StoreInv
  <1>5. Goto(p, s) \/ Goto(p, u)
    BY DEF Verification
  <1> QED BY <1>1, <1>4, <1>5, GoesTo DEF TypeInv

LEMMA VerifyTypes ==
    ASSUME TypeInv, NEW p \in Processes, Verify(p)
    PROVE  TypeInv'
  <1>1. \A s \in {"verified", "reject"} : Fits(s, my[p], count) /\ s \in PCs
    BY InstallFits DEF InstallSteps, Verify
  <1> QED BY <1>1, VerificationTypes DEF Verify

LEMMA RejectTypes ==
    ASSUME TypeInv, NEW p \in Processes, Reject(p) \/ Revert(p)
    PROVE  TypeInv'
  <1>1. pc[p] \in InstallSteps \ {"stage"} /\ {"revert", "failed"} \subseteq InstallSteps
    BY DEF Reject, Revert, InstallSteps
  <1>2. \A s \in {"revert", "failed"} : Fits(s, my[p], count) /\ s \in PCs
    BY <1>1, InstallFits
  <1>3. Current \in Places /\ Mine(p, "failed") \in Places /\ Mine(p, "previous") \in Places
    BY <1>1, MyPlaces, PlacesAre DEF Kinds
  <1>4. CASE Reject(p)
    BY <1>2, <1>3, <1>4, ReplaceTypes DEF Reject
  <1>5. CASE Revert(p) /\ my[p].saved /\ Occupied(Mine(p, "previous"))
    <2>1. Replace(p, Mine(p, "previous"), Current, "failed")
      BY <1>5 DEF Revert
    <2> QED BY <1>2, <1>3, <2>1, ReplaceTypes
  <1>6. CASE Revert(p) /\ ~(my[p].saved /\ Occupied(Mine(p, "previous")))
    <2>1. Goto(p, "failed") /\ UNCHANGED <<at, journal, known, lock, verified, count, my>>
      BY <1>6 DEF Revert
    <2>2. StoreInv' /\ ProcessInv /\ count \in Nat
      BY <2>1 DEF TypeInv, StoreInv
    <2> QED BY <1>2, <2>1, <2>2, GoesTo DEF TypeInv
  <1> QED BY <1>4, <1>5, <1>6

LEMMA FinishTypes ==
    ASSUME TypeInv, NEW p \in Processes, Finish(p)
    PROVE  TypeInv'
  <1>1. /\ count \in Nat /\ ProcessInv /\ pc[p] \in {"rolled_back", "complete"}
        /\ UNCHANGED <<at, known, lock, verified, count>> /\ Journal(my[p].txn, pc[p]) /\ Leave(p)
    BY DEF TypeInv, StoreInv, Finish
  <1>2. my[p].txn \in Transactions
    BY <1>1, OwnIsTransaction DEF InstallSteps
  <1>3. pc[p] \in Phases
    BY <1>1 DEF Phases, Finished
  <1>4. journal' \in [Transactions -> [phase : Phases, previous : BOOLEAN]]
    BY <1>1, <1>2, <1>3, JournalTypes
  <1>5. StoreInv'
    BY <1>1, <1>4 DEF TypeInv, StoreInv
  <1> QED BY <1>1, <1>5, Leaves DEF TypeInv

LEMMA ChooseTypes ==
    ASSUME TypeInv, NEW p \in Processes, ChoosePrevious(p)
    PROVE  TypeInv'
  <1> DEFINE r == [my[p] EXCEPT !.place = known, !.txn = count + 1]
  <1>1. /\ count \in 0..MaxTransactions /\ ProcessInv /\ pc[p] = "choose" /\ my[p] \in Local
        /\ UNCHANGED <<at, journal, known, lock, verified>> /\ Fits("choose", my[p], count)
        /\ known \in Places \cup {None}
    BY DEF TypeInv, StoreInv, ProcessInv, ChoosePrevious
  <1>2. CASE Leave(p) /\ UNCHANGED count
    <2>1. StoreInv'
      BY <1>1, <1>2 DEF TypeInv, StoreInv
    <2> QED BY <1>1, <1>2, <2>1, Leaves DEF TypeInv
  <1>3. CASE /\ known # None /\ count < MaxTransactions /\ count' = count + 1
             /\ Goto(p, "displace") /\ Set(p, r)
    <2>1. count + 1 \in Nat /\ count + 1 >= 1
      BY <1>1
    <2>2. /\ r \in Local /\ r.txn = count + 1 /\ r.upto = my[p].upto /\ r.turn = my[p].turn
          /\ r.command = my[p].command /\ r.place = known
      BY <1>1, <2>1 DEF Local
    <2>3. my[p].upto \in Nat /\ my[p].upto <= count /\ my[p].turn <= my[p].upto + 1
      BY <1>1 DEF Local, Fits
    <2>4. my[p].command = "rollback"
      BY <1>1 DEF Fits, RollbackSteps
    <2>5. Fits("displace", r, count + 1) /\ "displace" \in PCs
      BY <1>1, <1>3, <2>1, <2>2, <2>3, <2>4
      DEF Fits, LockSteps, InstallSteps, RollbackSteps, RecoverySteps, PCs, Steps
    <2> HIDE DEF r
    <2>6. ProcessInv' /\ count' \in 0..MaxTransactions
      BY <1>3, <2>2, <2>5, Counts
    <2>7. StoreInv'
      BY <1>1, <2>6 DEF TypeInv, StoreInv
    <2> QED BY <2>6, <2>7 DEF TypeInv
  <1> QED BY <1>2, <1>3 DEF ChoosePrevious

LEMMA SwitchTypes ==
    ASSUME TypeInv, NEW p \in Processes,
           Displace(p) \/ Reinstate(p) \/ Retract(p) \/ PutForward(p)
    PROVE  TypeInv'
  <1>1. pc[p] \in RollbackSteps \ {"choose"}
        /\ {"reinstate", "check_old", "put_forward"} \subseteq RollbackSteps
    BY DEF Displace, Reinstate, Retract, PutForward, RollbackSteps
  <1>2. \A s \in {"reinstate", "check_old", "put_forward", "release"} :
          Fits(s, my[p], count) /\ s \in PCs
    BY <1>1, RollbackFits
  <1>3. Fits(pc[p], my[p], count) /\ my[p] \in Local
    BY DEF TypeInv, ProcessInv
  <1>4. my[p].place \in Places
    BY <1>1, <1>3 DEF Fits, Local
  <1>5. Current \in Places /\ Mine(p, "forward") \in Places
    BY <1>1, MyPlaces, PlacesAre DEF Kinds
  <1>6. CASE Displace(p)
    BY <1>2, <1>5, <1>6, ReplaceTypes DEF Displace
  <1>7. CASE Retract(p)
    BY <1>2, <1>4, <1>5, <1>7, ReplaceTypes DEF Retract
  <1>8. CASE PutForward(p)
    BY <1>2, <1>5, <1>8, ReplaceTypes DEF PutForward
  <1>9. CASE Reinstate(p)
    <2>1. \/ Replace(p, Mine(p, "forward"), Current, "release")
          \/ /\ Move(my[p].place, Current) /\ Goto(p, "check_old")
             /\ UNCHANGED <<journal, known, lock, verified, count, my>>
      BY <1>9 DEF Reinstate
    <2>2. CASE Replace(p, Mine(p, "forward"), Current, "release")
      BY <1>2, <1>5, <2>2, ReplaceTypes
    <2>3. CASE /\ Move(my[p].place, Current) /\ Goto(p, "check_old")
               /\ UNCHANGED <<journal, known, lock, verified, count, my>>
      <3>1. at \in [Places -> Builds \cup {None}] /\ ProcessInv /\ count \in Nat
        BY DEF TypeInv, StoreInv
      <3>2. at' \in [Places -> Builds \cup {None}]
        BY <1>4, <2>3, <3>1 DEF Move
      <3>3. StoreInv'
        BY <2>3, <3>2 DEF TypeInv, StoreInv
      <3> QED BY <1>2, <2>3, <3>1, <3>3, GoesTo DEF TypeInv
    <2> QED BY <2>1, <2>2, <2>3
  <1> QED BY <1>6, <1>7, <1>8, <1>9

LEMMA VerifyPreviousTypes ==
    ASSUME TypeInv, NEW p \in Processes, VerifyPrevious(p)
    PROVE  TypeInv'
  <1>1. \A s \in {"switched", "retract"} : Fits(s, my[p], count) /\ s \in PCs
    BY RollbackFits DEF RollbackSteps, VerifyPrevious
  <1> QED BY <1>1, VerificationTypes DEF VerifyPrevious

LEMMA ReportRollbackTypes ==
    ASSUME TypeInv, NEW p \in Processes, ReportRollback(p)
    PROVE  TypeInv'
  <1>1. /\ count \in Nat /\ ProcessInv /\ pc[p] = "switched" /\ known' = Mine(p, "forward")
        /\ UNCHANGED <<at, journal, lock, verified, count>> /\ Leave(p)
    BY DEF TypeInv, StoreInv, ReportRollback
  <1>2. Mine(p, "forward") \in Places
    BY <1>1, MyPlaces DEF Kinds, RollbackSteps
  <1>3. StoreInv'
    BY <1>1, <1>2 DEF TypeInv, StoreInv
  <1> QED BY <1>1, <1>3, Leaves DEF TypeInv

LEMMA InitTypes == Init => TypeInv
  <1> SUFFICES ASSUME Init PROVE TypeInv
    OBVIOUS
  <1>1. /\ First \in Builds /\ Current \in Places
        /\ [phase |-> "none", previous |-> FALSE] \in [phase : Phases, previous : BOOLEAN]
    BY PlacesAre DEF Builds, Phases
  <1>2. StoreInv
    BY <1>1 DEF Init, StoreInv
  <1>3. /\ pc \in [Processes -> PCs] /\ my \in [Processes -> Local]
        /\ \A p \in Processes : pc[p] = "idle" /\ my[p] = Fresh
    BY FreshIsLocal DEF Init, PCs
  <1>4. Fits("idle", Fresh, 0) /\ count = 0
    BY DEF Init, Fits, Fresh, LockSteps, InstallSteps, RollbackSteps, RecoverySteps
  <1>5. ProcessInv
    BY <1>3, <1>4 DEF ProcessInv
  <1> QED BY <1>2, <1>5 DEF TypeInv

LEMMA StepTypes ==
    ASSUME TypeInv, [Next]_vars
    PROVE  TypeInv'
  <1>1. CASE UNCHANGED vars
    BY <1>1 DEF vars, TypeInv, StoreInv, ProcessInv, Fits
  <1>2. ASSUME NEW p \in Processes, Step(p)
        PROVE  TypeInv'
    <2>1. CASE LockStep(p)
      BY <2>1, CreateLockTypes, SignLockTypes, OtherLockTypes DEF LockStep
    <2>2. CASE RecoveryStep(p)
      BY <2>2, ReadJournalTypes, JudgeTypes, PutTypes, WriteRecoveredTypes, ReportRecoveryTypes
      DEF RecoveryStep
    <2>3. CASE WriteNote(p)
      BY <2>3, WriteNoteTypes
    <2>4. CASE InstallStep(p)
      BY <2>4, StageTypes, PrepareTypes, SavePreviousTypes, WritePhaseTypes, ActivateTypes,
         AnnounceTypes, VerifyTypes, RejectTypes, FinishTypes
      DEF InstallStep
    <2>5. CASE RollbackStep(p)
      BY <2>5, ChooseTypes, SwitchTypes, VerifyPreviousTypes, ReportRollbackTypes DEF RollbackStep
    <2> QED BY <1>2, <2>1, <2>2, <2>3, <2>4, <2>5 DEF Step
  <1>3. ASSUME NEW p \in Processes, Kill(p)
        PROVE  TypeInv'
    BY <1>3, KillTypes
  <1>4. ASSUME NEW p \in Processes, NEW c \in Commands, Begin(p, c)
        PROVE  TypeInv'
    BY <1>4, BeginTypes
  <1> QED BY <1>1, <1>2, <1>3, <1>4 DEF Next

\* Every variable keeps its type: what a process reads of a journal it does not own, and
\* recovers (update_system.py), is always a journal that is not finished.
THEOREM TypesHold == Spec => []TypeInv
  <1>1. TypeInv /\ [Next]_vars => TypeInv'
    BY StepTypes
  <1> QED BY InitTypes, <1>1, PTL DEF Spec

THEOREM TypeCorrect == Spec => []TypeOK
  <1>1. TypeInv => TypeOK
    <2> SUFFICES ASSUME TypeInv PROVE TypeOK
      OBVIOUS
    <2>1. pc \in [Processes -> Steps \cup {"idle", "dead"}]
      BY DEF TypeInv, ProcessInv, PCs
    <2>2. ASSUME NEW p \in Processes
          PROVE  /\ my[p].command \in Commands \cup {None}
                 /\ my[p].turn \in 0..(my[p].upto + 1) /\ my[p].upto \in 0..count
                 /\ my[p].phase \in Phases \ Finished
                 /\ my[p].txn \in 0..count /\ my[p].place \in Places \cup {None}
                 /\ my[p].tries \in 0..2
      <3>1. /\ my[p] \in Local /\ my[p].upto <= count /\ my[p].turn <= my[p].upto + 1
            /\ my[p].txn <= count /\ count \in Nat
        BY DEF TypeInv, ProcessInv, StoreInv, Fits
      <3>2. my[p].upto \in Nat /\ my[p].turn \in Nat /\ my[p].txn \in Nat
        BY <3>1 DEF Local
      <3>3. /\ my[p].turn \in 0..(my[p].upto + 1) /\ my[p].upto \in 0..count
            /\ my[p].txn \in 0..count
        BY <3>1, <3>2
      <3> QED BY <3>1, <3>3 DEF Local
    <2> QED BY <2>1, <2>2 DEF TypeInv, StoreInv, TypeOK
  <1> QED BY <1>1, TypesHold, PTL
-----------------------------------------------------------------------------
(* The update lock *)

\* Where a process holds the lock: from its creation to its release, also during the
\* recovery that an installation begins with.
HoldsAt(s, c) ==
    \/ s \in {"sign", "release"} \cup InstallSteps \cup RollbackSteps
    \/ s \in RecoverySteps /\ c = "install"

Holding(p) == HoldsAt(pc[p], my[p].command)

\* No process is killed with the lock in its hands.
KillsSpareHolders ==
    Interruptible \cap ({"sign", "release"} \cup InstallSteps \cup RollbackSteps \cup RecoverySteps) = {}

\* Of three processes one can die with the lock and the two others can take it over from
\* each other, since what is unlinked is whatever lock is there by then (update_system.py:
\* 165): run with the constants of UpdateSystem_takeover.cfg.
Uncontended ==
    \/ \A p, q, r \in Processes : p = q \/ q = r \/ p = r
    \/ KillsSpareHolders

HolderInv ==
    \A p \in Processes : Holding(p) => lock # None /\ lock.holder = p /\ (lock.signed <=> pc[p] # "sign")

LeftInv ==
    lock # None => Holding(lock.holder) \/ (pc[lock.holder] = "dead" /\ ~KillsSpareHolders)

UnlinkInv ==
    \A p \in Processes : pc[p] = "unlink" => lock # None /\ pc[lock.holder] = "dead"

LockInv == HolderInv /\ LeftInv /\ UnlinkInv

\* Process p does something that is not about the lock.
Steady(p) ==
    /\ UNCHANGED lock
    /\ \A q \in Processes : q # p => pc'[q] = pc[q] /\ my'[q] = my[q]
    /\ HoldsAt(pc'[p], my'[p].command) <=> HoldsAt(pc[p], my[p].command)
    /\ pc[p] \notin {"sign", "dead"} /\ pc'[p] \notin {"sign", "dead", "unlink"}

LEMMA SteadyKeeps ==
    ASSUME TypeInv, LockInv, NEW p \in Processes, Steady(p)
    PROVE  LockInv'
  <1>1. \A q \in Processes : Holding(q)' <=> Holding(q)
    BY DEF Steady, Holding
  <1>2. UNCHANGED lock /\ (lock # None => lock.holder \in Processes)
    BY DEF Steady, TypeInv, StoreInv
  <1>3. \A q \in Processes : pc'[q] = pc[q] \/ (q = p /\ pc[q] \notin {"sign", "dead"}
                                                  /\ pc'[q] \notin {"sign", "dead", "unlink"})
    BY DEF Steady
  <1>4. HolderInv'
    BY <1>1, <1>2, <1>3 DEF LockInv, HolderInv
  <1>5. LeftInv'
    BY <1>1, <1>2, <1>3 DEF LockInv, LeftInv, KillsSpareHolders
  <1>6. UnlinkInv'
    BY <1>2, <1>3 DEF LockInv, UnlinkInv
  <1> QED BY <1>4, <1>5, <1>6 DEF LockInv

LEMMA GoesSteadily ==
    ASSUME TypeInv, NEW p \in Processes, NEW s, NEW r, Goto(p, s), Set(p, r), UNCHANGED lock,
           HoldsAt(s, r.command) <=> HoldsAt(pc[p], my[p].command),
           pc[p] \notin {"sign", "dead"}, s \notin {"sign", "dead", "unlink"}
    PROVE  Steady(p)
  <1>1. pc \in [Processes -> PCs] /\ my \in [Processes -> Local]
    BY DEF TypeInv, ProcessInv
  <1>2. pc'[p] = s /\ my'[p] = r
        /\ \A q \in Processes : q # p => pc'[q] = pc[q] /\ my'[q] = my[q]
    BY <1>1 DEF Goto, Set
  <1> QED BY <1>2 DEF Steady

LEMMA GoesSteadilyTo ==
    ASSUME TypeInv, NEW p \in Processes, NEW s, Goto(p, s), UNCHANGED <<my, lock>>,
           HoldsAt(s, my[p].command) <=> HoldsAt(pc[p], my[p].command),
           pc[p] \notin {"sign", "dead"}, s \notin {"sign", "dead", "unlink"}
    PROVE  Steady(p)
  <1>1. Set(p, my[p])
    BY DEF TypeInv, ProcessInv, Set
  <1> QED BY <1>1, GoesSteadily

\* A command ends: one that holds the lock goes on to release it.
LEMMA LeavesSteadily ==
    ASSUME TypeInv, NEW p \in Processes, Leave(p), UNCHANGED lock,
           pc[p] \in RecoverySteps \cup InstallSteps \cup RollbackSteps
    PROVE  Steady(p)
  <1>1. Fits(pc[p], my[p], count) /\ pc[p] \notin {"sign", "dead"}
    BY DEF TypeInv, ProcessInv, RecoverySteps, InstallSteps, RollbackSteps
  <1>2. my[p].command \in Locking <=> HoldsAt(pc[p], my[p].command)
    BY <1>1 DEF Fits, HoldsAt, Locking, RecoverySteps, InstallSteps, RollbackSteps
  <1>3. CASE my[p].command \in Locking
    <2>1. HoldsAt("release", my[p].command) /\ Goto(p, "release") /\ UNCHANGED my
      BY <1>3 DEF HoldsAt, Leave
    <2> QED BY <1>1, <1>2, <1>3, <2>1, GoesSteadilyTo
  <1>4. CASE my[p].command \notin Locking
    <2>1. ~HoldsAt("idle", Fresh.command) /\ Goto(p, "idle") /\ Set(p, Fresh)
      BY <1>4 DEF HoldsAt, Leave, Return, InstallSteps, RollbackSteps, RecoverySteps
    <2> QED BY <1>1, <1>2, <1>4, <2>1, GoesSteadily
  <1> QED BY <1>3, <1>4

LEMMA ReplacesSteadily ==
    ASSUME TypeInv, NEW p \in Processes, NEW x, NEW y, NEW s, Replace(p, x, y, s),
           pc[p] \in RecoverySteps \cup InstallSteps \cup RollbackSteps,
           HoldsAt(s, my[p].command) <=> HoldsAt(pc[p], my[p].command),
           s \notin {"sign", "dead", "unlink"}
    PROVE  Steady(p)
  <1>1. UNCHANGED lock /\ pc[p] \notin {"sign", "dead"}
    BY DEF Replace, RecoverySteps, InstallSteps, RollbackSteps
  <1>2. \/ Goto(p, s) /\ UNCHANGED my
        \/ Leave(p)
    BY DEF Replace
  <1> QED BY <1>1, <1>2, GoesSteadilyTo, LeavesSteadily

LEMMA BeginsSteadily ==
    ASSUME TypeInv, NEW p \in Processes, NEW c \in Commands, Begin(p, c)
    PROVE  Steady(p)
  <1> DEFINE r == [Fresh EXCEPT !.command = c]
             x == [r EXCEPT !.turn = 1, !.upto = count]
  <1>1. /\ pc[p] = "idle" /\ UNCHANGED lock
        /\ \/ c \in Locking /\ Goto(p, "lock") /\ Set(p, r)
           \/ c \notin Locking /\ Goto(p, "recover") /\ Set(p, x)
    BY DEF Begin, Recover
  <1>2. r.command = c /\ x.command = c
    BY DEF Fresh
  <1> HIDE DEF r, x
  <1>3. ~HoldsAt(pc[p], my[p].command)
    BY <1>1 DEF HoldsAt, RecoverySteps, InstallSteps, RollbackSteps
  <1>4. ~HoldsAt("lock", c) /\ (c \notin Locking => ~HoldsAt("recover", c))
    BY DEF HoldsAt, Locking, RecoverySteps, InstallSteps, RollbackSteps
  <1> QED BY <1>1, <1>2, <1>3, <1>4, GoesSteadily

LEMMA ReadsSteadily ==
    ASSUME TypeInv, NEW p \in Processes, ReadJournal(p)
    PROVE  Steady(p)
  <1>1. pc[p] = "recover" /\ UNCHANGED lock /\ my[p] \in Local /\ Fits("recover", my[p], count)
    BY DEF ReadJournal, TypeInv, ProcessInv
  <1>2. my[p].command \in {"install", "status", "check", "recheck", "channel"}
    BY <1>1 DEF Fits, RecoverySteps
  <1>3. HoldsAt(pc[p], my[p].command) <=> my[p].command = "install"
    BY <1>1 DEF HoldsAt, RecoverySteps, InstallSteps, RollbackSteps
  <1>4. \A c \in {"status", "check", "recheck", "channel"} :
          \A s \in {"note", "recover", "judge", "idle"} : ~HoldsAt(s, c)
    BY DEF HoldsAt, RecoverySteps, InstallSteps, RollbackSteps
  <1>5. \A s \in {"stage", "recover", "judge"} : HoldsAt(s, "install")
    BY DEF HoldsAt, RecoverySteps, InstallSteps
  <1>6. CASE /\ \E s \in {"recover", "judge"} : Goto(p, s)
             /\ \E r : Set(p, r) /\ r.command = my[p].command
    <2>1. PICK s \in {"recover", "judge"} : Goto(p, s)
      BY <1>6
    <2>2. PICK r : Set(p, r) /\ r.command = my[p].command
      BY <1>6
    <2> QED BY <1>1, <1>2, <1>3, <1>4, <1>5, <2>1, <2>2, GoesSteadily
  <1>7. CASE AfterRecovery(p)
    <2>1. CASE my[p].command = "install"
      <3>1. Goto(p, "stage") /\ UNCHANGED my
        BY <1>7, <2>1 DEF AfterRecovery
      <3> QED BY <1>1, <1>3, <1>5, <2>1, <3>1, GoesSteadilyTo
    <2>2. CASE my[p].command = "status"
      <3>1. Leave(p)
        BY <1>7, <2>2 DEF AfterRecovery, Leave, Locking
      <3> QED BY <1>1, <3>1, LeavesSteadily DEF RecoverySteps
    <2>3. CASE my[p].command = "check"
      <3>1. PICK r : Goto(p, "recover") /\ Set(p, r) /\ r.command = "recheck"
        <4>1. Recover(p, [my[p] EXCEPT !.command = "recheck", !.place = known])
          BY <1>7, <2>3 DEF AfterRecovery
        <4>2. [[my[p] EXCEPT !.command = "recheck", !.place = known]
                 EXCEPT !.turn = 1, !.upto = count].command = "recheck"
          BY <1>1 DEF Local
        <4> QED BY <4>1, <4>2 DEF Recover
      <3> QED BY <1>1, <1>3, <1>4, <2>3, <3>1, GoesSteadily
    <2>4. CASE my[p].command = "recheck"
      <3>1. Goto(p, "note") /\ UNCHANGED my
        BY <1>7, <2>4 DEF AfterRecovery
      <3> QED BY <1>1, <1>3, <1>4, <2>4, <3>1, GoesSteadilyTo
    <2>5. CASE my[p].command = "channel"
      <3>1. PICK r : Goto(p, "note") /\ Set(p, r) /\ r.command = "channel"
        <4>1. Goto(p, "note") /\ Set(p, [my[p] EXCEPT !.place = known])
          BY <1>7, <2>5 DEF AfterRecovery
        <4>2. [my[p] EXCEPT !.place = known].command = "channel"
          BY <1>1, <2>5 DEF Local
        <4> QED BY <4>1, <4>2
      <3> QED BY <1>1, <1>3, <1>4, <2>5, <3>1, GoesSteadily
    <2> QED BY <1>2, <2>1, <2>2, <2>3, <2>4, <2>5
  <1>8. \/ AfterRecovery(p)
        \/ Goto(p, "judge") /\ Set(p, [my[p] EXCEPT !.phase = journal[my[p].turn].phase,
                                                    !.previous = journal[my[p].turn].previous])
        \/ Goto(p, "recover") /\ Set(p, [my[p] EXCEPT !.turn = my[p].turn + 1])
    BY DEF ReadJournal
  <1>9. /\ [my[p] EXCEPT !.phase = journal[my[p].turn].phase,
                         !.previous = journal[my[p].turn].previous].command = my[p].command
        /\ [my[p] EXCEPT !.turn = my[p].turn + 1].command = my[p].command
    BY <1>1 DEF Local
  <1> QED BY <1>6, <1>7, <1>8, <1>9

LEMMA RecoversSteadily ==
    ASSUME TypeInv, NEW p \in Processes, RecoveryStep(p) \/ WriteNote(p)
    PROVE  Steady(p)
  <1>1. my[p] \in Local
    BY DEF TypeInv, ProcessInv
  <1>2. \A s, u \in RecoverySteps : HoldsAt(s, my[p].command) <=> HoldsAt(u, my[p].command)
    BY DEF HoldsAt, RecoverySteps, InstallSteps, RollbackSteps
  <1>3. \A s \in RecoverySteps : s \notin {"sign", "dead", "unlink"}
    BY DEF RecoverySteps
  <1>4. CASE ReadJournal(p)
    BY <1>4, ReadsSteadily
  <1>5. CASE JudgeCurrent(p) \/ RestorePrevious(p) \/ WriteRecovered(p)
    <2>1. /\ pc[p] \in RecoverySteps /\ UNCHANGED lock
          /\ Leave(p) \/ (UNCHANGED my /\ \E s \in RecoverySteps : Goto(p, s))
      BY <1>5 DEF JudgeCurrent, RestorePrevious, WriteRecovered, RecoverySteps
    <2> QED BY <1>2, <1>3, <2>1, LeavesSteadily, GoesSteadilyTo
  <1>6. CASE PutAside(p) \/ PutBack(p)
    <2>1. /\ pc[p] \in RecoverySteps /\ {"restore", "recovered"} \subseteq RecoverySteps
          /\ \/ Replace(p, Current, Place("interrupted", my[p].turn), "restore")
             \/ Replace(p, Place("previous", my[p].turn), Current, "recovered")
      BY <1>6 DEF PutAside, PutBack, RecoverySteps
    <2> QED BY <1>2, <1>3, <2>1, ReplacesSteadily
  <1>7. CASE ReportRecovery(p)
    <2>1. /\ pc[p] \in RecoverySteps /\ "recover" \in RecoverySteps /\ UNCHANGED lock
          /\ Goto(p, "recover") /\ Set(p, [my[p] EXCEPT !.turn = @ + 1])
      BY <1>7 DEF ReportRecovery, RecoverySteps
    <2>2. [my[p] EXCEPT !.turn = @ + 1].command = my[p].command
      BY <1>1 DEF Local
    <2> QED BY <1>2, <1>3, <2>1, <2>2, GoesSteadily
  <1>8. CASE WriteNote(p)
    <2>1. pc[p] = "note" /\ UNCHANGED lock /\ Goto(p, "idle") /\ Set(p, Fresh)
      BY <1>8 DEF WriteNote, Return
    <2>2. ~HoldsAt("idle", Fresh.command) /\ ~HoldsAt("note", my[p].command)
      BY DEF HoldsAt, InstallSteps, RollbackSteps, RecoverySteps
    <2> QED BY <2>1, <2>2, GoesSteadily
  <1> QED BY <1>4, <1>5, <1>6, <1>7, <1>8 DEF RecoveryStep

LEMMA SwitchesSteadily ==
    ASSUME TypeInv, NEW p \in Processes, InstallStep(p) \/ RollbackStep(p)
    PROVE  Steady(p)
  <1> DEFINE Inner == InstallSteps \cup RollbackSteps \cup {"release"}
  <1>1. my[p] \in Local
    BY DEF TypeInv, ProcessInv
  <1>2. \A s \in Inner : HoldsAt(s, my[p].command) /\ s \notin {"sign", "dead", "unlink"}
    BY DEF HoldsAt, InstallSteps, RollbackSteps
  <1>3. \A s \in Inner, c \in Commands \cup {None} : HoldsAt(s, c)
    BY DEF HoldsAt
  <1>4. pc[p] \in InstallSteps \cup RollbackSteps
    BY DEF InstallStep, RollbackStep, Stage, Prepare, SavePrevious, WritePhase, Activate, Announce,
           Verify, Reject, Revert, ReportFailure, Finish, ChoosePrevious, Displace, Reinstate,
           PutForward, VerifyPrevious, Retract, ReportRollback, InstallSteps, RollbackSteps
  <1>5. pc[p] \in Inner /\ pc[p] \notin {"sign", "dead"}
    BY <1>4, <1>2
  <1>6. CASE \E s \in Inner : Goto(p, s) /\ UNCHANGED <<my, lock>>
    BY <1>2, <1>5, <1>6, GoesSteadilyTo
  <1>7. CASE Leave(p) /\ UNCHANGED lock
    BY <1>4, <1>7, LeavesSteadily
  <1>8. CASE \E s \in Inner : \E x, y : Replace(p, x, y, s)
    BY <1>2, <1>4, <1>5, <1>8, ReplacesSteadily
  <1>9. CASE \E s \in Inner : \E r : Goto(p, s) /\ Set(p, r) /\ UNCHANGED lock
                                     /\ r.command \in Commands \cup {None}
    BY <1>2, <1>3, <1>5, <1>9, GoesSteadily
  <1>10. CASE Stage(p)
    <2>1. [my[p] EXCEPT !.txn = count + 1].command \in Commands \cup {None}
      BY <1>1 DEF Local
    <2>2. /\ "prepare" \in Inner /\ UNCHANGED lock
          /\ Leave(p) \/ (Goto(p, "prepare") /\ Set(p, [my[p] EXCEPT !.txn = count + 1]))
      BY <1>10 DEF Stage, InstallSteps
    <2> QED BY <1>7, <1>9, <2>1, <2>2
  <1>11. CASE SavePrevious(p)
    <2>1. [my[p] EXCEPT !.saved = TRUE].command \in Commands \cup {None}
      BY <1>1 DEF Local
    <2>2. /\ "saved" \in Inner /\ "activate" \in Inner /\ UNCHANGED lock
          /\ \/ Goto(p, "activate") /\ UNCHANGED my
             \/ Goto(p, "saved") /\ Set(p, [my[p] EXCEPT !.saved = TRUE])
      BY <1>11 DEF SavePrevious, InstallSteps
    <2> QED BY <1>6, <1>9, <2>1, <2>2
  <1>12. CASE WritePhase(p)
    <2>1. pc[p] \in {"saved", "activated", "verifying"} /\ Goto(p, AfterPhase(pc[p])[2])
          /\ UNCHANGED <<my, lock>>
      BY <1>12 DEF WritePhase
    <2>2. /\ AfterPhase("saved") = <<"previous_saved", "activate">>
          /\ AfterPhase("activated") = <<"activated", "announce">>
          /\ AfterPhase("verifying") = <<"verifying", "verify">>
      BY DEF AfterPhase
    <2>3. {"activate", "announce", "verify"} \subseteq Inner
      BY DEF InstallSteps
    <2>4. AfterPhase(pc[p])[2] \in Inner
      BY <2>1, <2>2, <2>3
    <2> QED BY <1>6, <2>1, <2>4
  <1>13. CASE Prepare(p) \/ Announce(p) \/ Verify(p) \/ ReportFailure(p)
    <2>1. {"save", "verifying", "complete", "verified", "reject", "rolled_back"} \subseteq Inner
      BY DEF InstallSteps
    <2>2. /\ \E s \in {"save", "verifying", "complete", "verified", "reject", "rolled_back"} : Goto(p, s)
          /\ UNCHANGED <<my, lock>>
      BY <1>13 DEF Prepare, Announce, Verify, Verification, ReportFailure
    <2> QED BY <1>6, <2>1, <2>2
  <1>14. CASE Activate(p) \/ Finish(p)
    <2>1. /\ "activated" \in Inner /\ UNCHANGED lock
          /\ Leave(p) \/ (Goto(p, "activated") /\ UNCHANGED my)
      BY <1>14 DEF Activate, Finish, InstallSteps
    <2> QED BY <1>6, <1>7, <2>1
  <1>15. CASE Reject(p) \/ Revert(p)
    <2>1. /\ {"revert", "failed"} \subseteq Inner
          /\ \/ \E s \in {"revert", "failed"} : \E x, y : Replace(p, x, y, s)
             \/ Goto(p, "failed") /\ UNCHANGED <<my, lock>>
      BY <1>15 DEF Reject, Revert, InstallSteps
    <2> QED BY <1>6, <1>8, <2>1
  <1>16. CASE ChoosePrevious(p)
    <2>1. [my[p] EXCEPT !.place = known, !.txn = count + 1].command \in Commands \cup {None}
      BY <1>1 DEF Local
    <2>2. /\ "displace" \in Inner /\ UNCHANGED lock
          /\ \/ Leave(p)
             \/ Goto(p, "displace") /\ Set(p, [my[p] EXCEPT !.place = known, !.txn = count + 1])
      BY <1>16 DEF ChoosePrevious, RollbackSteps
    <2> QED BY <1>7, <1>9, <2>1, <2>2
  <1>17. CASE Displace(p) \/ Reinstate(p) \/ PutForward(p) \/ Retract(p)
    <2>1. /\ {"reinstate", "check_old", "put_forward", "release"} \subseteq Inner
          /\ \/ \E s \in {"reinstate", "put_forward", "release"} : \E x, y : Replace(p, x, y, s)
             \/ Goto(p, "check_old") /\ UNCHANGED <<my, lock>>
      BY <1>17 DEF Displace, Reinstate, PutForward, Retract, RollbackSteps
    <2> QED BY <1>6, <1>8, <2>1
  <1>18. CASE VerifyPrevious(p)
    <2>1. /\ {"switched", "retract"} \subseteq Inner
          /\ \E s \in {"switched", "retract"} : Goto(p, s) /\ UNCHANGED <<my, lock>>
      BY <1>18 DEF VerifyPrevious, Verification, RollbackSteps
    <2> QED BY <1>6, <2>1
  <1>19. CASE ReportRollback(p)
    BY <1>7, <1>19 DEF ReportRollback
  <1> QED BY <1>10, <1>11, <1>12, <1>13, <1>14, <1>15, <1>16, <1>17, <1>18, <1>19
      DEF InstallStep, RollbackStep

\* One process moves, from s to u, and the command it has stays or is forgotten.
LEMMA OneMoves ==
    ASSUME TypeInv, NEW p \in Processes, NEW u, Goto(p, u),
           UNCHANGED my \/ \E r : Set(p, r)
    PROVE  /\ pc'[p] = u
           /\ \A q \in Processes : q # p => pc'[q] = pc[q] /\ my'[q] = my[q]
  BY DEF TypeInv, ProcessInv, Goto, Set

LEMMA CreateLockKeeps ==
    ASSUME TypeInv, LockInv, NEW p \in Processes, CreateLock(p)
    PROVE  LockInv'
  <1>1. pc[p] = "lock" /\ pc[p] \notin {"sign", "dead"} /\ ~HoldsAt(pc[p], my[p].command)
    BY DEF CreateLock, HoldsAt, InstallSteps, RollbackSteps, RecoverySteps
  <1>2. CASE Return(p) /\ UNCHANGED lock
    <2>1. Goto(p, "idle") /\ Set(p, Fresh) /\ ~HoldsAt("idle", Fresh.command)
      BY <1>2 DEF Return, HoldsAt, InstallSteps, RollbackSteps, RecoverySteps
    <2> QED BY <1>1, <1>2, <2>1, GoesSteadily, SteadyKeeps
  <1>3. CASE Goto(p, "inspect") /\ UNCHANGED <<my, lock>>
    <2>1. ~HoldsAt("inspect", my[p].command)
      BY DEF HoldsAt, InstallSteps, RollbackSteps, RecoverySteps
    <2> QED BY <1>1, <1>3, <2>1, GoesSteadilyTo, SteadyKeeps
  <1>4. CASE /\ lock = None /\ lock' = [holder |-> p, signed |-> FALSE]
             /\ Goto(p, "sign") /\ UNCHANGED my
    <2>1. pc'[p] = "sign" /\ \A q \in Processes : q # p => pc'[q] = pc[q] /\ my'[q] = my[q]
      BY <1>4, OneMoves
    <2>2. lock' # None /\ lock'.holder = p /\ lock'.signed = FALSE
      <3>1. [holder |-> p, signed |-> FALSE] \in [holder : Processes, signed : BOOLEAN]
        OBVIOUS
      <3> QED BY <1>4, <3>1
    <2>3. \A q \in Processes : ~Holding(q) /\ pc[q] # "unlink"
      BY <1>4 DEF LockInv, HolderInv, UnlinkInv
    <2>4. \A q \in Processes : q # p => ~Holding(q)' /\ pc'[q] # "unlink"
      BY <2>1, <2>3 DEF Holding
    <2>5. Holding(p)'
      BY <2>1 DEF Holding, HoldsAt
    <2>6. HolderInv'
      BY <2>1, <2>2, <2>4 DEF HolderInv
    <2>7. LeftInv'
      BY <2>2, <2>5 DEF LeftInv
    <2>8. UnlinkInv'
      BY <2>1, <2>4 DEF UnlinkInv
    <2> QED BY <2>6, <2>7, <2>8 DEF LockInv
  <1> QED BY <1>2, <1>3, <1>4 DEF CreateLock

LEMMA SignLockKeeps ==
    ASSUME TypeInv, LockInv, NEW p \in Processes, SignLock(p)
    PROVE  LockInv'
  <1>1. /\ pc[p] = "sign" /\ Holding(p) /\ my[p] \in Local /\ Fits("sign", my[p], count)
        /\ lock \in [holder : Processes, signed : BOOLEAN] \cup {None}
    BY DEF SignLock, Holding, HoldsAt, TypeInv, ProcessInv, StoreInv
  <1>2. lock # None /\ lock.holder = p
    BY <1>1 DEF LockInv, HolderInv
  <1>3. lock' # None /\ lock'.holder = p /\ lock'.signed = TRUE
    <2>1. lock \in [holder : Processes, signed : BOOLEAN]
      BY <1>1, <1>2
    <2>2. lock' = [lock EXCEPT !.signed = TRUE]
      BY <1>2 DEF SignLock
    <2>3. [lock EXCEPT !.signed = TRUE] \in [holder : Processes, signed : BOOLEAN]
      BY <2>1
    <2> QED BY <1>2, <2>1, <2>2, <2>3
  <1>4. PICK u \in {"recover", "choose"} :
          Goto(p, u) /\ (UNCHANGED my \/ \E r : Set(p, r)) /\ HoldsAt(u, my'[p].command)
    <2>1. CASE my[p].command = "install"
      <3>1. Recover(p, my[p])
        BY <2>1 DEF SignLock
      <3>2. Goto(p, "recover") /\ Set(p, [my[p] EXCEPT !.turn = 1, !.upto = count])
        BY <3>1 DEF Recover
      <3>3. [my[p] EXCEPT !.turn = 1, !.upto = count].command = "install"
        BY <1>1, <2>1 DEF Local
      <3>4. my'[p].command = "install"
        BY <3>2, <3>3 DEF Set, TypeInv, ProcessInv
      <3>5. HoldsAt("recover", my'[p].command)
        BY <3>4 DEF HoldsAt, RecoverySteps
      <3> QED BY <3>2, <3>5
    <2>2. CASE my[p].command # "install"
      <3>1. Goto(p, "choose") /\ UNCHANGED my
        BY <2>2 DEF SignLock
      <3>2. HoldsAt("choose", my'[p].command)
        BY DEF HoldsAt, RollbackSteps
      <3> QED BY <3>1, <3>2
    <2> QED BY <2>1, <2>2
  <1>5. pc'[p] = u /\ \A q \in Processes : q # p => pc'[q] = pc[q] /\ my'[q] = my[q]
    BY <1>4, OneMoves
  <1>6. \A q \in Processes : q # p => ~Holding(q) /\ pc[q] # "unlink"
    BY <1>1, <1>2 DEF LockInv, HolderInv, UnlinkInv
  <1>7. \A q \in Processes : q # p => ~Holding(q)' /\ pc'[q] # "unlink"
    BY <1>5, <1>6 DEF Holding
  <1>8. Holding(p)' /\ pc'[p] \notin {"sign", "unlink"}
    BY <1>4, <1>5 DEF Holding
  <1>9. HolderInv'
    BY <1>3, <1>7, <1>8 DEF HolderInv
  <1>10. LeftInv'
    BY <1>3, <1>8 DEF LeftInv
  <1>11. UnlinkInv'
    BY <1>7, <1>8 DEF UnlinkInv
  <1> QED BY <1>9, <1>10, <1>11 DEF LockInv

LEMMA InspectLockKeeps ==
    ASSUME TypeInv, LockInv, NEW p \in Processes, InspectLock(p)
    PROVE  LockInv'
  <1>1. pc[p] = "inspect" /\ UNCHANGED lock /\ ~HoldsAt(pc[p], my[p].command)
    BY DEF InspectLock, HoldsAt, InstallSteps, RollbackSteps, RecoverySteps
  <1>2. CASE Return(p)
    <2>1. Goto(p, "idle") /\ Set(p, Fresh) /\ ~HoldsAt("idle", Fresh.command)
      BY <1>2 DEF Return, HoldsAt, InstallSteps, RollbackSteps, RecoverySteps
    <2> QED BY <1>1, <2>1, GoesSteadily, SteadyKeeps
  <1>3. CASE Stale /\ Goto(p, "unlink") /\ UNCHANGED my
    <2>1. pc'[p] = "unlink" /\ \A q \in Processes : q # p => pc'[q] = pc[q] /\ my'[q] = my[q]
      BY <1>3, OneMoves
    <2>2. /\ lock # None /\ lock.holder \in Processes /\ pc[lock.holder] = "dead"
          /\ lock.holder # p
      BY <1>1, <1>3 DEF Stale, TypeInv, StoreInv
    <2>3. \A q \in Processes : Holding(q)' <=> (q # p /\ Holding(q))
      BY <1>1, <2>1 DEF Holding, HoldsAt, InstallSteps, RollbackSteps, RecoverySteps
    <2>4. pc'[lock.holder] = "dead"
      BY <2>1, <2>2
    <2>5. HolderInv'
      BY <1>1, <2>1, <2>3 DEF LockInv, HolderInv
    <2>6. LeftInv'
      BY <1>1, <2>2, <2>3, <2>4 DEF LockInv, LeftInv, KillsSpareHolders
    <2>7. UnlinkInv'
      BY <1>1, <2>2, <2>4 DEF UnlinkInv
    <2> QED BY <2>5, <2>6, <2>7 DEF LockInv
  <1> QED BY <1>2, <1>3 DEF InspectLock

\* Whoever unlinks a lock is the only one to do so and nobody holds it.
LEMMA AloneAtUnlink ==
    ASSUME Uncontended, TypeInv, LockInv, NEW p \in Processes, pc[p] = "unlink"
    PROVE  \A q \in Processes : ~Holding(q) /\ (q # p => pc[q] # "unlink")
  <1>1. lock # None /\ pc[lock.holder] = "dead" /\ lock.holder \in Processes
    BY DEF LockInv, UnlinkInv, TypeInv, StoreInv
  <1>2. ~Holding(lock.holder)
    BY <1>1 DEF Holding, HoldsAt, InstallSteps, RollbackSteps, RecoverySteps
  <1>3. \A q \in Processes : ~Holding(q)
    BY <1>1, <1>2 DEF LockInv, HolderInv
  <1>4. ~KillsSpareHolders
    BY <1>1, <1>2 DEF LockInv, LeftInv
  <1>5. \A q \in Processes : q # p => pc[q] # "unlink"
    BY <1>1, <1>4 DEF Uncontended
  <1> QED BY <1>3, <1>5

LEMMA UnlinkLockKeeps ==
    ASSUME Uncontended, TypeInv, LockInv, NEW p \in Processes, UnlinkLock(p)
    PROVE  LockInv'
  <1>1. /\ pc[p] = "unlink" /\ lock' = None
        /\ Goto(p, "lock") /\ Set(p, [my[p] EXCEPT !.tries = @ + 1])
    BY DEF UnlinkLock
  <1>2. pc'[p] = "lock" /\ \A q \in Processes : q # p => pc'[q] = pc[q] /\ my'[q] = my[q]
    BY <1>1, OneMoves
  <1>3. \A q \in Processes : ~Holding(q) /\ (q # p => pc[q] # "unlink")
    BY <1>1, AloneAtUnlink
  <1>4. \A q \in Processes : ~Holding(q)' /\ pc'[q] # "unlink"
    BY <1>2, <1>3 DEF Holding, HoldsAt, InstallSteps, RollbackSteps, RecoverySteps
  <1> QED BY <1>1, <1>4 DEF LockInv, HolderInv, LeftInv, UnlinkInv

LEMMA ReleaseLockKeeps ==
    ASSUME TypeInv, LockInv, NEW p \in Processes, ReleaseLock(p)
    PROVE  LockInv'
  <1>1. /\ pc[p] = "release" /\ Holding(p) /\ Goto(p, "idle") /\ Set(p, Fresh)
        /\ lock \in [holder : Processes, signed : BOOLEAN] \cup {None}
    BY DEF ReleaseLock, Return, Holding, HoldsAt, TypeInv, StoreInv
  <1>2. lock # None /\ lock.holder = p /\ lock.signed
    BY <1>1 DEF LockInv, HolderInv
  <1>3. lock' = None
    <2>1. lock \in [holder : Processes, signed : BOOLEAN]
      BY <1>1, <1>2
    <2>2. lock.signed = TRUE
      BY <1>2, <2>1
    <2>3. lock = [holder |-> p, signed |-> TRUE]
      BY <1>2, <2>1, <2>2
    <2> QED BY <2>3 DEF ReleaseLock
  <1>4. pc'[p] = "idle" /\ \A q \in Processes : q # p => pc'[q] = pc[q] /\ my'[q] = my[q]
    BY <1>1, OneMoves
  <1>5. \A q \in Processes : q # p => ~Holding(q) /\ pc[q] # "unlink"
    BY <1>1, <1>2 DEF LockInv, HolderInv, UnlinkInv
  <1>6. \A q \in Processes : ~Holding(q)' /\ pc'[q] # "unlink"
    BY <1>4, <1>5 DEF Holding, HoldsAt, InstallSteps, RollbackSteps, RecoverySteps
  <1> QED BY <1>3, <1>6 DEF LockInv, HolderInv, LeftInv, UnlinkInv

LEMMA KillKeeps ==
    ASSUME TypeInv, LockInv, NEW p \in Processes, Kill(p)
    PROVE  LockInv'
  <1>1. pc[p] \in Interruptible /\ Goto(p, "dead") /\ UNCHANGED <<my, lock>>
    BY DEF Kill
  <1>2. pc'[p] = "dead" /\ \A q \in Processes : q # p => pc'[q] = pc[q] /\ my'[q] = my[q]
    BY <1>1, OneMoves
  <1>3. \A q \in Processes : Holding(q)' <=> (q # p /\ Holding(q))
    BY <1>2 DEF Holding, HoldsAt, InstallSteps, RollbackSteps, RecoverySteps
  <1>4. KillsSpareHolders => ~Holding(p)
    BY <1>1 DEF KillsSpareHolders, Holding, HoldsAt
  <1>5. lock # None => lock.holder \in Processes
    BY DEF TypeInv, StoreInv
  <1>6. HolderInv'
    BY <1>1, <1>2, <1>3 DEF LockInv, HolderInv
  <1>7. LeftInv'
    BY <1>1, <1>2, <1>3, <1>4, <1>5 DEF LockInv, LeftInv, KillsSpareHolders
  <1>8. UnlinkInv'
    BY <1>1, <1>2, <1>5 DEF LockInv, UnlinkInv
  <1> QED BY <1>6, <1>7, <1>8 DEF LockInv

LEMMA InitLock == Init => LockInv
  BY DEF Init, LockInv, HolderInv, LeftInv, UnlinkInv, Holding, HoldsAt,
         InstallSteps, RollbackSteps, RecoverySteps

LEMMA StepLock ==
    ASSUME Uncontended, TypeInv, LockInv, [Next]_vars
    PROVE  LockInv'
  <1>1. CASE UNCHANGED vars
    BY <1>1 DEF vars, LockInv, HolderInv, LeftInv, UnlinkInv, Holding, KillsSpareHolders
  <1>2. ASSUME NEW p \in Processes, Step(p)
        PROVE  LockInv'
    <2>1. CASE LockStep(p)
      BY <2>1, CreateLockKeeps, SignLockKeeps, InspectLockKeeps, UnlinkLockKeeps, ReleaseLockKeeps
      DEF LockStep
    <2>2. CASE RecoveryStep(p) \/ WriteNote(p)
      BY <2>2, RecoversSteadily, SteadyKeeps
    <2>3. CASE InstallStep(p) \/ RollbackStep(p)
      BY <2>3, SwitchesSteadily, SteadyKeeps
    <2> QED BY <1>2, <2>1, <2>2, <2>3 DEF Step
  <1>3. ASSUME NEW p \in Processes, Kill(p)
        PROVE  LockInv'
    BY <1>3, KillKeeps
  <1>4. ASSUME NEW p \in Processes, NEW c \in Commands, Begin(p, c)
        PROVE  LockInv'
    BY <1>4, BeginsSteadily, SteadyKeeps
  <1> QED BY <1>1, <1>2, <1>3, <1>4 DEF Next

LEMMA LockHolds ==
    ASSUME Uncontended
    PROVE  Spec => [](TypeInv /\ LockInv)
  <1>1. Init => TypeInv /\ LockInv
    BY InitTypes, InitLock
  <1>2. TypeInv /\ LockInv /\ [Next]_vars => (TypeInv /\ LockInv)'
    BY StepTypes, StepLock
  <1> QED BY <1>1, <1>2, PTL DEF Spec

\* At most one living process installs or rolls back (the update lock, update_system.py:
\* 141), unless a third can take over, at the same time, the lock of one that was killed.
THEOREM LockExcludes ==
    ASSUME Uncontended
    PROVE  Spec => []OneInstaller
  <1>1. TypeInv /\ LockInv => OneInstaller
    BY DEF LockInv, HolderInv, Holding, HoldsAt, OneInstaller, InTransaction
  <1> QED BY <1>1, LockHolds, PTL
-----------------------------------------------------------------------------
(* What processes remember: transactions of their own, and previous installations *)

\* A previous installation is one that an update saved or a rollback displaced.
Kept == {None} \cup ({"previous", "forward"} \X Transactions)

UniqueInv ==
    \A p, q \in Processes : my[p].txn = my[q].txn /\ my[p].txn # 0 => p = q

PlaceInv == known \in Kept /\ \A p \in Processes : my[p].place \in Kept

KnowInv ==
    \A p \in Processes :
      /\ pc[p] = "dead" => p \in Mortal
      /\ my[p].command = "rollback" => p \in Operators

MemoryInv == UniqueInv /\ PlaceInv /\ KnowInv

Others(p) ==
    \A q \in Processes : q # p => pc'[q] = pc[q] /\ my'[q] = my[q]

\* What one step of process p does to what is remembered.
Remembers(p) ==
    /\ Others(p)
    /\ \/ my'[p].txn \in {0, my[p].txn}
       \/ count' = count + 1 /\ my'[p].txn = count'
    /\ my'[p].place \in {None, my[p].place, known}
    /\ known' \in Kept \cup {known, my[p].place}
    /\ my'[p].command = "rollback" => my[p].command = "rollback" \/ p \in Operators
    /\ pc'[p] = "dead" => p \in Mortal

LEMMA MemoryKeeps ==
    ASSUME TypeInv, MemoryInv, NEW p \in Processes, Remembers(p)
    PROVE  MemoryInv'
  <1>1. \A q \in Processes : my[q].txn \in Nat /\ my[q].txn <= count /\ count \in Nat
    BY DEF TypeInv, ProcessInv, StoreInv, Local, Fits
  <1>a. \A m, n \in Nat : m <= n => m # n + 1
    OBVIOUS
  <1>2. \A q \in Processes : my[q].txn # count + 1
    BY <1>1, <1>a
  <1>3. UniqueInv'
    <2> SUFFICES ASSUME NEW q \in Processes, NEW r \in Processes,
                        my'[q].txn = my'[r].txn, my'[q].txn # 0
                 PROVE  q = r
      BY DEF UniqueInv
    <2>1. CASE my'[p].txn \in {0, my[p].txn}
      BY <2>1 DEF Remembers, Others, MemoryInv, UniqueInv
    <2>2. CASE my'[p].txn = count + 1
      BY <1>2, <2>2 DEF Remembers, Others, MemoryInv, UniqueInv
    <2> QED BY <2>1, <2>2 DEF Remembers
  <1>4. PlaceInv'
    <2>1. None \in Kept
      BY DEF Kept
    <2>2. known' \in Kept /\ my'[p].place \in Kept
      BY <2>1 DEF Remembers, MemoryInv, PlaceInv
    <2>3. \A q \in Processes : my'[q].place \in Kept
      BY <2>2 DEF Remembers, Others, MemoryInv, PlaceInv
    <2> QED BY <2>2, <2>3 DEF PlaceInv, Kept
  <1>5. KnowInv'
    BY DEF Remembers, Others, MemoryInv, KnowInv
  <1> QED BY <1>3, <1>4, <1>5 DEF MemoryInv

\* A process goes on with local variables r, or with the ones it has, or leaves.
LEMMA RemembersWith ==
    ASSUME TypeInv, NEW p \in Processes, NEW s, NEW r, Goto(p, s), Set(p, r),
           r.txn \in {0, my[p].txn} \/ (count' = count + 1 /\ r.txn = count'),
           r.place \in {None, my[p].place, known},
           r.command = "rollback" => my[p].command = "rollback" \/ p \in Operators,
           s # "dead", known' \in Kept \cup {known, my[p].place}
    PROVE  Remembers(p)
  <1>1. pc'[p] = s /\ my'[p] = r /\ Others(p)
    BY DEF TypeInv, ProcessInv, Goto, Set, Others
  <1> QED BY <1>1 DEF Remembers

LEMMA RemembersSame ==
    ASSUME TypeInv, NEW p \in Processes, NEW s, Goto(p, s), UNCHANGED my,
           s = "dead" => p \in Mortal, known' \in Kept \cup {known, my[p].place}
    PROVE  Remembers(p)
  <1>1. pc'[p] = s /\ my'[p] = my[p] /\ Others(p)
    BY DEF TypeInv, ProcessInv, Goto, Others
  <1> QED BY <1>1 DEF Remembers

LEMMA FreshIs ==
    /\ Fresh.command = None /\ Fresh.txn = 0 /\ Fresh.place = None
    /\ None # "rollback"
  BY DEF Fresh, Commands

LEMMA RemembersNothing ==
    ASSUME TypeInv, NEW p \in Processes, Return(p), known' \in Kept \cup {known, my[p].place}
    PROVE  Remembers(p)
  <1>1. Goto(p, "idle") /\ Set(p, Fresh)
    BY DEF Return
  <1> QED BY <1>1, FreshIs, RemembersWith

LEMMA RemembersOnLeaving ==
    ASSUME TypeInv, NEW p \in Processes, Leave(p), known' \in Kept \cup {known, my[p].place}
    PROVE  Remembers(p)
  <1>1. Return(p) \/ (Goto(p, "release") /\ UNCHANGED my)
    BY DEF Leave
  <1> QED BY <1>1, RemembersNothing, RemembersSame

LEMMA LockRemembers ==
    ASSUME TypeInv, NEW p \in Processes, LockStep(p)
    PROVE  Remembers(p)
  <1>1. UNCHANGED known /\ my[p] \in Local
    BY DEF LockStep, CreateLock, SignLock, InspectLock, UnlinkLock, ReleaseLock, TypeInv, ProcessInv
  <1>2. \/ Return(p)
        \/ UNCHANGED my /\ \E s \in {"sign", "inspect", "unlink", "choose"} : Goto(p, s)
        \/ Goto(p, "recover") /\ Set(p, [my[p] EXCEPT !.turn = 1, !.upto = count])
        \/ Goto(p, "lock") /\ Set(p, [my[p] EXCEPT !.tries = @ + 1])
    BY DEF LockStep, CreateLock, SignLock, InspectLock, UnlinkLock, ReleaseLock, Recover
  <1>3. \A r \in {[my[p] EXCEPT !.turn = 1, !.upto = count], [my[p] EXCEPT !.tries = @ + 1]} :
          r.txn = my[p].txn /\ r.place = my[p].place /\ r.command = my[p].command
    BY <1>1 DEF Local
  <1>4. CASE Return(p)
    BY <1>1, <1>4, RemembersNothing
  <1>5. CASE UNCHANGED my /\ \E s \in {"sign", "inspect", "unlink", "choose"} : Goto(p, s)
    BY <1>1, <1>5, RemembersSame
  <1>6. CASE Goto(p, "recover") /\ Set(p, [my[p] EXCEPT !.turn = 1, !.upto = count])
    BY <1>1, <1>3, <1>6, RemembersWith
  <1>7. CASE Goto(p, "lock") /\ Set(p, [my[p] EXCEPT !.tries = @ + 1])
    BY <1>1, <1>3, <1>7, RemembersWith
  <1> QED BY <1>2, <1>4, <1>5, <1>6, <1>7

LEMMA BeginRemembers ==
    ASSUME TypeInv, NEW p \in Processes, NEW c \in Commands, Begin(p, c)
    PROVE  Remembers(p)
  <1> DEFINE r == [Fresh EXCEPT !.command = c]
             x == [r EXCEPT !.turn = 1, !.upto = count]
  <1>1. /\ UNCHANGED known /\ (c = "rollback" => p \in Operators)
        /\ \/ Goto(p, "lock") /\ Set(p, r)
           \/ Goto(p, "recover") /\ Set(p, x)
    BY DEF Begin, Recover
  <1>2. /\ r.command = c /\ r.txn = 0 /\ r.place = None
        /\ x.command = c /\ x.txn = 0 /\ x.place = None
    BY DEF Fresh
  <1> HIDE DEF r, x
  <1> QED BY <1>1, <1>2, RemembersWith

LEMMA RecoveryRemembers ==
    ASSUME TypeInv, NEW p \in Processes, RecoveryStep(p) \/ WriteNote(p)
    PROVE  Remembers(p)
  <1> DEFINE t == my[p].turn
  <1>1. my[p] \in Local /\ None \in Kept
    BY DEF TypeInv, ProcessInv, Kept
  <1>2. CASE ReadJournal(p)
    <2> DEFINE Read == [my[p] EXCEPT !.phase = journal[t].phase, !.previous = journal[t].previous]
               Passed == [my[p] EXCEPT !.turn = t + 1]
               Again == [[my[p] EXCEPT !.command = "recheck", !.place = known]
                           EXCEPT !.turn = 1, !.upto = count]
               Noted == [my[p] EXCEPT !.place = known]
    <2>1. UNCHANGED known /\ Fits("recover", my[p], count)
      BY <1>2 DEF ReadJournal, TypeInv, ProcessInv
    <2>2. /\ Read.txn = my[p].txn /\ Read.place = my[p].place /\ Read.command = my[p].command
          /\ Passed.txn = my[p].txn /\ Passed.place = my[p].place /\ Passed.command = my[p].command
          /\ Again.txn = my[p].txn /\ Again.place = known /\ Again.command = "recheck"
          /\ Noted.txn = my[p].txn /\ Noted.place = known /\ Noted.command = my[p].command
      BY <1>1 DEF Local
    <2>3. \/ AfterRecovery(p)
          \/ Goto(p, "judge") /\ Set(p, Read)
          \/ Goto(p, "recover") /\ Set(p, Passed)
      BY <1>2 DEF ReadJournal
    <2>4. AfterRecovery(p) =>
            \/ Goto(p, "stage") /\ UNCHANGED my
            \/ Return(p)
            \/ Goto(p, "recover") /\ Set(p, Again)
            \/ Goto(p, "note") /\ UNCHANGED my
            \/ Goto(p, "note") /\ Set(p, Noted)
      <3>1. my[p].command \in {"install", "status", "check", "recheck", "channel"}
        BY <2>1 DEF Fits, RecoverySteps
      <3> QED BY <3>1 DEF AfterRecovery, Recover
    <2> HIDE DEF Read, Passed, Again, Noted
    <2>5. CASE \E s \in {"stage", "note"} : Goto(p, s) /\ UNCHANGED my
      BY <2>1, <2>5, RemembersSame
    <2>6. CASE Return(p)
      BY <2>1, <2>6, RemembersNothing
    <2>7. CASE Goto(p, "judge") /\ Set(p, Read)
      BY <2>1, <2>2, <2>7, RemembersWith
    <2>8. CASE Goto(p, "recover") /\ Set(p, Passed)
      BY <2>1, <2>2, <2>8, RemembersWith
    <2>9. CASE Goto(p, "recover") /\ Set(p, Again)
      BY <2>1, <2>2, <2>9, RemembersWith
    <2>10. CASE Goto(p, "note") /\ Set(p, Noted)
      BY <2>1, <2>2, <2>10, RemembersWith
    <2> QED BY <2>3, <2>4, <2>5, <2>6, <2>7, <2>8, <2>9, <2>10
  <1>3. CASE JudgeCurrent(p) \/ RestorePrevious(p) \/ WriteRecovered(p) \/ PutAside(p) \/ PutBack(p)
    <2>1. /\ UNCHANGED known
          /\ \/ Leave(p)
             \/ UNCHANGED my /\ \E s \in RecoverySteps : Goto(p, s)
      BY <1>3 DEF JudgeCurrent, RestorePrevious, WriteRecovered, PutAside, PutBack, Replace, RecoverySteps
    <2>2. "dead" \notin RecoverySteps
      BY DEF RecoverySteps
    <2> QED BY <2>1, <2>2, RemembersOnLeaving, RemembersSame
  <1>4. CASE ReportRecovery(p)
    <2>1. known' = None /\ Goto(p, "recover") /\ Set(p, [my[p] EXCEPT !.turn = @ + 1])
      BY <1>4 DEF ReportRecovery
    <2>2. /\ [my[p] EXCEPT !.turn = @ + 1].txn = my[p].txn
          /\ [my[p] EXCEPT !.turn = @ + 1].place = my[p].place
          /\ [my[p] EXCEPT !.turn = @ + 1].command = my[p].command
      BY <1>1 DEF Local
    <2> QED BY <1>1, <2>1, <2>2, RemembersWith
  <1>5. CASE WriteNote(p)
    <2>1. known' = my[p].place /\ Return(p)
      BY <1>5 DEF WriteNote
    <2> QED BY <2>1, RemembersNothing
  <1> QED BY <1>2, <1>3, <1>4, <1>5 DEF RecoveryStep

LEMMA SwitchRemembers ==
    ASSUME TypeInv, NEW p \in Processes, InstallStep(p) \/ RollbackStep(p)
    PROVE  Remembers(p)
  <1> DEFINE Inner == InstallSteps \cup RollbackSteps \cup {"release"}
  <1>1. my[p] \in Local /\ None \in Kept /\ \A s \in Inner : s # "dead"
    BY DEF TypeInv, ProcessInv, Kept, InstallSteps, RollbackSteps
  <1>2. CASE Leave(p) /\ UNCHANGED known
    BY <1>2, RemembersOnLeaving
  <1>3. CASE \E s \in Inner : Goto(p, s) /\ UNCHANGED <<my, known>>
    BY <1>1, <1>3, RemembersSame
  <1>4. CASE Stage(p)
    <2>1. /\ [my[p] EXCEPT !.txn = count + 1].txn = count + 1
          /\ [my[p] EXCEPT !.txn = count + 1].place = my[p].place
          /\ [my[p] EXCEPT !.txn = count + 1].command = my[p].command
      BY <1>1 DEF Local
    <2>2. /\ UNCHANGED known
          /\ \/ Leave(p)
             \/ /\ count' = count + 1 /\ Goto(p, "prepare")
                /\ Set(p, [my[p] EXCEPT !.txn = count + 1])
      BY <1>4 DEF Stage
    <2> QED BY <1>2, <2>1, <2>2, RemembersWith
  <1>5. CASE SavePrevious(p)
    <2>1. /\ [my[p] EXCEPT !.saved = TRUE].txn = my[p].txn
          /\ [my[p] EXCEPT !.saved = TRUE].place = my[p].place
          /\ [my[p] EXCEPT !.saved = TRUE].command = my[p].command
      BY <1>1 DEF Local
    <2>2. /\ "activate" \in Inner /\ UNCHANGED known
          /\ \/ Goto(p, "activate") /\ UNCHANGED my
             \/ Goto(p, "saved") /\ Set(p, [my[p] EXCEPT !.saved = TRUE])
      BY <1>5 DEF SavePrevious, InstallSteps
    <2> QED BY <1>3, <2>1, <2>2, RemembersWith
  <1>6. CASE WritePhase(p)
    <2>1. pc[p] \in {"saved", "activated", "verifying"} /\ Goto(p, AfterPhase(pc[p])[2])
          /\ UNCHANGED <<my, known>>
      BY <1>6 DEF WritePhase
    <2>2. /\ AfterPhase("saved") = <<"previous_saved", "activate">>
          /\ AfterPhase("activated") = <<"activated", "announce">>
          /\ AfterPhase("verifying") = <<"verifying", "verify">>
      BY DEF AfterPhase
    <2>3. {"activate", "announce", "verify"} \subseteq Inner
      BY DEF InstallSteps
    <2>4. AfterPhase(pc[p])[2] \in Inner
      BY <2>1, <2>2, <2>3
    <2> QED BY <1>3, <2>1, <2>4
  <1>7. CASE Prepare(p) \/ Verify(p)
    <2>1. {"save", "verified", "reject"} \subseteq Inner
      BY DEF InstallSteps
    <2>2. (\E s \in {"save", "verified", "reject"} : Goto(p, s)) /\ UNCHANGED <<my, known>>
      BY <1>7 DEF Prepare, Verify, Verification
    <2> QED BY <1>3, <2>1, <2>2
  <1>8. CASE Announce(p) \/ ReportFailure(p) \/ ReportRollback(p)
    <2>1. pc[p] \in (InstallSteps \ {"stage"}) \cup (RollbackSteps \ {"choose"})
      BY <1>8 DEF Announce, ReportFailure, ReportRollback, InstallSteps, RollbackSteps
    <2>2. my[p].txn \in Transactions
      BY <2>1, OwnIsTransaction
    <2>3. Mine(p, "previous") \in Kept /\ Mine(p, "forward") \in Kept
      BY <2>2 DEF Mine, Place, Kept
    <2>4. known' \in {None, Mine(p, "previous"), Mine(p, "forward")}
      BY <1>8 DEF Announce, ReportFailure, ReportRollback, Saved
    <2>5. known' \in Kept
      BY <1>1, <2>3, <2>4
    <2>6. \/ Leave(p)
          \/ UNCHANGED my /\ \E s \in {"verifying", "complete", "rolled_back"} : Goto(p, s)
      BY <1>8 DEF Announce, ReportFailure, ReportRollback
    <2> QED BY <2>5, <2>6, RemembersOnLeaving, RemembersSame
  <1>9. CASE Activate(p) \/ Finish(p)
    <2>1. /\ "activated" \in Inner /\ UNCHANGED known
          /\ Leave(p) \/ (Goto(p, "activated") /\ UNCHANGED my)
      BY <1>9 DEF Activate, Finish, InstallSteps
    <2> QED BY <1>2, <1>3, <2>1
  <1>10. CASE Reject(p) \/ Revert(p)
    <2>1. /\ {"revert", "failed"} \subseteq Inner /\ UNCHANGED known
          /\ Leave(p) \/ (UNCHANGED my /\ \E s \in {"revert", "failed"} : Goto(p, s))
      BY <1>10 DEF Reject, Revert, Replace, InstallSteps
    <2> QED BY <1>2, <1>3, <2>1
  <1>11. CASE ChoosePrevious(p)
    <2>1. /\ [my[p] EXCEPT !.place = known, !.txn = count + 1].txn = count + 1
          /\ [my[p] EXCEPT !.place = known, !.txn = count + 1].place = known
          /\ [my[p] EXCEPT !.place = known, !.txn = count + 1].command = my[p].command
      BY <1>1 DEF Local
    <2>2. /\ UNCHANGED known
          /\ \/ Leave(p)
             \/ /\ count' = count + 1 /\ Goto(p, "displace")
                /\ Set(p, [my[p] EXCEPT !.place = known, !.txn = count + 1])
      BY <1>11 DEF ChoosePrevious
    <2> QED BY <1>2, <2>1, <2>2, RemembersWith
  <1>12. CASE Displace(p) \/ Reinstate(p) \/ PutForward(p) \/ Retract(p) \/ VerifyPrevious(p)
    <2>1. /\ {"reinstate", "check_old", "put_forward", "release", "switched", "retract"} \subseteq Inner
          /\ UNCHANGED known
          /\ \/ Leave(p)
             \/ /\ UNCHANGED my
                /\ \E s \in {"reinstate", "check_old", "put_forward", "release", "switched", "retract"} :
                     Goto(p, s)
      BY <1>12 DEF Displace, Reinstate, PutForward, Retract, VerifyPrevious, Verification, Replace,
                   RollbackSteps
    <2> QED BY <1>2, <1>3, <2>1
  <1> QED BY <1>4, <1>5, <1>6, <1>7, <1>8, <1>9, <1>10, <1>11, <1>12
      DEF InstallStep, RollbackStep

LEMMA InitMemory == Init => MemoryInv
  BY DEF Init, MemoryInv, UniqueInv, PlaceInv, KnowInv, Kept, Fresh, Commands

LEMMA StepMemory ==
    ASSUME TypeInv, MemoryInv, [Next]_vars
    PROVE  MemoryInv'
  <1>1. CASE UNCHANGED vars
    BY <1>1 DEF vars, MemoryInv, UniqueInv, PlaceInv, KnowInv
  <1>2. ASSUME NEW p \in Processes, Step(p)
        PROVE  MemoryInv'
    <2>1. Remembers(p)
      BY <1>2, LockRemembers, RecoveryRemembers, SwitchRemembers DEF Step
    <2> QED BY <2>1, MemoryKeeps
  <1>3. ASSUME NEW p \in Processes, Kill(p)
        PROVE  MemoryInv'
    <2>1. p \in Mortal /\ Goto(p, "dead") /\ UNCHANGED <<my, known>>
      BY <1>3 DEF Kill
    <2> QED BY <2>1, RemembersSame, MemoryKeeps
  <1>4. ASSUME NEW p \in Processes, NEW c \in Commands, Begin(p, c)
        PROVE  MemoryInv'
    BY <1>4, BeginRemembers, MemoryKeeps
  <1> QED BY <1>1, <1>2, <1>3, <1>4 DEF Next
-----------------------------------------------------------------------------
(* The installation that stays *)

\* Where recovery is at a journal, and where an installation has one.
RepairSteps == {"judge", "put_aside", "restore", "put_back", "recovered"}
Journaled == InstallSteps \ {"stage", "prepare"}
UndoSteps == {"failed", "rolled_back"}
BeforeReject == {"prepare", "save", "saved", "activate", "activated", "announce", "verifying",
                 "verify", "reject"}
SwitchedSteps == {"activated", "announce", "verifying", "verify", "reject", "verified", "complete"}

Busy(p) == pc[p] \in InstallSteps \cup RollbackSteps \cup RepairSteps

\* When what has begun can be undone.  No move fails that could work
\* (UpdateSystem_activation.cfg), and either kills spare whoever holds the lock, or
\*  - no third process recovers what a second one is recovering (UpdateSystem_readers.cfg),
\*  - nobody rolls back after a kill of another: a rollback recovers nothing first, and
\*  - no kill meets the end of a refused installation (UpdateSystem_undo.cfg), or a
\*    rollback, which has no journal.
Undoable ==
    /\ ActivationFails = FALSE
    /\ \/ KillsSpareHolders
       \/ /\ \A p, q, r \in Processes : p = q \/ q = r \/ p = r
          /\ \A p \in Mortal, q \in Operators : p = q
          /\ Interruptible \cap (UndoSteps \cup RollbackSteps) = {}

Prev(t) == Place("previous", t)
Ready == \A t \in Transactions : ~Unfinished(t)
Only(t) == \A u \in Transactions : Unfinished(u) => u = t

\* What an unfinished journal can be recovered from: nothing is moved yet, or the previous
\* installation is in its place, and what is in current, if anything, is known to be new.
Recoverable(t) ==
    /\ journal[t].previous
    /\ \/ Occupied(Current) /\ journal[t].phase = "prepared"
       \/ Occupied(Prev(t)) /\ (Occupied(Current) => journal[t].phase \in Switching)

AtRest ==
    \/ Ready /\ Occupied(Current)
    \/ \E t \in Transactions : Unfinished(t) /\ Only(t) /\ Recoverable(t)

\* Nobody is left to recover.
Stuck == ~Ready /\ \A p \in Processes : pc[p] = "dead"

QuietInv == (\A p \in Processes : ~Busy(p)) => AtRest \/ Stuck

\* An unfinished journal is that of an installation that goes on or was killed.
OwnerInv ==
    \A t \in Transactions : Unfinished(t) =>
      \E p \in Processes : /\ my[p].txn = t
                           /\ pc[p] \in Journaled \/ (pc[p] = "dead" /\ ~KillsSpareHolders)

\* The place for a refused build is free until it is refused.
FailedInv ==
    \A t \in Transactions : Occupied(Place("failed", t)) =>
      t <= count /\ \A p \in Processes : pc[p] \in BeforeReject => my[p].txn # t

\* The recovery that an installation begins with leaves no journal unfinished behind.
LoopAt(p) ==
    pc[p] \in RecoverySteps /\ my[p].command = "install" =>
      \A t \in Transactions : Unfinished(t) =>
        my[p].turn <= t /\ t <= my[p].upto /\ (pc[p] = "report" => t # my[p].turn)

InstallIs(s, t, saved) ==
    /\ s \in {"stage", "prepare"} => Ready /\ Occupied(Current)
    /\ s \in {"prepare", "save", "saved", "activate"} => Occupied(Place("staged", t))
    /\ s \in Journaled => Unfinished(t) /\ Only(t) /\ journal[t].previous
    /\ s = "save" => Occupied(Current) /\ journal[t].phase = "prepared"
    /\ s \in {"saved", "activate", "revert"} => ~Occupied(Current) /\ Occupied(Prev(t)) /\ saved
    /\ s \in SwitchedSteps => Occupied(Current) /\ Occupied(Prev(t)) /\ saved
    /\ s \in SwitchedSteps \cup {"activate", "revert"} => journal[t].phase \in Switching
    /\ s \in UndoSteps => Occupied(Current)

InstallAt(p) == InstallIs(pc[p], my[p].txn, my[p].saved)

RollbackIs(s, t, place) ==
    /\ s \in RollbackSteps => Ready
    /\ s \in {"choose", "displace", "check_old", "retract", "switched"} => Occupied(Current)
    /\ s \in {"reinstate", "put_forward"} => ~Occupied(Current) /\ Occupied(Place("forward", t))
    /\ s \in {"check_old", "retract"} => Occupied(Place("forward", t)) \/ place = Place("forward", t)

RollbackAt(p) == RollbackIs(pc[p], my[p].txn, my[p].place)

RepairIs(s, t, phase, previous) ==
    /\ s \in RepairSteps =>
         /\ Unfinished(t) /\ Only(t) /\ journal[t].previous /\ previous /\ phase = journal[t].phase
         /\ ~KillsSpareHolders /\ \E d \in Processes : pc[d] = "dead"
    /\ s \in {"judge", "put_aside"} => Recoverable(t)
    /\ s = "put_aside" => journal[t].phase \in Switching
    /\ s = "restore" =>
         IF Occupied(Current) THEN journal[t].phase = "prepared" ELSE Occupied(Prev(t))
    /\ s = "put_back" => ~Occupied(Current) /\ Occupied(Prev(t))
    /\ s = "recovered" => Occupied(Current)

RepairAt(p) == RepairIs(pc[p], my[p].turn, my[p].phase, my[p].previous)

SafeInv ==
    /\ QuietInv /\ OwnerInv /\ FailedInv
    /\ \A p \in Processes : LoopAt(p) /\ InstallAt(p) /\ RollbackAt(p) /\ RepairAt(p)

AllInv == TypeInv /\ LockInv /\ MemoryInv /\ SafeInv

\* Whoever changes the installation does so alone.
LEMMA Alone ==
    ASSUME Undoable, AllInv, NEW p \in Processes, Busy(p), NEW q \in Processes, q # p
    PROVE  ~Busy(q) /\ ~Holding(q)
  <1>1. ASSUME NEW r \in Processes, pc[r] \in RepairSteps
        PROVE  ~KillsSpareHolders /\ \E d \in Processes : pc[d] = "dead" /\ d # r
    <2>1. ~KillsSpareHolders /\ \E d \in Processes : pc[d] = "dead"
      BY <1>1 DEF AllInv, SafeInv, RepairAt, RepairIs
    <2>2. pc[r] # "dead"
      BY <1>1 DEF RepairSteps
    <2> QED BY <2>1, <2>2
  <1>2. \A r \in Processes : pc[r] = "dead" => ~Busy(r) /\ ~Holding(r)
    BY DEF Busy, Holding, HoldsAt, InstallSteps, RollbackSteps, RepairSteps, RecoverySteps
  <1>3. CASE pc[p] \in RepairSteps
    <2>1. pc[q] = "dead"
      BY <1>1, <1>3 DEF Undoable
    <2> QED BY <1>2, <2>1
  <1>4. CASE pc[p] \in InstallSteps \cup RollbackSteps
    <2>1. Holding(p)
      BY <1>4 DEF Holding, HoldsAt
    <2>2. ~Holding(q)
      BY <2>1 DEF AllInv, LockInv, HolderInv
    <2>3. pc[q] \notin InstallSteps \cup RollbackSteps
      BY <2>2 DEF Holding, HoldsAt
    <2>4. pc[q] \notin RepairSteps
      <3> SUFFICES ASSUME pc[q] \in RepairSteps PROVE FALSE
        OBVIOUS
      <3>1. PICK d \in Processes : pc[d] = "dead" /\ d # q
        BY <1>1
      <3>2. d # p
        BY <1>2, <3>1, <2>1
      <3> QED BY <1>1, <3>1, <3>2 DEF Undoable
    <2> QED BY <2>2, <2>3, <2>4 DEF Busy
  <1> QED BY <1>3, <1>4 DEF Busy

\* Nobody changes the installation while another process holds the lock.
LEMMA HolderIsUndisturbed ==
    ASSUME Undoable, AllInv, NEW p \in Processes, Holding(p), NEW q \in Processes, q # p
    PROVE  ~Busy(q)
  BY Alone

LEMMA UndoableIsUncontended ==
    ASSUME Undoable
    PROVE  Uncontended
  BY DEF Undoable, Uncontended

\* A step that does not touch the installation, of a process that has not been at it.
LEMMA AsideStep ==
    ASSUME AllInv, NEW p \in Processes, Others(p), UNCHANGED <<at, journal, count>>,
           pc[p] # "dead", ~Busy(p), pc'[p] \notin BeforeReject,
           QuietInv', LoopAt(p)', InstallAt(p)', RollbackAt(p)', RepairAt(p)'
    PROVE  SafeInv'
  <1>1. /\ \A t \in Transactions : (Unfinished(t)' <=> Unfinished(t))
        /\ \A x : Occupied(x)' <=> Occupied(x)
    BY DEF Unfinished, Occupied
  <1>2. OwnerInv'
    <2> SUFFICES ASSUME NEW t \in Transactions, Unfinished(t)'
                 PROVE  \E q \in Processes :
                          /\ my'[q].txn = t
                          /\ pc'[q] \in Journaled \/ (pc'[q] = "dead" /\ ~KillsSpareHolders)
      BY DEF OwnerInv, KillsSpareHolders
    <2>1. PICK q \in Processes :
            /\ my[q].txn = t
            /\ pc[q] \in Journaled \/ (pc[q] = "dead" /\ ~KillsSpareHolders)
      BY <1>1 DEF AllInv, SafeInv, OwnerInv
    <2>2. q # p
      BY <2>1 DEF Busy, Journaled
    <2> QED BY <2>1, <2>2 DEF Others
  <1>3. FailedInv'
    BY <1>1 DEF AllInv, SafeInv, FailedInv, Others
  <1>4. ASSUME NEW q \in Processes, q # p
        PROVE  (LoopAt(q) /\ InstallAt(q) /\ RollbackAt(q) /\ RepairAt(q))'
    <2>1. pc'[q] = pc[q] /\ my'[q] = my[q]
      BY <1>4 DEF Others
    <2>2. LoopAt(q) /\ InstallAt(q) /\ RollbackAt(q) /\ RepairAt(q)
      BY DEF AllInv, SafeInv
    <2>3. LoopAt(q)'
      BY <1>1, <2>1, <2>2 DEF LoopAt
    <2>4. InstallAt(q)'
      BY <2>1, <2>2 DEF InstallAt, InstallIs, Ready, Only, Unfinished, Occupied, Mine, Place, Prev, Current
    <2>5. RollbackAt(q)'
      BY <2>1, <2>2 DEF RollbackAt, RollbackIs, Ready, Unfinished, Occupied, Mine, Place, Current
    <2>6. RepairAt(q)'
      <3>1. (\E d \in Processes : pc[d] = "dead") => \E d \in Processes : pc'[d] = "dead"
        BY DEF Others
      <3> QED BY <2>1, <2>2, <3>1
          DEF RepairAt, RepairIs, Only, Unfinished, Recoverable, Occupied, Prev, Place, Current, KillsSpareHolders
    <2> QED BY <2>3, <2>4, <2>5, <2>6
  <1> QED BY <1>2, <1>3, <1>4 DEF SafeInv

\* ... and does not come to it either.
LEMMA IdleStep ==
    ASSUME AllInv, NEW p \in Processes, Others(p), UNCHANGED <<at, journal, count>>,
           pc[p] # "dead", ~Busy(p), ~Busy(p)', LoopAt(p)'
    PROVE  SafeInv'
  <1>1. pc'[p] \notin InstallSteps \cup RollbackSteps \cup RepairSteps
    BY DEF Busy
  <1>2. InstallAt(p)'
    BY <1>1 DEF InstallAt, InstallIs, InstallSteps, Journaled, SwitchedSteps, UndoSteps
  <1>3. RollbackAt(p)' /\ RepairAt(p)'
    BY <1>1 DEF RollbackAt, RollbackIs, RollbackSteps, RepairAt, RepairIs, RepairSteps
  <1>4. pc'[p] \notin BeforeReject
    BY <1>1 DEF BeforeReject, InstallSteps
  <1>5. AtRest' <=> AtRest
    BY DEF AtRest, Ready, Only, Recoverable, Unfinished, Occupied, Prev
  <1>6. QuietInv'
    <2>1. ~Stuck
      BY DEF Stuck
    <2>2. (\A q \in Processes : ~Busy(q)') => \A q \in Processes : ~Busy(q)
      BY DEF Others, Busy
    <2> QED BY <1>5, <2>1, <2>2 DEF AllInv, SafeInv, QuietInv
  <1> QED BY <1>2, <1>3, <1>4, <1>6, AsideStep

\* A step of a process that changes the installation: the others have no part in it.
LEMMA BusyStep ==
    ASSUME Undoable, AllInv, NEW p \in Processes, Busy(p), Others(p), OwnerInv', FailedInv',
           LoopAt(p)', InstallAt(p)', RollbackAt(p)', RepairAt(p)', Busy(p)' \/ AtRest' \/ Stuck'
    PROVE  SafeInv'
  <1>1. ASSUME NEW q \in Processes, q # p
        PROVE  (LoopAt(q) /\ InstallAt(q) /\ RollbackAt(q) /\ RepairAt(q))'
    <2>1. pc'[q] = pc[q] /\ my'[q] = my[q]
      BY <1>1 DEF Others
    <2>2. ~Busy(q) /\ ~Holding(q)
      BY <1>1, Alone
    <2>3. /\ pc'[q] \notin InstallSteps \cup RollbackSteps \cup RepairSteps
          /\ ~(pc'[q] \in RecoverySteps /\ my'[q].command = "install")
      BY <2>1, <2>2 DEF Busy, Holding, HoldsAt
    <2>4. LoopAt(q)'
      BY <2>3 DEF LoopAt
    <2>5. InstallAt(q)'
      BY <2>3 DEF InstallAt, InstallIs, InstallSteps, Journaled, SwitchedSteps, UndoSteps
    <2>6. RollbackAt(q)'
      BY <2>3 DEF RollbackAt, RollbackIs, RollbackSteps
    <2>7. RepairAt(q)'
      BY <2>3 DEF RepairAt, RepairIs, RepairSteps
    <2> QED BY <2>4, <2>5, <2>6, <2>7
  <1>2. QuietInv'
    BY DEF QuietInv
  <1> QED BY <1>1, <1>2 DEF SafeInv

(* What moves and journal entries do to the places and journals they do not name *)

LEMMA Moves ==
    ASSUME TypeInv, NEW x \in Places, NEW y \in Places, x # y, Occupied(x), Move(x, y)
    PROVE  /\ Occupied(y)' /\ ~Occupied(x)'
           /\ \A z \in Places : z # x /\ z # y => (Occupied(z)' <=> Occupied(z))
  <1>1. at \in [Places -> Builds \cup {None}]
    BY DEF TypeInv, StoreInv
  <1>2. at' = [at EXCEPT ![x] = None, ![y] = at[x]]
    BY DEF Move
  <1> QED BY <1>1, <1>2 DEF Occupied

LEMMA Apart ==
    \A k, l \in Kinds, t, u \in Transactions :
      /\ Place(k, t) # Current
      /\ k # l \/ t # u => Place(k, t) # Place(l, u)
  BY DEF Place, Current, Kinds

LEMMA JournalChanges ==
    ASSUME TypeInv, NEW t \in Transactions, NEW phase, Journal(t, phase)
    PROVE  /\ journal'[t].phase = phase /\ journal'[t].previous = journal[t].previous
           /\ \A u \in Transactions : u # t => journal'[u] = journal[u]
  <1>1. journal \in [Transactions -> [phase : Phases, previous : BOOLEAN]]
    BY DEF TypeInv, StoreInv
  <1> QED BY <1>1 DEF Journal

LEMMA FailedKeeps ==
    ASSUME AllInv, NEW p \in Processes, Others(p), count' \in Nat, count <= count',
           \A t \in Transactions : Occupied(Place("failed", t))' =>
             Occupied(Place("failed", t)) \/ (t = my[p].txn /\ pc'[p] \notin BeforeReject),
           pc'[p] \in BeforeReject =>
             (pc[p] \in BeforeReject /\ my'[p].txn = my[p].txn) \/ my'[p].txn = count + 1
    PROVE  FailedInv'
  <1> SUFFICES ASSUME NEW t \in Transactions, Occupied(Place("failed", t))'
               PROVE  t <= count' /\ \A q \in Processes : pc'[q] \in BeforeReject => my'[q].txn # t
    BY DEF FailedInv
  <1>1. /\ count \in Nat /\ t \in Nat /\ t >= 1
        /\ \A q \in Processes : my[q].txn \in Nat /\ my[q].txn <= count
    BY DEF AllInv, TypeInv, StoreInv, ProcessInv, Local, Fits, Transactions, UpdateAssumption
  <1>a. \A m, n, k \in Nat : m <= n /\ n <= k => m <= k /\ m # n + 1
    OBVIOUS
  <1>2. CASE Occupied(Place("failed", t))
    <2>1. t <= count /\ \A q \in Processes : pc[q] \in BeforeReject => my[q].txn # t
      BY <1>2 DEF AllInv, SafeInv, FailedInv
    <2>2. t <= count' /\ t # count + 1
      BY <1>1, <1>a, <2>1
    <2> QED BY <2>1, <2>2 DEF Others
  <1>3. CASE t = my[p].txn /\ pc'[p] \notin BeforeReject
    <2>1. t <= count'
      BY <1>1, <1>a, <1>3
    <2>2. \A q \in Processes : q # p => my[q].txn # t
      BY <1>1, <1>3 DEF AllInv, MemoryInv, UniqueInv
    <2> QED BY <1>3, <2>1, <2>2 DEF Others
  <1> QED BY <1>2, <1>3

\* ... which holds of any step that puts nothing in the place of a refused build and begins
\* no transaction.
LEMMA FailedStays ==
    ASSUME AllInv, NEW p \in Processes, Others(p), UNCHANGED count,
           \A t \in Transactions : Occupied(Place("failed", t))' => Occupied(Place("failed", t)),
           pc'[p] \in BeforeReject => pc[p] \in BeforeReject /\ my'[p].txn = my[p].txn
    PROVE  FailedInv'
  <1>1. count' \in Nat /\ count <= count'
    BY DEF AllInv, TypeInv, StoreInv
  <1> QED BY <1>1, FailedKeeps

LEMMA MoveSparesFailed ==
    ASSUME TypeInv, NEW x \in Places, NEW y \in Places, Move(x, y),
           y = Current \/ \E k \in Kinds \ {"failed"}, u \in Transactions : y = Place(k, u)
    PROVE  \A t \in Transactions : Occupied(Place("failed", t))' => Occupied(Place("failed", t))
  <1> SUFFICES ASSUME NEW t \in Transactions PROVE Occupied(Place("failed", t))' => Occupied(Place("failed", t))
    OBVIOUS
  <1>1. Place("failed", t) # y /\ Place("failed", t) \in Places
    BY Apart, PlacesAre DEF Kinds
  <1>2. at \in [Places -> Builds \cup {None}] /\ at' = [at EXCEPT ![x] = None, ![y] = at[x]]
    BY DEF TypeInv, StoreInv, Move
  <1> QED BY <1>1, <1>2 DEF Occupied

(* Where a step leads *)

LEMMA InstallGoesOn ==
    ASSUME Undoable, AllInv, NEW p \in Processes, pc[p] \in InstallSteps, Others(p),
           pc'[p] \in InstallSteps \ {"stage"}, InstallAt(p)', FailedInv'
    PROVE  SafeInv'
  <1>1. OwnerInv'
    <2>1. CASE pc'[p] = "prepare"
      <3>1. Ready'
        BY <2>1 DEF InstallAt, InstallIs
      <3> QED BY <3>1 DEF Ready, OwnerInv
    <2>2. CASE pc'[p] # "prepare"
      <3>1. pc'[p] \in Journaled
        BY <2>2 DEF Journaled
      <3>2. \A t \in Transactions : Unfinished(t)' => my'[p].txn = t
        BY <3>1 DEF InstallAt, InstallIs, Only
      <3> QED BY <3>1, <3>2 DEF OwnerInv
    <2> QED BY <2>1, <2>2
  <1>2. LoopAt(p)' /\ RollbackAt(p)' /\ RepairAt(p)'
    BY DEF LoopAt, RollbackAt, RollbackIs, RepairAt, RepairIs, InstallSteps, RollbackSteps, RepairSteps, RecoverySteps
  <1>3. Busy(p) /\ Busy(p)'
    BY DEF Busy
  <1> QED BY <1>1, <1>2, <1>3, BusyStep

LEMMA RollbackGoesOn ==
    ASSUME Undoable, AllInv, NEW p \in Processes, pc[p] \in RollbackSteps, Others(p),
           pc'[p] \in RollbackSteps, RollbackAt(p)', FailedInv'
    PROVE  SafeInv'
  <1>1. Ready'
    BY DEF RollbackAt, RollbackIs
  <1>2. OwnerInv'
    BY <1>1 DEF Ready, OwnerInv
  <1>3. LoopAt(p)' /\ InstallAt(p)' /\ RepairAt(p)'
    BY DEF LoopAt, InstallAt, InstallIs, RepairAt, RepairIs, InstallSteps, RollbackSteps, RepairSteps, RecoverySteps,
           Journaled, SwitchedSteps, UndoSteps
  <1>4. Busy(p) /\ Busy(p)'
    BY DEF Busy
  <1> QED BY <1>2, <1>3, <1>4, BusyStep

LEMMA ComesToRest ==
    ASSUME Undoable, AllInv, NEW p \in Processes, Busy(p), Others(p),
           pc'[p] \in {"idle", "release", "report"}, Ready', Occupied(Current)', FailedInv'
    PROVE  SafeInv'
  <1>1. OwnerInv' /\ AtRest' /\ LoopAt(p)'
    BY DEF Ready, OwnerInv, AtRest, LoopAt
  <1>2. pc'[p] \notin InstallSteps \cup RollbackSteps \cup RepairSteps
    BY DEF InstallSteps, RollbackSteps, RepairSteps
  <1>3. InstallAt(p)'
    BY <1>2 DEF InstallAt, InstallIs, InstallSteps, Journaled, SwitchedSteps, UndoSteps
  <1>4. RollbackAt(p)'
    BY <1>2 DEF RollbackAt, RollbackIs, RollbackSteps
  <1>5. RepairAt(p)'
    BY <1>2 DEF RepairAt, RepairIs, RepairSteps
  <1> QED BY <1>1, <1>3, <1>4, <1>5, BusyStep

LEMMA LeavesTo ==
    ASSUME TypeInv, NEW p \in Processes, Leave(p)
    PROVE  Others(p) /\ pc'[p] \in {"idle", "release"}
  BY DEF TypeInv, ProcessInv, Leave, Return, Goto, Set, Others

LEMMA GoesToStep ==
    ASSUME TypeInv, NEW p \in Processes, NEW s, Goto(p, s), UNCHANGED my
    PROVE  Others(p) /\ pc'[p] = s /\ my'[p] = my[p]
  BY DEF TypeInv, ProcessInv, Goto, Others

LEMMA GoesWith ==
    ASSUME TypeInv, NEW p \in Processes, NEW s, NEW r, Goto(p, s), Set(p, r)
    PROVE  Others(p) /\ pc'[p] = s /\ my'[p] = r
  BY DEF TypeInv, ProcessInv, Goto, Set, Others

(* The steps of an installation *)

\* What holds at a step of the installation of transaction t.
LEMMA InstallNow ==
    ASSUME AllInv, NEW p \in Processes, NEW s \in InstallSteps \ {"stage"}, pc[p] = s
    PROVE  /\ my[p].txn \in Transactions
           /\ InstallIs(s, my[p].txn, my[p].saved) /\ pc[p] \in InstallSteps /\ TypeInv
  <1>1. my[p].txn \in Transactions
    BY OwnIsTransaction DEF AllInv
  <1>2. InstallIs(pc[p], my[p].txn, my[p].saved)
    BY DEF AllInv, SafeInv, InstallAt
  <1> QED BY <1>1, <1>2 DEF AllInv

\* The places of one transaction are different.
LEMMA OwnPlaces ==
    ASSUME NEW t \in Transactions
    PROVE  LET staged == Place("staged", t)
               previous == Place("previous", t)
               failed == Place("failed", t)
               forward == Place("forward", t)
               interrupted == Place("interrupted", t)
           IN  /\ Current \in Places /\ {staged, previous, failed, forward, interrupted} \subseteq Places
               /\ Current \notin {staged, previous, failed, forward, interrupted}
               /\ staged # previous /\ failed # previous /\ interrupted # previous /\ failed # forward
               /\ Prev(t) = previous
  <1>1. {"staged", "previous", "failed", "forward", "interrupted"} \subseteq Kinds
    BY DEF Kinds
  <1> QED BY <1>1, PlacesAre, Apart DEF Prev

LEMMA StageIsSafe ==
    ASSUME Undoable, AllInv, NEW p \in Processes, Stage(p)
    PROVE  SafeInv'
  <1> DEFINE r == [my[p] EXCEPT !.txn = count + 1]
  <1>1. /\ pc[p] = "stage" /\ UNCHANGED journal /\ TypeInv /\ my[p] \in Local
        /\ pc[p] \in InstallSteps /\ Ready /\ Occupied(Current) /\ count \in 0..MaxTransactions
        /\ at \in [Places -> Builds \cup {None}]
    BY DEF Stage, AllInv, TypeInv, StoreInv, ProcessInv, InstallSteps, SafeInv, InstallAt, InstallIs
  <1>2. Ready'
    BY <1>1 DEF Ready, Unfinished
  <1>3. CASE Leave(p) /\ UNCHANGED <<at, count>>
    <2>1. Others(p) /\ pc'[p] \in {"idle", "release"}
      BY <1>1, <1>3, LeavesTo
    <2>2. FailedInv'
      BY <1>3, <2>1, FailedStays DEF Occupied, BeforeReject
    <2>3. Occupied(Current)' /\ Busy(p)
      BY <1>1, <1>3 DEF Occupied, Busy
    <2> QED BY <1>2, <2>1, <2>2, <2>3, ComesToRest
  <1>4. CASE /\ count < MaxTransactions /\ count' = count + 1
             /\ at' = [at EXCEPT ![Place("staged", count + 1)] = count + 1]
             /\ Goto(p, "prepare") /\ Set(p, r)
    <2>1. PICK t \in Transactions : t = count + 1
      BY <1>1, <1>4 DEF Transactions
    <2>2. Others(p) /\ pc'[p] = "prepare" /\ my'[p].txn = t
      <3>1. r.txn = count + 1
        BY <1>1 DEF Local
      <3> QED BY <1>1, <1>4, <2>1, <3>1, GoesWith
    <2>3. count' \in Nat /\ count <= count'
      BY <1>1, <1>4
    <2>4. /\ Place("staged", t) \in Places /\ Place("staged", t) # Current
          /\ at' = [at EXCEPT ![Place("staged", t)] = t]
      BY <1>4, <2>1, OwnPlaces
    <2>5. t # None
      BY DEF UpdateAssumption, Builds
    <2>6. Occupied(Place("staged", t))' /\ Occupied(Current)'
      BY <1>1, <2>4, <2>5, PlacesAre DEF Occupied
    <2>7. \A u \in Transactions : Occupied(Place("failed", u))' => Occupied(Place("failed", u))
      <3>1. \A u \in Transactions : Place("failed", u) # Place("staged", t)
        BY Apart DEF Kinds
      <3> QED BY <1>1, <2>4, <3>1 DEF Occupied
    <2>8. FailedInv'
      BY <2>1, <2>2, <2>3, <2>7, FailedKeeps
    <2>9. InstallAt(p)'
      BY <1>2, <2>2, <2>6 DEF InstallAt, InstallIs, Journaled, SwitchedSteps, UndoSteps
    <2>10. pc'[p] \in InstallSteps \ {"stage"}
      BY <2>2 DEF InstallSteps
    <2> QED BY <1>1, <2>2, <2>8, <2>9, <2>10, InstallGoesOn
  <1> QED BY <1>3, <1>4 DEF Stage

LEMMA PrepareIsSafe ==
    ASSUME Undoable, AllInv, NEW p \in Processes, Prepare(p)
    PROVE  SafeInv'
  <1>1. /\ pc[p] = "prepare" /\ Goto(p, "save") /\ UNCHANGED <<at, count, my>> /\ TypeInv
        /\ journal \in [Transactions -> [phase : Phases, previous : BOOLEAN]]
        /\ journal' = [journal EXCEPT ![my[p].txn] = [phase |-> "prepared", previous |-> Occupied(Current)]]
        /\ {"prepare", "save"} \subseteq InstallSteps \ {"stage"}
    BY DEF Prepare, AllInv, TypeInv, StoreInv, InstallSteps
  <1>2. PICK t \in Transactions : t = my[p].txn
    BY <1>1, InstallNow
  <1>3. InstallIs("prepare", t, my[p].saved)
    BY <1>1, <1>2, InstallNow
  <1>4. Ready /\ Occupied(Current) /\ Occupied(Place("staged", t))
    BY <1>3 DEF InstallIs
  <1>5. Others(p) /\ pc'[p] = "save" /\ my'[p] = my[p]
    BY <1>1, GoesToStep
  <1>6. /\ journal'[t].phase = "prepared" /\ journal'[t].previous
        /\ \A u \in Transactions : u # t => journal'[u] = journal[u]
    BY <1>1, <1>2, <1>4
  <1>7. Unfinished(t)' /\ Only(t)'
    BY <1>4, <1>6 DEF Unfinished, Only, Ready, Finished
  <1>8. Occupied(Current)' /\ Occupied(Place("staged", t))'
    BY <1>1, <1>4 DEF Occupied
  <1>9. InstallIs("save", t, my[p].saved)'
    BY <1>6, <1>7, <1>8 DEF InstallIs, SwitchedSteps, UndoSteps
  <1>10. FailedInv'
    BY <1>1, <1>5, FailedStays DEF Occupied, BeforeReject
  <1>11. InstallAt(p)'
    BY <1>2, <1>5, <1>9 DEF InstallAt, InstallIs
  <1>12. pc[p] \in InstallSteps /\ pc'[p] \in InstallSteps \ {"stage"}
    BY <1>1, <1>5
  <1> QED BY <1>5, <1>10, <1>11, <1>12, InstallGoesOn

\* An installation under way whose journal is not touched.
LEMMA JournalStays ==
    ASSUME NEW s \in Journaled, NEW t \in Transactions, NEW b, InstallIs(s, t, b), UNCHANGED journal
    PROVE  /\ Unfinished(t)' /\ Only(t)' /\ journal'[t].previous
           /\ journal'[t].phase = journal[t].phase
  BY DEF InstallIs, Unfinished, Only

LEMMA SavePreviousIsSafe ==
    ASSUME Undoable, AllInv, NEW p \in Processes, SavePrevious(p)
    PROVE  SafeInv'
  <1> DEFINE r == [my[p] EXCEPT !.saved = TRUE]
  <1>1. /\ pc[p] = "save" /\ UNCHANGED <<journal, count>> /\ TypeInv /\ my[p] \in Local
        /\ "save" \in Journaled /\ {"save", "saved"} \subseteq InstallSteps \ {"stage"}
    BY DEF SavePrevious, AllInv, TypeInv, ProcessInv, Journaled, InstallSteps
  <1>2. PICK t \in Transactions : t = my[p].txn
    BY <1>1, InstallNow
  <1>3. InstallIs("save", t, my[p].saved)
    BY <1>1, <1>2, InstallNow
  <1>4. Occupied(Current) /\ Occupied(Place("staged", t))
    BY <1>3 DEF InstallIs
  <1>5. Move(Current, Place("previous", t)) /\ Goto(p, "saved") /\ Set(p, r)
    BY <1>2, <1>4 DEF SavePrevious, Mine
  <1>6. r.txn = t /\ r.saved = TRUE
    BY <1>1, <1>2 DEF Local
  <1>7. Others(p) /\ pc'[p] = "saved" /\ my'[p].txn = t /\ my'[p].saved = TRUE
    BY <1>1, <1>5, <1>6, GoesWith
  <1>8. Occupied(Prev(t))' /\ Occupied(Place("staged", t))' /\ ~Occupied(Current)'
    BY <1>1, <1>4, <1>5, OwnPlaces, Moves DEF Prev
  <1>9. Unfinished(t)' /\ Only(t)' /\ journal'[t].previous
    BY <1>1, <1>3, JournalStays
  <1>10. InstallAt(p)'
    BY <1>7, <1>8, <1>9 DEF InstallAt, InstallIs, SwitchedSteps, UndoSteps
  <1>11. \A u \in Transactions : Occupied(Place("failed", u))' => Occupied(Place("failed", u))
    BY <1>1, <1>5, OwnPlaces, MoveSparesFailed DEF Kinds
  <1>12. FailedInv'
    BY <1>1, <1>2, <1>7, <1>11, FailedStays DEF BeforeReject
  <1> QED BY <1>1, <1>7, <1>10, <1>12, InstallGoesOn

\* A step that only goes on, with nothing moved and nothing written to the journal.
LEMMA InstallWaits ==
    ASSUME Undoable, AllInv, NEW p \in Processes,
           NEW s \in InstallSteps \ {"stage"}, pc[p] = s, NEW u \in InstallSteps \ {"stage"},
           u \in BeforeReject => s \in BeforeReject,
           Goto(p, u), UNCHANGED <<at, journal, count, my>>,
           InstallIs(u, my[p].txn, my[p].saved)
    PROVE  SafeInv'
  <1>1. Others(p) /\ pc'[p] = u /\ my'[p] = my[p] /\ TypeInv
    BY GoesToStep DEF AllInv
  <1>2. InstallAt(p)'
    BY <1>1 DEF InstallAt, InstallIs, Ready, Only, Unfinished, Occupied, Prev
  <1>3. FailedInv'
    BY <1>1, FailedStays DEF Occupied
  <1> QED BY <1>1, <1>2, <1>3, InstallGoesOn

LEMMA ReportsAreSafe ==
    ASSUME Undoable, AllInv, NEW p \in Processes, Announce(p) \/ Verify(p) \/ ReportFailure(p)
    PROVE  SafeInv'
  <1>1. UNCHANGED <<at, journal, count, my>>
    BY DEF Announce, Verify, Verification, ReportFailure
  <1>2. CASE Announce(p) \/ Verify(p)
    <2>1. PICK s \in SwitchedSteps : pc[p] = s
      BY <1>2 DEF Announce, Verify, SwitchedSteps
    <2>2. PICK u \in SwitchedSteps : Goto(p, u) /\ (u \in BeforeReject => s \in BeforeReject)
      BY <1>2, <2>1 DEF Announce, Verify, Verification, SwitchedSteps, BeforeReject
    <2>3. SwitchedSteps \subseteq InstallSteps \ {"stage"}
      BY DEF SwitchedSteps, InstallSteps
    <2>4. InstallIs(s, my[p].txn, my[p].saved)
      BY <2>1, <2>3, InstallNow
    <2>5. InstallIs(u, my[p].txn, my[p].saved)
      BY <2>3, <2>4 DEF InstallIs, SwitchedSteps, UndoSteps, Journaled
    <2> QED BY <1>1, <2>1, <2>2, <2>3, <2>5, InstallWaits
  <1>3. CASE ReportFailure(p)
    <2>1. /\ pc[p] = "failed" /\ Goto(p, "rolled_back")
          /\ {"failed", "rolled_back"} \subseteq InstallSteps \ {"stage"}
          /\ "rolled_back" \notin BeforeReject
      BY <1>3 DEF ReportFailure, InstallSteps, BeforeReject
    <2>2. InstallIs("failed", my[p].txn, my[p].saved)
      BY <2>1, InstallNow
    <2>3. InstallIs("rolled_back", my[p].txn, my[p].saved)
      BY <2>1, <2>2 DEF InstallIs, SwitchedSteps, UndoSteps, Journaled
    <2> QED BY <1>1, <2>1, <2>3, InstallWaits
  <1> QED BY <1>2, <1>3

LEMMA WritePhaseIsSafe ==
    ASSUME Undoable, AllInv, NEW p \in Processes, WritePhase(p)
    PROVE  SafeInv'
  <1>1. /\ UNCHANGED <<at, count, my>> /\ TypeInv /\ pc[p] \in {"saved", "activated", "verifying"}
        /\ Journal(my[p].txn, AfterPhase(pc[p])[1]) /\ Goto(p, AfterPhase(pc[p])[2])
    BY DEF WritePhase, AllInv
  <1>2. PICK s \in {"saved", "activated", "verifying"} : pc[p] = s
    BY <1>1
  <1>3. {"saved", "activated", "verifying", "activate", "announce", "verify"}
          \subseteq InstallSteps \ {"stage"}
    BY DEF InstallSteps
  <1>4. PICK t \in Transactions : t = my[p].txn
    BY <1>2, <1>3, InstallNow
  <1>5. InstallIs(s, t, my[p].saved)
    BY <1>2, <1>3, <1>4, InstallNow
  <1>6. PICK phase \in Switching, u \in {"activate", "announce", "verify"} :
          Journal(t, phase) /\ Goto(p, u) /\ (s = "saved" <=> u = "activate")
    <2>1. /\ AfterPhase("saved") = <<"previous_saved", "activate">>
          /\ AfterPhase("activated") = <<"activated", "announce">>
          /\ AfterPhase("verifying") = <<"verifying", "verify">>
      BY DEF AfterPhase
    <2>2. {"previous_saved", "activated", "verifying"} \subseteq Switching
      BY DEF Switching
    <2> QED BY <1>1, <1>2, <1>4, <2>1, <2>2
  <1>7. /\ journal'[t].phase = phase /\ journal'[t].previous = journal[t].previous
        /\ \A v \in Transactions : v # t => journal'[v] = journal[v]
    BY <1>1, <1>6, JournalChanges
  <1>8. Only(t) /\ journal[t].previous
    BY <1>5 DEF InstallIs, Journaled, InstallSteps
  <1>9. Unfinished(t)' /\ Only(t)'
    BY <1>7, <1>8 DEF Unfinished, Only, Switching, Finished
  <1>10. Others(p) /\ pc'[p] = u /\ my'[p] = my[p]
    BY <1>1, <1>6, GoesToStep
  <1>11. InstallIs(u, t, my[p].saved)'
    <2>1. CASE s = "saved"
      <3>1. u = "activate" /\ ~Occupied(Current) /\ Occupied(Prev(t)) /\ my[p].saved
            /\ Occupied(Place("staged", t))
        BY <1>5, <1>6, <2>1 DEF InstallIs
      <3>2. ~Occupied(Current)' /\ Occupied(Prev(t))' /\ my'[p].saved /\ Occupied(Place("staged", t))'
        BY <1>1, <3>1 DEF Occupied
      <3> QED BY <1>7, <1>8, <1>9, <3>1, <3>2 DEF InstallIs, SwitchedSteps, UndoSteps
    <2>2. CASE s # "saved"
      <3>1. s \in SwitchedSteps /\ u \in SwitchedSteps
        BY <1>6, <2>2 DEF SwitchedSteps
      <3>2. Occupied(Current) /\ Occupied(Prev(t)) /\ my[p].saved
        BY <1>5, <3>1 DEF InstallIs
      <3>3. Occupied(Current)' /\ Occupied(Prev(t))' /\ my'[p].saved
        BY <1>1, <3>2 DEF Occupied
      <3> QED BY <1>7, <1>8, <1>9, <3>1, <3>3 DEF InstallIs, SwitchedSteps, UndoSteps
    <2> QED BY <2>1, <2>2
  <1>12. InstallAt(p)'
    BY <1>4, <1>10, <1>11 DEF InstallAt, InstallIs
  <1>13. FailedInv'
    BY <1>1, <1>2, <1>10, FailedStays DEF Occupied, BeforeReject
  <1> QED BY <1>2, <1>3, <1>10, <1>12, <1>13, InstallGoesOn

LEMMA ActivateIsSafe ==
    ASSUME Undoable, AllInv, NEW p \in Processes, Activate(p)
    PROVE  SafeInv'
  <1>1. /\ pc[p] = "activate" /\ UNCHANGED <<journal, count>> /\ TypeInv
        /\ "activate" \in Journaled /\ {"activate", "activated"} \subseteq InstallSteps \ {"stage"}
    BY DEF Activate, AllInv, Journaled, InstallSteps
  <1>2. PICK t \in Transactions : t = my[p].txn
    BY <1>1, InstallNow
  <1>3. InstallIs("activate", t, my[p].saved)
    BY <1>1, <1>2, InstallNow
  <1>4. /\ ~Occupied(Current) /\ Occupied(Prev(t)) /\ my[p].saved /\ Occupied(Place("staged", t))
        /\ journal[t].phase \in Switching
    BY <1>3 DEF InstallIs
  <1>5. Move(Place("staged", t), Current) /\ Goto(p, "activated") /\ UNCHANGED my
    BY <1>2, <1>4 DEF Activate, Outcomes, Undoable, Movable, Mine
  <1>6. Others(p) /\ pc'[p] = "activated" /\ my'[p] = my[p]
    BY <1>1, <1>5, GoesToStep
  <1>7. Occupied(Prev(t))' /\ Occupied(Current)'
    BY <1>1, <1>4, <1>5, OwnPlaces, Moves DEF Prev
  <1>8. /\ Unfinished(t)' /\ Only(t)' /\ journal'[t].previous
        /\ journal'[t].phase = journal[t].phase
    BY <1>1, <1>3, JournalStays
  <1>9. InstallAt(p)'
    BY <1>2, <1>4, <1>6, <1>7, <1>8 DEF InstallAt, InstallIs, SwitchedSteps, UndoSteps
  <1>10. \A u \in Transactions : Occupied(Place("failed", u))' => Occupied(Place("failed", u))
    BY <1>1, <1>5, OwnPlaces, MoveSparesFailed
  <1>11. FailedInv'
    BY <1>1, <1>6, <1>10, FailedStays DEF BeforeReject
  <1> QED BY <1>1, <1>6, <1>9, <1>11, InstallGoesOn

LEMMA RejectIsSafe ==
    ASSUME Undoable, AllInv, NEW p \in Processes, Reject(p)
    PROVE  SafeInv'
  <1>1. /\ pc[p] = "reject" /\ UNCHANGED <<journal, count>> /\ TypeInv
        /\ "reject" \in Journaled /\ {"reject", "revert"} \subseteq InstallSteps \ {"stage"}
        /\ "reject" \in SwitchedSteps /\ "reject" \in BeforeReject /\ "revert" \notin BeforeReject
    BY DEF Reject, Replace, AllInv, Journaled, InstallSteps, SwitchedSteps, BeforeReject
  <1>2. PICK t \in Transactions : t = my[p].txn
    BY <1>1, InstallNow
  <1>3. InstallIs("reject", t, my[p].saved)
    BY <1>1, <1>2, InstallNow
  <1>4. /\ Occupied(Current) /\ Occupied(Prev(t)) /\ my[p].saved
        /\ journal[t].phase \in Switching
    BY <1>1, <1>3 DEF InstallIs
  <1>5. ~Occupied(Place("failed", t))
    BY <1>1, <1>2 DEF AllInv, SafeInv, FailedInv
  <1>6. Move(Current, Place("failed", t)) /\ Goto(p, "revert") /\ UNCHANGED my
    BY <1>2, <1>4, <1>5 DEF Reject, Replace, Movable, Mine
  <1>7. Others(p) /\ pc'[p] = "revert" /\ my'[p] = my[p]
    BY <1>1, <1>6, GoesToStep
  <1>8. /\ Occupied(Prev(t))' /\ ~Occupied(Current)'
        /\ \A u \in Transactions : u # t =>
             (Occupied(Place("failed", u))' <=> Occupied(Place("failed", u)))
    <2>1. \A u \in Transactions : u # t => Place("failed", u) # Place("failed", t)
      BY Apart DEF Kinds
    <2> QED BY <1>1, <1>4, <1>6, <2>1, OwnPlaces, Moves DEF Prev
  <1>9. /\ Unfinished(t)' /\ Only(t)' /\ journal'[t].previous
        /\ journal'[t].phase = journal[t].phase
    BY <1>1, <1>3, JournalStays
  <1>10. InstallAt(p)'
    BY <1>2, <1>4, <1>7, <1>8, <1>9 DEF InstallAt, InstallIs, SwitchedSteps, UndoSteps
  <1>11. FailedInv'
    <2>1. count' \in Nat /\ count <= count'
      BY <1>1 DEF TypeInv, StoreInv
    <2>2. \A u \in Transactions : Occupied(Place("failed", u))' =>
            Occupied(Place("failed", u)) \/ (u = my[p].txn /\ pc'[p] \notin BeforeReject)
      BY <1>1, <1>2, <1>7, <1>8
    <2> QED BY <1>1, <1>7, <2>1, <2>2, FailedKeeps
  <1> QED BY <1>1, <1>7, <1>10, <1>11, InstallGoesOn

LEMMA RevertIsSafe ==
    ASSUME Undoable, AllInv, NEW p \in Processes, Revert(p)
    PROVE  SafeInv'
  <1>1. /\ pc[p] = "revert" /\ TypeInv
        /\ "revert" \in Journaled /\ {"revert", "failed"} \subseteq InstallSteps \ {"stage"}
        /\ "failed" \notin BeforeReject
    BY DEF Revert, AllInv, Journaled, InstallSteps, BeforeReject
  <1>2. PICK t \in Transactions : t = my[p].txn
    BY <1>1, InstallNow
  <1>3. InstallIs("revert", t, my[p].saved)
    BY <1>1, <1>2, InstallNow
  <1>4. ~Occupied(Current) /\ Occupied(Prev(t)) /\ my[p].saved
    BY <1>3 DEF InstallIs
  <1>5. /\ Move(Place("previous", t), Current) /\ Goto(p, "failed") /\ UNCHANGED my
        /\ UNCHANGED <<journal, count>>
    BY <1>2, <1>4 DEF Revert, Replace, Movable, Mine, Prev
  <1>6. Others(p) /\ pc'[p] = "failed" /\ my'[p] = my[p]
    BY <1>1, <1>5, GoesToStep
  <1>7. Occupied(Current)'
    BY <1>1, <1>4, <1>5, OwnPlaces, Moves DEF Prev
  <1>8. Unfinished(t)' /\ Only(t)' /\ journal'[t].previous
    BY <1>1, <1>3, <1>5, JournalStays
  <1>9. InstallAt(p)'
    BY <1>2, <1>6, <1>7, <1>8 DEF InstallAt, InstallIs, SwitchedSteps, UndoSteps
  <1>10. \A u \in Transactions : Occupied(Place("failed", u))' => Occupied(Place("failed", u))
    BY <1>1, <1>5, OwnPlaces, MoveSparesFailed
  <1>11. FailedInv'
    BY <1>1, <1>5, <1>6, <1>10, FailedStays
  <1> QED BY <1>1, <1>6, <1>9, <1>11, InstallGoesOn

LEMMA FinishIsSafe ==
    ASSUME Undoable, AllInv, NEW p \in Processes, Finish(p)
    PROVE  SafeInv'
  <1>1. PICK s \in {"rolled_back", "complete"} : pc[p] = s
    BY DEF Finish
  <1>2. /\ Journal(my[p].txn, s) /\ Leave(p) /\ UNCHANGED <<at, count>> /\ TypeInv
        /\ {"rolled_back", "complete"} \subseteq InstallSteps \ {"stage"}
        /\ {"rolled_back", "complete"} \subseteq Finished
    BY <1>1 DEF Finish, AllInv, InstallSteps, Finished
  <1>3. PICK t \in Transactions : t = my[p].txn
    BY <1>1, <1>2, InstallNow
  <1>4. InstallIs(s, t, my[p].saved)
    BY <1>1, <1>2, <1>3, InstallNow
  <1>5. Only(t) /\ Occupied(Current)
    BY <1>4 DEF InstallIs, Journaled, InstallSteps, SwitchedSteps, UndoSteps
  <1>6. /\ journal'[t].phase = s
        /\ \A v \in Transactions : v # t => journal'[v] = journal[v]
    BY <1>2, <1>3, JournalChanges
  <1>7. Ready'
    BY <1>2, <1>5, <1>6 DEF Unfinished, Only, Ready
  <1>8. Others(p) /\ pc'[p] \in {"idle", "release"}
    BY <1>2, LeavesTo
  <1>9. FailedInv' /\ Occupied(Current)'
    BY <1>2, <1>5, <1>8, FailedStays DEF Occupied, BeforeReject
  <1>10. Busy(p)
    BY <1>1, <1>2 DEF Busy
  <1> QED BY <1>7, <1>8, <1>9, <1>10, ComesToRest

(* The steps of a rollback *)

LEMMA RollbackNow ==
    ASSUME AllInv, NEW p \in Processes, NEW s \in RollbackSteps \ {"choose"}, pc[p] = s
    PROVE  /\ my[p].txn \in Transactions /\ my[p].place \in Kept \ {None} /\ my[p].place \in Places
           /\ RollbackIs(s, my[p].txn, my[p].place) /\ Ready /\ Busy(p) /\ TypeInv
  <1>1. my[p].txn \in Transactions
    BY OwnIsTransaction DEF AllInv
  <1>2. RollbackIs(pc[p], my[p].txn, my[p].place)
    BY DEF AllInv, SafeInv, RollbackAt
  <1>3. my[p].place # None /\ my[p].place \in Kept
    BY DEF AllInv, TypeInv, ProcessInv, Fits, MemoryInv, PlaceInv
  <1>4. {"previous", "forward"} \X Transactions \subseteq Places
    BY DEF Places, Kinds
  <1>5. my[p].place \in Places
    BY <1>3, <1>4 DEF Kept
  <1> QED BY <1>1, <1>2, <1>3, <1>5 DEF AllInv, RollbackIs, Busy

\* A rollback writes no journal, and no refused build.
LEMMA RollbackNext ==
    ASSUME Undoable, AllInv, NEW p \in Processes, pc[p] \in RollbackSteps, Others(p),
           UNCHANGED <<journal, count>>, Ready,
           \A t \in Transactions : Occupied(Place("failed", t))' => Occupied(Place("failed", t)),
           \/ pc'[p] \in {"idle", "release"} /\ Occupied(Current)'
           \/ pc'[p] \in RollbackSteps /\ RollbackAt(p)'
    PROVE  SafeInv'
  <1>1. Ready'
    BY DEF Ready, Unfinished
  <1>2. pc'[p] \notin BeforeReject /\ Busy(p)
    BY DEF RollbackSteps, BeforeReject, Busy
  <1>3. FailedInv'
    BY <1>2, FailedStays
  <1> QED BY <1>1, <1>2, <1>3, ComesToRest, RollbackGoesOn

LEMMA ChooseIsSafe ==
    ASSUME Undoable, AllInv, NEW p \in Processes, ChoosePrevious(p)
    PROVE  SafeInv'
  <1> DEFINE r == [my[p] EXCEPT !.place = known, !.txn = count + 1]
  <1>1. /\ pc[p] = "choose" /\ UNCHANGED <<at, journal>> /\ TypeInv /\ count \in Nat
        /\ pc[p] \in RollbackSteps /\ {"choose", "displace"} \subseteq RollbackSteps
    BY DEF ChoosePrevious, AllInv, TypeInv, StoreInv, RollbackSteps
  <1>2. Ready /\ Occupied(Current)
    BY <1>1 DEF AllInv, SafeInv, RollbackAt, RollbackIs
  <1>3. Ready' /\ Occupied(Current)' /\ \A x : Occupied(x)' <=> Occupied(x)
    BY <1>1, <1>2 DEF Ready, Unfinished, Occupied
  <1>4. CASE Leave(p) /\ UNCHANGED count
    <2>1. Others(p) /\ pc'[p] \in {"idle", "release"}
      BY <1>1, <1>4, LeavesTo
    <2> QED BY <1>1, <1>2, <1>3, <1>4, <2>1, RollbackNext
  <1>5. CASE count' = count + 1 /\ Goto(p, "displace") /\ Set(p, r)
    <2>1. Others(p) /\ pc'[p] = "displace"
      BY <1>1, <1>5, GoesWith
    <2>2. RollbackAt(p)'
      BY <1>3, <2>1 DEF RollbackAt, RollbackIs
    <2>3. count' \in Nat /\ count <= count' /\ pc'[p] \notin BeforeReject
      BY <1>1, <1>5, <2>1 DEF BeforeReject
    <2>4. FailedInv'
      BY <1>3, <2>1, <2>3, FailedKeeps
    <2> QED BY <1>1, <2>1, <2>2, <2>4, RollbackGoesOn
  <1> QED BY <1>4, <1>5 DEF ChoosePrevious

LEMMA DisplaceIsSafe ==
    ASSUME Undoable, AllInv, NEW p \in Processes, Displace(p)
    PROVE  SafeInv'
  <1>1. /\ pc[p] = "displace" /\ {"displace", "reinstate"} \subseteq RollbackSteps \ {"choose"}
        /\ UNCHANGED <<journal, count>> /\ Replace(p, Current, Mine(p, "forward"), "reinstate")
    BY DEF Displace, Replace, RollbackSteps
  <1>2. PICK t \in Transactions : t = my[p].txn
    BY <1>1, RollbackNow
  <1>3. Ready /\ Occupied(Current) /\ TypeInv
    BY <1>1, RollbackNow DEF RollbackIs
  <1>4. CASE Move(Current, Place("forward", t)) /\ Goto(p, "reinstate") /\ UNCHANGED my
    <2>1. Others(p) /\ pc'[p] = "reinstate" /\ my'[p] = my[p]
      BY <1>3, <1>4, GoesToStep
    <2>2. Occupied(Place("forward", t))' /\ ~Occupied(Current)'
      BY <1>3, <1>4, OwnPlaces, Moves
    <2>3. Ready'
      BY <1>1, <1>3 DEF Ready, Unfinished
    <2>4. RollbackAt(p)'
      BY <1>2, <2>1, <2>2, <2>3 DEF RollbackAt, RollbackIs
    <2>5. \A u \in Transactions : Occupied(Place("failed", u))' => Occupied(Place("failed", u))
      BY <1>3, <1>4, OwnPlaces, MoveSparesFailed DEF Kinds
    <2> QED BY <1>1, <1>3, <2>1, <2>4, <2>5, RollbackNext
  <1>5. CASE Leave(p) /\ UNCHANGED at
    <2>1. Others(p) /\ pc'[p] \in {"idle", "release"} /\ \A x : Occupied(x)' <=> Occupied(x)
      BY <1>3, <1>5, LeavesTo DEF Occupied
    <2> QED BY <1>1, <1>3, <2>1, RollbackNext
  <1> QED BY <1>1, <1>2, <1>4, <1>5 DEF Replace, Mine

\* The displaced installation is given back.
LEMMA GivesBack ==
    ASSUME Undoable, AllInv, NEW p \in Processes, NEW s \in {"reinstate", "put_forward"}, pc[p] = s,
           Replace(p, Mine(p, "forward"), Current, "release")
    PROVE  SafeInv'
  <1>1. {"reinstate", "put_forward"} \subseteq RollbackSteps \ {"choose"} /\ UNCHANGED <<journal, count>>
    BY DEF Replace, RollbackSteps
  <1>2. PICK t \in Transactions : t = my[p].txn
    BY <1>1, RollbackNow
  <1>3. Ready /\ ~Occupied(Current) /\ Occupied(Place("forward", t)) /\ TypeInv
    BY <1>1, <1>2, RollbackNow DEF RollbackIs
  <1>4. Move(Place("forward", t), Current) /\ Goto(p, "release") /\ UNCHANGED my
    BY <1>2, <1>3 DEF Replace, Movable, Mine
  <1>5. Others(p) /\ pc'[p] = "release"
    BY <1>3, <1>4, GoesToStep
  <1>6. Occupied(Current)'
    BY <1>3, <1>4, OwnPlaces, Moves
  <1>7. \A u \in Transactions : Occupied(Place("failed", u))' => Occupied(Place("failed", u))
    BY <1>3, <1>4, OwnPlaces, MoveSparesFailed
  <1> QED BY <1>1, <1>3, <1>5, <1>6, <1>7, RollbackNext

LEMMA ReinstateIsSafe ==
    ASSUME Undoable, AllInv, NEW p \in Processes, Reinstate(p)
    PROVE  SafeInv'
  <1>1. /\ pc[p] = "reinstate" /\ {"reinstate", "check_old"} \subseteq RollbackSteps \ {"choose"}
    BY DEF Reinstate, RollbackSteps
  <1>2. PICK t \in Transactions, y \in Places : t = my[p].txn /\ y = my[p].place
    BY <1>1, RollbackNow
  <1>3. Ready /\ ~Occupied(Current) /\ Occupied(Place("forward", t)) /\ TypeInv
    BY <1>1, <1>2, RollbackNow DEF RollbackIs
  <1>4. CASE /\ Movable(y, Current) /\ Move(y, Current) /\ Goto(p, "check_old")
             /\ UNCHANGED <<journal, count, my>>
    <2>1. Others(p) /\ pc'[p] = "check_old" /\ my'[p] = my[p]
      BY <1>3, <1>4, GoesToStep
    <2>2. y # Current /\ Occupied(y)
      BY <1>3, <1>4 DEF Movable
    <2>3. Occupied(Current)' /\ (Occupied(Place("forward", t))' \/ y = Place("forward", t))
      BY <1>3, <1>4, <2>2, OwnPlaces, Moves
    <2>4. Ready'
      BY <1>3, <1>4 DEF Ready, Unfinished
    <2>5. RollbackAt(p)'
      BY <1>2, <2>1, <2>3, <2>4 DEF RollbackAt, RollbackIs
    <2>6. \A u \in Transactions : Occupied(Place("failed", u))' => Occupied(Place("failed", u))
      BY <1>3, <1>4, OwnPlaces, MoveSparesFailed
    <2> QED BY <1>1, <1>3, <1>4, <2>1, <2>5, <2>6, RollbackNext
  <1>5. CASE Replace(p, Mine(p, "forward"), Current, "release")
    BY <1>1, <1>5, GivesBack
  <1> QED BY <1>2, <1>4, <1>5 DEF Reinstate

LEMMA VerifyPreviousIsSafe ==
    ASSUME Undoable, AllInv, NEW p \in Processes, VerifyPrevious(p)
    PROVE  SafeInv'
  <1>1. /\ pc[p] = "check_old" /\ UNCHANGED <<at, journal, count, my>>
        /\ {"check_old", "switched", "retract"} \subseteq RollbackSteps \ {"choose"}
        /\ \E u \in {"switched", "retract"} : Goto(p, u)
    BY DEF VerifyPrevious, Verification, RollbackSteps
  <1>2. PICK u \in {"switched", "retract"} : Goto(p, u)
    BY <1>1
  <1>3. PICK t \in Transactions, y \in Places : t = my[p].txn /\ y = my[p].place
    BY <1>1, RollbackNow
  <1>4. /\ Ready /\ Occupied(Current) /\ TypeInv
        /\ Occupied(Place("forward", t)) \/ y = Place("forward", t)
    BY <1>1, <1>3, RollbackNow DEF RollbackIs
  <1>5. Others(p) /\ pc'[p] = u /\ my'[p] = my[p]
    BY <1>1, <1>2, <1>4, GoesToStep
  <1>6. \A x : Occupied(x)' <=> Occupied(x)
    BY <1>1 DEF Occupied
  <1>7. Ready'
    BY <1>1, <1>4 DEF Ready, Unfinished
  <1>8. RollbackAt(p)'
    BY <1>3, <1>4, <1>5, <1>6, <1>7 DEF RollbackAt, RollbackIs
  <1> QED BY <1>1, <1>4, <1>5, <1>6, <1>8, RollbackNext

LEMMA RetractIsSafe ==
    ASSUME Undoable, AllInv, NEW p \in Processes, Retract(p)
    PROVE  SafeInv'
  <1>1. /\ pc[p] = "retract" /\ {"retract", "put_forward"} \subseteq RollbackSteps \ {"choose"}
        /\ UNCHANGED <<journal, count>> /\ Replace(p, Current, my[p].place, "put_forward")
    BY DEF Retract, Replace, RollbackSteps
  <1>2. PICK t \in Transactions, y \in Places : t = my[p].txn /\ y = my[p].place
    BY <1>1, RollbackNow
  <1>3. y \in {"previous", "forward"} \X Transactions
    BY <1>1, <1>2, RollbackNow DEF Kept
  <1>4. /\ Ready /\ Occupied(Current) /\ TypeInv
        /\ Occupied(Place("forward", t)) \/ y = Place("forward", t)
    BY <1>1, <1>2, RollbackNow DEF RollbackIs
  <1>5. CASE Movable(Current, y) /\ Move(Current, y) /\ Goto(p, "put_forward") /\ UNCHANGED my
    <2>1. Others(p) /\ pc'[p] = "put_forward" /\ my'[p] = my[p]
      BY <1>4, <1>5, GoesToStep
    <2>2. Current \in Places /\ y # Current
      BY <1>4, <1>5, PlacesAre DEF Movable
    <2>3. ~Occupied(Current)' /\ Occupied(Place("forward", t))'
      BY <1>4, <1>5, <2>2, OwnPlaces, Moves
    <2>4. Ready'
      BY <1>1, <1>4 DEF Ready, Unfinished
    <2>5. RollbackAt(p)'
      BY <1>2, <2>1, <2>3, <2>4 DEF RollbackAt, RollbackIs
    <2>6. PICK k \in {"previous", "forward"}, v \in Transactions : y = Place(k, v)
      BY <1>3 DEF Place
    <2>7. k \in Kinds \ {"failed"}
      BY DEF Kinds
    <2>8. \A u \in Transactions : Occupied(Place("failed", u))' => Occupied(Place("failed", u))
      BY <1>4, <1>5, <2>2, <2>6, <2>7, MoveSparesFailed
    <2> QED BY <1>1, <1>4, <2>1, <2>5, <2>8, RollbackNext
  <1>6. CASE Leave(p) /\ UNCHANGED at
    <2>1. Others(p) /\ pc'[p] \in {"idle", "release"} /\ \A x : Occupied(x)' <=> Occupied(x)
      BY <1>4, <1>6, LeavesTo DEF Occupied
    <2> QED BY <1>1, <1>4, <2>1, RollbackNext
  <1> QED BY <1>1, <1>2, <1>5, <1>6 DEF Replace

LEMMA RollbackIsSafe ==
    ASSUME Undoable, AllInv, NEW p \in Processes, RollbackStep(p)
    PROVE  SafeInv'
  <1>1. CASE PutForward(p)
    BY <1>1, GivesBack DEF PutForward
  <1>2. CASE ReportRollback(p)
    <2>1. /\ pc[p] = "switched" /\ "switched" \in RollbackSteps \ {"choose"}
          /\ UNCHANGED <<at, journal, count>> /\ Leave(p)
      BY <1>2 DEF ReportRollback, RollbackSteps
    <2>2. Ready /\ Occupied(Current) /\ TypeInv
      BY <2>1, RollbackNow DEF RollbackIs
    <2>3. Others(p) /\ pc'[p] \in {"idle", "release"} /\ \A x : Occupied(x)' <=> Occupied(x)
      BY <2>1, <2>2, LeavesTo DEF Occupied
    <2> QED BY <2>1, <2>2, <2>3, RollbackNext
  <1> QED BY <1>1, <1>2, ChooseIsSafe, DisplaceIsSafe, ReinstateIsSafe, VerifyPreviousIsSafe, RetractIsSafe
      DEF RollbackStep

(* The steps of a recovery *)

\* A step of a process without a journal of its own leaves the owners where they are.
LEMMA OwnersStay ==
    ASSUME OwnerInv, NEW p \in Processes, Others(p), pc[p] \notin Journaled \cup {"dead"},
           \A t \in Transactions : Unfinished(t)' => Unfinished(t)
    PROVE  OwnerInv'
  <1> SUFFICES ASSUME NEW t \in Transactions, Unfinished(t)'
               PROVE  \E q \in Processes :
                        /\ my'[q].txn = t
                        /\ pc'[q] \in Journaled \/ (pc'[q] = "dead" /\ ~KillsSpareHolders)
    BY DEF OwnerInv, KillsSpareHolders
  <1>1. PICK q \in Processes :
          /\ my[q].txn = t
          /\ pc[q] \in Journaled \/ (pc[q] = "dead" /\ ~KillsSpareHolders)
    BY DEF OwnerInv
  <1>2. q # p
    BY <1>1
  <1> QED BY <1>1, <1>2 DEF Others

LEMMA RepairNow ==
    ASSUME AllInv, NEW p \in Processes, NEW s \in RepairSteps, pc[p] = s
    PROVE  /\ my[p].turn \in Transactions
           /\ RepairIs(s, my[p].turn, my[p].phase, my[p].previous) /\ Busy(p) /\ TypeInv
  <1>1. s \in RecoverySteps \ {"recover"}
    BY DEF RepairSteps, RecoverySteps
  <1>2. my[p].turn \in Transactions
    BY <1>1, TurnIsTransaction DEF AllInv
  <1>3. RepairIs(pc[p], my[p].turn, my[p].phase, my[p].previous)
    BY DEF AllInv, SafeInv, RepairAt
  <1> QED BY <1>2, <1>3 DEF AllInv, Busy

\* A recovery under way writes no journal before its end, and no refused build.
LEMMA RepairNext ==
    ASSUME Undoable, AllInv, NEW p \in Processes, pc[p] \in RepairSteps, Others(p),
           UNCHANGED <<journal, count>>,
           \A t \in Transactions : Occupied(Place("failed", t))' => Occupied(Place("failed", t)),
           \/ pc'[p] \in {"idle", "release"} /\ AtRest'
           \/ pc'[p] \in RepairSteps /\ my'[p] = my[p] /\ RepairAt(p)'
    PROVE  SafeInv'
  <1>1. /\ pc[p] \notin Journaled \cup {"dead"} /\ Busy(p)
        /\ pc'[p] \notin InstallSteps \cup RollbackSteps /\ pc'[p] # "report"
    BY DEF RepairSteps, Journaled, InstallSteps, RollbackSteps, Busy
  <1>2. OwnerInv /\ LoopAt(p)
    BY DEF AllInv, SafeInv
  <1>3. \A t \in Transactions : Unfinished(t)' <=> Unfinished(t)
    BY DEF Unfinished
  <1>4. OwnerInv'
    BY <1>1, <1>2, <1>3, OwnersStay
  <1>5. pc'[p] \notin BeforeReject
    BY <1>1 DEF BeforeReject, InstallSteps
  <1>6. FailedInv'
    BY <1>5, FailedStays
  <1>7. InstallAt(p)'
    BY <1>1 DEF InstallAt, InstallIs, InstallSteps, Journaled, SwitchedSteps, UndoSteps
  <1>8. RollbackAt(p)'
    BY <1>1 DEF RollbackAt, RollbackIs, RollbackSteps
  <1>9. CASE pc'[p] \in {"idle", "release"} /\ AtRest'
    <2>1. LoopAt(p)' /\ RepairAt(p)'
      BY <1>9 DEF LoopAt, RecoverySteps, RepairAt, RepairIs, RepairSteps
    <2> QED BY <1>1, <1>4, <1>6, <1>7, <1>8, <1>9, <2>1, BusyStep
  <1>10. CASE pc'[p] \in RepairSteps /\ my'[p] = my[p] /\ RepairAt(p)'
    <2>1. RepairSteps \subseteq RecoverySteps
      BY DEF RepairSteps, RecoverySteps
    <2>2. LoopAt(p)'
      BY <1>1, <1>2, <1>3, <1>10, <2>1 DEF LoopAt
    <2>3. Busy(p)'
      BY <1>10 DEF Busy
    <2> QED BY <1>1, <1>4, <1>6, <1>7, <1>8, <1>10, <2>2, <2>3, BusyStep
  <1> QED BY <1>9, <1>10

\* What a recovery knows of the journal it is at, whatever it moves.
LEMMA RepairStays ==
    ASSUME Undoable, AllInv, NEW p \in Processes, NEW s \in RepairSteps, pc[p] = s, Others(p),
           UNCHANGED journal, NEW t \in Transactions, t = my[p].turn
    PROVE  /\ Unfinished(t)' /\ Only(t)' /\ journal'[t].previous /\ my[p].previous
           /\ my[p].phase = journal'[t].phase /\ journal'[t].phase = journal[t].phase
           /\ ~KillsSpareHolders /\ \E d \in Processes : pc'[d] = "dead"
  <1>1. RepairIs(s, t, my[p].phase, my[p].previous)
    BY RepairNow
  <1>2. PICK d \in Processes : pc[d] = "dead"
    BY <1>1 DEF RepairIs
  <1>3. d # p
    BY <1>2 DEF RepairSteps
  <1> QED BY <1>1, <1>2, <1>3 DEF RepairIs, Unfinished, Only, Others

LEMMA LooksAreSafe ==
    ASSUME Undoable, AllInv, NEW p \in Processes, JudgeCurrent(p) \/ RestorePrevious(p)
    PROVE  SafeInv'
  <1>1. /\ UNCHANGED <<at, journal, count>> /\ TypeInv
        /\ {"judge", "put_aside", "restore", "put_back", "recovered"} \subseteq RepairSteps
    BY DEF JudgeCurrent, RestorePrevious, AllInv, RepairSteps
  <1>2. PICK s \in {"judge", "restore"} : pc[p] = s
    BY DEF JudgeCurrent, RestorePrevious
  <1>3. PICK t \in Transactions : t = my[p].turn
    BY <1>1, <1>2, RepairNow
  <1>4. RepairIs(s, t, my[p].phase, my[p].previous)
    BY <1>1, <1>2, <1>3, RepairNow
  <1>5. \A x : Occupied(x)' <=> Occupied(x)
    BY <1>1 DEF Occupied
  <1>6. /\ Unfinished(t) /\ Only(t) /\ my[p].previous /\ my[p].phase = journal[t].phase
        /\ (s = "judge" => Recoverable(t))
        /\ (s = "restore" => IF Occupied(Current) THEN journal[t].phase = "prepared" ELSE Occupied(Prev(t)))
    BY <1>1, <1>2, <1>4 DEF RepairIs
  <1>7. CASE s = "judge" /\ Leave(p)
    <2>1. Others(p) /\ pc'[p] \in {"idle", "release"}
      BY <1>1, <1>7, LeavesTo
    <2>2. AtRest'
      BY <1>1, <1>5, <1>6, <1>7 DEF AtRest, Unfinished, Only, Recoverable, Prev
    <2> QED BY <1>1, <1>2, <1>5, <2>1, <2>2, RepairNext
  <1>8. ASSUME NEW u \in RepairSteps, Goto(p, u), UNCHANGED my,
               u \in {"judge", "put_aside"} => Recoverable(t),
               u = "put_aside" => journal[t].phase \in Switching,
               u = "restore" =>
                 IF Occupied(Current) THEN journal[t].phase = "prepared" ELSE Occupied(Prev(t)),
               u = "put_back" => ~Occupied(Current) /\ Occupied(Prev(t)),
               u = "recovered" => Occupied(Current)
        PROVE  SafeInv'
    <2>1. Others(p) /\ pc'[p] = u /\ my'[p] = my[p]
      BY <1>1, <1>8, GoesToStep
    <2>2. RepairIs(u, t, my[p].phase, my[p].previous)'
      <3>1. RepairIs(u, t, my[p].phase, my[p].previous)
        BY <1>4, <1>1, <1>2, <1>8 DEF RepairIs
      <3>2. (\E d \in Processes : pc[d] = "dead") => \E d \in Processes : pc'[d] = "dead"
        BY <1>2, <2>1 DEF Others
      <3> QED BY <1>1, <1>5, <2>1, <3>1, <3>2
          DEF RepairIs, Unfinished, Only, Recoverable, Prev, KillsSpareHolders
    <2>3. RepairAt(p)'
      BY <1>3, <2>1, <2>2 DEF RepairAt
    <2> QED BY <1>1, <1>2, <1>5, <2>1, <2>3, RepairNext
  <1>9. CASE JudgeCurrent(p)
    <2>1. s = "judge"
      BY <1>2, <1>9 DEF JudgeCurrent
    <2>2. CASE ~Suspect(my[p].phase)
      <3>1. Goto(p, "restore") /\ UNCHANGED my
        BY <1>9, <2>2 DEF JudgeCurrent
      <3>2. IF Occupied(Current) THEN journal[t].phase = "prepared" ELSE Occupied(Prev(t))
        BY <1>6, <2>1, <2>2 DEF Suspect, Recoverable
      <3> QED BY <1>1, <1>8, <3>1, <3>2
    <2>3. CASE Suspect(my[p].phase) /\ Goto(p, "put_aside") /\ UNCHANGED my
      BY <1>1, <1>6, <1>8, <2>1, <2>3 DEF Suspect
    <2> QED BY <1>7, <1>9, <2>1, <2>2, <2>3 DEF JudgeCurrent
  <1>10. CASE RestorePrevious(p)
    <2>1. s = "restore" /\ UNCHANGED my
      BY <1>2, <1>10 DEF RestorePrevious
    <2>2. Restorable(p) <=> Occupied(Prev(t)) /\ ~Occupied(Current)
      BY <1>3, <1>6 DEF Restorable, Prev
    <2>3. CASE Restorable(p)
      <3>1. Goto(p, "put_back")
        BY <1>10, <2>3 DEF RestorePrevious
      <3> QED BY <1>1, <1>8, <2>1, <2>2, <2>3, <3>1
    <2>4. CASE ~Restorable(p)
      <3>1. Goto(p, "recovered")
        BY <1>10, <2>4 DEF RestorePrevious
      <3>2. Occupied(Current)
        BY <1>6, <2>1, <2>2, <2>4
      <3> QED BY <1>1, <1>8, <2>1, <3>1, <3>2
    <2> QED BY <2>3, <2>4
  <1> QED BY <1>9, <1>10

LEMMA PutsAreSafe ==
    ASSUME Undoable, AllInv, NEW p \in Processes, PutAside(p) \/ PutBack(p)
    PROVE  SafeInv'
  <1>1. /\ UNCHANGED <<journal, count>> /\ TypeInv
        /\ {"put_aside", "restore", "put_back", "recovered"} \subseteq RepairSteps
    BY DEF PutAside, PutBack, Replace, AllInv, RepairSteps
  <1>2. CASE PutAside(p)
    <2>1. pc[p] = "put_aside"
      BY <1>2 DEF PutAside
    <2>2. PICK t \in Transactions : t = my[p].turn
      BY <1>1, <2>1, RepairNow
    <2>3. RepairIs("put_aside", t, my[p].phase, my[p].previous)
      BY <1>1, <2>1, <2>2, RepairNow
    <2>4. Unfinished(t) /\ Only(t) /\ Recoverable(t) /\ journal[t].phase \in Switching
      BY <1>1, <2>3 DEF RepairIs
    <2>5. CASE Leave(p) /\ UNCHANGED at
      <3>1. Others(p) /\ pc'[p] \in {"idle", "release"}
        BY <1>1, <2>5, LeavesTo
      <3>2. \A x : Occupied(x)' <=> Occupied(x)
        BY <2>5 DEF Occupied
      <3>3. AtRest'
        BY <1>1, <2>4, <3>2 DEF AtRest, Unfinished, Only, Recoverable, Prev
      <3> QED BY <1>1, <2>1, <3>1, <3>2, <3>3, RepairNext
    <2>6. CASE /\ Movable(Current, Place("interrupted", t)) /\ Move(Current, Place("interrupted", t))
               /\ Goto(p, "restore") /\ UNCHANGED my
      <3>1. Others(p) /\ pc'[p] = "restore" /\ my'[p] = my[p]
        BY <1>1, <2>6, GoesToStep
      <3>2. Occupied(Current) /\ Occupied(Prev(t))
        BY <2>4, <2>6 DEF Movable, Recoverable, Switching
      <3>3. ~Occupied(Current)' /\ Occupied(Prev(t))'
        BY <1>1, <2>6, <3>2, OwnPlaces, Moves DEF Prev
      <3>4. /\ Unfinished(t)' /\ Only(t)' /\ journal'[t].previous /\ my[p].previous
            /\ my[p].phase = journal'[t].phase /\ ~KillsSpareHolders /\ \E d \in Processes : pc'[d] = "dead"
        BY <1>1, <2>1, <2>2, <3>1, RepairStays
      <3>5. RepairIs("restore", t, my[p].phase, my[p].previous)'
        BY <3>1, <3>3, <3>4 DEF RepairIs, KillsSpareHolders
      <3>6. RepairAt(p)'
        BY <2>2, <3>1, <3>5 DEF RepairAt
      <3>7. \A u \in Transactions : Occupied(Place("failed", u))' => Occupied(Place("failed", u))
        BY <1>1, <2>6, OwnPlaces, MoveSparesFailed DEF Kinds
      <3> QED BY <1>1, <2>1, <3>1, <3>6, <3>7, RepairNext
    <2> QED BY <1>2, <2>2, <2>5, <2>6 DEF PutAside, Replace
  <1>3. CASE PutBack(p)
    <2>1. pc[p] = "put_back"
      BY <1>3 DEF PutBack
    <2>2. PICK t \in Transactions : t = my[p].turn
      BY <1>1, <2>1, RepairNow
    <2>3. RepairIs("put_back", t, my[p].phase, my[p].previous)
      BY <1>1, <2>1, <2>2, RepairNow
    <2>4. ~Occupied(Current) /\ Occupied(Prev(t))
      BY <2>3 DEF RepairIs
    <2>5. Move(Place("previous", t), Current) /\ Goto(p, "recovered") /\ UNCHANGED my
      BY <1>3, <2>2, <2>4 DEF PutBack, Replace, Movable, Prev
    <2>6. Others(p) /\ pc'[p] = "recovered" /\ my'[p] = my[p]
      BY <1>1, <2>5, GoesToStep
    <2>7. Occupied(Current)'
      BY <1>1, <2>4, <2>5, OwnPlaces, Moves DEF Prev
    <2>8. /\ Unfinished(t)' /\ Only(t)' /\ journal'[t].previous /\ my[p].previous
          /\ my[p].phase = journal'[t].phase /\ ~KillsSpareHolders /\ \E d \in Processes : pc'[d] = "dead"
      BY <1>1, <2>1, <2>2, <2>6, RepairStays
    <2>9. RepairIs("recovered", t, my[p].phase, my[p].previous)'
      BY <2>6, <2>7, <2>8 DEF RepairIs, KillsSpareHolders
    <2>10. RepairAt(p)'
      BY <2>2, <2>6, <2>9 DEF RepairAt
    <2>11. \A u \in Transactions : Occupied(Place("failed", u))' => Occupied(Place("failed", u))
      BY <1>1, <2>5, OwnPlaces, MoveSparesFailed
    <2> QED BY <1>1, <2>1, <2>6, <2>10, <2>11, RepairNext
  <1> QED BY <1>2, <1>3

LEMMA WriteRecoveredIsSafe ==
    ASSUME Undoable, AllInv, NEW p \in Processes, WriteRecovered(p)
    PROVE  SafeInv'
  <1>1. /\ pc[p] = "recovered" /\ "recovered" \in RepairSteps /\ Goto(p, "report")
        /\ UNCHANGED <<at, count, my>> /\ TypeInv
        /\ journal \in [Transactions -> [phase : Phases, previous : BOOLEAN]]
        /\ journal' = [journal EXCEPT ![my[p].turn] = [phase |-> "recovered", previous |-> my[p].previous]]
    BY DEF WriteRecovered, RepairSteps, AllInv, TypeInv, StoreInv
  <1>2. PICK t \in Transactions : t = my[p].turn
    BY <1>1, RepairNow
  <1>3. RepairIs("recovered", t, my[p].phase, my[p].previous) /\ Busy(p)
    BY <1>1, <1>2, RepairNow
  <1>4. Only(t) /\ Occupied(Current)
    BY <1>1, <1>3 DEF RepairIs
  <1>5. journal'[t].phase = "recovered" /\ \A u \in Transactions : u # t => journal'[u] = journal[u]
    BY <1>1, <1>2
  <1>6. Ready'
    BY <1>4, <1>5 DEF Ready, Only, Unfinished, Finished
  <1>7. Others(p) /\ pc'[p] = "report"
    BY <1>1, GoesToStep
  <1>8. FailedInv' /\ Occupied(Current)'
    BY <1>1, <1>4, <1>7, FailedStays DEF Occupied, BeforeReject
  <1> QED BY <1>3, <1>6, <1>7, <1>8, ComesToRest

(* The steps that lead to an installation, a rollback or a recovery *)

\* Whoever holds the lock and is not at the installation yet finds it at rest.
LEMMA HolderFindsRest ==
    ASSUME Undoable, AllInv, NEW p \in Processes, Holding(p), ~Busy(p), Ready
    PROVE  Occupied(Current)
  <1>1. \A q \in Processes : ~Busy(q)
    BY HolderIsUndisturbed
  <1>2. AtRest
    BY <1>1 DEF AllInv, SafeInv, QuietInv, Stuck
  <1> QED BY <1>2 DEF AtRest, Ready

\* An unfinished journal whose owner is not running is all that there is to recover.
LEMMA OrphanIsRecoverable ==
    ASSUME Undoable, AllInv, NEW p \in Processes, ~Busy(p), pc[p] # "dead",
           NEW t \in Transactions, Unfinished(t), ~OwnerRunning(t)
    PROVE  /\ Only(t) /\ Recoverable(t) /\ ~KillsSpareHolders
           /\ \E d \in Processes : d # p /\ pc[d] = "dead"
  <1>1. PICK d \in Processes :
          /\ my[d].txn = t
          /\ pc[d] \in Journaled \/ (pc[d] = "dead" /\ ~KillsSpareHolders)
    BY DEF AllInv, SafeInv, OwnerInv
  <1>2. pc[d] = "dead" /\ ~KillsSpareHolders /\ d # p
    BY <1>1 DEF OwnerRunning, Alive, Journaled, InstallSteps
  <1>3. \A q \in Processes : q = p \/ q = d
    BY <1>2 DEF Undoable
  <1>4. ~Busy(d)
    BY <1>2 DEF Busy, InstallSteps, RollbackSteps, RepairSteps
  <1>5. AtRest
    BY <1>3, <1>4 DEF AllInv, SafeInv, QuietInv, Stuck
  <1>6. PICK u \in Transactions : Unfinished(u) /\ Only(u) /\ Recoverable(u)
    BY <1>5 DEF AtRest, Ready
  <1>7. u = t
    BY <1>6 DEF Only
  <1> QED BY <1>2, <1>6, <1>7

LEMMA SignLockIsSafe ==
    ASSUME Undoable, AllInv, NEW p \in Processes, SignLock(p)
    PROVE  SafeInv'
  <1> DEFINE r == [my[p] EXCEPT !.turn = 1, !.upto = count]
  <1>1. /\ pc[p] = "sign" /\ UNCHANGED <<at, journal, count>> /\ TypeInv /\ my[p] \in Local
        /\ Fits("sign", my[p], count) /\ count \in Nat /\ ~Busy(p)
        /\ \A q \in Processes : my[q].txn \in Nat /\ my[q].txn <= count
    BY DEF SignLock, AllInv, TypeInv, StoreInv, ProcessInv, Busy, InstallSteps, RollbackSteps, RepairSteps,
           Local, Fits
  <1>2. Holding(p) /\ \A q \in Processes : Holding(q) => q = p
    BY <1>1 DEF Holding, HoldsAt, AllInv, LockInv, HolderInv
  <1>3. \A t \in Transactions : Unfinished(t) => \E q \in Processes : my[q].txn = t
    BY DEF AllInv, SafeInv, OwnerInv
  <1>4. CASE my[p].command = "install"
    <2>1. Goto(p, "recover") /\ Set(p, r)
      BY <1>1, <1>4 DEF SignLock, Recover
    <2>2. r.turn = 1 /\ r.upto = count
      BY <1>1 DEF Local
    <2> HIDE DEF r
    <2>3. Others(p) /\ pc'[p] = "recover" /\ my'[p] = r
      BY <1>1, <2>1, GoesWith
    <2>4. \A t \in Transactions : Unfinished(t) => r.turn <= t /\ t <= r.upto
      BY <1>1, <1>3, <2>2 DEF Transactions
    <2>5. LoopAt(p)'
      BY <1>1, <2>3, <2>4 DEF LoopAt, Unfinished
    <2>6. ~Busy(p)'
      BY <2>3 DEF Busy, InstallSteps, RollbackSteps, RepairSteps
    <2> QED BY <1>1, <2>3, <2>5, <2>6, IdleStep
  <1>5. CASE my[p].command # "install"
    <2>1. Goto(p, "choose") /\ UNCHANGED my
      BY <1>1, <1>5 DEF SignLock
    <2>2. Others(p) /\ pc'[p] = "choose"
      BY <1>1, <2>1, GoesToStep
    <2>3. p \in Operators
      BY <1>1, <1>5 DEF Fits, LockSteps, Locking, AllInv, MemoryInv, KnowInv
    <2>4. Ready
      <3> SUFFICES ASSUME NEW t \in Transactions, Unfinished(t) PROVE FALSE
        BY DEF Ready
      <3>1. PICK q \in Processes : pc[q] \in Journaled \/ (pc[q] = "dead" /\ ~KillsSpareHolders)
        BY DEF AllInv, SafeInv, OwnerInv
      <3>2. q # p
        BY <1>1, <3>1 DEF Journaled, InstallSteps
      <3>3. pc[q] \notin Journaled
        BY <1>2, <3>2 DEF Holding, HoldsAt, Journaled
      <3>4. q \in Mortal
        BY <3>1, <3>3 DEF AllInv, MemoryInv, KnowInv
      <3> QED BY <2>3, <3>1, <3>2, <3>3, <3>4 DEF Undoable
    <2>5. Ready' /\ Occupied(Current)'
      BY <1>1, <1>2, <2>4, HolderFindsRest DEF Ready, Unfinished, Occupied
    <2>6. LoopAt(p)' /\ RollbackAt(p)'
      BY <2>2, <2>5 DEF LoopAt, RecoverySteps, RollbackAt, RollbackIs
    <2>7. InstallAt(p)' /\ RepairAt(p)'
      BY <2>2 DEF InstallAt, InstallIs, InstallSteps, Journaled, SwitchedSteps, UndoSteps,
                  RepairAt, RepairIs, RepairSteps
    <2>8. QuietInv' /\ pc'[p] \notin BeforeReject
      BY <2>2 DEF QuietInv, Busy, RollbackSteps, BeforeReject
    <2> QED BY <1>1, <2>2, <2>6, <2>7, <2>8, AsideStep
  <1> QED BY <1>4, <1>5

LEMMA ReadJournalIsSafe ==
    ASSUME Undoable, AllInv, NEW p \in Processes, ReadJournal(p)
    PROVE  SafeInv'
  <1>1. /\ pc[p] = "recover" /\ "recover" \in RecoverySteps
        /\ UNCHANGED <<at, journal, count>> /\ TypeInv /\ my[p] \in Local
        /\ Fits("recover", my[p], count) /\ count \in 0..MaxTransactions /\ ~Busy(p) /\ LoopAt(p)
        /\ journal \in [Transactions -> [phase : Phases, previous : BOOLEAN]]
    BY DEF ReadJournal, AllInv, SafeInv, TypeInv, StoreInv, ProcessInv, Busy, InstallSteps, RollbackSteps,
           RepairSteps, RecoverySteps
  <1>2. PICK t : t = my[p].turn
    OBVIOUS
  <1>3. PICK n : n = my[p].upto
    OBVIOUS
  <1>4. t \in Nat /\ n \in Nat /\ t >= 1 /\ n <= count
    BY <1>1, <1>2, <1>3 DEF Local, Fits
  <1>5. my[p].command = "install" =>
          \A u \in Transactions : Unfinished(u) => t <= u /\ u <= n
    BY <1>1, <1>2, <1>3 DEF LoopAt
  <1>6. CASE t > n /\ AfterRecovery(p) /\ my[p].command = "install"
    <2>1. Goto(p, "stage") /\ UNCHANGED my
      BY <1>6 DEF AfterRecovery
    <2>2. Others(p) /\ pc'[p] = "stage"
      BY <1>1, <2>1, GoesToStep
    <2>3. Ready
      BY <1>4, <1>5, <1>6 DEF Ready, Transactions
    <2>4. Holding(p)
      BY <1>1, <1>6 DEF Holding, HoldsAt
    <2>5. Ready' /\ Occupied(Current)'
      BY <1>1, <2>3, <2>4, HolderFindsRest DEF Ready, Unfinished, Occupied
    <2>6. LoopAt(p)' /\ InstallAt(p)'
      BY <2>2, <2>5 DEF LoopAt, RecoverySteps, InstallAt, InstallIs, Journaled, SwitchedSteps, UndoSteps
    <2>7. RollbackAt(p)' /\ RepairAt(p)'
      BY <2>2 DEF RollbackAt, RollbackIs, RollbackSteps, RepairAt, RepairIs, RepairSteps
    <2>8. QuietInv' /\ pc'[p] \notin BeforeReject
      BY <2>2 DEF QuietInv, Busy, InstallSteps, BeforeReject
    <2> QED BY <1>1, <2>2, <2>6, <2>7, <2>8, AsideStep
  <1>7. CASE AfterRecovery(p) /\ my[p].command # "install"
    <2> DEFINE again == [[my[p] EXCEPT !.command = "recheck", !.place = known]
                           EXCEPT !.turn = 1, !.upto = count]
               noted == [my[p] EXCEPT !.place = known]
    <2>1. again.command = "recheck"
      BY <1>1 DEF Local
    <2>2. \/ Goto(p, "idle") /\ Set(p, Fresh)
          \/ Goto(p, "recover") /\ Set(p, again)
          \/ Goto(p, "note") /\ Set(p, noted)
          \/ Goto(p, "note") /\ UNCHANGED my
      <3>1. my[p].command \in {"install", "status", "check", "recheck", "channel"}
        BY <1>1 DEF Fits
      <3> QED BY <1>7, <3>1 DEF AfterRecovery, Recover, Return
    <2> HIDE DEF again, noted
    <2>3. Others(p) /\ (pc'[p] \in {"idle", "note"} \/ (pc'[p] = "recover" /\ my'[p].command = "recheck"))
      BY <1>1, <2>1, <2>2, GoesWith, GoesToStep
    <2>4. LoopAt(p)' /\ ~Busy(p)'
      BY <2>3 DEF LoopAt, RecoverySteps, Busy, InstallSteps, RollbackSteps, RepairSteps
    <2> QED BY <1>1, <2>3, <2>4, IdleStep
  <1>8. CASE ~(t > n) /\ Unfinished(t) /\ ~OwnerRunning(t)
    <2> DEFINE r == [my[p] EXCEPT !.phase = journal[t].phase, !.previous = journal[t].previous]
    <2>1. Goto(p, "judge") /\ Set(p, r)
      BY <1>2, <1>3, <1>8 DEF ReadJournal
    <2>2. t \in Transactions
      BY <1>1, <1>4, <1>8 DEF Transactions
    <2>3. /\ Only(t) /\ Recoverable(t) /\ ~KillsSpareHolders
          /\ \E d \in Processes : d # p /\ pc[d] = "dead"
      BY <1>1, <1>8, <2>2, OrphanIsRecoverable
    <2>4. /\ r.turn = t /\ r.upto = n /\ r.command = my[p].command
          /\ r.phase = journal[t].phase /\ r.previous = journal[t].previous
      BY <1>1, <1>2, <1>3 DEF Local
    <2> HIDE DEF r
    <2>5. Others(p) /\ pc'[p] = "judge" /\ my'[p] = r
      BY <1>1, <2>1, GoesWith
    <2>6. LoopAt(p)'
      BY <1>1, <1>5, <2>4, <2>5 DEF LoopAt, Unfinished
    <2>7. PICK phase, previous : phase = journal[t].phase /\ previous = journal[t].previous
      OBVIOUS
    <2>8. RepairIs("judge", t, phase, previous)'
      <3>1. \E d \in Processes : pc'[d] = "dead"
        BY <2>3, <2>5 DEF Others
      <3>2. journal[t].previous
        BY <2>3 DEF Recoverable
      <3> QED BY <1>1, <1>8, <2>2, <2>3, <2>7, <3>1, <3>2
          DEF RepairIs, Unfinished, Only, Recoverable, Occupied, Prev, KillsSpareHolders
    <2>9. RepairAt(p)'
      BY <2>4, <2>5, <2>7, <2>8 DEF RepairAt
    <2>10. InstallAt(p)' /\ RollbackAt(p)'
      BY <2>5 DEF InstallAt, InstallIs, InstallSteps, Journaled, SwitchedSteps, UndoSteps,
                  RollbackAt, RollbackIs, RollbackSteps
    <2>11. QuietInv' /\ pc'[p] \notin BeforeReject
      BY <2>5 DEF QuietInv, Busy, RepairSteps, BeforeReject
    <2> QED BY <1>1, <2>5, <2>6, <2>9, <2>10, <2>11, AsideStep
  <1>9. CASE ~(t > n) /\ ~(Unfinished(t) /\ ~OwnerRunning(t))
    <2> DEFINE r == [my[p] EXCEPT !.turn = t + 1]
    <2>1. Goto(p, "recover") /\ Set(p, r)
      BY <1>2, <1>3, <1>9 DEF ReadJournal
    <2>2. r.turn = t + 1 /\ r.upto = n /\ r.command = my[p].command
      BY <1>1, <1>3 DEF Local
    <2> HIDE DEF r
    <2>3. Others(p) /\ pc'[p] = "recover" /\ my'[p] = r
      BY <1>1, <2>1, GoesWith
    <2>4. t \in Transactions
      BY <1>1, <1>4, <1>9 DEF Transactions
    <2>5. my[p].command = "install" => ~Unfinished(t)
      <3> SUFFICES ASSUME my[p].command = "install", Unfinished(t) PROVE FALSE
        OBVIOUS
      <3>1. PICK q \in Processes : Alive(q) /\ my[q].txn = t
        BY <1>9 DEF OwnerRunning
      <3>2. PICK d \in Processes : my[d].txn = t /\ (pc[d] \in Journaled \/ pc[d] = "dead")
        BY <2>4 DEF AllInv, SafeInv, OwnerInv
      <3>3. q = d
        BY <1>4, <3>1, <3>2 DEF AllInv, MemoryInv, UniqueInv
      <3>4. pc[d] \in Journaled
        BY <3>1, <3>2, <3>3 DEF Alive
      <3>5. Holding(d) /\ Holding(p) /\ d # p
        BY <1>1, <3>4 DEF Holding, HoldsAt, Journaled, InstallSteps
      <3> QED BY <3>5 DEF AllInv, LockInv, HolderInv
    <2>6. my[p].command = "install" =>
            \A u \in Transactions : Unfinished(u) => t + 1 <= u /\ u <= n
      <3>1. \A u \in Nat : t <= u /\ u # t => t + 1 <= u
        BY <1>4
      <3> QED BY <1>5, <2>5, <3>1 DEF Transactions
    <2>7. LoopAt(p)'
      BY <1>1, <2>2, <2>3, <2>6 DEF LoopAt, Unfinished
    <2>8. ~Busy(p)'
      BY <2>3 DEF Busy, InstallSteps, RollbackSteps, RepairSteps
    <2> QED BY <1>1, <2>3, <2>7, <2>8, IdleStep
  <1>10. t > n => AfterRecovery(p)
    BY <1>2, <1>3 DEF ReadJournal
  <1> QED BY <1>6, <1>7, <1>8, <1>9, <1>10

LEMMA ReportRecoveryIsSafe ==
    ASSUME Undoable, AllInv, NEW p \in Processes, ReportRecovery(p)
    PROVE  SafeInv'
  <1> DEFINE r == [my[p] EXCEPT !.turn = @ + 1]
  <1>1. /\ pc[p] = "report" /\ "report" \in RecoverySteps \ {"recover"}
        /\ UNCHANGED <<at, journal, count>> /\ TypeInv /\ my[p] \in Local /\ ~Busy(p) /\ LoopAt(p)
        /\ Goto(p, "recover") /\ Set(p, r)
    BY DEF ReportRecovery, AllInv, SafeInv, TypeInv, ProcessInv, Busy, InstallSteps, RollbackSteps,
           RepairSteps, RecoverySteps
  <1>2. PICK t \in Transactions : t = my[p].turn
    BY <1>1, TurnIsTransaction
  <1>3. r.turn = t + 1 /\ r.upto = my[p].upto /\ r.command = my[p].command
    BY <1>1, <1>2 DEF Local
  <1> HIDE DEF r
  <1>4. Others(p) /\ pc'[p] = "recover" /\ my'[p] = r
    BY <1>1, GoesWith
  <1>5. my[p].command = "install" =>
          \A u \in Transactions : Unfinished(u) => t + 1 <= u /\ u <= my[p].upto
    <2>1. \A u \in Transactions : t <= u /\ u # t => t + 1 <= u
      BY DEF Transactions
    <2> QED BY <1>1, <1>2, <2>1 DEF LoopAt
  <1>6. LoopAt(p)'
    BY <1>1, <1>3, <1>4, <1>5 DEF LoopAt, Unfinished
  <1>7. ~Busy(p)'
    BY <1>4 DEF Busy, InstallSteps, RollbackSteps, RepairSteps
  <1> QED BY <1>1, <1>4, <1>6, <1>7, IdleStep

\* What only has to do with the lock, with update-state.json or with the start of a command.
LEMMA OthersAreSafe ==
    ASSUME AllInv, NEW p \in Processes,
           \/ CreateLock(p) \/ InspectLock(p) \/ UnlinkLock(p) \/ ReleaseLock(p) \/ WriteNote(p)
           \/ \E c \in Commands : Begin(p, c)
    PROVE  SafeInv'
  <1>1. /\ UNCHANGED <<at, journal, count>> /\ TypeInv
        /\ pc[p] \in {"lock", "inspect", "unlink", "release", "note", "idle"}
    BY DEF CreateLock, InspectLock, UnlinkLock, ReleaseLock, WriteNote, Begin, AllInv
  <1>2. CASE \E c \in Commands : Begin(p, c)
    <2>1. PICK c \in Commands : Begin(p, c)
      BY <1>2
    <2> DEFINE r == [Fresh EXCEPT !.command = c]
               x == [r EXCEPT !.turn = 1, !.upto = count]
    <2>2. \/ Goto(p, "lock") /\ Set(p, r)
          \/ c # "install" /\ Goto(p, "recover") /\ Set(p, x)
      BY <2>1 DEF Begin, Recover, Locking
    <2>3. x.command = c
      BY DEF Fresh
    <2> HIDE DEF r, x
    <2>4. Others(p) /\ (pc'[p] = "lock" \/ (pc'[p] = "recover" /\ my'[p].command # "install"))
      BY <1>1, <2>2, <2>3, GoesWith
    <2>5. LoopAt(p)' /\ ~Busy(p)' /\ ~Busy(p) /\ pc[p] # "dead"
      BY <1>1, <2>4 DEF LoopAt, RecoverySteps, Busy, InstallSteps, RollbackSteps, RepairSteps
    <2> QED BY <1>1, <2>4, <2>5, IdleStep
  <1>3. CASE CreateLock(p) \/ InspectLock(p) \/ UnlinkLock(p) \/ ReleaseLock(p) \/ WriteNote(p)
    <2>1. \E s \in {"idle", "sign", "inspect", "unlink", "lock"} :
            Goto(p, s) /\ (UNCHANGED my \/ \E r : Set(p, r))
      BY <1>3 DEF CreateLock, InspectLock, UnlinkLock, ReleaseLock, WriteNote, Return
    <2>2. Others(p) /\ pc'[p] \in {"idle", "sign", "inspect", "unlink", "lock"}
      BY <1>1, <2>1, GoesWith, GoesToStep
    <2>3. LoopAt(p)' /\ ~Busy(p)' /\ ~Busy(p) /\ pc[p] # "dead"
      BY <1>1, <2>2 DEF LoopAt, RecoverySteps, Busy, InstallSteps, RollbackSteps, RepairSteps
    <2> QED BY <1>1, <2>2, <2>3, IdleStep
  <1> QED BY <1>2, <1>3

\* A killed installation leaves a journal that can be recovered from; a killed recovery
\* leaves nobody who could.
LEMMA KillIsSafe ==
    ASSUME Undoable, AllInv, NEW p \in Processes, Kill(p)
    PROVE  SafeInv'
  <1>1. /\ pc[p] \in Interruptible /\ Goto(p, "dead") /\ UNCHANGED <<at, journal, count, my>> /\ TypeInv
    BY DEF Kill, AllInv
  <1>2. pc[p] # "dead"
    BY <1>1 DEF UpdateAssumption, Steps, LockSteps, RecoverySteps, InstallSteps, RollbackSteps
  <1>3. Others(p) /\ pc'[p] = "dead" /\ my'[p] = my[p]
    BY <1>1, GoesToStep
  <1>4. ~Busy(p)' /\ LoopAt(p)' /\ pc'[p] \notin BeforeReject
    BY <1>3 DEF Busy, LoopAt, InstallSteps, RollbackSteps, RepairSteps, RecoverySteps, BeforeReject
  <1>5. InstallAt(p)' /\ RollbackAt(p)' /\ RepairAt(p)'
    BY <1>3 DEF InstallAt, InstallIs, InstallSteps, Journaled, SwitchedSteps, UndoSteps,
                RollbackAt, RollbackIs, RollbackSteps, RepairAt, RepairIs, RepairSteps
  <1>6. FailedInv'
    BY <1>1, <1>3, <1>4, FailedStays DEF Occupied
  <1>7. CASE ~Busy(p)
    BY <1>1, <1>2, <1>3, <1>4, <1>7, IdleStep
  <1>8. CASE pc[p] \in RepairSteps
    <2>1. PICK t \in Transactions : t = my[p].turn
      BY <1>8, RepairNow
    <2>2. RepairIs(pc[p], t, my[p].phase, my[p].previous) /\ Busy(p)
      BY <1>8, <2>1, RepairNow
    <2>3. Unfinished(t) /\ ~KillsSpareHolders /\ \E d \in Processes : pc[d] = "dead"
      BY <1>8, <2>2 DEF RepairIs
    <2>4. \A q \in Processes : pc'[q] = "dead"
      BY <1>2, <1>3, <2>3 DEF Undoable, Others
    <2>5. Stuck'
      BY <1>1, <2>3, <2>4 DEF Stuck, Ready, Unfinished
    <2>6. OwnerInv'
      <3>1. pc[p] \notin Journaled \cup {"dead"}
        BY <1>8 DEF RepairSteps, Journaled, InstallSteps
      <3>2. \A u \in Transactions : Unfinished(u)' => Unfinished(u)
        BY <1>1 DEF Unfinished
      <3> QED BY <1>3, <3>1, <3>2, OwnersStay DEF AllInv, SafeInv
    <2> QED BY <1>3, <1>4, <1>5, <1>6, <2>2, <2>5, <2>6, BusyStep
  <1>9. CASE pc[p] \in InstallSteps \cup RollbackSteps
    <2>1. ~KillsSpareHolders
      BY <1>1, <1>9 DEF KillsSpareHolders
    <2>2. pc[p] \in InstallSteps \ UndoSteps
      BY <1>1, <1>9, <2>1 DEF Undoable
    <2>3. PICK s \in InstallSteps \ UndoSteps : pc[p] = s
      BY <2>2
    <2>4. InstallIs(s, my[p].txn, my[p].saved)
      BY <2>3 DEF AllInv, SafeInv, InstallAt
    <2>5. CASE s \in {"stage", "prepare"}
      <3>1. Ready' /\ Occupied(Current)'
        BY <1>1, <2>4, <2>5 DEF InstallIs, Ready, Unfinished, Occupied
      <3>2. AtRest' /\ OwnerInv'
        BY <3>1 DEF AtRest, OwnerInv, Ready
      <3> QED BY <1>3, <1>4, <1>5, <1>6, <1>9, <3>2, BusyStep DEF Busy
    <2>6. CASE s \notin {"stage", "prepare"}
      <3>1. PICK t \in Transactions : t = my[p].txn
        BY <2>3, <2>6, InstallNow
      <3>2. s \in Journaled /\ Unfinished(t) /\ Only(t) /\ journal[t].previous
        BY <2>4, <2>6, <3>1 DEF InstallIs, Journaled
      <3>3. s \in {"save", "saved", "activate", "revert"} \cup SwitchedSteps
        BY <2>6 DEF InstallSteps, UndoSteps, SwitchedSteps
      <3>4. Recoverable(t)
        BY <2>4, <3>1, <3>2, <3>3 DEF InstallIs, Recoverable
      <3>5. Unfinished(t)' /\ Only(t)' /\ Recoverable(t)'
        BY <1>1, <3>2, <3>4 DEF Unfinished, Only, Recoverable, Occupied, Prev
      <3>6. AtRest'
        BY <3>5 DEF AtRest
      <3>7. OwnerInv'
        BY <1>3, <2>1, <3>1, <3>5 DEF OwnerInv, Only, KillsSpareHolders
      <3> QED BY <1>3, <1>4, <1>5, <1>6, <1>9, <3>6, <3>7, BusyStep DEF Busy
    <2> QED BY <2>5, <2>6
  <1> QED BY <1>7, <1>8, <1>9 DEF Busy

LEMMA InitSafe ==
    ASSUME Init, HasInstallation
    PROVE  SafeInv
  <1>1. /\ \A p \in Processes : pc[p] = "idle"
        /\ \A t \in Transactions : journal[t].phase = "none"
        /\ at = [x \in Places |-> IF x = Current THEN First ELSE None]
    BY DEF Init
  <1>2. Ready
    BY <1>1 DEF Ready, Unfinished
  <1>3. Occupied(Current)
    BY <1>1, PlacesAre DEF Occupied, UpdateAssumption, Builds
  <1>4. QuietInv /\ OwnerInv
    BY <1>2, <1>3 DEF QuietInv, AtRest, OwnerInv, Ready
  <1>5. FailedInv
    <2>1. \A t \in Transactions : ~Occupied(Place("failed", t))
      BY <1>1, PlacesAre, Apart DEF Kinds, Occupied
    <2> QED BY <2>1 DEF FailedInv
  <1>6. ASSUME NEW p \in Processes
        PROVE  LoopAt(p) /\ InstallAt(p) /\ RollbackAt(p) /\ RepairAt(p)
    BY <1>1 DEF LoopAt, RecoverySteps, InstallAt, InstallIs, InstallSteps, Journaled, SwitchedSteps, UndoSteps,
                RollbackAt, RollbackIs, RollbackSteps, RepairAt, RepairIs, RepairSteps
  <1> QED BY <1>4, <1>5, <1>6 DEF SafeInv

LEMMA StepSafe ==
    ASSUME Undoable, AllInv, [Next]_vars
    PROVE  SafeInv'
  <1>1. CASE UNCHANGED vars
    <2>1. /\ \A t \in Transactions : (Unfinished(t)' <=> Unfinished(t)) /\ (Recoverable(t)' <=> Recoverable(t))
                                     /\ (Only(t)' <=> Only(t))
          /\ \A x : Occupied(x)' <=> Occupied(x)
      BY <1>1 DEF vars, Unfinished, Only, Recoverable, Occupied, Prev
    <2>2. (Ready' <=> Ready) /\ (AtRest' <=> AtRest) /\ \A p \in Processes : Busy(p)' <=> Busy(p)
      BY <1>1, <2>1 DEF vars, Ready, AtRest, Busy
    <2>3. QuietInv' /\ OwnerInv' /\ FailedInv'
      BY <1>1, <2>1, <2>2 DEF AllInv, SafeInv, vars, QuietInv, Stuck, OwnerInv, FailedInv, KillsSpareHolders
    <2>4. ASSUME NEW p \in Processes
          PROVE  (LoopAt(p) /\ InstallAt(p) /\ RollbackAt(p) /\ RepairAt(p))'
      <3>1. LoopAt(p) /\ InstallAt(p) /\ RollbackAt(p) /\ RepairAt(p)
        BY DEF AllInv, SafeInv
      <3>2. LoopAt(p)' /\ RollbackAt(p)'
        BY <1>1, <2>1, <2>2, <3>1 DEF vars, LoopAt, RollbackAt, RollbackIs
      <3>3. InstallAt(p)'
        BY <1>1, <3>1 DEF vars, InstallAt, InstallIs, Ready, Only, Unfinished, Occupied, Prev
      <3>4. RepairAt(p)'
        BY <1>1, <3>1 DEF vars, RepairAt, RepairIs, Only, Unfinished, Recoverable, Occupied, Prev, KillsSpareHolders
      <3> QED BY <3>2, <3>3, <3>4
    <2> QED BY <2>3, <2>4 DEF SafeInv
  <1>2. ASSUME NEW p \in Processes, Step(p)
        PROVE  SafeInv'
    <2>1. CASE LockStep(p) \/ WriteNote(p)
      BY <2>1, SignLockIsSafe, OthersAreSafe DEF LockStep
    <2>2. CASE RecoveryStep(p)
      BY <2>2, ReadJournalIsSafe, LooksAreSafe, PutsAreSafe, WriteRecoveredIsSafe, ReportRecoveryIsSafe
      DEF RecoveryStep
    <2>3. CASE InstallStep(p)
      BY <2>3, StageIsSafe, PrepareIsSafe, SavePreviousIsSafe, ReportsAreSafe, WritePhaseIsSafe,
         ActivateIsSafe, RejectIsSafe, RevertIsSafe, FinishIsSafe
      DEF InstallStep
    <2>4. CASE RollbackStep(p)
      BY <2>4, RollbackIsSafe
    <2> QED BY <1>2, <2>1, <2>2, <2>3, <2>4 DEF Step
  <1>3. ASSUME NEW p \in Processes, Kill(p)
        PROVE  SafeInv'
    BY <1>3, KillIsSafe
  <1>4. ASSUME NEW p \in Processes, NEW c \in Commands, Begin(p, c)
        PROVE  SafeInv'
    BY <1>4, OthersAreSafe
  <1> QED BY <1>1, <1>2, <1>3, <1>4 DEF Next

\* Whatever was installed, refused, rolled back, killed and recovered, there is an active
\* installation in the end (InstallationSurvives), under the conditions of Undoable: the
\* models UpdateSystem_activation, _readers and _undo show what happens otherwise.
THEOREM InstallationStays ==
    ASSUME Undoable
    PROVE  Spec => []InstallationSurvives
  <1>1. CASE HasInstallation
    <2>1. Init => AllInv
      BY <1>1, InitTypes, InitLock, InitMemory, InitSafe DEF AllInv
    <2>2. AllInv /\ [Next]_vars => AllInv'
      BY StepTypes, StepLock, StepMemory, StepSafe, UndoableIsUncontended DEF AllInv
    <2>3. AllInv => InstallationSurvives
      <3> SUFFICES ASSUME AllInv, Settled PROVE Occupied(Current)
        BY DEF InstallationSurvives
      <3>1. \A p \in Processes : ~Busy(p)
        BY DEF Settled, Alive, Busy, InstallSteps, RollbackSteps, RepairSteps
      <3>2. Ready
        BY DEF Settled, Ready
      <3> QED BY <3>1, <3>2 DEF AllInv, SafeInv, QuietInv, AtRest, Stuck, Ready
    <2> QED BY <2>1, <2>2, <2>3, PTL DEF Spec
  <1>2. CASE ~HasInstallation
    <2>1. InstallationSurvives
      BY <1>2 DEF InstallationSurvives
    <2> QED BY <2>1, PTL
  <1> QED BY <1>1, <1>2
=============================================================================
