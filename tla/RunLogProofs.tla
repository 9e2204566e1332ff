----------------------------- MODULE RunLogProofs -----------------------------
(***************************************************************************)
(* The event log, for any number of events and of crashes.                 *)
(*                                                                         *)
(* The types hold whoever writes.  Sequence numbers increase, and nobody   *)
(* goes on with an ended run or ends it again, as long as one process      *)
(* writes at a time; the log stays readable, and state.json refers to one  *)
(* of its events, when moreover resume alone goes on with a run that one   *)
(* crash has cut short in the middle of a line.                            *)
(***************************************************************************)
EXTENDS RunLog, SequenceTheorems, TLAPS

Line == [kind : LineKinds, seq : Nat]

\* One process at a time writes: no recovery while run() is alive, and no second
\* resume while the first one's handler writes without the lock.
SingleWriter ==
    /\ Overlap = FALSE
    /\ Operations \subseteq {"cancel"} \/ \A p, q \in Recoverers : p = q

\* What is left of a line is a fragment, and who goes on repairs it.
Repaired ==
    SingleWriter /\ Operations \subseteq {"resume"} /\ Leftovers \subseteq {"fragment"}
-----------------------------------------------------------------------------
(* The invariants *)

\* Some line is an event, and one such line is the last one (_initialize_bundle
\* writes the first).
LastInv ==
    \E i \in DOMAIN lines :
        /\ lines[i].kind \in EventKinds
        /\ \A j \in DOMAIN lines : lines[j].kind \in EventKinds => j <= i

\* What each process may be doing, and that the others are idle meanwhile.
WriterInv ==
    /\ \A p \in Recoverers :
         pc[p] # "idle" => \/ op[p] \in Operations
                           \/ op[p] \in {"handler", "cleanup"} /\ "resume" \in Operations
    /\ \A p \in Processes :
         pc[p] \in {"load", "repair", "reconcile"} => p \in Recoverers /\ op[p] \in Operations
    /\ \A p \in Recoverers : pc[p] # "idle" /\ op[p] = "cancel" => lock = p
    /\ \A p, q \in Processes : pc[p] # "idle" /\ pc[q] # "idle" => p = q

\* A process that writes has counted every event of the log.
NumberInv ==
    /\ Increasing
    /\ \A p \in Processes :
         pc[p] \notin {"idle", "load"} => \A i \in Events : Physical[i].seq <= last[p]

\* A process that may write more than a note has seen no end, or has written it and
\* removes worktrees.
EndInv ==
    /\ EndIsFinal
    /\ \A p \in Processes :
         /\ pc[p] \in {"repair", "emit"} /\ op[p] # "cleanup" => ~EndLogged
         /\ pc[p] = "snapshot" /\ over[p] = FALSE => ~EndLogged
         /\ pc[p] = "reconcile" => over[p] = TRUE
         /\ pc[p] # "idle" /\ op[p] = "cleanup" => over[p] = TRUE

\* Up to the first crash every event is a line of its own; the crash leaves a
\* fragment at most, which nobody appends to: resume repairs it, or leaves a run alone
\* that has ended and says so in state.json.
OnceInv ==
    crashes <= 1 =>
        /\ \A i \in DOMAIN lines : lines[i].kind \in EventKinds
        /\ tail = Clean \/ tail = [Clean EXCEPT !.kind = "fragment"]
        /\ tail # Clean => /\ crashes = 1 /\ (EndLogged => snapshot.terminal = TRUE)
                           /\ \A p \in Processes : pc[p] \in {"idle", "load", "repair"}
        /\ \A p \in Processes :
             /\ pc[p] = "reconcile" => crashes = 1
             /\ pc[p] = "emit" /\ op[p] = "cleanup" => snapshot.terminal = TRUE
        /\ crashes = 0 /\ EndLogged =>
             \/ snapshot.terminal = TRUE
             \/ \E p \in Processes : pc[p] = "snapshot" /\ over[p] = TRUE

\* What state.json refers to, or will, is in the log.
SnapshotInv ==
    crashes <= 1 =>
        /\ \E i \in DOMAIN lines : lines[i].seq = snapshot.seq
        /\ \A p \in Processes :
             pc[p] = "snapshot" => \E i \in DOMAIN lines : lines[i].seq = last[p]
-----------------------------------------------------------------------------
(* What a reader finds *)

\* The events of a file are the event lines and, at the end, a whole object that
\* lacks its line feed (read_jsonl_tolerant).
LEMMA ReaderFinds ==
    ASSUME NEW L \in Seq(Line), NEW T \in [kind : TailKinds, seq : Nat],
           NEW P, P = IF T.kind \in EventKinds THEN Append(L, T) ELSE L
    PROVE  /\ \A i : i \in {k \in DOMAIN P : P[k].kind \in EventKinds} <=>
                  \/ i \in DOMAIN L /\ L[i].kind \in EventKinds
                  \/ i = Len(L) + 1 /\ T.kind \in EventKinds
           /\ \A i \in DOMAIN L : P[i] = L[i]
           /\ T.kind \in EventKinds => P[Len(L) + 1] = T
  <1>1. CASE T.kind \in EventKinds
    <2>1. T \in Line
      BY <1>1 DEF Line, LineKinds
    <2>2. /\ Append(L, T) \in Seq(Line) /\ Len(Append(L, T)) = Len(L) + 1
          /\ \A i \in 1 .. Len(L) : Append(L, T)[i] = L[i]
          /\ Append(L, T)[Len(L) + 1] = T
      BY <2>1, AppendProperties
    <2>3. /\ Len(L) \in Nat /\ DOMAIN L = 1 .. Len(L)
          /\ DOMAIN P = 1 .. Len(L) + 1
      BY <1>1, <2>2, LenProperties
    <2> QED BY <1>1, <2>2, <2>3
  <1>2. CASE T.kind \notin EventKinds
    BY <1>2
  <1> QED BY <1>1, <1>2

\* The events and their places, now ...
LEMMA Found ==
    ASSUME TypeOK
    PROVE  /\ \A i : i \in Events <=>
                  \/ i \in DOMAIN lines /\ lines[i].kind \in EventKinds
                  \/ i = Len(lines) + 1 /\ tail.kind \in EventKinds
           /\ \A i \in DOMAIN lines : Physical[i] = lines[i]
           /\ tail.kind \in EventKinds => Physical[Len(lines) + 1] = tail
  <1>1. lines \in Seq(Line) /\ tail \in [kind : TailKinds, seq : Nat]
    BY DEF TypeOK, Line
  <1> QED BY <1>1, ReaderFinds DEF Events, Physical

\* ... and after a step.
LEMMA FoundNext ==
    ASSUME TypeOK'
    PROVE  /\ \A i : i \in Events' <=>
                  \/ i \in DOMAIN lines' /\ lines'[i].kind \in EventKinds
                  \/ i = Len(lines') + 1 /\ tail'.kind \in EventKinds
           /\ \A i \in DOMAIN lines' : Physical'[i] = lines'[i]
           /\ tail'.kind \in EventKinds => Physical'[Len(lines') + 1] = tail'
  <1>1. lines' \in Seq(Line) /\ tail' \in [kind : TailKinds, seq : Nat]
    BY DEF TypeOK, Line
  <1> QED BY <1>1, ReaderFinds DEF Events, Physical

\* Lines are numbered from 1.
LEMMA LinesAre ==
    ASSUME TypeOK
    PROVE  /\ Len(lines) \in Nat /\ DOMAIN lines = 1 .. Len(lines)
           /\ \A i \in DOMAIN lines : lines[i] \in Line
  <1>1. lines \in Seq(Line)
    BY DEF TypeOK, Line
  <1> QED BY <1>1, LenProperties, ElementOfSeq

\* The last event is there, and every event has a number (RunStore.open_existing).
LEMMA LastIsThere ==
    ASSUME TypeOK, LastInv
    PROVE  /\ LastEvent \in Events /\ \A j \in Events : j <= LastEvent
           /\ \A j \in Events : j \in Nat /\ Physical[j].seq \in Nat
           /\ LastSequence \in Nat
  <1>1. \E i \in Events : \A j \in Events : j <= i
    <2>1. CASE tail.kind \in EventKinds
      BY <2>1, Found, LinesAre
    <2>2. CASE tail.kind \notin EventKinds
      BY <2>2, Found, LinesAre DEF LastInv
    <2> QED BY <2>1, <2>2
  <1>2. LastEvent \in Events /\ \A j \in Events : j <= LastEvent
    BY <1>1 DEF LastEvent
  <1>3. \A j \in Events : j \in Nat /\ Physical[j].seq \in Nat
    <2>1. tail.seq \in Nat
      BY DEF TypeOK
    <2> QED BY <2>1, Found, LinesAre DEF Line
  <1> QED BY <1>2, <1>3 DEF LastSequence
-----------------------------------------------------------------------------
(* The types, and the last event *)

\* An event is written after the last line, or spoils it (append_jsonl_durable).
LEMMA Appended ==
    ASSUME TypeOK, LastInv, NEW p \in Processes, NEW kind \in EventKinds,
           AppendEvent(p, kind)
    PROVE  \E line \in Line :
             /\ lines' = Append(lines, line) /\ lines' \in Seq(Line)
             /\ Len(lines') = Len(lines) + 1 /\ DOMAIN lines' = 1 .. Len(lines) + 1
             /\ \A i \in DOMAIN lines : lines'[i] = lines[i]
             /\ lines'[Len(lines) + 1] = line
             /\ \/ tail = Clean /\ line = [kind |-> kind, seq |-> last[p] + 1]
                \/ tail # Clean /\ line \in {Malformed, Open}
  <1>1. last[p] + 1 \in Nat
    BY DEF TypeOK
  <1>2. [kind |-> kind, seq |-> last[p] + 1] \in Line
    BY <1>1 DEF Line, LineKinds
  <1>3. Malformed \in Line /\ Open \in Line
    BY DEF Line, LineKinds, Malformed, Open
  <1>4. PICK line \in Written([kind |-> kind, seq |-> last[p] + 1]) :
          lines' = Append(lines, line)
    BY DEF AppendEvent
  <1>5. \/ tail = Clean /\ line = [kind |-> kind, seq |-> last[p] + 1]
        \/ tail # Clean /\ line \in {Malformed, Open}
    BY <1>4 DEF Written
  <1>6. line \in Line
    BY <1>2, <1>3, <1>5
  <1>7. lines \in Seq(Line)
    BY DEF TypeOK, Line
  <1>8. /\ lines' \in Seq(Line) /\ Len(lines') = Len(lines) + 1
        /\ \A i \in 1 .. Len(lines) : lines'[i] = lines[i]
        /\ lines'[Len(lines) + 1] = line
    BY <1>4, <1>6, <1>7, AppendProperties
  <1>9. DOMAIN lines = 1 .. Len(lines) /\ DOMAIN lines' = 1 .. Len(lines')
    BY <1>7, <1>8, LenProperties
  <1> QED BY <1>4, <1>5, <1>6, <1>8, <1>9

LEMMA AppendTypes ==
    ASSUME TypeOK, LastInv, NEW p \in Processes, NEW kind \in EventKinds,
           AppendEvent(p, kind)
    PROVE  TypeOK' /\ LastInv'
  <1>1. PICK line \in Line :
          /\ lines' \in Seq(Line) /\ DOMAIN lines' = 1 .. Len(lines) + 1
          /\ \A i \in DOMAIN lines : lines'[i] = lines[i]
          /\ lines'[Len(lines) + 1] = line
    BY Appended
  <1>2. UNCHANGED <<snapshot, lock, crashes>> /\ tail' = Clean
    BY DEF AppendEvent
  <1>3. /\ last' \in [Processes -> Nat]
        /\ over' \in [Processes -> BOOLEAN]
        /\ op' \in [Processes -> {"run", "resume", "cancel", "handler", "cleanup"}]
        /\ pc' \in [Processes -> {"idle", "load", "repair", "reconcile", "emit", "snapshot"}]
    BY DEF AppendEvent, AfterEvent, Follows, TypeOK
  <1>4. TypeOK'
    BY <1>1, <1>2, <1>3 DEF TypeOK, Line, Clean, TailKinds
  <1>5. LastInv'
    <2>1. CASE line.kind \in EventKinds
      BY <1>1, <2>1, LinesAre DEF LastInv
    <2>2. CASE line.kind \notin EventKinds
      <3>1. PICK i \in DOMAIN lines :
              /\ lines[i].kind \in EventKinds
              /\ \A j \in DOMAIN lines : lines[j].kind \in EventKinds => j <= i
        BY DEF LastInv
      <3>2. i \in DOMAIN lines' /\ lines'[i].kind \in EventKinds
        BY <1>1, <3>1, LinesAre
      <3>3. ASSUME NEW j \in DOMAIN lines', lines'[j].kind \in EventKinds PROVE j <= i
        <4>1. j \in DOMAIN lines
          BY <1>1, <2>2, <3>3, LinesAre
        <4> QED BY <1>1, <3>1, <3>3, <4>1
      <3> QED BY <3>2, <3>3 DEF LastInv
    <2> QED BY <2>1, <2>2
  <1> QED BY <1>4, <1>5

LEMMA CrashTypes ==
    ASSUME TypeOK, LastInv, NEW p \in Processes, Crash(p)
    PROVE  TypeOK' /\ LastInv'
  <1>1. UNCHANGED <<lines, snapshot, op, last, over>>
    BY DEF Crash
  <1>2. tail' \in [kind : TailKinds, seq : Nat]
    <2>1. CASE UNCHANGED tail
      BY <2>1 DEF TypeOK
    <2>2. ASSUME NEW kind \in EventKinds,
                 tail' \in Partial([kind |-> kind, seq |-> last[p] + 1])
          PROVE  tail' \in [kind : TailKinds, seq : Nat]
      <3>1. last[p] + 1 \in Nat
        BY DEF TypeOK
      <3>2. [kind |-> kind, seq |-> last[p] + 1] \in [kind : TailKinds, seq : Nat]
        BY <3>1 DEF TailKinds
      <3>3. /\ [Clean EXCEPT !.kind = "fragment"] \in [kind : TailKinds, seq : Nat]
            /\ [kind |-> "garbage", seq |-> 0] \in [kind : TailKinds, seq : Nat]
        BY DEF TailKinds, Clean
      <3> QED BY <2>2, <3>2, <3>3 DEF Partial
    <2> QED BY <2>1, <2>2 DEF Crash
  <1>3. lock' \in {Free} \cup Recoverers
    BY DEF Crash, Release, TypeOK
  <1>4. /\ crashes' \in 0 .. MaxCrashes
        /\ pc' \in [Processes -> {"idle", "load", "repair", "reconcile", "emit", "snapshot"}]
    BY RunLogAssumption DEF Crash, TypeOK
  <1> QED BY <1>1, <1>2, <1>3, <1>4 DEF TypeOK, LastInv

LEMMA LoadTypes ==
    ASSUME TypeOK, LastInv, NEW p \in Processes, Load(p)
    PROVE  TypeOK' /\ LastInv'
  <1>1. UNCHANGED <<lines, tail, snapshot, op, crashes>>
    BY DEF Load
  <1>2. pc' \in [Processes -> {"idle", "load", "repair", "reconcile", "emit", "snapshot"}]
    BY DEF Load, AfterLoad, TypeOK
  <1>3. lock' \in {Free} \cup Recoverers
    BY DEF Load, Release, TypeOK
  <1>4. EndLogged \in BOOLEAN
    BY DEF EndLogged
  <1>5. LastSequence \in Nat
    BY LastIsThere
  <1>6. last' \in [Processes -> Nat]
    BY <1>5 DEF Load, TypeOK
  <1>7. over' \in [Processes -> BOOLEAN]
    <2>1. \A b \in BOOLEAN : [over EXCEPT ![p] = b] \in [Processes -> BOOLEAN]
      BY DEF TypeOK
    <2>2. [over EXCEPT ![p] = EndLogged] \in [Processes -> BOOLEAN]
      BY <1>4, <2>1
    <2>3. over' = over \/ over' = [over EXCEPT ![p] = EndLogged]
      BY DEF Load
    <2> QED BY <2>2, <2>3 DEF TypeOK
  <1> QED BY <1>1, <1>2, <1>3, <1>6, <1>7 DEF TypeOK, LastInv

LEMMA OtherTypes ==
    ASSUME TypeOK, LastInv, NEW p \in Processes,
           PersistState(p) \/ Start(p) \/ Repair(p) \/ Raise(p)
    PROVE  TypeOK' /\ LastInv'
  <1>1. CASE PersistState(p)
    <2>1. UNCHANGED <<lines, tail, op, last, over, crashes>>
      BY <1>1 DEF PersistState
    <2>2. snapshot' \in [seq : Nat, terminal : BOOLEAN]
      <3>1. snapshot' = [seq |-> last[p], terminal |-> over[p]]
        BY <1>1 DEF PersistState
      <3>2. last[p] \in Nat /\ over[p] \in BOOLEAN
        BY DEF TypeOK
      <3> QED BY <3>1, <3>2
    <2>3. pc' \in [Processes -> {"idle", "load", "repair", "reconcile", "emit", "snapshot"}]
      <3>1. pc' = [pc EXCEPT ![p] = "idle"] \/ pc' = [pc EXCEPT ![p] = "emit"]
        BY <1>1 DEF PersistState, GoesOn
      <3> QED BY <3>1 DEF TypeOK
    <2>4. lock' \in {Free} \cup Recoverers
      BY <1>1 DEF PersistState, GoesOn, Release, TypeOK
    <2> QED BY <2>1, <2>2, <2>3, <2>4 DEF TypeOK, LastInv
  <1>2. CASE Start(p)
    BY <1>2, RunLogAssumption DEF Start, TypeOK, LastInv
  <1>3. CASE Repair(p)
    BY <1>3 DEF Repair, TypeOK, LastInv, Clean, TailKinds
  <1>4. CASE Raise(p)
    BY <1>4 DEF Raise, Release, TypeOK, LastInv
  <1> QED BY <1>1, <1>2, <1>3, <1>4

LEMMA InitTypes == Init => TypeOK /\ LastInv
  <1> SUFFICES ASSUME Init PROVE TypeOK /\ LastInv
    OBVIOUS
  <1>1. lines \in Seq(Line) /\ DOMAIN lines = {1} /\ lines[1].kind = "step"
    BY DEF Init, Line, LineKinds, EventKinds
  <1>2. tail \in [kind : TailKinds, seq : Nat]
    BY DEF Init, Clean, TailKinds
  <1>3. TypeOK
    BY <1>1, <1>2, RunLogAssumption DEF Init, TypeOK, Line
  <1> QED BY <1>1, <1>3 DEF LastInv, EventKinds

LEMMA NextTypes ==
    ASSUME TypeOK, LastInv, [Next]_vars PROVE TypeOK' /\ LastInv'
  <1>1. CASE UNCHANGED vars
    BY <1>1 DEF vars, TypeOK, LastInv
  <1>2. CASE Next
    BY <1>2, AppendTypes, CrashTypes, LoadTypes, OtherTypes DEF Next
  <1> QED BY <1>1, <1>2

\* Whoever writes, and whatever a crash leaves, the file holds lines and a tail of the
\* kinds a reader knows, and every process counts with numbers (RunStore, durable_io).
THEOREM TypeCorrect == Spec => []TypeOK
  <1>1. Init => TypeOK /\ LastInv
    BY InitTypes
  <1>2. (TypeOK /\ LastInv) /\ [Next]_vars => (TypeOK /\ LastInv)'
    BY NextTypes
  <1> QED BY <1>1, <1>2, PTL DEF Spec
-----------------------------------------------------------------------------
(* One writer at a time *)

\* resume and cancel start when nobody else writes (recovery_lock).
LEMMA StartIsAlone ==
    ASSUME SingleWriter, TypeOK, WriterInv, NEW p \in Processes, Start(p),
           NEW q \in Processes, q # p
    PROVE  pc[q] = "idle"
  <1>1. CASE q = "run"
    BY <1>1 DEF Start, SingleWriter
  <1>2. CASE q \in Recoverers /\ \A r, t \in Recoverers : r = t
    BY <1>2 DEF Start
  <1>3. CASE q \in Recoverers /\ Operations \subseteq {"cancel"} /\ pc[q] # "idle"
    <2>1. op[q] = "cancel"
      BY <1>3 DEF WriterInv
    <2>2. lock = q
      BY <1>3, <2>1 DEF WriterInv
    <2> QED BY <1>3, <2>2, RunLogAssumption DEF Start, Free
  <1> QED BY <1>1, <1>2, <1>3 DEF Processes, SingleWriter

LEMMA StartWriter ==
    ASSUME SingleWriter, TypeOK, WriterInv, NEW p \in Processes, Start(p)
    PROVE  WriterInv'
  <1>1. PICK o \in Operations : op' = [op EXCEPT ![p] = o]
    BY DEF Start
  <1>2. /\ p \in Recoverers /\ pc'[p] = "load" /\ op'[p] = o /\ lock' = p
    BY <1>1 DEF Start, TypeOK
  <1>3. \A q \in Processes : q # p => pc'[q] = "idle"
    BY StartIsAlone DEF Start, TypeOK
  <1>4. Recoverers \subseteq Processes
    BY DEF Processes
  <1> QED BY <1>2, <1>3, <1>4 DEF WriterInv

\* What p does leaves the others where they are, and lets none of them hold or lose
\* the lock.
Alone(p) ==
    /\ \A q \in Processes : q # p => pc'[q] = pc[q] /\ op'[q] = op[q]
    /\ lock' = lock \/ (lock = p /\ lock' = Free)

LEMMA LoadAlone ==
    ASSUME TypeOK, WriterInv, NEW p \in Processes, Load(p)
    PROVE  /\ Alone(p) /\ pc[p] = "load" /\ op'[p] = op[p]
           /\ pc'[p] # "idle" => lock' = lock
           /\ pc'[p] \in {"idle", "repair", "reconcile", "emit"}
  BY DEF Load, AfterLoad, Release, Alone, TypeOK

LEMMA OthersAlone ==
    ASSUME TypeOK, WriterInv, NEW p \in Processes,
           \/ \E kind \in EventKinds : AppendEvent(p, kind)
           \/ PersistState(p) \/ Repair(p) \/ Raise(p) \/ Crash(p)
    PROVE  /\ Alone(p) /\ pc[p] # "idle"
           /\ \/ pc'[p] = "idle"
              \/ /\ pc'[p] \in {"emit", "snapshot"}
                 /\ \/ op'[p] = op[p] /\ lock' = lock
                    \/ op[p] \in {"run", "resume"} /\ op'[p] \in {"handler", "cleanup"}
  <1>1. CASE \E kind \in EventKinds : AppendEvent(p, kind)
    BY <1>1 DEF AppendEvent, AfterEvent, Follows, Alone, TypeOK
  <1>2. CASE PersistState(p)
    BY <1>2 DEF PersistState, GoesOn, Release, Alone, TypeOK
  <1>3. CASE Repair(p)
    BY <1>3 DEF Repair, Alone, TypeOK
  <1>4. CASE Raise(p)
    BY <1>4 DEF Raise, Release, Alone, TypeOK
  <1>5. CASE Crash(p)
    BY <1>5 DEF Crash, Release, Alone, TypeOK
  <1> QED BY <1>1, <1>2, <1>3, <1>4, <1>5

\* A process that goes on alone stays the only one (RunStore.recovery_lock).
LEMMA LoadWriter ==
    ASSUME TypeOK, WriterInv, NEW p \in Processes, Load(p) PROVE WriterInv'
  <1>1. /\ Alone(p) /\ pc[p] = "load" /\ op'[p] = op[p]
        /\ pc'[p] # "idle" => lock' = lock
        /\ p \in Recoverers /\ op[p] \in Operations
    BY LoadAlone DEF WriterInv
  <1>2. \A q \in Processes : pc'[q] # "idle" => pc[q] # "idle" /\ op'[q] = op[q]
    BY <1>1 DEF Alone
  <1>3. \A q \in Processes : q # p /\ lock = q => lock' = q
    BY <1>1 DEF Alone
  <1>4. \A q \in Recoverers : pc'[q] # "idle" /\ op'[q] = "cancel" => lock' = q
    BY <1>1, <1>2, <1>3 DEF WriterInv, Processes
  <1>5. \A q \in Processes :
          pc'[q] \in {"load", "repair", "reconcile"} => q \in Recoverers /\ op'[q] \in Operations
    BY <1>1 DEF WriterInv, Alone
  <1> QED BY <1>2, <1>4, <1>5 DEF WriterInv, Processes

LEMMA OthersWriter ==
    ASSUME TypeOK, WriterInv, NEW p \in Processes,
           \/ \E kind \in EventKinds : AppendEvent(p, kind)
           \/ PersistState(p) \/ Repair(p) \/ Raise(p) \/ Crash(p)
    PROVE  WriterInv'
  <1>1. /\ Alone(p) /\ pc[p] # "idle"
        /\ \/ pc'[p] = "idle"
           \/ /\ pc'[p] \in {"emit", "snapshot"}
              /\ \/ op'[p] = op[p] /\ lock' = lock
                 \/ op[p] \in {"run", "resume"} /\ op'[p] \in {"handler", "cleanup"}
    BY OthersAlone
  <1>2. \A q \in Processes : pc'[q] # "idle" => pc[q] # "idle"
    BY <1>1 DEF Alone
  <1>3. \A q \in Processes : q # p /\ lock = q => lock' = q
    BY <1>1 DEF Alone
  <1>4. \A q \in Recoverers : pc'[q] # "idle" /\ op'[q] = "cancel" => lock' = q
    BY <1>1, <1>2, <1>3 DEF WriterInv, Processes, Alone
  <1>5. \A q \in Processes :
          pc'[q] \in {"load", "repair", "reconcile"} => q \in Recoverers /\ op'[q] \in Operations
    BY <1>1 DEF WriterInv, Alone
  <1>6. ASSUME NEW q \in Recoverers, pc'[q] # "idle"
        PROVE  \/ op'[q] \in Operations
               \/ op'[q] \in {"handler", "cleanup"} /\ "resume" \in Operations
    <2>1. CASE q = p /\ op'[q] # op[q]
      <3>1. op[q] \in {"run", "resume"} /\ op'[q] \in {"handler", "cleanup"}
        BY <1>1, <1>6, <2>1
      <3>2. op[q] \in Operations
        BY <1>1, <2>1, <3>1 DEF WriterInv
      <3> QED BY <3>1, <3>2, RunLogAssumption
    <2>2. CASE q # p \/ op'[q] = op[q]
      BY <1>1, <1>2, <1>6, <2>2 DEF WriterInv, Alone, Processes
    <2> QED BY <2>1, <2>2
  <1> QED BY <1>2, <1>4, <1>5, <1>6 DEF WriterInv

LEMMA NextWriter ==
    ASSUME SingleWriter, TypeOK, WriterInv, [Next]_vars PROVE WriterInv'
  <1>1. CASE UNCHANGED vars
    BY <1>1 DEF vars, WriterInv
  <1>2. CASE Next
    BY <1>2, StartWriter, LoadWriter, OthersWriter DEF Next
  <1> QED BY <1>1, <1>2

LEMMA InitWriter == Init => WriterInv
  <1> SUFFICES ASSUME Init PROVE WriterInv
    OBVIOUS
  <1>1. \A p \in Processes : pc[p] = IF p = "run" THEN "emit" ELSE "idle"
    BY DEF Init
  <1>2. \A p \in Recoverers : p # "run" /\ p \in Processes
    BY RunLogAssumption DEF Processes
  <1> QED BY <1>1, <1>2 DEF WriterInv
-----------------------------------------------------------------------------
(* What a step does to the events a reader finds *)

\* The event at place i is the one that was there before.
Kept(i) == i \in Events /\ Physical'[i] = Physical[i]

\* The event at place i is new: p writes it after all the others.
Wrote(p, kind, i) ==
    /\ pc[p] \in {"emit", "reconcile"} /\ Emits(p, kind)
    /\ i = Len(lines) + 1 /\ \A j \in Events : j < i
    /\ Physical'[i] = [kind |-> kind, seq |-> last[p] + 1]

\* With nothing after the last line feed, the events are lines.
LEMMA CleanEvents ==
    ASSUME TypeOK, tail = Clean
    PROVE  \A j \in Events : j \in DOMAIN lines /\ j < Len(lines) + 1
  <1>1. tail.kind \notin EventKinds
    BY DEF Clean, EventKinds
  <1> QED BY <1>1, Found, LinesAre

\* An append keeps the lines, drops an event that lacked its line feed, and adds its
\* own event only to a clean file (append_jsonl_durable).
LEMMA AppendGrows ==
    ASSUME TypeOK, TypeOK', LastInv, NEW p \in Processes, NEW kind \in EventKinds,
           AppendEvent(p, kind), NEW i \in Events'
    PROVE  Kept(i) \/ Wrote(p, kind, i)
  <1>1. PICK line \in Line :
          /\ DOMAIN lines' = 1 .. Len(lines) + 1 /\ Len(lines') = Len(lines) + 1
          /\ \A j \in DOMAIN lines : lines'[j] = lines[j]
          /\ lines'[Len(lines) + 1] = line
          /\ \/ tail = Clean /\ line = [kind |-> kind, seq |-> last[p] + 1]
             \/ tail # Clean /\ line \in {Malformed, Open}
    BY Appended
  <1>2. tail'.kind \notin EventKinds
    BY DEF AppendEvent, Clean, EventKinds
  <1>3. i \in DOMAIN lines' /\ lines'[i].kind \in EventKinds /\ Physical'[i] = lines'[i]
    BY <1>2, FoundNext
  <1>4. CASE i \in DOMAIN lines
    BY <1>1, <1>3, <1>4, Found DEF Kept
  <1>5. CASE i = Len(lines) + 1
    <2>1. tail = Clean /\ Physical'[i] = [kind |-> kind, seq |-> last[p] + 1]
      BY <1>1, <1>3, <1>5 DEF Malformed, Open, EventKinds
    <2> QED BY <1>5, <2>1, CleanEvents DEF Wrote, AppendEvent
  <1> QED BY <1>1, <1>3, <1>4, <1>5, LinesAre

\* A crash leaves the lines, and may leave one more event without its line feed.
LEMMA CrashGrows ==
    ASSUME TypeOK, TypeOK', NEW p \in Processes, Crash(p), NEW i \in Events'
    PROVE  Kept(i) \/ \E kind \in EventKinds : Wrote(p, kind, i)
  <1>1. lines' = lines
    BY DEF Crash
  <1>2. CASE i \in DOMAIN lines
    <2>1. lines[i].kind \in EventKinds
      BY <1>1, <1>2, FoundNext, LinesAre
    <2> QED BY <1>1, <1>2, <2>1, Found, FoundNext DEF Kept
  <1>3. CASE i = Len(lines) + 1 /\ tail'.kind \in EventKinds
    <2>1. Physical'[i] = tail'
      BY <1>1, <1>3, FoundNext
    <2>2. CASE UNCHANGED tail
      BY <1>3, <2>1, <2>2, Found DEF Kept
    <2>3. ASSUME NEW kind \in EventKinds, pc[p] \in {"emit", "reconcile"}, Emits(p, kind),
                 tail' \in Partial([kind |-> kind, seq |-> last[p] + 1])
          PROVE  Wrote(p, kind, i)
      <3>1. tail = Clean /\ tail' = [kind |-> kind, seq |-> last[p] + 1]
        BY <1>3, <2>3 DEF Partial, EventKinds, Clean
      <3> QED BY <1>3, <2>1, <2>3, <3>1, CleanEvents DEF Wrote
    <2> QED BY <2>2, <2>3 DEF Crash
  <1> QED BY <1>1, <1>2, <1>3, FoundNext

\* Nothing else adds an event or changes one.
LEMMA OthersGrow ==
    ASSUME TypeOK, TypeOK', NEW p \in Processes,
           \/ PersistState(p) \/ Start(p) \/ Load(p) \/ Repair(p) \/ Raise(p)
           \/ UNCHANGED vars,
           NEW i \in Events'
    PROVE  Kept(i)
  <1>1. lines' = lines /\ (tail' = tail \/ tail' = Clean)
    BY DEF PersistState, Start, Load, Repair, Raise, vars
  <1>2. CASE i \in DOMAIN lines
    <2>1. lines[i].kind \in EventKinds
      BY <1>1, <1>2, FoundNext, LinesAre
    <2> QED BY <1>1, <1>2, <2>1, Found, FoundNext DEF Kept
  <1>3. CASE i = Len(lines) + 1 /\ tail'.kind \in EventKinds
    <2>1. tail' = tail
      BY <1>1, <1>3 DEF Clean, EventKinds
    <2> QED BY <1>1, <1>3, <2>1, Found, FoundNext DEF Kept
  <1> QED BY <1>1, <1>2, <1>3, FoundNext

\* Every event a reader finds was there before, at the same place and with the same
\* number, or has just been written after all the others.
LEMMA NothingIsRewritten ==
    ASSUME TypeOK, TypeOK', LastInv, [Next]_vars, NEW i \in Events'
    PROVE  \/ Kept(i)
           \/ \E p \in Processes, kind \in EventKinds :
                 Wrote(p, kind, i) /\ (AppendEvent(p, kind) \/ Crash(p))
  <1>1. CASE UNCHANGED vars
    BY <1>1, OthersGrow DEF Processes
  <1>2. CASE Next
    <2>1. PICK p \in Processes :
            \/ \E kind \in EventKinds : AppendEvent(p, kind)
            \/ Crash(p)
            \/ PersistState(p) \/ Start(p) \/ Load(p) \/ Repair(p) \/ Raise(p)
      BY <1>2 DEF Next
    <2>2. CASE \E kind \in EventKinds : AppendEvent(p, kind)
      BY <2>2, AppendGrows
    <2>3. CASE Crash(p)
      BY <2>3, CrashGrows
    <2>4. CASE PersistState(p) \/ Start(p) \/ Load(p) \/ Repair(p) \/ Raise(p)
      BY <2>4, OthersGrow
    <2> QED BY <2>1, <2>2, <2>3, <2>4
  <1> QED BY <1>1, <1>2
\* The event just written is the last one (append_jsonl_durable).
LEMMA NewIsLast ==
    ASSUME TypeOK, TypeOK', LastInv, [Next]_vars, NEW i \in Events', NEW j \in Events',
           NEW p \in Processes, NEW kind \in EventKinds, Wrote(p, kind, i), i < j
    PROVE  FALSE
  <1>1. i = Len(lines) + 1 /\ \A k \in Events : k < i
    BY DEF Wrote
  <1>2. CASE Kept(j)
    <2>1. j < i /\ j \in Nat
      BY <1>1, <1>2, LastIsThere DEF Kept
    <2> QED BY <1>1, <2>1, LinesAre
  <1>3. CASE \E q \in Processes, k \in EventKinds : Wrote(q, k, j)
    BY <1>1, <1>3, LinesAre DEF Wrote
  <1> QED BY <1>2, <1>3, NothingIsRewritten
-----------------------------------------------------------------------------
(* Sequence numbers *)

\* A process that writes alone has counted what is there, so what it adds comes with a
\* greater number (EventWriter.emit).
LEMMA NewIsGreater ==
    ASSUME TypeOK, TypeOK', LastInv, NumberInv, [Next]_vars PROVE Increasing'
  <1> SUFFICES ASSUME NEW i \in Events', NEW j \in Events', i < j
               PROVE  Physical'[i].seq < Physical'[j].seq
    BY DEF Increasing
  <1>1. CASE Kept(i) /\ Kept(j)
    BY <1>1 DEF Kept, NumberInv, Increasing
  <1>2. ASSUME Kept(i), NEW p \in Processes, NEW kind \in EventKinds, Wrote(p, kind, j)
        PROVE  Physical'[i].seq < Physical'[j].seq
    <2>1. Physical[i].seq <= last[p] /\ Physical[i].seq \in Nat
      BY <1>2, LastIsThere DEF Kept, Wrote, NumberInv
    <2>2. Physical'[i].seq = Physical[i].seq /\ Physical'[j].seq = last[p] + 1
      BY <1>2 DEF Kept, Wrote
    <2>3. last[p] \in Nat
      BY DEF TypeOK
    <2> QED BY <2>1, <2>2, <2>3
  <1>3. ASSUME NEW p \in Processes, NEW kind \in EventKinds, Wrote(p, kind, i)
        PROVE  FALSE
    BY <1>3, NewIsLast
  <1> QED BY <1>1, <1>2, <1>3, NothingIsRewritten

\* Who writes next has counted what is there (RunStore.append_event, open_existing).
LEMMA AppendCounts ==
    ASSUME TypeOK, TypeOK', LastInv, WriterInv, NumberInv,
           NEW p \in Processes, NEW kind \in EventKinds, AppendEvent(p, kind),
           NEW q \in Processes, pc'[q] \notin {"idle", "load"}, NEW i \in Events'
    PROVE  Physical'[i].seq <= last'[q]
  <1>1. pc[p] \in {"emit", "reconcile"}
    BY DEF AppendEvent
  <1>2. q = p
    BY <1>1 DEF AppendEvent, Follows, TypeOK, WriterInv
  <1>3. last'[q] = last[p] + 1 /\ last[p] \in Nat
    BY <1>2 DEF AppendEvent, TypeOK
  <1>4. CASE Kept(i)
    <2>1. Physical[i].seq <= last[p] /\ Physical[i].seq \in Nat
      BY <1>1, <1>4, LastIsThere DEF Kept, NumberInv
    <2> QED BY <1>3, <1>4, <2>1 DEF Kept
  <1>5. CASE Wrote(p, kind, i)
    BY <1>3, <1>5 DEF Wrote
  <1> QED BY <1>4, <1>5, AppendGrows

LEMMA LoadCounts ==
    ASSUME TypeOK, TypeOK', LastInv, WriterInv, NumberInv, NEW p \in Processes, Load(p),
           NEW q \in Processes, pc'[q] \notin {"idle", "load"}, NEW i \in Events'
    PROVE  Physical'[i].seq <= last'[q]
  <1>1. Kept(i)
    BY OthersGrow
  <1>2. q = p /\ pc'[p] = AfterLoad(p)
    BY DEF Load, TypeOK, WriterInv
  <1>3. Loadable
    BY <1>2 DEF AfterLoad
  <1>4. last'[p] = LastSequence
    BY <1>3 DEF Load, TypeOK
  <1>5. /\ LastEvent \in Events /\ \A k \in Events : k <= LastEvent
        /\ \A k \in Events : k \in Nat /\ Physical[k].seq \in Nat
    BY LastIsThere
  <1>6. i \in Events /\ (i = LastEvent \/ i < LastEvent)
    BY <1>1, <1>5 DEF Kept
  <1>7. Physical[i].seq <= Physical[LastEvent].seq
    BY <1>5, <1>6 DEF NumberInv, Increasing
  <1> QED BY <1>1, <1>2, <1>4, <1>7 DEF Kept, LastSequence

LEMMA OthersCount ==
    ASSUME TypeOK, TypeOK', LastInv, WriterInv, NumberInv, NEW p \in Processes,
           \/ PersistState(p) \/ Start(p) \/ Repair(p) \/ Raise(p) \/ Crash(p)
           \/ UNCHANGED vars,
           NEW q \in Processes, pc'[q] \notin {"idle", "load"}, NEW i \in Events'
    PROVE  Physical'[i].seq <= last'[q]
  <1>1. last' = last /\ pc[q] \notin {"idle", "load"}
    <2>1. CASE PersistState(p) \/ Start(p)
      BY <2>1 DEF PersistState, GoesOn, Start, TypeOK
    <2>2. CASE Repair(p) \/ Raise(p) \/ Crash(p) \/ UNCHANGED vars
      BY <2>2 DEF Repair, Raise, Crash, vars, TypeOK
    <2> QED BY <2>1, <2>2
  <1>2. CASE Crash(p)
    <2>1. q # p /\ pc[p] # "idle"
      BY <1>2 DEF Crash, TypeOK
    <2> QED BY <1>1, <2>1 DEF WriterInv
  <1>3. CASE ~Crash(p)
    <2>1. Kept(i)
      BY <1>3, OthersGrow
    <2> QED BY <1>1, <2>1 DEF Kept, NumberInv
  <1> QED BY <1>2, <1>3

LEMMA NextNumber ==
    ASSUME TypeOK, TypeOK', LastInv, WriterInv, NumberInv, [Next]_vars PROVE NumberInv'
  <1>1. ASSUME NEW q \in Processes, pc'[q] \notin {"idle", "load"}, NEW i \in Events'
        PROVE  Physical'[i].seq <= last'[q]
    <2>1. CASE UNCHANGED vars
      BY <1>1, <2>1, OthersCount
    <2>2. CASE Next
      <3>1. PICK p \in Processes :
              \/ \E kind \in EventKinds : AppendEvent(p, kind)
              \/ Load(p)
              \/ PersistState(p) \/ Start(p) \/ Repair(p) \/ Raise(p) \/ Crash(p)
        BY <2>2 DEF Next
      <3>2. CASE \E kind \in EventKinds : AppendEvent(p, kind)
        BY <1>1, <3>2, AppendCounts
      <3>3. CASE Load(p)
        BY <1>1, <3>3, LoadCounts
      <3>4. CASE PersistState(p) \/ Start(p) \/ Repair(p) \/ Raise(p) \/ Crash(p)
        BY <1>1, <3>4, OthersCount
      <3> QED BY <3>1, <3>2, <3>3, <3>4
    <2> QED BY <2>1, <2>2
  <1> QED BY <1>1, NewIsGreater DEF NumberInv

\* The log of a new run holds one event, which run() has written.
LEMMA InitEvents ==
    ASSUME Init
    PROVE  /\ Events = {1} /\ Physical[1] = [kind |-> "step", seq |-> 1]
           /\ Len(lines) = 1 /\ DOMAIN lines = {1}
           /\ lines[1] = [kind |-> "step", seq |-> 1]
  <1>1. /\ Len(lines) = 1 /\ DOMAIN lines = {1}
        /\ lines[1] = [kind |-> "step", seq |-> 1]
    BY DEF Init
  <1>2. Physical = lines
    BY DEF Init, Physical, Clean, EventKinds
  <1> QED BY <1>1, <1>2 DEF Events, EventKinds

LEMMA InitNumber == Init => NumberInv
  <1> SUFFICES ASSUME Init PROVE NumberInv
    OBVIOUS
  <1>1. \A p \in Processes : last[p] = 1
    BY DEF Init
  <1> QED BY <1>1, InitEvents DEF NumberInv, Increasing

\* docs/CLOSED_LOOP.md, invariant 6, as far as the code keeps it: with one writer at a
\* time no number is used twice, whatever crashes leave, and however often resume and
\* cancel go on (validate_event_stream).
THEOREM NumbersIncrease ==
    ASSUME SingleWriter PROVE Spec => []SequencesIncrease
  <1> DEFINE I == TypeOK /\ LastInv /\ WriterInv /\ NumberInv
  <1>1. Init => I
    BY InitTypes, InitWriter, InitNumber
  <1>2. I /\ [Next]_vars => I'
    BY NextTypes, NextWriter, NextNumber
  <1>3. I => SequencesIncrease
    BY DEF NumberInv, SequencesIncrease
  <1> QED BY <1>1, <1>2, <1>3, PTL DEF Spec
-----------------------------------------------------------------------------
(* The end of the log *)

\* A process that finds the end in the log writes notes (_reconcile_and_continue), and
\* the one that has written it logs what it removes (_cleanup_attempt_worktree).
LEMMA NextEndIsFinal ==
    ASSUME TypeOK, TypeOK', LastInv, EndInv, [Next]_vars PROVE EndIsFinal'
  <1> SUFFICES ASSUME NEW i \in Events', NEW j \in Events', i < j,
                      Physical'[i].kind = "end"
               PROVE  Physical'[j].kind \in {"cleanup", "note"}
    BY DEF EndIsFinal
  <1>1. CASE Kept(i) /\ Kept(j)
    BY <1>1 DEF Kept, EndInv, EndIsFinal
  <1>2. ASSUME Kept(i), NEW p \in Processes, NEW kind \in EventKinds, Wrote(p, kind, j)
        PROVE  Physical'[j].kind \in {"cleanup", "note"}
    <2>1. EndLogged
      BY <1>2 DEF Kept, EndLogged
    <2>2. pc[p] = "reconcile" \/ op[p] = "cleanup"
      BY <1>2, <2>1 DEF Wrote, EndInv
    <2> QED BY <1>2, <2>2 DEF Wrote, Emits
  <1>3. ASSUME NEW p \in Processes, NEW kind \in EventKinds, Wrote(p, kind, i)
        PROVE  FALSE
    BY <1>3, NewIsLast
  <1> QED BY <1>1, <1>2, <1>3, NothingIsRewritten

\* A log without an end gets one from an append or a crash only.
LEMMA NoEndStays ==
    ASSUME TypeOK, TypeOK', LastInv, [Next]_vars, ~EndLogged,
           \A p \in Processes, i \in Events' : ~Wrote(p, "end", i)
    PROVE  ~EndLogged'
  <1> SUFFICES ASSUME NEW i \in Events', Physical'[i].kind = "end" PROVE FALSE
    BY DEF EndLogged
  <1>1. CASE Kept(i)
    BY <1>1 DEF Kept, EndLogged
  <1>2. ASSUME NEW p \in Processes, NEW kind \in EventKinds, Wrote(p, kind, i) PROVE FALSE
    <2>1. kind = "end"
      BY <1>2 DEF Wrote
    <2> QED BY <1>2, <2>1
  <1> QED BY <1>1, <1>2, NothingIsRewritten

\* What EndInv says of one process.
EndSeen(q) ==
    /\ pc[q] \in {"repair", "emit"} /\ op[q] # "cleanup" => ~EndLogged
    /\ pc[q] = "snapshot" /\ over[q] = FALSE => ~EndLogged
    /\ pc[q] = "reconcile" => over[q] = TRUE
    /\ pc[q] # "idle" /\ op[q] = "cleanup" => over[q] = TRUE

\* Where an append leaves the process that writes (append_event, _emit_runtime_events).
LEMMA AppendChanges ==
    ASSUME TypeOK, NEW p \in Processes, NEW kind \in EventKinds, AppendEvent(p, kind)
    PROVE  /\ kind = "end" => over'[p] = TRUE
           /\ kind # "end" => over'[p] = over[p] /\ op'[p] = op[p]
           /\ pc'[p] \in {"snapshot", "emit"} /\ (pc'[p] = "emit" => kind = "step")
  <1>1. over' = [over EXCEPT ![p] = @ \/ kind = "end"]
    BY DEF AppendEvent
  <1>2. over[p] \in BOOLEAN /\ over \in [Processes -> BOOLEAN]
    BY DEF TypeOK
  <1>3. CASE kind = "end"
    <2>1. (over[p] \/ kind = "end") = TRUE
      BY <1>3
    <2>2. over' = [over EXCEPT ![p] = TRUE]
      BY <1>1, <2>1
    <2> QED BY <1>2, <1>3, <2>2 DEF AppendEvent, AfterEvent, Follows, TypeOK
  <1>4. CASE kind # "end"
    <2>1. (over[p] \/ kind = "end") = over[p]
      BY <1>2, <1>4
    <2>2. over' = [over EXCEPT ![p] = over[p]]
      BY <1>1, <2>1
    <2>3. op'[p] = op[p] /\ pc'[p] \in {"snapshot", "emit"} /\ (pc'[p] = "emit" => kind = "step")
      BY <1>4 DEF AppendEvent, AfterEvent, Follows, TypeOK
    <2> QED BY <1>2, <1>4, <2>2, <2>3
  <1> QED BY <1>3, <1>4

LEMMA AppendEnd ==
    ASSUME TypeOK, TypeOK', LastInv, WriterInv, EndInv,
           NEW p \in Processes, NEW kind \in EventKinds, AppendEvent(p, kind),
           NEW q \in Processes
    PROVE  EndSeen(q)'
  <1>1. /\ pc[p] \in {"emit", "reconcile"} /\ Emits(p, kind)
        /\ q # p => pc'[q] = "idle"
    BY DEF AppendEvent, TypeOK, WriterInv
  <1>2. /\ kind = "end" => over'[p] = TRUE
        /\ kind # "end" => over'[p] = over[p] /\ op'[p] = op[p]
        /\ pc'[p] \in {"snapshot", "emit"} /\ (pc'[p] = "emit" => kind = "step")
    BY AppendChanges
  <1>3. ASSUME kind # "end", ~EndLogged PROVE ~EndLogged'
    <2> SUFFICES ASSUME NEW i \in Events', Physical'[i].kind = "end" PROVE FALSE
      BY DEF EndLogged
    <2>1. Kept(i) \/ Wrote(p, kind, i)
      BY AppendGrows
    <2> QED BY <1>3, <2>1 DEF Kept, Wrote, EndLogged
  <1>4. CASE kind = "end"
    BY <1>1, <1>2, <1>4 DEF EndSeen
  <1>5. CASE kind # "end" /\ pc[p] = "emit" /\ op[p] # "cleanup"
    <2>1. ~EndLogged'
      BY <1>3, <1>5 DEF EndInv
    <2> QED BY <1>1, <1>2, <1>5, <2>1 DEF EndSeen
  <1>6. CASE kind # "end" /\ (pc[p] = "reconcile" \/ op[p] = "cleanup")
    <2>1. over[p] = TRUE /\ kind # "step"
      BY <1>1, <1>6 DEF EndInv, Emits
    <2> QED BY <1>1, <1>2, <1>6, <2>1 DEF EndSeen
  <1> QED BY <1>1, <1>4, <1>5, <1>6

LEMMA LoadEnd ==
    ASSUME TypeOK, TypeOK', LastInv, WriterInv, EndInv, NEW p \in Processes, Load(p),
           NEW q \in Processes
    PROVE  EndSeen(q)'
  <1>1. /\ pc[p] = "load" /\ pc'[p] = AfterLoad(p) /\ op'[p] # "cleanup"
        /\ q # p => pc'[q] = "idle"
    BY RunLogAssumption DEF Load, TypeOK, WriterInv
  <1>2. EndLogged' => EndLogged
    <2> SUFFICES ASSUME NEW i \in Events', Physical'[i].kind = "end" PROVE EndLogged
      BY DEF EndLogged
    <2>1. Kept(i)
      BY OthersGrow
    <2> QED BY <2>1 DEF Kept, EndLogged
  <1>3. /\ AfterLoad(p) \in {"repair", "emit"} => ~EndLogged
        /\ AfterLoad(p) = "reconcile" => Loadable /\ EndLogged
        /\ AfterLoad(p) # "snapshot"
    BY DEF AfterLoad
  <1>4. ASSUME Loadable, EndLogged PROVE over'[p] = TRUE
    <2>1. over' = [over EXCEPT ![p] = EndLogged]
      BY <1>4 DEF Load
    <2>2. EndLogged = TRUE
      BY <1>4
    <2>3. over' = [over EXCEPT ![p] = TRUE]
      BY <2>1, <2>2
    <2> QED BY <2>3 DEF TypeOK
  <1> QED BY <1>1, <1>2, <1>3, <1>4 DEF EndSeen

LEMMA OthersEnd ==
    ASSUME TypeOK, TypeOK', LastInv, WriterInv, EndInv, NEW p \in Processes,
           \/ PersistState(p) \/ Start(p) \/ Repair(p) \/ Raise(p) \/ UNCHANGED vars,
           NEW q \in Processes
    PROVE  EndSeen(q)'
  <1>1. EndLogged' => EndLogged
    <2> SUFFICES ASSUME NEW i \in Events', Physical'[i].kind = "end" PROVE EndLogged
      BY DEF EndLogged
    <2>1. Kept(i)
      BY OthersGrow
    <2> QED BY <2>1 DEF Kept, EndLogged
  <1>2. EndSeen(q)
    BY DEF EndInv, EndSeen
  <1>3. over' = over
    BY DEF PersistState, Start, Repair, Raise, vars
  <1>4. \/ pc'[q] = pc[q] /\ op'[q] = op[q]
        \/ /\ pc[q] = "snapshot" /\ (over[q] = FALSE \/ op[q] = "cleanup")
           /\ pc'[q] = "emit" /\ op'[q] = op[q]
        \/ pc[q] = "repair" /\ pc'[q] = "emit" /\ op'[q] = op[q]
        \/ pc[q] = "emit" /\ op[q] # "cleanup" /\ pc'[q] = "emit" /\ op'[q] = "handler"
        \/ pc'[q] = "load" /\ op'[q] # "cleanup"
        \/ pc'[q] = "idle"
    <2>1. CASE PersistState(p)
      BY <2>1 DEF PersistState, GoesOn, TypeOK
    <2>2. CASE Start(p)
      BY <2>2, RunLogAssumption DEF Start, TypeOK
    <2>3. CASE Repair(p) \/ UNCHANGED vars
      BY <2>3 DEF Repair, vars, TypeOK
    <2>4. CASE Raise(p)
      BY <2>4 DEF Raise, TypeOK
    <2> QED BY <2>1, <2>2, <2>3, <2>4
  <1> QED BY <1>1, <1>2, <1>3, <1>4 DEF EndSeen

LEMMA CrashEnd ==
    ASSUME TypeOK, WriterInv, NEW p \in Processes, Crash(p), NEW q \in Processes
    PROVE  pc'[q] = "idle"
  BY DEF Crash, TypeOK, WriterInv

LEMMA NextEnd ==
    ASSUME TypeOK, TypeOK', LastInv, WriterInv, EndInv, [Next]_vars PROVE EndInv'
  <1>1. ASSUME NEW q \in Processes PROVE EndSeen(q)'
    <2>1. CASE UNCHANGED vars
      BY <2>1, OthersEnd
    <2>2. CASE Next
      <3>1. PICK p \in Processes :
              \/ \E kind \in EventKinds : AppendEvent(p, kind)
              \/ Load(p) \/ Crash(p)
              \/ PersistState(p) \/ Start(p) \/ Repair(p) \/ Raise(p)
        BY <2>2 DEF Next
      <3>2. CASE \E kind \in EventKinds : AppendEvent(p, kind)
        BY <3>2, AppendEnd
      <3>3. CASE Load(p)
        BY <3>3, LoadEnd
      <3>4. CASE PersistState(p) \/ Start(p) \/ Repair(p) \/ Raise(p)
        BY <3>4, OthersEnd
      <3>5. CASE Crash(p)
        BY <3>5, CrashEnd DEF EndSeen
      <3> QED BY <3>1, <3>2, <3>3, <3>4, <3>5
    <2> QED BY <2>1, <2>2
  <1>2. EndIsFinal'
    BY NextEndIsFinal
  <1> QED BY <1>1, <1>2 DEF EndInv, EndSeen

LEMMA InitEnd == Init => EndInv
  <1> SUFFICES ASSUME Init PROVE EndInv
    OBVIOUS
  <1>1. ~EndLogged /\ EndIsFinal
    BY InitEvents DEF EndLogged, EndIsFinal
  <1>2. \A p \in Processes : pc[p] # "reconcile" /\ op[p] = "run"
    BY DEF Init
  <1> QED BY <1>1, <1>2 DEF EndInv

\* With one writer at a time nobody goes on with an ended run or ends it again, whatever
\* crashes leave of the log: only removals of worktrees and notes of recovery follow the
\* terminal event (_cleanup_attempt_worktree, resume, cancel, _reconcile_and_continue).
THEOREM EndStaysLast ==
    ASSUME SingleWriter PROVE Spec => []EndIsFinal
  <1> DEFINE I == TypeOK /\ LastInv /\ WriterInv /\ EndInv
  <1>1. Init => I
    BY InitTypes, InitWriter, InitEnd
  <1>2. I /\ [Next]_vars => I'
    BY NextTypes, NextWriter, NextEnd
  <1>3. I => EndIsFinal
    BY DEF EndInv
  <1> QED BY <1>1, <1>2, <1>3, PTL DEF Spec
-----------------------------------------------------------------------------
(* A log that is repaired *)

\* As long as nobody appends to a fragment, an append adds its event as a line.
LEMMA AppendsToClean ==
    ASSUME TypeOK, LastInv, OnceInv, crashes <= 1,
           NEW p \in Processes, NEW kind \in EventKinds, AppendEvent(p, kind)
    PROVE  /\ Len(lines) \in Nat /\ DOMAIN lines' = 1 .. Len(lines) + 1
           /\ \A j \in DOMAIN lines : j \in DOMAIN lines' /\ lines'[j] = lines[j]
           /\ lines'[Len(lines) + 1] = [kind |-> kind, seq |-> last[p] + 1]
  <1>1. tail = Clean
    BY DEF OnceInv, AppendEvent
  <1> QED BY <1>1, Appended, LinesAre

LEMMA AppendOnce ==
    ASSUME TypeOK, TypeOK', LastInv, WriterInv, EndInv, OnceInv,
           NEW p \in Processes, NEW kind \in EventKinds, AppendEvent(p, kind)
    PROVE  OnceInv'
  <1> SUFFICES ASSUME crashes <= 1 PROVE OnceInv'
    BY DEF OnceInv, AppendEvent
  <1>1. /\ tail' = Clean /\ crashes' = crashes
        /\ pc[p] \in {"emit", "reconcile"}
        /\ \A q \in Processes : q # p => pc'[q] = "idle"
    BY DEF AppendEvent, TypeOK, WriterInv
  <1>2. \A i \in DOMAIN lines' : lines'[i].kind \in EventKinds
    <2>1. /\ DOMAIN lines = 1 .. Len(lines) /\ Len(lines) \in Nat
          /\ DOMAIN lines' = 1 .. Len(lines) + 1
          /\ \A j \in DOMAIN lines : lines'[j] = lines[j]
          /\ lines'[Len(lines) + 1] = [kind |-> kind, seq |-> last[p] + 1]
      BY AppendsToClean, LinesAre
    <2>2. \A i \in DOMAIN lines' : i \in DOMAIN lines \/ i = Len(lines) + 1
      BY <2>1
    <2> QED BY <2>1, <2>2 DEF OnceInv
  <1>3. /\ pc'[p] \in {"snapshot", "emit"}
        /\ pc'[p] = "emit" => kind = "step" /\ op'[p] # "cleanup" /\ ~EndLogged'
    <2>1. /\ pc'[p] \in {"snapshot", "emit"}
          /\ pc'[p] = "emit" => kind = "step" /\ op'[p] = op[p]
      BY AppendChanges DEF EventKinds
    <2>2. kind = "step" => op[p] # "cleanup"
      BY DEF AppendEvent, Emits
    <2>3. ASSUME pc'[p] = "emit" PROVE ~EndLogged'
      <3>1. pc'[p] \in {"repair", "emit"} /\ op'[p] # "cleanup"
        BY <2>1, <2>2, <2>3
      <3> QED BY <3>1, AppendEnd DEF EndSeen
    <2> QED BY <2>1, <2>2, <2>3
  <1>4. ASSUME crashes = 0, EndLogged' PROVE over'[p] = TRUE \/ snapshot.terminal = TRUE
    <2>1. PICK i \in Events' : Physical'[i].kind = "end"
      BY <1>4 DEF EndLogged
    <2>2. CASE Kept(i)
      <3>1. EndLogged
        BY <2>1, <2>2 DEF Kept, EndLogged
      <3>2. pc[p] = "emit" /\ op[p] = "cleanup"
        BY <1>1, <1>4, <3>1 DEF EndInv, OnceInv
      <3> QED BY <3>2 DEF OnceInv
    <2>3. CASE Wrote(p, kind, i)
      <3>1. kind = "end"
        BY <2>1, <2>3 DEF Wrote
      <3> QED BY <3>1, AppendChanges
    <2> QED BY <2>2, <2>3, AppendGrows
  <1>5. snapshot' = snapshot
    BY DEF AppendEvent
  <1> QED BY <1>1, <1>2, <1>3, <1>4, <1>5 DEF OnceInv

\* The first crash may leave a fragment, of an event that is no note of recovery.
LEMMA CrashOnce ==
    ASSUME Repaired, TypeOK, TypeOK', WriterInv, EndInv, OnceInv,
           NEW p \in Processes, Crash(p)
    PROVE  OnceInv'
  <1> SUFFICES ASSUME crashes' <= 1 PROVE OnceInv'
    BY DEF OnceInv
  <1>1. lines' = lines /\ crashes = 0 /\ crashes' = 1 /\ tail = Clean
    BY DEF Crash, TypeOK, OnceInv
  <1>2. \A q \in Processes : pc'[q] = "idle"
    BY CrashEnd
  <1>3. CASE tail' = Clean
    BY <1>1, <1>2, <1>3 DEF OnceInv
  <1>4. CASE tail' # Clean
    <2>1. PICK kind \in EventKinds :
            /\ pc[p] \in {"emit", "reconcile"}
            /\ tail' \in Partial([kind |-> kind, seq |-> last[p] + 1])
      BY <1>1, <1>4 DEF Crash
    <2>2. tail' = [Clean EXCEPT !.kind = "fragment"]
      BY <1>1, <2>1 DEF Partial, Repaired
    <2>3. EndLogged => snapshot.terminal = TRUE
      BY <1>1, <2>1 DEF OnceInv, EndInv
    <2>4. EndLogged' => EndLogged
      <3> SUFFICES ASSUME NEW i \in Events', Physical'[i].kind = "end" PROVE EndLogged
        BY DEF EndLogged
      <3>1. tail'.kind \notin EventKinds
        BY <2>2 DEF EventKinds, Clean
      <3>2. i \in Events /\ Physical'[i] = Physical[i]
        BY <1>1, <3>1, Found, FoundNext
      <3> QED BY <3>2 DEF EndLogged
    <2>5. snapshot' = snapshot
      BY DEF Crash
    <2> QED BY <1>1, <1>2, <2>2, <2>3, <2>4, <2>5 DEF OnceInv
  <1> QED BY <1>3, <1>4

LEMMA LoadOnce ==
    ASSUME Repaired, TypeOK, TypeOK', WriterInv, OnceInv, NEW p \in Processes, Load(p)
    PROVE  OnceInv'
  <1> SUFFICES ASSUME crashes <= 1 PROVE OnceInv'
    BY DEF OnceInv, Load
  <1>1. /\ pc[p] = "load" /\ pc'[p] = AfterLoad(p) /\ op[p] = "resume" /\ op' = op
        /\ \A q \in Processes : q # p => pc[q] = "idle" /\ pc'[q] = "idle"
    <2>1. pc[p] = "load" /\ pc' = [pc EXCEPT ![p] = AfterLoad(p)]
      BY DEF Load
    <2>2. \A q \in Processes : q # p => pc[q] = "idle"
      BY <2>1 DEF WriterInv
    <2>3. op[p] = "resume"
      BY <2>1 DEF WriterInv, Repaired
    <2>4. op' = op
      BY DEF Load
    <2> QED BY <2>1, <2>2, <2>3, <2>4 DEF TypeOK
  <1>2. UNCHANGED <<lines, tail, snapshot, crashes>>
    BY DEF Load
  <1>3. EndLogged' <=> EndLogged
    BY <1>2 DEF EndLogged, Events, Physical
  <1>4. ASSUME tail # Clean PROVE pc'[p] \in {"idle", "repair"}
    BY <1>1, <1>4 DEF AfterLoad, OnceInv, Clean
  <1>5. ASSUME crashes = 0, EndLogged PROVE snapshot.terminal = TRUE
    BY <1>1, <1>5 DEF OnceInv
  <1>6. ASSUME pc'[p] = "reconcile" PROVE crashes = 1
    <2>1. EndLogged /\ snapshot.terminal # TRUE
      BY <1>1, <1>6 DEF AfterLoad
    <2>2. crashes # 0
      BY <1>5, <2>1
    <2> QED BY <2>2 DEF TypeOK
  <1> QED BY <1>1, <1>2, <1>3, <1>4, <1>5, <1>6 DEF OnceInv

LEMMA PersistOnce ==
    ASSUME TypeOK, TypeOK', WriterInv, EndInv, OnceInv,
           NEW p \in Processes, PersistState(p)
    PROVE  OnceInv'
  <1> SUFFICES ASSUME crashes <= 1 PROVE OnceInv'
    BY DEF OnceInv, PersistState
  <1>1. /\ pc[p] = "snapshot" /\ pc'[p] \in {"idle", "emit"}
        /\ \A q \in Processes : q # p => pc'[q] = pc[q]
        /\ UNCHANGED <<lines, tail, op, over, crashes>>
    BY DEF PersistState, GoesOn, TypeOK
  <1>2. tail = Clean
    BY <1>1 DEF OnceInv
  <1>3. EndLogged' <=> EndLogged
    BY <1>1 DEF EndLogged, Events, Physical
  <1>4. (EndLogged \/ op[p] = "cleanup") => snapshot'.terminal = TRUE
    BY <1>1 DEF EndInv, PersistState, TypeOK
  <1>5. \A q \in Processes : q # p => pc'[q] = "idle"
    BY <1>1 DEF WriterInv
  <1> QED BY <1>1, <1>2, <1>3, <1>4, <1>5 DEF OnceInv

LEMMA RepairOnce ==
    ASSUME TypeOK, WriterInv, OnceInv, NEW p \in Processes, Repair(p) PROVE OnceInv'
  <1> SUFFICES ASSUME crashes <= 1 PROVE OnceInv'
    BY DEF OnceInv, Repair
  <1>1. /\ pc[p] = "repair" /\ pc'[p] = "emit"
        /\ \A q \in Processes : q # p => pc'[q] = pc[q]
        /\ UNCHANGED <<lines, snapshot, op, over, crashes>> /\ tail' = Clean
    BY DEF Repair, TypeOK
  <1>2. Physical' = Physical
    BY <1>1 DEF Physical, OnceInv, Clean, EventKinds
  <1>3. EndLogged' <=> EndLogged
    BY <1>2 DEF EndLogged, Events
  <1>4. op[p] # "cleanup"
    BY <1>1, RunLogAssumption DEF WriterInv
  <1> QED BY <1>1, <1>3, <1>4 DEF OnceInv

LEMMA OthersOnce ==
    ASSUME TypeOK, OnceInv, NEW p \in Processes, Start(p) \/ Raise(p) \/ UNCHANGED vars
    PROVE  OnceInv'
  <1> SUFFICES ASSUME crashes <= 1 PROVE OnceInv'
    BY DEF OnceInv, Start, Raise, vars
  <1>1. /\ \/ pc'[p] = pc[p] /\ (op'[p] = op[p] \/ op'[p] = "handler")
           \/ pc[p] \in {"idle", "emit"} /\ pc'[p] \in {"load", "idle"}
        /\ \A q \in Processes : q # p => pc'[q] = pc[q] /\ op'[q] = op[q]
    <2>1. CASE Start(p)
      BY <2>1 DEF Start, TypeOK
    <2>2. CASE Raise(p)
      BY <2>2 DEF Raise, TypeOK
    <2>3. CASE UNCHANGED vars
      BY <2>3 DEF vars
    <2> QED BY <2>1, <2>2, <2>3
  <1>2. UNCHANGED <<lines, tail, snapshot, over, crashes>>
    BY DEF Start, Raise, vars
  <1>3. EndLogged' <=> EndLogged
    BY <1>2 DEF EndLogged, Events, Physical
  <1> QED BY <1>1, <1>2, <1>3 DEF OnceInv

LEMMA NextOnce ==
    ASSUME Repaired, TypeOK, TypeOK', LastInv, WriterInv, EndInv, OnceInv, [Next]_vars
    PROVE  OnceInv'
  <1>1. CASE UNCHANGED vars
    BY <1>1, OthersOnce DEF Processes
  <1>2. CASE Next
    BY <1>2, AppendOnce, CrashOnce, LoadOnce, PersistOnce, RepairOnce, OthersOnce DEF Next
  <1> QED BY <1>1, <1>2

LEMMA InitOnce == Init => OnceInv
  <1> SUFFICES ASSUME Init PROVE OnceInv
    OBVIOUS
  <1>1. ~EndLogged
    BY InitEvents DEF EndLogged
  <1>2. \A p \in Processes : pc[p] # "reconcile" /\ op[p] = "run"
    BY DEF Init
  <1> QED BY <1>1, <1>2, InitEvents DEF Init, OnceInv, EventKinds
-----------------------------------------------------------------------------
\* What state.json refers to stays in the log (_persist_state).
LEMMA AppendSnapshot ==
    ASSUME TypeOK, LastInv, WriterInv, OnceInv, SnapshotInv,
           NEW p \in Processes, NEW kind \in EventKinds, AppendEvent(p, kind)
    PROVE  SnapshotInv'
  <1> SUFFICES ASSUME crashes <= 1 PROVE SnapshotInv'
    BY DEF SnapshotInv, AppendEvent
  <1>1. /\ snapshot' = snapshot /\ last'[p] = last[p] + 1
        /\ \A q \in Processes : q # p => pc'[q] = "idle"
    BY DEF AppendEvent, TypeOK, WriterInv
  <1>2. \E i \in DOMAIN lines' : lines'[i].seq = snapshot.seq
    BY AppendsToClean DEF SnapshotInv
  <1>3. \E i \in DOMAIN lines' : lines'[i].seq = last[p] + 1
    <2>1. /\ Len(lines) \in Nat /\ DOMAIN lines' = 1 .. Len(lines) + 1
          /\ lines'[Len(lines) + 1] = [kind |-> kind, seq |-> last[p] + 1]
      BY AppendsToClean
    <2>2. Len(lines) + 1 \in DOMAIN lines'
      BY <2>1
    <2> QED BY <2>1, <2>2
  <1> QED BY <1>1, <1>2, <1>3 DEF SnapshotInv

LEMMA OthersSnapshot ==
    ASSUME TypeOK, SnapshotInv, NEW p \in Processes,
           \/ PersistState(p) \/ Start(p) \/ Load(p) \/ Repair(p) \/ Raise(p) \/ Crash(p)
           \/ UNCHANGED vars
    PROVE  SnapshotInv'
  <1>1. lines' = lines /\ (crashes' <= 1 => crashes <= 1)
    BY DEF PersistState, Start, Load, Repair, Raise, Crash, TypeOK, vars
  <1>2. \A q \in Processes : pc'[q] = "snapshot" => pc[q] = "snapshot" /\ last'[q] = last[q]
    <2>1. CASE PersistState(p) \/ Start(p) \/ Repair(p) \/ Raise(p)
      BY <2>1 DEF PersistState, GoesOn, Start, Repair, Raise, TypeOK
    <2>2. CASE Load(p)
      BY <2>2, <1>1 DEF Load, AfterLoad, TypeOK
    <2>3. CASE Crash(p) \/ UNCHANGED vars
      BY <2>3 DEF Crash, TypeOK, vars
    <2> QED BY <2>1, <2>2, <2>3
  <1>3. \/ snapshot' = snapshot
        \/ pc[p] = "snapshot" /\ snapshot'.seq = last[p]
    BY DEF PersistState, Start, Load, Repair, Raise, Crash, vars
  <1> QED BY <1>1, <1>2, <1>3 DEF SnapshotInv

LEMMA NextSnapshot ==
    ASSUME TypeOK, LastInv, WriterInv, OnceInv, SnapshotInv, [Next]_vars
    PROVE  SnapshotInv'
  <1>1. CASE UNCHANGED vars
    BY <1>1, OthersSnapshot DEF Processes
  <1>2. CASE Next
    BY <1>2, AppendSnapshot, OthersSnapshot DEF Next
  <1> QED BY <1>1, <1>2

LEMMA InitSnapshot == Init => SnapshotInv
  <1> SUFFICES ASSUME Init PROVE SnapshotInv
    OBVIOUS
  <1>1. \A p \in Processes : pc[p] # "snapshot"
    BY DEF Init
  <1> QED BY <1>1, InitEvents DEF Init, SnapshotInv

RepairedInv == TypeOK /\ LastInv /\ WriterInv /\ EndInv /\ OnceInv /\ SnapshotInv

LEMMA RepairedHolds ==
    ASSUME Repaired PROVE Spec => []RepairedInv
  <1>1. Init => RepairedInv
    BY InitTypes, InitWriter, InitEnd, InitOnce, InitSnapshot DEF RepairedInv
  <1>2. RepairedInv /\ [Next]_vars => RepairedInv'
    BY NextTypes, NextWriter, NextEnd, NextOnce, NextSnapshot DEF RepairedInv, Repaired
  <1> QED BY <1>1, <1>2, PTL DEF Spec

\* docs/CLOSED_LOOP.md on truncated lines, as far as the code keeps it: one crash that
\* cuts a line short leaves a readable log, before and after resume has repaired it
\* (read_jsonl_tolerant, repair_truncated_final_jsonl).
THEOREM LogStaysReadable ==
    ASSUME Repaired PROVE Spec => [](crashes <= 1 => Readable)
  <1>1. RepairedInv => (crashes <= 1 => Readable)
    BY DEF RepairedInv, OnceInv, Readable, Tolerated, EventKinds, Clean
  <1> QED BY <1>1, RepairedHolds, PTL

\* Until a second crash state.json refers to an event that a reader of the log gets, so
\* that the run can be recovered (_load_recovery_runtime).
THEOREM SnapshotIsLogged ==
    ASSUME Repaired PROVE Spec => [](crashes <= 1 => SnapshotCommitted)
  <1>1. ASSUME RepairedInv, crashes <= 1 PROVE SnapshotCommitted
    <2>1. PICK i \in DOMAIN lines : lines[i].seq = snapshot.seq
      BY <1>1 DEF RepairedInv, SnapshotInv
    <2>2. i \in Events /\ Physical[i] = lines[i]
      BY <1>1, Found DEF RepairedInv, OnceInv
    <2> QED BY <2>1, <2>2 DEF SnapshotCommitted
  <1> QED BY <1>1, RepairedHolds, PTL
=============================================================================
