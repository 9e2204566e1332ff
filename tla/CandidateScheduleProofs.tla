---------------------- MODULE CandidateScheduleProofs ----------------------
(***************************************************************************)
(* CandidateSchedule for every number of candidates, any parallelism and   *)
(* requirement and any number of crashes: no attempt is run twice, judged  *)
(* twice or committed without a run and a verdict, and a comparison never  *)
(* has more in flight than it wants.                                       *)
(*                                                                         *)
(* None of this is inductive alone.  A runner is called once because a     *)
(* candidate is scheduled only if no earlier process has called it, which  *)
(* is known from the journal unless the journal cannot be read any more    *)
(* (JournalInv); what is judged has run because nothing is void or asked   *)
(* to stop while futures are judged (FuturesInv).                          *)
(***************************************************************************)
EXTENDS CandidateSchedule, WellFoundedInduction, FiniteSetTheorems, TLAPS

\* No verdict on c is in the journal.
Open(c) == \A e \in Verdicts : <<c, e>> \notin log

\* A candidate whose runner was called is in the journal, if it can be read; one that may
\* still be scheduled, judged or cancelled has no verdict there.
JournalInv ==
    \A c \in Candidates :
      /\ invoked[c] > 0 \/ thread[c] = "started" => <<c, "started">> \in log \/ malformed
      /\ c \in next \cup pending => Open(c)
      /\ pc = "cancel" /\ c \in batch => Open(c) /\ c \notin next

\* A runner is yet to be called for what is on its way to it.
InvocationsInv ==
    \A c \in Candidates :
      /\ invoked[c] \in {0, 1}
      /\ thread[c] \in {"queued", "counted", "started"} => invoked[c] = 0
      /\ thread[c] = "running" => invoked[c] = 1
      /\ c \in next => invoked[c] = 0 /\ thread[c] = "none"

\* Where the futures are, and that they are asked to stop at the end only.
FuturesInv ==
    /\ pc \in {"recover", "cancel"} =>
         pending = {} /\ thread = Idle /\ observed = Nothing /\ committed = {}
    /\ pc \notin {"stop", "drain"} => asked = {}
    /\ pc \notin {"cancel", "judge"} => batch = {}
    /\ pc = "judge" => \A c \in batch : Ended(c)
    /\ \A c \in pending \ asked : thread[c] # "void" /\ (thread[c] = "ended" => invoked[c] = 1)

\* What is observed or committed has run, is out of the scheduler's hands and was not
\* cancelled.
ResultsInv ==
    /\ \A c \in Observations \cup committed :
         invoked[c] = 1 /\ c \notin next \cup pending /\ <<c, "cancelled">> \notin log
    /\ committed # {} => pc \in {"commit", "done", "left"}

IInv ==
    TypeOK /\ JournalInv /\ InvocationsInv /\ FuturesInv /\ ResultsInv /\ OneVerdict /\ QuotaIsKept

----------------------------------------------------------------------------
(* The least candidate, the journal and the quota *)

Below == {ss \in Nat \X Nat : ss[1] < ss[2]}

\* The order of the numbers, as the relation the library's theorem on minima asks for.
LEMMA BelowWellFounded == IsWellFoundedOn(Below, Nat)
BY NatLessThanWellFounded DEF OpToRel, Below

\* Attempt ids are a finite set of numbers.
LEMMA CandidatesAreNumbers ==
    Candidates \subseteq Nat /\ 1 \in Candidates /\ IsFiniteSet(Candidates)
<1> DEFINE last == N + MaxCrashes * (N - 1)
<1>1. last \in Nat /\ last >= 1
  BY CandidateAssumption
<1>2. Candidates = 1..last
  BY DEF Candidates
<1> HIDE DEF last
<1> QED BY <1>1, <1>2, FS_Interval

\* Adding an element makes a finite set at most one element larger.
LEMMA OneMore ==
  ASSUME NEW S, NEW x, IsFiniteSet(S)
  PROVE  Cardinality(S \cup {x}) <= Cardinality(S) + 1
<1>1. Cardinality(S) \in Nat
  BY FS_CardinalityType
<1>2. CASE x \in S
  <2>1. S \cup {x} = S
    BY <1>2
  <2> QED BY <1>1, <2>1
<1>3. CASE x \notin S
  <2>1. Cardinality(S \cup {x}) = Cardinality(S) + 1
    BY <1>3, FS_AddElement
  <2> QED BY <1>1, <2>1
<1> QED BY <1>2, <1>3

\* The least of some candidates is one of them.
LEMMA MinInSet ==
    ASSUME NEW S, S \subseteq Candidates, S # {}
    PROVE  Min(S) \in S
<1>1. S \subseteq Nat
  BY CandidatesAreNumbers
<1>2. \E x \in S : \A y \in S : ~ (<<y, x>> \in Below)
  <2> HIDE DEF Below
  <2> QED BY <1>1, BelowWellFounded, WFMin, Zenon
<1>3. PICK x \in S : \A y \in S : <<y, x>> \notin Below
  BY <1>2
<1>4. ASSUME NEW y \in S PROVE x =< y
  <2>1. x \in Nat /\ y \in Nat
    BY <1>1
  <2>2. y < x => <<y, x>> \in Below
    BY <2>1 DEF Below
  <2> QED BY <1>3, <2>1, <2>2
<1> QED BY <1>4 DEF Min

\* A candidate is judged when it is no longer open.
LEMMA JudgedMeans ==
    \A c \in Candidates : (c \in Judged) <=> ~Open(c)
BY DEF Judged, Open, Logged, Verdicts

\* An entry of the journal that the model leaves out changes no verdict and no start.
LEMMA AppendNothing ==
    ASSUME TypeOK, Append({})
    PROVE  /\ log' = log
           /\ torn' \in BOOLEAN /\ malformed' \in BOOLEAN
           /\ malformed => malformed'
<1>1. log' = log
  BY DEF Append
<1>2. torn' \in BOOLEAN /\ malformed' \in BOOLEAN /\ (malformed => malformed')
  BY Zenon DEF Append, TypeOK
<1> QED BY <1>1, <1>2

\* An entry is added to the journal, or is lost and makes it unreadable.
LEMMA AppendLine ==
    ASSUME TypeOK, NEW c \in Candidates, NEW e \in Events, Append({<<c, e>>})
    PROVE  /\ log' \subseteq Candidates \X Events
           /\ log \subseteq log'
           /\ \A d, f : <<d, f>> \in log' => <<d, f>> \in log \/ (d = c /\ f = e)
           /\ torn' \in BOOLEAN /\ malformed' \in BOOLEAN
           /\ malformed => malformed'
           /\ <<c, e>> \in log' \/ malformed'
<1>1. torn' \in BOOLEAN /\ malformed' \in BOOLEAN /\ (malformed => malformed')
  BY Zenon DEF Append, TypeOK
<1>2. CASE torn
  BY <1>1, <1>2 DEF Append, TypeOK
<1>3. CASE ~torn
  BY <1>1, <1>3 DEF Append, TypeOK
<1> QED BY <1>2, <1>3

\* A verdict on a candidate that has none keeps the verdicts single.
LEMMA VerdictsStaySingle ==
    ASSUME OneVerdict, NEW c \in Candidates, NEW e \in Verdicts, Open(c),
           \A d, f : <<d, f>> \in log' => <<d, f>> \in log \/ (d = c /\ f = e)
    PROVE  OneVerdict'
BY DEF OneVerdict, Open

\* Fewer candidates in flight cannot break the quota.
LEMMA QuotaStays ==
    ASSUME TypeOK, QuotaIsKept, pending' \subseteq pending, observed' = observed
    PROVE  QuotaIsKept'
<1>1. IsFiniteSet(pending)
  BY CandidatesAreNumbers, FS_Subset DEF TypeOK
<1>2. Cardinality(pending') <= Cardinality(pending)
      /\ Cardinality(pending') \in Nat /\ Cardinality(pending) \in Nat
  BY <1>1, FS_Subset, FS_CardinalityType
<1>3. Eligible' = Eligible
  BY DEF Eligible
<1>4. Cardinality(Eligible) \in Nat
  <2>1. IsFiniteSet(Eligible)
    BY CandidatesAreNumbers, FS_Subset DEF TypeOK, Eligible, Grades
  <2> QED BY <2>1, FS_CardinalityType
<1> QED BY <1>2, <1>3, <1>4, CandidateAssumption DEF QuotaIsKept

----------------------------------------------------------------------------
(* One lemma for each action *)

\* What is scheduled after a crash was never run: a start in the journal is seen, and a journal
\* that lost one is not read.
LEMMA ReadJournalKeeps ==
    ASSUME IInv, ReadJournal
    PROVE  IInv'
<1> USE DEF IInv
<1>1. /\ pc = "recover" /\ pending = {} /\ thread = Idle /\ observed = Nothing
      /\ committed = {} /\ asked = {} /\ batch = {}
  BY DEF ReadJournal, FuturesInv
<1>2. UNCHANGED <<log, torn, malformed, plans, pending, asked, thread, started, observed,
                  committed, invoked, crashes>>
  BY DEF ReadJournal
<1>3. Observations = {} /\ Observations' = {}
  BY <1>1, <1>2 DEF Observations, Nothing, Grades
<1>4. OneVerdict' /\ QuotaIsKept'
  BY <1>2, QuotaStays DEF OneVerdict
<1>5. CASE malformed
  <2>1. pc' = "failed" /\ next' = next /\ batch' = batch
    BY <1>5 DEF ReadJournal
  <2>2. TypeOK' /\ JournalInv' /\ InvocationsInv'
    BY <1>1, <1>2, <2>1 DEF TypeOK, PCs, JournalInv, InvocationsInv, Open
  <2>3. FuturesInv' /\ ResultsInv'
    BY <1>1, <1>2, <1>3, <2>1 DEF FuturesInv, ResultsInv
  <2> QED BY <1>4, <2>2, <2>3
<1>6. CASE ~malformed
  <2>1. pc' = "cancel" /\ batch' = Interrupted /\ next' = plans \ (Judged \cup Interrupted)
    BY <1>6 DEF ReadJournal
  <2>2. \A c \in Candidates : c \in Judged <=> ~Open(c)
    BY JudgedMeans
  <2>3. \A c \in Candidates : c \in Interrupted <=> <<c, "started">> \in log /\ Open(c)
    BY <2>2 DEF Interrupted, Logged
  <2>4. Interrupted \subseteq Candidates
    BY DEF Interrupted, Logged
  <2>5. TypeOK'
    BY <1>1, <1>2, <2>1, <2>4 DEF TypeOK, PCs
  <2>6. ASSUME NEW c \in next'
        PROVE  /\ c \in Candidates /\ Open(c) /\ c \notin Interrupted
               /\ invoked[c] = 0 /\ thread[c] = "none"
    <3>1. c \in Candidates /\ Open(c) /\ c \notin Interrupted
      BY <2>1, <2>2 DEF TypeOK
    <3>2. ~ (invoked[c] > 0)
      BY <1>6, <2>3, <3>1 DEF JournalInv
    <3>3. invoked[c] = 0
      BY <3>1, <3>2 DEF InvocationsInv
    <3>4. thread[c] = "none"
      BY <1>1, <3>1 DEF Idle
    <3> QED BY <3>1, <3>3, <3>4
  <2>7. \A c \in Candidates : Open(c)' <=> Open(c)
    BY <1>2 DEF Open
  <2>8. JournalInv'
    BY <1>1, <1>2, <2>1, <2>3, <2>6, <2>7 DEF JournalInv
  <2>9. InvocationsInv'
    BY <1>1, <1>2, <2>6 DEF InvocationsInv
  <2>10. FuturesInv' /\ ResultsInv'
    BY <1>1, <1>2, <1>3, <2>1 DEF FuturesInv, ResultsInv
  <2> QED BY <1>4, <2>5, <2>8, <2>9, <2>10
<1> QED BY <1>5, <1>6

LEMMA BeginBatchKeeps ==
    ASSUME IInv, BeginBatch
    PROVE  IInv'
<1> USE DEF IInv
<1>a. /\ log' = log /\ torn' \in BOOLEAN /\ malformed' \in BOOLEAN
      /\ malformed => malformed'
  BY AppendNothing DEF BeginBatch
<1>1. TypeOK'
  BY <1>a DEF TypeOK, PCs, ThreadStates, Grades, BeginBatch
<1>2. JournalInv'
  BY <1>a DEF TypeOK, JournalInv, Open, BeginBatch
<1>3. InvocationsInv'
  BY <1>a DEF TypeOK, InvocationsInv, BeginBatch
<1>4. FuturesInv'
  BY <1>a DEF TypeOK, FuturesInv, InvocationsInv, Ended, BeginBatch
<1>5. ResultsInv'
  BY <1>a DEF TypeOK, ResultsInv, Observations, InvocationsInv, BeginBatch
<1>6. OneVerdict'
  BY <1>a DEF OneVerdict, BeginBatch
<1>7. QuotaIsKept'
  BY <1>a, QuotaStays DEF BeginBatch
<1> QED BY <1>1, <1>2, <1>3, <1>4, <1>5, <1>6, <1>7

LEMMA EndSchedulingKeeps ==
    ASSUME IInv, EndScheduling
    PROVE  IInv'
<1> USE DEF IInv
<1>1. TypeOK'
  BY DEF TypeOK, PCs, ThreadStates, Grades, EndScheduling
<1>2. JournalInv'
  BY DEF TypeOK, JournalInv, Open, EndScheduling
<1>3. InvocationsInv'
  BY DEF TypeOK, InvocationsInv, EndScheduling
<1>4. FuturesInv'
  BY DEF TypeOK, FuturesInv, InvocationsInv, Ended, EndScheduling
<1>5. ResultsInv'
  BY DEF TypeOK, ResultsInv, Observations, InvocationsInv, EndScheduling
<1>6. OneVerdict'
  BY DEF OneVerdict, EndScheduling
<1>7. QuotaIsKept'
  BY QuotaStays DEF EndScheduling
<1> QED BY <1>1, <1>2, <1>3, <1>4, <1>5, <1>6, <1>7

\* The batch of futures that are done.
LEMMA WaitKeeps ==
    ASSUME IInv, Wait
    PROVE  IInv'
<1> USE DEF IInv
<1>1. TypeOK'
  BY DEF TypeOK, PCs, ThreadStates, Grades, Wait
<1>2. JournalInv'
  BY DEF TypeOK, JournalInv, Open, Wait
<1>3. InvocationsInv'
  BY DEF TypeOK, InvocationsInv, Wait
<1>4. FuturesInv'
  BY DEF TypeOK, FuturesInv, InvocationsInv, Ended, Wait
<1>5. ResultsInv'
  BY DEF TypeOK, ResultsInv, Observations, InvocationsInv, Wait
<1>6. OneVerdict'
  BY DEF OneVerdict, Wait
<1>7. QuotaIsKept'
  BY QuotaStays DEF Wait
<1> QED BY <1>1, <1>2, <1>3, <1>4, <1>5, <1>6, <1>7

LEMMA DecideKeeps ==
    ASSUME IInv, Decide
    PROVE  IInv'
<1> USE DEF IInv
<1>1. TypeOK'
  BY DEF TypeOK, PCs, ThreadStates, Grades, Decide
<1>2. JournalInv'
  BY DEF TypeOK, JournalInv, Open, Decide
<1>3. InvocationsInv'
  BY DEF TypeOK, InvocationsInv, Decide
<1>4. FuturesInv'
  BY DEF TypeOK, FuturesInv, InvocationsInv, Ended, Decide
<1>5. ResultsInv'
  BY DEF TypeOK, ResultsInv, Observations, InvocationsInv, Decide
<1>6. OneVerdict'
  BY DEF OneVerdict, Decide
<1>7. QuotaIsKept'
  BY QuotaStays DEF Decide
<1> QED BY <1>1, <1>2, <1>3, <1>4, <1>5, <1>6, <1>7

LEMMA EndStopKeeps ==
    ASSUME IInv, EndStop
    PROVE  IInv'
<1> USE DEF IInv
<1>1. TypeOK'
  BY DEF TypeOK, PCs, ThreadStates, Grades, EndStop
<1>2. JournalInv'
  BY DEF TypeOK, JournalInv, Open, EndStop
<1>3. InvocationsInv'
  BY DEF TypeOK, InvocationsInv, EndStop
<1>4. FuturesInv'
  BY DEF TypeOK, FuturesInv, InvocationsInv, Ended, EndStop
<1>5. ResultsInv'
  BY DEF TypeOK, ResultsInv, Observations, InvocationsInv, EndStop
<1>6. OneVerdict'
  BY DEF OneVerdict, EndStop
<1>7. QuotaIsKept'
  BY QuotaStays DEF EndStop
<1> QED BY <1>1, <1>2, <1>3, <1>4, <1>5, <1>6, <1>7

LEMMA EndDrainKeeps ==
    ASSUME IInv, EndDrain
    PROVE  IInv'
<1> USE DEF IInv
<1>1. TypeOK'
  BY DEF TypeOK, PCs, ThreadStates, Grades, EndDrain
<1>2. JournalInv'
  BY DEF TypeOK, JournalInv, Open, EndDrain
<1>3. InvocationsInv'
  BY DEF TypeOK, InvocationsInv, EndDrain
<1>4. FuturesInv'
  BY DEF TypeOK, FuturesInv, InvocationsInv, Ended, EndDrain
<1>5. ResultsInv'
  BY DEF TypeOK, ResultsInv, Observations, InvocationsInv, EndDrain
<1>6. OneVerdict'
  BY DEF OneVerdict, EndDrain
<1>7. QuotaIsKept'
  BY QuotaStays DEF EndDrain
<1> QED BY <1>1, <1>2, <1>3, <1>4, <1>5, <1>6, <1>7

LEMMA FinishKeeps ==
    ASSUME IInv, Finish
    PROVE  IInv'
<1> USE DEF IInv
<1>a. /\ log' = log /\ torn' \in BOOLEAN /\ malformed' \in BOOLEAN
      /\ malformed => malformed'
  BY AppendNothing DEF Finish
<1>1. TypeOK'
  BY <1>a DEF TypeOK, PCs, ThreadStates, Grades, Finish
<1>2. JournalInv'
  BY <1>a DEF TypeOK, JournalInv, Open, Finish
<1>3. InvocationsInv'
  BY <1>a DEF TypeOK, InvocationsInv, Finish
<1>4. FuturesInv'
  BY <1>a DEF TypeOK, FuturesInv, InvocationsInv, Ended, Finish
<1>5. ResultsInv'
  BY <1>a DEF TypeOK, ResultsInv, Observations, InvocationsInv, Finish
<1>6. OneVerdict'
  BY <1>a DEF OneVerdict, Finish
<1>7. QuotaIsKept'
  BY <1>a, QuotaStays DEF Finish
<1> QED BY <1>1, <1>2, <1>3, <1>4, <1>5, <1>6, <1>7

\* An interrupted candidate has no verdict yet, and is not in the new batch.
LEMMA CancelInterruptedKeeps ==
    ASSUME IInv, CancelInterrupted
    PROVE  IInv'
<1> USE DEF IInv
<1> DEFINE c == Min(batch)
<1>a. c \in batch /\ c \in Candidates
  BY MinInSet DEF CancelInterrupted, TypeOK
<1>b. /\ log' \subseteq Candidates \X Events
      /\ log \subseteq log'
      /\ \A d, f : <<d, f>> \in log' => <<d, f>> \in log \/ (d = c /\ f = "cancelled")
      /\ torn' \in BOOLEAN /\ malformed' \in BOOLEAN
      /\ malformed => malformed'
      /\ <<c, "cancelled">> \in log' \/ malformed'
  BY <1>a, AppendLine DEF CancelInterrupted, Events, Verdicts
<1>c. Open(c) /\ c \notin next /\ pending = {} /\ Observations = {} /\ committed = {}
  BY <1>a DEF CancelInterrupted, JournalInv, FuturesInv, Observations, Nothing, Grades
<1> HIDE DEF c
<1>d. /\ \A d \in Candidates : d # c /\ Open(d) => Open(d)'
      /\ \A d, f : <<d, f>> \in log => <<d, f>> \in log'
  BY <1>b DEF Open
<1>e. /\ pc = "cancel" /\ batch' = batch \ {c}
      /\ UNCHANGED <<pc, plans, next, pending, asked, thread, started, observed, committed,
                     invoked, crashes>>
  BY DEF CancelInterrupted, c
<1>1. TypeOK'
  BY <1>a, <1>b, <1>c DEF TypeOK, PCs, ThreadStates, Grades, CancelInterrupted
<1>2. JournalInv'
  <2>1. ASSUME NEW d \in Candidates, invoked[d] > 0 \/ thread[d] = "started"
        PROVE  <<d, "started">> \in log' \/ malformed'
    BY <1>b, <2>1 DEF JournalInv
  <2>2. ASSUME NEW d \in next \cup pending
        PROVE  Open(d)'
    <3>1. d # c /\ d \in Candidates /\ Open(d)
      BY <1>c, <2>2 DEF TypeOK, JournalInv
    <3> QED BY <1>d, <3>1
  <2>3. ASSUME NEW d \in batch'
        PROVE  Open(d)' /\ d \notin next
    <3>1. d # c /\ d \in Candidates /\ d \in batch
      BY <1>e, <2>3 DEF TypeOK
    <3>2. Open(d) /\ d \notin next
      BY <1>e, <3>1 DEF JournalInv
    <3> QED BY <1>d, <3>1, <3>2
  <2> QED BY <1>e, <2>1, <2>2, <2>3 DEF JournalInv
<1>3. InvocationsInv'
  BY <1>a, <1>b, <1>c DEF TypeOK, InvocationsInv, CancelInterrupted
<1>4. FuturesInv'
  BY <1>a, <1>b, <1>c DEF TypeOK, FuturesInv, InvocationsInv, Ended, CancelInterrupted
<1>5. ResultsInv'
  BY <1>b, <1>c, <1>e DEF ResultsInv, Observations
<1>6. OneVerdict'
  BY <1>a, <1>b, <1>c, VerdictsStaySingle DEF Verdicts
<1>7. QuotaIsKept'
  BY <1>a, <1>b, <1>c, QuotaStays DEF CancelInterrupted
<1> QED BY <1>1, <1>2, <1>3, <1>4, <1>5, <1>6, <1>7

\* A queued future that is cancelled will never run.
LEMMA RequestStopKeeps ==
    ASSUME IInv, RequestStop
    PROVE  IInv'
<1> USE DEF IInv
<1> DEFINE c == Min(pending \ asked)
<1>a. c \in pending /\ c \notin asked /\ c \in Candidates
  BY MinInSet DEF RequestStop, TypeOK
<1>b. /\ log' = log /\ torn' \in BOOLEAN /\ malformed' \in BOOLEAN
      /\ malformed => malformed'
  BY AppendNothing DEF RequestStop
<1>1. TypeOK'
  BY <1>a, <1>b DEF TypeOK, PCs, ThreadStates, Grades, RequestStop
<1>2. JournalInv'
  BY <1>a, <1>b DEF TypeOK, JournalInv, Open, RequestStop
<1>3. InvocationsInv'
  BY <1>a, <1>b DEF TypeOK, InvocationsInv, RequestStop
<1>4. FuturesInv'
  BY <1>a, <1>b DEF TypeOK, FuturesInv, InvocationsInv, Ended, RequestStop
<1>5. ResultsInv'
  BY <1>a, <1>b DEF TypeOK, ResultsInv, Observations, InvocationsInv, RequestStop
<1>6. OneVerdict'
  BY <1>a, <1>b DEF OneVerdict, RequestStop
<1>7. QuotaIsKept'
  BY <1>a, <1>b, QuotaStays DEF RequestStop
<1> QED BY <1>1, <1>2, <1>3, <1>4, <1>5, <1>6, <1>7

\* What is drained has no verdict yet, and was not observed.
LEMMA DrainKeeps ==
    ASSUME IInv, Drain
    PROVE  IInv'
<1> USE DEF IInv
<1> DEFINE c == Min(pending)
<1>a. c \in pending /\ c \in Candidates
  BY MinInSet DEF Drain, TypeOK
<1>b. /\ log' \subseteq Candidates \X Events
      /\ log \subseteq log'
      /\ \A d, f : <<d, f>> \in log' => <<d, f>> \in log \/ (d = c /\ f = "cancelled")
      /\ torn' \in BOOLEAN /\ malformed' \in BOOLEAN
      /\ malformed => malformed'
      /\ <<c, "cancelled">> \in log' \/ malformed'
  BY <1>a, AppendLine DEF Drain, Events, Verdicts
<1>c. Open(c) /\ c \notin Observations \cup committed
  BY <1>a DEF JournalInv, ResultsInv
<1>f. batch = {} /\ c \notin next /\ c \in plans
  BY <1>a DEF Drain, FuturesInv, TypeOK
<1> HIDE DEF c
<1>d. /\ \A d \in Candidates : d # c /\ Open(d) => Open(d)'
      /\ \A d, f : <<d, f>> \in log => <<d, f>> \in log'
  BY <1>b DEF Open
<1>e. /\ pc = "drain" /\ pending' = pending \ {c} /\ asked' = asked \ {c}
      /\ UNCHANGED <<pc, plans, next, batch, thread, started, observed, committed, invoked, crashes>>
  BY DEF Drain, c
<1>1. TypeOK'
  BY <1>a, <1>b, <1>e, <1>f DEF TypeOK
<1>2. JournalInv'
  <2>1. ASSUME NEW d \in Candidates, invoked[d] > 0 \/ thread[d] = "started"
        PROVE  <<d, "started">> \in log' \/ malformed'
    BY <1>b, <2>1 DEF JournalInv
  <2>2. ASSUME NEW d \in next \cup pending'
        PROVE  Open(d)'
    <3>1. d # c /\ d \in Candidates /\ d \in next \cup pending
      BY <1>e, <1>f, <2>2 DEF TypeOK
    <3>2. Open(d)
      BY <3>1 DEF JournalInv
    <3> QED BY <1>d, <3>1, <3>2
  <2> QED BY <1>e, <2>1, <2>2 DEF JournalInv
<1>3. InvocationsInv'
  BY <1>a, <1>b, <1>c DEF TypeOK, InvocationsInv, Drain
<1>4. FuturesInv'
  BY <1>a, <1>b, <1>c DEF TypeOK, FuturesInv, InvocationsInv, Ended, Drain
<1>5. ResultsInv'
  BY <1>a, <1>b, <1>c DEF TypeOK, ResultsInv, Observations, InvocationsInv, Drain
<1>6. OneVerdict'
  BY <1>a, <1>b, <1>c, VerdictsStaySingle DEF Verdicts
<1>7. QuotaIsKept'
  BY <1>a, <1>b, <1>c, QuotaStays DEF Drain
<1> QED BY <1>1, <1>2, <1>3, <1>4, <1>5, <1>6, <1>7

\* Only what was observed is committed.
LEMMA CommitKeeps ==
    ASSUME IInv, Commit
    PROVE  IInv'
<1> USE DEF IInv
<1>a. Observations \ committed # {} => Min(Observations \ committed) \in Observations /\ Min(Observations \ committed) \in Candidates
  BY MinInSet DEF Observations, TypeOK, Grades
<1>1. TypeOK'
  BY <1>a DEF TypeOK, PCs, ThreadStates, Grades, Commit
<1>2. JournalInv'
  BY <1>a DEF TypeOK, JournalInv, Open, Commit
<1>3. InvocationsInv'
  BY <1>a DEF TypeOK, InvocationsInv, Commit
<1>4. FuturesInv'
  BY <1>a DEF TypeOK, FuturesInv, InvocationsInv, Ended, Commit
<1>5. ResultsInv'
  BY <1>a DEF TypeOK, ResultsInv, Observations, InvocationsInv, Commit
<1>6. OneVerdict'
  BY <1>a DEF OneVerdict, Commit
<1>7. QuotaIsKept'
  BY <1>a, QuotaStays DEF Commit
<1> QED BY <1>1, <1>2, <1>3, <1>4, <1>5, <1>6, <1>7

LEMMA CountKeeps ==
    ASSUME IInv, NEW c \in Candidates, Count(c)
    PROVE  IInv'
<1> USE DEF IInv
<1>e. pc \notin {"recover", "cancel"}
  BY DEF FuturesInv, Idle, Count
<1>1. TypeOK'
  BY <1>e DEF TypeOK, PCs, ThreadStates, Grades, Count, Goto
<1>2. JournalInv'
  BY <1>e DEF TypeOK, JournalInv, Open, Count, Goto
<1>3. InvocationsInv'
  BY <1>e DEF TypeOK, InvocationsInv, Count, Goto
<1>4. FuturesInv'
  BY <1>e DEF TypeOK, FuturesInv, InvocationsInv, Ended, Count, Goto
<1>5. ResultsInv'
  BY <1>e DEF TypeOK, ResultsInv, Observations, InvocationsInv, Count, Goto
<1>6. OneVerdict'
  BY <1>e DEF OneVerdict, Count, Goto
<1>7. QuotaIsKept'
  BY <1>e, QuotaStays DEF Count, Goto
<1> QED BY <1>1, <1>2, <1>3, <1>4, <1>5, <1>6, <1>7

\* The start is in the journal before the runner is called.
LEMMA LogStartKeeps ==
    ASSUME IInv, NEW c \in Candidates, LogStart(c)
    PROVE  IInv'
<1> USE DEF IInv
<1>b. /\ log' \subseteq Candidates \X Events
      /\ log \subseteq log'
      /\ \A d, f : <<d, f>> \in log' => <<d, f>> \in log \/ (d = c /\ f = "started")
      /\ torn' \in BOOLEAN /\ malformed' \in BOOLEAN
      /\ malformed => malformed'
      /\ <<c, "started">> \in log' \/ malformed'
  BY AppendLine DEF LogStart, Events
<1>d. /\ \A d \in Candidates : Open(d) => Open(d)'
      /\ \A d, f : <<d, f>> \in log => <<d, f>> \in log'
  BY <1>b DEF Open, Verdicts
<1>e. pc \notin {"recover", "cancel"}
  BY DEF FuturesInv, Idle, LogStart
<1>1. TypeOK'
  BY <1>b, <1>e DEF TypeOK, PCs, ThreadStates, Grades, LogStart, Goto
<1>2. JournalInv'
  BY <1>b, <1>d, <1>e DEF TypeOK, JournalInv, LogStart, Goto
<1>3. InvocationsInv'
  BY <1>b, <1>e DEF TypeOK, InvocationsInv, LogStart, Goto
<1>4. FuturesInv'
  BY <1>b, <1>e DEF TypeOK, FuturesInv, InvocationsInv, Ended, LogStart, Goto
<1>5. ResultsInv'
  BY <1>b, <1>e DEF TypeOK, ResultsInv, Observations, InvocationsInv, LogStart, Goto
<1>6. OneVerdict'
  BY <1>b DEF OneVerdict, Verdicts
<1>7. QuotaIsKept'
  BY <1>b, <1>e, QuotaStays DEF LogStart, Goto
<1> QED BY <1>1, <1>2, <1>3, <1>4, <1>5, <1>6, <1>7

\* The runner is called for a candidate that was not run before.
LEMMA GenerateKeeps ==
    ASSUME IInv, NEW c \in Candidates, Generate(c)
    PROVE  IInv'
<1> USE DEF IInv
<1>a. pc \notin {"recover", "cancel"}
  BY DEF FuturesInv, Idle, Generate
<1>b. invoked' \in [Candidates -> Nat] /\ \A d \in Candidates : d # c => invoked'[d] = invoked[d]
  <2>1. CASE c \in asked
    BY <2>1 DEF Generate, TypeOK
  <2>2. CASE c \notin asked
    BY <2>2 DEF Generate, TypeOK
  <2> QED BY <2>1, <2>2
<1>c. /\ UNCHANGED <<log, pc, next, pending, committed, observed>>
      /\ thread[c] = "started"
  BY DEF Generate
<1>d. Observations \cup committed \subseteq Candidates
  BY DEF Observations, TypeOK, Grades
<1>e. c \notin Observations \cup committed
  <2>1. invoked[c] = 0
    BY <1>c DEF InvocationsInv
  <2>2. \A d \in Observations \cup committed : invoked[d] = 1
    BY Zenon DEF ResultsInv
  <2> QED BY <2>1, <2>2
<1>f. Observations' = Observations
  BY <1>c DEF Observations
<1>1. TypeOK'
  BY <1>a DEF TypeOK, PCs, ThreadStates, Grades, Generate, Goto
<1>2. JournalInv'
  BY <1>a DEF TypeOK, JournalInv, Open, Generate, Goto
<1>3. InvocationsInv'
  BY <1>a DEF TypeOK, InvocationsInv, Generate, Goto
<1>4. FuturesInv'
  BY <1>a DEF TypeOK, FuturesInv, InvocationsInv, Ended, Generate, Goto
<1>5. ResultsInv'
  BY <1>f, <1>c, <1>d, <1>e, <1>b DEF ResultsInv
<1>6. OneVerdict'
  BY <1>a DEF OneVerdict, Generate, Goto
<1>7. QuotaIsKept'
  BY <1>a, QuotaStays DEF Generate, Goto
<1> QED BY <1>1, <1>2, <1>3, <1>4, <1>5, <1>6, <1>7

LEMMA EndKeeps ==
    ASSUME IInv, NEW c \in Candidates, End(c)
    PROVE  IInv'
<1> USE DEF IInv
<1>e. pc \notin {"recover", "cancel"}
  BY DEF FuturesInv, Idle, End
<1>1. TypeOK'
  BY <1>e DEF TypeOK, PCs, ThreadStates, Grades, End, Goto
<1>2. JournalInv'
  BY <1>e DEF TypeOK, JournalInv, Open, End, Goto
<1>3. InvocationsInv'
  BY <1>e DEF TypeOK, InvocationsInv, End, Goto
<1>4. FuturesInv'
  BY <1>e DEF TypeOK, FuturesInv, InvocationsInv, Ended, End, Goto
<1>5. ResultsInv'
  BY <1>e DEF TypeOK, ResultsInv, Observations, InvocationsInv, End, Goto
<1>6. OneVerdict'
  BY <1>e DEF OneVerdict, End, Goto
<1>7. QuotaIsKept'
  BY <1>e, QuotaStays DEF End, Goto
<1> QED BY <1>1, <1>2, <1>3, <1>4, <1>5, <1>6, <1>7

\* The journal and the counts of calls survive a crash.
LEMMA CrashKeeps ==
    ASSUME IInv, Crash
    PROVE  IInv'
<1> USE DEF IInv
<1>1. /\ pc' \in {"recover", "left"} /\ (committed # {} => pc' = "left")
      /\ plans' = NextPlans /\ next' = {} /\ pending' = {} /\ batch' = {} /\ asked' = {}
      /\ thread' = Idle /\ started' = 0 /\ observed' = Nothing
      /\ UNCHANGED <<log, malformed, committed, invoked>>
  BY DEF Crash
<1>2. torn' \in BOOLEAN
  BY Zenon DEF Crash, TypeOK
<1>3. crashes' \in 0..MaxCrashes
  BY CandidateAssumption DEF Crash, TypeOK
<1>4. plans' \subseteq Candidates
  BY <1>1, CandidatesAreNumbers DEF NextPlans, Fresh
<1>5. Observations' = {} /\ Eligible' = {}
  BY <1>1 DEF Observations, Eligible, Nothing, Grades
<1>6. TypeOK'
  BY <1>1, <1>2, <1>3, <1>4 DEF TypeOK, PCs, ThreadStates, Idle, Nothing
<1>7. \A c \in Candidates : thread'[c] = "none"
  BY <1>1 DEF Idle
<1>8. JournalInv' /\ InvocationsInv'
  BY <1>1, <1>7 DEF JournalInv, InvocationsInv
<1>9. FuturesInv' /\ ResultsInv' /\ OneVerdict'
  BY <1>1, <1>5 DEF FuturesInv, ResultsInv, OneVerdict
<1>10. QuotaIsKept'
  BY <1>1, <1>5, FS_EmptySet, CandidateAssumption DEF QuotaIsKept
<1> QED BY <1>6, <1>8, <1>9, <1>10

\* A candidate is scheduled once, and only while one is wanted.
LEMMA ScheduleKeeps ==
    ASSUME IInv, Schedule
    PROVE  IInv'
<1> USE DEF IInv
<1> DEFINE c == Min(next)
<1>a. next # {} /\ next \subseteq Candidates /\ pc = "loop"
  BY DEF Schedule, MaySchedule, TypeOK
<1>b. c \in next /\ c \in Candidates
  BY <1>a, MinInSet
<1>c. /\ next' = next \ {c} /\ pending' = pending \cup {c}
      /\ thread' = [thread EXCEPT ![c] = "queued"]
      /\ UNCHANGED <<pc, plans, batch, asked, started, observed, committed, invoked, crashes>>
      /\ Append({})
  BY DEF Schedule
<1> HIDE DEF c
<1>d. /\ log' = log /\ torn' \in BOOLEAN /\ malformed' \in BOOLEAN
      /\ malformed => malformed'
  BY <1>c, AppendNothing
<1>e. c \in plans /\ c \notin pending /\ invoked[c] = 0 /\ thread[c] = "none"
  BY <1>b DEF TypeOK, InvocationsInv
<1>f. batch = {} /\ asked = {}
  BY <1>a DEF FuturesInv
<1>1. TypeOK'
  BY <1>a, <1>b, <1>c, <1>d, <1>e, <1>f DEF TypeOK, ThreadStates
<1>2. JournalInv'
  <2>1. \A d \in Candidates : Open(d)' <=> Open(d)
    BY <1>d DEF Open
  <2>2. \A d \in Candidates : thread'[d] = "started" => thread[d] = "started"
    BY <1>c DEF TypeOK
  <2>3. next' \cup pending' = next \cup pending
    BY <1>b, <1>c
  <2> QED BY <1>a, <1>c, <1>d, <2>1, <2>2, <2>3 DEF JournalInv
<1>3. InvocationsInv'
  BY <1>b, <1>c, <1>e DEF TypeOK, InvocationsInv
<1>4. FuturesInv'
  BY <1>a, <1>b, <1>c, <1>f DEF TypeOK, FuturesInv, Ended
<1>5. ResultsInv'
  <2>1. Observations' = Observations
    BY <1>c DEF Observations
  <2> QED BY <1>b, <1>c, <1>d, <2>1 DEF ResultsInv
<1>6. OneVerdict'
  BY <1>d DEF OneVerdict
<1>7. QuotaIsKept'
  <2>1. IsFiniteSet(pending) /\ IsFiniteSet(Eligible)
    BY CandidatesAreNumbers, FS_Subset DEF TypeOK, Eligible, Grades
  <2>2. Cardinality(pending') = Cardinality(pending) + 1
    BY <1>c, <1>e, <2>1, FS_AddElement
  <2>3. Cardinality(pending) \in Nat /\ Cardinality(Eligible) \in Nat
    BY <2>1, FS_CardinalityType
  <2>4. Eligible' = Eligible
    BY <1>c DEF Eligible
  <2>5. Compare => Cardinality(pending) < Requirement - Cardinality(Eligible)
    BY DEF Schedule, MaySchedule
  <2> QED BY <2>2, <2>3, <2>4, <2>5, CandidateAssumption DEF QuotaIsKept
<1> QED BY <1>1, <1>2, <1>3, <1>4, <1>5, <1>6, <1>7

\* Nobody is asked to stop while futures are judged: what has ended was run.
LEMMA JudgeKeeps ==
    ASSUME IInv, Judge
    PROVE  IInv'
<1> USE DEF IInv
<1> DEFINE c == Min(batch)
<1>a. pc = "judge" /\ batch # {} /\ batch \subseteq pending /\ pending \subseteq Candidates
  BY DEF Judge, TypeOK
<1>b. c \in batch /\ c \in pending /\ c \in Candidates
  BY <1>a, MinInSet
<1>c. PICK g \in Grades, e \in {"failed", "verified"} :
          observed' = [observed EXCEPT ![g] = @ \cup {c}] /\ Append({<<c, e>>})
  BY DEF Judge, Grades
<1>d. /\ batch' = batch \ {c} /\ pending' = pending \ {c}
      /\ UNCHANGED <<pc, plans, next, asked, thread, started, committed, invoked, crashes>>
  BY DEF Judge
<1> HIDE DEF c
<1>e. e \in Events /\ e \in Verdicts /\ e # "cancelled"
  BY DEF Events, Verdicts
<1>f. /\ log' \subseteq Candidates \X Events
      /\ log \subseteq log'
      /\ \A d, f : <<d, f>> \in log' => <<d, f>> \in log \/ (d = c /\ f = e)
      /\ torn' \in BOOLEAN /\ malformed' \in BOOLEAN
      /\ malformed => malformed'
  BY <1>b, <1>c, <1>e, AppendLine
<1>g. asked = {} /\ Ended(c) /\ thread[c] = "ended" /\ invoked[c] = 1
  BY <1>a, <1>b DEF FuturesInv, Ended
<1>h. Open(c) /\ c \notin next /\ c \in plans
  BY <1>b DEF JournalInv, TypeOK
<1>i. \A d \in Candidates : d # c /\ Open(d) => Open(d)'
  BY <1>f DEF Open
<1>j. \A h \in Grades : observed[h] \subseteq observed'[h]
                        /\ observed'[h] \subseteq observed[h] \cup {c}
  BY <1>c DEF TypeOK
<1>k. Observations' \subseteq Observations \cup {c} /\ Eligible' \subseteq Eligible \cup {c}
  BY <1>j DEF Observations, Eligible, Grades
<1>1. TypeOK'
  <2>1. observed' \in [Grades -> SUBSET plans]
    BY <1>c, <1>h DEF TypeOK
  <2> QED BY <1>a, <1>b, <1>d, <1>f, <1>g, <2>1 DEF TypeOK
<1>2. JournalInv'
  <2>1. ASSUME NEW d \in Candidates, invoked[d] > 0 \/ thread[d] = "started"
        PROVE  <<d, "started">> \in log' \/ malformed'
    BY <1>f, <2>1 DEF JournalInv
  <2>2. ASSUME NEW d \in next \cup pending'
        PROVE  Open(d)'
    <3>1. d # c /\ d \in Candidates /\ d \in next \cup pending
      BY <1>d, <1>h, <2>2 DEF TypeOK
    <3>2. Open(d)
      BY <3>1 DEF JournalInv
    <3> QED BY <1>i, <3>1, <3>2
  <2> QED BY <1>a, <1>d, <2>1, <2>2 DEF JournalInv
<1>3. InvocationsInv'
  BY <1>d DEF InvocationsInv
<1>4. FuturesInv'
  BY <1>a, <1>d, <1>g DEF FuturesInv, Ended
<1>5. ResultsInv'
  <2>1. ASSUME NEW d \in Observations \cup committed, <<d, "cancelled">> \in log'
        PROVE  FALSE
    BY <1>e, <1>f, <2>1 DEF ResultsInv
  <2>2. <<c, "cancelled">> \notin log'
    BY <1>e, <1>f, <1>h DEF Open, Verdicts
  <2> QED BY <1>a, <1>d, <1>g, <1>h, <1>k, <2>1, <2>2 DEF ResultsInv
<1>6. OneVerdict'
  BY <1>b, <1>e, <1>f, <1>h, VerdictsStaySingle
<1>7. QuotaIsKept'
  <2>0. Eligible \subseteq Candidates /\ pending \subseteq Candidates
        /\ Eligible \cup {c} \subseteq Candidates /\ Eligible' \subseteq Eligible \cup {c}
    BY <1>b, <1>k DEF TypeOK, Eligible, Grades
  <2> HIDE DEF IInv
  <2>1. IsFiniteSet(pending) /\ IsFiniteSet(Eligible) /\ IsFiniteSet(Eligible \cup {c})
    BY <2>0, CandidatesAreNumbers, FS_Subset
  <2>2. Cardinality(pending') = Cardinality(pending) - 1
    BY <1>b, <1>d, <2>1, FS_RemoveElement
  <2>3. Cardinality(Eligible \cup {c}) <= Cardinality(Eligible) + 1
    BY <2>1, OneMore
  <2>4. Cardinality(Eligible') <= Cardinality(Eligible \cup {c}) /\ IsFiniteSet(Eligible')
    <3>1. ASSUME NEW T, IsFiniteSet(T), NEW S \in SUBSET T
          PROVE  IsFiniteSet(S) /\ Cardinality(S) <= Cardinality(T)
      BY <3>1, FS_Subset
    <3> QED BY <2>0, <2>1, <3>1
  <2>5. /\ Cardinality(pending) \in Nat /\ Cardinality(Eligible) \in Nat
        /\ Cardinality(Eligible') \in Nat /\ Cardinality(Eligible \cup {c}) \in Nat
    BY <2>1, <2>4, FS_CardinalityType
  <2>6. QuotaIsKept
    BY DEF IInv
  <2> QED BY <2>2, <2>3, <2>4, <2>5, <2>6, CandidateAssumption DEF QuotaIsKept
<1> QED BY <1>1, <1>2, <1>3, <1>4, <1>5, <1>6, <1>7
----------------------------------------------------------------------------
(* The theorems *)

LEMMA InitHolds == Init => IInv
<1> SUFFICES ASSUME Init PROVE IInv
  OBVIOUS
<1>1. N >= 1 /\ N <= N + MaxCrashes * (N - 1) /\ N + MaxCrashes * (N - 1) \in Nat /\ N \in Nat
  BY CandidateAssumption
<1>2. 1..N \subseteq Candidates
  BY <1>1 DEF Candidates
<1>3. TypeOK
  <2>1. thread \in [Candidates -> ThreadStates] /\ invoked \in [Candidates -> Nat]
    BY DEF Init, Idle, ThreadStates
  <2>2. observed \in [Grades -> SUBSET plans]
    BY DEF Init, Nothing
  <2>3. torn \in BOOLEAN /\ malformed \in BOOLEAN
    BY Zenon DEF Init
  <2>4. crashes \in 0..MaxCrashes /\ plans \subseteq Candidates
    BY <1>2, CandidateAssumption DEF Init
  <2> QED BY <2>1, <2>2, <2>3, <2>4 DEF Init, TypeOK, PCs
<1>4. Observations = {} /\ Eligible = {}
  BY DEF Init, Observations, Eligible, Nothing, Grades
<1>5. JournalInv /\ InvocationsInv
  BY DEF Init, JournalInv, InvocationsInv, Idle, Open
<1>6. FuturesInv /\ ResultsInv /\ OneVerdict
  BY <1>4 DEF Init, FuturesInv, ResultsInv, OneVerdict
<1>7. QuotaIsKept
  BY <1>4, FS_EmptySet, CandidateAssumption DEF Init, QuotaIsKept
<1> QED BY <1>3, <1>5, <1>6, <1>7 DEF IInv

LEMMA StutteringKeeps ==
    ASSUME IInv, UNCHANGED vars
    PROVE  IInv'
<1> USE DEF IInv, vars
<1>1. TypeOK' /\ JournalInv' /\ InvocationsInv'
  BY DEF TypeOK, JournalInv, InvocationsInv, Open
<1>2. FuturesInv' /\ ResultsInv'
  BY DEF FuturesInv, ResultsInv, Observations, Ended
<1>3. OneVerdict' /\ QuotaIsKept'
  BY DEF OneVerdict, QuotaIsKept, Eligible
<1> QED BY <1>1, <1>2, <1>3

LEMMA StepKeeps == IInv /\ [Next]_vars => IInv'
<1> SUFFICES ASSUME IInv, [Next]_vars PROVE IInv'
  OBVIOUS
<1>1. CASE Main
  BY <1>1, ReadJournalKeeps, CancelInterruptedKeeps, BeginBatchKeeps, ScheduleKeeps,
     EndSchedulingKeeps, WaitKeeps, JudgeKeeps, DecideKeeps, RequestStopKeeps, EndStopKeeps,
     DrainKeeps, EndDrainKeeps, FinishKeeps, CommitKeeps, Zenon DEF Main
<1>2. ASSUME NEW c \in Candidates, Thread(c) PROVE IInv'
  BY <1>2, CountKeeps, LogStartKeeps, GenerateKeeps, EndKeeps, Zenon DEF Thread
<1>3. CASE Crash
  BY <1>3, CrashKeeps
<1>4. CASE UNCHANGED vars
  BY <1>4, StutteringKeeps
<1> QED BY <1>1, <1>2, <1>3, <1>4, Zenon DEF Next

\* The invariant of every behaviour.
THEOREM InvariantHolds == Spec => []IInv
<1>1. Init => IInv
  BY InitHolds
<1>2. IInv /\ [Next]_vars => IInv'
  BY StepKeeps
<1> QED BY <1>1, <1>2, PTL DEF Spec

\* Every variable has its type (scheduler.py: plans, pending and observations of execute).
THEOREM TypeCorrect == Spec => []TypeOK
<1>1. IInv => TypeOK
  BY DEF IInv
<1> QED BY <1>1, InvariantHolds, PTL

\* However threads, crashes and resumptions interleave, the runner of an attempt is called
\* once at most (scheduler.py:89).
THEOREM InvokedOnce == Spec => []NeverInvokedTwice
<1>1. IInv => NeverInvokedTwice
  BY DEF IInv, InvocationsInv, NeverInvokedTwice
<1> QED BY <1>1, InvariantHolds, PTL

\* No candidate has two verdicts in the journal.
THEOREM JudgedOnce == Spec => []OneVerdict
<1>1. IInv => OneVerdict
  BY DEF IInv
<1> QED BY <1>1, InvariantHolds, PTL

\* A comparison never has more candidates in flight than it still wants.
THEOREM QuotaHolds == Spec => []QuotaIsKept
<1>1. IInv => QuotaIsKept
  BY DEF IInv
<1> QED BY <1>1, InvariantHolds, PTL

\* What the controller commits was run, and nobody cancelled it.
THEOREM CommitmentsAreJudged == Spec => []CommittedIsJudged
<1>1. IInv => CommittedIsJudged
  BY DEF IInv, ResultsInv, CommittedIsJudged, Logged
<1> QED BY <1>1, InvariantHolds, PTL
============================================================================
