-------------------------- MODULE SpoolSyncProofs --------------------------
(***************************************************************************)
(* SpoolSync for any runs, syncers, policies, failures and crashes: agentd *)
(* deletes nothing that the server does not have, and gives events up only *)
(* when one of their batch is refused or was stored under an older policy; *)
(* and, for runs that only the importer hands over, an outcome never       *)
(* arrives before its events and a run that is shown as synchronized has   *)
(* arrived as a whole.                                                     *)
(*                                                                         *)
(* The argument: an event of an imported run is in the spool until it is   *)
(* stored (Covered); what waits for an empty spool is therefore sent when  *)
(* all events have arrived (Arrived), and stays so wherever the request is *)
(* delayed (RequestsInv).                                                  *)
(***************************************************************************)
EXTENDS SpoolSync, TLAPS

Stored(i) == stored[i] # 0

\* Every event of r is in the spool or on the server; every one is on the server.
Covered(r) == \A e \in EventsOf(r) : Row(e) \/ Stored(e)
Arrived(r) == \A e \in EventsOf(r) : Stored(e)

\* An item that was accepted is stored, and so is one that counts as acknowledged.
AnswersInv ==
    \A s \in Syncers : pc[s] = "settle" /\ verdict[s] = "ok" => \A i \in batch[s] : Stored(i)

AcknowledgedInv == \A i \in Items : upload[i] = "acknowledged" => Stored(i)

\* The importer has a run at hand.
CurrentInv ==
    \A s \in Syncers :
      pc[s] \in {"ingest", "register", "finalize", "record"} => current[s] \in Runs

BaseInv == TypeOK /\ CurrentInv /\ AnswersInv /\ AcknowledgedInv

\* The importer registers and finalizes a run when all of its events are covered.
ImportInv ==
    /\ \A r \in closed : written[r] = Length
    /\ \A s \in Syncers :
         /\ pc[s] = "ingest" /\ ended[s] => current[s] \in closed
         /\ pc[s] \in {"register", "finalize", "record"} => Covered(current[s])
         /\ pc[s] \in {"finalize", "record"} => Row(ArtifactOf(current[s]))

RowsInv ==
    \A r \in Runs :
      /\ Row(ArtifactOf(r)) => Covered(r)
      /\ Row(OutcomeOf(r)) => Row(ArtifactOf(r))

\* An outcome or artifact on its way belongs to a run whose events have arrived.
RequestsInv ==
    /\ \A s \in Syncers : \A i \in (queue[s] \cup batch[s]) \ Events : Arrived(i[1])
    /\ \A m \in late : \A i \in m \ Events : Arrived(i[1])

OrderInv == ImportInv /\ RowsInv /\ RequestsInv /\ OutcomeAfterEvents
----------------------------------------------------------------------------
(* Items, and what a transaction does to the rows and to the server *)

\* Outcomes and artifacts are no events, and tell their run.
LEMMA ItemsAre ==
    /\ Events \subseteq Items
    /\ \A i \in Items : i[1] \in Runs
    /\ \A r \in Runs :
         /\ EventsOf(r) \subseteq Events
         /\ OutcomeOf(r) \in Items \ Events /\ ArtifactOf(r) \in Items \ Events
         /\ OutcomeOf(r)[1] = r /\ ArtifactOf(r)[1] = r
         /\ \A q \in Runs : /\ OutcomeOf(r) # ArtifactOf(q)
                            /\ OutcomeOf(r) = OutcomeOf(q) => r = q
                            /\ ArtifactOf(r) = ArtifactOf(q) => r = q
<1> USE SpoolSyncAssumption DEF Items, Events, EventsOf, OutcomeOf, ArtifactOf
<1>1. Events \subseteq Items
  OBVIOUS
<1>2. \A i \in Items : i[1] \in Runs
  OBVIOUS
<1>3. ASSUME NEW r \in Runs
      PROVE  /\ EventsOf(r) \subseteq Events
             /\ OutcomeOf(r) \in Items \ Events /\ ArtifactOf(r) \in Items \ Events
             /\ OutcomeOf(r)[1] = r /\ ArtifactOf(r)[1] = r
  OBVIOUS
<1>4. ASSUME NEW r \in Runs, NEW q \in Runs
      PROVE  /\ OutcomeOf(r) # ArtifactOf(q)
             /\ OutcomeOf(r) = OutcomeOf(q) => r = q
             /\ ArtifactOf(r) = ArtifactOf(q) => r = q
  OBVIOUS
<1> QED BY <1>1, <1>2, <1>3, <1>4

\* An insertion adds rows, and changes none.
LEMMA InsertedRows ==
    ASSUME TypeOK, NEW es \in SUBSET Items, upload' = Inserted(es)
    PROVE  /\ upload' \in [Items -> UploadStates]
           /\ \A i \in Items : Row(i) => upload'[i] = upload[i]
           /\ \A i \in Items : Row(i)' <=> Row(i) \/ i \in es
           /\ \A i \in Items : upload'[i] \in {"acknowledged", "dead_letter"}
                                 => upload'[i] = upload[i]
BY DEF TypeOK, Inserted, Row, UploadStates

\* An answer removes the rows of events that are on the server, and no others.
LEMMA SettledRows ==
    ASSUME TypeOK, NEW part \in SUBSET Items, NEW answer \in {"ok", "transient", "permanent"},
           SettleRows(part, answer), answer = "ok" => \A i \in part : Stored(i)
    PROVE  /\ upload' \in [Items -> UploadStates] /\ waiting' \in SUBSET Items
           /\ \A i \in Items : Row(i)' => Row(i)
           /\ \A i \in Items : Row(i) => Row(i)' \/ (Stored(i) /\ i \in Events)
           /\ \A i \in Items : upload'[i] = "acknowledged"
                                 => upload[i] = "acknowledged" \/ Stored(i)
           /\ \A i \in Items : upload'[i] = "dead_letter"
                                 => upload[i] = "dead_letter" \/ (answer = "permanent" /\ i \in part)
<1>1. upload' = [i \in Items |-> IF i \in part THEN Settled(i, answer) ELSE upload[i]]
  BY DEF SettleRows
<1>2. \A i \in Items : Settled(i, answer) \in UploadStates
  BY DEF Settled, UploadStates
<1>3. upload' \in [Items -> UploadStates]
  BY <1>1, <1>2 DEF TypeOK
<1>4. waiting' \in SUBSET Items
  BY DEF SettleRows, TypeOK
<1>5. \A i \in Items : upload'[i] = IF i \in part THEN Settled(i, answer) ELSE upload[i]
  BY <1>1
<1>6. \A i \in Items : Row(i)' <=> upload'[i] # "absent"
  BY DEF Row
<1> QED BY <1>3, <1>4, <1>5, <1>6 DEF Settled, Row, UploadStates

\* The server forgets nothing, and an accepted request is stored.
LEMMA ServedRequest ==
    ASSUME TypeOK, NEW m \in SUBSET Items, Serve(m)
    PROVE  /\ stored' \in [Items -> 0 .. MaxPolicies]
           /\ batches' \subseteq [ids : SUBSET Events, policy : 1 .. MaxPolicies]
           /\ commitment' \in [Runs -> SUBSET Events]
           /\ \A i \in Items : Stored(i) => Stored(i)'
           /\ \A i \in Items : Stored(i)' => Stored(i) \/ i \in m
           /\ Verdict(m) = "ok" => \A i \in m : Stored(i)'
<1>1. MaxPolicies \in Nat /\ policy \in 1 .. MaxPolicies
  BY SpoolSyncAssumption DEF TypeOK
<1>2. StoredBy(m) \in [Items -> 0 .. MaxPolicies]
  BY <1>1 DEF StoredBy, TypeOK
<1>3. CASE Verdict(m) = "ok"
  <2>1. stored' = StoredBy(m)
    BY <1>3 DEF Serve
  <2>2. \A i \in Items : stored'[i] = IF i \in m /\ stored[i] = 0 THEN policy ELSE stored[i]
    BY <2>1 DEF StoredBy
  <2>3. batches' \subseteq [ids : SUBSET Events, policy : 1 .. MaxPolicies]
    <3>1. [ids |-> m \cap Events, policy |-> policy] \in [ids : SUBSET Events, policy : 1 .. MaxPolicies]
      BY <1>1
    <3>2. batches' = batches
          \/ batches' = batches \cup {[ids |-> m \cap Events, policy |-> policy]}
      BY <1>3 DEF Serve
    <3> QED BY <3>1, <3>2 DEF TypeOK
  <2>4. commitment' \in [Runs -> SUBSET Events]
    <3>1. PICK committed \in SUBSET {e[1] : e \in {f \in m \cap Events : Terminal(f) /\ stored[f] = 0}} :
            commitment' = [r \in Runs |-> IF r \in committed THEN {e \in EventsOf(r) : StoredBy(m)[e] # 0}
                                          ELSE commitment[r]]
      BY <1>3 DEF Serve
    <3>2. \A r \in Runs : {e \in EventsOf(r) : StoredBy(m)[e] # 0} \subseteq Events
      BY ItemsAre
    <3> QED BY <3>1, <3>2 DEF TypeOK
  <2> QED BY <1>1, <1>2, <2>1, <2>2, <2>3, <2>4 DEF Stored
<1>4. CASE Verdict(m) # "ok"
  BY <1>4 DEF Serve, TypeOK, Stored
<1> QED BY <1>3, <1>4

\* The importer inserts events of its run, and all of them when the run is written.
LEMMA ImportableAre ==
    ASSUME TypeOK, NEW s \in Syncers, current[s] \in Runs
    PROVE  /\ Importable(s) \in SUBSET Items /\ Importable(s) \subseteq EventsOf(current[s])
           /\ written[current[s]] = Length => Importable(s) = EventsOf(current[s])
<1>1. written[current[s]] \in 0 .. Length /\ Length \in Nat
  BY SpoolSyncAssumption DEF TypeOK
<1>2. /\ 1 .. written[current[s]] \subseteq 1 .. Length + 2
      /\ 1 .. written[current[s]] \subseteq 1 .. Length
  BY <1>1
<1> QED BY <1>2 DEF Importable, EventsOf, Items
----------------------------------------------------------------------------
(* Nothing is lost: whatever happens, BaseInv is kept *)

LEMMA WriteEventBase ==
    ASSUME BaseInv, NEW r \in Runs, WriteEvent(r)
    PROVE  BaseInv'
<1> USE DEF BaseInv
<1>1. TypeOK'
  BY SpoolSyncAssumption DEF TypeOK, WriteEvent, Stay, runVars, spoolVars, syncVars, serverVars
<1>2. AnswersInv'
  BY DEF TypeOK, AnswersInv, Stored, WriteEvent, Stay, runVars, spoolVars, syncVars, serverVars
<1>3. AcknowledgedInv'
  BY DEF TypeOK, AcknowledgedInv, Stored, WriteEvent, Stay, runVars, spoolVars, syncVars,
         serverVars
<1>4. CurrentInv'
  BY DEF TypeOK, CurrentInv, WriteEvent, Stay, runVars, spoolVars, syncVars, serverVars
<1> QED BY <1>1, <1>2, <1>3, <1>4

LEMMA CloseBase ==
    ASSUME BaseInv, NEW r \in Runs, Close(r)
    PROVE  BaseInv'
<1> USE DEF BaseInv
<1>1. TypeOK'
  BY DEF TypeOK, Close, Stay, runVars, spoolVars, syncVars, serverVars
<1>2. AnswersInv'
  BY DEF TypeOK, AnswersInv, Stored, Close, Stay, runVars, spoolVars, syncVars, serverVars
<1>3. AcknowledgedInv'
  BY DEF TypeOK, AcknowledgedInv, Stored, Close, Stay, runVars, spoolVars, syncVars, serverVars
<1>4. CurrentInv'
  BY DEF TypeOK, CurrentInv, Close, Stay, runVars, spoolVars, syncVars, serverVars
<1> QED BY <1>1, <1>2, <1>3, <1>4

LEMMA SubmitEventBase ==
    ASSUME BaseInv, NEW r \in Runs, SubmitEvent(r)
    PROVE  BaseInv'
<1> USE DEF BaseInv
<1>a. {<<r, delivered[r] + 1>>} \in SUBSET Items
  BY SpoolSyncAssumption, ItemsAre DEF TypeOK, SubmitEvent, Events, Items
<1>b. upload' = Inserted({<<r, delivered[r] + 1>>})
  BY DEF SubmitEvent, Events, Items
<1>c. /\ upload' \in [Items -> UploadStates]
      /\ \A i \in Items : upload'[i] = "acknowledged" => upload[i] = "acknowledged"
  BY <1>a, <1>b, InsertedRows
<1>1. TypeOK'
  <2>1. delivered' \in [Runs -> 0 .. Length]
    BY SpoolSyncAssumption DEF TypeOK, SubmitEvent
  <2> QED BY <1>c, <2>1 DEF TypeOK, SubmitEvent, syncVars, serverVars
<1>2. AnswersInv'
  BY DEF TypeOK, AnswersInv, Stored, SubmitEvent, Stay, runVars, spoolVars, syncVars, serverVars
<1>3. AcknowledgedInv'
  BY <1>c
  DEF TypeOK, AcknowledgedInv, Stored, SubmitEvent, Stay, runVars, spoolVars, syncVars,
      serverVars
<1>4. CurrentInv'
  BY DEF TypeOK, CurrentInv, SubmitEvent, Stay, runVars, spoolVars, syncVars, serverVars
<1> QED BY <1>1, <1>2, <1>3, <1>4

LEMMA SinkFinalizeBase ==
    ASSUME BaseInv, NEW r \in Runs, SinkFinalize(r)
    PROVE  BaseInv'
<1> USE DEF BaseInv
<1>a. PICK es \in SUBSET Items : upload' = Inserted(es)
  BY ItemsAre DEF SinkFinalize
<1>c. /\ upload' \in [Items -> UploadStates]
      /\ \A i \in Items : upload'[i] = "acknowledged" => upload[i] = "acknowledged"
  BY <1>a, InsertedRows
<1>1. TypeOK'
  BY <1>c DEF TypeOK, SinkFinalize, Stay, runVars, spoolVars, syncVars, serverVars
<1>2. AnswersInv'
  BY DEF TypeOK, AnswersInv, Stored, SinkFinalize, Stay, runVars, spoolVars, syncVars,
         serverVars
<1>3. AcknowledgedInv'
  BY <1>c
  DEF TypeOK, AcknowledgedInv, Stored, SinkFinalize, Stay, runVars, spoolVars, syncVars,
      serverVars
<1>4. CurrentInv'
  BY DEF TypeOK, CurrentInv, SinkFinalize, Stay, runVars, spoolVars, syncVars, serverVars
<1> QED BY <1>1, <1>2, <1>3, <1>4

LEMMA RetryDelayPassesBase ==
    ASSUME BaseInv, NEW i \in Items, RetryDelayPasses(i)
    PROVE  BaseInv'
<1> USE DEF BaseInv
<1>1. TypeOK'
  BY DEF TypeOK, RetryDelayPasses, Stay, runVars, spoolVars, syncVars, serverVars
<1>2. AnswersInv'
  BY DEF TypeOK, AnswersInv, Stored, RetryDelayPasses, Stay, runVars, spoolVars, syncVars,
         serverVars
<1>3. AcknowledgedInv'
  BY DEF TypeOK, AcknowledgedInv, Stored, RetryDelayPasses, Stay, runVars, spoolVars,
         syncVars, serverVars
<1>4. CurrentInv'
  BY DEF TypeOK, CurrentInv, RetryDelayPasses, Stay, runVars, spoolVars, syncVars, serverVars
<1> QED BY <1>1, <1>2, <1>3, <1>4

LEMMA ChangePolicyBase ==
    ASSUME BaseInv, ChangePolicy
    PROVE  BaseInv'
<1> USE DEF BaseInv
<1>1. TypeOK'
  BY SpoolSyncAssumption
  DEF TypeOK, ChangePolicy, Stay, runVars, spoolVars, syncVars, serverVars
<1>2. AnswersInv'
  BY DEF TypeOK, AnswersInv, Stored, ChangePolicy, Stay, runVars, spoolVars, syncVars,
         serverVars
<1>3. AcknowledgedInv'
  BY DEF TypeOK, AcknowledgedInv, Stored, ChangePolicy, Stay, runVars, spoolVars, syncVars,
         serverVars
<1>4. CurrentInv'
  BY DEF TypeOK, CurrentInv, ChangePolicy, Stay, runVars, spoolVars, syncVars, serverVars
<1> QED BY <1>1, <1>2, <1>3, <1>4

LEMMA BeginBase ==
    ASSUME BaseInv, NEW s \in Syncers, Begin(s)
    PROVE  BaseInv'
<1> USE DEF BaseInv
<1>1. TypeOK'
  BY DEF TypeOK, Begin, Stay, runVars, spoolVars, syncVars, serverVars, SyncPCs
<1>2. AnswersInv'
  BY DEF TypeOK, AnswersInv, Stored, Begin, Stay, runVars, spoolVars, syncVars, serverVars,
         SyncPCs
<1>3. AcknowledgedInv'
  BY DEF TypeOK, AcknowledgedInv, Stored, Begin, Stay, runVars, spoolVars, syncVars,
         serverVars, SyncPCs
<1>4. CurrentInv'
  BY DEF TypeOK, CurrentInv, Begin, Stay, runVars, spoolVars, syncVars, serverVars, SyncPCs
<1> QED BY <1>1, <1>2, <1>3, <1>4

LEMMA ImportRunBase ==
    ASSUME BaseInv, NEW s \in Syncers, NEW r \in Runs, ImportRun(s, r)
    PROVE  BaseInv'
<1> USE DEF BaseInv
<1>a. ended' \in [Syncers -> BOOLEAN]
  <2>1. CASE ended' = ended
    BY <2>1 DEF TypeOK
  <2>2. CASE ended' = [ended EXCEPT ![s] = r \in closed]
    <3>1. (r \in closed) \in BOOLEAN
      OBVIOUS
    <3>2. ended \in [Syncers -> BOOLEAN]
      BY DEF TypeOK
    <3> QED BY <2>2, <3>1, <3>2, Zenon
  <2> QED BY <2>1, <2>2 DEF ImportRun
<1>1. TypeOK'
  <2>1. /\ pc' \in [Syncers -> SyncPCs] /\ todo' \in [Syncers -> SUBSET Runs]
        /\ current' \in [Syncers -> Runs \cup {0}]
    BY DEF TypeOK, ImportRun, SyncPCs
  <2> QED BY <1>a, <2>1 DEF TypeOK, ImportRun, Stay, runVars, spoolVars, serverVars
<1>2. AnswersInv'
  BY DEF TypeOK, AnswersInv, Stored, ImportRun, Stay, runVars, spoolVars, syncVars,
         serverVars, SyncPCs
<1>3. AcknowledgedInv'
  BY DEF TypeOK, AcknowledgedInv, Stored, ImportRun, Stay, runVars, spoolVars, syncVars,
         serverVars, SyncPCs
<1>4. CurrentInv'
  BY DEF TypeOK, CurrentInv, ImportRun, Stay, runVars, spoolVars, syncVars, serverVars, SyncPCs
<1> QED BY <1>1, <1>2, <1>3, <1>4

LEMMA RecordImportBase ==
    ASSUME BaseInv, NEW s \in Syncers, RecordImport(s)
    PROVE  BaseInv'
<1> USE DEF BaseInv
<1>a. current[s] \in Runs
  BY DEF CurrentInv, RecordImport
<1>1. TypeOK'
  BY <1>a
  DEF TypeOK, RecordImport, Stay, runVars, spoolVars, syncVars, serverVars, SyncPCs, Imported
<1>2. AnswersInv'
  BY DEF TypeOK, AnswersInv, Stored, RecordImport, Stay, runVars, spoolVars, syncVars,
         serverVars, SyncPCs, Imported
<1>3. AcknowledgedInv'
  BY DEF TypeOK, AcknowledgedInv, Stored, RecordImport, Stay, runVars, spoolVars, syncVars,
         serverVars, SyncPCs, Imported
<1>4. CurrentInv'
  BY DEF TypeOK, CurrentInv, RecordImport, Stay, runVars, spoolVars, syncVars, serverVars,
         SyncPCs, Imported
<1> QED BY <1>1, <1>2, <1>3, <1>4

LEMMA SelectEventsBase ==
    ASSUME BaseInv, NEW s \in Syncers, SelectEvents(s)
    PROVE  BaseInv'
<1> USE DEF BaseInv
<1>a. PendingEvents \in SUBSET Items
  BY ItemsAre DEF PendingEvents
<1>1. TypeOK'
  BY <1>a DEF TypeOK, SelectEvents, Stay, runVars, spoolVars, syncVars, serverVars, SyncPCs
<1>2. AnswersInv'
  BY <1>a
  DEF TypeOK, AnswersInv, Stored, SelectEvents, Stay, runVars, spoolVars, syncVars,
      serverVars, SyncPCs
<1>3. AcknowledgedInv'
  BY DEF TypeOK, AcknowledgedInv, Stored, SelectEvents, Stay, runVars, spoolVars, syncVars,
         serverVars, SyncPCs
<1>4. CurrentInv'
  BY DEF TypeOK, CurrentInv, SelectEvents, Stay, runVars, spoolVars, syncVars, serverVars,
         SyncPCs
<1> QED BY <1>1, <1>2, <1>3, <1>4

\* A run is inserted as a whole, or not at all.
\* The importer goes on with its run, or is done with it.
LEMMA ImporterGoesOn ==
    ASSUME TypeOK, NEW s \in Syncers, NEW next \in {"register", "record"},
           Imported(s) \/ Advance(s, next)
    PROVE  /\ pc' \in [Syncers -> SyncPCs] /\ current' \in [Syncers -> Runs \cup {0}]
           /\ ended' \in [Syncers -> BOOLEAN]
           /\ \A t \in Syncers : pc'[t] # "settle" \/ pc'[t] = pc[t]
           /\ \A t \in Syncers : t # s => pc'[t] = pc[t] /\ current'[t] = current[t]
           /\ pc'[s] = "import" \/ current'[s] = current[s]
<1> /\ pc \in [Syncers -> SyncPCs] /\ current \in [Syncers -> Runs \cup {0}]
    /\ ended \in [Syncers -> BOOLEAN]
  BY DEF TypeOK
<1>1. CASE Imported(s)
  BY <1>1 DEF Imported, SyncPCs
<1>2. CASE Advance(s, next)
  BY <1>2 DEF Advance, SyncPCs
<1> QED BY <1>1, <1>2

LEMMA IngestBase ==
    ASSUME BaseInv, NEW s \in Syncers, Ingest(s)
    PROVE  BaseInv'
<1> USE DEF BaseInv
<1>z. current[s] \in Runs
  BY DEF CurrentInv, Ingest
<1>a. Importable(s) \in SUBSET Items
  BY <1>z, ImportableAre
<1>b. upload' = upload \/ upload' = Inserted(Importable(s))
  BY DEF Ingest
<1>c. /\ upload' \in [Items -> UploadStates]
      /\ \A i \in Items : upload'[i] = "acknowledged" => upload[i] = "acknowledged"
  BY <1>a, <1>b, InsertedRows DEF TypeOK
<1>d. /\ pc' \in [Syncers -> SyncPCs] /\ current' \in [Syncers -> Runs \cup {0}]
      /\ ended' \in [Syncers -> BOOLEAN]
      /\ \A t \in Syncers : pc'[t] # "settle" \/ pc'[t] = pc[t]
      /\ \A t \in Syncers : t # s => pc'[t] = pc[t] /\ current'[t] = current[t]
      /\ pc'[s] = "import" \/ current'[s] = current[s]
  <2>1. Imported(s) \/ Advance(s, "register")
    BY DEF Ingest
  <2> QED BY <2>1, ImporterGoesOn
<1>e. UNCHANGED <<todo, stage, queue, batch, verdict, waiting, finalizer, imported, runVars, serverVars,
                  late, failures, crashes>>
  BY DEF Ingest, Stay
<1>1. TypeOK'
  BY <1>c, <1>d, <1>e DEF TypeOK, runVars, serverVars
<1>2. AnswersInv'
  BY <1>d, <1>e DEF AnswersInv, Stored, serverVars
<1>3. AcknowledgedInv'
  BY <1>c, <1>e DEF AcknowledgedInv, Stored, serverVars
<1>4. CurrentInv'
  BY <1>d, <1>z DEF CurrentInv
<1> QED BY <1>1, <1>2, <1>3, <1>4

LEMMA RegisterBase ==
    ASSUME BaseInv, NEW s \in Syncers, Register(s)
    PROVE  BaseInv'
<1> USE DEF BaseInv
<1>z. current[s] \in Runs
  BY DEF CurrentInv, Register
<1>a. {ArtifactOf(current[s])} \in SUBSET Items
  BY <1>z, ItemsAre
<1>b. upload' = Inserted({ArtifactOf(current[s])})
  BY DEF Register
<1>c. /\ upload' \in [Items -> UploadStates]
      /\ \A i \in Items : upload'[i] = "acknowledged" => upload[i] = "acknowledged"
  BY <1>a, <1>b, InsertedRows
<1>1. TypeOK'
  BY <1>c DEF TypeOK, Register, Stay, runVars, spoolVars, syncVars, serverVars, SyncPCs, Advance
<1>2. AnswersInv'
  BY DEF TypeOK, AnswersInv, Stored, Register, Stay, runVars, spoolVars, syncVars, serverVars,
         SyncPCs, Advance
<1>3. AcknowledgedInv'
  BY <1>c
  DEF TypeOK, AcknowledgedInv, Stored, Register, Stay, runVars, spoolVars, syncVars,
      serverVars, SyncPCs, Advance
<1>4. CurrentInv'
  BY DEF TypeOK, CurrentInv, Register, Stay, runVars, spoolVars, syncVars, serverVars,
         SyncPCs, Advance
<1> QED BY <1>1, <1>2, <1>3, <1>4

LEMMA FinalizeBase ==
    ASSUME BaseInv, NEW s \in Syncers, Finalize(s)
    PROVE  BaseInv'
<1> USE DEF BaseInv
<1>z. current[s] \in Runs
  BY DEF CurrentInv, Finalize
<1>a. {OutcomeOf(current[s])} \in SUBSET Items
  BY <1>z, ItemsAre
<1>b. upload' = upload \/ upload' = Inserted({OutcomeOf(current[s])})
  BY DEF Finalize
<1>c. /\ upload' \in [Items -> UploadStates]
      /\ \A i \in Items : upload'[i] = "acknowledged" => upload[i] = "acknowledged"
  BY <1>a, <1>b, InsertedRows DEF TypeOK
<1>d. /\ pc' \in [Syncers -> SyncPCs] /\ current' \in [Syncers -> Runs \cup {0}]
      /\ ended' \in [Syncers -> BOOLEAN] /\ finalizer' \in [Runs -> {"none", "process", "importer"}]
      /\ \A t \in Syncers : pc'[t] # "settle" \/ pc'[t] = pc[t]
      /\ \A t \in Syncers : t # s => pc'[t] = pc[t] /\ current'[t] = current[t]
      /\ pc'[s] = "import" \/ current'[s] = current[s]
  <2>1. Imported(s) \/ Advance(s, "record")
    BY DEF Finalize
  <2>2. finalizer' = [finalizer EXCEPT ![current[s]] = "importer"] \/ finalizer' = finalizer
    BY DEF Finalize
  <2>3. finalizer' \in [Runs -> {"none", "process", "importer"}]
    BY <2>2 DEF TypeOK
  <2> QED BY <2>1, <2>3, ImporterGoesOn
<1>e. UNCHANGED <<todo, stage, queue, batch, verdict, waiting, imported, runVars, serverVars,
                  late, failures, crashes>>
  BY DEF Finalize, Stay
<1>1. TypeOK'
  BY <1>c, <1>d, <1>e DEF TypeOK, runVars, serverVars
<1>2. AnswersInv'
  BY <1>d, <1>e DEF AnswersInv, Stored, serverVars
<1>3. AcknowledgedInv'
  BY <1>c, <1>e DEF AcknowledgedInv, Stored, serverVars
<1>4. CurrentInv'
  BY <1>d, <1>z DEF CurrentInv
<1> QED BY <1>1, <1>2, <1>3, <1>4

LEMMA ProceedBase ==
    ASSUME BaseInv, NEW s \in Syncers, Proceed(s)
    PROVE  BaseInv'
<1> USE DEF BaseInv
<1>a. PendingOf({OutcomeOf(r) : r \in Runs}) \subseteq Items /\ PendingOf({ArtifactOf(r) : r \in Runs}) \subseteq Items
  BY ItemsAre DEF PendingOf
<1>b. /\ pc' \in [Syncers -> SyncPCs] /\ stage' \in [Syncers -> Stages]
      /\ queue' \in [Syncers -> SUBSET Items] /\ batch' \in [Syncers -> SUBSET Items]
  <2>1. pc' \in [Syncers -> SyncPCs] /\ stage' \in [Syncers -> Stages]
    BY DEF TypeOK, SyncPCs, Stages, Proceed
  <2>2. queue' \in [Syncers -> SUBSET Items]
    BY <1>a DEF TypeOK, Proceed
  <2>3. ASSUME NEW i \in queue[s], batch' = [batch EXCEPT ![s] = {i}]
        PROVE  batch' \in [Syncers -> SUBSET Items]
    BY <2>3 DEF TypeOK
  <2>4. batch' = batch \/ \E i \in queue[s] : batch' = [batch EXCEPT ![s] = {i}]
    BY DEF Proceed
  <2>5. batch' \in [Syncers -> SUBSET Items]
    BY <2>3, <2>4 DEF TypeOK
  <2> QED BY <2>1, <2>2, <2>5
<1>c. \A t \in Syncers : (pc'[t] = pc[t] /\ batch'[t] = batch[t]) \/ pc'[t] \in {"send", "idle"}
  BY DEF TypeOK, Proceed
<1>e. UNCHANGED <<todo, current, ended, verdict, spoolVars, runVars, serverVars, late, failures, crashes>>
  BY DEF Proceed, Stay
<1>1. TypeOK'
  BY <1>b, <1>e DEF TypeOK, runVars, spoolVars, serverVars
<1>2. AnswersInv'
  BY <1>c, <1>e DEF AnswersInv, Stored, serverVars
<1>3. AcknowledgedInv'
  BY <1>e DEF AcknowledgedInv, Stored, spoolVars, serverVars
<1>4. CurrentInv'
  BY <1>c, <1>e DEF CurrentInv
<1> QED BY <1>1, <1>2, <1>3, <1>4

\* The answer "ok" comes when the request is stored.
LEMMA AnsweredBase ==
    ASSUME BaseInv, NEW s \in Syncers, Answered(s)
    PROVE  BaseInv'
<1> USE DEF BaseInv
<1>a. batch[s] \in SUBSET Items
  BY DEF TypeOK
<1>b. Serve(batch[s])
  BY DEF Answered
<1>c. /\ stored' \in [Items -> 0 .. MaxPolicies]
      /\ batches' \subseteq [ids : SUBSET Events, policy : 1 .. MaxPolicies]
      /\ commitment' \in [Runs -> SUBSET Events]
      /\ \A i \in Items : Stored(i) => Stored(i)'
      /\ Verdict(batch[s]) = "ok" => \A i \in batch[s] : Stored(i)'
  BY <1>a, <1>b, ServedRequest
<1>v. Verdict(batch[s]) \in {"ok", "permanent"}
  BY DEF Verdict
<1>d. /\ verdict' \in [Syncers -> {"ok", "transient", "permanent"}] /\ pc' \in [Syncers -> SyncPCs]
      /\ pc'[s] = "settle" /\ verdict'[s] = Verdict(batch[s])
      /\ \A t \in Syncers : t # s => pc'[t] = pc[t] /\ verdict'[t] = verdict[t]
  BY <1>v DEF TypeOK, Answered, SyncPCs
<1>e. UNCHANGED <<todo, current, ended, stage, queue, batch, spoolVars, runVars, policy, late, failures, crashes>>
  BY DEF Answered
<1>1. TypeOK'
  BY <1>c, <1>d, <1>e DEF TypeOK, runVars, spoolVars
<1>2. AnswersInv'
  <2>1. \A t \in Syncers : \A i \in batch[t] : Stored(i) => Stored(i)'
    BY <1>c DEF TypeOK
  <2> QED BY <1>c, <1>d, <1>e, <2>1 DEF AnswersInv
<1>3. AcknowledgedInv'
  BY <1>c, <1>e DEF AcknowledgedInv, spoolVars
<1>4. CurrentInv'
  BY <1>d, <1>e DEF CurrentInv
<1> QED BY <1>1, <1>2, <1>3, <1>4

LEMMA UnansweredBase ==
    ASSUME BaseInv, NEW s \in Syncers, Unanswered(s)
    PROVE  BaseInv'
<1> USE DEF BaseInv
<1>1. TypeOK'
  BY SpoolSyncAssumption
  DEF TypeOK, Unanswered, Stay, runVars, spoolVars, syncVars, serverVars, SyncPCs
<1>2. AnswersInv'
  BY DEF TypeOK, AnswersInv, Stored, Unanswered, Stay, runVars, spoolVars, syncVars,
         serverVars, SyncPCs
<1>3. AcknowledgedInv'
  BY DEF TypeOK, AcknowledgedInv, Stored, Unanswered, Stay, runVars, spoolVars, syncVars,
         serverVars, SyncPCs
<1>4. CurrentInv'
  BY DEF TypeOK, CurrentInv, Unanswered, Stay, runVars, spoolVars, syncVars, serverVars, SyncPCs
<1> QED BY <1>1, <1>2, <1>3, <1>4

\* A request that arrives late stores more, and takes nothing away.
LEMMA ServeLateBase ==
    ASSUME BaseInv, NEW m \in late, ServeLate(m)
    PROVE  BaseInv'
<1> USE DEF BaseInv
<1>a. m \in SUBSET Items
  BY DEF TypeOK
<1>c. /\ stored' \in [Items -> 0 .. MaxPolicies]
      /\ batches' \subseteq [ids : SUBSET Events, policy : 1 .. MaxPolicies]
      /\ commitment' \in [Runs -> SUBSET Events]
      /\ \A i \in Items : Stored(i) => Stored(i)'
  BY <1>a, ServedRequest DEF ServeLate
<1>e. /\ UNCHANGED <<policy, runVars, spoolVars, syncVars, failures, crashes>>
      /\ late' = late \ {m}
  BY DEF ServeLate
<1>1. TypeOK'
  BY <1>c, <1>e DEF TypeOK, runVars, spoolVars, syncVars
<1>2. AnswersInv'
  <2>1. \A t \in Syncers : \A i \in batch[t] : Stored(i) => Stored(i)'
    BY <1>c DEF TypeOK
  <2> QED BY <1>e, <2>1 DEF AnswersInv, syncVars
<1>3. AcknowledgedInv'
  BY <1>c, <1>e DEF AcknowledgedInv, spoolVars
<1>4. CurrentInv'
  BY <1>e DEF CurrentInv, syncVars
<1> QED BY <1>1, <1>2, <1>3, <1>4

\* What the answer removes or acknowledges is stored.
LEMMA SettleBase ==
    ASSUME BaseInv, NEW s \in Syncers, Settle(s)
    PROVE  BaseInv'
<1> USE DEF BaseInv
<1>a. /\ batch[s] \in SUBSET Items /\ verdict[s] \in {"ok", "transient", "permanent"}
      /\ verdict[s] = "ok" => \A i \in batch[s] : Stored(i)
  BY DEF TypeOK, AnswersInv, Settle
<1>c. /\ upload' \in [Items -> UploadStates] /\ waiting' \in SUBSET Items
      /\ \A i \in Items : upload'[i] = "acknowledged" => upload[i] = "acknowledged" \/ Stored(i)
  BY <1>a, SettledRows DEF Settle, SettleBatch
<1>1. TypeOK'
  BY <1>c DEF TypeOK, Settle, Stay, runVars, spoolVars, syncVars, serverVars, SyncPCs
<1>2. AnswersInv'
  BY DEF TypeOK, AnswersInv, Stored, Settle, Stay, runVars, spoolVars, syncVars, serverVars,
         SyncPCs
<1>3. AcknowledgedInv'
  BY <1>c
  DEF TypeOK, AcknowledgedInv, Stored, Settle, Stay, runVars, spoolVars, syncVars, serverVars,
      SyncPCs
<1>4. CurrentInv'
  BY DEF TypeOK, CurrentInv, Settle, Stay, runVars, spoolVars, syncVars, serverVars, SyncPCs
<1> QED BY <1>1, <1>2, <1>3, <1>4

\* A syncer that dies in the middle of an answer has handled a part of it.
LEMMA CrashBase ==
    ASSUME BaseInv, NEW s \in Syncers, Crash(s)
    PROVE  BaseInv'
<1> USE DEF BaseInv
<1>a. batch[s] \in SUBSET Items /\ verdict[s] \in {"ok", "transient", "permanent"}
  BY DEF TypeOK
<1>c. /\ upload' \in [Items -> UploadStates] /\ waiting' \in SUBSET Items
      /\ \A i \in Items : upload'[i] = "acknowledged" => upload[i] = "acknowledged" \/ Stored(i)
  <2>1. CASE upload' = upload /\ waiting' = waiting
    BY <2>1 DEF TypeOK
  <2>2. CASE \E part \in SUBSET batch[s] : SettleRows(part, verdict[s]) /\ verdict[s] # "ok"
    BY <1>a, <2>2, SettledRows
  <2> QED BY <2>1, <2>2 DEF Crash
<1>d. late' \subseteq SUBSET Items /\ crashes' \in 0 .. MaxCrashes
  BY <1>a, SpoolSyncAssumption DEF TypeOK, Crash
<1>e. /\ pc' \in [Syncers -> SyncPCs] /\ todo' \in [Syncers -> SUBSET Runs]
      /\ current' \in [Syncers -> Runs \cup {0}] /\ ended' \in [Syncers -> BOOLEAN]
      /\ stage' \in [Syncers -> Stages] /\ queue' \in [Syncers -> SUBSET Items]
      /\ batch' \in [Syncers -> SUBSET Items]
      /\ verdict' \in [Syncers -> {"ok", "transient", "permanent"}]
  BY DEF TypeOK, Crash, SyncPCs, Stages
<1>f. /\ pc'[s] = "idle"
      /\ \A t \in Syncers : t # s => /\ pc'[t] = pc[t] /\ current'[t] = current[t]
                                    /\ batch'[t] = batch[t] /\ verdict'[t] = verdict[t]
  BY DEF TypeOK, Crash
<1>g. UNCHANGED <<finalizer, imported, runVars, serverVars, failures>>
  BY DEF Crash
<1>1. TypeOK'
  BY <1>c, <1>d, <1>e, <1>g DEF TypeOK, runVars, serverVars
<1>2. AnswersInv'
  BY <1>f, <1>g DEF AnswersInv, Stored, serverVars
<1>3. AcknowledgedInv'
  BY <1>c, <1>g DEF AcknowledgedInv, Stored, serverVars
<1>4. CurrentInv'
  BY <1>f DEF CurrentInv
<1> QED BY <1>1, <1>2, <1>3, <1>4

LEMMA InitBase == Init => BaseInv
<1> SUFFICES ASSUME Init PROVE BaseInv
  OBVIOUS
<1>1. TypeOK
  BY SpoolSyncAssumption DEF Init, TypeOK, UploadStates, SyncPCs, Stages
<1>2. CurrentInv /\ AnswersInv /\ AcknowledgedInv
  BY DEF Init, CurrentInv, AnswersInv, AcknowledgedInv
<1> QED BY <1>1, <1>2 DEF BaseInv

LEMMA StepBase == BaseInv /\ [Next]_vars => BaseInv'
<1> SUFFICES ASSUME BaseInv, [Next]_vars PROVE BaseInv'
  OBVIOUS
<1>1. ASSUME NEW r \in Runs, RunStep(r) PROVE BaseInv'
  BY <1>1, WriteEventBase, CloseBase, SubmitEventBase, SinkFinalizeBase DEF RunStep
<1>2. ASSUME NEW s \in Syncers, SyncStep(s) PROVE BaseInv'
  BY <1>2, BeginBase, IngestBase, RegisterBase, FinalizeBase, RecordImportBase, ImportRunBase,
     SelectEventsBase, ProceedBase, AnsweredBase, UnansweredBase, SettleBase DEF SyncStep
<1>3. ASSUME NEW s \in Syncers, Crash(s) PROVE BaseInv'
  BY <1>3, CrashBase
<1>4. ASSUME NEW i \in Items, RetryDelayPasses(i) PROVE BaseInv'
  BY <1>4, RetryDelayPassesBase
<1>5. ASSUME NEW m \in late, ServeLate(m) PROVE BaseInv'
  BY <1>5, ServeLateBase
<1>6. CASE ChangePolicy
  BY <1>6, ChangePolicyBase
<1>7. CASE UNCHANGED vars
  <2>1. TypeOK'
    BY <1>7 DEF BaseInv, TypeOK, vars, runVars, spoolVars, syncVars, serverVars
  <2>2. CurrentInv' /\ AnswersInv' /\ AcknowledgedInv'
    BY <1>7 DEF BaseInv, CurrentInv, AnswersInv, AcknowledgedInv, Stored,
                vars, runVars, spoolVars, syncVars, serverVars
  <2> QED BY <2>1, <2>2 DEF BaseInv
<1> QED BY <1>1, <1>2, <1>3, <1>4, <1>5, <1>6, <1>7 DEF Next

\* Types are kept, and what is accepted or acknowledged is stored (uploader.py).
THEOREM InvariantHolds == Spec => []BaseInv
<1>1. Init => BaseInv
  BY InitBase
<1>2. BaseInv /\ [Next]_vars => BaseInv'
  BY StepBase
<1> QED BY <1>1, <1>2, PTL DEF Spec

\* Every variable of the bundle, the spool, the syncers and the server has its type.
THEOREM TypeCorrect == Spec => []TypeOK
<1>1. BaseInv => TypeOK
  BY DEF BaseInv
<1> QED BY <1>1, InvariantHolds, PTL

----------------------------------------------------------------------------
(* What a step may do to the rows and to the server *)

RowsChange ==
    \/ upload' = upload
    \/ Connected # {} /\ \E es \in SUBSET Items : upload' = Inserted(es)
    \/ \E s \in Syncers : pc[s] = "ingest" /\ upload' = Inserted(Importable(s))
    \/ \E s \in Syncers : pc[s] = "register" /\ upload' = Inserted({ArtifactOf(current[s])})
    \/ \E s \in Syncers : pc[s] = "finalize" /\ upload' = Inserted({OutcomeOf(current[s])})
    \/ \E s \in Syncers : pc[s] = "settle" /\ \E part \in SUBSET batch[s] : SettleRows(part, verdict[s])

ServerChanges ==
    \/ UNCHANGED <<stored, batches>> /\ (policy' = policy \/ policy' = policy + 1)
    \/ policy' = policy /\ \E s \in Syncers : Serve(batch[s])
    \/ policy' = policy /\ \E m \in late : Serve(m)

\* Rows change by an insertion or by an answer.
LEMMA RowsStep == BaseInv /\ [Next]_vars => RowsChange
<1> SUFFICES ASSUME BaseInv, [Next]_vars PROVE RowsChange
  OBVIOUS
<1>1. ASSUME NEW r \in Runs, RunStep(r) PROVE RowsChange
  <2>1. CASE WriteEvent(r) \/ Close(r)
    BY <2>1 DEF WriteEvent, Close, spoolVars, RowsChange
  <2>2. CASE SubmitEvent(r)
    <3>1. {<<r, delivered[r] + 1>>} \in SUBSET Items
      BY <2>2, SpoolSyncAssumption DEF BaseInv, TypeOK, SubmitEvent, Items
    <3> QED BY <2>2, <3>1 DEF SubmitEvent, RowsChange
  <2>3. CASE SinkFinalize(r)
    <3>1. {ArtifactOf(r)} \in SUBSET Items /\ {ArtifactOf(r), OutcomeOf(r)} \in SUBSET Items
      BY ItemsAre
    <3> QED BY <2>3, <3>1 DEF SinkFinalize, RowsChange
  <2> QED BY <1>1, <2>1, <2>2, <2>3 DEF RunStep
<1>2. ASSUME NEW s \in Syncers, SyncStep(s) PROVE RowsChange
  <2>1. CASE Settle(s)
    BY <2>1 DEF Settle, SettleBatch, RowsChange
  <2>2. CASE Ingest(s) \/ Register(s) \/ Finalize(s)
    BY <2>2 DEF Ingest, Register, Finalize, RowsChange
  <2>3. CASE Begin(s) \/ RecordImport(s) \/ (\E r \in Runs : ImportRun(s, r)) \/ SelectEvents(s)
             \/ Proceed(s) \/ Answered(s) \/ Unanswered(s)
    BY <2>3 DEF Begin, RecordImport, ImportRun, SelectEvents, Proceed, Answered, Unanswered,
                spoolVars, RowsChange
  <2> QED BY <1>2, <2>1, <2>2, <2>3 DEF SyncStep
<1>3. ASSUME NEW s \in Syncers, Crash(s) PROVE RowsChange
  BY <1>3 DEF Crash, RowsChange
<1>4. CASE (\E i \in Items : RetryDelayPasses(i)) \/ (\E m \in late : ServeLate(m))
           \/ ChangePolicy \/ UNCHANGED vars
  BY <1>4 DEF RetryDelayPasses, ServeLate, ChangePolicy, vars, spoolVars, RowsChange
<1> QED BY <1>1, <1>2, <1>3, <1>4 DEF Next

\* The server changes by a request, be it of a syncer or late.
LEMMA ServerStep == [Next]_vars => ServerChanges
<1> SUFFICES ASSUME [Next]_vars PROVE ServerChanges
  OBVIOUS
<1> USE DEF serverVars, ServerChanges
<1>1. ASSUME NEW r \in Runs, RunStep(r) PROVE ServerChanges
  BY <1>1 DEF RunStep, WriteEvent, Close, SubmitEvent, SinkFinalize
<1>2. ASSUME NEW s \in Syncers, SyncStep(s) PROVE ServerChanges
  <2>1. CASE Answered(s)
    BY <2>1 DEF Answered
  <2>2. CASE Begin(s) \/ Ingest(s) \/ Register(s) \/ Finalize(s) \/ RecordImport(s)
             \/ (\E r \in Runs : ImportRun(s, r)) \/ SelectEvents(s) \/ Proceed(s) \/ Settle(s)
    BY <2>2 DEF Begin, Ingest, Register, Finalize, RecordImport, ImportRun, SelectEvents,
                Proceed, Settle, Stay
  <2>3. CASE Unanswered(s)
    BY <2>3 DEF Unanswered
  <2> QED BY <1>2, <2>1, <2>2, <2>3 DEF SyncStep
<1>3. ASSUME NEW s \in Syncers, Crash(s) PROVE ServerChanges
  BY <1>3 DEF Crash
<1>4. CASE (\E i \in Items : RetryDelayPasses(i)) \/ (\E m \in late : ServeLate(m))
           \/ ChangePolicy \/ UNCHANGED vars
  BY <1>4 DEF RetryDelayPasses, ServeLate, ChangePolicy, vars
<1> QED BY <1>1, <1>2, <1>3, <1>4 DEF Next

\* Rows are removed or acknowledged by an answer only, and then they are stored.
LEMMA RowsLeave ==
    ASSUME BaseInv, RowsChange
    PROVE  /\ \A i \in Items : Row(i) => Row(i)' \/ (Stored(i) /\ i \in Events)
           /\ \A i \in Items : upload'[i] = "acknowledged" => upload[i] = "acknowledged" \/ Stored(i)
<1> DEFINE Goal ==
      /\ \A i \in Items : Row(i) => Row(i)' \/ (Stored(i) /\ i \in Events)
      /\ \A i \in Items : upload'[i] = "acknowledged" => upload[i] = "acknowledged" \/ Stored(i)
<1>1. ASSUME upload' = upload PROVE Goal
  BY <1>1 DEF Row
<1>2. ASSUME NEW es, upload' = Inserted(es) PROVE Goal
  BY <1>2 DEF BaseInv, TypeOK, Inserted, Row
<1>3. ASSUME NEW s \in Syncers, NEW part \in SUBSET batch[s], SettleRows(part, verdict[s]),
             pc[s] = "settle"
      PROVE  Goal
  <2>1. /\ part \in SUBSET Items /\ verdict[s] \in {"ok", "transient", "permanent"}
        /\ verdict[s] = "ok" => \A i \in part : Stored(i)
    BY <1>3 DEF BaseInv, TypeOK, AnswersInv
  <2> QED BY <1>3, <2>1, SettledRows DEF BaseInv
<1> HIDE DEF Goal
<1>4. Goal
  BY <1>1, <1>2, <1>3 DEF RowsChange
<1> QED BY <1>4 DEF Goal

\* Whoever else works on the same rows, and whatever arrives late: agentd deletes and
\* acknowledges only what the server has (spool.py, acknowledge_events).
THEOREM NothingIsLost == Spec => NothingLost
<1>1. BaseInv /\ [Next]_vars =>
        [\A i \in Items :
             (\/ Row(i) /\ upload'[i] = "absent"
              \/ upload[i] # "acknowledged" /\ upload'[i] = "acknowledged")
             => stored[i] # 0]_vars
  BY RowsStep, RowsLeave DEF Stored, Row
<1> QED BY <1>1, InvariantHolds, PTL DEF Spec, NothingLost
----------------------------------------------------------------------------
(* The order of arrival, when every run is handed over by the importer *)

\* Where rows and stored items come from.
LEMMA RowsAppear ==
    ASSUME BaseInv, Connected = {}, RowsChange
    PROVE  \A i \in Items : Row(i)' =>
             \/ Row(i) \/ i \in Events
             \/ \E s \in Syncers : pc[s] = "register" /\ i = ArtifactOf(current[s])
             \/ \E s \in Syncers : pc[s] = "finalize" /\ i = OutcomeOf(current[s])
<1> DEFINE Goal == \A i \in Items : Row(i)' =>
             \/ Row(i) \/ i \in Events
             \/ \E s \in Syncers : pc[s] = "register" /\ i = ArtifactOf(current[s])
             \/ \E s \in Syncers : pc[s] = "finalize" /\ i = OutcomeOf(current[s])
<1>1. ASSUME upload' = upload PROVE Goal
  BY <1>1 DEF Row
<1>2. ASSUME NEW es, upload' = Inserted(es) PROVE \A i \in Items : Row(i)' => Row(i) \/ i \in es
  BY <1>2 DEF BaseInv, TypeOK, Inserted, Row
<1>3. ASSUME NEW s \in Syncers, pc[s] = "ingest", upload' = Inserted(Importable(s)) PROVE Goal
  <2>1. current[s] \in Runs
    BY <1>3 DEF BaseInv, CurrentInv
  <2>2. Importable(s) \subseteq Events
    BY <2>1, ImportableAre, ItemsAre DEF BaseInv
  <2> QED BY <1>2, <1>3, <2>2
<1>4. ASSUME NEW s \in Syncers, pc[s] = "register", upload' = Inserted({ArtifactOf(current[s])}) PROVE Goal
  BY <1>2, <1>4
<1>5. ASSUME NEW s \in Syncers, pc[s] = "finalize", upload' = Inserted({OutcomeOf(current[s])}) PROVE Goal
  BY <1>2, <1>5
<1>6. ASSUME NEW s \in Syncers, NEW part \in SUBSET batch[s], SettleRows(part, verdict[s]),
             pc[s] = "settle"
      PROVE  Goal
  <2>1. /\ part \in SUBSET Items /\ verdict[s] \in {"ok", "transient", "permanent"}
        /\ verdict[s] = "ok" => \A i \in part : Stored(i)
    BY <1>6 DEF BaseInv, TypeOK, AnswersInv
  <2> QED BY <1>6, <2>1, SettledRows DEF BaseInv
<1> HIDE DEF Goal
<1>7. Goal
  BY <1>1, <1>3, <1>4, <1>5, <1>6 DEF RowsChange
<1> QED BY <1>7 DEF Goal

\* The server forgets nothing, and what it has was on its way.
LEMMA ItemsArrive ==
    ASSUME BaseInv, ServerChanges
    PROVE  /\ \A i \in Items : Stored(i) => Stored(i)'
           /\ \A i \in Items : Stored(i)' =>
                Stored(i) \/ (\E s \in Syncers : i \in batch[s]) \/ (\E m \in late : i \in m)
<1>1. CASE stored' = stored
  BY <1>1 DEF Stored
<1>2. ASSUME NEW s \in Syncers, Serve(batch[s])
      PROVE  \A i \in Items : (Stored(i) => Stored(i)') /\ (Stored(i)' => Stored(i) \/ i \in batch[s])
  <2>1. batch[s] \in SUBSET Items
    BY DEF BaseInv, TypeOK
  <2> QED BY <1>2, <2>1, ServedRequest DEF BaseInv
<1>3. ASSUME NEW m \in late, Serve(m)
      PROVE  \A i \in Items : (Stored(i) => Stored(i)') /\ (Stored(i)' => Stored(i) \/ i \in m)
  <2>1. m \in SUBSET Items
    BY DEF BaseInv, TypeOK
  <2> QED BY <1>3, <2>1, ServedRequest DEF BaseInv
<1> QED BY <1>1, <1>2, <1>3 DEF ServerChanges

\* What is covered stays covered, and what has arrived stays there.
LEMMA CoverStays ==
    ASSUME BaseInv, RowsChange, ServerChanges
    PROVE  \A r \in Runs : (Covered(r) => Covered(r)') /\ (Arrived(r) => Arrived(r)')
<1>1. \A r \in Runs : EventsOf(r) \subseteq Items
  BY ItemsAre
<1>2. \A i \in Items : /\ Stored(i) => Stored(i)'
                       /\ Row(i) => Row(i)' \/ Stored(i)
  BY RowsLeave, ItemsArrive
<1> QED BY <1>1, <1>2 DEF Covered, Arrived

\* A new artifact row belongs to a run that was ingested, a new outcome row to one with an artifact.
LEMMA RowsInvKept ==
    ASSUME BaseInv, OrderInv, Connected = {}, RowsChange, ServerChanges
    PROVE  RowsInv'
<1> SUFFICES ASSUME NEW r \in Runs
             PROVE  (Row(ArtifactOf(r))' => Covered(r)') /\ (Row(OutcomeOf(r))' => Row(ArtifactOf(r))')
  BY DEF RowsInv
<1>1. ArtifactOf(r) \in Items \ Events /\ OutcomeOf(r) \in Items \ Events
  BY ItemsAre
<1>2. \A s \in Syncers : pc[s] \in {"register", "finalize"} => current[s] \in Runs
  BY DEF BaseInv, CurrentInv
<1>3. ASSUME Row(ArtifactOf(r))' PROVE Covered(r)'
  <2>1. Row(ArtifactOf(r)) \/ \E s \in Syncers : pc[s] = "register" /\ r = current[s]
    BY <1>1, <1>2, <1>3, RowsAppear, ItemsAre
  <2>2. Covered(r)
    BY <2>1 DEF OrderInv, RowsInv, ImportInv
  <2> QED BY <2>2, CoverStays
<1>4. ASSUME Row(OutcomeOf(r))' PROVE Row(ArtifactOf(r))'
  <2>1. Row(OutcomeOf(r)) \/ \E s \in Syncers : pc[s] = "finalize" /\ r = current[s]
    BY <1>1, <1>2, <1>4, RowsAppear, ItemsAre
  <2>2. Row(ArtifactOf(r))
    BY <2>1 DEF OrderInv, RowsInv, ImportInv
  <2> QED BY <1>1, <2>2, RowsLeave
<1> QED BY <1>3, <1>4

\* What arrives was on its way, and then all events of its run had arrived.
LEMMA OutcomesFollow ==
    ASSUME BaseInv, OrderInv, ServerChanges, RowsChange
    PROVE  OutcomeAfterEvents'
<1> SUFFICES ASSUME NEW r \in Runs, NEW i \in {OutcomeOf(r), ArtifactOf(r)}, Stored(i)'
             PROVE  Arrived(r)'
  BY DEF OutcomeAfterEvents, Stored, Arrived
<1>1. i \in Items \ Events /\ i[1] = r
  BY ItemsAre
<1>2. CASE Stored(i)
  <2>1. Arrived(r)
    BY <1>2 DEF OrderInv, OutcomeAfterEvents, Stored, Arrived
  <2> QED BY <2>1, CoverStays
<1>3. CASE ~Stored(i)
  <2>1. (\E s \in Syncers : i \in batch[s]) \/ (\E m \in late : i \in m)
    BY <1>1, <1>3, ItemsArrive
  <2>2. Arrived(r)
    BY <1>1, <2>1 DEF OrderInv, RequestsInv
  <2> QED BY <2>2, CoverStays
<1> QED BY <1>2, <1>3

\* An outcome or an artifact is taken up when all events of its run have arrived.
LEMMA PendingArrived ==
    ASSUME BaseInv, OrderInv
    PROVE  \A i \in PendingOf({OutcomeOf(r) : r \in Runs}) \cup PendingOf({ArtifactOf(r) : r \in Runs}) :
             i \in Items /\ Arrived(i[1])
<1> SUFFICES ASSUME NEW r \in Runs, NEW i \in {OutcomeOf(r), ArtifactOf(r)},
                    Due(i), \A e \in EventsOf(i[1]) : ~Row(e)
             PROVE  i \in Items /\ Arrived(i[1])
  BY DEF PendingOf
<1>1. i \in Items /\ i[1] = r
  BY ItemsAre
<1>2. Row(i)
  BY DEF Due, Row
<1>3. Covered(r)
  BY <1>2 DEF OrderInv, RowsInv
<1> QED BY <1>1, <1>3 DEF Covered, Arrived

\* A request is sent, repeated or delayed only after it was taken up.
LEMMA RequestsKept ==
    ASSUME BaseInv, OrderInv, RowsChange, ServerChanges, [Next]_vars
    PROVE  RequestsInv'
<1> DEFINE Fine(i) == i \notin Events => Arrived(i[1])
<1> DEFINE Goal == /\ \A s \in Syncers : \A i \in queue'[s] \cup batch'[s] : Fine(i)
                   /\ \A m \in late' : \A i \in m : Fine(i)
<1>1. /\ \A s \in Syncers : \A i \in queue[s] \cup batch[s] : Fine(i)
      /\ \A m \in late : \A i \in m : Fine(i)
  BY DEF OrderInv, RequestsInv
<1>2. \A i \in PendingOf({OutcomeOf(r) : r \in Runs}) \cup PendingOf({ArtifactOf(r) : r \in Runs}) : Fine(i)
  BY PendingArrived
<1>3. \A i \in PendingEvents : Fine(i)
  BY DEF PendingEvents
<1> HIDE DEF Fine
<1>4. ASSUME queue' = queue, batch' = batch, late' \subseteq late PROVE Goal
  BY <1>1, <1>4
<1>5. ASSUME NEW r \in Runs, RunStep(r) PROVE Goal
  BY <1>4, <1>5 DEF RunStep, WriteEvent, Close, SubmitEvent, SinkFinalize, syncVars
<1>6. ASSUME NEW s \in Syncers, SyncStep(s) PROVE Goal
  <2> USE DEF BaseInv, TypeOK
  <2>1. CASE SelectEvents(s)
    BY <1>1, <1>3, <2>1 DEF SelectEvents, Stay
  <2>2. CASE Proceed(s)
    <3>1. late' = late
      BY <2>2 DEF Proceed, Stay
    <3>2. \A t \in Syncers : t # s => queue'[t] = queue[t] /\ batch'[t] = batch[t]
      BY <2>2 DEF Proceed
    <3>3. \A i \in queue'[s] \cup batch'[s] :
            \/ i \in queue[s] \cup batch[s]
            \/ i \in PendingOf({OutcomeOf(r) : r \in Runs}) \cup PendingOf({ArtifactOf(r) : r \in Runs})
      BY <2>2 DEF Proceed
    <3> QED BY <1>1, <1>2, <3>1, <3>2, <3>3
  <2>3. CASE Unanswered(s)
    BY <1>1, <2>3 DEF Unanswered
  <2>4. CASE Settle(s)
    BY <1>1, <2>4 DEF Settle, Stay
  <2>5. CASE Answered(s)
    BY <1>4, <2>5 DEF Answered
  <2>6. CASE Begin(s) \/ Ingest(s) \/ Register(s) \/ Finalize(s) \/ RecordImport(s)
             \/ \E r \in Runs : ImportRun(s, r)
    BY <1>4, <2>6 DEF Begin, Ingest, Register, Finalize, RecordImport, ImportRun, Stay
  <2> QED BY <1>6, <2>1, <2>2, <2>3, <2>4, <2>5, <2>6 DEF SyncStep
<1>7. ASSUME NEW s \in Syncers, Crash(s) PROVE Goal
  BY <1>1, <1>7 DEF Crash, BaseInv, TypeOK
<1>8. ASSUME (\E i \in Items : RetryDelayPasses(i)) \/ (\E m \in late : ServeLate(m))
             \/ ChangePolicy \/ UNCHANGED vars
      PROVE  Goal
  BY <1>4, <1>8 DEF RetryDelayPasses, ServeLate, ChangePolicy, vars, syncVars
<1> HIDE DEF Goal
<1>9. Goal
  BY <1>5, <1>6, <1>7, <1>8 DEF Next
<1>10. \A i \in Items : Fine(i) => i \in Events \/ Arrived(i[1])'
  BY ItemsAre, CoverStays DEF Fine
<1>11. BaseInv'
  BY StepBase
<1> QED BY <1>9, <1>10, <1>11 DEF Goal, RequestsInv, BaseInv, TypeOK

\* The importer registers what it has ingested as a whole.
LEMMA ImportKept ==
    ASSUME BaseInv, OrderInv, RowsChange, ServerChanges, [Next]_vars
    PROVE  ImportInv'
<1> DEFINE Whole == \A r \in closed' : written'[r] = Length
           AtHand(s) ==
             /\ pc[s] = "ingest" /\ ended[s] => current[s] \in closed
             /\ pc[s] \in {"register", "finalize", "record"} =>
                  current[s] \in Runs /\ Covered(current[s])
             /\ pc[s] \in {"finalize", "record"} => Row(ArtifactOf(current[s]))
           Goal == Whole /\ \A s \in Syncers : AtHand(s)'
<1>1. \A s \in Syncers : AtHand(s)
  BY DEF OrderInv, ImportInv, BaseInv, CurrentInv
<1>2. \A r \in closed : r \in Runs /\ written[r] = Length
  BY SpoolSyncAssumption DEF OrderInv, ImportInv, BaseInv, TypeOK
<1>3. \A r \in Runs : /\ Covered(r) => Covered(r)'
                      /\ Row(ArtifactOf(r)) => Row(ArtifactOf(r))'
  BY CoverStays, RowsLeave, ItemsAre
<1>4. ASSUME NEW s \in Syncers, closed \subseteq closed',
             \/ pc'[s] = pc[s] /\ current'[s] = current[s] /\ ended'[s] = ended[s]
             \/ pc'[s] \notin {"ingest", "register", "finalize", "record"}
      PROVE  AtHand(s)'
  BY <1>1, <1>3, <1>4
<1> HIDE DEF AtHand
<1>5. ASSUME UNCHANGED <<written, closed, pc, current, ended>> PROVE Goal
  BY <1>2, <1>4, <1>5
<1>6. ASSUME NEW r \in Runs, RunStep(r) PROVE Goal
  <2>1. closed \subseteq closed' /\ UNCHANGED <<pc, current, ended>>
    BY <1>6 DEF RunStep, WriteEvent, Close, SubmitEvent, SinkFinalize, syncVars
  <2>2. Whole
    <3>1. CASE WriteEvent(r)
      <4>1. r \notin closed /\ closed' = closed
        BY <1>2, <3>1, SpoolSyncAssumption DEF WriteEvent, BaseInv, TypeOK
      <4>2. \A q \in Runs : q # r => written'[q] = written[q]
        BY <3>1 DEF WriteEvent, BaseInv, TypeOK
      <4> QED BY <1>2, <4>1, <4>2
    <3>2. CASE Close(r)
      BY <1>2, <3>2 DEF Close
    <3>3. CASE SubmitEvent(r) \/ SinkFinalize(r)
      BY <1>2, <3>3 DEF SubmitEvent, SinkFinalize
    <3> QED BY <1>6, <3>1, <3>2, <3>3 DEF RunStep
  <2> QED BY <1>4, <2>1, <2>2
<1>7. ASSUME NEW s \in Syncers, SyncStep(s) PROVE Goal
  <2>1. UNCHANGED <<written, closed>> /\ Whole
    BY <1>2, <1>7 DEF SyncStep, Begin, Ingest, Register, Finalize, RecordImport, ImportRun,
       SelectEvents, Proceed, Answered, Unanswered, Settle, Stay, runVars
  <2>2. \A t \in Syncers : t # s =>
          pc'[t] = pc[t] /\ current'[t] = current[t] /\ ended'[t] = ended[t]
    BY <1>7 DEF SyncStep, Begin, Ingest, Register, Finalize, RecordImport, ImportRun, Advance,
       Imported, SelectEvents, Proceed, Answered, Unanswered, Settle, BaseInv, TypeOK
  <2>3. SUFFICES AtHand(s)'
    BY <1>4, <2>1, <2>2
  <2>4. CASE Begin(s) \/ RecordImport(s) \/ SelectEvents(s) \/ Proceed(s) \/ Answered(s)
             \/ Unanswered(s) \/ Settle(s)
    <3>1. pc'[s] \in {"import", "send", "next", "idle", "settle"}
      BY <2>4 DEF Begin, RecordImport, SelectEvents, Proceed, Answered, Unanswered, Settle,
         Imported, BaseInv, TypeOK
    <3> QED BY <1>4, <2>1, <3>1
  <2>5. ASSUME NEW r \in Runs, ImportRun(s, r) PROVE AtHand(s)'
    <3>1. CASE Unchanged(r)
      BY <1>4, <2>1, <2>5, <3>1 DEF ImportRun
    <3>2. CASE ~Unchanged(r)
      <4>1. pc'[s] = "ingest" /\ current'[s] = r /\ (ended'[s] <=> r \in closed)
        BY <2>5, <3>2 DEF ImportRun, BaseInv, TypeOK
      <4> QED BY <2>1, <4>1 DEF AtHand
    <3> QED BY <3>1, <3>2
  <2>6. CASE Ingest(s)
    <3>1. CASE Fits(Importable(s)) /\ ended[s]
      <4>1. /\ pc'[s] = "register" /\ current'[s] = current[s]
            /\ upload' = Inserted(Importable(s)) /\ pc[s] = "ingest"
        BY <2>6, <3>1 DEF Ingest, Advance, BaseInv, TypeOK
      <4>2. current[s] \in Runs /\ written[current[s]] = Length
        BY <1>1, <1>2, <3>1, <4>1 DEF AtHand
      <4>3. Importable(s) = EventsOf(current[s]) /\ EventsOf(current[s]) \subseteq Items
        BY <4>2, ImportableAre, ItemsAre DEF BaseInv
      <4>4. \A e \in EventsOf(current[s]) : Row(e)'
        BY <4>1, <4>3, InsertedRows DEF BaseInv
      <4> QED BY <4>1, <4>2, <4>4 DEF AtHand, Covered
    <3>2. CASE ~ (Fits(Importable(s)) /\ ended[s])
      <4>1. pc'[s] = "import"
        BY <2>6, <3>2 DEF Ingest, Imported, BaseInv, TypeOK
      <4> QED BY <1>4, <2>1, <4>1
    <3> QED BY <3>1, <3>2
  <2>7. CASE Register(s)
    <3>1. /\ pc[s] = "register" /\ pc'[s] = "finalize" /\ current'[s] = current[s]
          /\ upload' = Inserted({ArtifactOf(current[s])})
      BY <2>7 DEF Register, Advance, BaseInv, TypeOK
    <3>2. current[s] \in Runs /\ Covered(current[s])
      BY <1>1, <3>1 DEF AtHand
    <3>3. ArtifactOf(current[s]) \in Items
      BY <3>2, ItemsAre
    <3>4. Row(ArtifactOf(current[s]))'
      BY <3>1, <3>3, InsertedRows DEF BaseInv
    <3> QED BY <1>3, <3>1, <3>2, <3>4 DEF AtHand
  <2>8. CASE Finalize(s)
    <3>1. /\ pc[s] = "finalize"
          /\ pc'[s] = "import" \/ (pc'[s] = "record" /\ current'[s] = current[s])
      BY <2>8 DEF Finalize, Advance, Imported, BaseInv, TypeOK
    <3>2. current[s] \in Runs /\ Covered(current[s]) /\ Row(ArtifactOf(current[s]))
      BY <1>1, <3>1 DEF AtHand
    <3> QED BY <1>3, <3>1, <3>2 DEF AtHand
  <2> QED BY <1>7, <2>4, <2>5, <2>6, <2>7, <2>8 DEF SyncStep
<1>8. ASSUME NEW s \in Syncers, Crash(s) PROVE Goal
  <2>1. UNCHANGED <<written, closed>> /\ pc'[s] = "idle"
    BY <1>8 DEF Crash, runVars, BaseInv, TypeOK
  <2>2. \A t \in Syncers : t # s =>
          pc'[t] = pc[t] /\ current'[t] = current[t] /\ ended'[t] = ended[t]
    BY <1>8 DEF Crash, BaseInv, TypeOK
  <2> QED BY <1>2, <1>4, <2>1, <2>2
<1>9. ASSUME (\E i \in Items : RetryDelayPasses(i)) \/ (\E m \in late : ServeLate(m))
             \/ ChangePolicy \/ UNCHANGED vars
      PROVE  Goal
  BY <1>5, <1>9 DEF RetryDelayPasses, ServeLate, ChangePolicy, vars, runVars, syncVars
<1> HIDE DEF Goal
<1>10. Goal
  BY <1>6, <1>7, <1>8, <1>9 DEF Next
<1> QED BY <1>10 DEF Goal, AtHand, ImportInv

LEMMA OrderHolds ==
    ASSUME Connected = {}
    PROVE  Spec => []OrderInv
<1>1. Init => OrderInv
  <2> SUFFICES ASSUME Init PROVE OrderInv
    OBVIOUS
  <2>1. \A r \in Runs : OutcomeOf(r) \in Items /\ ArtifactOf(r) \in Items
    BY ItemsAre
  <2>2. RowsInv /\ OutcomeAfterEvents
    BY <2>1 DEF Init, RowsInv, Row, OutcomeAfterEvents
  <2>3. ImportInv /\ RequestsInv
    BY DEF Init, ImportInv, RequestsInv
  <2> QED BY <2>2, <2>3 DEF OrderInv
<1>2. BaseInv /\ OrderInv /\ [Next]_vars => OrderInv'
  BY RowsStep, ServerStep, RowsInvKept, OutcomesFollow, RequestsKept, ImportKept DEF OrderInv
<1> QED BY <1>1, <1>2, InvariantHolds, PTL DEF Spec

\* Handed over by the importer, the outcome and the artifacts of a run arrive after all of
\* its events, however many syncers work on the spool (spool.py, pending_finalizations).
THEOREM OutcomesComeLast ==
    ASSUME Connected = {}
    PROVE  Spec => []OutcomeAfterEvents
<1>1. OrderInv => OutcomeAfterEvents
  BY DEF OrderInv
<1> QED BY <1>1, OrderHolds, PTL

\* And a run that is shown as synchronized is on the server as a whole.
THEOREM SynchronizedMeansStored ==
    ASSUME Connected = {}
    PROVE  Spec => []SynchronizedIsStored
<1>1. BaseInv /\ OrderInv => SynchronizedIsStored
  <2> SUFFICES ASSUME BaseInv, OrderInv, NEW r \in Runs, ConsoleState(r) = "SYNCHRONIZED",
                      NEW i \in EventsOf(r) \cup {OutcomeOf(r), ArtifactOf(r)}
               PROVE  Stored(i)
    BY DEF SynchronizedIsStored, Stored
  <2>1. i \in Items /\ i[1] = r /\ OutcomeOf(r) \in Items
    BY ItemsAre DEF EventsOf
  <2>2. Row(OutcomeOf(r)) /\ \A j \in Items : j[1] = r /\ Row(j) => upload[j] = "acknowledged"
    BY DEF ConsoleState, Row
  <2>3. Row(i) => Stored(i)
    BY <2>1, <2>2 DEF BaseInv, AcknowledgedInv
  <2>4. Row(ArtifactOf(r)) /\ Covered(r)
    BY <2>2 DEF OrderInv, RowsInv
  <2> QED BY <2>2, <2>3, <2>4 DEF Covered
<1> QED BY <1>1, InvariantHolds, OrderHolds, PTL
----------------------------------------------------------------------------
(* No event is given up without a cause, and one syncer alone settles a row once *)

\* A request carries events, or one outcome or artifact.
OneKind(m) == m \subseteq Events \/ m \cap Events = {}

KindsInv ==
    /\ \A s \in Syncers : queue[s] \cap Events = {} /\ OneKind(batch[s])
    /\ \A m \in late : OneKind(m)

LEMMA PendingOfNoEvents ==
    /\ PendingOf({OutcomeOf(r) : r \in Runs}) \cap Events = {}
    /\ PendingOf({ArtifactOf(r) : r \in Runs}) \cap Events = {}
BY ItemsAre DEF PendingOf

LEMMA KindsKept ==
    ASSUME BaseInv, KindsInv, [Next]_vars
    PROVE  KindsInv'
<1> USE DEF KindsInv, OneKind, BaseInv, TypeOK
<1>1. ASSUME queue' = queue, batch' = batch, late' \subseteq late PROVE KindsInv'
  BY <1>1
<1>2. ASSUME NEW r \in Runs, RunStep(r) PROVE KindsInv'
  BY <1>1, <1>2 DEF RunStep, WriteEvent, Close, SubmitEvent, SinkFinalize, syncVars
<1>3. ASSUME NEW s \in Syncers, SyncStep(s) PROVE KindsInv'
  <2>1. CASE SelectEvents(s)
    BY <2>1 DEF SelectEvents, PendingEvents, Stay
  <2>2. CASE Proceed(s)
    BY <2>2, PendingOfNoEvents DEF Proceed, Stay
  <2>3. CASE Settle(s)
    BY <2>3 DEF Settle, Stay
  <2>4. CASE Unanswered(s)
    BY <2>4 DEF Unanswered
  <2>5. CASE Begin(s) \/ Ingest(s) \/ Register(s) \/ Finalize(s) \/ RecordImport(s)
             \/ (\E r \in Runs : ImportRun(s, r)) \/ Answered(s)
    BY <1>1, <2>5
    DEF Begin, Ingest, Register, Finalize, RecordImport, ImportRun, Answered, Stay
  <2> QED BY <1>3, <2>1, <2>2, <2>3, <2>4, <2>5 DEF SyncStep
<1>4. ASSUME NEW s \in Syncers, Crash(s) PROVE KindsInv'
  <2>1. late' = late \/ late' = late \cup {batch[s]}
    BY <1>4 DEF Crash
  <2>2. \A m \in late' : OneKind(m)
    BY <2>1
  <2>3. /\ queue' = [queue EXCEPT ![s] = {}] /\ batch' = [batch EXCEPT ![s] = {}]
    BY <1>4 DEF Crash
  <2> QED BY <2>2, <2>3
<1>5. ASSUME (\E i \in Items : RetryDelayPasses(i)) \/ (\E m \in late : ServeLate(m))
             \/ ChangePolicy \/ UNCHANGED vars
      PROVE  KindsInv'
  BY <1>1, <1>5 DEF RetryDelayPasses, ServeLate, ChangePolicy, vars, syncVars
<1> QED BY <1>2, <1>3, <1>4, <1>5 DEF Next

LEMMA KindsHold == Spec => []KindsInv
<1>1. Init => KindsInv
  BY DEF Init, KindsInv, OneKind
<1>2. BaseInv /\ KindsInv /\ [Next]_vars => KindsInv'
  BY KindsKept
<1> QED BY <1>1, <1>2, InvariantHolds, PTL DEF Spec

\* What is stored keeps the policy of its first delivery, and so does a batch with all of
\* its events.
LedgerInv ==
    /\ \A i \in Items : stored[i] <= policy
    /\ \A b \in batches : b.ids # {} /\ \A e \in b.ids : stored[e] = b.policy

\* The server accepts only events that are new or stored under the policy in force.
LEMMA ServeKeepsLedger ==
    ASSUME BaseInv, LedgerInv, NEW m \in SUBSET Items, OneKind(m), Serve(m), policy' = policy
    PROVE  LedgerInv' /\ \A i \in Items : Stored(i) => stored'[i] = stored[i]
<1>1. /\ stored \in [Items -> 0 .. MaxPolicies] /\ policy \in Nat \ {0} /\ MaxPolicies \in Nat
      /\ batches \subseteq [ids : SUBSET Events, policy : 1 .. MaxPolicies]
  BY SpoolSyncAssumption DEF BaseInv, TypeOK
<1>2. CASE Verdict(m) # "ok"
  BY <1>2 DEF Serve, LedgerInv
<1>3. CASE Verdict(m) = "ok"
  <2>1. \A i \in Items : stored'[i] = IF i \in m /\ stored[i] = 0 THEN policy ELSE stored[i]
    BY <1>3 DEF Serve, StoredBy
  <2>2. \A i \in Items : Stored(i) => stored'[i] = stored[i]
    BY <2>1 DEF Stored
  <2>3. \A i \in Items : stored'[i] = policy \/ stored'[i] = stored[i]
    BY <2>1
  <2>4. \A i \in Items : stored'[i] <= policy
    <3>1. \A a \in Nat : a <= policy => (\A i \in Items : stored'[i] = a => stored'[i] <= policy)
      OBVIOUS
    <3>2. \A i \in Items : stored[i] \in Nat /\ stored[i] <= policy
      BY <1>1 DEF LedgerInv
    <3> QED BY <1>1, <2>3, <3>1, <3>2
  <2>5. ASSUME NEW b \in batches' PROVE b.ids # {} /\ \A e \in b.ids : stored'[e] = b.policy
    <3>1. CASE b \in batches
      <4>1. /\ b.ids # {} /\ b.policy # 0
            /\ \A e \in b.ids : e \in Items /\ stored[e] = b.policy
        BY <1>1, <3>1, ItemsAre DEF LedgerInv
      <4> QED BY <2>2, <4>1 DEF Stored
    <3>2. CASE b \notin batches
      <4>1. /\ m \cap Events # {} /\ b = [ids |-> m \cap Events, policy |-> policy]
        BY <1>3, <2>5, <3>2 DEF Serve
      <4>2. m \subseteq Events
        BY <4>1 DEF OneKind
      <4>3. Acceptable(m)
        BY <1>3, <4>2 DEF Verdict
      <4>4. \A e \in m : stored'[e] = policy
        BY <1>1, <2>1, <4>3 DEF Acceptable
      <4> QED BY <4>1, <4>4
    <3> QED BY <3>1, <3>2
  <2> QED BY <2>2, <2>4, <2>5 DEF LedgerInv
<1> QED BY <1>2, <1>3

LEMMA LedgerKept ==
    ASSUME BaseInv, KindsInv, LedgerInv, ServerChanges
    PROVE  /\ LedgerInv' /\ \A i \in Items : Stored(i) => stored'[i] = stored[i]
           /\ policy' = policy \/ policy' = policy + 1
<1>1. CASE UNCHANGED <<stored, batches>> /\ (policy' = policy \/ policy' = policy + 1)
  <2>1. \A i \in Items : stored[i] \in Nat /\ stored[i] <= policy
    BY SpoolSyncAssumption DEF LedgerInv, BaseInv, TypeOK
  <2>2. policy \in Nat
    BY SpoolSyncAssumption DEF BaseInv, TypeOK
  <2>3. \A a \in Nat : a <= policy => a <= policy + 1
    BY <2>2
  <2>4. \A i \in Items : stored'[i] <= policy'
    BY <1>1, <2>1, <2>3
  <2> QED BY <1>1, <2>4 DEF LedgerInv
<1>2. ASSUME policy' = policy, NEW s \in Syncers, Serve(batch[s])
      PROVE  LedgerInv' /\ \A i \in Items : Stored(i) => stored'[i] = stored[i]
  <2>1. batch[s] \in SUBSET Items /\ OneKind(batch[s])
    BY DEF BaseInv, TypeOK, KindsInv
  <2> QED BY <1>2, <2>1, ServeKeepsLedger
<1>3. ASSUME policy' = policy, NEW m \in late, Serve(m)
      PROVE  LedgerInv' /\ \A i \in Items : Stored(i) => stored'[i] = stored[i]
  <2>1. m \in SUBSET Items /\ OneKind(m)
    BY DEF BaseInv, TypeOK, KindsInv
  <2> QED BY <1>3, <2>1, ServeKeepsLedger
<1> QED BY <1>1, <1>2, <1>3 DEF ServerChanges

\* The server refuses events for a cause only (_ingest_batch).
LEMMA RefusedForACause ==
    ASSUME BaseInv, LedgerInv, NEW m \in SUBSET Events, Verdict(m) = "permanent"
    PROVE  Cause(m)
<1>1. /\ \A e \in m : stored[e] \in Nat /\ stored[e] <= policy
      /\ policy \in Nat
      /\ \A b \in batches : b.policy \in Nat \ {0}
  BY ItemsAre, SpoolSyncAssumption DEF BaseInv, TypeOK, LedgerInv
<1>2. ~Acceptable(m)
  BY DEF Verdict
<1>3. CASE m \cap Refused # {}
  BY <1>3 DEF Cause
<1>4. ASSUME NEW b \in batches, b.ids = m, b.policy # policy PROVE Cause(m)
  <2>1. PICK e \in m : stored[e] = b.policy
    BY <1>4 DEF LedgerInv
  <2> QED BY <1>1, <1>4, <2>1 DEF Cause
<1>5. ASSUME NEW e \in m, stored[e] \notin {0, policy} PROVE Cause(m)
  BY <1>1, <1>5 DEF Cause
<1> QED BY <1>2, <1>3, <1>4, <1>5 DEF Acceptable

\* A syncer that has been refused has a cause at hand.
GivenUpInv ==
    \A s \in Syncers :
      pc[s] = "settle" /\ verdict[s] = "permanent" /\ batch[s] \subseteq Events => Cause(batch[s])

\* A cause does not go away while its batch is settled.
LEMMA CauseStays ==
    ASSUME BaseInv, NEW s \in Syncers, batch[s] \subseteq Events, Cause(batch[s]),
           batch'[s] = batch[s],
           \A i \in Items : Stored(i) => stored'[i] = stored[i],
           policy' = policy \/ policy' = policy + 1
    PROVE  Cause(batch[s])'
<1>1. PICK f \in batch[s] : f \in Refused \/ (stored[f] # 0 /\ stored[f] < policy)
  BY DEF Cause
<1>2. CASE f \in Refused
  BY <1>1, <1>2 DEF Cause
<1>3. CASE f \notin Refused
  <2>1. f \in Items /\ stored'[f] = stored[f]
    BY <1>1, <1>3, ItemsAre DEF Stored
  <2>2. stored[f] \in Nat /\ policy \in Nat
    BY <2>1, SpoolSyncAssumption DEF BaseInv, TypeOK
  <2>3. stored[f] < policy + 1 /\ stored[f] < policy /\ stored[f] # 0
    BY <1>1, <1>3, <2>2
  <2>4. stored'[f] < policy' /\ stored'[f] # 0
    BY <2>1, <2>3
  <2> QED BY <1>1, <2>4 DEF Cause
<1> QED BY <1>2, <1>3

\* An answer of the server is given up for its cause, and nobody touches the batch of a
\* syncer but itself (sync_once).
LEMMA GivenUpKept ==
    ASSUME BaseInv, BaseInv', KindsInv, LedgerInv, GivenUpInv, [Next]_vars
    PROVE  GivenUpInv'
<1> DEFINE At(s) == pc[s] = "settle" /\ verdict[s] = "permanent" /\ batch[s] \subseteq Events
<1>1. /\ \A i \in Items : Stored(i) => stored'[i] = stored[i]
      /\ policy' = policy \/ policy' = policy + 1
  BY ServerStep, LedgerKept
<1>2. ASSUME NEW s \in Syncers, At(s)', pc'[s] = pc[s], verdict'[s] = verdict[s], batch'[s] = batch[s]
      PROVE  Cause(batch[s])'
  <2>1. Cause(batch[s]) /\ batch[s] \subseteq Events
    BY <1>2 DEF GivenUpInv
  <2> QED BY <1>1, <1>2, <2>1, CauseStays
<1>3. ASSUME NEW s \in Syncers, At(s)', Answered(s) PROVE Cause(batch[s])'
  <2>1. /\ batch'[s] = batch[s] /\ Verdict(batch[s]) = "permanent"
        /\ batch[s] \in SUBSET Events
    BY <1>3 DEF Answered, BaseInv, TypeOK
  <2>2. Cause(batch[s])
    BY <2>1, RefusedForACause
  <2> QED BY <1>1, <2>1, <2>2, CauseStays
<1>4. ASSUME NEW s \in Syncers, At(s)', NEW q \in Syncers, SyncStep(q) \/ Crash(q)
      PROVE  \/ Answered(s)
             \/ pc'[s] = pc[s] /\ verdict'[s] = verdict[s] /\ batch'[s] = batch[s]
  <2> USE DEF BaseInv, TypeOK
  <2>1. CASE q # s
    BY <1>4, <2>1 DEF SyncStep, Begin, Ingest, Register, Finalize, RecordImport, ImportRun, Advance,
       Imported, SelectEvents, Proceed, Answered, Unanswered, Settle, Crash
  <2>2. CASE q = s
    <3>1. ~Unanswered(s) /\ ~Crash(s)
      BY <1>4 DEF Unanswered, Crash
    <3>2. ~(Begin(s) \/ Ingest(s) \/ Register(s) \/ Finalize(s) \/ RecordImport(s)
            \/ SelectEvents(s) \/ Settle(s))
      BY <1>4 DEF Begin, Ingest, Register, Finalize, RecordImport, Advance, Imported,
         SelectEvents, Settle
    <3>3. ~Proceed(s) /\ ~(\E r \in Runs : ImportRun(s, r))
      BY <1>4 DEF Proceed, ImportRun
    <3> QED BY <1>4, <2>2, <3>1, <3>2, <3>3 DEF SyncStep
  <2> QED BY <2>1, <2>2
<1>5. ASSUME NEW r \in Runs, RunStep(r) PROVE UNCHANGED <<pc, verdict, batch>>
  BY <1>5 DEF RunStep, WriteEvent, Close, SubmitEvent, SinkFinalize, syncVars
<1>6. ASSUME (\E i \in Items : RetryDelayPasses(i)) \/ (\E m \in late : ServeLate(m))
             \/ ChangePolicy \/ UNCHANGED vars
      PROVE  UNCHANGED <<pc, verdict, batch>>
  BY <1>6 DEF RetryDelayPasses, ServeLate, ChangePolicy, vars, syncVars
<1>7. ASSUME NEW s \in Syncers, At(s)' PROVE Cause(batch[s])'
  BY <1>2, <1>3, <1>4, <1>5, <1>6, <1>7 DEF Next
<1> QED BY <1>7 DEF GivenUpInv

\* Only a refused batch makes dead letters (dead_letter_events).
LEMMA DeadLettersComeFromBatches ==
    ASSUME BaseInv, KindsInv, GivenUpInv, RowsChange
    PROVE  \A e \in Events : upload[e] # "dead_letter" /\ upload'[e] = "dead_letter"
              => \E s \in Syncers : e \in batch[s] /\ Cause(batch[s])
<1> DEFINE Goal == \A e \in Events : upload[e] # "dead_letter" /\ upload'[e] = "dead_letter"
                      => \E s \in Syncers : e \in batch[s] /\ Cause(batch[s])
<1> USE DEF BaseInv, TypeOK
<1>1. ASSUME NEW es, upload' = Inserted(es) PROVE Goal
  BY <1>1, ItemsAre DEF Inserted
<1>2. ASSUME upload' = upload PROVE Goal
  BY <1>2
<1>3. ASSUME NEW s \in Syncers, NEW part \in SUBSET batch[s], SettleRows(part, verdict[s]),
             pc[s] = "settle"
      PROVE  Goal
  <2>1. /\ part \in SUBSET Items /\ verdict[s] \in {"ok", "transient", "permanent"}
        /\ verdict[s] = "ok" => \A i \in part : Stored(i)
    BY <1>3 DEF AnswersInv
  <2>2. \A i \in Items : upload'[i] = "dead_letter"
          => upload[i] = "dead_letter" \/ (verdict[s] = "permanent" /\ i \in part)
    BY <1>3, <2>1, SettledRows
  <2> SUFFICES ASSUME NEW e \in Events, upload[e] # "dead_letter", upload'[e] = "dead_letter"
               PROVE  e \in batch[s] /\ Cause(batch[s])
    OBVIOUS
  <2>3. verdict[s] = "permanent" /\ e \in batch[s]
    BY <2>2, ItemsAre
  <2> QED BY <1>3, <2>3 DEF GivenUpInv, KindsInv, OneKind
<1> HIDE DEF Goal
<1>4. Goal
  BY <1>1, <1>2, <1>3 DEF RowsChange
<1> QED BY <1>4 DEF Goal

\* agentd gives a batch of events up only when one of them is refused for what it is, or was
\* stored under an earlier policy: no lost or late answer, no repetition, no second syncer
\* and no death makes an event a dead letter (uploader.py, sync_once; _ingest_batch).
THEOREM DeadLettersHaveACause == Spec => GivenUpForACause
<1> DEFINE I == BaseInv /\ KindsInv /\ LedgerInv /\ GivenUpInv
<1>1. Init => LedgerInv /\ GivenUpInv
  BY DEF Init, LedgerInv, GivenUpInv
<1>2. BaseInv /\ KindsInv /\ LedgerInv /\ GivenUpInv /\ BaseInv' /\ [Next]_vars
        => LedgerInv' /\ GivenUpInv'
  BY ServerStep, LedgerKept, GivenUpKept
<1>3. I /\ [Next]_vars =>
        [\A e \in Events : upload[e] # "dead_letter" /\ upload'[e] = "dead_letter"
           => \E s \in Syncers : e \in batch[s] /\ Cause(batch[s])]_vars
  BY RowsStep, DeadLettersComeFromBatches
<1> QED BY <1>1, <1>2, <1>3, InvariantHolds, KindsHold, PTL DEF Spec, GivenUpForACause

\* What a lone syncer works on is still to be settled.
PendingInv ==
    \A s \in Syncers :
      /\ batch[s] \cap queue[s] = {}
      /\ \A i \in queue[s] \cup batch[s] : upload[i] \in {"offline", "retry"}
      /\ pc[s] \notin {"send", "settle"} => batch[s] = {}

\* What is settled is not in a batch, and only a batch is settled.
LEMMA SettledStay ==
    ASSUME BaseInv, PendingInv, RowsChange
    PROVE  /\ \A i \in Items : upload[i] \in {"acknowledged", "dead_letter"} => upload'[i] = upload[i]
           /\ \/ \A i \in Items : Row(i) => upload'[i] = upload[i]
              \/ \E s \in Syncers : /\ pc[s] = "settle"
                                    /\ \A i \in Items \ batch[s] : upload'[i] = upload[i]
<1> USE DEF BaseInv, TypeOK
<1>1. ASSUME NEW es, upload' = Inserted(es) PROVE \A i \in Items : Row(i) => upload'[i] = upload[i]
  BY <1>1 DEF Inserted
<1>2. ASSUME NEW s \in Syncers, NEW part \in SUBSET batch[s], SettleRows(part, verdict[s]),
             pc[s] = "settle"
      PROVE  \A i \in Items \ batch[s] : upload'[i] = upload[i]
  BY <1>2 DEF SettleRows
<1>3. \/ \A i \in Items : Row(i) => upload'[i] = upload[i]
      \/ \E s \in Syncers : /\ pc[s] = "settle"
                            /\ \A i \in Items \ batch[s] : upload'[i] = upload[i]
  BY <1>1, <1>2 DEF RowsChange
<1> QED BY <1>3 DEF PendingInv, Row

LEMMA PendingKept ==
    ASSUME BaseInv, KindsInv, PendingInv, \A s, t \in Syncers : s = t, RowsChange, [Next]_vars
    PROVE  PendingInv'
<1> DEFINE Open(i) == upload[i] \in {"offline", "retry"}
<1> USE DEF BaseInv, TypeOK
<1>1. \A s \in Syncers : queue[s] \subseteq Items /\ batch[s] \subseteq Items
  OBVIOUS
<1>2. ASSUME NEW i \in Items, Open(i), upload'[i] = upload[i] PROVE Open(i)'
  BY <1>2
<1>3. ASSUME NEW s \in Syncers, pc[s] # "settle" PROVE \A i \in queue[s] \cup batch[s] : Open(i)'
  BY <1>1, <1>3, SettledStay DEF PendingInv, Row
<1>4. ASSUME NEW s \in Syncers PROVE \A i \in queue[s] : Open(i)'
  BY <1>1, SettledStay DEF PendingInv, Row
<1>5. ASSUME UNCHANGED <<pc, queue, batch>>, upload' = upload \/ \E es : upload' = Inserted(es)
      PROVE  PendingInv'
  BY <1>1, <1>5 DEF PendingInv, Inserted, Row
<1>6. ASSUME NEW r \in Runs, RunStep(r) PROVE PendingInv'
  BY <1>5, <1>6 DEF RunStep, WriteEvent, Close, SubmitEvent, SinkFinalize, syncVars, spoolVars
<1>7. ASSUME NEW s \in Syncers, SyncStep(s) PROVE PendingInv'
  <2>1. CASE SelectEvents(s)
    <3>1. \A i \in PendingEvents : upload[i] \in {"offline", "retry"} /\ i \in Events
      BY DEF PendingEvents, Due
    <3>2. /\ upload' = upload /\ queue' = queue /\ batch' = [batch EXCEPT ![s] = PendingEvents]
          /\ pc'[s] = "send" \/ PendingEvents = {}
      BY <2>1 DEF SelectEvents, spoolVars
    <3> QED BY <3>1, <3>2 DEF PendingInv, KindsInv
  <2>2. CASE Proceed(s)
    <3>1. upload' = upload /\ pc[s] = "next" /\ batch[s] = {}
      BY <2>2 DEF Proceed, spoolVars, PendingInv
    <3>2. \A i \in PendingOf({OutcomeOf(r) : r \in Runs}) \cup PendingOf({ArtifactOf(r) : r \in Runs}) :
            upload[i] \in {"offline", "retry"}
      BY DEF PendingOf, Due
    <3>3. CASE \E i \in queue[s] : /\ queue' = [queue EXCEPT ![s] = @ \ {i}]
                                   /\ batch' = [batch EXCEPT ![s] = {i}]
                                   /\ pc' = [pc EXCEPT ![s] = "send"]
      BY <3>1, <3>3 DEF PendingInv
    <3>4. CASE batch' = batch /\ (\/ queue' = [queue EXCEPT ![s] = PendingOf({OutcomeOf(r) : r \in Runs})]
                                  \/ queue' = [queue EXCEPT ![s] = PendingOf({ArtifactOf(r) : r \in Runs})]
                                  \/ queue' = queue)
      <4>1. \A i \in queue'[s] : upload'[i] \in {"offline", "retry"}
        <5>1. queue'[s] \subseteq queue[s] \cup PendingOf({OutcomeOf(r) : r \in Runs})
                                           \cup PendingOf({ArtifactOf(r) : r \in Runs})
          BY <3>4
        <5>2. \A i \in queue[s] : upload[i] \in {"offline", "retry"}
          BY DEF PendingInv
        <5> QED BY <3>1, <3>2, <5>1, <5>2
      <4>2. batch'[s] = {}
        BY <3>1, <3>4
      <4> QED BY <4>1, <4>2 DEF PendingInv
    <3> QED BY <2>2, <3>3, <3>4 DEF Proceed
  <2>3. CASE Answered(s) \/ Unanswered(s)
    BY <2>3 DEF Answered, Unanswered, PendingInv, spoolVars
  <2>4. CASE Settle(s)
    <3>1. batch' = [batch EXCEPT ![s] = {}] /\ queue' = queue
      BY <2>4 DEF Settle
    <3> QED BY <1>4, <3>1 DEF PendingInv
  <2>5. CASE Begin(s) \/ Ingest(s) \/ Register(s) \/ Finalize(s) \/ RecordImport(s)
             \/ \E r \in Runs : ImportRun(s, r)
    <3>1. queue' = queue /\ batch' = batch /\ pc[s] \notin {"send", "settle"}
      BY <2>5 DEF Begin, Ingest, Register, Finalize, RecordImport, ImportRun
    <3>2. batch[s] = {} /\ batch'[s] = {} /\ queue'[s] = queue[s]
      BY <3>1 DEF PendingInv
    <3> QED BY <1>4, <3>2 DEF PendingInv
  <2> QED BY <1>7, <2>1, <2>2, <2>3, <2>4, <2>5 DEF SyncStep
<1>8. ASSUME NEW s \in Syncers, Crash(s) PROVE PendingInv'
  <2>1. queue'[s] = {} /\ batch'[s] = {}
    BY <1>8 DEF Crash
  <2> QED BY <2>1 DEF PendingInv
<1>9. ASSUME (\E i \in Items : RetryDelayPasses(i)) \/ (\E m \in late : ServeLate(m))
             \/ ChangePolicy \/ UNCHANGED vars
      PROVE  PendingInv'
  BY <1>5, <1>9 DEF RetryDelayPasses, ServeLate, ChangePolicy, vars, syncVars, spoolVars
<1> QED BY <1>6, <1>7, <1>8, <1>9 DEF Next

\* One syncer alone never settles a row twice: an acknowledgement or a dead letter is final
\* (spool.py, acknowledge_* and dead_letter_*, whose statements look at no earlier state).
THEOREM LoneSyncerSettlesOnce ==
    ASSUME \A s, t \in Syncers : s = t
    PROVE  Spec => SettledIsFinal
<1>1. Init => PendingInv
  BY DEF Init, PendingInv
<1>2. BaseInv /\ KindsInv /\ PendingInv /\ [Next]_vars => PendingInv'
  BY RowsStep, PendingKept
<1>3. BaseInv /\ PendingInv /\ [Next]_vars =>
        [\A i \in Items : upload[i] \in {"acknowledged", "dead_letter"} =>
            upload'[i] = upload[i]]_vars
  BY RowsStep, SettledStay
<1> QED BY <1>1, <1>2, <1>3, InvariantHolds, KindsHold, PTL DEF Spec, SettledIsFinal
============================================================================
