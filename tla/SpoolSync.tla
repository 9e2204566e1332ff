------------------------------ MODULE SpoolSync ------------------------------
(***************************************************************************)
(* How the events, the outcome and the artifacts of a run reach the        *)
(* control plane: the run bundle on disk, agentd's spool (spool.py), which *)
(* the run's own process (event_sink.py) and the importer                  *)
(* (local_import.py) fill, the synchronization worker that empties it      *)
(* (uploader.py), and the ingestion service and outcome ledger.            *)
(*                                                                         *)
(* The spool and the server change by transactions.  Requests and answers  *)
(* get lost or late, processes die between any two steps, and `sync-once'  *)
(* may work on the spool of a running daemon.  A retry delay is a flag     *)
(* that some later moment takes away.                                      *)
(***************************************************************************)
EXTENDS Integers, FiniteSets

CONSTANTS
    Runs,         \* the identities of runs, as numbers in their order
    Length,       \* events of a run; the last one of a run that ends is terminal (the
                  \* removals of worktrees that may follow it are not among them)
    Ending,       \* the runs that end; the others stay live, paused or abandoned
    Connected,    \* the runs whose process found a daemon when it started
    Differing,    \* the runs whose outcome the process and the importer see differently
    Refused,      \* events that the control plane refuses for what they are
    Syncers,      \* the daemon's worker, and processes of `sync-once'
    BatchSize,    \* SyncConfig.batch_size; the importer's list of runs is no longer
    SpoolLimit,   \* Limits.spool_bytes, in events
    MaxFailures,  \* bound: requests without an answer
    MaxPolicies,  \* bound: versions of the governance policy
    MaxCrashes    \* bound: deaths of syncers

Items == Runs \X (1 .. Length + 2)
Events == Runs \X (1 .. Length)
OutcomeOf(r) == <<r, Length + 1>>
ArtifactOf(r) == <<r, Length + 2>>
EventsOf(r) == {r} \X (1 .. Length)
Terminal(e) == e[1] \in Ending /\ e[2] = Length

ASSUME SpoolSyncAssumption ==
    /\ Runs \subseteq Nat \ {0} /\ IsFiniteSet(Runs)
    /\ Length \in Nat \ {0}
    /\ BatchSize \in Nat \ {0} /\ Cardinality(Runs) <= BatchSize
    /\ Ending \subseteq Runs /\ Connected \subseteq Runs /\ Differing \subseteq Runs
    /\ Refused \subseteq Events
    /\ SpoolLimit \in Nat /\ MaxFailures \in Nat /\ MaxCrashes \in Nat
    /\ MaxPolicies \in Nat \ {0}

VARIABLES
    \* the run bundles and the processes that write them
    written,    \* events in events.jsonl
    closed,     \* runs whose state.json and manifest.json are terminal
    delivered,  \* the last event that the process handed to agentd
    sunk,       \* runs whose process has called finalize
    \* agentd's database
    upload,     \* upload_state of every row; an acknowledged event has no row
    waiting,    \* rows whose next_retry_at is in the future
    finalizer,  \* who wrote final_payload_json
    imported,   \* local_run_imports with the digest of the ended run
    \* LocalRunImporter and SynchronizationWorker
    pc, todo, current, ended, stage, queue, batch, verdict,
    \* the control plane
    stored,     \* the policy under which an item was stored, or 0
    batches,    \* IngestBatch rows
    commitment, \* RunCommitment: the events that it covers
    policy,
    late,       \* requests that the server may receive after their sender gave up
    failures, crashes

runVars == <<written, closed, delivered, sunk>>
spoolVars == <<upload, waiting, finalizer, imported>>
syncVars == <<pc, todo, current, ended, stage, queue, batch, verdict>>
serverVars == <<stored, batches, commitment, policy>>
vars == <<runVars, spoolVars, syncVars, serverVars, late, failures, crashes>>

UploadStates == {"absent", "offline", "retry", "acknowledged", "dead_letter"}
SyncPCs == {"idle", "import", "ingest", "register", "finalize", "record",
            "next", "send", "settle"}
Stages == {"events", "outcomes", "artifacts"}

TypeOK ==
    /\ written \in [Runs -> 0 .. Length]
    /\ closed \subseteq Ending
    /\ delivered \in [Runs -> 0 .. Length]
    /\ sunk \subseteq Connected
    /\ upload \in [Items -> UploadStates]
    /\ waiting \subseteq Items
    /\ finalizer \in [Runs -> {"none", "process", "importer"}]
    /\ imported \subseteq Runs
    /\ pc \in [Syncers -> SyncPCs]
    /\ todo \in [Syncers -> SUBSET Runs]
    /\ current \in [Syncers -> Runs \cup {0}]
    /\ ended \in [Syncers -> BOOLEAN]
    /\ stage \in [Syncers -> Stages]
    /\ queue \in [Syncers -> SUBSET Items]
    /\ batch \in [Syncers -> SUBSET Items]
    /\ verdict \in [Syncers -> {"ok", "transient", "permanent"}]
    /\ stored \in [Items -> 0 .. MaxPolicies]
    /\ batches \subseteq [ids : SUBSET Events, policy : 1 .. MaxPolicies]
    /\ commitment \in [Runs -> SUBSET Events]
    /\ policy \in 1 .. MaxPolicies
    /\ late \subseteq SUBSET Items
    /\ failures \in 0 .. MaxFailures /\ crashes \in 0 .. MaxCrashes

Init ==
    /\ written = [r \in Runs |-> 0] /\ closed = {}
    /\ delivered = [r \in Runs |-> 0] /\ sunk = {}
    /\ upload = [i \in Items |-> "absent"] /\ waiting = {}
    /\ finalizer = [r \in Runs |-> "none"] /\ imported = {}
    /\ pc = [s \in Syncers |-> "idle"] /\ todo = [s \in Syncers |-> {}]
    /\ current = [s \in Syncers |-> 0]
    /\ ended = [s \in Syncers |-> FALSE]
    /\ stage = [s \in Syncers |-> "events"] /\ queue = [s \in Syncers |-> {}]
    /\ batch = [s \in Syncers |-> {}] /\ verdict = [s \in Syncers |-> "ok"]
    /\ stored = [i \in Items |-> 0] /\ batches = {}
    /\ commitment = [r \in Runs |-> {}] /\ policy = 1
    /\ late = {} /\ failures = 0 /\ crashes = 0
-----------------------------------------------------------------------------
(* The process of a run                                                    *)

WriteEvent(r) ==
    /\ written[r] < Length
    /\ written' = [written EXCEPT ![r] = @ + 1]
    /\ UNCHANGED <<closed, delivered, sunk, spoolVars, syncVars, serverVars, late, failures, crashes>>

Close(r) ==
    /\ r \in Ending \ closed /\ written[r] = Length
    /\ closed' = closed \cup {r}
    /\ UNCHANGED <<written, delivered, sunk, spoolVars, syncVars, serverVars, late, failures, crashes>>

Row(i) == upload[i] # "absent"
Spooled == {e \in Events : Row(e)}

\* (Mutation of Inserted: rows that are there already are replaced.)
Replaced(es) == [i \in Items |-> IF i \in es THEN "offline" ELSE upload[i]]

\* ingest_events: rows that are there already are duplicates.
Inserted(es) == [i \in Items |-> IF i \in es /\ ~Row(i) THEN "offline" ELSE upload[i]]

\* (Mutation of Fits: the last room of the spool is not used.)
FitsLess(es) == Cardinality(Spooled \cup es) < SpoolLimit

Fits(es) == Cardinality(Spooled \cup es) <= SpoolLimit

\* (Mutation of SubmitEvent: the search for the next event starts one too late.)
SubmitPast(r) ==
    /\ r \in Connected \ sunk /\ delivered[r] <= written[r]
    /\ upload' = Inserted({<<r, delivered[r] + 1>>})
    /\ delivered' = [delivered EXCEPT ![r] = @ + 1]
    /\ UNCHANGED <<written, closed, sunk, waiting, finalizer, imported,
                   syncVars, serverVars, late, failures, crashes>>

\* event_persisted hands the events over one by one; when one of them fails, the rest
\* waits for the next event.
SubmitEvent(r) ==
    LET e == <<r, delivered[r] + 1>>
    IN  /\ r \in Connected \ sunk /\ delivered[r] < written[r]
        /\ Fits({e})
        /\ upload' = Inserted({e})
        /\ delivered' = [delivered EXCEPT ![r] = @ + 1]
        /\ UNCHANGED <<written, closed, sunk, waiting, finalizer, imported,
                       syncVars, serverVars, late, failures, crashes>>

\* finalize goes on when the delivery of events has failed; it may fail half-way.
SinkFinalize(r) ==
    /\ r \in (Connected \cap closed) \ sunk
    /\ sunk' = sunk \cup {r}
    /\ \/ /\ upload' = Inserted({ArtifactOf(r)})
          /\ UNCHANGED finalizer
       \/ /\ finalizer[r] = "none"
          /\ upload' = Inserted({ArtifactOf(r), OutcomeOf(r)})
          /\ finalizer' = [finalizer EXCEPT ![r] = "process"]
    /\ UNCHANGED <<written, closed, delivered, waiting, imported,
                   syncVars, serverVars, late, failures, crashes>>
-----------------------------------------------------------------------------
(* The importer: run_once, _import_one                                     *)

Stay == UNCHANGED <<runVars, serverVars, late, failures, crashes>>

\* An iteration looks at every run directory.
Begin(s) ==
    /\ pc[s] = "idle"
    /\ pc' = [pc EXCEPT ![s] = "import"]
    /\ todo' = [todo EXCEPT ![s] = {r \in Runs : written[r] > 0}]
    /\ UNCHANGED <<current, ended, stage, queue, batch, verdict, spoolVars>>
    /\ Stay

\* The digest of an ended run is the recorded one.
Unchanged(r) == r \in closed /\ r \in imported

ImportRun(s, r) ==
    /\ pc[s] = "import" /\ r \in todo[s]
    /\ todo' = [todo EXCEPT ![s] = @ \ {r}]
    /\ IF Unchanged(r)
       THEN UNCHANGED <<pc, current, ended>>
       ELSE /\ pc' = [pc EXCEPT ![s] = "ingest"]
            /\ current' = [current EXCEPT ![s] = r]
            /\ ended' = [ended EXCEPT ![s] = r \in closed]
    /\ UNCHANGED <<stage, queue, batch, verdict, spoolVars>>
    /\ Stay

Advance(s, next) == pc' = [pc EXCEPT ![s] = next] /\ UNCHANGED <<current, ended>>

\* _import_one returns: imported, recorded, or given up for this time.
Imported(s) ==
    /\ pc' = [pc EXCEPT ![s] = "import"]
    /\ current' = [current EXCEPT ![s] = 0]
    /\ ended' = [ended EXCEPT ![s] = FALSE]

\* (Mutation of Importable: the last record of the stream is taken for a fragment.)
ImportableShort(s) == {current[s]} \X (1 .. written[current[s]] - 1)

Importable(s) == {current[s]} \X (1 .. written[current[s]])

\* All events of the run in one transaction, or none when the spool is full.
Ingest(s) ==
    /\ pc[s] = "ingest"
    /\ upload' = IF Fits(Importable(s)) THEN Inserted(Importable(s)) ELSE upload
    /\ IF Fits(Importable(s)) /\ ended[s] THEN Advance(s, "register") ELSE Imported(s)
    /\ UNCHANGED <<todo, stage, queue, batch, verdict, waiting, finalizer, imported>>
    /\ Stay

Register(s) ==
    /\ pc[s] = "register"
    /\ upload' = Inserted({ArtifactOf(current[s])})
    /\ Advance(s, "finalize")
    /\ UNCHANGED <<todo, stage, queue, batch, verdict, waiting, finalizer, imported>>
    /\ Stay

\* finalize_run: a different outcome is a collision, and the import is not recorded.
Finalize(s) ==
    LET r == current[s]
    IN  /\ pc[s] = "finalize"
        /\ \/ /\ finalizer[r] = "none"
              /\ upload' = Inserted({OutcomeOf(r)})
              /\ finalizer' = [finalizer EXCEPT ![r] = "importer"]
              /\ Advance(s, "record")
           \/ /\ finalizer[r] # "none"
              /\ IF r \in Differing /\ finalizer[r] = "process"
                 THEN Imported(s) ELSE Advance(s, "record")
              /\ UNCHANGED <<upload, finalizer>>
        /\ UNCHANGED <<todo, stage, queue, batch, verdict, waiting, imported>>
        /\ Stay

RecordImport(s) ==
    /\ pc[s] = "record"
    /\ imported' = imported \cup {current[s]}
    /\ Imported(s)
    /\ UNCHANGED <<todo, stage, queue, batch, verdict, upload, waiting, finalizer>>
    /\ Stay
-----------------------------------------------------------------------------
(* The synchronization worker: sync_once                                   *)

Due(i) == upload[i] \in {"offline", "retry"} /\ i \notin waiting

Before(e, f) == e[1] < f[1] \/ (e[1] = f[1] /\ e[2] < f[2])

\* pending_events: the first rows in the order of scope and sequence.
PendingEvents ==
    LET due == {e \in Events : Due(e)}
    IN  {e \in due : Cardinality({f \in due : Before(f, e)}) < BatchSize}

\* (Mutation of PendingOf: an outcome does not wait for the events of its run.)
PendingOfAny(items) == {i \in items : Due(i)}

\* pending_finalizations and pending_artifacts: rows whose run has no event in the spool.
PendingOf(items) == {i \in items : Due(i) /\ \A e \in EventsOf(i[1]) : ~Row(e)}

SelectEvents(s) ==
    /\ pc[s] = "import" /\ todo[s] = {}
    /\ batch' = [batch EXCEPT ![s] = PendingEvents]
    /\ pc' = [pc EXCEPT ![s] = IF PendingEvents = {} THEN "next" ELSE "send"]
    /\ UNCHANGED <<stage, queue, todo, current, ended, verdict, spoolVars>>
    /\ Stay

\* The next outcome or artifact of the list read before, the next list, or the end.
Proceed(s) ==
    /\ pc[s] = "next"
    /\ \/ \E i \in queue[s] :
             /\ queue' = [queue EXCEPT ![s] = @ \ {i}]
             /\ batch' = [batch EXCEPT ![s] = {i}]
             /\ pc' = [pc EXCEPT ![s] = "send"]
             /\ UNCHANGED stage
       \/ /\ stage[s] = "events"
          /\ stage' = [stage EXCEPT ![s] = "outcomes"]
          /\ queue' = [queue EXCEPT ![s] = PendingOf({OutcomeOf(r) : r \in Runs})]
          /\ UNCHANGED <<pc, batch>>
       \/ /\ queue[s] = {} /\ stage[s] = "outcomes"
          /\ stage' = [stage EXCEPT ![s] = "artifacts"]
          /\ queue' = [queue EXCEPT ![s] = PendingOf({ArtifactOf(r) : r \in Runs})]
          /\ UNCHANGED <<pc, batch>>
       \/ /\ queue[s] = {} /\ stage[s] = "artifacts"
          /\ pc' = [pc EXCEPT ![s] = "idle"]
          /\ stage' = [stage EXCEPT ![s] = "events"]
          /\ UNCHANGED <<queue, batch>>
    /\ UNCHANGED <<todo, current, ended, verdict, spoolVars>>
    /\ Stay

\* (Mutation of Acceptable: an event that is stored already is a conflict.)
AcceptableOnce(es) == es \cap Refused = {} /\ \A e \in es : stored[e] = 0

Acceptable(es) ==
    /\ es \cap Refused = {}
    /\ \A b \in batches : b.ids = es => b.policy = policy
    /\ \A e \in es : stored[e] \in {0, policy}

Known(r) == \E e \in EventsOf(r) : stored[e] # 0

\* What the server makes of a request: events are accepted or refused together; an
\* outcome and an artifact need their run.
Verdict(m) ==
    IF m \subseteq Events
    THEN IF Acceptable(m) THEN "ok" ELSE "permanent"
    ELSE IF \A i \in m : Known(i[1]) THEN "ok" ELSE "permanent"

StoredBy(m) == [i \in Items |-> IF i \in m /\ stored[i] = 0 THEN policy ELSE stored[i]]

\* _ingest_batch, record_v2, register; the commitment of a run whose terminal event is
\* new follows in a transaction of its own, unless the server dies before it.
Serve(m) ==
    IF Verdict(m) = "ok"
    THEN LET es == m \cap Events
             finalized == {e[1] : e \in {f \in es : Terminal(f) /\ stored[f] = 0}}
         IN  /\ stored' = StoredBy(m)
             /\ batches' = IF es = {} THEN batches
                           ELSE batches \cup {[ids |-> es, policy |-> policy]}
             /\ \E committed \in {finalized, {}} :
                   commitment' = [r \in Runs |->
                       IF r \in committed THEN {e \in EventsOf(r) : StoredBy(m)[e] # 0}
                       ELSE commitment[r]]
    ELSE UNCHANGED <<stored, batches, commitment>>

Answered(s) ==
    /\ pc[s] = "send"
    /\ Serve(batch[s])
    /\ verdict' = [verdict EXCEPT ![s] = Verdict(batch[s])]
    /\ pc' = [pc EXCEPT ![s] = "settle"]
    /\ UNCHANGED <<todo, current, ended, stage, queue, batch, spoolVars, runVars,
                   policy, late, failures, crashes>>

\* No answer, a server error or a rate limit: the request may still arrive.
Unanswered(s) ==
    /\ pc[s] = "send" /\ failures < MaxFailures
    /\ failures' = failures + 1
    /\ late' = late \cup {batch[s]}
    /\ verdict' = [verdict EXCEPT ![s] = "transient"]
    /\ pc' = [pc EXCEPT ![s] = "settle"]
    /\ UNCHANGED <<todo, current, ended, stage, queue, batch, spoolVars, runVars, serverVars, crashes>>

ServeLate(m) ==
    /\ m \in late
    /\ late' = late \ {m}
    /\ Serve(m)
    /\ UNCHANGED <<policy, runVars, spoolVars, syncVars, failures, crashes>>

\* The row of an item after the answer.  No statement creates a row.
Settled(i, answer) ==
    IF ~Row(i) THEN "absent"
    ELSE IF answer = "permanent" THEN "dead_letter"
    ELSE IF answer = "transient" THEN "retry"
    ELSE IF i \in Events THEN "absent"
    ELSE "acknowledged"

\* acknowledge_*, dead_letter_* and retry_*, for the rows of part.
SettleRows(part, answer) ==
    /\ upload' = [i \in Items |-> IF i \in part THEN Settled(i, answer) ELSE upload[i]]
    /\ waiting' = IF answer = "transient" THEN waiting \cup {i \in part : Row(i)}
                  ELSE waiting \ part

\* (Mutation of SettleBatch: the events are deleted whatever the answer was.)
DeleteBatch(s) == SettleRows(batch[s], IF stage[s] = "events" THEN "ok" ELSE verdict[s])

SettleBatch(s) == SettleRows(batch[s], verdict[s])

Settle(s) ==
    /\ pc[s] = "settle"
    /\ SettleBatch(s)
    /\ pc' = [pc EXCEPT ![s] = "next"]
    /\ batch' = [batch EXCEPT ![s] = {}]
    /\ verdict' = [verdict EXCEPT ![s] = "ok"]
    /\ UNCHANGED <<todo, current, ended, stage, queue, finalizer, imported>>
    /\ Stay
-----------------------------------------------------------------------------
RetryDelayPasses(i) ==
    /\ i \in waiting
    /\ waiting' = waiting \ {i}
    /\ UNCHANGED <<upload, finalizer, imported, runVars, syncVars, serverVars,
                   late, failures, crashes>>

ChangePolicy ==
    /\ policy < MaxPolicies
    /\ policy' = policy + 1
    /\ UNCHANGED <<stored, batches, commitment, runVars, spoolVars, syncVars,
                   late, failures, crashes>>

\* The process dies, or `backfill' and `sync-once' end.  Statements on several rows
\* commit row by row, but for the deletion of acknowledged events.
Crash(s) ==
    /\ crashes < MaxCrashes /\ pc[s] # "idle"
    /\ crashes' = crashes + 1
    /\ pc' = [pc EXCEPT ![s] = "idle"]
    /\ todo' = [todo EXCEPT ![s] = {}]
    /\ current' = [current EXCEPT ![s] = 0]
    /\ ended' = [ended EXCEPT ![s] = FALSE]
    /\ stage' = [stage EXCEPT ![s] = "events"]
    /\ queue' = [queue EXCEPT ![s] = {}]
    /\ batch' = [batch EXCEPT ![s] = {}]
    /\ verdict' = [verdict EXCEPT ![s] = "ok"]
    /\ \/ UNCHANGED <<upload, waiting, late>>
       \/ /\ pc[s] = "settle" /\ verdict[s] # "ok"
          /\ \E part \in SUBSET batch[s] : SettleRows(part, verdict[s])
          /\ UNCHANGED late
       \/ /\ pc[s] = "send"
          /\ late' = late \cup {batch[s]}
          /\ UNCHANGED <<upload, waiting>>
    /\ UNCHANGED <<finalizer, imported, runVars, serverVars, failures>>
-----------------------------------------------------------------------------
RunStep(r) == WriteEvent(r) \/ Close(r) \/ SubmitEvent(r) \/ SinkFinalize(r)

SyncStep(s) ==
    \/ Begin(s) \/ Ingest(s) \/ Register(s) \/ Finalize(s) \/ RecordImport(s)
    \/ \E r \in Runs : ImportRun(s, r)
    \/ SelectEvents(s) \/ Proceed(s) \/ Answered(s) \/ Unanswered(s) \/ Settle(s)

Next ==
    \/ \E r \in Runs : RunStep(r)
    \/ \E s \in Syncers : SyncStep(s) \/ Crash(s)
    \/ \E i \in Items : RetryDelayPasses(i)
    \/ \E m \in late : ServeLate(m)
    \/ ChangePolicy

Spec == Init /\ [][Next]_vars

\* Runs go on writing, delays pass, and the daemon's loop does not stop.
Fairness ==
    /\ \A r \in Runs : WF_vars(WriteEvent(r)) /\ WF_vars(Close(r))
    /\ \A s \in Syncers : WF_vars(SyncStep(s))
    /\ \A i \in Items : WF_vars(RetryDelayPasses(i))

FairSpec == Spec /\ Fairness
-----------------------------------------------------------------------------
(* Properties                                                              *)

\* What agentd has deleted, or counts as acknowledged, is on the server: whoever else
\* worked on the same rows, and whatever arrived late.
NothingLost ==
    [][\A i \in Items :
          (\/ Row(i) /\ upload'[i] = "absent"
           \/ upload[i] # "acknowledged" /\ upload'[i] = "acknowledged")
          => stored[i] # 0]_vars

\* The outcome and the artifacts of a run never get to the server before its events, up
\* to and including the terminal one.
OutcomeAfterEvents ==
    \A r \in Runs : (stored[OutcomeOf(r)] # 0 \/ stored[ArtifactOf(r)] # 0) =>
        \A e \in EventsOf(r) : stored[e] # 0

\* console_run_states: the state that the user is shown for a run.
ConsoleState(r) ==
    LET rows == {upload[i] : i \in {j \in Items : j[1] = r}} \ {"absent"}
    IN  IF "dead_letter" \in rows THEN "SYNC FAILED"
        ELSE IF rows # {} /\ rows \subseteq {"acknowledged"} /\ Row(OutcomeOf(r)) THEN "SYNCHRONIZED"
        ELSE "SYNC PENDING"

\* A run that is shown as synchronized is on the server as a whole.
SynchronizedIsStored ==
    \A r \in Runs : ConsoleState(r) = "SYNCHRONIZED" =>
        \A i \in EventsOf(r) \cup {OutcomeOf(r), ArtifactOf(r)} : stored[i] # 0

\* What makes the server refuse a batch of events: one of them is refused for what it is,
\* or was stored under a policy that is no longer in force.
Cause(es) == \E f \in es : f \in Refused \/ (stored[f] # 0 /\ stored[f] < policy)

\* An event is given up only together with a batch that has such a cause: never because
\* an answer was lost, a syncer died, or another one has sent the same events.
GivenUpForACause ==
    [][\A e \in Events :
          upload[e] # "dead_letter" /\ upload'[e] = "dead_letter"
          => \E s \in Syncers : e \in batch[s] /\ Cause(batch[s])]_vars

\* PLANS.md:1680, "Replays ... are duplicates": an event that is stored is not given up.
StoredIsNotGivenUp ==
    \A e \in Events : stored[e] # 0 => upload[e] # "dead_letter"

\* One syncer alone never takes an acknowledgement or a dead letter back.
SettledIsFinal ==
    [][\A i \in Items : upload[i] \in {"acknowledged", "dead_letter"} =>
          upload'[i] = upload[i]]_vars

\* Events of one scope reach the server in their order.
CausalOrder ==
    \A e, f \in Events : e[1] = f[1] /\ e[2] < f[2] /\ stored[f] # 0 =>
        stored[e] # 0 \/ upload[e] = "dead_letter"

\* The commitment of an ended run covers every event of it on the server.
CommitmentCoversRun ==
    \A r \in Runs : commitment[r] # {} =>
        commitment[r] = {e \in EventsOf(r) : stored[e] # 0}

\* Every event that a run has written arrives.
EveryEventArrives == \A e \in Events : (written[e[1]] >= e[2]) ~> (stored[e] # 0)

\* Every run that ends is synchronized in the end, or the user is shown that the
\* synchronization has failed: no run is stuck in silence.
EveryRunArrives ==
    \A r \in Ending : (r \in closed) ~>
        (\/ ConsoleState(r) = "SYNCHRONIZED"
         \/ \E q \in Runs : ConsoleState(q) = "SYNC FAILED")
=============================================================================
