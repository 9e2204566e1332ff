--------------------------- MODULE ClosedLoopProofs ---------------------------
(***************************************************************************)
(* The safety properties of ClosedLoop hold for every attempt budget,      *)
(* every number of candidates to collect and every number of crashes.      *)
(*                                                                         *)
(* The first part shows, action by action, that IInv is preserved (a lemma *)
(* per action, a step per part of the invariant); the second part puts     *)
(* them together; the third draws the properties from the invariant; the   *)
(* fourth shows that the controller keeps the promise of RunLifecycle.     *)
(*                                                                         *)
(* Three actions do something the owner of the target sees: Verify accepts *)
(* a candidate, Materialize delivers it, and a crash of git may damage the *)
(* target.  Every other step is silent, or closes the run; the invariant   *)
(* says that a run closes with the truth.                                  *)
(***************************************************************************)
EXTENDS ClosedLoopRefinement, TLAPS

\* run() starts, is cancelled or returns with an invalid configuration.
LEMMA StartRunStep == ASSUME IInv, StartRun PROVE IInv'
  <1> USE DEF StartRun, Cancelled, Continue, Transition, bundle, memory, Emit
  <1>1. TypeOK'
    BY ParametersAssumption DEF IInv, TypeOK, States, PCs, TERMINAL_STATES
  <1>2. ControlInv'
    BY DEF IInv, ControlInv, TERMINAL_STATES
  <1>3. IdsInv'
    BY DEF IInv, IdsInv, ControlInv
  <1>4. DecisionInv'
    BY DEF IInv, DecisionInv
  <1>5. ProgressInv'
    BY DEF IInv, ProgressInv, Current
  <1>6. EligibleIsDurable'
    BY DEF IInv, EligibleIsDurable, Up, Accepted
  <1>7. DeliveryInv'
    BY DEF IInv, DeliveryInv, Terminal, Up, TERMINAL_STATES, ControlInv
  <1>8. CandidatesInv'
    BY DEF IInv, Up, Accepted, CandidatesInv
  <1> QED BY <1>1, <1>2, <1>3, <1>4, <1>5, <1>6, <1>7, <1>8 DEF IInv

\* The classification is written, or it fails (_classify).
LEMMA ClassifyStep == ASSUME IInv, Classify PROVE IInv'
  <1> USE DEF Classify, Continue, Fail, memory, Transition, Emit
  <1>1. TypeOK'
    <2>1. log' \in States /\ snap' \in States /\ pc' \in PCs /\ crashes' \in 0 .. MaxCrashes
      BY ParametersAssumption DEF IInv, TypeOK, States, TERMINAL_STATES, PCs
    <2>2. classification' \in BOOLEAN
      BY DEF IInv, TypeOK
    <2> QED BY <2>1, <2>2 DEF IInv, TypeOK
  <1>2. ControlInv'
    BY DEF IInv, ControlInv, TERMINAL_STATES
  <1>3. IdsInv'
    BY DEF IInv, IdsInv, Deciding
  <1>4. DecisionInv'
    BY DEF IInv, DecisionInv
  <1>5. ProgressInv'
    BY DEF IInv, ProgressInv, Current
  <1>6. EligibleIsDurable'
    BY DEF IInv, EligibleIsDurable, Up, Accepted
  <1>7. DeliveryInv'
    BY DEF IInv, DeliveryInv, Terminal, Up, TERMINAL_STATES
  <1>8. CandidatesInv'
    BY DEF IInv, Up, Accepted, CandidatesInv
  <1> QED BY <1>1, <1>2, <1>3, <1>4, <1>5, <1>6, <1>7, <1>8 DEF IInv

\* The event that reports the classification (_classify).
LEMMA CompleteClassificationStep == ASSUME IInv, CompleteClassification PROVE IInv'
  <1> USE DEF CompleteClassification, Transition, bundle, memory, Emit
  <1>1. TypeOK'
    BY ParametersAssumption DEF IInv, TypeOK, States, PCs
  <1>2. ControlInv'
    BY DEF IInv, ControlInv, TERMINAL_STATES, Deciding
  <1>3. IdsInv'
    BY DEF IInv, IdsInv, ControlInv
  <1>4. DecisionInv'
    BY DEF IInv, DecisionInv
  <1>5. ProgressInv'
    BY DEF ProgressInv
  <1>6. EligibleIsDurable'
    BY DEF IInv, EligibleIsDurable, Up, Accepted
  <1>7. DeliveryInv'
    BY DEF IInv, DeliveryInv, Terminal, TERMINAL_STATES, ControlInv
  <1>8. CandidatesInv'
    BY DEF IInv, Up, Accepted, CandidatesInv
  <1> QED BY <1>1, <1>2, <1>3, <1>4, <1>5, <1>6, <1>7, <1>8 DEF IInv

\* A decision is written before its event; its id is the next one or the
\* latest one's (_ask_policy, _next_attempt_id).
LEMMA AskPolicyStep == ASSUME IInv, AskPolicy PROVE IInv'
  <1> USE DEF AskPolicy, Cancelled, Actions, MayDecide, AttemptFor, None, Fail,
     memory, Transition, AttemptActions, Latest, AttemptsRemain, Emit
  <1>1. TypeOK'
    <2>1. log' \in States /\ snap' \in States /\ pc' \in PCs /\ crashes' \in 0 .. MaxCrashes
      BY ParametersAssumption DEF IInv, TypeOK, States, TERMINAL_STATES,
         Actions, AttemptActions, PCs
    <2>2. ASSUME NEW action \in Actions, MayDecide(action), ~cancelRequested
          PROVE  AttemptFor(action) \in {None} \cup Attempts
      <3>1. CASE action \notin AttemptActions \cup {"revalidate"}
        BY <3>1 DEF AttemptActions, None
      <3>2. CASE allocated = None
        BY <2>2, <3>2, ParametersAssumption DEF Attempts
      <3>3. CASE allocated # None /\ action = "revalidate"
        BY <3>3 DEF IInv, TypeOK
      <3>4. CASE allocated # None /\ action \in AttemptActions
        <4>1. allocated \in Attempts /\ recorded[allocated] # "none"
          BY <3>4 DEF IInv, TypeOK, ControlInv, IdsInv
        <4>2. allocated <= MaxAttempts
          BY <4>1 DEF IInv, IdsInv
        <4> QED
          BY <3>4, <4>1, <4>2, ParametersAssumption DEF AttemptActions,
             Attempts, None
      <3> QED BY <3>1, <3>2, <3>3, <3>4 DEF AttemptActions
    <2> SUFFICES /\ decision' \in [action : Actions \cup {"none"},
                                 attempt : {None} \cup Attempts, logged : BOOLEAN]
                 /\ allocated' \in {None} \cup Attempts
      BY <2>1 DEF IInv, TypeOK
    <2>3. CASE UNCHANGED <<decision, allocated>>
      BY <2>3 DEF IInv, TypeOK
    <2>4. CASE /\ ~cancelRequested
               /\ \E action \in Actions :
                     /\ MayDecide(action)
                     /\ decision' = [action |-> action, attempt |-> AttemptFor(action),
                                     logged |-> FALSE]
               /\ allocated' = IF decision'.attempt = None THEN allocated
                               ELSE decision'.attempt
      <3>1. PICK action \in Actions :
                  /\ MayDecide(action)
                  /\ decision' = [action |-> action, attempt |-> AttemptFor(action),
                                  logged |-> FALSE]
        BY <2>4
      <3> HIDE DEF AttemptFor, MayDecide, AskPolicy
      <3>2. AttemptFor(action) \in {None} \cup Attempts
        BY <2>2, <2>4, <3>1
      <3> QED BY <2>4, <3>1, <3>2 DEF IInv, TypeOK
    <2> QED BY <2>3, <2>4
  <1>2. ControlInv'
    BY DEF IInv, ControlInv, TERMINAL_STATES, Deciding
  <1>3. IdsInv'
    BY DEF IInv, IdsInv, Attempts, Deciding, TypeOK, ControlInv
  <1>4. DecisionInv'
    BY DEF IInv, TypeOK, Attempts, ControlInv, Deciding, IdsInv, DecisionInv,
       EligibleIsDurable
  <1>5. ProgressInv'
    BY DEF IInv, ProgressInv, ControlInv, Deciding
  <1>6. EligibleIsDurable'
    BY DEF IInv, EligibleIsDurable, Up, Accepted
  <1>7. DeliveryInv'
    BY DEF IInv, DeliveryInv, Terminal, Up, ControlInv, Deciding
  <1>8. CandidatesInv'
    BY DEF IInv, Up, Accepted, CandidatesInv
  <1> QED BY <1>1, <1>2, <1>3, <1>4, <1>5, <1>6, <1>7, <1>8 DEF IInv

\* The events of a decision (_record_policy_state).
LEMMA RecordPolicyStep == ASSUME IInv, RecordPolicy PROVE IInv'
  <1> USE DEF RecordPolicy, RecordDecision, StateKept, OnRecord, Transition,
     Escalating, memory, Emit
  <1>1. TypeOK'
    <2>1. log' \in States /\ snap' \in States /\ pc' \in PCs /\ crashes' \in 0 .. MaxCrashes
      BY ParametersAssumption DEF IInv, TypeOK, States, PCs
    <2>2. decision' = decision \/ OnRecord
      OBVIOUS
    <2>3. decision' \in [action : Actions \cup {"none"}, attempt : {None} \cup Attempts,
                          logged : BOOLEAN]
      BY <2>2 DEF IInv, TypeOK
    <2> QED BY <2>1, <2>3 DEF IInv, TypeOK
  <1>2. ControlInv'
    <2>1. log \in Deciding \cup {"ESCALATING"} /\ snap \notin TERMINAL_STATES
      BY DEF IInv, ControlInv, Deciding, TERMINAL_STATES
    <2>2. CASE StateKept
      <3>1. log \in Deciding
        BY <2>1, <2>2 DEF IInv, DecisionInv
      <3> QED BY <2>1, <2>2, <3>1 DEF ControlInv, Deciding
    <2>3. CASE ~StateKept /\ log = "VERIFIED"
      BY <2>1, <2>3 DEF ControlInv, Deciding
    <2>4. CASE ~StateKept /\ Escalating
      BY <2>1, <2>4 DEF ControlInv
    <2>5. CASE ~StateKept /\ ~Escalating /\ log # "VERIFIED"
      BY <2>1, <2>5 DEF ControlInv
    <2> QED BY <2>2, <2>3, <2>4, <2>5
  <1>3. IdsInv'
    BY DEF IInv, IdsInv, Deciding, AttemptActions, TypeOK
  <1>4. DecisionInv'
    BY DEF IInv, TypeOK, Deciding, IdsInv, DecisionInv
  <1>5. ProgressInv'
    BY DEF IInv, ProgressInv, ControlInv, Deciding
  <1>6. EligibleIsDurable'
    BY DEF IInv, EligibleIsDurable, Up, Accepted
  <1>7. DeliveryInv'
    BY DEF IInv, DeliveryInv, Terminal, TERMINAL_STATES, ControlInv, Deciding
  <1>8. CandidatesInv'
    BY DEF IInv, Up, Accepted, CandidatesInv
  <1> QED BY <1>1, <1>2, <1>3, <1>4, <1>5, <1>6, <1>7, <1>8 DEF IInv

\* The same events written by recovery (_reconcile_and_continue).
LEMMA RerecordPolicyStep == ASSUME IInv, RerecordPolicy PROVE IInv'
  <1> USE DEF RerecordPolicy, RecordDecision, StateKept, OnRecord, Transition,
     Escalating, memory, Emit
  <1>1. TypeOK'
    <2>1. log' \in States /\ snap' \in States /\ pc' \in PCs /\ crashes' \in 0 .. MaxCrashes
      BY ParametersAssumption DEF IInv, TypeOK, States, PCs, RecoveryPCs
    <2>2. decision' = decision \/ OnRecord
      OBVIOUS
    <2>3. decision' \in [action : Actions \cup {"none"}, attempt : {None} \cup Attempts,
                          logged : BOOLEAN]
      BY <2>2 DEF IInv, TypeOK
    <2> QED BY <2>1, <2>3 DEF IInv, TypeOK
  <1>2. ControlInv'
    <2>1. log \in Deciding \cup {"ESCALATING"} /\ snap \notin TERMINAL_STATES
      BY DEF IInv, ControlInv, Deciding, TERMINAL_STATES
    <2>2. CASE StateKept
      <3>1. log \in Deciding
        BY <2>1, <2>2 DEF IInv, DecisionInv
      <3> QED BY <2>1, <2>2, <3>1 DEF ControlInv, Deciding
    <2>3. CASE ~StateKept /\ log = "VERIFIED"
      BY <2>1, <2>3 DEF ControlInv, Deciding
    <2>4. CASE ~StateKept /\ Escalating
      BY <2>1, <2>4 DEF ControlInv
    <2>5. CASE ~StateKept /\ ~Escalating /\ log # "VERIFIED"
      BY <2>1, <2>5 DEF ControlInv
    <2> QED BY <2>2, <2>3, <2>4, <2>5
  <1>3. IdsInv'
    BY DEF IInv, IdsInv, Deciding, AttemptActions, TypeOK
  <1>4. DecisionInv'
    BY DEF IInv, TypeOK, IdsInv, DecisionInv
  <1>5. ProgressInv'
    BY DEF IInv, ProgressInv, ControlInv, Deciding
  <1>6. EligibleIsDurable'
    BY DEF IInv, EligibleIsDurable, Up, Accepted
  <1>7. DeliveryInv'
    BY DEF IInv, DeliveryInv, Terminal, TERMINAL_STATES, ControlInv, Deciding
  <1>8. CandidatesInv'
    BY DEF IInv, Up, Accepted, CandidatesInv
  <1> QED BY <1>1, <1>2, <1>3, <1>4, <1>5, <1>6, <1>7, <1>8 DEF IInv

\* Recovery reuses a decision whose attempt has not started
\* (_reconcile_and_continue).
LEMMA ReusePolicyStep == ASSUME IInv, ReusePolicy PROVE IInv'
  <1> USE DEF ReusePolicy, Fail, Continue, bundle, memory, Transition, Emit
  <1>1. TypeOK'
    BY ParametersAssumption DEF IInv, TypeOK, States, Actions, PCs,
       TERMINAL_STATES
  <1>2. ControlInv'
    BY DEF IInv, ControlInv, TERMINAL_STATES
  <1>3. IdsInv'
    BY DEF IInv, IdsInv, Deciding
  <1>4. DecisionInv'
    BY DEF IInv, DecisionInv, Deciding, ControlInv
  <1>5. ProgressInv'
    BY DEF IInv, ProgressInv, Current
  <1>6. EligibleIsDurable'
    BY DEF IInv, EligibleIsDurable, Up, Accepted
  <1>7. DeliveryInv'
    BY DEF IInv, DeliveryInv, Terminal, Up, TERMINAL_STATES
  <1>8. CandidatesInv'
    BY DEF IInv, Up, Accepted, CandidatesInv
  <1> QED BY <1>1, <1>2, <1>3, <1>4, <1>5, <1>6, <1>7, <1>8 DEF IInv

\* The decision is carried out (_drive).
LEMMA ActOnDecisionStep == ASSUME IInv, ActOnDecision PROVE IInv'
  <1> USE DEF ActOnDecision, Cancelled, Fail, StartSelection, TransitionOrFail,
     Transition, AttemptActions, AttemptsRemain, Emit
  <1>1. TypeOK'
    <2>1. log' \in States /\ snap' \in States /\ pc' \in PCs /\ crashes' \in 0 .. MaxCrashes
      BY ParametersAssumption DEF IInv, TypeOK, States, TERMINAL_STATES, PCs
    <2>2. decision.action \in AttemptActions => decision.attempt \in Attempts
      BY DEF IInv, TypeOK, DecisionInv, AttemptActions
    <2>3. started' \in SUBSET Attempts /\ then' \in {"attempted", "ask"}
      BY <2>2 DEF IInv, TypeOK
    <2> QED BY <2>1, <2>3 DEF IInv, TypeOK
  <1>2. ControlInv'
    BY DEF IInv, ControlInv, TERMINAL_STATES, Deciding
  <1>3. IdsInv'
    BY ParametersAssumption DEF IInv, IdsInv, Attempts, Deciding, DecisionInv
  <1>4. DecisionInv'
    BY DEF IInv, TypeOK, ControlInv, IdsInv, DecisionInv
  <1>5. ProgressInv'
    BY DEF IInv, TypeOK, ControlInv, IdsInv, DecisionInv, ProgressInv, Current
  <1>6. EligibleIsDurable'
    BY DEF IInv, EligibleIsDurable, Up, Accepted
  <1>7. DeliveryInv'
    BY DEF IInv, DeliveryInv, Terminal, Up, TERMINAL_STATES, ControlInv,
       Deciding
  <1>8. CandidatesInv'
    BY DEF IInv, Up, Accepted, CandidatesInv
  <1> QED BY <1>1, <1>2, <1>3, <1>4, <1>5, <1>6, <1>7, <1>8 DEF IInv

\* attempt.json is written once, for the attempt in progress (_run_attempt).
LEMMA RunAttemptStep == ASSUME IInv, RunAttempt PROVE IInv'
  <1> USE DEF RunAttempt, Record, Continue, memory, Current
  <1>1. TypeOK'
    BY DEF IInv, TypeOK, States, Outcomes, PCs
  <1>2. ControlInv'
    BY DEF IInv, ControlInv
  <1>3. IdsInv'
    BY DEF IInv, TypeOK, ControlInv, IdsInv, DecisionInv
  <1>4. DecisionInv'
    BY DEF IInv, DecisionInv
  <1>5. ProgressInv'
    BY DEF IInv, TypeOK, None, ControlInv, DecisionInv, ProgressInv
  <1>6. EligibleIsDurable'
    BY DEF IInv, EligibleIsDurable, Up, Accepted, TypeOK
  <1>7. DeliveryInv'
    BY DEF IInv, DeliveryInv, Terminal, TERMINAL_STATES, ControlInv
  <1>8. CandidatesInv'
    BY DEF IInv, IdsInv, Up, Accepted, CandidatesInv
  <1> QED BY <1>1, <1>2, <1>3, <1>4, <1>5, <1>6, <1>7, <1>8 DEF IInv

\* The events that close an attempt (_run_attempt,
\* _record_interrupted_attempt).
LEMMA CompleteAttemptStep == ASSUME IInv, CompleteAttempt PROVE IInv'
  <1> USE DEF CompleteAttempt, Transition, Fail, bundle, memory, Emit
  <1>1. TypeOK'
    BY ParametersAssumption DEF IInv, TypeOK, States, PCs, TERMINAL_STATES
  <1>2. ControlInv'
    BY DEF IInv, ControlInv, TERMINAL_STATES, Deciding
  <1>3. IdsInv'
    BY DEF IInv, TypeOK, None, Attempts, ControlInv, IdsInv, DecisionInv,
       ProgressInv, Current
  <1>4. DecisionInv'
    BY DEF IInv, DecisionInv, ControlInv
  <1>5. ProgressInv'
    BY DEF IInv, ProgressInv, Current
  <1>6. EligibleIsDurable'
    BY DEF IInv, EligibleIsDurable, Up, Accepted
  <1>7. DeliveryInv'
    BY DEF IInv, DeliveryInv, Terminal, Up, TERMINAL_STATES, ControlInv
  <1>8. CandidatesInv'
    BY DEF IInv, Up, Accepted, CandidatesInv
  <1> QED BY <1>1, <1>2, <1>3, <1>4, <1>5, <1>6, <1>7, <1>8 DEF IInv

\* An empty patch is rejected, anything else is verified (_run_attempt).
LEMMA AfterCompletionStep == ASSUME IInv, AfterCompletion PROVE IInv'
  <1> USE DEF AfterCompletion, Current, Cancelled, Judge, Continue, Transition,
     memory, Emit
  <1>1. TypeOK'
    BY ParametersAssumption DEF IInv, TypeOK, States, None, Verdicts, PCs,
       TERMINAL_STATES
  <1>2. ControlInv'
    BY DEF IInv, ControlInv, TERMINAL_STATES
  <1>3. IdsInv'
    BY DEF IInv, TypeOK, ControlInv, Deciding, IdsInv, ProgressInv
  <1>4. DecisionInv'
    BY DEF IInv, DecisionInv, ControlInv
  <1>5. ProgressInv'
    BY DEF IInv, ProgressInv, ControlInv
  <1>6. EligibleIsDurable'
    BY DEF IInv, TypeOK, ProgressInv, EligibleIsDurable, Up, Accepted
  <1>7. DeliveryInv'
    BY DEF IInv, DeliveryInv, Terminal, Up, TERMINAL_STATES, ControlInv
  <1>8. CandidatesInv'
    BY DEF IInv, TypeOK, Up, Accepted, CandidatesInv
  <1> QED BY <1>1, <1>2, <1>3, <1>4, <1>5, <1>6, <1>7, <1>8 DEF IInv

\* The event that rejects an empty patch (_run_attempt).
LEMMA RejectEmptyStep == ASSUME IInv, RejectEmpty PROVE IInv'
  <1> USE DEF RejectEmpty, Transition, bundle, memory, Emit
  <1>1. TypeOK'
    BY ParametersAssumption DEF IInv, TypeOK, States, PCs
  <1>2. ControlInv'
    BY DEF IInv, ControlInv, TERMINAL_STATES, Deciding, TypeOK
  <1>3. IdsInv'
    BY DEF IInv, TypeOK, None, Attempts, ControlInv, IdsInv, DecisionInv,
       ProgressInv, Current
  <1>4. DecisionInv'
    BY DEF IInv, DecisionInv, TypeOK
  <1>5. ProgressInv'
    BY DEF IInv, ProgressInv, TypeOK
  <1>6. EligibleIsDurable'
    BY DEF IInv, EligibleIsDurable, Up, Accepted
  <1>7. DeliveryInv'
    BY DEF IInv, DeliveryInv, Terminal, TERMINAL_STATES, TypeOK, ControlInv
  <1>8. CandidatesInv'
    BY DEF IInv, Up, Accepted, CandidatesInv
  <1> QED BY <1>1, <1>2, <1>3, <1>4, <1>5, <1>6, <1>7, <1>8 DEF IInv

\* The verification is written for a recorded attempt (_verify_attempt).
LEMMA VerifyStep == ASSUME IInv, Verify PROVE IInv'
  <1> USE DEF Verify, Possible, Current, Judge, Continue, Fail, memory,
     Transition, Emit
  <1>1. TypeOK'
    <2>1. log' \in States /\ snap' \in States /\ pc' \in PCs /\ crashes' \in 0 .. MaxCrashes
      BY ParametersAssumption DEF IInv, TypeOK, States, TERMINAL_STATES, PCs
    <2>2. ASSUME NEW v \in Verdicts, Judge(v)
          PROVE  verdict' \in [Attempts -> Verdicts \cup {"none"}]
      BY <2>2 DEF IInv, TypeOK
    <2>3. \A v \in Possible(Current) : v \in Verdicts
      BY DEF Verdicts
    <2>4. verdict' \in [Attempts -> Verdicts \cup {"none"}]
      BY <2>2, <2>3 DEF IInv, TypeOK
    <2> QED BY <2>1, <2>4 DEF IInv, TypeOK
  <1>2. ControlInv'
    BY DEF IInv, ControlInv, TERMINAL_STATES
  <1>3. IdsInv'
    BY DEF IInv, TypeOK, ControlInv, IdsInv, DecisionInv, ProgressInv
  <1>4. DecisionInv'
    BY DEF IInv, DecisionInv, ControlInv
  <1>5. ProgressInv'
    BY DEF IInv, TypeOK, None, ControlInv, DecisionInv, ProgressInv
  <1>6. EligibleIsDurable'
    BY DEF IInv, TypeOK, ProgressInv, EligibleIsDurable, Up, Accepted
  <1>7. DeliveryInv'
    BY DEF IInv, DeliveryInv, Terminal, Up, ControlInv
  <1>8. CandidatesInv'
    BY DEF IInv, TypeOK, ControlInv, Up, Accepted, CandidatesInv
  <1> QED BY <1>1, <1>2, <1>3, <1>4, <1>5, <1>6, <1>7, <1>8 DEF IInv

\* The event that reports the verification (_verify_attempt).
LEMMA CompleteVerificationStep == ASSUME IInv, CompleteVerification PROVE IInv'
  <1> USE DEF CompleteVerification, Transition, bundle, memory, Emit
  <1>1. TypeOK'
    BY ParametersAssumption DEF IInv, TypeOK, States, PCs
  <1>2. ControlInv'
    BY DEF IInv, ControlInv, TERMINAL_STATES
  <1>3. IdsInv'
    BY DEF IInv, TypeOK, None, Attempts, ControlInv, IdsInv, DecisionInv,
       ProgressInv, Current
  <1>4. DecisionInv'
    BY DEF IInv, DecisionInv, ControlInv
  <1>5. ProgressInv'
    BY DEF IInv, ProgressInv, Current
  <1>6. EligibleIsDurable'
    BY DEF IInv, EligibleIsDurable, Up, Accepted
  <1>7. DeliveryInv'
    BY DEF IInv, DeliveryInv, Terminal, TERMINAL_STATES, ControlInv
  <1>8. CandidatesInv'
    BY DEF IInv, Current, Up, Accepted, CandidatesInv
  <1> QED BY <1>1, <1>2, <1>3, <1>4, <1>5, <1>6, <1>7, <1>8 DEF IInv

\* An accepted candidate becomes eligible, any other is rejected
\* (_verify_attempt).
LEMMA AfterVerificationStep == ASSUME IInv, AfterVerification PROVE IInv'
  <1> USE DEF AfterVerification, Cancelled, Current, Transition, bundle, Emit
  <1>1. TypeOK'
    <2>1. log' \in States /\ snap' \in States /\ pc' \in PCs /\ crashes' \in 0 .. MaxCrashes
      BY ParametersAssumption DEF IInv, TypeOK, States, TERMINAL_STATES, PCs
    <2>2. Current \in Attempts
      BY DEF IInv, TypeOK, DecisionInv
    <2>3. eligible' \in SUBSET Attempts
      BY <2>2 DEF IInv, TypeOK
    <2> QED BY <2>1, <2>3 DEF IInv, TypeOK
  <1>2. ControlInv'
    BY DEF IInv, ControlInv, TERMINAL_STATES, Deciding, TypeOK
  <1>3. IdsInv'
    BY DEF IInv, IdsInv, Deciding, TypeOK, ControlInv
  <1>4. DecisionInv'
    BY DEF IInv, DecisionInv, TypeOK
  <1>5. ProgressInv'
    BY DEF IInv, ProgressInv, TypeOK
  <1>6. EligibleIsDurable'
    <2>1. Accepted' = Accepted
      BY DEF Accepted
    <2>2. Current \in Attempts /\ recorded[Current] # "none"
      BY DEF IInv, TypeOK, DecisionInv, IdsInv, ProgressInv
    <2>3. eligible' \subseteq Accepted
      BY <2>2 DEF IInv, EligibleIsDurable, Accepted, Up
    <2> QED BY <2>1, <2>3 DEF EligibleIsDurable
  <1>7. DeliveryInv'
    BY DEF IInv, DeliveryInv, Terminal, Up, TERMINAL_STATES, TypeOK, ControlInv
  <1>8. CandidatesInv'
    BY DEF IInv, Up, Accepted, CandidatesInv
  <1> QED BY <1>1, <1>2, <1>3, <1>4, <1>5, <1>6, <1>7, <1>8 DEF IInv

\* The stop rule at the end of a round (_apply_reliability_stop).
LEMMA AfterAttemptStep == ASSUME IInv, AfterAttempt PROVE IInv'
  <1> USE DEF AfterAttempt, Cancelled, Continue, StartSelection,
     TransitionOrFail, bundle, memory, Transition, Fail, Emit
  <1>1. TypeOK'
    BY ParametersAssumption DEF IInv, TypeOK, States, PCs, TERMINAL_STATES
  <1>2. ControlInv'
    BY DEF IInv, ControlInv, TERMINAL_STATES, Deciding
  <1>3. IdsInv'
    BY DEF IInv, IdsInv, Deciding
  <1>4. DecisionInv'
    BY DEF IInv, DecisionInv
  <1>5. ProgressInv'
    BY DEF IInv, ProgressInv, Current
  <1>6. EligibleIsDurable'
    BY DEF IInv, EligibleIsDurable, Up, Accepted
  <1>7. DeliveryInv'
    BY DEF IInv, DeliveryInv, Terminal, Up, TERMINAL_STATES, ControlInv
  <1>8. CandidatesInv'
    BY DEF IInv, Up, Accepted, CandidatesInv
  <1> QED BY <1>1, <1>2, <1>3, <1>4, <1>5, <1>6, <1>7, <1>8 DEF IInv

\* Only an eligible candidate is selected (_select_and_materialize).
LEMMA SelectStep == ASSUME IInv, Select PROVE IInv'
  <1> USE DEF Select, Continue, Fail, memory, Transition, Emit
  <1>1. TypeOK'
    <2>1. log' \in States /\ snap' \in States /\ pc' \in PCs /\ crashes' \in 0 .. MaxCrashes
      BY ParametersAssumption DEF IInv, TypeOK, States, TERMINAL_STATES, PCs
    <2>2. selection' \in {None} \cup Attempts
      BY DEF IInv, TypeOK
    <2> QED BY <2>1, <2>2 DEF IInv, TypeOK
  <1>2. ControlInv'
    BY DEF IInv, ControlInv, TERMINAL_STATES
  <1>3. IdsInv'
    BY DEF IInv, IdsInv, Deciding
  <1>4. DecisionInv'
    BY DEF IInv, DecisionInv
  <1>5. ProgressInv'
    BY DEF IInv, ProgressInv, Current
  <1>6. EligibleIsDurable'
    BY DEF IInv, EligibleIsDurable, Up, Accepted
  <1>7. DeliveryInv'
    <2>1. CASE selection' \in eligible /\ Continue("selected")
      <3>1. /\ selection' \in Attempts /\ verdict[selection'] = "accepted"
            /\ recorded[selection'] # "none"
        BY <2>1 DEF IInv, EligibleIsDurable, Accepted, Up
      <3>2. log' = "SELECTING" /\ log = "SELECTING"
        BY <2>1 DEF IInv, ControlInv
      <3> QED
        BY <2>1, <3>1, <3>2 DEF IInv, DeliveryInv, Up, Terminal, None, Attempts
    <2>2. CASE Fail /\ UNCHANGED selection
      BY <2>2 DEF IInv, DeliveryInv, Up
    <2> QED BY <2>1, <2>2
  <1>8. CandidatesInv'
    BY DEF IInv, Up, Accepted, CandidatesInv
  <1> QED BY <1>1, <1>2, <1>3, <1>4, <1>5, <1>6, <1>7, <1>8 DEF IInv

\* Delivery starts for the selection on disk (_select_and_materialize).
LEMMA StartMaterializationStep == ASSUME IInv, StartMaterialization PROVE IInv'
  <1> USE DEF StartMaterialization, Transition, bundle, memory, Emit
  <1>1. TypeOK'
    BY ParametersAssumption DEF IInv, TypeOK, States, PCs
  <1>2. ControlInv'
    BY DEF IInv, ControlInv, TERMINAL_STATES
  <1>3. IdsInv'
    BY DEF IInv, IdsInv, Deciding
  <1>4. DecisionInv'
    BY DEF IInv, DecisionInv
  <1>5. ProgressInv'
    BY DEF ProgressInv
  <1>6. EligibleIsDurable'
    BY DEF IInv, EligibleIsDurable, Up, Accepted
  <1>7. DeliveryInv'
    BY DEF IInv, DeliveryInv, Terminal, TERMINAL_STATES, TypeOK, ControlInv
  <1>8. CandidatesInv'
    BY DEF IInv, Up, Accepted, CandidatesInv
  <1> QED BY <1>1, <1>2, <1>3, <1>4, <1>5, <1>6, <1>7, <1>8 DEF IInv

\* The patch is applied to a target that does not hold it
\* (PatchMaterializerAdapter.materialize).
LEMMA MaterializeStep == ASSUME IInv, Materialize PROVE IInv'
  <1> USE DEF Materialize, Continue, memory
  <1>1. TypeOK'
    BY DEF IInv, TypeOK, Actions, PCs
  <1>2. ControlInv'
    BY DEF IInv, ControlInv
  <1>3. IdsInv'
    BY DEF IInv, IdsInv
  <1>4. DecisionInv'
    BY DEF IInv, DecisionInv
  <1>5. ProgressInv'
    BY DEF IInv, ProgressInv, Current
  <1>6. EligibleIsDurable'
    BY DEF IInv, EligibleIsDurable, Up, Accepted
  <1>7. DeliveryInv'
    BY DEF IInv, TypeOK, ControlInv, Up, DeliveryInv, Terminal
  <1>8. CandidatesInv'
    BY DEF IInv, Up, Accepted, CandidatesInv
  <1> QED BY <1>1, <1>2, <1>3, <1>4, <1>5, <1>6, <1>7, <1>8 DEF IInv

\* materialization.json follows the applied patch (_persist_materialization).
LEMMA RecordMaterializationStep == ASSUME IInv, RecordMaterialization PROVE IInv'
  <1> USE DEF RecordMaterialization, Continue, memory
  <1>1. TypeOK'
    BY DEF IInv, TypeOK, PCs
  <1>2. ControlInv'
    BY DEF IInv, ControlInv
  <1>3. IdsInv'
    BY DEF IInv, IdsInv
  <1>4. DecisionInv'
    BY DEF IInv, DecisionInv
  <1>5. ProgressInv'
    BY DEF IInv, ProgressInv, Current
  <1>6. EligibleIsDurable'
    BY DEF IInv, EligibleIsDurable, Up, Accepted
  <1>7. DeliveryInv'
    BY DEF IInv, DeliveryInv, Terminal, TERMINAL_STATES, ControlInv
  <1>8. CandidatesInv'
    BY DEF IInv, Up, Accepted, CandidatesInv
  <1> QED BY <1>1, <1>2, <1>3, <1>4, <1>5, <1>6, <1>7, <1>8 DEF IInv

\* The last transition of a delivery (_finish_recovered_materialization).
LEMMA FinishStep == ASSUME IInv, Finish PROVE IInv'
  <1> USE DEF Finish, Transition, Fail, bundle, memory, Emit
  <1>1. TypeOK'
    BY ParametersAssumption DEF IInv, TypeOK, States, PCs, TERMINAL_STATES
  <1>2. ControlInv'
    BY DEF IInv, ControlInv, TERMINAL_STATES
  <1>3. IdsInv'
    BY DEF IInv, IdsInv, Deciding
  <1>4. DecisionInv'
    BY DEF IInv, DecisionInv
  <1>5. ProgressInv'
    BY DEF ProgressInv
  <1>6. EligibleIsDurable'
    BY DEF EligibleIsDurable, Up
  <1>7. DeliveryInv'
    BY DEF IInv, DeliveryInv, Up, TERMINAL_STATES
  <1>8. CandidatesInv'
    BY DEF Up, CandidatesInv
  <1> QED BY <1>1, <1>2, <1>3, <1>4, <1>5, <1>6, <1>7, <1>8 DEF IInv

\* Recovery of a run that has only been created (_reconcile_and_continue).
LEMMA RestartClassificationStep == ASSUME IInv, RestartClassification PROVE IInv'
  <1> USE DEF RestartClassification, Transition, bundle, memory, Emit
  <1>1. TypeOK'
    BY ParametersAssumption DEF IInv, TypeOK, States, PCs
  <1>2. ControlInv'
    BY DEF IInv, ControlInv, TERMINAL_STATES
  <1>3. IdsInv'
    BY DEF IInv, IdsInv, ControlInv
  <1>4. DecisionInv'
    BY DEF IInv, DecisionInv
  <1>5. ProgressInv'
    BY DEF ProgressInv
  <1>6. EligibleIsDurable'
    BY DEF IInv, EligibleIsDurable, Up, Accepted
  <1>7. DeliveryInv'
    BY DEF IInv, DeliveryInv, Terminal, TERMINAL_STATES, ControlInv
  <1>8. CandidatesInv'
    BY DEF IInv, Up, Accepted, CandidatesInv
  <1> QED BY <1>1, <1>2, <1>3, <1>4, <1>5, <1>6, <1>7, <1>8 DEF IInv

\* A lost attempt is recorded as interrupted (_record_interrupted_attempt).
LEMMA RecordInterruptedStep == ASSUME IInv, RecordInterrupted PROVE IInv'
  <1> USE DEF RecordInterrupted, Record, Continue, memory, Current
  <1>1. TypeOK'
    BY DEF IInv, TypeOK, None, Outcomes, PCs, ControlInv, DecisionInv
  <1>2. ControlInv'
    BY DEF IInv, ControlInv
  <1>3. IdsInv'
    BY DEF IInv, IdsInv, ControlInv, DecisionInv
  <1>4. DecisionInv'
    BY DEF IInv, DecisionInv
  <1>5. ProgressInv'
    BY DEF IInv, TypeOK, None, ControlInv, DecisionInv, ProgressInv
  <1>6. EligibleIsDurable'
    BY DEF IInv, EligibleIsDurable, Up, Accepted
  <1>7. DeliveryInv'
    BY DEF IInv, DeliveryInv, Terminal, Up
  <1>8. CandidatesInv'
    BY DEF IInv, ProgressInv, Up, Accepted, CandidatesInv
  <1> QED BY <1>1, <1>2, <1>3, <1>4, <1>5, <1>6, <1>7, <1>8 DEF IInv

\* Recovery of a completed attempt goes to its verification
\* (_resume_verification).
LEMMA RecheckStep == ASSUME IInv, Recheck PROVE IInv'
  <1> USE DEF Recheck, Transition, VerificationStep, bundle, memory, Emit,
     Current
  <1>1. TypeOK'
    BY ParametersAssumption DEF IInv, TypeOK, States, PCs
  <1>2. ControlInv'
    BY DEF IInv, ControlInv, TERMINAL_STATES
  <1>3. IdsInv'
    BY DEF IInv, IdsInv, Deciding
  <1>4. DecisionInv'
    BY DEF IInv, DecisionInv, ControlInv
  <1>5. ProgressInv'
    BY DEF IInv, ProgressInv, ControlInv
  <1>6. EligibleIsDurable'
    BY DEF IInv, EligibleIsDurable, Up, Accepted
  <1>7. DeliveryInv'
    BY DEF IInv, DeliveryInv, Terminal, TERMINAL_STATES, ControlInv
  <1>8. CandidatesInv'
    BY DEF IInv, Up, Accepted, CandidatesInv
  <1> QED BY <1>1, <1>2, <1>3, <1>4, <1>5, <1>6, <1>7, <1>8 DEF IInv

\* Recovery finds out whether the patch is in the target
\* (_resume_materialization).
LEMMA InspectTargetStep == ASSUME IInv, InspectTarget PROVE IInv'
  <1> USE DEF InspectTarget, Continue, Fail, bundle, memory, Transition, Emit
  <1>1. TypeOK'
    BY ParametersAssumption DEF IInv, TypeOK, States, Actions, PCs,
       TERMINAL_STATES
  <1>2. ControlInv'
    BY DEF IInv, ControlInv, TERMINAL_STATES
  <1>3. IdsInv'
    BY DEF IInv, IdsInv, Deciding
  <1>4. DecisionInv'
    BY DEF IInv, DecisionInv
  <1>5. ProgressInv'
    BY DEF IInv, ProgressInv, Current
  <1>6. EligibleIsDurable'
    BY DEF IInv, EligibleIsDurable, Up, Accepted
  <1>7. DeliveryInv'
    BY DEF IInv, DeliveryInv, Terminal, Up, TERMINAL_STATES, TypeOK, ControlInv
  <1>8. CandidatesInv'
    BY DEF IInv, Up, Accepted, CandidatesInv
  <1> QED BY <1>1, <1>2, <1>3, <1>4, <1>5, <1>6, <1>7, <1>8 DEF IInv

\* Recovery of an interrupted escalation fails the run
\* (_reconcile_and_continue).
LEMMA UnsupportedRecoveryStep == ASSUME IInv, UnsupportedRecovery PROVE IInv'
  <1> USE DEF UnsupportedRecovery, Fail, bundle, memory, Transition, Emit
  <1>1. TypeOK'
    BY ParametersAssumption DEF IInv, TypeOK, States, PCs, TERMINAL_STATES
  <1>2. ControlInv'
    BY DEF IInv, ControlInv, TERMINAL_STATES
  <1>3. IdsInv'
    BY DEF IInv, IdsInv, Deciding
  <1>4. DecisionInv'
    BY DEF IInv, DecisionInv
  <1>5. ProgressInv'
    BY DEF ProgressInv
  <1>6. EligibleIsDurable'
    BY DEF EligibleIsDurable, Up
  <1>7. DeliveryInv'
    BY DEF IInv, DeliveryInv, Up, TERMINAL_STATES
  <1>8. CandidatesInv'
    BY DEF Up, CandidatesInv
  <1> QED BY <1>1, <1>2, <1>3, <1>4, <1>5, <1>6, <1>7, <1>8 DEF IInv

\* Recovery rebuilds its memory from the bundle (_load_recovery_runtime).
LEMMA ResumeStep == ASSUME IInv, Resume PROVE IInv'
  <1> USE DEF Resume, Up, Terminal, Accepted, RecoveryStep, bundle,
     TERMINAL_STATES, Attempts, Current, VerificationStep, None
  <1>1. TypeOK'
    <2>1. log' \in States /\ snap' \in States /\ pc' \in PCs /\ crashes' \in 0 .. MaxCrashes
      BY DEF IInv, TypeOK, PCs, RecoveryPCs
    <2>2. session' \in {"run", "resume"} /\ eligible' \in SUBSET Attempts
      BY DEF Accepted
    <2>3. then' \in {"attempted", "ask"} /\ cancelRequested' \in BOOLEAN
      OBVIOUS
    <2> QED BY <2>1, <2>2, <2>3 DEF IInv, TypeOK
  <1>2. ControlInv'
    BY DEF IInv, ControlInv, Deciding, TypeOK, States
  <1>3. IdsInv'
    BY DEF IInv, IdsInv
  <1>4. DecisionInv'
    BY DEF IInv, DecisionInv
  <1>5. ProgressInv'
    BY DEF IInv, ProgressInv
  <1>6. EligibleIsDurable'
    BY DEF EligibleIsDurable
  <1>7. DeliveryInv'
    BY DEF IInv, DeliveryInv, TypeOK
  <1>8. CandidatesInv'
    BY DEF CandidatesInv
  <1> QED BY <1>1, <1>2, <1>3, <1>4, <1>5, <1>6, <1>7, <1>8 DEF IInv

\* Recovery brings the snapshot of a finished run up to date (resume).
LEMMA ResumeTerminalStep == ASSUME IInv, ResumeTerminal PROVE IInv'
  <1> USE DEF ResumeTerminal, Up, Terminal, bundle, memory, TERMINAL_STATES
  <1>1. TypeOK'
    BY DEF IInv, TypeOK, PCs
  <1>2. ControlInv'
    BY DEF ControlInv
  <1>3. IdsInv'
    BY DEF IInv, IdsInv
  <1>4. DecisionInv'
    BY DEF IInv, DecisionInv
  <1>5. ProgressInv'
    BY DEF ProgressInv
  <1>6. EligibleIsDurable'
    BY DEF EligibleIsDurable
  <1>7. DeliveryInv'
    BY DEF IInv, DeliveryInv
  <1>8. CandidatesInv'
    BY DEF IInv, Accepted, CandidatesInv
  <1> QED BY <1>1, <1>2, <1>3, <1>4, <1>5, <1>6, <1>7, <1>8 DEF IInv

\* A crash keeps the bundle, and may leave the target half patched.
LEMMA CrashStep == ASSUME IInv, Crash PROVE IInv'
  <1> USE DEF Crash, Up, memory
  <1>1. TypeOK'
    <2>1. log' \in States /\ snap' \in States /\ pc' \in PCs /\ crashes' \in 0 .. MaxCrashes
      BY ParametersAssumption DEF IInv, TypeOK, PCs
    <2>2. torn' \in BOOLEAN
      BY DEF IInv, TypeOK
    <2> QED BY <2>1, <2>2 DEF IInv, TypeOK
  <1>2. ControlInv'
    BY DEF IInv, ControlInv
  <1>3. IdsInv'
    BY DEF IInv, IdsInv
  <1>4. DecisionInv'
    BY DEF IInv, DecisionInv
  <1>5. ProgressInv'
    BY DEF IInv, ProgressInv, Current
  <1>6. EligibleIsDurable'
    BY DEF EligibleIsDurable
  <1>7. DeliveryInv'
    BY DEF IInv, DeliveryInv, Terminal, Attempts, None, TERMINAL_STATES,
       ControlInv, Deciding
  <1>8. CandidatesInv'
    BY DEF IInv, Accepted, CandidatesInv
  <1> QED BY <1>1, <1>2, <1>3, <1>4, <1>5, <1>6, <1>7, <1>8 DEF IInv

\* A request for cancellation changes nothing but its flag.
LEMMA RequestCancelStep == ASSUME IInv, RequestCancel PROVE IInv'
  <1> USE DEF RequestCancel, Up, bundle
  <1>1. TypeOK'
    BY DEF IInv, TypeOK
  <1>2. ControlInv'
    BY DEF IInv, ControlInv
  <1>3. IdsInv'
    BY DEF IInv, IdsInv
  <1>4. DecisionInv'
    BY DEF IInv, DecisionInv
  <1>5. ProgressInv'
    BY DEF IInv, ProgressInv, Current
  <1>6. EligibleIsDurable'
    BY DEF IInv, EligibleIsDurable, Accepted
  <1>7. DeliveryInv'
    BY DEF IInv, DeliveryInv, Terminal
  <1>8. CandidatesInv'
    BY DEF IInv, Current, Accepted, CandidatesInv
  <1> QED BY <1>1, <1>2, <1>3, <1>4, <1>5, <1>6, <1>7, <1>8 DEF IInv

\* A run is cancelled where the transition table allows it (cancel).
LEMMA CancelPersistedStep == ASSUME IInv, CancelPersisted PROVE IInv'
  <1> USE DEF CancelPersisted, Up, Transition, bundle, memory,
     ALLOWED_TRANSITIONS, Emit, States, TERMINAL_STATES
  <1>1. TypeOK'
    BY ParametersAssumption DEF IInv, TypeOK, PCs
  <1>2. ControlInv'
    BY DEF IInv, ControlInv
  <1>3. IdsInv'
    BY DEF IInv, IdsInv, Deciding
  <1>4. DecisionInv'
    BY DEF IInv, DecisionInv
  <1>5. ProgressInv'
    BY DEF ProgressInv
  <1>6. EligibleIsDurable'
    BY DEF EligibleIsDurable
  <1>7. DeliveryInv'
    BY DEF IInv, DeliveryInv
  <1>8. CandidatesInv'
    BY DEF CandidatesInv
  <1> QED BY <1>1, <1>2, <1>3, <1>4, <1>5, <1>6, <1>7, <1>8 DEF IInv
-----------------------------------------------------------------------------
\* A run that has just been created satisfies the invariant
\* (_initialize_bundle).
LEMMA Initially == Init => IInv
  <1> SUFFICES ASSUME Init PROVE IInv
    OBVIOUS
  <1>1. TypeOK
    <2>1. /\ log \in States /\ snap \in States /\ pc \in PCs
          /\ crashes \in 0 .. MaxCrashes
      BY ParametersAssumption DEF Init, States, PCs
    <2>2. /\ classification \in BOOLEAN
          /\ allocated \in {None} \cup Attempts /\ selection \in {None} \cup Attempts
          /\ started \in SUBSET Attempts /\ eligible \in SUBSET Attempts
      BY DEF Init
    <2>3. decision \in [action : Actions \cup {"none"}, attempt : {None} \cup Attempts,
                        logged : BOOLEAN]
      BY DEF Init
    <2>4. /\ recorded \in [Attempts -> Outcomes \cup {"none"}]
          /\ verdict \in [Attempts -> Verdicts \cup {"none"}]
          /\ applied \in [Attempts -> Nat]
      BY DEF Init
    <2> QED BY <2>1, <2>2, <2>3, <2>4 DEF Init, TypeOK
  <1>2. ControlInv
    BY DEF Init, ControlInv, TERMINAL_STATES
  <1>3. IdsInv /\ DecisionInv
    BY DEF Init, IdsInv, DecisionInv, None, AttemptActions, Attempts, Deciding
  <1>4. ProgressInv
    BY DEF Init, ProgressInv
  <1>5. EligibleIsDurable /\ CandidatesInv
    BY DEF Init, EligibleIsDurable, CandidatesInv, Accepted
  <1>6. DeliveryInv
    BY DEF Init, DeliveryInv, Terminal, TERMINAL_STATES, None
  <1> QED BY <1>1, <1>2, <1>3, <1>4, <1>5, <1>6 DEF IInv

\* The invariant depends on the variables only.
LEMMA Stuttering == ASSUME IInv, UNCHANGED vars PROVE IInv'
  <1>1. TypeOK' /\ ControlInv'
    BY DEF IInv, TypeOK, ControlInv, vars, bundle, memory
  <1>2. IdsInv' /\ DecisionInv' /\ ProgressInv'
    BY DEF IInv, IdsInv, DecisionInv, ProgressInv, Current, vars, bundle, memory
  <1>3. EligibleIsDurable' /\ CandidatesInv' /\ DeliveryInv'
    BY DEF IInv, EligibleIsDurable, CandidatesInv, DeliveryInv, Accepted, Current, Up,
       Terminal, vars, bundle, memory
  <1> QED BY <1>1, <1>2, <1>3 DEF IInv

\* Every step of the controller, of recovery, of cancellation and of the
\* environment keeps the invariant (run, resume, cancel).
LEMMA Inductive == ASSUME IInv, [Next]_vars PROVE IInv'
  <1>1. CASE ControllerStep
    BY <1>1, StartRunStep, ClassifyStep, CompleteClassificationStep,
       AskPolicyStep, RecordPolicyStep, RerecordPolicyStep, ReusePolicyStep,
       ActOnDecisionStep, RunAttemptStep, CompleteAttemptStep,
       AfterCompletionStep, RejectEmptyStep, VerifyStep,
       CompleteVerificationStep, AfterVerificationStep, AfterAttemptStep,
       SelectStep, StartMaterializationStep, MaterializeStep,
       RecordMaterializationStep, FinishStep, RestartClassificationStep,
       RecordInterruptedStep, RecheckStep, InspectTargetStep,
       UnsupportedRecoveryStep DEF ControllerStep
  <1>2. CASE Resume \/ ResumeTerminal
    BY <1>2, ResumeStep, ResumeTerminalStep
  <1>3. CASE Crash \/ RequestCancel \/ CancelPersisted
    BY <1>3, CrashStep, RequestCancelStep, CancelPersistedStep
  <1>4. CASE UNCHANGED vars
    BY <1>4, Stuttering
  <1> QED BY <1>1, <1>2, <1>3, <1>4 DEF Next

\* The invariant that everything below rests on: how the program counter, the
\* log and the bundle agree in every reachable state (run, resume, cancel).
THEOREM InvariantHolds == Spec => []IInv
  BY Initially, Inductive, PTL DEF Spec
-----------------------------------------------------------------------------
\* Every variable keeps its type, and no attempt id exceeds the budget by more
\* than the one an escalation may still hand out (_next_attempt_id).
THEOREM TypeCorrect == Spec => []TypeOK
  <1>1. IInv => TypeOK
    BY DEF IInv
  <1> QED BY <1>1, InvariantHolds, PTL

\* The patch in the target is the selected, accepted candidate's, applied once,
\* however often the run crashed and was resumed (materialize, resume).
THEOREM PatchAppliedOnce == Spec => []AppliedOnce
  <1>1. IInv => AppliedOnce
    BY DEF IInv, DeliveryInv, AppliedOnce, TypeOK, Attempts, None
  <1> QED BY <1>1, InvariantHolds, PTL

\* A run that reports success has delivered its patch whole
\* (_finish_recovered_materialization).
THEOREM SuccessIsDelivered == Spec => []CompletedMeansApplied
  <1>1. IInv => CompletedMeansApplied
    BY DEF IInv, DeliveryInv, CompletedMeansApplied
  <1> QED BY <1>1, InvariantHolds, PTL

\* A cancelled or exhausted run has left the target alone (_cancel, _exhaust).
THEOREM StoppedIsUntouched == Spec => []StoppedMeansUntouched
  <1>1. IInv => StoppedMeansUntouched
    BY DEF IInv, DeliveryInv, StoppedMeansUntouched
  <1> QED BY <1>1, InvariantHolds, PTL

\* What is eligible in memory can be rebuilt from the bundle after a crash
\* (_load_recovery_runtime).
THEOREM CandidatesAreDurable == Spec => []EligibleIsDurable
  <1>1. IInv => EligibleIsDurable
    BY DEF IInv
  <1> QED BY <1>1, InvariantHolds, PTL

\* No crash makes the controller give up while an accepted candidate is on disk
\* (_drive, _exhaust).
THEOREM NothingAcceptedIsLost == Spec => []ExhaustedMeansNothingAccepted
  <1>1. IInv => ExhaustedMeansNothingAccepted
    BY DEF IInv, CandidatesInv, ExhaustedMeansNothingAccepted
  <1> QED BY <1>1, InvariantHolds, PTL
-----------------------------------------------------------------------------
\* An attempt is never run twice: only ActOnDecision starts one, and the decision
\* it carries out names an attempt that has not been started (_drive,
\* _next_attempt_id, _record_interrupted_attempt).
THEOREM AttemptsRunOnce == Spec => NeverRunTwice
  <1>1. ASSUME IInv, [Next]_vars, log' = "ATTEMPT_RUNNING", log # log'
        PROVE  decision.attempt \notin started
    <2>1. CASE ActOnDecision
      BY <1>1, <2>1 DEF ActOnDecision, IInv, ControlInv, DecisionInv, Deciding,
         AttemptActions, Cancelled, Fail, StartSelection, TransitionOrFail, Transition, Emit
    <2>2. CASE StartRun \/ Classify \/ CompleteClassification \/ RestartClassification
      BY <1>1, <2>2 DEF StartRun, Classify, CompleteClassification,
         RestartClassification, Cancelled, Fail, Transition, Emit, Continue
    <2>3. CASE AskPolicy \/ RecordPolicy \/ RerecordPolicy \/ ReusePolicy
      BY <1>1, <2>3 DEF AskPolicy, RecordPolicy, RerecordPolicy, ReusePolicy,
         RecordDecision, Cancelled, Fail, Transition, Emit, Continue
    <2>4. CASE RunAttempt \/ CompleteAttempt \/ AfterCompletion \/ RejectEmpty
      BY <1>1, <2>4 DEF RunAttempt, CompleteAttempt, AfterCompletion, RejectEmpty,
         Cancelled, Fail, Transition, Emit, Continue
    <2>5. CASE Verify \/ CompleteVerification \/ AfterVerification \/ AfterAttempt
      BY <1>1, <2>5 DEF Verify, CompleteVerification, AfterVerification, AfterAttempt,
         StartSelection, TransitionOrFail, Cancelled, Fail, Transition, Emit, Continue
    <2>6. CASE \/ Select \/ StartMaterialization \/ Materialize
               \/ RecordMaterialization \/ Finish
      BY <1>1, <2>6 DEF Select, StartMaterialization, Materialize,
         RecordMaterialization, Finish, Fail, Transition, Emit, Continue
    <2>7. CASE RecordInterrupted \/ Recheck \/ InspectTarget \/ UnsupportedRecovery
      BY <1>1, <2>7 DEF RecordInterrupted, Recheck, InspectTarget, UnsupportedRecovery,
         Fail, Transition, Emit, Continue
    <2>8. CASE \/ Resume \/ ResumeTerminal \/ Crash \/ RequestCancel \/ CancelPersisted
               \/ UNCHANGED vars
      BY <1>1, <2>8 DEF Resume, ResumeTerminal, Crash, RequestCancel, CancelPersisted,
         Transition, Emit, vars
    <2> QED BY <1>1, <2>1, <2>2, <2>3, <2>4, <2>5, <2>6, <2>7, <2>8
            DEF Next, ControllerStep
  <1>2. IInv /\ [Next]_vars =>
          [log' = "ATTEMPT_RUNNING" /\ log # log' => decision.attempt \notin started]_vars
    BY <1>1
  <1> QED BY <1>2, InvariantHolds, PTL DEF Spec, NeverRunTwice

\* Evidence stays: no step changes the outcome of an attempt, an
\* accepted verification or the selection (_persist_attempt, _verify_attempt,
\* _select_and_materialize, _resume_verification).
THEOREM EvidenceStays == Spec => EvidenceIsFinal
  <1> DEFINE Stays ==
        /\ \A a \in Attempts : /\ recorded[a] # "none" => recorded'[a] = recorded[a]
                               /\ verdict[a] = "accepted" => verdict'[a] = "accepted"
        /\ selection # None => selection' = selection
  <1>1. ASSUME IInv, [Next]_vars PROVE Stays
    <2>1. CASE RunAttempt \/ RecordInterrupted
      BY <1>1, <2>1 DEF RunAttempt, RecordInterrupted, Record, Current, IInv, TypeOK,
         ProgressInv
    <2>2. CASE AfterCompletion
      BY <1>1, <2>2 DEF AfterCompletion, Judge, Current, IInv, TypeOK, ProgressInv
    <2>3. CASE Verify
      BY <1>1, <2>3 DEF Verify, Judge, Current, IInv, TypeOK, ProgressInv
    <2>4. CASE Select
      BY <1>1, <2>4 DEF Select, IInv, DeliveryInv
    <2>5. CASE StartRun \/ Classify \/ CompleteClassification \/ RestartClassification
      BY <2>5 DEF StartRun, Classify, CompleteClassification, RestartClassification, bundle
    <2>6. CASE AskPolicy \/ RecordPolicy \/ RerecordPolicy \/ ReusePolicy \/ ActOnDecision
      BY <2>6 DEF AskPolicy, RecordPolicy, RerecordPolicy, ReusePolicy, RecordDecision,
         ActOnDecision, bundle
    <2>7. CASE \/ CompleteAttempt \/ RejectEmpty \/ CompleteVerification
               \/ AfterVerification \/ AfterAttempt
      BY <2>7 DEF CompleteAttempt, RejectEmpty, CompleteVerification, AfterVerification,
         AfterAttempt, bundle
    <2>8. CASE \/ StartMaterialization \/ Materialize \/ RecordMaterialization \/ Finish
               \/ Recheck \/ InspectTarget \/ UnsupportedRecovery
      BY <2>8 DEF StartMaterialization, Materialize, RecordMaterialization, Finish,
         Recheck, InspectTarget, UnsupportedRecovery, bundle
    <2>9. CASE \/ Resume \/ ResumeTerminal \/ Crash \/ RequestCancel \/ CancelPersisted
               \/ UNCHANGED vars
      BY <2>9 DEF Resume, ResumeTerminal, Crash, RequestCancel, CancelPersisted, bundle, vars
    <2> QED BY <1>1, <2>1, <2>2, <2>3, <2>4, <2>5, <2>6, <2>7, <2>8, <2>9
            DEF Next, ControllerStep
  <1>2. IInv /\ [Next]_vars => [Stays]_vars
    BY <1>1
  <1> QED BY <1>2, InvariantHolds, PTL DEF Spec, EvidenceIsFinal

\* No step of the controller, of resume or of cancel leaves a terminal state, be it the
\* log's or the snapshot's (run, resume, cancel).
LEMMA OverIsOver ==
    ASSUME IInv, [Next]_vars, Terminal \/ snap \in TERMINAL_STATES
    PROVE  log' = log
  <1>1. Terminal /\ ~Up
    BY DEF IInv, ControlInv, DeliveryInv, Terminal
  <1>2. CASE ControllerStep
    <2>1. pc # "down" /\ pc # "returned"
      BY <1>2 DEF ControllerStep, StartRun, Classify, CompleteClassification, AskPolicy,
         RecordPolicy, RerecordPolicy, RecordDecision, ReusePolicy, ActOnDecision,
         RunAttempt, CompleteAttempt, AfterCompletion, RejectEmpty, Verify,
         CompleteVerification, AfterVerification, AfterAttempt, Select,
         StartMaterialization, Materialize, RecordMaterialization, Finish,
         RestartClassification, RecordInterrupted, Recheck, InspectTarget,
         UnsupportedRecovery
    <2> QED BY <1>1, <2>1 DEF Up
  <1>3. CASE CancelPersisted
    BY <1>1, <1>3 DEF CancelPersisted, Transition, Terminal, TERMINAL_STATES,
       ALLOWED_TRANSITIONS, States
  <1>4. CASE Resume \/ ResumeTerminal \/ Crash \/ RequestCancel \/ UNCHANGED vars
    BY <1>1, <1>4 DEF Resume, ResumeTerminal, Crash, RequestCancel, vars
  <1> QED BY <1>2, <1>3, <1>4 DEF Next

\* A run that is over, by its log or by its snapshot, stays as it ended: no step
\* of the controller, of resume or of cancel leaves a terminal state.
THEOREM EndIsForever == Spec => TerminalIsFinal
  <1>1. IInv /\ [Next]_vars => [Terminal \/ snap \in TERMINAL_STATES => log' = log]_vars
    BY OverIsOver
  <1> QED BY <1>1, InvariantHolds, PTL DEF Spec, TerminalIsFinal
-----------------------------------------------------------------------------
(* The promise of RunLifecycle *)

\* The step accepts nobody and leaves the target alone.
Silent == Accepted' = Accepted /\ applied' = applied /\ torn' = torn

\* Nobody has been delivered while no patch is in the target (materialize).
LEMMA NobodyDelivered ==
    ASSUME \A a \in Attempts : applied[a] = 0
    PROVE  DeliveredCandidate = None
  BY DEF DeliveredCandidate

\* The delivered candidate is the selected one, once its patch is in the target.
LEMMA SelectionDelivered ==
    ASSUME IInv, selection # None, applied[selection] = 1
    PROVE  DeliveredCandidate = selection
  <1>1. selection \in Attempts
    BY DEF IInv, TypeOK
  <1>2. \A a \in Attempts : applied[a] > 0 => a = selection
    BY DEF IInv, DeliveryInv
  <1> QED BY <1>1, <1>2 DEF DeliveredCandidate

\* A patch is in the target exactly when the selected one is (materialize, resume).
LEMMA DeliveredMeansApplied ==
    ASSUME IInv
    PROVE  \/ (\A a \in Attempts : applied[a] = 0) /\ DeliveredCandidate = None
           \/ /\ selection \in Attempts /\ applied[selection] = 1
              /\ DeliveredCandidate = selection
  <1>1. \A a \in Attempts : applied[a] \in Nat
    BY DEF IInv, TypeOK
  <1>2. CASE \A a \in Attempts : applied[a] = 0
    BY <1>2, NobodyDelivered
  <1>3. ASSUME NEW a \in Attempts, applied[a] # 0
        PROVE  /\ selection \in Attempts /\ applied[selection] = 1
               /\ DeliveredCandidate = selection
    <2>1. a = selection /\ applied[a] = 1
      BY <1>1, <1>3 DEF IInv, DeliveryInv
    <2> QED BY <2>1, <1>3, SelectionDelivered DEF Attempts, None
  <1> QED BY <1>2, <1>3

\* What is delivered depends on the target alone, not on the process.
LEMMA DeliveredStays ==
    ASSUME applied' = applied PROVE DeliveredCandidate' = DeliveredCandidate
  BY DEF DeliveredCandidate
-----------------------------------------------------------------------------
(* Which steps are silent *)

\* Recording a run of an attempt, by the runner or by recovery, accepts nobody: the
\* attempt has no verification yet (_persist_attempt, _record_interrupted_attempt).
LEMMA RecordingIsSilent ==
    ASSUME IInv, RunAttempt \/ RecordInterrupted PROVE Silent
  <1>1. verdict[Current] = "none" /\ verdict' = verdict
    BY DEF RunAttempt, RecordInterrupted, IInv, ProgressInv
  <1>2. \A a \in Attempts : a # Current => recorded'[a] = recorded[a]
    BY DEF RunAttempt, RecordInterrupted, Record, Current, IInv, TypeOK
  <1>3. Accepted' = Accepted
    BY <1>1, <1>2 DEF Accepted
  <1> QED BY <1>3 DEF Silent, RunAttempt, RecordInterrupted

\* A rejection without a verifier accepts nobody (_verify_attempt).
LEMMA RejectingIsSilent ==
    ASSUME IInv, AfterCompletion PROVE Silent
  <1>1. recorded' = recorded /\ verdict[Current] = "none"
    BY DEF AfterCompletion, IInv, ProgressInv
  <1>2. verdict' = verdict \/ verdict' = [verdict EXCEPT ![Current] = "rejected"]
    BY DEF AfterCompletion, Judge, Current
  <1>3. \A a \in Attempts : verdict'[a] = "accepted" <=> verdict[a] = "accepted"
    BY <1>1, <1>2 DEF IInv, TypeOK
  <1>4. Accepted' = Accepted
    BY <1>1, <1>3 DEF Accepted
  <1> QED BY <1>4 DEF Silent, AfterCompletion

\* A step that leaves the records of the attempts and the target alone is silent.
LEMMA UnchangedIsSilent ==
    ASSUME UNCHANGED <<recorded, verdict, applied, torn>> PROVE Silent
  BY DEF Silent, Accepted

\* Only the verifier, the materializer and a crash do what the owner can see.
LEMMA OthersAreSilent ==
    ASSUME IInv, [Next]_vars, ~Verify, ~Materialize, ~Crash PROVE Silent
  <1>1. CASE RunAttempt \/ RecordInterrupted
    BY <1>1, RecordingIsSilent
  <1>2. CASE AfterCompletion
    BY <1>2, RejectingIsSilent
  <1>3. CASE StartRun \/ Classify \/ CompleteClassification \/ RestartClassification
    BY <1>3, UnchangedIsSilent DEF StartRun, Classify, CompleteClassification,
       RestartClassification, bundle
  <1>4. CASE AskPolicy \/ RecordPolicy \/ RerecordPolicy \/ ReusePolicy \/ ActOnDecision
    BY <1>4, UnchangedIsSilent DEF AskPolicy, RecordPolicy, RerecordPolicy, ReusePolicy,
       RecordDecision, ActOnDecision, bundle
  <1>5. CASE \/ CompleteAttempt \/ RejectEmpty \/ CompleteVerification
             \/ AfterVerification \/ AfterAttempt
    BY <1>5, UnchangedIsSilent DEF CompleteAttempt, RejectEmpty, CompleteVerification,
       AfterVerification, AfterAttempt, bundle
  <1>6. CASE \/ Select \/ StartMaterialization \/ RecordMaterialization \/ Finish
             \/ Recheck \/ InspectTarget \/ UnsupportedRecovery
    BY <1>6, UnchangedIsSilent DEF Select, StartMaterialization, RecordMaterialization,
       Finish, Recheck, InspectTarget, UnsupportedRecovery, bundle
  <1>7. CASE \/ Resume \/ ResumeTerminal \/ RequestCancel \/ CancelPersisted
             \/ UNCHANGED vars
    BY <1>7, UnchangedIsSilent DEF Resume, ResumeTerminal, RequestCancel, CancelPersisted,
       bundle, vars
  <1> QED BY <1>1, <1>2, <1>3, <1>4, <1>5, <1>6, <1>7 DEF Next, ControllerStep
-----------------------------------------------------------------------------
(* What each step is to the owner of the target *)

StepOfLifecycle == [Lifecycle!LifecycleNext]_(Lifecycle!lifecycle)

\* A silent step closes the run with the truth about the target, or is nothing to its
\* owner at all (_complete, _exhaust, _cancel, _fail).
LEMMA SilentStep ==
    ASSUME IInv, IInv', [Next]_vars, Silent PROVE StepOfLifecycle
  <1>1. /\ DeliveredCandidate' = DeliveredCandidate
        /\ Accepted' = Accepted /\ torn' = torn /\ applied' = applied
    BY DeliveredStays DEF Silent
  <1>2. Terminal => log' = log
    BY OverIsOver
  <1>3. CASE log' = log \/ ~Terminal'
    BY <1>1, <1>2, <1>3 DEF StepOfLifecycle, Lifecycle!lifecycle, Terminal
  <1>4. CASE ~Terminal /\ Terminal'
    <2>1. log' \in Lifecycle!Outcomes
      BY <1>4 DEF Terminal, TERMINAL_STATES, Lifecycle!Outcomes
    <2>2. ASSUME log' = "COMPLETED" PROVE DeliveredCandidate # None /\ ~torn
      <3>1. selection' # None /\ applied'[selection'] = 1 /\ ~torn'
        BY <2>2 DEF IInv, DeliveryInv
      <3>2. selection' \in Attempts
        BY <3>1 DEF IInv, TypeOK
      <3>3. DeliveredCandidate \in Attempts
        BY <1>1, <3>1, <3>2, DeliveredMeansApplied
      <3> QED BY <1>1, <3>1, <3>3 DEF Attempts, None
    <2>3. ASSUME log' \in {"CANCELLED", "EXHAUSTED"}
          PROVE  DeliveredCandidate = None /\ ~torn
      <3>1. ~torn' /\ \A a \in Attempts : applied'[a] = 0
        BY <2>3 DEF IInv, DeliveryInv
      <3> QED BY <1>1, <3>1, NobodyDelivered
    <2>4. log' = "EXHAUSTED" => Accepted = {}
      BY <1>1 DEF IInv, CandidatesInv
    <2>5. Lifecycle!Close(log')
      BY <1>1, <1>4, <2>2, <2>3, <2>4 DEF Lifecycle!Close
    <2> QED BY <2>1, <2>5 DEF StepOfLifecycle, Lifecycle!LifecycleNext
  <1> QED BY <1>2, <1>3, <1>4

\* The verifier accepts the candidate it has just verified, or nobody
\* (_verify_attempt).
LEMMA VerifyIsAccept ==
    ASSUME IInv, IInv', Verify PROVE StepOfLifecycle
  <1>1. /\ pc = "verify" /\ log = "VERIFYING"
        /\ UNCHANGED <<recorded, applied, torn>>
    BY DEF Verify, IInv, ControlInv
  <1>2. /\ ~torn /\ ~Terminal /\ DeliveredCandidate = None
        /\ DeliveredCandidate' = DeliveredCandidate
    BY <1>1, NobodyDelivered, DeliveredStays
    DEF IInv, DeliveryInv, Terminal, TERMINAL_STATES
  <1>3. /\ Current \in Attempts /\ recorded[Current] # "none"
        /\ verdict[Current] # "accepted"
    BY <1>1 DEF IInv, TypeOK, DecisionInv, ProgressInv, Current, IdsInv
  <1>4. CASE UNCHANGED verdict
    <2>1. [Next]_vars
      BY DEF Next, ControllerStep
    <2> QED BY <1>1, <1>4, <2>1, SilentStep, UnchangedIsSilent
  <1>5. ASSUME NEW v \in Possible(Current), Judge(v), Continue("judged")
        PROVE  StepOfLifecycle
    <2>1. log' = log
      BY <1>5 DEF Continue
    <2>2. /\ verdict'[Current] = v
          /\ \A a \in Attempts : a # Current => verdict'[a] = verdict[a]
      BY <1>3, <1>5 DEF Judge, IInv, TypeOK
    <2>3. CASE v = "accepted"
      <3>1. Accepted' = Accepted \cup {Current} /\ Current \notin Accepted
        BY <1>1, <1>3, <2>2, <2>3 DEF Accepted
      <3>2. Lifecycle!Accept(Current)
        BY <1>1, <1>2, <2>1, <3>1 DEF Lifecycle!Accept, Terminal
      <3> QED BY <1>3, <3>2 DEF StepOfLifecycle, Lifecycle!LifecycleNext
    <2>4. CASE v # "accepted"
      <3>1. Accepted' = Accepted
        BY <1>1, <1>3, <2>2, <2>4 DEF Accepted
      <3> QED BY <1>1, <1>2, <2>1, <3>1
              DEF StepOfLifecycle, Lifecycle!lifecycle, Terminal
    <2> QED BY <2>3, <2>4
  <1> QED BY <1>4, <1>5 DEF Verify

\* The materializer delivers the selected candidate, which was accepted, or nobody
\* (_materialize).
LEMMA MaterializeIsDeliver ==
    ASSUME IInv, IInv', Materialize PROVE StepOfLifecycle
  <1>1. /\ pc = "materialize" /\ log = "MATERIALIZING" /\ log' = log
        /\ UNCHANGED <<recorded, verdict, selection, torn>>
    BY DEF Materialize, Continue, IInv, ControlInv
  <1>2. /\ selection \in Accepted /\ selection # None
        /\ applied[selection] = 0 /\ ~torn
    BY <1>1 DEF IInv, TypeOK, DeliveryInv, Accepted
  <1>3. CASE UNCHANGED applied
    <2>1. [Next]_vars
      BY DEF Next, ControllerStep
    <2> QED BY <1>1, <1>3, <2>1, SilentStep, UnchangedIsSilent
  <1>4. CASE applied' = [applied EXCEPT ![selection] = @ + 1]
    <2>1. selection \in Attempts /\ Accepted' = Accepted
      BY <1>1, <1>2 DEF Accepted
    <2>2. DeliveredCandidate = None
      BY <1>2, <2>1, DeliveredMeansApplied
    <2>3. applied'[selection'] = 1
      BY <1>1, <1>2, <1>4, <2>1 DEF IInv, TypeOK
    <2>4. DeliveredCandidate' = selection
      <3>1. \A a \in Attempts : applied'[a] > 0 => a = selection'
        BY DEF IInv, DeliveryInv
      <3> QED BY <1>1, <2>1, <2>3, <3>1 DEF DeliveredCandidate
    <2>5. Lifecycle!Deliver(selection)
      BY <1>1, <1>2, <2>1, <2>2, <2>4
      DEF Lifecycle!Deliver, Terminal, TERMINAL_STATES
    <2> QED BY <2>1, <2>5 DEF StepOfLifecycle, Lifecycle!LifecycleNext
  <1> QED BY <1>3, <1>4 DEF Materialize

\* A crash while git writes an accepted patch may leave a part of it; any other crash
\* is nothing to the owner of the target.
LEMMA CrashIsDamage ==
    ASSUME IInv, IInv', Crash PROVE StepOfLifecycle
  <1>1. UNCHANGED <<log, recorded, verdict, applied>>
    BY DEF Crash
  <1>2. CASE torn' = torn
    <2>1. [Next]_vars
      BY DEF Next
    <2> QED BY <1>1, <1>2, <2>1, SilentStep, UnchangedIsSilent
  <1>3. CASE torn' # torn
    <2>1. pc = "materialize" /\ torn' = TRUE
      BY <1>3 DEF Crash, IInv, TypeOK
    <2>2. /\ log = "MATERIALIZING" /\ selection \in Accepted
          /\ selection \in Attempts /\ applied[selection] = 0
      BY <2>1 DEF IInv, TypeOK, ControlInv, DeliveryInv, Accepted
    <2>3. DeliveredCandidate = None /\ DeliveredCandidate' = DeliveredCandidate
      BY <1>1, <2>2, DeliveredMeansApplied, DeliveredStays
    <2>4. Accepted' = Accepted
      BY <1>1 DEF Accepted
    <2>5. Lifecycle!Damage
      BY <1>1, <2>1, <2>2, <2>3, <2>4 DEF Lifecycle!Damage, Terminal, TERMINAL_STATES
    <2> QED BY <2>5 DEF StepOfLifecycle, Lifecycle!LifecycleNext
  <1> QED BY <1>2, <1>3

\* Every step of a run is a step of its promise, or none (run, resume, cancel).
LEMMA StepIsOfLifecycle ==
    ASSUME IInv, IInv', [Next]_vars PROVE StepOfLifecycle
  <1>1. CASE Verify \/ Materialize \/ Crash
    BY <1>1, VerifyIsAccept, MaterializeIsDeliver, CrashIsDamage
  <1>2. CASE ~Verify /\ ~Materialize /\ ~Crash
    BY <1>2, OthersAreSilent, SilentStep
  <1> QED BY <1>1, <1>2

\* A new run has accepted and delivered nothing (_initialize_bundle).
LEMMA BeginsOpen == Init => Lifecycle!LifecycleInit
  <1> SUFFICES ASSUME Init PROVE Lifecycle!LifecycleInit
    OBVIOUS
  <1>1. Accepted = {} /\ \A a \in Attempts : applied[a] = 0
    BY DEF Init, Accepted
  <1>2. DeliveredCandidate = None
    BY <1>1, NobodyDelivered
  <1> QED BY <1>1, <1>2 DEF Init, Lifecycle!LifecycleInit, Terminal, TERMINAL_STATES
-----------------------------------------------------------------------------
\* The controller keeps the promise of RunLifecycle: one accepted candidate at most is
\* delivered, once, and the run closes with the truth about the target, whatever
\* crashes, recoveries and cancellations come in between.
THEOREM KeepsLifecycle == Spec => ImplementsLifecycle
  <1>1. Init => Lifecycle!LifecycleInit
    BY BeginsOpen
  <1>2. IInv /\ IInv' /\ [Next]_vars => [Lifecycle!LifecycleNext]_(Lifecycle!lifecycle)
    BY StepIsOfLifecycle DEF StepOfLifecycle
  <1> QED BY <1>1, <1>2, InvariantHolds, PTL
          DEF Spec, ImplementsLifecycle, Lifecycle!LifecycleSpec
===============================================================================
