------------------------ MODULE EffectGatewayProofs ------------------------
(***************************************************************************)
(* What EffectGateway guarantees to every set of processes and keys.       *)
(***************************************************************************)
EXTENDS EffectGateway, SemanticStoreProofs, FiniteSetTheorems

-----------------------------------------------------------------------------
(* Any caller.                                                             *)

\* The gateway under any caller: whatever the order in which keys are handed
\* to it, whatever turn they are said to be of, however often, and also if a
\* process starts a call while another one of its own is not over.
AnyNext ==
  Underway \/ \E p \in Process, k \in Key, t \in Nat : StartCall(p, k, t)

AnyCaller == Init /\ [][AnyNext]_vars

-----------------------------------------------------------------------------
(* The gateway reaches the store only through its transactions.            *)

\* The key an idle process shows is a key.
LEMMA IdleKeyIsKey == IdleKey \in Key
  BY KeyAssumption DEF IdleKey

\* The transitions the gateway asks for, as steps of the store.
LEMMA TransitionIsStoreStep ==
  ASSUME NEW p \in Process, NEW k \in Key, NEW source,
         NEW target \in JournalStates \ {"COMMITTED"}, NEW outcome \in Outcomes,
         JournalTransition(p, k, source, target, outcome)
  PROVE  StoreNext
<1>1. source = journal[k].state
  BY DEF JournalTransition, TransitionAccepted
<1>2. JournalTransition(p, k, journal[k].state, target, outcome)
  BY <1>1
<1>3. QED
  BY <1>2 DEF StoreNext, StoreStep

\* Every step of the gateway is one of the store or leaves it alone.
LEMMA StepUsesStore ==
  ASSUME TypeOK, AnyNext
  PROVE  StoreNext \/ UNCHANGED storeVars
<1> USE DEF JournalStates, NonTerminalStates, TerminalStates, Outcomes
<1>1. key \in [Process -> Key] /\ turn \in [Key -> Nat]
  BY DEF TypeOK
<1>2. ASSUME NEW p \in Process, Load(p) \/ Close(p) \/ Crash(p)
      PROVE  StoreNext
  BY <1>2 DEF Load, Close, Crash, StoreNext, StoreStep
<1>3. ASSUME NEW p \in Process,
             \/ BeginRaced(p) \/ Replay(p) \/ Invoke(p) \/ Reconcile(p)
             \/ AdapterAnswers(p) \/ Raise(p)
      PROVE  UNCHANGED storeVars
  BY <1>3 DEF BeginRaced, Replay, Invoke, Reconcile, AdapterAnswers, Raise
<1>4. ASSUME NEW p \in Process, NEW k \in Key, NEW t \in Nat, StartCall(p, k, t)
      PROVE  UNCHANGED storeVars
  BY <1>4 DEF StartCall
<1>5. ASSUME NEW k \in Key, OperationStarts(k) \/ OperationEnds(k)
      PROVE  UNCHANGED storeVars
  BY <1>5 DEF OperationStarts, OperationEnds
<1>6. ASSUME NEW p \in Process, Begin(p)
      PROVE  StoreNext
  BY <1>1, <1>6 DEF Begin, StoreNext, StoreStep
<1>7. ASSUME NEW p \in Process, PersistNoEffect(p)
      PROVE  StoreNext
  BY <1>1, <1>7, TransitionIsStoreStep DEF PersistNoEffect
<1>8. ASSUME NEW p \in Process, CommitLearning(p)
      PROVE  StoreNext
  BY <1>1, <1>8 DEF CommitLearning, StoreNext, StoreStep
<1>9. ASSUME NEW p \in Process, Authorize(p)
      PROVE  StoreNext
  BY <1>1, <1>9, TransitionIsStoreStep DEF Authorize
<1>10. ASSUME NEW p \in Process, ObserveTrusted(p)
       PROVE  StoreNext
  BY <1>1, <1>10, TransitionIsStoreStep DEF ObserveTrusted
<1>11. ASSUME NEW p \in Process, CommitObservation(p)
       PROVE  StoreNext
  BY <1>1, <1>11 DEF CommitObservation, StoreNext, StoreStep
<1>12. ASSUME NEW p \in Process, FailMissing(p)
       PROVE  StoreNext
  BY <1>1, <1>12, TransitionIsStoreStep DEF FailMissing
<1>13. ASSUME NEW p \in Process, StartInvocation(p)
       PROVE  StoreNext
  BY <1>1, <1>13, TransitionIsStoreStep DEF StartInvocation
<1>14. ASSUME NEW p \in Process, RecordObserved(p)
       PROVE  StoreNext
  BY <1>1, <1>14, TransitionIsStoreStep DEF RecordObserved
<1>15. ASSUME NEW p \in Process, RecordPending(p)
       PROVE  StoreNext
  BY <1>1, <1>15, TransitionIsStoreStep DEF RecordPending
<1>16. ASSUME NEW p \in Process, RecordFailure(p)
       PROVE  StoreNext
  BY <1>1, <1>16, TransitionIsStoreStep DEF RecordFailure
<1>17. QED
  BY <1>2, <1>3, <1>4, <1>5, <1>6, <1>7, <1>8, <1>9, <1>10, <1>11, <1>12,
     <1>13, <1>14, <1>15, <1>16
  DEF AnyNext, Underway, CallStep

-----------------------------------------------------------------------------
(* Types.                                                                  *)

\* The gateway starts in its types and in the invariant of the store.
LEMMA InitTyped == Init => TypeOK /\ StoreInv
<1>1. Init => StoreInv
  BY InitHolds DEF Init
<1>2. StoreInv => StoreTypeOK
  BY DEF StoreInv
<1>3. Init /\ StoreTypeOK => TypeOK
  BY IdleKeyIsKey
  DEF Init, TypeOK, PC, Answers, NoRow, Row, Outcomes
<1>4. QED
  BY <1>1, <1>2, <1>3

\* Types and the invariant of the store go from step to step.
LEMMA NextTyped == TypeOK /\ StoreInv /\ [AnyNext]_vars => TypeOK' /\ StoreInv'
<1> SUFFICES ASSUME TypeOK, StoreInv, [AnyNext]_vars PROVE TypeOK' /\ StoreInv'
  OBVIOUS
<1>1. CASE UNCHANGED vars
  BY <1>1 DEF vars, callVars, worldVars, storeVars, TypeOK, StoreInv, StoreTypeOK,
     CacheBehind, RevisionContinuity, AbsentRowsEmpty, RowsHaveTheirRevision,
     WorldMatchesJournal
<1>2. CASE AnyNext
  <2>1. StoreInv'
    BY <1>2, StepUsesStore, NextKeeps
  <2>2. StoreTypeOK' /\ journal' \in [Key -> Row]
    BY <2>1 DEF StoreInv, StoreTypeOK
  <2>3. /\ pc \in [Process -> PC] /\ key \in [Process -> Key]
        /\ held \in [Process -> Row] /\ answer \in [Process -> Answers]
        /\ adapterUp \in [Process -> BOOLEAN]
        /\ external \in [Key -> {"none", "running", "done", "failed"}]
        /\ turn \in [Key -> Nat] /\ turnIndex \in Nat /\ journal \in [Key -> Row]
        /\ invoked \in [Key -> Nat] /\ told \in [Key -> SUBSET Receipts]
        /\ crashes \in Nat
    BY DEF TypeOK, StoreTypeOK
  <2>4. NoRow \in Row
    BY DEF NoRow, Row, Outcomes
  <2> USE DEF PC, Answers
  <2>5. ASSUME NEW p \in Process, Load(p) \/ Close(p) PROVE TypeOK'
    <3>1. adapterUp' \in [Process -> BOOLEAN]
      <4>1. ASSUME NEW up \in BOOLEAN,
                   adapterUp' = [adapterUp EXCEPT ![p] = up]
            PROVE  adapterUp' \in [Process -> BOOLEAN]
        BY <2>3, <4>1
      <4>2. \E up \in BOOLEAN : adapterUp' = [adapterUp EXCEPT ![p] = up]
        BY <2>5 DEF Load, Close
      <4> QED
        BY <4>1, <4>2
    <3>2. UNCHANGED <<pc, key, held, answer, worldVars>>
      BY <2>5 DEF Load, Close
    <3>3. QED
      BY <2>2, <2>3, <3>1, <3>2 DEF TypeOK, worldVars
  <2>6. ASSUME NEW p \in Process, Crash(p) PROVE TypeOK'
    BY <2>2, <2>3, <2>4, <2>6, IdleKeyIsKey DEF Crash, Forgotten, TypeOK
  <2>7. ASSUME NEW p \in Process,
               \/ BeginRaced(p) \/ Invoke(p) \/ Reconcile(p) \/ AdapterAnswers(p)
        PROVE  TypeOK'
    <3>1. CASE BeginRaced(p)
      BY <2>2, <2>3, <3>1 DEF BeginRaced, Goto, worldVars, TypeOK
    <3>2. CASE Invoke(p)
      BY <2>2, <2>3, <3>2 DEF Invoke, Goto, TypeOK
    <3>3. CASE Reconcile(p)
      BY <2>2, <2>3, <3>3 DEF Reconcile, Goto, worldVars, TypeOK
    <3>4. CASE AdapterAnswers(p)
      <4>1. TruthfulAnswer(external[key[p]]) \in Answers
        BY <2>3 DEF TruthfulAnswer
      <4>2. answer' \in [Process -> Answers]
        BY <2>3, <3>4, <4>1 DEF AdapterAnswers
      <4>3. QED
        BY <2>2, <2>3, <3>4, <4>2 DEF AdapterAnswers, Goto, worldVars, TypeOK
    <3>5. QED
      BY <2>7, <3>1, <3>2, <3>3, <3>4
  <2>8. ASSUME NEW p \in Process, Raise(p) PROVE TypeOK'
    BY <2>2, <2>3, <2>4, <2>8, IdleKeyIsKey DEF Raise, Forgotten, worldVars, TypeOK
  <2>9. ASSUME NEW p \in Process, NEW k \in Key, NEW t \in Nat, StartCall(p, k, t) PROVE TypeOK'
    BY <2>2, <2>3, <2>9 DEF StartCall, TypeOK
  <2>10. ASSUME NEW k \in Key, OperationStarts(k) \/ OperationEnds(k) PROVE TypeOK'
    BY <2>2, <2>3, <2>10 DEF OperationStarts, OperationEnds, callVars, TypeOK
  <2>11. ASSUME NEW p \in Process, NEW where \in PC, Keep(p, where) PROVE TypeOK'
    BY <2>2, <2>3, <2>11 DEF Keep, Goto, worldVars, TypeOK
  <2>12. ASSUME NEW p \in Process, NEW receipt \in Receipts, Return(p, receipt)
         PROVE  TypeOK'
    BY <2>2, <2>3, <2>4, <2>12, IdleKeyIsKey DEF Return, Forgotten, TypeOK
  <2>13. ASSUME NEW p \in Process, RecordObserved(p) PROVE TypeOK'
    BY <2>2, <2>3, <2>13 DEF RecordObserved, Goto, worldVars, TypeOK
  <2>14. ASSUME NEW p \in Process, CallStep(p) PROVE TypeOK'
    <3>1. CASE Begin(p) \/ Authorize(p) \/ ObserveTrusted(p) \/ StartInvocation(p)
      BY <2>11, <3>1 DEF Begin, Authorize, ObserveTrusted, StartInvocation
    <3>2. CASE \/ PersistNoEffect(p) \/ CommitLearning(p) \/ CommitObservation(p)
               \/ FailMissing(p) \/ RecordPending(p) \/ RecordFailure(p)
      BY <2>12, <3>2 DEF PersistNoEffect, CommitLearning, CommitObservation,
         FailMissing, RecordPending, RecordFailure, Receipts, Outcomes
    <3>3. CASE Replay(p)
      <4>1. held[p].outcome \in Receipts
        BY <2>3 DEF Receipts, Row
      <4>2. QED
        BY <2>12, <3>3, <4>1 DEF Replay
    <3>4. QED
      BY <2>7, <2>8, <2>13, <2>14, <3>1, <3>2, <3>3 DEF CallStep
  <2>15. QED
    BY <1>2, <2>1, <2>5, <2>6, <2>9, <2>10, <2>14 DEF AnyNext, Underway
<1>3. QED
  BY <1>1, <1>2

\* Execute names a turn.
LEMMA ExecuteIsCall == TypeOK /\ StoreInv /\ [Next]_vars => [AnyNext]_vars
<1> SUFFICES ASSUME TypeOK, NEW p \in Process, NEW k \in Key, Execute(p, k)
             PROVE  \E t \in Nat : StartCall(p, k, t)
  BY DEF Next, AnyNext
<1>1. (IF turn[k] = 0 THEN turnIndex + 1 ELSE turn[k]) \in Nat
  BY DEF TypeOK, StoreTypeOK
<1> QED
  BY <1>1 DEF Execute

\* Every reachable state is typed, and the store's own invariant holds in it.
THEOREM TypeCorrect == Spec => [](TypeOK /\ StoreInv)
  BY InitTyped, NextTyped, ExecuteIsCall, PTL DEF Spec

\* The callers of Next are callers.
THEOREM CallersOfNext == Spec => AnyCaller
  BY TypeCorrect, ExecuteIsCall, PTL DEF Spec, AnyCaller

\* Types do not depend on who calls.
LEMMA AnyTyped == AnyCaller => [](TypeOK /\ StoreInv)
  BY InitTyped, NextTyped, PTL DEF AnyCaller

\* Every caller reaches the store through its transactions.
LEMMA AnyUsesStore == AnyCaller => StoreSpec
<1>1. Init => StoreInit
  BY DEF Init
<1>2. TypeOK /\ [AnyNext]_vars => [StoreNext]_storeVars
  BY StepUsesStore DEF vars, storeVars
<1>3. QED
  BY <1>1, <1>2, AnyTyped, PTL DEF AnyCaller, StoreSpec

\* The gateway never goes past the store: whatever its processes do is a
\* behaviour of the store's transactions.
THEOREM GatewayUsesStore == Spec => StoreSpec
  BY AnyUsesStore, CallersOfNext, PTL

\* So what holds of the store holds of the gateway's runs: revisions are
\* contiguous, no two rows share one, and facts go with their COMMITTED entry.
THEOREM GatewayStoreConsistent ==
  Spec => [](RevisionContinuity /\ RowsHaveTheirRevision /\ WorldMatchesJournal)
  BY GatewayUsesStore, StoreConsistent, PTL

\* A receipt once stored is the receipt for good, and no process ever moves a
\* revision but from the durable one.
THEOREM GatewayStoreSteps == Spec => TerminalRowsStay /\ CompareAndSwap
  BY GatewayUsesStore, TerminalRowsNeverChange, RevisionsAreCompareAndSwap, PTL

-----------------------------------------------------------------------------
(* Who may call the adapter.                                               *)

\* A process gets to adapter.invoke only by writing INVOCATION_STARTED.
LEMMA OnlyStartLicenses ==
  ASSUME TypeOK, AnyNext, NEW p \in Process, pc'[p] = "invoke"
  PROVE  (pc[p] = "invoke" /\ key'[p] = key[p]) \/ StartInvocation(p)
<1>1. pc \in [Process -> PC] /\ key \in [Process -> Key]
  BY DEF TypeOK
<1>2. ASSUME NEW q \in Process, Load(q) \/ Close(q)
      PROVE  pc[p] = "invoke" /\ key'[p] = key[p]
  BY <1>2 DEF Load, Close
<1>3. ASSUME NEW k \in Key, OperationStarts(k) \/ OperationEnds(k)
      PROVE  pc[p] = "invoke" /\ key'[p] = key[p]
  BY <1>3 DEF OperationStarts, OperationEnds, callVars
<1>4. ASSUME NEW q \in Process, Forgotten(q)
      PROVE  pc[p] = "invoke" /\ key'[p] = key[p]
  BY <1>1, <1>4 DEF Forgotten
<1>5. ASSUME NEW q \in Process, NEW k \in Key, NEW t \in Nat, StartCall(q, k, t)
      PROVE  pc[p] = "invoke" /\ key'[p] = key[p]
  BY <1>1, <1>5 DEF StartCall
<1>6. ASSUME NEW q \in Process, NEW where \in PC \ {"invoke"},
             Goto(q, where), UNCHANGED key
      PROVE  pc[p] = "invoke" /\ key'[p] = key[p]
  BY <1>1, <1>6 DEF Goto
<1>7. ASSUME NEW q \in Process, StartInvocation(q)
      PROVE  (pc[p] = "invoke" /\ key'[p] = key[p]) \/ StartInvocation(p)
  BY <1>1, <1>7 DEF StartInvocation, Keep, Goto
<1>8. ASSUME NEW q \in Process, CallStep(q)
      PROVE  (pc[p] = "invoke" /\ key'[p] = key[p]) \/ StartInvocation(p)
  <2>1. CASE \/ Begin(q) \/ BeginRaced(q) \/ Authorize(q) \/ ObserveTrusted(q)
             \/ Invoke(q) \/ Reconcile(q) \/ AdapterAnswers(q) \/ RecordObserved(q)
    BY <1>6, <2>1
    DEF PC, Begin, BeginRaced, Authorize, ObserveTrusted, Invoke, Reconcile,
        AdapterAnswers, RecordObserved, Keep
  <2>2. CASE \/ Replay(q) \/ PersistNoEffect(q) \/ CommitLearning(q)
             \/ CommitObservation(q) \/ FailMissing(q) \/ RecordPending(q)
             \/ RecordFailure(q) \/ Raise(q)
    BY <1>4, <2>2
    DEF Replay, PersistNoEffect, CommitLearning, CommitObservation, FailMissing,
        RecordPending, RecordFailure, Raise, Return
  <2>3. QED
    BY <1>7, <1>8, <2>1, <2>2 DEF CallStep
<1>9. QED
  BY <1>2, <1>3, <1>4, <1>5, <1>8 DEF AnyNext, Underway, Crash

\* Only adapter.invoke counts an invocation, and leaves the point of the call.
LEMMA OnlyInvokeCounts ==
  ASSUME TypeOK, AnyNext
  PROVE  \/ invoked' = invoked
         \/ \E p \in Process :
              /\ pc[p] = "invoke" /\ pc' = [pc EXCEPT ![p] = "invoking"]
              /\ invoked' = [invoked EXCEPT ![key[p]] = @ + 1]
              /\ UNCHANGED <<journal, key, external>>
<1>1. ASSUME NEW p \in Process, CallStep(p)
      PROVE  Invoke(p) \/ invoked' = invoked
  <2>1. CASE \/ Begin(p) \/ BeginRaced(p) \/ Authorize(p) \/ ObserveTrusted(p)
             \/ StartInvocation(p) \/ Reconcile(p) \/ AdapterAnswers(p)
             \/ RecordObserved(p)
    BY <2>1
    DEF Begin, BeginRaced, Authorize, ObserveTrusted, StartInvocation, Reconcile,
        AdapterAnswers, RecordObserved, Keep, worldVars
  <2>2. CASE \/ Replay(p) \/ PersistNoEffect(p) \/ CommitLearning(p)
             \/ CommitObservation(p) \/ FailMissing(p) \/ RecordPending(p)
             \/ RecordFailure(p) \/ Raise(p)
    BY <2>2
    DEF Replay, PersistNoEffect, CommitLearning, CommitObservation, FailMissing,
        RecordPending, RecordFailure, Raise, Return, worldVars
  <2>3. QED
    BY <1>1, <2>1, <2>2 DEF CallStep
<1>2. ASSUME NEW p \in Process, Load(p) \/ Close(p) \/ Crash(p)
      PROVE  invoked' = invoked
  BY <1>2 DEF Load, Close, Crash, worldVars
<1>3. ASSUME NEW p \in Process, NEW k \in Key, NEW t \in Nat, StartCall(p, k, t)
      PROVE  invoked' = invoked
  BY <1>3 DEF StartCall
<1>4. ASSUME NEW k \in Key, OperationStarts(k) \/ OperationEnds(k)
      PROVE  invoked' = invoked
  BY <1>4 DEF OperationStarts, OperationEnds
<1>5. ASSUME NEW p \in Process, Invoke(p)
      PROVE  /\ pc[p] = "invoke" /\ pc' = [pc EXCEPT ![p] = "invoking"]
             /\ invoked' = [invoked EXCEPT ![key[p]] = @ + 1]
             /\ UNCHANGED <<journal, key, external>>
  BY <1>5 DEF Invoke, Goto, storeVars
<1>6. QED
  BY <1>1, <1>2, <1>3, <1>4, <1>5 DEF AnyNext, Underway
-----------------------------------------------------------------------------
(* The licence to invoke.                                                  *)

\* What attempt_index says of a row: an effect that was ever started is an
\* external one, and is past AUTHORIZED for good.
RowShape ==
  \A k \in Key :
    /\ journal[k].state \in {"ABSENT", "PLANNED", "AUTHORIZED"}
         => journal[k].attempt = 0
    /\ journal[k].state \in {"INVOCATION_STARTED", "PENDING_RECONCILIATION"}
         => journal[k].attempt > 0
    /\ journal[k].attempt > 0 =>
         /\ k \in ExternalKey
         /\ journal[k].state \in {"INVOCATION_STARTED", "PENDING_RECONCILIATION",
                                  "OBSERVED", "COMMITTED", "FAILED"}

\* An effect that was never started has not been invoked, and nobody is about
\* to; whoever is about to invoke is alone and the first.
LicenceHeld ==
  /\ \A k \in Key : journal[k].attempt = 0 => invoked[k] = 0
  /\ \A p \in Process : pc[p] = "invoke" =>
       /\ journal[key[p]].attempt > 0
       /\ invoked[key[p]] = 0
       /\ \A q \in Process \ {p} : ~(pc[q] = "invoke" /\ key[q] = key[p])

LicenceInv == RowShape /\ LicenceHeld /\ AtMostOneInvocation

\* What StartInvocation does.
LEMMA StartWrites ==
  ASSUME TypeOK, NEW p \in Process, StartInvocation(p)
  PROVE  /\ key[p] \in ExternalKey
         /\ journal[key[p]].state = "AUTHORIZED"
         /\ journal'[key[p]].state = "INVOCATION_STARTED"
         /\ journal'[key[p]].attempt = journal[key[p]].attempt + 1
         /\ \A j \in Key \ {key[p]} : journal'[j] = journal[j]
         /\ pc' = [pc EXCEPT ![p] = "invoke"]
         /\ UNCHANGED <<key, invoked, external>>
<1>1. journal \in [Key -> Row] /\ key[p] \in Key
  BY DEF TypeOK, StoreTypeOK
<1>2. JournalTransition(p, key[p], "AUTHORIZED", "INVOCATION_STARTED", "none")
  BY DEF StartInvocation
<1>3. QED
  BY <1>1, <1>2
  DEF StartInvocation, JournalTransition, TransitionAccepted, NextAttempt, Entry,
      Keep, Goto, worldVars

\* Nothing else makes a row started.
LEMMA OnlyStartStarts ==
  ASSUME TypeOK, AnyNext, NEW k \in Key, journal'[k].state = "INVOCATION_STARTED"
  PROVE  \/ journal'[k] = journal[k]
         \/ \E p \in Process : StartInvocation(p) /\ key[p] = k
<1>1. journal \in [Key -> Row] /\ key \in [Process -> Key]
  BY DEF TypeOK, StoreTypeOK
<1>2. ASSUME NEW p \in Process, NEW j \in Key, NEW source, NEW outcome,
             NEW target \in JournalStates \ {"INVOCATION_STARTED"},
             JournalTransition(p, j, source, target, outcome)
      PROVE  journal'[k] = journal[k]
  BY <1>1, <1>2 DEF JournalTransition, Entry
<1>3. ASSUME UNCHANGED storeVars
      PROVE  journal'[k] = journal[k]
  BY <1>3 DEF storeVars
<1>4. ASSUME NEW p \in Process, Load(p) \/ Close(p) \/ Crash(p)
      PROVE  journal'[k] = journal[k]
  BY <1>4 DEF Load, Close, Crash, LoadNext, Forget
<1>5. ASSUME NEW p \in Process, CallStep(p)
      PROVE  journal'[k] = journal[k] \/ (StartInvocation(p) /\ key[p] = k)
  <2> USE DEF JournalStates, NonTerminalStates, TerminalStates
  <2>1. CASE \/ BeginRaced(p) \/ Replay(p) \/ Invoke(p) \/ Reconcile(p)
             \/ AdapterAnswers(p) \/ Raise(p)
    BY <1>3, <2>1 DEF BeginRaced, Replay, Invoke, Reconcile, AdapterAnswers, Raise
  <2>2. CASE Begin(p) \/ CommitLearning(p) \/ CommitObservation(p)
    BY <1>1, <2>2
    DEF Begin, JournalBegin, CommitLearning, CommitLearningOutcome,
        CommitObservation, JournalCommit, Entry
  <2>3. CASE \/ PersistNoEffect(p) \/ Authorize(p) \/ ObserveTrusted(p)
             \/ FailMissing(p)
    BY <1>1, <1>2, <2>3 DEF PersistNoEffect, Authorize, ObserveTrusted, FailMissing
  <2>4. CASE RecordObserved(p) \/ RecordPending(p) \/ RecordFailure(p)
    BY <1>1, <1>2, <2>4 DEF RecordObserved, RecordPending, RecordFailure
  <2>5. CASE StartInvocation(p)
    BY <2>5, StartWrites
  <2>6. QED
    BY <1>5, <2>1, <2>2, <2>3, <2>4, <2>5 DEF CallStep
<1>6. ASSUME NEW p \in Process, NEW j \in Key, NEW t \in Nat, StartCall(p, j, t)
      PROVE  journal'[k] = journal[k]
  BY <1>3, <1>6 DEF StartCall
<1>7. ASSUME NEW j \in Key, OperationStarts(j) \/ OperationEnds(j)
      PROVE  journal'[k] = journal[k]
  BY <1>3, <1>7 DEF OperationStarts, OperationEnds
<1>8. QED
  BY <1>4, <1>5, <1>6, <1>7 DEF AnyNext, Underway

\* Attempts follow the states of a row, and are never taken back.
LEMMA NextKeepsShape ==
  ASSUME TypeOK, StoreInv, RowShape, AnyNext
  PROVE  RowShape' /\ \A k \in Key : journal'[k].attempt >= journal[k].attempt
<1> SUFFICES ASSUME NEW k \in Key
             PROVE  /\ journal'[k].state \in {"ABSENT", "PLANNED", "AUTHORIZED"}
                         => journal'[k].attempt = 0
                    /\ journal'[k].state \in {"INVOCATION_STARTED",
                                              "PENDING_RECONCILIATION"}
                         => journal'[k].attempt > 0
                    /\ journal'[k].attempt > 0 =>
                         /\ k \in ExternalKey
                         /\ journal'[k].state \in
                              {"INVOCATION_STARTED", "PENDING_RECONCILIATION",
                               "OBSERVED", "COMMITTED", "FAILED"}
                    /\ journal'[k].attempt >= journal[k].attempt
  BY DEF RowShape
<1>1. journal[k] \in Row /\ journal[k].attempt \in Nat
  BY DEF TypeOK, StoreTypeOK, Row
<1>2. \/ journal'[k] = journal[k]
      \/ RowBegins(k)
      \/ \E target \in JournalStates : RowMoves(k, target)
  BY StepUsesStore, RowsMoveByTable DEF storeVars
<1>3. CASE journal'[k] = journal[k]
  BY <1>1, <1>3 DEF RowShape
<1>4. CASE RowBegins(k)
  BY <1>1, <1>4 DEF RowBegins, RowShape
<1>5. ASSUME NEW target \in JournalStates, RowMoves(k, target),
             target = "INVOCATION_STARTED"
      PROVE  k \in ExternalKey
  <2>1. journal'[k] # journal[k]
    BY <1>5 DEF RowMoves, Targets
  <2>2. QED
    BY <1>5, <2>1, OnlyStartStarts, StartWrites DEF RowMoves
<1>6. ASSUME NEW target \in JournalStates, RowMoves(k, target)
      PROVE  /\ target \in Targets(journal[k].state)
             /\ journal'[k].state = target
             /\ journal'[k].attempt =
                  IF \/ target = "INVOCATION_STARTED"
                     \/ journal[k].state = "PENDING_RECONCILIATION"
                  THEN journal[k].attempt + 1 ELSE journal[k].attempt
             /\ target = "INVOCATION_STARTED" => k \in ExternalKey
  BY <1>5, <1>6 DEF RowMoves, NextAttempt
<1>7. ASSUME NEW target \in JournalStates, RowMoves(k, target),
             journal[k].state \in {"PLANNED", "AUTHORIZED"}
      PROVE  /\ target \notin {"ABSENT", "PLANNED", "PENDING_RECONCILIATION"}
             /\ journal[k].attempt = 0
  BY <1>6, <1>7 DEF Targets, RowShape
<1>8. ASSUME NEW target \in JournalStates, RowMoves(k, target),
             journal[k].state \notin {"PLANNED", "AUTHORIZED"}
      PROVE  /\ target \in {"PENDING_RECONCILIATION", "OBSERVED", "COMMITTED",
                            "FAILED"}
             /\ target = "PENDING_RECONCILIATION" => journal[k].attempt > 0
             /\ journal[k].attempt > 0 => k \in ExternalKey
             /\ journal[k].state = "PENDING_RECONCILIATION" => journal[k].attempt > 0
  BY <1>6, <1>8 DEF Targets, RowShape
<1>9. QED
  BY <1>1, <1>2, <1>3, <1>4, <1>6, <1>7, <1>8

\* No step makes a second licence to invoke, or a second invocation.
LEMMA NextKeepsLicence ==
  ASSUME TypeOK, StoreInv, LicenceInv, AnyNext
  PROVE  LicenceInv'
<1>1. /\ journal \in [Key -> Row] /\ invoked \in [Key -> Nat]
      /\ key \in [Process -> Key] /\ pc \in [Process -> PC]
      /\ \A k \in Key : journal[k].attempt \in Nat
  BY DEF TypeOK, StoreTypeOK, Row
<1>2. TypeOK' /\ StoreInv'
  BY NextTyped DEF vars
<1>3. /\ journal' \in [Key -> Row] /\ invoked' \in [Key -> Nat]
      /\ key' \in [Process -> Key]
      /\ \A k \in Key : journal'[k].attempt \in Nat
  BY <1>2 DEF TypeOK, StoreTypeOK, Row
<1>4. RowShape' /\ \A k \in Key : journal'[k].attempt >= journal[k].attempt
  BY NextKeepsShape DEF LicenceInv
<1>5. RowShape /\ LicenceHeld /\ AtMostOneInvocation
  BY DEF LicenceInv
<1>6. ASSUME NEW p \in Process, StartInvocation(p) PROVE LicenceInv'
  <2> DEFINE k == key[p]
  <2>1. /\ k \in Key /\ journal[k].attempt = 0 /\ journal'[k].attempt > 0
        /\ pc' = [pc EXCEPT ![p] = "invoke"] /\ UNCHANGED <<key, invoked>>
    BY <1>1, <1>5, <1>6, StartWrites DEF RowShape
  <2>2. /\ invoked[k] = 0
        /\ \A q \in Process : ~(pc[q] = "invoke" /\ key[q] = k)
    BY <1>1, <1>5, <2>1 DEF LicenceHeld
  <2>3. \A j \in Key : journal'[j].attempt = 0 => invoked'[j] = 0
    BY <1>1, <1>3, <1>4, <1>5, <2>1 DEF LicenceHeld
  <2>4. ASSUME NEW r \in Process, pc'[r] = "invoke"
        PROVE  /\ journal'[key'[r]].attempt > 0
               /\ invoked'[key'[r]] = 0
               /\ \A q \in Process \ {r} : ~(pc'[q] = "invoke" /\ key'[q] = key'[r])
    <3>1. CASE r = p
      BY <1>1, <2>1, <2>2, <2>4, <3>1
    <3>2. CASE r # p
      <4>1. pc[r] = "invoke" /\ key[r] # k
        BY <1>1, <2>1, <2>2, <2>4, <3>2
      <4>2. /\ journal[key[r]].attempt > 0 /\ invoked[key[r]] = 0
            /\ \A q \in Process \ {r} : ~(pc[q] = "invoke" /\ key[q] = key[r])
        BY <1>5, <4>1 DEF LicenceHeld
      <4>3. journal'[key[r]].attempt > 0
        BY <1>1, <1>3, <1>4, <4>2
      <4>4. QED
        BY <1>1, <2>1, <4>1, <4>2, <4>3
    <3>3. QED
      BY <3>1, <3>2
  <2>5. QED
    BY <1>4, <1>5, <2>1, <2>3, <2>4 DEF LicenceInv, LicenceHeld, AtMostOneInvocation
<1>7. ASSUME \A p \in Process : ~StartInvocation(p) PROVE LicenceInv'
  <2>1. \A p \in Process : pc'[p] = "invoke" => pc[p] = "invoke" /\ key'[p] = key[p]
    BY <1>7, OnlyStartLicenses
  <2>2. CASE invoked' = invoked
    <3>1. \A j \in Key : journal'[j].attempt = 0 => invoked'[j] = 0
      BY <1>1, <1>3, <1>4, <1>5, <2>2 DEF LicenceHeld
    <3>2. ASSUME NEW r \in Process, pc'[r] = "invoke"
          PROVE  /\ journal'[key'[r]].attempt > 0
                 /\ invoked'[key'[r]] = 0
                 /\ \A q \in Process \ {r} : ~(pc'[q] = "invoke" /\ key'[q] = key'[r])
      <4>1. /\ journal[key[r]].attempt > 0 /\ invoked[key[r]] = 0
            /\ \A q \in Process \ {r} : ~(pc[q] = "invoke" /\ key[q] = key[r])
        BY <1>5, <2>1, <3>2 DEF LicenceHeld
      <4>2. journal'[key[r]].attempt > 0
        BY <1>1, <1>3, <1>4, <4>1
      <4>3. QED
        BY <2>1, <2>2, <3>2, <4>1, <4>2
    <3>3. QED
      BY <1>4, <1>5, <2>2, <3>1, <3>2
      DEF LicenceInv, LicenceHeld, AtMostOneInvocation
  <2>3. ASSUME NEW p \in Process,
               pc[p] = "invoke", pc' = [pc EXCEPT ![p] = "invoking"],
               invoked' = [invoked EXCEPT ![key[p]] = @ + 1],
               UNCHANGED <<journal, key, external>>
        PROVE  LicenceInv'
    <3>1. /\ journal[key[p]].attempt > 0 /\ invoked[key[p]] = 0
          /\ \A q \in Process \ {p} : ~(pc[q] = "invoke" /\ key[q] = key[p])
      BY <1>5, <2>3 DEF LicenceHeld
    <3>2. /\ invoked'[key[p]] = 1
          /\ \A j \in Key \ {key[p]} : invoked'[j] = invoked[j]
      BY <1>1, <2>3, <3>1
    <3>3. \A j \in Key : journal'[j].attempt = 0 => invoked'[j] = 0
      BY <1>1, <1>5, <2>3, <3>1, <3>2 DEF LicenceHeld
    <3>4. \A j \in Key : invoked'[j] <= 1
      BY <1>5, <3>2 DEF AtMostOneInvocation
    <3>5. ASSUME NEW r \in Process, pc'[r] = "invoke"
          PROVE  /\ journal'[key'[r]].attempt > 0
                 /\ invoked'[key'[r]] = 0
                 /\ \A q \in Process \ {r} : ~(pc'[q] = "invoke" /\ key'[q] = key'[r])
      <4>1. r # p /\ pc[r] = "invoke"
        BY <1>1, <2>3, <3>5
      <4>2. key[r] # key[p]
        BY <3>1, <4>1
      <4>3. /\ journal[key[r]].attempt > 0 /\ invoked[key[r]] = 0
            /\ \A q \in Process \ {r} : ~(pc[q] = "invoke" /\ key[q] = key[r])
        BY <1>5, <4>1 DEF LicenceHeld
      <4>4. invoked'[key[r]] = 0
        BY <1>1, <3>2, <4>2, <4>3
      <4>5. QED
        BY <2>1, <2>3, <4>3, <4>4
    <3>6. QED
      BY <1>4, <3>3, <3>4, <3>5 DEF LicenceInv, LicenceHeld, AtMostOneInvocation
  <2>4. QED
    BY <2>2, <2>3, OnlyInvokeCounts
<1>8. QED
  BY <1>6, <1>7

\* Who may call adapter.invoke does not depend on who calls.
LEMMA AnyLicence == AnyCaller => []LicenceInv
<1>1. Init => LicenceInv
  BY KeyAssumption
  DEF Init, StoreInit, NoRow, LicenceInv, RowShape, LicenceHeld, AtMostOneInvocation
<1>2. TypeOK /\ StoreInv /\ LicenceInv /\ [AnyNext]_vars => LicenceInv'
  <2>1. ASSUME LicenceInv, UNCHANGED vars PROVE LicenceInv'
    BY <2>1
    DEF vars, storeVars, callVars, worldVars, LicenceInv, RowShape, LicenceHeld,
        AtMostOneInvocation
  <2>2. QED
    BY <2>1, NextKeepsLicence
<1>3. QED
  BY <1>1, <1>2, AnyTyped, PTL DEF AnyCaller

\* r3_effects.py: who may call adapter.invoke, as an invariant every step keeps:
\* attempts follow states, and a licence to invoke has one holder.
THEOREM LicenceInvariant == Spec => []LicenceInv
  BY AnyLicence, CallersOfNext, PTL

\* One invocation under a journaled licence, whoever calls.
LEMMA AnyOnce ==
  AnyCaller => [](AtMostOneInvocation /\ InvocationLicence /\ InvocationJournaled)
<1>1. TypeOK /\ LicenceInv
        => AtMostOneInvocation /\ InvocationLicence /\ InvocationJournaled
  <2> SUFFICES ASSUME TypeOK, LicenceInv
               PROVE  InvocationLicence /\ InvocationJournaled
    BY DEF LicenceInv
  <2>1. InvocationLicence
    BY DEF LicenceInv, RowShape, LicenceHeld, InvocationLicence
  <2>2. ASSUME NEW k \in Key, invoked[k] > 0 PROVE journal[k].attempt > 0
    <3>1. journal[k].attempt \in Nat /\ invoked[k] \in Nat
      BY DEF TypeOK, StoreTypeOK, Row
    <3>2. QED
      BY <2>2, <3>1 DEF LicenceInv, LicenceHeld
  <2>3. InvocationJournaled
    BY <2>2 DEF LicenceInv, RowShape, InvocationJournaled
  <2>4. QED
    BY <2>1, <2>3
<1>2. QED
  BY <1>1, AnyTyped, AnyLicence, PTL

\* The adapter is asked at most once per effect, by the one process that
\* journaled the start, and never for an effect whose start is not journaled:
\* for every number of processes, keys, crashes and retries.
THEOREM AtMostOnce ==
  Spec => [](AtMostOneInvocation /\ InvocationLicence /\ InvocationJournaled)
  BY AnyOnce, CallersOfNext, PTL

-----------------------------------------------------------------------------
(* What a step writes into the row of its key.                             *)

\* The row of k moves to a state, with an outcome.
Becomes(k, state, outcome) ==
  journal'[k].state = state /\ journal'[k].outcome = outcome

\* The writes of a call of key k: by the adapter's answer ...
RowByAnswer(p, k) ==
  /\ pc[p] = "answered"
  /\ \/ answer[p] = "SUCCEEDED" /\ Becomes(k, "OBSERVED", "none")
     \/ answer[p] = "FAILED" /\ Becomes(k, "FAILED", "failed")
     \/ Becomes(k, "PENDING_RECONCILIATION", "none")

\* ... and without one.
RowWithoutAnswer(k) ==
  \/ Becomes(k, "PLANNED", "none")
  \/ Becomes(k, "AUTHORIZED", "none")
  \/ Becomes(k, "INVOCATION_STARTED", "none")
  \/ k \notin ExternalKey /\ Becomes(k, "OBSERVED", "none")
  \/ k \notin ExternalKey /\ Becomes(k, "NO_EFFECT", "no_effect")
  \/ Becomes(k, "FAILED", "adapter_missing")
  \/ journal[k].state = "OBSERVED" /\ Becomes(k, "COMMITTED", "committed")

\* A call of key k writes its row, and no other.
RowStep(p, k) ==
  /\ key[p] = k
  /\ \A j \in Key \ {k} : journal'[j] = journal[j]
  /\ RowByAnswer(p, k) \/ RowWithoutAnswer(k)

\* A transition writes the row of its key and no other.
LEMMA TransitionWrites ==
  ASSUME TypeOK, NEW p \in Process, NEW k \in Key, NEW source, NEW target,
         NEW outcome, JournalTransition(p, k, source, target, outcome)
  PROVE  /\ \A j \in Key \ {k} : journal'[j] = journal[j]
         /\ Becomes(k, target, outcome)
<1>1. journal \in [Key -> Row]
  BY DEF TypeOK, StoreTypeOK
<1>2. QED
  BY <1>1 DEF JournalTransition, Entry, Becomes

\* A call writes at most the row of its key.
LEMMA CallWritesRow ==
  ASSUME TypeOK, NEW p \in Process, CallStep(p)
  PROVE  UNCHANGED journal \/ RowStep(p, key[p])
<1>1. journal \in [Key -> Row] /\ key[p] \in Key
  BY DEF TypeOK, StoreTypeOK
<1>2. CASE \/ BeginRaced(p) \/ Replay(p) \/ Invoke(p) \/ Reconcile(p)
           \/ AdapterAnswers(p) \/ Raise(p)
  BY <1>2 DEF BeginRaced, Replay, Invoke, Reconcile, AdapterAnswers, Raise, storeVars
<1>3. CASE Begin(p) \/ CommitLearning(p) \/ CommitObservation(p)
  BY <1>1, <1>3, KeyAssumption
  DEF Begin, JournalBegin, CommitLearning, CommitLearningOutcome, CommitObservation,
      JournalCommit, CommitAccepted, Entry, Becomes, RowStep, RowWithoutAnswer
<1>4. CASE PersistNoEffect(p) \/ ObserveTrusted(p)
  BY <1>1, <1>4, TransitionWrites, KeyAssumption
  DEF PersistNoEffect, ObserveTrusted, RowStep, RowWithoutAnswer
<1>5. CASE Authorize(p) \/ FailMissing(p) \/ StartInvocation(p)
  BY <1>1, <1>5, TransitionWrites
  DEF Authorize, FailMissing, StartInvocation, RowStep, RowWithoutAnswer
<1>6. CASE RecordObserved(p) \/ RecordPending(p) \/ RecordFailure(p)
  BY <1>1, <1>6, TransitionWrites
  DEF RecordObserved, RecordPending, RecordFailure, RowStep, RowByAnswer
<1>7. QED
  BY <1>2, <1>3, <1>4, <1>5, <1>6 DEF CallStep

\* Only calls write rows.
LEMMA NextWritesRow ==
  ASSUME TypeOK, AnyNext
  PROVE  \/ UNCHANGED journal
         \/ \E p \in Process : CallStep(p) /\ RowStep(p, key[p])
<1>1. ASSUME NEW p \in Process, Load(p) \/ Close(p) \/ Crash(p)
      PROVE  UNCHANGED journal
  BY <1>1 DEF Load, Close, Crash, LoadNext, Forget
<1>2. ASSUME NEW p \in Process, NEW k \in Key, NEW t \in Nat, StartCall(p, k, t)
      PROVE  UNCHANGED journal
  BY <1>2 DEF StartCall, storeVars
<1>3. ASSUME NEW k \in Key, OperationStarts(k) \/ OperationEnds(k)
      PROVE  UNCHANGED journal
  BY <1>3 DEF OperationStarts, OperationEnds, storeVars
<1>4. QED
  BY <1>1, <1>2, <1>3, CallWritesRow DEF AnyNext, Underway

-----------------------------------------------------------------------------
(* The journal and the outside world.                                      *)

\* The outside world moves on its own, only forward, and only once asked.
LEMMA ExternalSteps ==
  ASSUME TypeOK, AnyNext
  PROVE  \/ UNCHANGED external
         \/ /\ UNCHANGED <<journal, pc, key, answer, invoked>>
            /\ \E k \in Key :
                 /\ \A j \in Key \ {k} : external'[j] = external[j]
                 /\ external[k] \in {"none", "running"}
                 /\ external[k] = "none" => invoked[k] > 0
<1>1. external \in [Key -> {"none", "running", "done", "failed"}]
  BY DEF TypeOK
<1>2. ASSUME NEW p \in Process, Load(p) \/ Close(p) \/ Crash(p)
      PROVE  UNCHANGED external
  BY <1>2 DEF Load, Close, Crash, worldVars
<1>3. ASSUME NEW p \in Process, NEW k \in Key, NEW t \in Nat, StartCall(p, k, t)
      PROVE  UNCHANGED external
  BY <1>3 DEF StartCall
<1>4. ASSUME NEW p \in Process, CallStep(p)
      PROVE  UNCHANGED external
  <2>1. CASE \/ Begin(p) \/ BeginRaced(p) \/ Authorize(p) \/ ObserveTrusted(p)
             \/ StartInvocation(p) \/ Invoke(p) \/ Reconcile(p)
             \/ AdapterAnswers(p) \/ RecordObserved(p)
    BY <2>1
    DEF Begin, BeginRaced, Authorize, ObserveTrusted, StartInvocation, Invoke,
        Reconcile, AdapterAnswers, RecordObserved, Keep, worldVars
  <2>2. CASE \/ Replay(p) \/ PersistNoEffect(p) \/ CommitLearning(p)
             \/ CommitObservation(p) \/ FailMissing(p) \/ RecordPending(p)
             \/ RecordFailure(p) \/ Raise(p)
    BY <2>2
    DEF Replay, PersistNoEffect, CommitLearning, CommitObservation, FailMissing,
        RecordPending, RecordFailure, Raise, Return, worldVars
  <2>3. QED
    BY <1>4, <2>1, <2>2 DEF CallStep
<1>5. ASSUME NEW k \in Key, OperationStarts(k) \/ OperationEnds(k)
      PROVE  /\ UNCHANGED <<journal, pc, key, answer, invoked>>
             /\ \A j \in Key \ {k} : external'[j] = external[j]
             /\ external[k] \in {"none", "running"}
             /\ external[k] = "none" => invoked[k] > 0
  BY <1>1, <1>5 DEF OperationStarts, OperationEnds, storeVars, callVars
<1>6. QED
  BY <1>2, <1>3, <1>4, <1>5 DEF AnyNext, Underway

\* An answer comes from the adapter and stays until the call writes it down.
LEMMA AnswerSteps ==
  ASSUME TypeOK, AnyNext, NEW p \in Process, pc'[p] = "answered"
  PROVE  /\ key'[p] = key[p]
         /\ \/ pc[p] = "answered" /\ answer'[p] = answer[p]
            \/ /\ answer'[p] \in {TruthfulAnswer(external[key[p]]), "EXCEPTION"}
               /\ UNCHANGED external
<1>1. /\ pc \in [Process -> PC] /\ key \in [Process -> Key]
      /\ answer \in [Process -> Answers]
  BY DEF TypeOK
<1> DEFINE Waits == pc[p] = "answered" /\ key'[p] = key[p] /\ answer'[p] = answer[p]
<1>2. ASSUME NEW q \in Process, Load(q) \/ Close(q)
      PROVE  Waits
  BY <1>2 DEF Load, Close
<1>3. ASSUME NEW k \in Key, OperationStarts(k) \/ OperationEnds(k)
      PROVE  Waits
  BY <1>3 DEF OperationStarts, OperationEnds, callVars
<1>4. ASSUME NEW q \in Process, Forgotten(q)
      PROVE  Waits
  BY <1>1, <1>4 DEF Forgotten
<1>5. ASSUME NEW q \in Process, NEW k \in Key, NEW t \in Nat, StartCall(q, k, t)
      PROVE  Waits
  BY <1>1, <1>5 DEF StartCall
<1>6. ASSUME NEW q \in Process, NEW where \in PC \ {"answered"},
             Goto(q, where), UNCHANGED <<key, answer>>
      PROVE  Waits
  BY <1>1, <1>6 DEF Goto
<1>7. ASSUME NEW q \in Process, RecordObserved(q)
      PROVE  Waits
  BY <1>1, <1>7 DEF RecordObserved, Goto
<1>8. ASSUME NEW q \in Process, AdapterAnswers(q)
      PROVE  \/ Waits
             \/ /\ key'[p] = key[p] /\ UNCHANGED external
                /\ answer'[p] \in {TruthfulAnswer(external[key[p]]), "EXCEPTION"}
  <2>1. /\ UNCHANGED <<key, external>> /\ Goto(q, "answered")
        /\ \E a \in {TruthfulAnswer(external[key[q]]), "EXCEPTION"} :
             answer' = [answer EXCEPT ![q] = a]
    BY <1>8 DEF AdapterAnswers, worldVars
  <2>2. CASE q = p
    BY <1>1, <2>1, <2>2
  <2>3. CASE q # p
    BY <1>1, <2>1, <2>3 DEF Goto
  <2>4. QED
    BY <2>2, <2>3
<1>9. ASSUME NEW q \in Process, CallStep(q)
      PROVE  Waits \/ AdapterAnswers(q)
  <2>1. CASE \/ Begin(q) \/ BeginRaced(q) \/ Authorize(q) \/ ObserveTrusted(q)
             \/ StartInvocation(q) \/ Invoke(q) \/ Reconcile(q)
    BY <1>6, <2>1
    DEF PC, Begin, BeginRaced, Authorize, ObserveTrusted, StartInvocation, Invoke,
        Reconcile, Keep
  <2>2. CASE \/ Replay(q) \/ PersistNoEffect(q) \/ CommitLearning(q)
             \/ CommitObservation(q) \/ FailMissing(q) \/ RecordPending(q)
             \/ RecordFailure(q) \/ Raise(q)
    BY <1>4, <2>2
    DEF Replay, PersistNoEffect, CommitLearning, CommitObservation, FailMissing,
        RecordPending, RecordFailure, Raise, Return
  <2>3. QED
    BY <1>7, <1>9, <2>1, <2>2 DEF CallStep
<1>10. QED
  BY <1>2, <1>3, <1>4, <1>5, <1>8, <1>9 DEF AnyNext, Underway, Crash

\* An answer a call has not yet written down is still true, and nothing
\* happens outside that was not asked for.
AnswersTrue ==
  \A p \in Process : pc[p] = "answered" =>
    /\ answer[p] = "SUCCEEDED" => external[key[p]] = "done"
    /\ answer[p] = "FAILED" => external[key[p]] = "failed"

OnlyAsked == \A k \in Key : external[k] # "none" => invoked[k] > 0

TruthInv == JournalTellsTheTruth /\ AnswersTrue /\ OnlyAsked

\* No step makes the journal, or an answer a call holds, untrue.
LEMMA NextKeepsTruth ==
  ASSUME TypeOK, StoreInv, TruthInv, AnyNext
  PROVE  TruthInv'
<1>1. /\ journal \in [Key -> Row] /\ invoked \in [Key -> Nat]
      /\ key \in [Process -> Key]
      /\ external \in [Key -> {"none", "running", "done", "failed"}]
      /\ ExternalKey \subseteq Key
  BY KeyAssumption DEF TypeOK, StoreTypeOK
<1>2. JournalTellsTheTruth /\ AnswersTrue /\ OnlyAsked
  BY DEF TruthInv
<1>3. \A k \in Key : external[k] \in {"done", "failed"} => external'[k] = external[k]
  BY <1>1, ExternalSteps
<1>4. AnswersTrue'
  <2>1. SUFFICES ASSUME NEW p \in Process, pc'[p] = "answered"
                 PROVE  /\ answer'[p] = "SUCCEEDED" => external'[key'[p]] = "done"
                        /\ answer'[p] = "FAILED" => external'[key'[p]] = "failed"
    BY DEF AnswersTrue
  <2>2. key'[p] = key[p] /\ key[p] \in Key
    BY <1>1, <2>1, AnswerSteps
  <2>3. CASE pc[p] = "answered" /\ answer'[p] = answer[p]
    BY <1>2, <1>3, <2>2, <2>3 DEF AnswersTrue
  <2>4. CASE /\ answer'[p] \in {TruthfulAnswer(external[key[p]]), "EXCEPTION"}
             /\ UNCHANGED external
    <3>1. /\ TruthfulAnswer(external[key[p]]) = "SUCCEEDED" => external[key[p]] = "done"
          /\ TruthfulAnswer(external[key[p]]) = "FAILED" => external[key[p]] = "failed"
      BY <1>1, <2>2 DEF TruthfulAnswer
    <3>2. QED
      BY <2>2, <2>4, <3>1
  <2>5. QED
    BY <2>1, <2>3, <2>4, AnswerSteps
<1>5. OnlyAsked'
  <2>1. \A k \in Key : invoked'[k] \in Nat /\ invoked'[k] >= invoked[k]
    BY <1>1, OnlyInvokeCounts
  <2>2. \A k \in Key : external'[k] # "none" => invoked[k] > 0
    BY <1>1, <1>2, ExternalSteps DEF OnlyAsked
  <2>3. QED
    BY <1>1, <2>1, <2>2 DEF OnlyAsked
<1>6. JournalTellsTheTruth'
  <2>1. SUFFICES ASSUME NEW k \in ExternalKey
                 PROVE  /\ journal'[k].state \in {"OBSERVED", "COMMITTED"}
                             => external'[k] = "done"
                        /\ journal'[k].outcome = "failed" => external'[k] = "failed"
    BY DEF JournalTellsTheTruth
  <2>2. /\ journal[k].state \in {"OBSERVED", "COMMITTED"} => external'[k] = "done"
        /\ journal[k].outcome = "failed" => external'[k] = "failed"
    BY <1>1, <1>2, <1>3 DEF JournalTellsTheTruth
  <2>3. CASE journal'[k] = journal[k]
    BY <2>2, <2>3
  <2>4. ASSUME NEW p \in Process, RowStep(p, key[p]), journal'[k] # journal[k]
        PROVE  /\ journal'[k].state \in {"OBSERVED", "COMMITTED"}
                    => external'[k] = "done"
               /\ journal'[k].outcome = "failed" => external'[k] = "failed"
    <3>1. key[p] = k
      BY <1>1, <2>4 DEF RowStep
    <3>2. CASE RowByAnswer(p, k)
      BY <1>1, <1>2, <1>3, <3>1, <3>2 DEF RowByAnswer, Becomes, AnswersTrue
    <3>3. CASE RowWithoutAnswer(k)
      BY <2>2, <3>3 DEF RowWithoutAnswer, Becomes
    <3>4. QED
      BY <2>4, <3>1, <3>2, <3>3 DEF RowStep
  <2>5. QED
    BY <2>3, <2>4, NextWritesRow
<1>7. QED
  BY <1>4, <1>5, <1>6 DEF TruthInv

\* Truth does not depend on who calls.
LEMMA AnyTruth == AnyCaller => []TruthInv
<1>1. Init => TruthInv
  BY KeyAssumption
  DEF Init, StoreInit, NoRow, TruthInv, JournalTellsTheTruth, AnswersTrue, OnlyAsked
<1>2. TypeOK /\ StoreInv /\ TruthInv /\ [AnyNext]_vars => TruthInv'
  <2>1. ASSUME TruthInv, UNCHANGED vars PROVE TruthInv'
    BY <2>1
    DEF vars, storeVars, callVars, worldVars, TruthInv, JournalTellsTheTruth,
        AnswersTrue, OnlyAsked
  <2>2. QED
    BY <2>1, NextKeepsTruth
<1>3. QED
  BY <1>1, <1>2, AnyTyped, PTL DEF AnyCaller

\* r3_effects.py: what a call knows of the outside world, and what the journal
\* says of it, as an invariant every step keeps.
THEOREM TruthInvariant == Spec => []TruthInv
  BY AnyTruth, CallersOfNext, PTL

\* What the journal durably says of an external effect is what happened to it,
\* although the answer it was written from may be long past.
THEOREM JournalTruthful == Spec => []JournalTellsTheTruth
  BY TruthInvariant, PTL DEF TruthInv

-----------------------------------------------------------------------------
(* What callers are told.                                                  *)

\* A call that holds a terminal row holds it as it is.
HeldIsJournal ==
  \A p \in Process : held[p].state \in TerminalStates => held[p] = journal[key[p]]

\* Conclusions are only told of rows that are terminal, as these say.
ToldIsJournal ==
  \A k \in Key : \A r \in told[k] \ {"pending"} :
    journal[k].state \in TerminalStates /\ journal[k].outcome = r

ToldInv == HeldIsJournal /\ ToldIsJournal

\* A row a call holds is the row it read or wrote in this step, or before.
LEMMA HeldSteps ==
  ASSUME TypeOK, AnyNext, NEW p \in Process
  PROVE  \/ held'[p] = NoRow
         \/ held'[p] = journal'[key'[p]]
         \/ held'[p] = held[p] /\ key'[p] = key[p]
<1>1. /\ key \in [Process -> Key] /\ held \in [Process -> Row]
      /\ journal \in [Key -> Row]
  BY DEF TypeOK, StoreTypeOK
<1> DEFINE Holds == \/ held'[p] = NoRow
                    \/ held'[p] = journal'[key'[p]]
                    \/ held'[p] = held[p] /\ key'[p] = key[p]
<1>2. ASSUME UNCHANGED <<key, held>>
      PROVE  Holds
  BY <1>2
<1>3. ASSUME NEW q \in Process, Forgotten(q)
      PROVE  Holds
  BY <1>1, <1>3 DEF Forgotten
<1>4. ASSUME NEW q \in Process, UNCHANGED key,
             held' = [held EXCEPT ![q] = journal'[key[q]]]
      PROVE  Holds
  BY <1>1, <1>4
<1>5. ASSUME NEW q \in Process, NEW k \in Key, NEW t \in Nat, StartCall(q, k, t)
      PROVE  Holds
  BY <1>1, <1>5 DEF StartCall, storeVars
<1>6. ASSUME NEW q \in Process, CallStep(q)
      PROVE  Holds
  <2>1. CASE \/ Begin(q) \/ Authorize(q) \/ ObserveTrusted(q)
             \/ StartInvocation(q) \/ RecordObserved(q)
    BY <1>4, <2>1
    DEF Begin, Authorize, ObserveTrusted, StartInvocation, RecordObserved, Keep
  <2>2. CASE BeginRaced(q)
    BY <1>4, <2>2 DEF BeginRaced, storeVars
  <2>3. CASE Invoke(q) \/ Reconcile(q) \/ AdapterAnswers(q)
    BY <1>2, <2>3 DEF Invoke, Reconcile, AdapterAnswers
  <2>4. CASE \/ Replay(q) \/ PersistNoEffect(q) \/ CommitLearning(q)
             \/ CommitObservation(q) \/ FailMissing(q) \/ RecordPending(q)
             \/ RecordFailure(q) \/ Raise(q)
    BY <1>3, <2>4
    DEF Replay, PersistNoEffect, CommitLearning, CommitObservation, FailMissing,
        RecordPending, RecordFailure, Raise, Return
  <2>5. QED
    BY <1>6, <2>1, <2>2, <2>3, <2>4 DEF CallStep
<1>7. ASSUME NEW q \in Process, Load(q) \/ Close(q)
      PROVE  Holds
  BY <1>2, <1>7 DEF Load, Close
<1>8. ASSUME NEW k \in Key, OperationStarts(k) \/ OperationEnds(k)
      PROVE  Holds
  BY <1>2, <1>8 DEF OperationStarts, OperationEnds, callVars
<1>9. QED
  BY <1>3, <1>5, <1>6, <1>7, <1>8 DEF AnyNext, Underway, Crash

\* A caller is told what the row says after the step, or that it is pending.
LEMMA ToldSteps ==
  ASSUME TypeOK, HeldIsJournal, AnyNext
  PROVE  \/ UNCHANGED told
         \/ \E p \in Process, r \in Receipts :
              /\ told' = [told EXCEPT ![key[p]] = @ \cup {r}]
              /\ \/ r = "pending"
                 \/ /\ journal'[key[p]].state \in TerminalStates
                    /\ journal'[key[p]].outcome = r
<1>1. /\ key \in [Process -> Key] /\ held \in [Process -> Row]
      /\ journal \in [Key -> Row]
  BY DEF TypeOK, StoreTypeOK
<1> DEFINE Told(p, r) == /\ told' = [told EXCEPT ![key[p]] = @ \cup {r}]
                         /\ \/ r = "pending"
                            \/ /\ journal'[key[p]].state \in TerminalStates
                               /\ journal'[key[p]].outcome = r
<1>2. ASSUME NEW p \in Process, CallStep(p)
      PROVE  UNCHANGED told \/ \E r \in Receipts : Told(p, r)
  <2> USE DEF Receipts, Outcomes
  <2>1. CASE \/ Begin(p) \/ BeginRaced(p) \/ Authorize(p) \/ ObserveTrusted(p)
             \/ StartInvocation(p) \/ Invoke(p) \/ Reconcile(p)
             \/ AdapterAnswers(p) \/ RecordObserved(p) \/ Raise(p)
    BY <2>1
    DEF Begin, BeginRaced, Authorize, ObserveTrusted, StartInvocation, Invoke,
        Reconcile, AdapterAnswers, RecordObserved, Raise, Keep, worldVars
  <2>2. CASE Replay(p)
    <3>1. /\ journal'[key[p]] = held[p] /\ held[p].state \in TerminalStates
          /\ told' = [told EXCEPT ![key[p]] = @ \cup {held[p].outcome}]
      BY <2>2 DEF Replay, Running, Return, HeldIsJournal, storeVars
    <3>2. held[p].outcome \in Receipts
      BY <1>1 DEF Row
    <3>3. Told(p, held[p].outcome)
      BY <3>1
    <3>4. QED
      BY <3>2, <3>3
  <2>3. CASE PersistNoEffect(p)
    <3>1. Told(p, "no_effect")
      BY <1>1, <2>3, TransitionWrites
      DEF PersistNoEffect, Return, Becomes, TerminalStates
    <3>2. QED
      BY <3>1
  <2>4. CASE CommitLearning(p)
    <3>1. Told(p, "no_effect")
      BY <1>1, <2>4
      DEF CommitLearning, CommitLearningOutcome, Entry, Return, TerminalStates
    <3>2. QED
      BY <3>1
  <2>5. CASE CommitObservation(p)
    <3>1. Told(p, "committed")
      BY <1>1, <2>5
      DEF CommitObservation, JournalCommit, Entry, Return, TerminalStates
    <3>2. QED
      BY <3>1
  <2>6. CASE FailMissing(p)
    <3>1. Told(p, "adapter_missing")
      BY <1>1, <2>6, TransitionWrites
      DEF FailMissing, Return, Becomes, TerminalStates
    <3>2. QED
      BY <3>1
  <2>7. CASE RecordFailure(p)
    <3>1. Told(p, "failed")
      BY <1>1, <2>7, TransitionWrites
      DEF RecordFailure, Return, Becomes, TerminalStates
    <3>2. QED
      BY <3>1
  <2>8. CASE RecordPending(p)
    <3>1. Told(p, "pending")
      BY <2>8 DEF RecordPending, Return
    <3>2. QED
      BY <3>1
  <2>9. QED
    BY <1>2, <2>1, <2>2, <2>3, <2>4, <2>5, <2>6, <2>7, <2>8 DEF CallStep
<1>3. ASSUME NEW p \in Process, Load(p) \/ Close(p) \/ Crash(p)
      PROVE  UNCHANGED told
  BY <1>3 DEF Load, Close, Crash, worldVars
<1>4. ASSUME NEW p \in Process, NEW k \in Key, NEW t \in Nat, StartCall(p, k, t)
      PROVE  UNCHANGED told
  BY <1>4 DEF StartCall
<1>5. ASSUME NEW k \in Key, OperationStarts(k) \/ OperationEnds(k)
      PROVE  UNCHANGED told
  BY <1>5 DEF OperationStarts, OperationEnds
<1>6. QED
  BY <1>2, <1>3, <1>4, <1>5 DEF AnyNext, Underway

\* No step makes what callers were told differ from the journal.
LEMMA NextKeepsTold ==
  ASSUME TypeOK, StoreInv, ToldInv, AnyNext
  PROVE  ToldInv'
<1>1. /\ key \in [Process -> Key] /\ held \in [Process -> Row]
      /\ journal \in [Key -> Row] /\ told \in [Key -> SUBSET Receipts]
  BY DEF TypeOK, StoreTypeOK
<1>2. HeldIsJournal /\ ToldIsJournal
  BY DEF ToldInv
<1>3. \A k \in Key : journal[k].state \in TerminalStates => journal'[k] = journal[k]
  BY StepUsesStore, StepKeepsTerminalRows DEF storeVars
<1>4. HeldIsJournal'
  <2>1. SUFFICES ASSUME NEW p \in Process, held'[p].state \in TerminalStates
                 PROVE  held'[p] = journal'[key'[p]]
    BY DEF HeldIsJournal
  <2>2. held'[p] # NoRow
    BY <2>1 DEF NoRow, TerminalStates
  <2>3. CASE held'[p] = held[p] /\ key'[p] = key[p]
    BY <1>1, <1>2, <1>3, <2>1, <2>3 DEF HeldIsJournal
  <2>4. QED
    BY <2>2, <2>3, HeldSteps
<1>5. ToldIsJournal'
  <2>1. SUFFICES ASSUME NEW k \in Key, NEW r \in told'[k] \ {"pending"}
                 PROVE  journal'[k].state \in TerminalStates /\ journal'[k].outcome = r
    BY DEF ToldIsJournal
  <2>2. CASE r \in told[k]
    BY <1>2, <1>3, <2>1, <2>2 DEF ToldIsJournal
  <2>3. CASE r \notin told[k]
    BY <1>1, <1>2, <2>1, <2>3, ToldSteps
  <2>4. QED
    BY <2>2, <2>3
<1>6. QED
  BY <1>4, <1>5 DEF ToldInv

\* Whoever calls is told what the journal says.
LEMMA AnyAnswers == AnyCaller => []AnswersAgree
<1>1. Init => ToldInv
  BY DEF Init, ToldInv, HeldIsJournal, ToldIsJournal, NoRow, TerminalStates
<1>2. TypeOK /\ StoreInv /\ ToldInv /\ [AnyNext]_vars => ToldInv'
  <2>1. ASSUME ToldInv, UNCHANGED vars PROVE ToldInv'
    BY <2>1
    DEF vars, storeVars, callVars, worldVars, ToldInv, HeldIsJournal, ToldIsJournal
  <2>2. QED
    BY <2>1, NextKeepsTold
<1>3. ToldInv => AnswersAgree
  BY DEF ToldInv, ToldIsJournal, AnswersAgree
<1>4. QED
  BY <1>1, <1>2, <1>3, AnyTyped, PTL DEF AnyCaller

\* Whoever executes an effect, and however often, never hears two conclusions.
THEOREM AnswersAlwaysAgree == Spec => []AnswersAgree
  BY AnyAnswers, CallersOfNext, PTL

-----------------------------------------------------------------------------
(* The gateway implements EffectPromise.                                   *)

\* EffectPromise's variables, as PromiseKept reads them off this state.
SettledAs == [k \in Key |-> IF Settled(k) THEN journal[k].outcome ELSE "open"]
Licensed == {k \in Key : journal[k].attempt > 0}

\* Only the write of INVOCATION_STARTED takes attempt_index from zero.
LEMMA FirstAttempt ==
  ASSUME TypeOK, StoreInv, RowShape, AnyNext, NEW k \in Key,
         journal[k].attempt = 0, journal'[k].attempt > 0
  PROVE  journal'[k].state = "INVOCATION_STARTED"
<1>1. \E target \in JournalStates : RowMoves(k, target)
  BY StepUsesStore, RowsMoveByTable DEF storeVars, RowBegins
<1>2. journal[k].state # "PENDING_RECONCILIATION"
  BY DEF RowShape
<1>3. QED
  BY <1>1, <1>2 DEF RowMoves, NextAttempt

\* Every step of the gateway is a promised step or a stutter.
LEMMA StepIsPromised ==
  ASSUME TypeOK, StoreInv, LicenceInv, TruthInv, AnyNext
  PROVE  Promise!PromiseNext \/ UNCHANGED Promise!promiseVars
<1>1. /\ journal \in [Key -> Row] /\ invoked \in [Key -> Nat]
      /\ key \in [Process -> Key] /\ \A k \in Key : journal[k].attempt \in Nat
  BY DEF TypeOK, StoreTypeOK, Row
<1>2. TypeOK' /\ StoreInv'
  BY NextTyped DEF vars
<1>3. /\ journal' \in [Key -> Row] /\ \A k \in Key : journal'[k].attempt \in Nat
  BY <1>2 DEF TypeOK, StoreTypeOK, Row
<1>4. /\ worldFacts = {k \in Key : journal[k].state = "COMMITTED"}
      /\ worldFacts' = {k \in Key : journal'[k].state = "COMMITTED"}
  BY <1>2 DEF StoreInv, WorldMatchesJournal
<1>5. RowShape /\ LicenceHeld /\ AtMostOneInvocation
  BY DEF LicenceInv
<1>6. \A k \in Key : journal'[k].attempt >= journal[k].attempt
  BY <1>5, NextKeepsShape
<1>7. \A k \in Key : Settled(k) => journal'[k] = journal[k]
  BY StepUsesStore, StepKeepsTerminalRows DEF storeVars, Settled
<1>8. ASSUME UNCHANGED journal
      PROVE  SettledAs' = SettledAs /\ Licensed' = Licensed /\ worldFacts' = worldFacts
  BY <1>4, <1>8 DEF SettledAs, Licensed, Settled
<1>9. ASSUME NEW p \in Process, pc[p] = "invoke",
             invoked' = [invoked EXCEPT ![key[p]] = @ + 1], UNCHANGED journal
      PROVE  Promise!PromiseNext
  <2>1. journal[key[p]].attempt > 0 /\ invoked[key[p]] = 0 /\ key[p] \in Key
    BY <1>1, <1>5, <1>9 DEF LicenceHeld
  <2>2. invoked' = [invoked EXCEPT ![key[p]] = 1]
    BY <1>1, <1>9, <2>1
  <2>3. Promise!Touch(key[p])
    BY <1>8, <1>9, <2>1, <2>2 DEF Promise!Touch, SettledAs, Licensed
  <2>4. QED
    BY <2>1, <2>3 DEF Promise!PromiseNext
<1>10. ASSUME UNCHANGED invoked, NEW p \in Process, RowStep(p, key[p]),
              ~(UNCHANGED journal)
       PROVE  Promise!PromiseNext \/ UNCHANGED Promise!promiseVars
  <2>1. PICK k \in Key : k = key[p] /\ RowStep(p, k)
                         /\ \A j \in Key \ {k} : journal'[j] = journal[j]
    BY <1>1, <1>10 DEF RowStep
  <2>2. journal'[k] # journal[k]
    BY <1>1, <1>3, <1>10, <2>1
  <2>3. ~Settled(k)
    BY <1>7, <2>1, <2>2
  <2>4. CASE journal'[k].state = "INVOCATION_STARTED"
    <3>1. PICK q \in Process : StartInvocation(q) /\ key[q] = k
      BY <2>1, <2>2, <2>4, OnlyStartStarts
    <3>2. /\ k \in ExternalKey /\ journal[k].state = "AUTHORIZED"
          /\ journal'[k].attempt = journal[k].attempt + 1
      BY <3>1, StartWrites
    <3>3. journal[k].attempt = 0 /\ journal'[k].attempt > 0
      BY <1>5, <2>1, <3>2 DEF RowShape
    <3>4. Licensed' = Licensed \cup {k} /\ k \notin Licensed
      BY <2>1, <3>3 DEF Licensed
    <3>5. SettledAs' = SettledAs /\ SettledAs[k] = "open"
      BY <2>1, <2>3, <2>4 DEF SettledAs, Settled, TerminalStates
    <3>6. worldFacts' = worldFacts
      BY <1>4, <2>1, <2>4, <3>2
    <3>7. Promise!License(k)
      BY <1>10, <3>2, <3>4, <3>5, <3>6 DEF Promise!License, SettledAs, Licensed
    <3>8. QED
      BY <3>7 DEF Promise!PromiseNext
  <2>5. CASE journal'[k].state # "INVOCATION_STARTED"
    <3>1. Licensed' = Licensed
      <4>1. journal'[k].attempt > 0 <=> journal[k].attempt > 0
        BY <1>1, <1>3, <1>5, <1>6, <2>1, <2>5, FirstAttempt
      <4>2. QED
        BY <2>1, <4>1 DEF Licensed
    <3>2. CASE journal'[k].state \notin TerminalStates
      <4>1. SettledAs' = SettledAs
        BY <2>1, <2>3, <3>2 DEF SettledAs, Settled
      <4>2. worldFacts' = worldFacts
        BY <1>4, <2>1, <2>3, <3>2 DEF Settled, TerminalStates
      <4>3. QED
        BY <1>10, <3>1, <4>1, <4>2 DEF Promise!promiseVars, SettledAs, Licensed
    <3>3. CASE journal'[k].state \in TerminalStates
      <4>1. PICK how \in Promise!Settlements :
              /\ how = journal'[k].outcome
              /\ how = "committed" <=> journal'[k].state = "COMMITTED"
              /\ how = "committed" => journal[k].state = "OBSERVED"
        BY <2>1, <3>3
        DEF RowStep, RowByAnswer, RowWithoutAnswer, Becomes, TerminalStates,
            Promise!Settlements
      <4>2. SettledAs' = [SettledAs EXCEPT ![k] = how] /\ SettledAs[k] = "open"
        BY <2>1, <2>3, <3>3, <4>1 DEF SettledAs, Settled
      <4>3. worldFacts' = IF how = "committed" THEN worldFacts \cup {k} ELSE worldFacts
        BY <1>4, <2>1, <2>3, <4>1 DEF Settled, TerminalStates
      <4>4. how = "committed" /\ k \in ExternalKey => invoked[k] = 1
        <5>1. SUFFICES ASSUME how = "committed", k \in ExternalKey
                       PROVE  invoked[k] = 1
          OBVIOUS
        <5>2. external[k] = "done"
          BY <4>1, <5>1 DEF TruthInv, JournalTellsTheTruth
        <5>3. invoked[k] > 0
          BY <2>1, <5>2 DEF TruthInv, OnlyAsked
        <5>4. invoked[k] \in Nat /\ invoked[k] <= 1
          BY <1>1, <1>5, <2>1 DEF AtMostOneInvocation
        <5>5. QED
          BY <5>3, <5>4
      <4>5. Promise!Settle(k, how)
        BY <1>10, <3>1, <4>2, <4>3, <4>4 DEF Promise!Settle, SettledAs, Licensed
      <4>6. QED
        BY <4>1, <4>5 DEF Promise!PromiseNext
    <3>4. QED
      BY <3>2, <3>3
  <2>6. QED
    BY <2>4, <2>5
<1>11. ASSUME UNCHANGED invoked, UNCHANGED journal
       PROVE  UNCHANGED Promise!promiseVars
  BY <1>8, <1>11 DEF Promise!promiseVars, SettledAs, Licensed
<1>12. QED
  BY <1>9, <1>10, <1>11, OnlyInvokeCounts, NextWritesRow

\* The promise is kept towards any caller.
LEMMA AnyPromise == AnyCaller => PromiseKept
<1>1. Init => Promise!PromiseInit
  BY KeyAssumption
  DEF Init, StoreInit, NoRow, Settled, TerminalStates, Promise!PromiseInit
<1>2. TypeOK /\ StoreInv /\ LicenceInv /\ TruthInv /\ [AnyNext]_vars
        => [Promise!PromiseNext]_Promise!promiseVars
  <2>1. ASSUME UNCHANGED vars PROVE UNCHANGED Promise!promiseVars
    BY <2>1
    DEF vars, storeVars, callVars, worldVars, Promise!promiseVars, Settled
  <2>2. QED
    BY <2>1, StepIsPromised
<1>3. QED
  BY <1>1, <1>2, AnyTyped, AnyLicence, AnyTruth, PTL
  DEF AnyCaller, PromiseKept, Promise!PromiseSpec

\* The gateway keeps its promise: seen from outside, effects settle once and
\* with their facts, and the adapter is called at most once, under a licence.
THEOREM GatewayKeepsPromise == Spec => PromiseKept
  BY AnyPromise, CallersOfNext, PTL

-----------------------------------------------------------------------------
(* What the tables of the store say together, of the gateway's runs.       *)

\* The process about to call adapter.invoke is the only one with that right.
THEOREM LicenceIsUnique == Spec => []InvocationLicence
  BY AtMostOnce, PTL

\* An obligation is stored with the outcome that created it, by one statement
\* list: what the sessions of Turn rest on.
ObligationsMatchJournal ==
  obligations = {k \in LearnKey : journal[k].state = "NO_EFFECT"}

\* The two writes that reach NO_EFFECT: a learning outcome, with its
\* obligation, and the plain outcome of a key that creates none.
LEMMA ObligationStep ==
  ASSUME TypeOK, StoreInv, AnyNext, ObligationsMatchJournal
  PROVE  ObligationsMatchJournal'
<1>1. /\ journal \in [Key -> Row] /\ key \in [Process -> Key]
  BY DEF TypeOK, StoreTypeOK
<1>2. \A k \in LearnKey : k \in Key /\ k \notin ReadKey
  BY KeyAssumption
<1>3. ASSUME obligations' = obligations,
             \A k \in LearnKey : journal'[k].state = "NO_EFFECT"
                                   <=> journal[k].state = "NO_EFFECT"
      PROVE  ObligationsMatchJournal'
  BY <1>3 DEF ObligationsMatchJournal
<1>4. CASE UNCHANGED storeVars
  BY <1>3, <1>4 DEF storeVars
<1>5. ASSUME NEW p \in Process, Load(p) \/ Close(p) \/ Crash(p)
      PROVE  ObligationsMatchJournal'
  BY <1>3, <1>5 DEF Load, Close, Crash, LoadNext, Forget
<1>6. ASSUME NEW p \in Process, CallStep(p) PROVE ObligationsMatchJournal'
  <2>1. CASE \/ BeginRaced(p) \/ Replay(p) \/ Invoke(p) \/ Reconcile(p)
             \/ AdapterAnswers(p) \/ Raise(p)
    BY <1>4, <2>1 DEF BeginRaced, Replay, Invoke, Reconcile, AdapterAnswers, Raise
  <2>2. CASE CommitLearning(p)
    <3>1. /\ key[p] \in LearnKey
          /\ obligations' = obligations \cup {key[p]}
          /\ journal'[key[p]].state = "NO_EFFECT"
          /\ \A k \in Key \ {key[p]} : journal'[k] = journal[k]
      BY <1>1, <2>2 DEF CommitLearning, CommitLearningOutcome, Entry
    <3> QED
      BY <1>2, <3>1 DEF ObligationsMatchJournal
  <2>3. CASE Begin(p) \/ CommitObservation(p)
    <3>1. /\ UNCHANGED obligations
          /\ journal[key[p]].state \in {"ABSENT", "OBSERVED"}
          /\ journal'[key[p]].state \in {"PLANNED", "COMMITTED"}
          /\ \A k \in Key \ {key[p]} : journal'[k] = journal[k]
      BY <1>1, <2>3
      DEF Begin, JournalBegin, BeginAccepted, CommitObservation, JournalCommit,
          CommitAccepted, Entry
    <3> QED
      BY <1>2, <1>3, <3>1
  <2>4. ASSUME NEW k \in Key, NEW source, NEW target, NEW outcome,
               JournalTransition(p, k, source, target, outcome),
               target # "NO_EFFECT" \/ k \in ReadKey
        PROVE  ObligationsMatchJournal'
    <3>1. /\ UNCHANGED obligations
          /\ Targets(journal[k].state) # {}
          /\ journal'[k].state = target
          /\ \A j \in Key \ {k} : journal'[j] = journal[j]
      BY <1>1, <2>4 DEF JournalTransition, TransitionAccepted, Entry
    <3>2. journal[k].state # "NO_EFFECT"
      BY <3>1 DEF Targets
    <3> QED
      BY <1>2, <1>3, <2>4, <3>1, <3>2
  <2>5. CASE \/ PersistNoEffect(p) \/ Authorize(p) \/ ObserveTrusted(p)
             \/ FailMissing(p) \/ StartInvocation(p)
    BY <1>1, <2>4, <2>5
    DEF PersistNoEffect, Authorize, ObserveTrusted, FailMissing, StartInvocation
  <2>6. CASE RecordObserved(p) \/ RecordPending(p) \/ RecordFailure(p)
    BY <1>1, <2>4, <2>6 DEF RecordObserved, RecordPending, RecordFailure
  <2> QED
    BY <1>6, <2>1, <2>2, <2>3, <2>5, <2>6 DEF CallStep
<1>7. ASSUME NEW p \in Process, NEW k \in Key, NEW t \in Nat, StartCall(p, k, t)
      PROVE  ObligationsMatchJournal'
  BY <1>4, <1>7 DEF StartCall
<1>8. ASSUME NEW k \in Key, OperationStarts(k) \/ OperationEnds(k)
      PROVE  ObligationsMatchJournal'
  BY <1>4, <1>8 DEF OperationStarts, OperationEnds
<1> QED
  BY <1>5, <1>6, <1>7, <1>8 DEF AnyNext, Underway

\* Obligations do not depend on who calls.
LEMMA AnyObligations == AnyCaller => []ObligationsMatchJournal
<1>1. Init => ObligationsMatchJournal
  BY KeyAssumption DEF Init, StoreInit, NoRow, ObligationsMatchJournal
<1>2. TypeOK /\ StoreInv /\ ObligationsMatchJournal /\ [AnyNext]_vars
        => ObligationsMatchJournal'
  <2>1. ASSUME ObligationsMatchJournal, UNCHANGED vars
        PROVE  ObligationsMatchJournal'
    BY <2>1 DEF vars, storeVars, ObligationsMatchJournal
  <2> QED
    BY <2>1, ObligationStep
<1> QED
  BY <1>1, <1>2, AnyTyped, PTL DEF AnyCaller

-----------------------------------------------------------------------------
(* What the kind of a decision says of its row.                            *)

\* Only external decisions meet an adapter; the others take the states of
\* their kind: a query or a lesson is planned and has no effect, and an
\* admission is observed as soon as it is authorized, and cannot fail.
RowsOfTheirKind ==
  /\ \A p \in Process :
       pc[p] \in {"invoke", "invoking", "reconciling", "answered"}
         => key[p] \in ExternalKey
  /\ \A k \in ReadKey \cup LearnKey :
       journal[k].state \in {"ABSENT", "PLANNED", "NO_EFFECT"}
  /\ \A k \in AdmitKey :
       journal[k].state \in {"ABSENT", "PLANNED", "AUTHORIZED", "OBSERVED", "COMMITTED"}

\* A step of a call writes what the kind of its key allows.
LEMMA CallKeepsKinds ==
  ASSUME TypeOK, RowsOfTheirKind, NEW p \in Process, CallStep(p)
  PROVE  RowsOfTheirKind'
<1>1. /\ journal \in [Key -> Row] /\ key \in [Process -> Key] /\ key[p] \in Key
      /\ pc \in [Process -> PC]
  BY DEF TypeOK, StoreTypeOK
<1>2. /\ \A k \in ReadKey \cup LearnKey : k \in Key /\ k \notin ExternalKey \cup AdmitKey
      /\ \A k \in AdmitKey : k \in Key /\ k \notin ExternalKey
  BY KeyAssumption
<1>3. ASSUME UNCHANGED journal,
             \A q \in Process :
               pc'[q] \in {"invoke", "invoking", "reconciling", "answered"}
                 => key'[q] \in ExternalKey
      PROVE  RowsOfTheirKind'
  BY <1>3 DEF RowsOfTheirKind
<1>4. ASSUME Forgotten(p)
      PROVE  \A q \in Process :
               pc'[q] \in {"invoke", "invoking", "reconciling", "answered"}
                 => key'[q] \in ExternalKey
  BY <1>1, <1>4 DEF Forgotten, RowsOfTheirKind
<1>5. ASSUME NEW where, Goto(p, where), UNCHANGED key,
             where = "run" \/ key[p] \in ExternalKey
      PROVE  \A q \in Process :
               pc'[q] \in {"invoke", "invoking", "reconciling", "answered"}
                 => key'[q] \in ExternalKey
  BY <1>1, <1>5 DEF Goto, RowsOfTheirKind
<1>6. ASSUME \A j \in Key \ {key[p]} : journal'[j] = journal[j],
             \/ key[p] \in ExternalKey
             \/ journal'[key[p]].state = "PLANNED"
             \/ key[p] \in ReadKey \cup LearnKey /\ journal'[key[p]].state = "NO_EFFECT"
             \/ /\ key[p] \in AdmitKey
                /\ journal'[key[p]].state \in {"AUTHORIZED", "OBSERVED", "COMMITTED"},
             \A q \in Process :
               pc'[q] \in {"invoke", "invoking", "reconciling", "answered"}
                 => key'[q] \in ExternalKey
      PROVE  RowsOfTheirKind'
  BY <1>1, <1>2, <1>6 DEF RowsOfTheirKind
<1>7. CASE Replay(p) \/ Raise(p)
  BY <1>3, <1>4, <1>7 DEF Replay, Raise, Return, storeVars
<1>8. CASE BeginRaced(p) \/ Reconcile(p)
  BY <1>3, <1>5, <1>8 DEF BeginRaced, Reconcile, storeVars
<1>9. CASE Invoke(p) \/ AdapterAnswers(p)
  <2>1. key[p] \in ExternalKey
    BY <1>9 DEF Invoke, AdapterAnswers, RowsOfTheirKind
  <2> QED
    BY <1>3, <1>5, <1>9, <2>1 DEF Invoke, AdapterAnswers, storeVars
<1>10. CASE Begin(p)
  <2>1. /\ \A j \in Key \ {key[p]} : journal'[j] = journal[j]
        /\ journal'[key[p]].state = "PLANNED"
    BY <1>1, <1>10 DEF Begin, JournalBegin, Entry
  <2> QED
    BY <1>5, <1>6, <1>10, <2>1 DEF Begin, Keep
<1>11. CASE PersistNoEffect(p)
  BY <1>1, <1>4, <1>6, <1>11, TransitionWrites DEF PersistNoEffect, Return, Becomes
<1>12. CASE CommitLearning(p)
  <2>1. /\ \A j \in Key \ {key[p]} : journal'[j] = journal[j]
        /\ journal'[key[p]].state = "NO_EFFECT"
    BY <1>1, <1>12 DEF CommitLearning, CommitLearningOutcome, Entry
  <2> QED
    BY <1>4, <1>6, <1>12, <2>1 DEF CommitLearning, Return
<1>13. CASE Authorize(p) \/ ObserveTrusted(p)
  BY <1>1, <1>5, <1>6, <1>13, TransitionWrites
  DEF Authorize, ObserveTrusted, Authorizable, Keep, Becomes
<1>14. CASE CommitObservation(p)
  <2>1. /\ \A j \in Key \ {key[p]} : journal'[j] = journal[j]
        /\ journal'[key[p]].state = "COMMITTED"
    BY <1>1, <1>14 DEF CommitObservation, JournalCommit, Entry
  <2> QED
    BY <1>4, <1>6, <1>14, <2>1 DEF CommitObservation, Authorizable, Return
<1>15. CASE FailMissing(p)
  BY <1>1, <1>4, <1>6, <1>15, TransitionWrites DEF FailMissing, Return
<1>16. CASE StartInvocation(p)
  BY <1>1, <1>5, <1>6, <1>16, TransitionWrites DEF StartInvocation, Keep
<1>17. CASE RecordObserved(p) \/ RecordPending(p) \/ RecordFailure(p)
  <2>1. key[p] \in ExternalKey
    BY <1>17 DEF RecordObserved, RecordPending, RecordFailure, RowsOfTheirKind
  <2>2. CASE RecordObserved(p)
    BY <1>1, <1>5, <1>6, <2>1, <2>2, TransitionWrites DEF RecordObserved
  <2>3. CASE RecordPending(p) \/ RecordFailure(p)
    BY <1>1, <1>4, <1>6, <2>1, <2>3, TransitionWrites
    DEF RecordPending, RecordFailure, Return
  <2> QED
    BY <1>17, <2>2, <2>3
<1> QED
  BY <1>7, <1>8, <1>9, <1>10, <1>11, <1>12, <1>13, <1>14, <1>15, <1>16, <1>17 DEF CallStep

\* No caller can take a row past the states of its kind.
LEMMA AnyKinds == AnyCaller => []RowsOfTheirKind
<1>1. Init => RowsOfTheirKind
  BY KeyAssumption DEF Init, StoreInit, NoRow, RowsOfTheirKind
<1>2. TypeOK /\ RowsOfTheirKind /\ [AnyNext]_vars => RowsOfTheirKind'
  <2> SUFFICES ASSUME TypeOK, RowsOfTheirKind, [AnyNext]_vars PROVE RowsOfTheirKind'
    OBVIOUS
  <2>1. CASE UNCHANGED vars
    BY <2>1 DEF vars, storeVars, callVars, RowsOfTheirKind
  <2>2. ASSUME NEW p \in Process, Load(p) \/ Close(p) PROVE RowsOfTheirKind'
    BY <2>2 DEF Load, Close, LoadNext, Forget, RowsOfTheirKind
  <2>3. ASSUME NEW p \in Process, Crash(p) PROVE RowsOfTheirKind'
    BY <2>3 DEF Crash, Forget, Forgotten, TypeOK, RowsOfTheirKind
  <2>4. ASSUME NEW p \in Process, NEW k \in Key, NEW t \in Nat, StartCall(p, k, t)
        PROVE  RowsOfTheirKind'
    BY <2>4 DEF StartCall, storeVars, TypeOK, RowsOfTheirKind
  <2>5. ASSUME NEW k \in Key, OperationStarts(k) \/ OperationEnds(k)
        PROVE  RowsOfTheirKind'
    BY <2>5 DEF OperationStarts, OperationEnds, storeVars, callVars, RowsOfTheirKind
  <2> QED
    BY <2>1, <2>2, <2>3, <2>4, <2>5, CallKeepsKinds DEF AnyNext, Underway
<1> QED
  BY <1>1, <1>2, AnyTyped, PTL DEF AnyCaller

\* The world revision counts the commits, and their receipts name 1, 2, ...
WorldPins ==
  /\ IsFiniteSet(worldFacts)
  /\ meta["world"] = Cardinality(worldFacts)
  /\ {journal[k].world : k \in worldFacts} = 1..meta["world"]

\* Only a commit moves them, and it moves both.
LEMMA WorldPinsStep ==
  ASSUME StoreInv, WorldPins, StoreNext PROVE WorldPins'
<1>1. PICK p \in Process : StoreStep(p)
  BY DEF StoreNext
<1>2. /\ journal \in [Key -> Row] /\ meta \in [Counter -> Nat]
      /\ worldFacts \subseteq Key /\ "world" \in Counter
      /\ \A k \in worldFacts : journal[k].state = "COMMITTED"
  BY DEF StoreInv, StoreTypeOK, Counter, WorldMatchesJournal
<1>3. \A k \in worldFacts : journal'[k] = journal[k]
  BY <1>2, StepKeepsTerminalRows DEF TerminalStates
<1>4. ASSUME worldFacts' = worldFacts, meta'["world"] = meta["world"]
      PROVE  WorldPins'
  BY <1>3, <1>4 DEF WorldPins
<1>5. CASE LoadNext(p) \/ Forget(p)
  BY <1>4, <1>5 DEF LoadNext, Forget
<1>6. ASSUME NEW k \in Key, NEW index \in Nat, JournalBegin(p, k, index)
      PROVE  WorldPins'
  BY <1>2, <1>4, <1>6 DEF JournalBegin, Advance
<1>7. ASSUME NEW k \in Key, NEW source, NEW target, NEW outcome,
             JournalTransition(p, k, source, target, outcome)
      PROVE  WorldPins'
  BY <1>2, <1>4, <1>7 DEF JournalTransition, Advance, Written
<1>8. ASSUME NEW k \in Key, CommitLearningOutcome(p, k)
      PROVE  WorldPins'
  BY <1>2, <1>4, <1>8 DEF CommitLearningOutcome, Advance
<1>9. ASSUME NEW k \in Key, JournalCommit(p, k)
      PROVE  WorldPins'
  <2>1. /\ journal[k].state = "OBSERVED" /\ cache[p]["world"] = meta["world"]
        /\ worldFacts' = worldFacts \cup {k}
        /\ journal'[k].world = cache[p]["world"] + 1
    BY <1>2, <1>9 DEF JournalCommit, CommitAccepted, Pinned, Entry
  <2>2. meta'["world"] = meta["world"] + 1 /\ meta["world"] \in Nat
    BY <1>2, <1>9, <2>1 DEF JournalCommit, Advance
  <2>3. k \notin worldFacts
    BY <1>2, <2>1
  <2>4. IsFiniteSet(worldFacts') /\ Cardinality(worldFacts') = Cardinality(worldFacts) + 1
    BY <2>1, <2>3, FS_AddElement DEF WorldPins
  <2>5. {journal'[j].world : j \in worldFacts'}
          = {journal[j].world : j \in worldFacts} \cup {meta["world"] + 1}
    BY <1>3, <2>1
  <2>6. 1..(meta["world"] + 1) = (1..meta["world"]) \cup {meta["world"] + 1}
    BY <2>2
  <2> QED
    BY <2>2, <2>4, <2>5, <2>6 DEF WorldPins
<1> QED
  BY <1>1, <1>5, <1>6, <1>7, <1>8, <1>9 DEF StoreStep

\* What the store's transactions make of the pins.
LEMMA StorePins == StoreSpec => []CommittedPinsExact
<1>1. StoreInit => WorldPins
  BY FS_EmptySet DEF StoreInit, WorldPins, Counter
<1>2. StoreInv /\ WorldPins /\ [StoreNext]_storeVars => WorldPins'
  <2>1. ASSUME WorldPins, UNCHANGED storeVars PROVE WorldPins'
    BY <2>1 DEF storeVars, WorldPins
  <2> QED
    BY <2>1, WorldPinsStep
<1>3. WorldPins => CommittedPinsExact
  BY DEF WorldPins, CommittedPinsExact
<1> QED
  BY <1>1, <1>2, <1>3, StoreInvariant, PTL DEF StoreSpec

\* r3_effect_journal_commit: the receipts of committed effects name the world
\* revisions 1..n, each once.
THEOREM PinsAreExact == Spec => []CommittedPinsExact
  BY StorePins, GatewayUsesStore, PTL
=============================================================================
