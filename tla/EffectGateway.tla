--------------------------- MODULE EffectGateway ---------------------------
(***************************************************************************)
(* r3_effects.py: R3EffectGateway, "the sole owner of world mutation,      *)
(* adapter invocation, and effect journals", run by several processes over *)
(* one SemanticStore and one external world behind the effect adapters.    *)
(*                                                                         *)
(* A call of execute(evaluation, ...) is one key: _effect_key hashes the   *)
(* decision, so the same evaluation always reaches the same journal row.   *)
(* The kind of decision is the set the key belongs to.  Each store         *)
(* transaction and each adapter call is a step of its own: other processes *)
(* move between them, and the process may die there.                       *)
(***************************************************************************)
EXTENDS SemanticStore

CONSTANTS
  ExternalKey,  \* REQUEST_EFFECT            -> _execute_external
  AdmitKey,     \* ADMIT_CLAIM               -> _commit_semantic
  ReadKey,      \* queries, simulations, ... -> _persist_no_effect
  LearnKey,     \* CREATE_LEARNING_OBLIGATION -> _commit_learning
  MaxAttempts,  \* bound: attempt_index from which retries need a conclusion
  MaxCrashes    \* bound: how often processes die

ASSUME KeyAssumption ==
  /\ Key # {}
  /\ Key = ExternalKey \cup AdmitKey \cup ReadKey \cup LearnKey
  /\ \A k \in ExternalKey : k \notin AdmitKey \cup ReadKey \cup LearnKey
  /\ \A k \in AdmitKey : k \notin ReadKey \cup LearnKey
  /\ \A k \in ReadKey : k \notin LearnKey

ASSUME BoundAssumption == MaxAttempts \in Nat /\ MaxCrashes \in Nat

VARIABLES
  pc,           \* per process: where its call of execute() stands
  key,          \* per process: the key of that call
  turn,         \* per key: turn_index its decision was evaluated in (0: not yet)
  held,         \* per process: the StoredEffectJournal the call holds
  answer,       \* per process: what the adapter call came back with
  adapterUp,    \* per process: is the adapter in its AdapterRegistry
  external,     \* the operation as the outside world knows it
  invoked,      \* history: how often adapter.invoke was called
  told,         \* history: receipts handed to callers of the key
  crashes       \* history: how often a process died

callVars == <<pc, key, held, answer, adapterUp>>
worldVars == <<turn, external, invoked, told, crashes>>
vars == <<storeVars, callVars, worldVars>>

PC == {"idle", "begin", "run", "invoke", "invoking", "reconciling", "answered"}
Answers == {"none", "SUCCEEDED", "PENDING", "FAILED", "NOT_FOUND", "EXCEPTION"}
Receipts == {"pending"} \cup Outcomes

TypeOK ==
  /\ StoreTypeOK
  /\ pc \in [Process -> PC]
  /\ key \in [Process -> Key]
  /\ turn \in [Key -> Nat]
  /\ held \in [Process -> Row]
  /\ answer \in [Process -> Answers]
  /\ adapterUp \in [Process -> BOOLEAN]
  /\ external \in [Key -> {"none", "running", "done", "failed"}]
  /\ invoked \in [Key -> Nat]
  /\ told \in [Key -> SUBSET Receipts]
  /\ crashes \in Nat

\* The key an idle process shows: any fixed one.
IdleKey == CHOOSE k \in Key : TRUE

Init ==
  /\ StoreInit
  /\ pc = [p \in Process |-> "idle"]
  /\ key = [p \in Process |-> IdleKey]
  /\ turn = [k \in Key |-> 0]
  /\ held = [p \in Process |-> NoRow]
  /\ answer = [p \in Process |-> "none"]
  /\ adapterUp = [p \in Process |-> FALSE]
  /\ external = [k \in Key |-> "none"]
  /\ invoked = [k \in Key |-> 0]
  /\ told = [k \in Key |-> {}]
  /\ crashes = 0

-----------------------------------------------------------------------------
(* Bookkeeping of a call.                                                  *)

Goto(p, where) == pc' = [pc EXCEPT ![p] = where]

\* A transaction that leaves the call holding the row it wrote.
Keep(p, where) ==
  /\ Goto(p, where)
  /\ held' = [held EXCEPT ![p] = journal'[key[p]]]
  /\ UNCHANGED <<key, answer, adapterUp, worldVars>>

Forgotten(p) ==
  /\ pc' = [pc EXCEPT ![p] = "idle"]
  /\ key' = [key EXCEPT ![p] = IdleKey]
  /\ held' = [held EXCEPT ![p] = NoRow]
  /\ answer' = [answer EXCEPT ![p] = "none"]

\* The call returns a receipt.
Return(p, receipt) ==
  /\ Forgotten(p)
  /\ told' = [told EXCEPT ![key[p]] = @ \cup {receipt}]
  /\ UNCHANGED <<adapterUp, turn, external, invoked, crashes>>

\* Running(p, states): the call holds a row in one of these states.
Running(p, states) == pc[p] = "run" /\ held[p].state \in states

-----------------------------------------------------------------------------
(* Processes.                                                              *)

\* The process opens the store; what its AdapterRegistry holds is settled
\* when it starts, and a restart may come up without the adapter.
Load(p) ==
  /\ LoadNext(p)
  /\ \E up \in IF loaded[p] = 3 THEN BOOLEAN ELSE {FALSE} :
       adapterUp' = [adapterUp EXCEPT ![p] = up]
  /\ UNCHANGED <<pc, key, held, answer, worldVars>>

\* SemanticStores.close(), between calls.
Close(p) ==
  /\ Open(p)
  /\ pc[p] = "idle"
  /\ Forget(p)
  /\ adapterUp' = [adapterUp EXCEPT ![p] = FALSE]
  /\ UNCHANGED <<pc, key, held, answer, worldVars>>

\* The process dies, at any point of a call or of an open.
Crash(p) ==
  /\ loaded[p] > 0
  /\ crashes < MaxCrashes
  /\ crashes' = crashes + 1
  /\ Forget(p)
  /\ Forgotten(p)
  /\ adapterUp' = [adapterUp EXCEPT ![p] = FALSE]
  /\ UNCHANGED <<turn, external, invoked, told>>

-----------------------------------------------------------------------------
(* execute: _begin.                                                        *)

\* An unconcluded operation is retried to MaxAttempts.
Retried(k) ==
  journal[k].attempt < MaxAttempts \/ external[k] \in {"done", "failed"}

\* gateway.execute of a decision evaluated in turn t looks its key up.
StartCall(p, k, t) ==
  /\ pc' = [pc EXCEPT ![p] = IF journal[k].state = "ABSENT" THEN "begin"
                                                            ELSE "run"]
  /\ key' = [key EXCEPT ![p] = k]
  /\ turn' = [turn EXCEPT ![k] = t]
  /\ held' = [held EXCEPT ![p] = journal[k]]
  /\ UNCHANGED <<storeVars, answer, adapterUp,
                 external, invoked, told, crashes>>

\* A caller executes the decision of key k, or executes it again.  The key
\* hashes the decision, and that the situation: its turn_index was reserved
\* once, as session.turn_index + 1, when the turn was oriented.
Execute(p, k) ==
  /\ Open(p)
  /\ pc[p] = "idle"
  /\ Retried(k)
  /\ StartCall(p, k, IF turn[k] = 0 THEN turnIndex + 1 ELSE turn[k])

\* r3_effect_journal_begin writes the PLANNED row ...
Begin(p) ==
  /\ pc[p] = "begin"
  /\ JournalBegin(p, key[p], turn[key[p]])
  /\ Keep(p, "run")

\* ... or finds the row another process has begun meanwhile.
BeginRaced(p) ==
  /\ pc[p] = "begin"
  /\ journal[key[p]].state # "ABSENT"
  /\ held' = [held EXCEPT ![p] = journal[key[p]]]
  /\ Goto(p, "run")
  /\ UNCHANGED <<storeVars, key, answer, adapterUp, worldVars>>

\* A terminal row: its stored receipt is the answer, whatever the kind.
Replay(p) ==
  /\ Running(p, TerminalStates)
  /\ Return(p, held[p].outcome)
  /\ UNCHANGED storeVars

-----------------------------------------------------------------------------
(* _persist_no_effect, _commit_learning and _commit_semantic.              *)

PersistNoEffect(p) ==
  /\ Running(p, {"PLANNED"}) /\ key[p] \in ReadKey
  /\ JournalTransition(p, key[p], "PLANNED", "NO_EFFECT", "no_effect")
  /\ Return(p, "no_effect")

CommitLearning(p) ==
  /\ Running(p, {"PLANNED"}) /\ key[p] \in LearnKey
  /\ CommitLearningOutcome(p, key[p])
  /\ Return(p, "no_effect")

\* The two kinds that pass AUTHORIZED; an external one needs its adapter.
Authorizable(p) ==
  key[p] \in AdmitKey \/ (key[p] \in ExternalKey /\ adapterUp[p])

Authorize(p) ==
  /\ Running(p, {"PLANNED"}) /\ Authorizable(p)
  /\ JournalTransition(p, key[p], "PLANNED", "AUTHORIZED", "none")
  /\ Keep(p, "run")

ObserveTrusted(p) ==
  /\ Running(p, {"AUTHORIZED"}) /\ key[p] \in AdmitKey
  /\ JournalTransition(p, key[p], "AUTHORIZED", "OBSERVED", "none")
  /\ Keep(p, "run")

\* _commit_observation, of an admission or of an observed request.
CommitObservation(p) ==
  /\ Running(p, {"OBSERVED"}) /\ Authorizable(p)
  /\ JournalCommit(p, key[p])
  /\ Return(p, "committed")

-----------------------------------------------------------------------------
(* _execute_external.                                                      *)

\* Mutant of FailMissing: reports the missing adapter and journals nothing.
ReportMissing(p) ==
  /\ Running(p, NonTerminalStates)
  /\ key[p] \in ExternalKey /\ ~adapterUp[p]
  /\ Return(p, "adapter_missing")
  /\ UNCHANGED storeVars

\* The registry has no such adapter: every nonterminal entry fails.
FailMissing(p) ==
  /\ Running(p, NonTerminalStates)
  /\ key[p] \in ExternalKey /\ ~adapterUp[p]
  /\ JournalTransition(p, key[p], held[p].state, "FAILED", "adapter_missing")
  /\ Return(p, "adapter_missing")

\* Mutant of StartInvocation: the adapter is called before the journal write.
InvokeFirst(p) ==
  /\ Running(p, {"AUTHORIZED"})
  /\ key[p] \in ExternalKey /\ adapterUp[p]
  /\ Goto(p, "invoke")
  /\ UNCHANGED <<storeVars, key, held, answer, adapterUp, worldVars>>

StartInvocation(p) ==
  /\ Running(p, {"AUTHORIZED"})
  /\ key[p] \in ExternalKey /\ adapterUp[p]
  /\ JournalTransition(p, key[p], "AUTHORIZED", "INVOCATION_STARTED", "none")
  /\ Keep(p, "invoke")

\* adapter.invoke is called; whether its request arrives, see OperationStarts.
Invoke(p) ==
  /\ pc[p] = "invoke"
  /\ Goto(p, "invoking")
  /\ invoked' = [invoked EXCEPT ![key[p]] = @ + 1]
  /\ UNCHANGED <<storeVars, key, held, answer, adapterUp,
                 turn, external, told, crashes>>

\* Mutant of Reconcile: a recovered row is invoked again.
InvokeAgain(p) ==
  /\ Running(p, {"INVOCATION_STARTED", "PENDING_RECONCILIATION"})
  /\ key[p] \in ExternalKey /\ adapterUp[p]
  /\ Goto(p, "invoke")
  /\ UNCHANGED <<storeVars, key, held, answer, adapterUp, worldVars>>

\* A recovered row is reconciled: adapter.reconcile asks and changes nothing.
Reconcile(p) ==
  /\ Running(p, {"INVOCATION_STARTED", "PENDING_RECONCILIATION"})
  /\ key[p] \in ExternalKey /\ adapterUp[p]
  /\ Goto(p, "reconciling")
  /\ UNCHANGED <<storeVars, key, held, answer, adapterUp, worldVars>>

\* The request reaches the outside world, during the call, after it, or never:
\* it may be late, or lost, or a timeout may have raced it.
OperationStarts(k) ==
  /\ invoked[k] > 0
  /\ external[k] = "none"
  /\ external' = [external EXCEPT ![k] = "running"]
  /\ UNCHANGED <<storeVars, callVars, turn, invoked, told, crashes>>

\* The outside world finishes the operation, on its own time.
OperationEnds(k) ==
  /\ external[k] = "running"
  /\ \E result \in {"done", "failed"} :
       external' = [external EXCEPT ![k] = result]
  /\ UNCHANGED <<storeVars, callVars, turn, invoked, told, crashes>>

\* The AdapterResult of a truthful adapter; an exception (a timeout, a
\* malformed or contradictory result) is possible instead, to MaxAttempts.
TruthfulAnswer(state) ==
  CASE state = "none" -> "NOT_FOUND"
    [] state = "running" -> "PENDING"
    [] state = "done" -> "SUCCEEDED"
    [] state = "failed" -> "FAILED"

AdapterAnswers(p) ==
  /\ pc[p] \in {"invoking", "reconciling"}
  /\ Goto(p, "answered")
  /\ \E a \in {TruthfulAnswer(external[key[p]]), "EXCEPTION"} :
       /\ \/ pc[p] = "invoking"
          \/ held[p].attempt < MaxAttempts
          \/ a # "EXCEPTION"
       /\ answer' = [answer EXCEPT ![p] = a]
  /\ UNCHANGED <<storeVars, key, held, adapterUp, worldVars>>

\* Mutant of RecordObserved: whatever does not fail has been carried out.
ObserveUnfinished(p) ==
  /\ pc[p] = "answered" /\ answer[p] \in {"SUCCEEDED", "PENDING"}
  /\ JournalTransition(p, key[p], held[p].state, "OBSERVED", "none")
  /\ Goto(p, "run")
  /\ held' = [held EXCEPT ![p] = journal'[key[p]]]
  /\ answer' = [answer EXCEPT ![p] = "none"]
  /\ UNCHANGED <<key, adapterUp, worldVars>>

RecordObserved(p) ==
  /\ pc[p] = "answered" /\ answer[p] = "SUCCEEDED"
  /\ JournalTransition(p, key[p], held[p].state, "OBSERVED", "none")
  /\ Goto(p, "run")
  /\ held' = [held EXCEPT ![p] = journal'[key[p]]]
  /\ answer' = [answer EXCEPT ![p] = "none"]
  /\ UNCHANGED <<key, adapterUp, worldVars>>

RecordPending(p) ==
  /\ pc[p] = "answered" /\ answer[p] \notin {"SUCCEEDED", "FAILED"}
  /\ JournalTransition(p, key[p], held[p].state, "PENDING_RECONCILIATION",
                       "none")
  /\ Return(p, "pending")

RecordFailure(p) ==
  /\ pc[p] = "answered" /\ answer[p] = "FAILED"
  /\ JournalTransition(p, key[p], held[p].state, "FAILED", "failed")
  /\ Return(p, "failed")

-----------------------------------------------------------------------------
(* A write the store refuses raises out of execute(); nothing is written.  *)

Source(p) == held[p].state

\* The write the call is about to make, and whether the store accepts it.
WriteRefused(p) ==
  LET k == key[p]
      Refused(target) == ~TransitionAccepted(p, k, Source(p), target)
  IN
  \/ pc[p] = "begin" /\ ~BeginAccepted(p, k)
  \/ /\ Running(p, {"PLANNED"})
     /\ \/ k \in ReadKey /\ Refused("NO_EFFECT")
        \/ k \in LearnKey /\ ~LearningAccepted(p, k)
        \/ Authorizable(p) /\ Refused("AUTHORIZED")
  \/ /\ Running(p, {"AUTHORIZED"})
     /\ \/ k \in AdmitKey /\ Refused("OBSERVED")
        \/ k \in ExternalKey /\ adapterUp[p] /\ Refused("INVOCATION_STARTED")
  \/ Running(p, {"OBSERVED"}) /\ Authorizable(p) /\ ~CommitAccepted(p, k)
  \/ /\ Running(p, NonTerminalStates)
     /\ k \in ExternalKey /\ ~adapterUp[p] /\ Refused("FAILED")
  \/ /\ pc[p] = "answered"
     /\ Refused(CASE answer[p] = "SUCCEEDED" -> "OBSERVED"
                  [] answer[p] = "FAILED" -> "FAILED"
                  [] OTHER -> "PENDING_RECONCILIATION")

Raise(p) ==
  /\ WriteRefused(p)
  /\ Forgotten(p)
  /\ UNCHANGED <<storeVars, adapterUp, worldVars>>

-----------------------------------------------------------------------------
\* What a process does by itself inside one call.
CallStep(p) ==
  \/ Begin(p) \/ BeginRaced(p) \/ Replay(p)
  \/ PersistNoEffect(p) \/ CommitLearning(p)
  \/ Authorize(p) \/ ObserveTrusted(p) \/ CommitObservation(p)
  \/ FailMissing(p) \/ StartInvocation(p) \/ Invoke(p) \/ Reconcile(p)
  \/ AdapterAnswers(p)
  \/ RecordObserved(p) \/ RecordPending(p) \/ RecordFailure(p)
  \/ Raise(p)

\* What happens whoever calls: processes come and go, run their calls, and the
\* outside world moves.
Underway ==
  \/ \E p \in Process : Load(p) \/ Close(p) \/ Crash(p) \/ CallStep(p)
  \/ \E k \in Key : OperationStarts(k) \/ OperationEnds(k)

Next == Underway \/ \E p \in Process, k \in Key : Execute(p, k)

Spec == Init /\ [][Next]_vars

-----------------------------------------------------------------------------
(* What must hold.                                                         *)

\* The adapter is asked to perform an effect at most once, however the calls
\* of several processes interleave and wherever they die (r3_persistence.py:
\* a recovered entry "is never blindly invoked a second time").
AtMostOneInvocation == \A k \in Key : invoked[k] <= 1

\* The right to call adapter.invoke is the INVOCATION_STARTED write: whoever is
\* about to call it is the only one, the adapter has not been called, and the
\* row is past AUTHORIZED and will not return there.
InvocationLicence ==
  /\ \A k \in Key : journal[k].state \in {"ABSENT", "PLANNED", "AUTHORIZED"}
       => journal[k].attempt = 0 /\ invoked[k] = 0
  /\ \A p \in Process : pc[p] = "invoke" =>
       /\ journal[key[p]].attempt > 0
       /\ invoked[key[p]] = 0
       /\ \A q \in Process \ {p} : ~(pc[q] = "invoke" /\ key[q] = key[p])

\* Write-ahead: whatever adapter.invoke was called for is in the journal as
\* started, or as a state only reachable from there.
InvocationJournaled ==
  \A k \in Key : invoked[k] > 0 =>
    /\ k \in ExternalKey
    /\ journal[k].attempt > 0
    /\ journal[k].state \in {"INVOCATION_STARTED", "PENDING_RECONCILIATION",
                             "OBSERVED", "COMMITTED", "FAILED"}

\* What the journal says of an external operation is what happened outside:
\* observed or committed only if it succeeded, failed by an adapter's answer
\* only if it failed.
JournalTellsTheTruth ==
  \A k \in ExternalKey :
    /\ journal[k].state \in {"OBSERVED", "COMMITTED"} => external[k] = "done"
    /\ journal[k].outcome = "failed" => external[k] = "failed"

\* The receipts of committed effects name the world revision they created:
\* two of them never name the same, and none names one not reached.
CommittedPinsExact ==
  {journal[k].world : k \in worldFacts} = 1..Cardinality(worldFacts)

\* Callers of one key are never told two different conclusions, and what they
\* were told is what the journal durably says.
AnswersAgree ==
  \A k \in Key : told[k] \ {"pending"} \subseteq {journal[k].outcome}

-----------------------------------------------------------------------------
(* The gateway implements EffectPromise.                                   *)

Settled(k) == journal[k].state \in TerminalStates

Promise == INSTANCE EffectPromise WITH
  Effect   <- Key,
  External <- ExternalKey,
  outcome  <- [k \in Key |-> IF Settled(k) THEN journal[k].outcome ELSE "open"],
  licensed <- {k \in Key : journal[k].attempt > 0},
  touches  <- invoked,
  facts    <- worldFacts

\* Every behaviour of the journal, the store and the processes is, seen from
\* outside, one of EffectPromise: effects settle once, together with their
\* facts, and the adapter is called at most once under a journaled licence.
PromiseKept == Promise!PromiseSpec
=============================================================================
