------------------------------ MODULE TurnProofs ------------------------------
(***************************************************************************)
(* Proofs about Turn, for every number of processes, keys and inputs: the  *)
(* turns of a session conclude in order, rows move with the call that      *)
(* began them, and turns are serializable.  The store's invariant carries  *)
(* over; what is added says how stale a process may be and still write:    *)
(* the revisions it was pinned to are the durable ones when it concludes.  *)
(***************************************************************************)
EXTENDS Turn, EffectGatewayProofs, SequenceTheorems, FiniteSetTheorems

\* A turn is numbered after every conclusion its process had seen, and at most
\* as the next one.
Numbered(s) == s.pin["session"] < s.turn /\ s.turn <= meta["session"] + 1
NumbersFollow ==
  /\ \A p \in Process : phase[p] # "none" => Numbered(draft[p])
  /\ \A k \in Key : material[k].turn # 0 => Numbered(material[k])

\* A row is of the situation of its key, and younger than its pin.
RowsOfSituations ==
  \A k \in Key :
    /\ turn[k] = material[k].turn
    /\ journal[k].state # "ABSENT" =>
         /\ material[k].turn # 0
         /\ journal[k].turn = material[k].turn
         /\ material[k].pin["effects"] < journal[k].rev

\* A turn belongs to an open process; a call is one of a turn, and its process
\* has seen no revision since it was pinned but those of its own writes.
CallsPinned ==
  \A p \in Process :
    /\ phase[p] # "none" => Open(p)
    /\ phase[p] = "evaluated" => draft[p].pin = cache[p]
    /\ pc[p] # "idle" =>
         /\ phase[p] = "r3"
         /\ material[key[p]].turn # 0
         /\ material[key[p]].pin["session"] = cache[p]["session"]
         /\ \/ writer[key[p]] = p
            \/ material[key[p]].pin["effects"] = cache[p]["effects"]

\* A writer is in the call that began the row.
WritersCall ==
  \A k \in Key : writer[k] # Nobody =>
    /\ journal[k].state # "ABSENT"
    /\ pc[writer[k]] # "idle" /\ key[writer[k]] = k

\* What the next turn to conclude was decided on is what the store holds.
ViewsCurrent ==
  /\ \A p \in Process : draft[p].turn = meta["session"] + 1 =>
       /\ phase[p] \in {"oriented", "evaluated"} =>
            draft[p].obligations = obligations
       /\ phase[p] = "evaluated" => draft[p].facts = worldFacts
  /\ \A k \in Key : material[k].turn = meta["session"] + 1 =>
       material[k].obligations = obligations /\ material[k].facts = worldFacts
  /\ \A k \in obligations : Settled(k)

TurnInv ==
  /\ NumbersFollow /\ RowsOfSituations /\ CallsPinned /\ WritersCall
  /\ ViewsCurrent /\ TurnsConcludeInOrder /\ TurnsSerial

-----------------------------------------------------------------------------
(* Writes.                                                                 *)

\* What every write of a row has in common: it is made from the durable
\* revisions of the effects, and of the session if it concludes a turn.
Wrote(p, k, concludes) ==
  /\ cache[p]["effects"] = meta["effects"]
  /\ meta'["effects"] = meta["effects"] + 1
  /\ cache'[p]["effects"] = meta["effects"] + 1
  /\ concludes => cache[p]["session"] = meta["session"]
  /\ meta'["session"] = IF concludes THEN meta["session"] + 1 ELSE meta["session"]
  /\ ~ concludes => cache'[p]["session"] = cache[p]["session"]
  /\ \A q \in Process \ {p} : cache'[q] = cache[q]
  /\ \A j \in Key \ {k} : journal'[j] = journal[j]
  /\ journal'[k].rev = meta["effects"] + 1
  /\ loaded' = loaded

\* A row begins, moves, or settles, within a call of its key.
RowBegun(p, k) ==
  /\ Wrote(p, k, FALSE)
  /\ journal[k].state = "ABSENT" /\ journal'[k].state = "PLANNED"
  /\ journal'[k].turn = turn[k]
  /\ UNCHANGED <<turnIndex, obligations, worldFacts>>
RowMoved(p, k) ==
  /\ Wrote(p, k, FALSE)
  /\ journal[k].state \notin TerminalStates \cup {"ABSENT"}
  /\ journal'[k].state \notin TerminalStates \cup {"ABSENT"}
  /\ journal'[k].turn = journal[k].turn
  /\ UNCHANGED <<turnIndex, obligations, worldFacts>>
RowSettled(p, k) ==
  /\ Wrote(p, k, TRUE)
  /\ journal[k].state \notin TerminalStates \cup {"ABSENT"}
  /\ journal'[k].state \in TerminalStates
  /\ journal'[k].turn = journal[k].turn
  /\ turnIndex' = journal[k].turn
  /\ obligations' \in {obligations, obligations \cup {k}}
  /\ worldFacts' \in {worldFacts, worldFacts \cup {k}}

\* The revisions of a write that the store accepts.
LEMMA AcceptedWrites ==
  ASSUME StoreInv, NEW p \in Process, NEW C \in SUBSET Counter, "effects" \in C,
         RevisionFree(p, C), Advance(p, C)
  PROVE  /\ cache[p]["effects"] = meta["effects"]
         /\ meta'["effects"] = meta["effects"] + 1
         /\ cache'[p]["effects"] = meta["effects"] + 1
         /\ "session" \in C => cache[p]["session"] = meta["session"]
         /\ meta'["session"] = IF "session" \in C THEN meta["session"] + 1
                                                  ELSE meta["session"]
         /\ "session" \notin C => cache'[p]["session"] = cache[p]["session"]
         /\ \A q \in Process \ {p} : cache'[q] = cache[q]
         /\ loaded' = loaded
<1>1. \A c \in C : cache[p][c] = meta[c]
  BY FreshWriter DEF StoreInv
<1>2. cache \in [Process -> [Counter -> Nat]] /\ "session" \in Counter
      /\ "effects" \in Counter
  BY DEF StoreInv, StoreTypeOK, Counter
<1> QED
  BY <1>1, <1>2 DEF Advance

\* The four transactions of the store, in these terms.
LEMMA BeginWrites ==
  ASSUME TypeOK, StoreInv, NEW p \in Process, NEW k \in Key,
         JournalBegin(p, k, turn[k])
  PROVE  RowBegun(p, k)
<1>1. journal \in [Key -> Row] /\ {"effects"} \in SUBSET Counter
      /\ "session" \notin {"effects"}
  BY DEF TypeOK, StoreTypeOK, Counter
<1>2. /\ RevisionFree(p, {"effects"}) /\ Advance(p, {"effects"})
      /\ journal' = [journal EXCEPT ![k] = Entry(p, "PLANNED", 0, turn[k], "none", 0)]
      /\ journal[k].state = "ABSENT"
      /\ UNCHANGED <<turnIndex, obligations, worldFacts>>
  BY DEF JournalBegin, BeginAccepted
<1> QED
  BY <1>1, <1>2, AcceptedWrites DEF RowBegun, Wrote, Entry

\* A transition to a terminal state settles the row, any other moves it.
LEMMA TransitionWritesRow ==
  ASSUME TypeOK, StoreInv, NEW p \in Process, NEW k \in Key, NEW source,
         NEW target \in JournalStates, NEW outcome,
         JournalTransition(p, k, source, target, outcome)
  PROVE  IF target \in TerminalStates THEN RowSettled(p, k) ELSE RowMoved(p, k)
<1>1. journal \in [Key -> Row] /\ Written(target) \in SUBSET Counter
      /\ "effects" \in Written(target)
      /\ ("session" \in Written(target) <=> target \in TerminalStates)
  BY DEF TypeOK, StoreTypeOK, Counter, Written
<1>2. /\ journal[k].state \notin TerminalStates \cup {"ABSENT"}
      /\ RevisionFree(p, Written(target)) /\ Advance(p, Written(target))
      /\ UNCHANGED <<obligations, worldFacts>>
      /\ turnIndex' = IF target \in TerminalStates THEN journal[k].turn ELSE turnIndex
  BY DEF JournalTransition, TransitionAccepted, Targets, TerminalStates
<1>3. /\ journal'[k].state = target /\ journal'[k].turn = journal[k].turn
      /\ journal'[k].rev = cache[p]["effects"] + 1
      /\ \A j \in Key \ {k} : journal'[j] = journal[j]
  BY <1>1 DEF JournalTransition, Entry
<1>4. target # "ABSENT"
  BY DEF JournalStates, NonTerminalStates, TerminalStates
<1>5. Wrote(p, k, target \in TerminalStates)
  BY <1>1, <1>2, <1>3, AcceptedWrites DEF Wrote
<1> QED
  BY <1>2, <1>3, <1>4, <1>5 DEF RowSettled, RowMoved, Wrote

\* A commit, and a learning outcome, settles the row.
LEMMA CommitWritesRow ==
  ASSUME TypeOK, StoreInv, NEW p \in Process, NEW k \in Key,
         JournalCommit(p, k) \/ CommitLearningOutcome(p, k)
  PROVE  RowSettled(p, k)
<1>1. journal \in [Key -> Row]
  BY DEF TypeOK, StoreTypeOK
<1>2. PICK C \in SUBSET Counter :
        "effects" \in C /\ "session" \in C /\ RevisionFree(p, C) /\ Advance(p, C)
  BY DEF JournalCommit, CommitAccepted, CommitLearningOutcome, LearningAccepted, Counter
<1>3. Wrote(p, k, TRUE)
  BY <1>1, <1>2, AcceptedWrites
  DEF Wrote, JournalCommit, CommitLearningOutcome, Entry
<1>4. /\ journal[k].state \in {"OBSERVED", "PLANNED"}
      /\ journal'[k].state \in {"COMMITTED", "NO_EFFECT"}
      /\ journal'[k].turn = journal[k].turn
      /\ turnIndex' = journal[k].turn
  BY <1>1 DEF JournalCommit, CommitAccepted, CommitLearningOutcome,
              LearningAccepted, Entry
<1>5. /\ obligations' = obligations \/ obligations' = obligations \cup {k}
      /\ worldFacts' = worldFacts \/ worldFacts' = worldFacts \cup {k}
  BY DEF JournalCommit, CommitLearningOutcome
<1> QED
  BY <1>3, <1>4, <1>5 DEF RowSettled, TerminalStates

\* A step of a call: its process is in it, keeps its key until it ends, and
\* writes at most the row of that key; a call that settles its row ends.
LEMMA CallWrites ==
  ASSUME TypeOK, StoreInv, NEW p \in Process, CallStep(p)
  PROVE  /\ pc[p] # "idle" /\ turn' = turn
         /\ \A q \in Process \ {p} : pc'[q] = pc[q] /\ key'[q] = key[q]
         /\ pc'[p] = "idle" \/ key'[p] = key[p]
         /\ \/ UNCHANGED storeVars
            \/ RowBegun(p, key[p]) /\ pc'[p] # "idle"
            \/ RowMoved(p, key[p])
            \/ RowSettled(p, key[p]) /\ pc'[p] = "idle"
<1> USE DEF JournalStates, NonTerminalStates, TerminalStates
<1>1. pc \in [Process -> PC] /\ key \in [Process -> Key] /\ held \in [Process -> Row]
  BY DEF TypeOK
<1>2. pc[p] # "idle"
  BY DEF CallStep, Begin, BeginRaced, Replay, PersistNoEffect, CommitLearning, Authorize,
         ObserveTrusted, CommitObservation, FailMissing, StartInvocation, Invoke,
         Reconcile, AdapterAnswers, RecordObserved, RecordPending, RecordFailure,
         Raise, WriteRefused, Running
<1>3. ASSUME NEW where \in PC \ {"idle"}, Goto(p, where), UNCHANGED key
      PROVE  /\ \A q \in Process \ {p} : pc'[q] = pc[q] /\ key'[q] = key[q]
             /\ pc'[p] # "idle" /\ key'[p] = key[p]
  BY <1>1, <1>3 DEF Goto
<1>4. ASSUME Forgotten(p)
      PROVE  /\ \A q \in Process \ {p} : pc'[q] = pc[q] /\ key'[q] = key[q]
             /\ pc'[p] = "idle"
  BY <1>1, <1>4 DEF Forgotten
<1>5. CASE \/ BeginRaced(p) \/ Invoke(p) \/ Reconcile(p) \/ AdapterAnswers(p)
  BY <1>2, <1>3, <1>5
  DEF BeginRaced, Invoke, Reconcile, AdapterAnswers, worldVars, PC
<1>6. CASE Replay(p) \/ Raise(p)
  BY <1>2, <1>4, <1>6 DEF Replay, Raise, Return, worldVars
<1>7. CASE Begin(p)
  BY <1>1, <1>2, <1>3, <1>7, BeginWrites DEF Begin, Keep, worldVars, PC
<1>8. CASE Authorize(p) \/ ObserveTrusted(p) \/ StartInvocation(p)
  BY <1>1, <1>2, <1>3, <1>8, TransitionWritesRow
  DEF Authorize, ObserveTrusted, StartInvocation, Keep, worldVars, PC
<1>9. CASE RecordObserved(p)
  BY <1>1, <1>2, <1>3, <1>9, TransitionWritesRow DEF RecordObserved, worldVars, PC
<1>10. CASE PersistNoEffect(p) \/ FailMissing(p) \/ RecordFailure(p)
  BY <1>1, <1>2, <1>4, <1>10, TransitionWritesRow
  DEF PersistNoEffect, FailMissing, RecordFailure, Return
<1>11. CASE RecordPending(p)
  BY <1>1, <1>2, <1>4, <1>11, TransitionWritesRow DEF RecordPending, Return
<1>12. CASE CommitLearning(p) \/ CommitObservation(p)
  BY <1>1, <1>2, <1>4, <1>12, CommitWritesRow
  DEF CommitLearning, CommitObservation, Return
<1> QED
  BY <1>5, <1>6, <1>7, <1>8, <1>9, <1>10, <1>11, <1>12 DEF CallStep

-----------------------------------------------------------------------------
(* Types.                                                                  *)

\* The record that stands for no situation is one.
LEMMA NoSituationTyped == NoSituation \in Situation
<1>1. (CHOOSE i \in Input : TRUE) \in Input
  BY TurnAssumption
<1> QED
  BY <1>1 DEF NoSituation, Situation

\* _effect_key names a key, made before or not.
LEMMA KeysTyped == \A s : EffectKeys(s) \subseteq Key
<1> SUFFICES ASSUME NEW s, NEW k \in EffectKeys(s) PROVE k \in Key
  OBVIOUS
<1>1. CASE {j \in Key : material[j] = s} # {}
  BY <1>1 DEF EffectKeys
<1>2. CASE {j \in Key : material[j] = s} = {}
  <2>1. PICK kind \in {g \in {ExternalKey, AdmitKey, ReadKey, LearnKey} :
                         Unused(g) # {}} : k = CHOOSE j \in Unused(kind) : TRUE
    BY <1>2 DEF EffectKeys
  <2>2. k \in Unused(kind)
    BY <2>1
  <2> QED
    BY <2>1, <2>2, KeyAssumption DEF Unused
<1> QED
  BY <1>1, <1>2

\* A session starts in the types of the model.
LEMMA TurnInitTyped == TurnInit => TurnTypeOK /\ StoreInv
<1> SUFFICES ASSUME TurnInit PROVE TurnTypeOK /\ StoreInv
  OBVIOUS
<1>1. TypeOK /\ StoreInv
  BY InitTyped DEF TurnInit
<1> QED
  BY <1>1, NoSituationTyped DEF TurnInit, TurnTypeOK

\* What every step of a turn is to the gateway: the call of a caller that keeps
\* its turn index, a step of a process or of the outside world, or none.
LEMMA TurnUsesGateway ==
  ASSUME TurnTypeOK, [TurnNext]_allVars
  PROVE  [AnyNext]_vars
<1>1. ASSUME NEW p \in Process, RunTurn(p) PROVE AnyNext
  <2>1. PICK k \in EffectKeys(draft[p]) : StartCall(p, k, draft[p].turn)
    BY <1>1 DEF RunTurn
  <2>2. k \in Key /\ draft[p].turn \in Nat
    BY KeysTyped DEF TurnTypeOK, Situation
  <2> QED
    BY <2>1, <2>2 DEF AnyNext
<1>2. ASSUME NEW p \in Process, TurnStep(p), ~ RunTurn(p)
      PROVE  [AnyNext]_vars
  BY <1>2
  DEF TurnStep, AnyNext, Underway, CloseBetween, Die, InCall, ReserveTurn,
      SnapshotObligations, SnapshotRefused, Abandon, Evaluate
<1>3. CASE \E k \in Key :
             (OperationStarts(k) \/ OperationEnds(k)) /\ UNCHANGED turnVars
  BY <1>3 DEF AnyNext, Underway
<1>4. CASE UNCHANGED allVars
  BY <1>4 DEF allVars
<1> QED
  BY <1>1, <1>2, <1>3, <1>4 DEF TurnNext

\* Drafts, materials and writers keep their types in every step.
LEMMA TurnVarsTyped ==
  ASSUME TurnTypeOK, StoreInv, TurnNext
  PROVE  /\ phase' \in [Process -> {"none", "reserved", "oriented", "evaluated", "r3"}]
         /\ draft' \in [Process -> Situation]
         /\ material' \in [Key -> Situation]
         /\ writer' \in [Key -> Process \cup {Nobody}]
<1> USE DEF TurnTypeOK
<1>1. CASE UNCHANGED turnVars
  BY <1>1 DEF turnVars
<1>2. SUFFICES ASSUME NEW p \in Process, TurnStep(p), ~ UNCHANGED turnVars
               PROVE  /\ phase' \in [Process -> {"none", "reserved", "oriented",
                                                 "evaluated", "r3"}]
                      /\ draft' \in [Process -> Situation]
                      /\ material' \in [Key -> Situation]
                      /\ writer' \in [Key -> Process \cup {Nobody}]
  BY <1>1 DEF TurnNext
<1>3. ASSUME EndTurn(p)
      PROVE  /\ phase' \in [Process -> {"none", "reserved", "oriented",
                                        "evaluated", "r3"}]
             /\ draft' \in [Process -> Situation]
  BY <1>3, NoSituationTyped DEF EndTurn
<1>4. ASSUME Attribute(p) PROVE writer' \in [Key -> Process \cup {Nobody}]
  BY <1>4 DEF Attribute
<1>5. CASE CloseBetween(p) \/ SnapshotRefused(p) \/ Abandon(p)
  BY <1>3, <1>5 DEF CloseBetween, SnapshotRefused, Abandon
<1>6. CASE Die(p)
  BY <1>3, <1>4, <1>6 DEF Die
<1>7. ASSUME NEW i \in Input, ReserveTurn(p, i)
      PROVE  /\ phase' \in [Process -> {"none", "reserved", "oriented",
                                        "evaluated", "r3"}]
             /\ draft' \in [Process -> Situation]
             /\ UNCHANGED <<material, writer>>
  <2>1. cache[p] \in [Counter -> Nat] /\ turnIndex + 1 \in Nat
    BY DEF StoreInv, StoreTypeOK
  <2> QED
    BY <1>7, <2>1 DEF ReserveTurn, Situation
<1>8. CASE SnapshotObligations(p)
  <2>1. obligations \in SUBSET Key /\ draft[p] \in Situation
    BY DEF StoreInv, StoreTypeOK
  <2>2. [draft[p] EXCEPT !.obligations = obligations] \in Situation
    BY <2>1 DEF Situation
  <2>3. draft' = [draft EXCEPT ![p] = [draft[p] EXCEPT !.obligations = obligations]]
    BY <1>8 DEF SnapshotObligations
  <2> QED
    BY <1>8, <2>2, <2>3 DEF SnapshotObligations
<1>9. CASE Evaluate(p)
  <2>1. worldFacts \in SUBSET Key /\ draft[p] \in Situation
    BY DEF StoreInv, StoreTypeOK
  <2>2. [draft[p] EXCEPT !.facts = worldFacts] \in Situation
    BY <2>1 DEF Situation
  <2>3. draft' = [draft EXCEPT ![p] = [draft[p] EXCEPT !.facts = worldFacts]]
    BY <1>9 DEF Evaluate
  <2> QED
    BY <1>9, <2>2, <2>3 DEF Evaluate
<1>10. CASE RunTurn(p)
  BY <1>10, KeysTyped DEF RunTurn
<1>11. CASE InCall(p)
  BY <1>4, <1>11 DEF InCall
<1> QED
  BY <1>2, <1>5, <1>6, <1>7, <1>8, <1>9, <1>10, <1>11 DEF TurnStep

\* Types and the invariant of the store go from step to step.
LEMMA TurnNextTyped ==
  TurnTypeOK /\ StoreInv /\ [TurnNext]_allVars => TurnTypeOK' /\ StoreInv'
<1> SUFFICES ASSUME TurnTypeOK, StoreInv, [TurnNext]_allVars
             PROVE  TurnTypeOK' /\ StoreInv'
  OBVIOUS
<1>1. TypeOK
  BY DEF TurnTypeOK
<1>2. TypeOK' /\ StoreInv'
  BY <1>1, TurnUsesGateway, NextTyped
<1>3. CASE UNCHANGED allVars
  BY <1>2, <1>3 DEF allVars, turnVars, TurnTypeOK
<1>4. CASE TurnNext
  BY <1>2, <1>4, TurnVarsTyped DEF TurnTypeOK
<1> QED
  BY <1>3, <1>4

\* Turn: the state of the gateway and of the turns is of its types.
THEOREM TurnsTyped == TurnSpec => [](TurnTypeOK /\ StoreInv)
  BY TurnInitTyped, TurnNextTyped, PTL DEF TurnSpec

-----------------------------------------------------------------------------
(* The turns are callers of the gateway, so what it guarantees to any       *)
(* caller holds while turns are oriented, abandoned and retried.           *)

\* Turns reach the store and the adapters through the gateway alone.
THEOREM TurnsUseGateway == TurnSpec => AnyCaller
<1>1. TurnInit => Init
  BY DEF TurnInit
<1>2. TurnTypeOK /\ [TurnNext]_allVars => [AnyNext]_vars
  BY TurnUsesGateway
<1> QED
  BY <1>1, <1>2, TurnsTyped, PTL DEF TurnSpec, AnyCaller

\* However turns are numbered, abandoned and repeated, an effect settles once,
\* with its facts, and its adapter is called at most once under a licence.
THEOREM TurnsKeepPromise == TurnSpec => PromiseKept
  BY TurnsUseGateway, AnyPromise, PTL

\* The one process that journaled the start of an operation calls its adapter,
\* once, also when the same input comes back in the same situation.
THEOREM TurnsInvokeOnce ==
  TurnSpec => [](AtMostOneInvocation /\ InvocationLicence /\ InvocationJournaled)
  BY TurnsUseGateway, AnyOnce, PTL

\* What turns read and are told is what happened outside, and one answer.
THEOREM TurnsAreTold ==
  TurnSpec => [](JournalTellsTheTruth /\ AnswersAgree)
<1>1. TruthInv => JournalTellsTheTruth
  BY DEF TruthInv
<1> QED
  BY <1>1, TurnsUseGateway, AnyTruth, AnyAnswers, PTL

\* The tables stay consistent with the journal while several processes take
\* turns: revisions, rows, facts, obligations and the revisions receipts name.
THEOREM TurnsStoreConsistent ==
  TurnSpec => [](/\ RevisionContinuity /\ RowsHaveTheirRevision
                 /\ WorldMatchesJournal /\ ObligationsMatchJournal
                 /\ CommittedPinsExact)
  BY TurnsUseGateway, AnyUsesStore, StoreConsistent, AnyObligations, StorePins, PTL

\* A turn never rewrites a receipt, and moves no revision but the durable one.
THEOREM TurnsStoreSteps == TurnSpec => TerminalRowsStay /\ CompareAndSwap
  BY TurnsUseGateway, AnyUsesStore, TerminalRowsNeverChange,
     RevisionsAreCompareAndSwap, PTL

-----------------------------------------------------------------------------
(* The invariant of the turns: its parts, group of steps by group of steps. *)

\* The steps that move one process's turn and write nothing.
DraftStep(p) ==
  \/ \E i \in Input : ReserveTurn(p, i)
  \/ SnapshotObligations(p) \/ SnapshotRefused(p) \/ Abandon(p) \/ Evaluate(p)

\* A draft is pinned to what the process has cached and reads what is stored.
LEMMA DraftKeeps ==
  ASSUME TurnTypeOK, StoreInv, TurnInv, NEW p \in Process, DraftStep(p)
  PROVE  TurnInv'
<1>1. /\ phase \in [Process -> {"none", "reserved", "oriented", "evaluated", "r3"}]
      /\ draft \in [Process -> Situation]
      /\ meta \in [Counter -> Nat] /\ cache \in [Process -> [Counter -> Nat]]
      /\ "session" \in Counter
  BY DEF TurnTypeOK, StoreInv, StoreTypeOK, Counter
<1>2. UNCHANGED <<vars, material, writer>>
  BY DEF DraftStep, ReserveTurn, SnapshotObligations, SnapshotRefused, Abandon, Evaluate
<1>3. UNCHANGED <<meta, journal, obligations, worldFacts, turnIndex, cache, loaded,
                  pc, key, turn, material, writer>>
  BY <1>2 DEF vars, storeVars, callVars, worldVars
<1>4. \A q \in Process \ {p} : phase'[q] = phase[q] /\ draft'[q] = draft[q]
  BY <1>1 DEF DraftStep, ReserveTurn, SnapshotObligations, SnapshotRefused, Abandon,
              Evaluate, EndTurn
<1>5. pc[p] = "idle" /\ Open(p)
  BY DEF DraftStep, ReserveTurn, SnapshotObligations, SnapshotRefused, Abandon,
         Evaluate, Between, TurnInv, CallsPinned
<1>6. /\ phase'[p] # "none" => Numbered(draft'[p])
      /\ phase'[p] = "evaluated" => draft'[p].pin = cache[p]
      /\ draft'[p].turn = meta["session"] + 1 =>
           /\ phase'[p] \in {"oriented", "evaluated"} =>
                draft'[p].obligations = obligations
           /\ phase'[p] = "evaluated" => draft'[p].facts = worldFacts
  <2>1. CASE \E i \in Input : ReserveTurn(p, i)
    <3>1. draft'[p].pin = cache[p] /\ draft'[p].turn = turnIndex + 1
          /\ phase'[p] = "reserved"
      BY <1>1, <2>1 DEF ReserveTurn
    <3>2. cache[p]["session"] <= meta["session"] /\ turnIndex = meta["session"]
      BY <1>1 DEF StoreInv, CacheBehind, TurnInv, TurnsConcludeInOrder
    <3> QED
      BY <1>1, <3>1, <3>2 DEF Numbered
  <2>2. CASE SnapshotObligations(p)
    <3>1. /\ draft[p] \in Situation /\ phase[p] = "reserved"
          /\ draft' = [draft EXCEPT ![p] = [draft[p] EXCEPT !.obligations = obligations]]
          /\ phase'[p] = "oriented"
      BY <1>1, <2>2 DEF SnapshotObligations
    <3>2. draft'[p].pin = draft[p].pin /\ draft'[p].turn = draft[p].turn
          /\ draft'[p].obligations = obligations
      BY <1>1, <3>1 DEF Situation
    <3> QED
      BY <3>1, <3>2 DEF Numbered, TurnInv, NumbersFollow
  <2>3. CASE SnapshotRefused(p) \/ Abandon(p)
    BY <1>1, <2>3 DEF SnapshotRefused, Abandon, EndTurn
  <2>4. CASE Evaluate(p)
    <3>1. /\ draft[p] \in Situation /\ phase[p] = "oriented" /\ draft[p].pin = cache[p]
          /\ draft' = [draft EXCEPT ![p] = [draft[p] EXCEPT !.facts = worldFacts]]
          /\ phase'[p] = "evaluated"
      BY <1>1, <2>4 DEF Evaluate
    <3>2. /\ draft'[p].pin = draft[p].pin /\ draft'[p].turn = draft[p].turn
          /\ draft'[p].obligations = draft[p].obligations
          /\ draft'[p].facts = worldFacts
      BY <1>1, <3>1 DEF Situation
    <3> QED
      BY <3>1, <3>2 DEF Numbered, TurnInv, NumbersFollow, ViewsCurrent
  <2> QED
    BY <2>1, <2>2, <2>3, <2>4 DEF DraftStep
<1>7. (\A q \in Process : Numbered(draft[q])' <=> Numbered(draft'[q]))
      /\ \A k \in Key : Numbered(material[k])' <=> Numbered(material[k])
  BY <1>3 DEF Numbered
<1>8. NumbersFollow'
  BY <1>3, <1>4, <1>6, <1>7 DEF NumbersFollow, Numbered, TurnInv
<1>9. RowsOfSituations' /\ WritersCall' /\ TurnsConcludeInOrder' /\ TurnsSerial'
  BY <1>3 DEF RowsOfSituations, WritersCall, TurnsConcludeInOrder, TurnsSerial,
              Concluded, Settled, TurnInv
<1>10. CallsPinned'
  BY <1>3, <1>4, <1>5, <1>6 DEF CallsPinned, Open, TurnInv
<1>11. ViewsCurrent'
  BY <1>3, <1>4, <1>6 DEF ViewsCurrent, Settled, TurnInv
<1> QED
  BY <1>8, <1>9, <1>10, <1>11 DEF TurnInv

\* A turn's call finds the key of its situation, or an unused one.
LEMMA KeyOfSituation ==
  ASSUME TurnTypeOK, NEW s, NEW k \in EffectKeys(s)
  PROVE  k \in Key /\ (material[k] = s \/ material[k].turn = 0)
<1>1. CASE {j \in Key : material[j] = s} # {}
  BY <1>1 DEF EffectKeys
<1>2. CASE {j \in Key : material[j] = s} = {}
  <2>1. PICK kind \in {g \in {ExternalKey, AdmitKey, ReadKey, LearnKey} :
                         Unused(g) # {}} : k = CHOOSE j \in Unused(kind) : TRUE
    BY <1>2 DEF EffectKeys
  <2>2. k \in Unused(kind)
    BY <2>1
  <2> QED
    BY <2>1, <2>2, KeyAssumption DEF Unused
<1> QED
  BY <1>1, <1>2

\* The call of a turn takes over its draft, pinned to what its process has seen.
LEMMA RunTurnKeeps ==
  ASSUME TurnTypeOK, StoreInv, TurnInv, NEW p \in Process, RunTurn(p)
  PROVE  TurnInv'
<1>1. /\ phase \in [Process -> {"none", "reserved", "oriented", "evaluated", "r3"}]
      /\ material \in [Key -> Situation] /\ turn \in [Key -> Nat]
      /\ pc \in [Process -> PC] /\ key \in [Process -> Key]
      /\ draft[p].turn \in Nat /\ draft[p].pin \in [Counter -> Nat]
      /\ meta \in [Counter -> Nat] /\ "session" \in Counter
  BY DEF TurnTypeOK, TypeOK, StoreTypeOK, Counter, Situation
<1>2. PICK k \in EffectKeys(draft[p]) :
        /\ pc' = [pc EXCEPT ![p] = IF journal[k].state = "ABSENT" THEN "begin" ELSE "run"]
        /\ key' = [key EXCEPT ![p] = k]
        /\ turn' = [turn EXCEPT ![k] = draft[p].turn]
        /\ material' = [material EXCEPT ![k] = draft[p]]
  BY DEF RunTurn, StartCall
<1>3. k \in Key /\ (material[k] = draft[p] \/ material[k].turn = 0)
  BY KeyOfSituation
<1>4. /\ phase[p] = "evaluated" /\ phase' = [phase EXCEPT ![p] = "r3"]
      /\ UNCHANGED <<meta, journal, obligations, worldFacts, turnIndex, cache, loaded,
                     draft, writer>>
  BY DEF RunTurn, StartCall, storeVars
<1>5. /\ Numbered(draft[p]) /\ draft[p].turn # 0 /\ draft[p].pin = cache[p]
      /\ pc[p] = "idle" /\ Open(p)
  BY <1>1, <1>4 DEF TurnInv, NumbersFollow, Numbered, CallsPinned
<1>6. /\ material'[k] = draft[p] /\ turn'[k] = draft[p].turn
      /\ \A j \in Key \ {k} : material'[j] = material[j] /\ turn'[j] = turn[j]
  BY <1>1, <1>2, <1>3
<1>7. \A j \in Key : material[j].turn # 0 => material'[j] = material[j]
  BY <1>3, <1>6
<1>8. \A j \in Key : journal[j].state # "ABSENT" => material[j].turn # 0
  BY DEF TurnInv, RowsOfSituations
<1>9. NumbersFollow'
  BY <1>4, <1>5, <1>6 DEF NumbersFollow, Numbered, TurnInv
<1>10. RowsOfSituations'
  BY <1>4, <1>6, <1>7, <1>8 DEF RowsOfSituations, TurnInv
<1>11. CallsPinned'
  <2>1. SUFFICES ASSUME NEW q \in Process
          PROVE /\ phase'[q] # "none" => Open(q)
                /\ phase'[q] = "evaluated" => draft[q].pin = cache[q]
                /\ pc'[q] # "idle" =>
                     /\ phase'[q] = "r3"
                     /\ material'[key'[q]].turn # 0
                     /\ material'[key'[q]].pin["session"] = cache[q]["session"]
                     /\ \/ writer[key'[q]] = q
                        \/ material'[key'[q]].pin["effects"] = cache[q]["effects"]
    BY <1>4 DEF CallsPinned, Open
  <2>2. CASE q = p
    BY <1>1, <1>2, <1>3, <1>4, <1>5, <1>6, <2>2
  <2>3. CASE q # p
    <3>1. pc'[q] = pc[q] /\ key'[q] = key[q] /\ phase'[q] = phase[q] /\ key[q] \in Key
      BY <1>1, <1>2, <1>3, <1>4, <2>3
    <3> QED
      BY <1>7, <3>1 DEF TurnInv, CallsPinned
  <2> QED
    BY <2>2, <2>3
<1>12. WritersCall'
  BY <1>1, <1>2, <1>3, <1>4, <1>5 DEF WritersCall, TurnInv
<1>13. ViewsCurrent'
  <2>1. \A q \in Process : phase'[q] \in {"oriented", "evaluated"} => phase'[q] = phase[q]
    BY <1>1, <1>4
  <2>2. draft[p].turn = meta["session"] + 1 =>
          draft[p].obligations = obligations /\ draft[p].facts = worldFacts
    BY <1>4 DEF TurnInv, ViewsCurrent
  <2> QED
    BY <1>4, <1>6, <2>1, <2>2 DEF TurnInv, ViewsCurrent, Settled
<1>14. TurnsConcludeInOrder'
  BY <1>4 DEF TurnInv, TurnsConcludeInOrder, Concluded, Settled
<1>15. TurnsSerial'
  <2>1. \A j \in Key : Settled(j) => material'[j] = material[j]
    BY <1>7, <1>8 DEF Settled, TerminalStates
  <2> QED
    BY <1>4, <2>1 DEF TurnInv, TurnsSerial, Concluded, Settled
<1> QED
  BY <1>9, <1>10, <1>11, <1>12, <1>13, <1>14, <1>15 DEF TurnInv

\* A process that opens the store, or is gone, takes no part in any call.
LEMMA ProcessKeeps ==
  ASSUME TurnTypeOK, StoreInv, TurnInv, NEW p \in Process,
         (Load(p) /\ UNCHANGED turnVars) \/ CloseBetween(p) \/ Die(p)
  PROVE  TurnInv'
<1>1. /\ phase \in [Process -> {"none", "reserved", "oriented", "evaluated", "r3"}]
      /\ draft \in [Process -> Situation] /\ loaded \in [Process -> 0..4]
      /\ pc \in [Process -> PC] /\ key \in [Process -> Key]
      /\ writer \in [Key -> Process \cup {Nobody}]
      /\ cache \in [Process -> [Counter -> Nat]]
  BY DEF TurnTypeOK, TypeOK, StoreTypeOK
<1>2. UNCHANGED <<meta, journal, obligations, worldFacts, turnIndex, turn, material>>
  BY DEF Load, LoadNext, CloseBetween, Close, Die, Crash, Forget, turnVars, worldVars
<1>3. phase'[p] = "none" /\ pc'[p] = "idle"
  <2>1. CASE Load(p) /\ UNCHANGED turnVars
    <3>1. ~ Open(p) /\ phase' = phase /\ pc' = pc
      BY <1>1, <2>1 DEF Load, LoadNext, Open, turnVars
    <3> QED
      BY <3>1 DEF TurnInv, CallsPinned
  <2>2. CASE CloseBetween(p)
    BY <1>1, <2>2 DEF CloseBetween, Close, Between, EndTurn
  <2>3. CASE Die(p)
    BY <1>1, <2>3 DEF Die, Crash, EndTurn, Forgotten
  <2> QED
    BY <2>1, <2>2, <2>3
<1>4. \A q \in Process \ {p} : /\ phase'[q] = phase[q] /\ draft'[q] = draft[q]
                               /\ pc'[q] = pc[q] /\ key'[q] = key[q]
                               /\ cache'[q] = cache[q] /\ loaded'[q] = loaded[q]
  BY <1>1 DEF Load, LoadNext, CloseBetween, Close, Die, Crash, EndTurn, Forget,
              Forgotten, turnVars
<1>5. \A k \in Key : writer'[k] = IF writer[k] = p THEN Nobody ELSE writer[k]
  <2>1. CASE Die(p)
    BY <1>1, <1>2, <1>3, <2>1 DEF Die, Attribute
  <2>2. CASE CloseBetween(p) \/ (Load(p) /\ UNCHANGED turnVars)
    <3>1. pc[p] = "idle" /\ writer' = writer
      BY <1>3, <2>2 DEF CloseBetween, Between, Load, turnVars
    <3>2. \A k \in Key : writer[k] # p
      BY <3>1, TurnAssumption DEF TurnInv, WritersCall
    <3> QED
      BY <3>1, <3>2
  <2> QED
    BY <2>1, <2>2
<1>6. NumbersFollow'
  BY <1>2, <1>3, <1>4 DEF NumbersFollow, Numbered, TurnInv
<1>7. RowsOfSituations' /\ TurnsConcludeInOrder' /\ TurnsSerial'
  BY <1>2 DEF RowsOfSituations, TurnsConcludeInOrder, TurnsSerial, Concluded, Settled,
              TurnInv
<1>8. CallsPinned'
  <2>1. SUFFICES ASSUME NEW q \in Process \ {p}
          PROVE /\ phase[q] # "none" => loaded'[q] = 4
                /\ phase[q] = "evaluated" => draft[q].pin = cache[q]
                /\ pc[q] # "idle" =>
                     /\ phase[q] = "r3"
                     /\ material[key[q]].turn # 0
                     /\ material[key[q]].pin["session"] = cache[q]["session"]
                     /\ \/ writer'[key[q]] = q
                        \/ material[key[q]].pin["effects"] = cache[q]["effects"]
    BY <1>2, <1>3, <1>4 DEF CallsPinned, Open
  <2>2. key[q] \in Key
    BY <1>1
  <2> QED
    BY <1>4, <1>5, <2>2 DEF CallsPinned, Open, TurnInv
<1>9. WritersCall'
  <2>1. SUFFICES ASSUME NEW k \in Key, writer'[k] # Nobody
                 PROVE  /\ journal[k].state # "ABSENT"
                        /\ pc'[writer'[k]] # "idle" /\ key'[writer'[k]] = k
    BY <1>2 DEF WritersCall
  <2>2. writer'[k] = writer[k] /\ writer[k] \in Process \ {p}
    BY <1>1, <1>5, <2>1
  <2> QED
    BY <1>4, <2>1, <2>2 DEF WritersCall, TurnInv
<1>10. ViewsCurrent'
  BY <1>2, <1>3, <1>4 DEF ViewsCurrent, Settled, TurnInv
<1> QED
  BY <1>6, <1>7, <1>8, <1>9, <1>10 DEF TurnInv

-----------------------------------------------------------------------------
(* The steps of a call.                                                    *)

\* Only the call that began a row moves it: any other is pinned to effects
\* older than the row, and its write is refused.
LEMMA MoverIsWriter ==
  ASSUME TurnTypeOK, StoreInv, TurnInv, NEW p \in Process, pc[p] # "idle",
         journal[key[p]].state # "ABSENT", cache[p]["effects"] = meta["effects"]
  PROVE  writer[key[p]] = p
<1>1. key[p] \in Key /\ meta["effects"] \in Nat /\ journal[key[p]] \in Row
      /\ material[key[p]].pin["effects"] \in Nat
  BY DEF TurnTypeOK, TypeOK, StoreTypeOK, Counter, Situation
<1>2. journal[key[p]].rev <= meta["effects"] /\ journal[key[p]].rev \in Nat
  BY <1>1 DEF StoreInv, RowsHaveTheirRevision, Row
<1>3. material[key[p]].pin["effects"] < journal[key[p]].rev
  BY <1>1 DEF TurnInv, RowsOfSituations
<1> QED
  BY <1>1, <1>2, <1>3 DEF TurnInv, CallsPinned

\* How the writers of rows change in a step of a call.
LEMMA WritersOfCall ==
  ASSUME TurnTypeOK, StoreInv, TurnInv, NEW p \in Process, InCall(p)
  PROVE  \A k \in Key :
           IF k = key[p] /\ journal[k].state = "ABSENT" /\ journal'[k].state # "ABSENT"
           THEN writer'[k] = p
           ELSE writer'[k] = IF writer[k] = p /\ pc'[p] = "idle" THEN Nobody
                                                                 ELSE writer[k]
<1>1. SUFFICES ASSUME NEW k \in Key
               PROVE  IF k = key[p] /\ journal[k].state = "ABSENT"
                                    /\ journal'[k].state # "ABSENT"
                      THEN writer'[k] = p
                      ELSE writer'[k] = IF writer[k] = p /\ pc'[p] = "idle"
                                        THEN Nobody ELSE writer[k]
  OBVIOUS
<1>2. k # key[p] => journal'[k] = journal[k]
  BY CallWrites DEF InCall, TurnTypeOK, RowBegun, RowMoved, RowSettled, Wrote, storeVars
<1>3. writer[k] = p => journal[k].state # "ABSENT"
  BY TurnAssumption DEF TurnInv, WritersCall
<1>4. writer'[k] = CASE journal[k].state = "ABSENT" /\ journal'[k].state # "ABSENT" -> p
                     [] writer[k] = p /\ pc'[p] = "idle" -> Nobody
                     [] OTHER -> writer[k]
  BY DEF InCall, Attribute
<1> QED
  BY <1>2, <1>3, <1>4

\* A write within a call: the revisions its process has seen are the durable
\* ones, and the row is its own.
LEMMA WriteMoves ==
  ASSUME TurnTypeOK, StoreInv, TurnInv, NEW p \in Process, pc[p] # "idle",
         NEW concludes \in BOOLEAN, Wrote(p, key[p], concludes)
  PROVE  /\ journal[key[p]].state # "ABSENT" => writer[key[p]] = p
         /\ concludes => /\ material[key[p]].pin["session"] = meta["session"]
                         /\ material[key[p]].turn = meta["session"] + 1
                         /\ material[key[p]].obligations = obligations
                         /\ material[key[p]].facts = worldFacts
<1>1. journal[key[p]].state # "ABSENT" => writer[key[p]] = p
  BY MoverIsWriter DEF Wrote
<1>2. ASSUME concludes
      PROVE  /\ material[key[p]].pin["session"] = meta["session"]
             /\ material[key[p]].turn = meta["session"] + 1
  <2>1. /\ key[p] \in Key /\ meta["session"] \in Nat
        /\ material[key[p]].turn \in Nat
    BY DEF TurnTypeOK, TypeOK, StoreTypeOK, Counter, Situation
  <2>2. cache[p]["session"] = meta["session"]
    BY <1>2 DEF Wrote
  <2>3. /\ material[key[p]].pin["session"] = meta["session"]
        /\ Numbered(material[key[p]])
    BY <2>1, <2>2 DEF TurnInv, CallsPinned, NumbersFollow
  <2> QED
    BY <2>1, <2>3 DEF Numbered
<1>3. key[p] \in Key
  BY DEF TurnTypeOK, TypeOK
<1> QED
  BY <1>1, <1>2, <1>3 DEF TurnInv, ViewsCurrent

\* What does not depend on whether the write concludes the turn.
LEMMA CallKeepsPins ==
  ASSUME TurnTypeOK, StoreInv, TurnInv, NEW p \in Process, InCall(p)
  PROVE  NumbersFollow' /\ RowsOfSituations' /\ CallsPinned' /\ WritersCall'
<1> DEFINE k == key[p]
<1>1. /\ pc \in [Process -> PC] /\ key \in [Process -> Key] /\ k \in Key
      /\ meta \in [Counter -> Nat] /\ cache \in [Process -> [Counter -> Nat]]
      /\ material \in [Key -> Situation]
      /\ writer \in [Key -> Process \cup {Nobody}]
      /\ writer' \in [Key -> Process \cup {Nobody}]
      /\ "session" \in Counter /\ "effects" \in Counter
  BY DEF TurnTypeOK, TypeOK, StoreTypeOK, Counter, InCall, Attribute
<1>2. /\ pc[p] # "idle" /\ turn' = turn
      /\ UNCHANGED <<phase, draft, material>>
      /\ \A q \in Process \ {p} : pc'[q] = pc[q] /\ key'[q] = key[q]
      /\ pc'[p] = "idle" \/ key'[p] = key[p]
      /\ \/ UNCHANGED storeVars
         \/ RowBegun(p, k) /\ pc'[p] # "idle"
         \/ RowMoved(p, k)
         \/ RowSettled(p, k) /\ pc'[p] = "idle"
  BY CallWrites DEF InCall, TurnTypeOK
<1>3. /\ meta'["session"] \in {meta["session"], meta["session"] + 1}
      /\ loaded' = loaded
      /\ \A q \in Process \ {p} : cache'[q] = cache[q]
      /\ \A j \in Key \ {k} : journal'[j] = journal[j]
      /\ journal'[k] = journal[k] \/ Wrote(p, k, FALSE) \/ Wrote(p, k, TRUE)
  BY <1>2 DEF storeVars, RowBegun, RowMoved, RowSettled, Wrote
<1>4. /\ journal'[k].state = "ABSENT" => journal[k].state = "ABSENT"
      /\ pc'[p] # "idle" => /\ cache'[p]["session"] = cache[p]["session"]
                            /\ \/ cache'[p]["effects"] = cache[p]["effects"]
                               \/ journal'[k].state # "ABSENT"
  BY <1>2 DEF storeVars, RowBegun, RowMoved, RowSettled, Wrote, TerminalStates
<1>5. NumbersFollow'
  <2>1. \A s \in Situation :
          s.pin["session"] < s.turn /\ s.turn <= meta["session"] + 1
            => s.pin["session"] < s.turn /\ s.turn <= meta'["session"] + 1
    BY <1>1, <1>3 DEF Situation
  <2>2. draft \in [Process -> Situation]
    BY DEF TurnTypeOK
  <2> QED
    BY <1>1, <1>2, <2>1, <2>2 DEF NumbersFollow, Numbered, TurnInv
<1>6. RowsOfSituations'
  <2>1. SUFFICES ASSUME NEW j \in Key, journal'[j].state # "ABSENT"
                 PROVE  /\ material[j].turn # 0
                        /\ journal'[j].turn = material[j].turn
                        /\ material[j].pin["effects"] < journal'[j].rev
    BY <1>2 DEF RowsOfSituations, TurnInv
  <2>2. CASE journal'[j] = journal[j]
    BY <2>1, <2>2 DEF RowsOfSituations, TurnInv
  <2>3. CASE journal'[j] # journal[j]
    <3>1. j = k /\ (RowBegun(p, k) \/ RowMoved(p, k) \/ RowSettled(p, k))
      BY <1>2, <1>3, <2>3 DEF storeVars
    <3>2. /\ journal'[j].rev = meta["effects"] + 1
          /\ cache[p]["effects"] = meta["effects"]
      BY <3>1 DEF RowBegun, RowMoved, RowSettled, Wrote
    <3>3. journal'[j].turn = turn[j] \/ (/\ journal[j].state # "ABSENT"
                                        /\ journal'[j].turn = journal[j].turn)
      BY <3>1 DEF RowBegun, RowMoved, RowSettled
    <3>4. material[j].turn # 0 /\ turn[j] = material[j].turn
          /\ (journal[j].state # "ABSENT" => journal[j].turn = material[j].turn)
      BY <1>2, <3>1 DEF TurnInv, CallsPinned, RowsOfSituations
    <3>5. material[j].pin["effects"] <= meta["effects"]
      <4>1. CASE journal[j].state = "ABSENT"
        <5>1. writer[j] # p
          BY <4>1, TurnAssumption DEF TurnInv, WritersCall
        <5> QED
          BY <1>1, <1>2, <3>1, <3>2, <5>1 DEF TurnInv, CallsPinned, Situation
      <4>2. CASE journal[j].state # "ABSENT"
        <5>1. journal[j].rev \in 1..meta["effects"]
          BY <4>2 DEF StoreInv, RowsHaveTheirRevision
        <5>2. material[j].pin["effects"] < journal[j].rev
          BY <4>2 DEF TurnInv, RowsOfSituations
        <5> QED
          BY <1>1, <5>1, <5>2 DEF Situation
      <4> QED
        BY <4>1, <4>2
    <3> QED
      BY <1>1, <3>2, <3>3, <3>4, <3>5 DEF Situation
  <2> QED
    BY <2>2, <2>3
<1>7. \A j \in Key :
        IF j = k /\ journal[j].state = "ABSENT" /\ journal'[j].state # "ABSENT"
        THEN writer'[j] = p
        ELSE writer'[j] = IF writer[j] = p /\ pc'[p] = "idle" THEN Nobody
                                                              ELSE writer[j]
  BY WritersOfCall
<1>8. CallsPinned'
  <2>1. SUFFICES ASSUME NEW q \in Process
          PROVE /\ phase[q] # "none" => loaded[q] = 4
                /\ phase[q] = "evaluated" => draft[q].pin = cache'[q]
                /\ pc'[q] # "idle" =>
                     /\ phase[q] = "r3"
                     /\ material[key'[q]].turn # 0
                     /\ material[key'[q]].pin["session"] = cache'[q]["session"]
                     /\ \/ writer'[key'[q]] = q
                        \/ material[key'[q]].pin["effects"] = cache'[q]["effects"]
    BY <1>2, <1>3 DEF CallsPinned, Open
  <2>2. CASE q # p
    <3>1. /\ cache'[q] = cache[q] /\ pc'[q] = pc[q] /\ key'[q] = key[q] /\ key[q] \in Key
      BY <1>1, <1>2, <1>3, <2>2
    <3>2. writer[key[q]] = q => writer'[key[q]] = q
      <4>1. writer[key[q]] = q => journal[key[q]].state # "ABSENT"
        BY <3>1, TurnAssumption DEF TurnInv, WritersCall
      <4> QED
        BY <1>7, <2>2, <3>1, <4>1
    <3> QED
      BY <3>1, <3>2 DEF TurnInv, CallsPinned, Open
  <2>3. CASE q = p
    <3>1. phase[p] = "r3" /\ loaded[p] = 4
      BY <1>2 DEF TurnInv, CallsPinned, Open
    <3>2. ASSUME pc'[p] # "idle"
          PROVE  /\ key'[p] = k
                 /\ material[k].turn # 0
                 /\ material[k].pin["session"] = cache'[p]["session"]
                 /\ \/ writer'[k] = p
                    \/ material[k].pin["effects"] = cache'[p]["effects"]
      <4>1. /\ material[k].turn # 0 /\ key'[p] = k
            /\ material[k].pin["session"] = cache'[p]["session"]
        BY <1>2, <1>4, <3>2 DEF TurnInv, CallsPinned
      <4>2. CASE writer[k] = p
        BY <1>1, <1>7, <3>2, <4>1, <4>2
      <4>3. CASE writer[k] # p /\ cache'[p]["effects"] = cache[p]["effects"]
        BY <1>2, <4>1, <4>3 DEF TurnInv, CallsPinned
      <4>4. CASE writer[k] # p /\ cache'[p]["effects"] # cache[p]["effects"]
        <5>1. RowBegun(p, k) \/ RowMoved(p, k) \/ RowSettled(p, k)
          BY <1>2, <4>4 DEF storeVars
        <5>2. cache[p]["effects"] = meta["effects"]
          BY <5>1 DEF RowBegun, RowMoved, RowSettled, Wrote
        <5>3. journal[k].state = "ABSENT" /\ journal'[k].state # "ABSENT"
          BY <1>2, <1>4, <3>2, <4>4, <5>2, MoverIsWriter
        <5> QED
          BY <1>1, <1>7, <4>1, <5>3
      <4> QED
        BY <4>2, <4>3, <4>4
    <3> QED
      BY <2>3, <3>1, <3>2
  <2> QED
    BY <2>2, <2>3
<1>9. WritersCall'
  <2>1. SUFFICES ASSUME NEW j \in Key, writer'[j] # Nobody
                 PROVE  /\ journal'[j].state # "ABSENT"
                        /\ pc'[writer'[j]] # "idle" /\ key'[writer'[j]] = j
    BY DEF WritersCall
  <2>2. CASE j = k /\ journal[j].state = "ABSENT" /\ journal'[j].state # "ABSENT"
    <3>1. writer'[j] = p
      BY <1>7, <2>2
    <3>2. RowBegun(p, k) /\ pc'[p] # "idle"
      BY <1>2, <2>2 DEF storeVars, RowMoved, RowSettled
    <3> QED
      BY <1>2, <2>2, <3>1, <3>2
  <2>3. CASE ~(j = k /\ journal[j].state = "ABSENT" /\ journal'[j].state # "ABSENT")
    <3>1. writer'[j] = writer[j] /\ ~(writer[j] = p /\ pc'[p] = "idle")
      BY <1>7, <2>1, <2>3
    <3>2. /\ journal[j].state # "ABSENT" /\ pc[writer[j]] # "idle"
          /\ key[writer[j]] = j /\ writer[j] \in Process
      BY <1>1, <2>1, <3>1 DEF TurnInv, WritersCall
    <3>3. journal'[j].state # "ABSENT"
      BY <1>3, <1>4, <3>2
    <3> QED
      BY <1>2, <3>1, <3>2, <3>3
  <2> QED
    BY <2>2, <2>3
<1> QED
  BY <1>5, <1>6, <1>8, <1>9

\* Every concluded turn has a number that the session has reached.
LEMMA ConcludedNumbers ==
  ASSUME TurnInv, meta["session"] \in Nat
  PROVE  /\ turnIndex = meta["session"]
         /\ {journal[k].turn : k \in Concluded} = 1..turnIndex
         /\ \A j \in Key : Settled(j) => journal[j].turn \in 1..turnIndex
<1>1. /\ turnIndex = meta["session"]
      /\ {journal[k].turn : k \in Concluded} = 1..turnIndex
  BY DEF TurnInv, TurnsConcludeInOrder
<1>2. \A j \in Key : Settled(j) =>
        journal[j].turn \in {journal[k].turn : k \in Concluded}
  BY DEF Concluded
<1> QED
  BY <1>1, <1>2

\* A conclusion is the next turn, and was decided on what the store held.
LEMMA SettleKeepsOrder ==
  ASSUME TurnTypeOK, StoreInv, TurnInv, NEW p \in Process, pc[p] # "idle",
         RowSettled(p, key[p]), UNCHANGED <<phase, draft, material>>
  PROVE  ViewsCurrent' /\ TurnsConcludeInOrder' /\ TurnsSerial'
<1> DEFINE k == key[p]
           n == meta["session"] + 1
<1>1. /\ k \in Key /\ meta["session"] \in Nat /\ material \in [Key -> Situation]
      /\ draft \in [Process -> Situation]
      /\ obligations \subseteq Key /\ worldFacts \subseteq Key
  BY DEF TurnTypeOK, TypeOK, StoreTypeOK, Counter
<1>2. /\ material[k].pin["session"] = meta["session"]
      /\ material[k].turn = n
      /\ material[k].obligations = obligations
      /\ material[k].facts = worldFacts
  <2>1. Wrote(p, key[p], TRUE)
    BY DEF RowSettled
  <2> QED
    BY <2>1, WriteMoves
<1>3. /\ journal[k].turn = n
      /\ journal'[k].turn = n /\ turnIndex' = n
      /\ ~ Settled(k) /\ journal'[k].state \in TerminalStates
      /\ \A j \in Key \ {k} : journal'[j] = journal[j]
      /\ meta'["session"] = n
      /\ obligations' \in {obligations, obligations \cup {k}}
      /\ worldFacts' \in {worldFacts, worldFacts \cup {k}}
  BY <1>1, <1>2
  DEF RowSettled, Wrote, Settled, TurnInv, RowsOfSituations
<1>4. /\ turnIndex = meta["session"]
      /\ {journal[j].turn : j \in Concluded} = 1..turnIndex
      /\ \A j \in Key : Settled(j) => journal[j].turn \in 1..turnIndex
  BY <1>1, ConcludedNumbers
<1>5. \A j \in Key : journal'[j].state \in TerminalStates <=> (Settled(j) \/ j = k)
  BY <1>3 DEF Settled
<1>6. \A j \in Key : Settled(j) => j # k /\ journal'[j] = journal[j]
                                   /\ journal[j].turn < n /\ journal[j].turn \in Nat
  BY <1>1, <1>3, <1>4
<1>7. /\ obligations \subseteq {j \in Key : Settled(j)}
      /\ worldFacts \subseteq {j \in Key : Settled(j)}
  BY <1>1 DEF TurnInv, ViewsCurrent, StoreInv, WorldMatchesJournal, Settled, TerminalStates
<1>8. ViewsCurrent'
  <2>1. /\ \A q \in Process : phase[q] \in {"oriented", "evaluated"} => draft[q].turn # n + 1
        /\ \A j \in Key : material[j].turn # n + 1
    <3>1. /\ \A q \in Process : phase[q] # "none" => draft[q].turn <= n
          /\ \A j \in Key : material[j].turn = 0 \/ material[j].turn <= n
      BY DEF TurnInv, NumbersFollow, Numbered
    <3>2. /\ \A q \in Process : draft[q].turn \in Nat
          /\ \A j \in Key : material[j].turn \in Nat
      BY <1>1 DEF Situation
    <3> QED
      BY <1>1, <3>1, <3>2
  <2>2. \A j \in obligations' : j \in Key /\ journal'[j].state \in TerminalStates
    BY <1>1, <1>3, <1>5, <1>7
  <2> QED
    BY <1>3, <2>1, <2>2 DEF ViewsCurrent, Settled
<1>9. TurnsConcludeInOrder'
  <2>1. Concluded' = Concluded \cup {k}
    BY <1>1, <1>5 DEF Concluded, Settled
  <2>2. {journal'[j].turn : j \in Concluded'} = {journal[j].turn : j \in Concluded} \cup {n}
    <3>1. \A j \in Concluded : journal'[j].turn = journal[j].turn
      BY <1>6 DEF Concluded
    <3> QED
      BY <1>3, <2>1, <3>1
  <2>3. {journal'[j].turn : j \in Concluded'} = 1..n
    <3>1. (1..turnIndex) \cup {n} = 1..n
      BY <1>1, <1>4
    <3> QED
      BY <1>4, <2>2, <3>1
  <2>4. \A i, j \in Concluded' : i # j => journal'[i].turn # journal'[j].turn
    <3>1. \A i, j \in Concluded : i # j => journal[i].turn # journal[j].turn
      BY DEF TurnInv, TurnsConcludeInOrder
    <3>2. \A j \in Concluded : j \in Key /\ Settled(j)
      BY DEF Concluded
    <3> QED
      BY <1>1, <1>3, <1>6, <2>1, <3>1, <3>2
  <2> QED
    BY <1>3, <2>3, <2>4 DEF TurnsConcludeInOrder
<1>10. TurnsSerial'
  <2>1. \A S, T : S \subseteq {j \in Key : Settled(j)} /\ T \in {S, S \cup {k}} =>
          /\ S = {j \in T : journal'[j].turn < n}
          /\ \A i \in Key : Settled(i) =>
               {j \in T : journal'[j].turn < journal'[i].turn}
                 = {j \in S : journal[j].turn < journal[i].turn}
    <3>1. SUFFICES ASSUME NEW S, NEW T, S \subseteq {j \in Key : Settled(j)},
                          T \in {S, S \cup {k}}
            PROVE  /\ S = {j \in T : journal'[j].turn < n}
                   /\ \A i \in Key : Settled(i) =>
                        {j \in T : journal'[j].turn < journal'[i].turn}
                          = {j \in S : journal[j].turn < journal[i].turn}
      OBVIOUS
    <3>2. \A j \in S : journal'[j] = journal[j] /\ journal[j].turn < n /\ j # k
      BY <1>6, <3>1
    <3>3. S = {j \in T : journal'[j].turn < n}
      BY <1>1, <1>3, <3>1, <3>2
    <3>4. ASSUME NEW i \in Key, Settled(i)
          PROVE  {j \in T : journal'[j].turn < journal'[i].turn}
                   = {j \in S : journal[j].turn < journal[i].turn}
      <4>1. journal'[i] = journal[i] /\ journal[i].turn < n /\ journal[i].turn \in Nat
        BY <1>6, <3>4
      <4>2. ~(journal'[k].turn < journal'[i].turn)
        BY <1>1, <1>3, <4>1
      <4> QED
        BY <3>1, <3>2, <4>1, <4>2
    <3> QED
      BY <3>3, <3>4
  <2>2. SUFFICES ASSUME NEW i \in Key, Settled(i) \/ i = k
          PROVE  /\ material[i].obligations
                      = {j \in obligations' : journal'[j].turn < journal'[i].turn}
                 /\ material[i].facts
                      = {j \in worldFacts' : journal'[j].turn < journal'[i].turn}
    BY <1>5 DEF TurnsSerial, Concluded, Settled
  <2>3. CASE i = k
    BY <1>2, <1>3, <1>7, <2>1, <2>3
  <2>4. CASE Settled(i)
    <3>1. /\ material[i].obligations
               = {j \in obligations : journal[j].turn < journal[i].turn}
          /\ material[i].facts
               = {j \in worldFacts : journal[j].turn < journal[i].turn}
      BY <2>4 DEF TurnInv, TurnsSerial, Concluded
    <3> QED
      BY <1>3, <1>7, <2>1, <2>4, <3>1
  <2> QED
    BY <2>2, <2>3, <2>4
<1> QED
  BY <1>8, <1>9, <1>10

\* Every step of a call keeps the invariant of the turns.
LEMMA CallKeeps ==
  ASSUME TurnTypeOK, StoreInv, TurnInv, NEW p \in Process, InCall(p)
  PROVE  TurnInv'
<1>1. /\ pc[p] # "idle" /\ UNCHANGED <<phase, draft, material>>
      /\ \/ UNCHANGED storeVars
         \/ RowBegun(p, key[p])
         \/ RowMoved(p, key[p])
         \/ RowSettled(p, key[p])
  BY CallWrites DEF InCall, TurnTypeOK
<1>2. ASSUME \A j \in Key :
               /\ journal'[j].state \in TerminalStates <=> Settled(j)
               /\ Settled(j) => journal'[j] = journal[j],
             meta'["session"] = meta["session"],
             UNCHANGED <<turnIndex, obligations, worldFacts>>
      PROVE  ViewsCurrent' /\ TurnsConcludeInOrder' /\ TurnsSerial'
  <2>1. Concluded' = Concluded /\ \A j \in Concluded : journal'[j] = journal[j]
    BY <1>2 DEF Concluded, Settled
  <2>2. obligations \subseteq Concluded /\ worldFacts \subseteq Concluded
    BY DEF TurnInv, ViewsCurrent, StoreInv, StoreTypeOK, WorldMatchesJournal, Settled,
           TerminalStates, Concluded
  <2>3. ViewsCurrent'
    BY <1>1, <1>2, <2>1, <2>2 DEF ViewsCurrent, TurnInv, Concluded, Settled
  <2>4. TurnsConcludeInOrder'
    <3>1. {journal'[j].turn : j \in Concluded'} = {journal[j].turn : j \in Concluded}
      BY <2>1
    <3>2. \A i, j \in Concluded' : i # j => journal'[i].turn # journal'[j].turn
      BY <2>1 DEF TurnInv, TurnsConcludeInOrder
    <3> QED
      BY <1>2, <3>1, <3>2 DEF TurnsConcludeInOrder, TurnInv
  <2>5. TurnsSerial'
    BY <1>1, <1>2, <2>1, <2>2 DEF TurnsSerial, TurnInv
  <2> QED
    BY <2>3, <2>4, <2>5
<1>3. SUFFICES ViewsCurrent' /\ TurnsConcludeInOrder' /\ TurnsSerial'
  BY CallKeepsPins DEF TurnInv
<1>4. CASE UNCHANGED storeVars
  BY <1>2, <1>4 DEF storeVars, Settled
<1>5. CASE RowBegun(p, key[p]) \/ RowMoved(p, key[p])
  <2>1. /\ \A j \in Key \ {key[p]} : journal'[j] = journal[j]
        /\ journal[key[p]].state \notin TerminalStates
        /\ journal'[key[p]].state \notin TerminalStates
        /\ meta'["session"] = meta["session"]
        /\ UNCHANGED <<turnIndex, obligations, worldFacts>>
    BY <1>5 DEF RowBegun, RowMoved, Wrote, TerminalStates
  <2>2. \A j \in Key : /\ journal'[j].state \in TerminalStates <=> Settled(j)
                       /\ Settled(j) => journal'[j] = journal[j]
    BY <2>1 DEF Settled
  <2> QED
    BY <1>2, <2>1, <2>2
<1>6. CASE RowSettled(p, key[p])
  BY <1>1, <1>6, SettleKeepsOrder
<1> QED
  BY <1>1, <1>4, <1>5, <1>6

-----------------------------------------------------------------------------
(* The theorems.                                                           *)

\* Nothing is oriented, begun or concluded at first.
LEMMA TurnInitHolds == TurnInit => TurnInv
<1> SUFFICES ASSUME TurnInit PROVE TurnInv
  OBVIOUS
<1>1. /\ \A p \in Process : phase[p] = "none" /\ draft[p] = NoSituation /\ pc[p] = "idle"
      /\ \A k \in Key : /\ material[k] = NoSituation /\ writer[k] = Nobody
                        /\ turn[k] = 0 /\ journal[k] = NoRow
      /\ meta["session"] = 0 /\ turnIndex = 0 /\ obligations = {} /\ worldFacts = {}
  BY DEF TurnInit, Init, StoreInit, Counter
<1>2. NoSituation.turn = 0 /\ NoRow.state = "ABSENT"
  BY DEF NoSituation, NoRow
<1>3. Concluded = {}
  BY <1>1, <1>2 DEF Concluded, Settled, TerminalStates
<1>4. NumbersFollow /\ RowsOfSituations /\ CallsPinned /\ WritersCall /\ ViewsCurrent
  BY <1>1, <1>2
  DEF NumbersFollow, RowsOfSituations, CallsPinned, WritersCall, ViewsCurrent
<1>5. TurnsConcludeInOrder
  <2>1. {journal[k].turn : k \in Concluded} = {} /\ 1..turnIndex = {}
    BY <1>1, <1>3
  <2> QED
    BY <1>1, <1>3, <2>1 DEF TurnsConcludeInOrder
<1>6. TurnsSerial
  BY <1>3 DEF TurnsSerial
<1> QED
  BY <1>4, <1>5, <1>6 DEF TurnInv

\* The invariant of the turns goes from step to step.
LEMMA TurnNextKeeps ==
  TurnTypeOK /\ StoreInv /\ TurnInv /\ [TurnNext]_allVars => TurnInv'
<1> SUFFICES ASSUME TurnTypeOK, StoreInv, TurnInv, [TurnNext]_allVars PROVE TurnInv'
  OBVIOUS
<1>1. ASSUME UNCHANGED <<meta, journal, obligations, worldFacts, turnIndex, cache, loaded,
                         pc, key, turn, phase, draft, material, writer>>
      PROVE  TurnInv'
  BY <1>1
  DEF TurnInv, NumbersFollow, Numbered, RowsOfSituations, CallsPinned, Open, WritersCall,
      ViewsCurrent, TurnsConcludeInOrder, TurnsSerial, Concluded, Settled
<1>2. CASE UNCHANGED allVars
  BY <1>1, <1>2 DEF allVars, vars, storeVars, callVars, worldVars, turnVars
<1>3. ASSUME NEW k \in Key, (OperationStarts(k) \/ OperationEnds(k)) /\ UNCHANGED turnVars
      PROVE  TurnInv'
  BY <1>1, <1>3 DEF OperationStarts, OperationEnds, storeVars, callVars, turnVars
<1>4. ASSUME NEW p \in Process, TurnStep(p) PROVE TurnInv'
  BY <1>4, DraftKeeps, RunTurnKeeps, ProcessKeeps, CallKeeps DEF TurnStep, DraftStep
<1> QED
  BY <1>2, <1>3, <1>4 DEF TurnNext

\* Turn: how stale a process may be and still conclude a turn, as one invariant
\* that every step keeps.
THEOREM TurnInvariant == TurnSpec => []TurnInv
  BY TurnsTyped, TurnInitHolds, TurnNextKeeps, PTL DEF TurnSpec

\* R3Kernel.run, r3_begin_turn: however stale the reads a turn was numbered
\* from, the conclusions of a session are its turns 1..n, each once.
THEOREM ConcludedInOrder == TurnSpec => []TurnsConcludeInOrder
  BY TurnInvariant, PTL DEF TurnInv

\* A turn that concludes was decided on what the turns before it left.
THEOREM Serializable == TurnSpec => []TurnsSerial
  BY TurnInvariant, PTL DEF TurnInv

\* In every step, a row that moves is moved by the call that began it.
LEMMA StepMovesOwnRow ==
  ASSUME TurnTypeOK, StoreInv, TurnInv, TurnNext, NEW k \in Key,
         journal[k].state # "ABSENT", journal'[k] # journal[k]
  PROVE  writer[k] # Nobody /\ cache'[writer[k]] # cache[writer[k]]
<1>1. ASSUME NEW p \in Process, ~ InCall(p), TurnStep(p)
      PROVE  journal' = journal
  BY <1>1
  DEF TurnStep, Load, LoadNext, CloseBetween, Close, Die, Crash, Forget, ReserveTurn,
      SnapshotObligations, SnapshotRefused, Abandon, Evaluate, RunTurn, StartCall, vars,
      storeVars
<1>2. PICK p \in Process : InCall(p)
  BY <1>1 DEF TurnNext, OperationStarts, OperationEnds, storeVars
<1>3. /\ pc[p] # "idle" /\ k = key[p]
      /\ \/ RowBegun(p, key[p]) \/ RowMoved(p, key[p]) \/ RowSettled(p, key[p])
  BY <1>2, CallWrites DEF InCall, TurnTypeOK, storeVars, RowBegun, RowMoved, RowSettled, Wrote
<1>4. /\ cache[p]["effects"] = meta["effects"]
      /\ cache'[p]["effects"] = meta["effects"] + 1
      /\ meta["effects"] \in Nat
  BY <1>3 DEF RowBegun, RowMoved, RowSettled, Wrote, StoreInv, StoreTypeOK, Counter
<1>5. writer[k] = p
  BY <1>3, <1>4, MoverIsWriter
<1> QED
  BY <1>4, <1>5, TurnAssumption

\* What a crash or a refused write leaves in the journal is never taken up by
\* a call of a later turn or of another process.
THEOREM RowsStayWithTheirCall == TurnSpec => RowsMoveWithTheirCall
<1>1. TurnTypeOK /\ StoreInv /\ TurnInv /\ [TurnNext]_allVars
        => [\A k \in Key :
              journal[k].state # "ABSENT" /\ journal'[k] # journal[k] =>
                /\ writer[k] # Nobody
                /\ cache'[writer[k]] # cache[writer[k]]]_allVars
  BY StepMovesOwnRow
<1> QED
  BY <1>1, TurnsTyped, TurnInvariant, PTL DEF TurnSpec, RowsMoveWithTheirCall

-----------------------------------------------------------------------------
(* The turns of all processes are one sequence: Turn implements            *)
(* SessionPromise.                                                         *)

\* One element of that sequence.
TurnRecord == [decision : Key, obligations : SUBSET Key, facts : SUBSET Key]

\* Every number up to turnIndex has its one decision.
Numbering ==
  /\ turnIndex \in Nat
  /\ \A n \in 1..turnIndex :
       /\ DecisionOf(n) \in Concluded
       /\ \A k \in Concluded : journal[k].turn = n <=> k = DecisionOf(n)
  /\ \A k \in Concluded : journal[k].turn \in 1..turnIndex
  /\ ConcludedTurns \in Seq(TurnRecord) /\ Len(ConcludedTurns) = turnIndex

\* Turns that conclude in order are numbered.
LEMMA OrderNumbers == TurnTypeOK /\ StoreInv /\ TurnsConcludeInOrder => Numbering
<1> SUFFICES ASSUME TurnTypeOK, StoreInv, TurnsConcludeInOrder PROVE Numbering
  OBVIOUS
<1>1. turnIndex \in Nat /\ material \in [Key -> Situation]
  BY DEF TurnTypeOK, StoreInv, StoreTypeOK
<1>2. /\ \A n \in 1..turnIndex : \E k \in Concluded : journal[k].turn = n
      /\ \A k \in Concluded : journal[k].turn \in 1..turnIndex
  <2>1. {journal[k].turn : k \in Concluded} = 1..turnIndex
    BY DEF TurnsConcludeInOrder
  <2> QED
    BY <2>1
<1>3. \A n \in 1..turnIndex :
        DecisionOf(n) \in Concluded /\ journal[DecisionOf(n)].turn = n
  BY <1>2 DEF DecisionOf
<1>4. \A n \in 1..turnIndex, k \in Concluded : journal[k].turn = n <=> k = DecisionOf(n)
  BY <1>3 DEF TurnsConcludeInOrder
<1>5. \A n \in 1..turnIndex :
        [decision |-> DecisionOf(n), obligations |-> material[DecisionOf(n)].obligations,
         facts |-> material[DecisionOf(n)].facts] \in TurnRecord
  BY <1>1, <1>3 DEF Concluded, Situation, TurnRecord
<1>6. ConcludedTurns \in [1..turnIndex -> TurnRecord]
  BY <1>5 DEF ConcludedTurns
<1>7. ConcludedTurns \in Seq(TurnRecord) /\ Len(ConcludedTurns) = turnIndex
  <2>1. ConcludedTurns \in Seq(TurnRecord)
    BY <1>1, <1>6, SeqDef
  <2>2. DOMAIN ConcludedTurns = 1..turnIndex
    BY DEF ConcludedTurns
  <2>3. Len(ConcludedTurns) \in Nat /\ 1..Len(ConcludedTurns) = 1..turnIndex
    BY <2>1, <2>2, LenProperties
  <2> QED
    BY <1>1, <2>1, <2>3
<1> QED
  BY <1>1, <1>2, <1>3, <1>4, <1>7 DEF Numbering

\* While no turn concludes the sequence stays as it is.
LEMMA SequenceStays ==
  ASSUME Numbering, Numbering', UNCHANGED turnIndex,
         \A k \in Concluded : /\ k \in Concluded'
                              /\ journal'[k] = journal[k] /\ material'[k] = material[k]
  PROVE  UNCHANGED ConcludedTurns
<1>1. \A n \in 1..turnIndex : DecisionOf(n)' = DecisionOf(n)
  <2> SUFFICES ASSUME NEW n \in 1..turnIndex PROVE DecisionOf(n)' = DecisionOf(n)
    OBVIOUS
  <2>1. DecisionOf(n) \in Concluded /\ journal[DecisionOf(n)].turn = n
    BY DEF Numbering
  <2>2. DecisionOf(n) \in Concluded' /\ journal'[DecisionOf(n)].turn = n
    BY <2>1
  <2> QED
    BY <2>2 DEF Numbering
<1>2. \A n \in 1..turnIndex : DecisionOf(n) \in Concluded
  BY DEF Numbering
<1> QED
  BY <1>1, <1>2 DEF ConcludedTurns

\* The turn that concludes is the next of the sequence, on what is stored.
LEMMA SequenceGrows ==
  ASSUME TurnTypeOK, StoreInv, TurnInv, Numbering, Numbering',
         NEW p \in Process, pc[p] # "idle", RowSettled(p, key[p]), UNCHANGED material
  PROVE  /\ \A n \in 1..turnIndex : ConcludedTurns[n].decision # key[p]
         /\ ConcludedTurns' = Append(ConcludedTurns,
                                    [decision |-> key[p], obligations |-> obligations,
                                     facts |-> worldFacts])
<1> DEFINE k == key[p]
           this == [decision |-> k, obligations |-> obligations, facts |-> worldFacts]
<1>1. /\ k \in Key /\ meta["session"] \in Nat /\ turnIndex = meta["session"]
      /\ obligations \in SUBSET Key /\ worldFacts \in SUBSET Key
  BY DEF TurnTypeOK, TypeOK, StoreTypeOK, Counter, TurnInv, TurnsConcludeInOrder
<1>2. /\ material[k].turn = turnIndex + 1
      /\ material[k].obligations = obligations
      /\ material[k].facts = worldFacts
  <2>1. Wrote(p, key[p], TRUE)
    BY DEF RowSettled
  <2> QED
    BY <1>1, <2>1, WriteMoves
<1>3. /\ journal'[k].turn = turnIndex + 1 /\ turnIndex' = turnIndex + 1
      /\ k \notin Concluded /\ k \in Concluded'
      /\ \A j \in Concluded : j \in Concluded' /\ journal'[j] = journal[j]
  BY <1>1, <1>2
  DEF RowSettled, Wrote, Concluded, Settled, TurnInv, RowsOfSituations
<1>4. \A n \in 1..turnIndex : DecisionOf(n)' = DecisionOf(n)
  <2> SUFFICES ASSUME NEW n \in 1..turnIndex PROVE DecisionOf(n)' = DecisionOf(n)
    OBVIOUS
  <2>1. DecisionOf(n) \in Concluded /\ journal[DecisionOf(n)].turn = n
    BY DEF Numbering
  <2>2. DecisionOf(n) \in Concluded' /\ journal'[DecisionOf(n)].turn = n
        /\ n \in 1..turnIndex'
    BY <1>1, <1>3, <2>1
  <2> QED
    BY <2>2 DEF Numbering
<1>5. ASSUME NEW n, n = turnIndex + 1
      PROVE  n \in 1..turnIndex' /\ DecisionOf(n)' = k
  <2>1. n \in 1..turnIndex'
    BY <1>1, <1>3, <1>5
  <2> QED
    BY <1>3, <1>5, <2>1 DEF Numbering
<1>6. /\ ConcludedTurns \in Seq(TurnRecord) /\ Len(ConcludedTurns) = turnIndex
      /\ ConcludedTurns' \in Seq(TurnRecord) /\ Len(ConcludedTurns') = turnIndex + 1
  BY <1>3 DEF Numbering, TurnRecord
<1>7. /\ this \in TurnRecord
      /\ Append(ConcludedTurns, this) \in Seq(TurnRecord)
      /\ Len(Append(ConcludedTurns, this)) = turnIndex + 1
      /\ \A n \in 1..turnIndex : Append(ConcludedTurns, this)[n] = ConcludedTurns[n]
      /\ Append(ConcludedTurns, this)[turnIndex + 1] = this
  <2>1. this \in TurnRecord
    BY <1>1 DEF TurnRecord
  <2> HIDE DEF this
  <2> QED
    BY <1>6, <2>1, AppendProperties
<1>8. \A n \in 1..turnIndex : /\ ConcludedTurns'[n] = ConcludedTurns[n]
                              /\ ConcludedTurns[n].decision # k
  <2> SUFFICES ASSUME NEW n \in 1..turnIndex
               PROVE  /\ ConcludedTurns'[n] = ConcludedTurns[n]
                      /\ ConcludedTurns[n].decision # k
    OBVIOUS
  <2>1. n \in 1..turnIndex' /\ DecisionOf(n)' = DecisionOf(n)
        /\ DecisionOf(n) \in Concluded
    BY <1>1, <1>3, <1>4 DEF Numbering
  <2> QED
    BY <1>3, <2>1 DEF ConcludedTurns
<1>9. ConcludedTurns'[turnIndex + 1] = this
  <2> SUFFICES ASSUME NEW n, n = turnIndex + 1 PROVE ConcludedTurns'[n] = this
    OBVIOUS
  <2>1. n \in 1..turnIndex' /\ DecisionOf(n)' = k
    BY <1>5
  <2>2. ConcludedTurns'[n] = [decision |-> k, obligations |-> material'[k].obligations,
                              facts |-> material'[k].facts]
    BY <2>1 DEF ConcludedTurns
  <2> QED
    BY <1>2, <2>2
<1>10. \A n \in 1..Len(ConcludedTurns') :
         ConcludedTurns'[n] = Append(ConcludedTurns, this)[n]
  <2>1. \A n \in 1..(turnIndex + 1) : n \in 1..turnIndex \/ n = turnIndex + 1
    BY <1>1
  <2> HIDE DEF this
  <2> QED
    BY <1>6, <1>7, <1>8, <1>9, <2>1
<1>11. ConcludedTurns' = Append(ConcludedTurns, this)
  <2> HIDE DEF this
  <2> QED
    BY <1>6, <1>7, <1>10, SeqEqual
<1> QED
  BY <1>8, <1>11

\* What the conclusion of a turn leaves, by its kind: a lesson its obligation,
\* an admission its facts, an effect perhaps its facts, a query nothing.
LEMMA ConclusionByKind ==
  ASSUME StoreInv, StoreInv', ObligationsMatchJournal, ObligationsMatchJournal',
         RowsOfTheirKind', NEW p \in Process, NEW k \in Key, RowSettled(p, k)
  PROVE  /\ obligations' = IF k \in LearnKey THEN obligations \cup {k} ELSE obligations
         /\ \/ k \in AdmitKey \cup ExternalKey /\ worldFacts' = worldFacts \cup {k}
            \/ k \notin AdmitKey /\ worldFacts' = worldFacts
<1>1. /\ obligations' \in {obligations, obligations \cup {k}}
      /\ worldFacts' \in {worldFacts, worldFacts \cup {k}}
      /\ journal'[k].state \in TerminalStates
  BY DEF RowSettled
<1>2. /\ k \in LearnKey => k \in obligations'
      /\ k \notin LearnKey => k \notin obligations'
  BY <1>1, KeyAssumption DEF ObligationsMatchJournal, RowsOfTheirKind, TerminalStates
<1>3. /\ k \in AdmitKey => k \in worldFacts'
      /\ k \in ReadKey \cup LearnKey => k \notin worldFacts'
  BY <1>1, KeyAssumption
  DEF StoreInv, WorldMatchesJournal, RowsOfTheirKind, TerminalStates
<1> QED
  BY <1>1, <1>2, <1>3, KeyAssumption

\* Every step of a turn is one of the session, or none: only the write that
\* concludes it is seen from outside.
LEMMA StepIsTurn ==
  ASSUME TurnTypeOK, StoreInv, StoreInv', TurnInv, Numbering, Numbering',
         ObligationsMatchJournal, ObligationsMatchJournal', RowsOfTheirKind',
         [TurnNext]_allVars
  PROVE  [Session!SessionNext]_(Session!sessionVars)
<1>1. ASSUME UNCHANGED <<turnIndex, obligations, worldFacts>>,
             \A k \in Key : Settled(k) =>
               journal'[k] = journal[k] /\ material'[k] = material[k]
      PROVE  UNCHANGED Session!sessionVars
  <2>1. UNCHANGED ConcludedTurns
    BY <1>1, SequenceStays DEF Concluded, Settled
  <2> QED
    BY <1>1, <2>1 DEF Session!sessionVars
<1>2. CASE UNCHANGED allVars
  BY <1>1, <1>2 DEF allVars, vars, storeVars, turnVars
<1>3. ASSUME NEW k \in Key, (OperationStarts(k) \/ OperationEnds(k)) /\ UNCHANGED turnVars
      PROVE  UNCHANGED Session!sessionVars
  BY <1>1, <1>3 DEF OperationStarts, OperationEnds, storeVars, turnVars
<1>4. ASSUME NEW p \in Process,
             (Load(p) /\ UNCHANGED turnVars) \/ CloseBetween(p) \/ Die(p) \/ DraftStep(p)
      PROVE  UNCHANGED Session!sessionVars
  BY <1>1, <1>4
  DEF Load, LoadNext, CloseBetween, Close, Die, Crash, Forget, DraftStep, ReserveTurn,
      SnapshotObligations, SnapshotRefused, Abandon, Evaluate, vars, storeVars, turnVars
<1>5. ASSUME NEW p \in Process, RunTurn(p) PROVE UNCHANGED Session!sessionVars
  <2>1. PICK k \in EffectKeys(draft[p]) : material' = [material EXCEPT ![k] = draft[p]]
    BY <1>5 DEF RunTurn
  <2>2. k \in Key /\ (material[k] = draft[p] \/ material[k].turn = 0)
    BY KeyOfSituation
  <2>3. \A j \in Key : Settled(j) => material'[j] = material[j]
    BY <2>1, <2>2 DEF TurnInv, RowsOfSituations, Settled, TerminalStates, TurnTypeOK
  <2> QED
    BY <1>1, <1>5, <2>3 DEF RunTurn, StartCall, storeVars
<1>6. ASSUME NEW p \in Process, InCall(p)
      PROVE  [Session!SessionNext]_(Session!sessionVars)
  <2>1. /\ pc[p] # "idle" /\ UNCHANGED <<phase, draft, material>> /\ key[p] \in Key
        /\ \/ UNCHANGED storeVars
           \/ RowBegun(p, key[p])
           \/ RowMoved(p, key[p])
           \/ RowSettled(p, key[p])
    BY <1>6, CallWrites DEF InCall, TurnTypeOK, TypeOK
  <2>2. CASE UNCHANGED storeVars
    BY <1>1, <2>1, <2>2 DEF storeVars
  <2>3. CASE RowBegun(p, key[p]) \/ RowMoved(p, key[p])
    BY <1>1, <2>1, <2>3 DEF RowBegun, RowMoved, Wrote, Settled, TerminalStates
  <2>4. CASE RowSettled(p, key[p])
    <3>1. /\ \A n \in 1..turnIndex : ConcludedTurns[n].decision # key[p]
          /\ ConcludedTurns' = Append(ConcludedTurns,
                                     [decision |-> key[p], obligations |-> obligations,
                                      facts |-> worldFacts])
          /\ Len(ConcludedTurns) = turnIndex
      BY <2>1, <2>4, SequenceGrows DEF Numbering
    <3>2. Session!Conclude(key[p])
      BY <2>1, <2>4, <3>1, ConclusionByKind DEF Session!Conclude
    <3> QED
      BY <2>1, <3>2 DEF Session!SessionNext
  <2> QED
    BY <2>1, <2>2, <2>3, <2>4
<1> QED
  BY <1>2, <1>3, <1>4, <1>5, <1>6 DEF TurnNext, TurnStep, DraftStep

\* A session that has not begun is empty.
LEMMA SessionStarts == TurnInit /\ Numbering => Session!SessionInit
<1> SUFFICES ASSUME TurnInit, Numbering PROVE Session!SessionInit
  OBVIOUS
<1>1. turnIndex = 0 /\ obligations = {} /\ worldFacts = {}
  BY DEF TurnInit, Init, StoreInit
<1>2. ConcludedTurns \in Seq(TurnRecord) /\ Len(ConcludedTurns) = 0
  BY <1>1 DEF Numbering
<1>3. ConcludedTurns = <<>>
  BY <1>2, EmptySeq
<1> QED
  BY <1>1, <1>3 DEF Session!SessionInit

\* HybridRuntime.process_evidence over R3EffectGateway: whatever processes do
\* between the reads of a turn and its receipt, the session is a sequence of
\* turns, each decided on what the one before it left.
THEOREM SessionsAreSequential == TurnSpec => SessionKept
<1>1. TurnTypeOK /\ StoreInv /\ TurnInv => Numbering
  BY OrderNumbers DEF TurnInv
<1>2. TurnTypeOK /\ StoreInv /\ StoreInv' /\ TurnInv /\ Numbering /\ Numbering'
        /\ ObligationsMatchJournal /\ ObligationsMatchJournal' /\ RowsOfTheirKind'
        /\ [TurnNext]_allVars
        => [Session!SessionNext]_(Session!sessionVars)
  BY StepIsTurn
<1>3. TurnSpec => []ObligationsMatchJournal /\ []RowsOfTheirKind
  BY TurnsUseGateway, AnyObligations, AnyKinds, PTL
<1> QED
  BY <1>1, <1>2, <1>3, TurnsTyped, TurnInvariant, SessionStarts, PTL
  DEF TurnSpec, SessionKept, Session!SessionSpec

-----------------------------------------------------------------------------
(* A session at its limit.  What is bounded is the view: a turn that has its *)
(* snapshot, and a key decided on one, saw no more than MaxAlternatives     *)
(* obligations; and what concludes saw all there are (ViewsCurrent).        *)

ViewsBounded ==
  /\ \A p \in Process : phase[p] \in {"oriented", "evaluated"} =>
       Cardinality(draft[p].obligations) <= MaxAlternatives
  /\ \A k \in Key : Cardinality(material[k].obligations) <= MaxAlternatives

LimitInv == ViewsBounded /\ IsFiniteSet(obligations) /\ ObligationsBounded

\* A view is bounded when it is taken, and handed on as it is.
LEMMA ViewsKeepBound ==
  ASSUME TurnTypeOK, ViewsBounded, [TurnNext]_allVars
  PROVE  ViewsBounded'
<1>1. /\ phase \in [Process -> {"none", "reserved", "oriented", "evaluated", "r3"}]
      /\ draft \in [Process -> Situation] /\ material \in [Key -> Situation]
  BY DEF TurnTypeOK
<1>2. CASE UNCHANGED <<phase, draft, material>>
  BY <1>2 DEF ViewsBounded
<1>3. ASSUME NEW p \in Process,
             CloseBetween(p) \/ Die(p) \/ SnapshotRefused(p) \/ Abandon(p)
               \/ \E i \in Input : ReserveTurn(p, i)
      PROVE  ViewsBounded'
  <2>1. /\ material' = material /\ phase'[p] \in {"none", "reserved"}
        /\ \A q \in Process \ {p} : phase'[q] = phase[q] /\ draft'[q] = draft[q]
    BY <1>1, <1>3 DEF CloseBetween, Die, SnapshotRefused, Abandon, ReserveTurn, EndTurn
  <2> QED
    BY <2>1 DEF ViewsBounded
<1>4. ASSUME NEW p \in Process, SnapshotObligations(p)
      PROVE  ViewsBounded'
  <2>1. /\ material' = material
        /\ draft' = [draft EXCEPT ![p] = [draft[p] EXCEPT !.obligations = obligations]]
        /\ \A q \in Process \ {p} : phase'[q] = phase[q]
        /\ Cardinality(obligations) <= MaxAlternatives
    BY <1>1, <1>4 DEF SnapshotObligations
  <2>2. draft'[p].obligations = obligations
    BY <1>1, <2>1 DEF Situation
  <2> QED
    BY <1>1, <2>1, <2>2 DEF ViewsBounded
<1>5. ASSUME NEW p \in Process, Evaluate(p)
      PROVE  ViewsBounded'
  <2>1. /\ material' = material /\ phase[p] = "oriented"
        /\ draft' = [draft EXCEPT ![p] = [draft[p] EXCEPT !.facts = worldFacts]]
        /\ \A q \in Process \ {p} : phase'[q] = phase[q]
    BY <1>1, <1>5 DEF Evaluate
  <2>2. draft'[p].obligations = draft[p].obligations
    BY <1>1, <2>1 DEF Situation
  <2> QED
    BY <1>1, <2>1, <2>2 DEF ViewsBounded
<1>6. ASSUME NEW p \in Process, RunTurn(p)
      PROVE  ViewsBounded'
  <2>1. PICK k \in EffectKeys(draft[p]) : material' = [material EXCEPT ![k] = draft[p]]
    BY <1>6 DEF RunTurn
  <2>2. /\ phase[p] = "evaluated" /\ draft' = draft
        /\ phase' = [phase EXCEPT ![p] = "r3"]
    BY <1>6 DEF RunTurn
  <2>3. \A j \in Key : material'[j] \in {material[j], draft[p]}
    BY <1>1, <2>1
  <2> QED
    BY <1>1, <2>2, <2>3 DEF ViewsBounded
<1>7. ASSUME NEW p \in Process, (Load(p) /\ UNCHANGED turnVars) \/ InCall(p)
      PROVE  ViewsBounded'
  BY <1>2, <1>7 DEF InCall, turnVars
<1>8. CASE UNCHANGED allVars
  BY <1>2, <1>8 DEF allVars, turnVars
<1>9. ASSUME NEW k \in Key, UNCHANGED turnVars
      PROVE  ViewsBounded'
  BY <1>2, <1>9 DEF turnVars
<1> QED
  BY <1>3, <1>4, <1>5, <1>6, <1>7, <1>8, <1>9 DEF TurnNext, TurnStep

\* Only a conclusion adds an obligation or moves the session, and what it was
\* decided on is all the session has.
LEMMA OnlyConclusionsCount ==
  ASSUME TurnTypeOK, StoreInv, TurnInv, [TurnNext]_allVars
  PROVE  \/ obligations' = obligations /\ turnIndex' = turnIndex
         \/ \E k \in Key : /\ obligations' \in {obligations, obligations \cup {k}}
                          /\ material[k].obligations = obligations
<1>1. CASE UNCHANGED allVars
  BY <1>1 DEF allVars, vars, storeVars
<1>2. ASSUME NEW k \in Key, OperationStarts(k) \/ OperationEnds(k)
      PROVE  obligations' = obligations /\ turnIndex' = turnIndex
  BY <1>2 DEF OperationStarts, OperationEnds, storeVars
<1>3. ASSUME NEW p \in Process,
             Load(p) \/ CloseBetween(p) \/ Die(p) \/ DraftStep(p) \/ RunTurn(p)
      PROVE  obligations' = obligations /\ turnIndex' = turnIndex
  BY <1>3
  DEF Load, LoadNext, CloseBetween, Close, Die, Crash, Forget, DraftStep, ReserveTurn,
      SnapshotObligations, SnapshotRefused, Abandon, Evaluate, RunTurn, StartCall,
      vars, storeVars
<1>4. ASSUME NEW p \in Process, InCall(p)
      PROVE  \/ obligations' = obligations /\ turnIndex' = turnIndex
             \/ /\ obligations' \in {obligations, obligations \cup {key[p]}}
                /\ material[key[p]].obligations = obligations
                /\ key[p] \in Key
  <2>1. /\ pc[p] # "idle" /\ key[p] \in Key
        /\ \/ UNCHANGED storeVars
           \/ RowBegun(p, key[p])
           \/ RowMoved(p, key[p])
           \/ RowSettled(p, key[p])
    BY <1>4, CallWrites DEF InCall, TurnTypeOK, TypeOK
  <2>2. CASE UNCHANGED storeVars \/ RowBegun(p, key[p]) \/ RowMoved(p, key[p])
    BY <2>2 DEF storeVars, RowBegun, RowMoved, Wrote
  <2>3. CASE RowSettled(p, key[p])
    <3>1. Wrote(p, key[p], TRUE)
      BY <2>3 DEF RowSettled
    <3>2. material[key[p]].obligations = obligations
      BY <2>1, <3>1, WriteMoves
    <3> QED
      BY <2>1, <2>3, <3>2 DEF RowSettled
  <2> QED
    BY <2>1, <2>2, <2>3
<1> QED
  BY <1>1, <1>2, <1>3, <1>4 DEF TurnNext, TurnStep, DraftStep

\* A conclusion adds at most one obligation, to at most MaxAlternatives.
LEMMA LimitStep ==
  ASSUME TurnTypeOK, StoreInv, TurnInv, LimitInv, [TurnNext]_allVars
  PROVE  /\ LimitInv'
         /\ turnIndex' # turnIndex => Cardinality(obligations) <= MaxAlternatives
<1>1. ViewsBounded'
  BY ViewsKeepBound DEF LimitInv
<1>2. CASE obligations' = obligations /\ turnIndex' = turnIndex
  BY <1>1, <1>2 DEF LimitInv, ObligationsBounded
<1>3. ASSUME NEW k \in Key,
             obligations' \in {obligations, obligations \cup {k}},
             material[k].obligations = obligations
      PROVE  /\ LimitInv'
             /\ Cardinality(obligations) <= MaxAlternatives
  <2>1. Cardinality(obligations) <= MaxAlternatives
    BY <1>3 DEF LimitInv, ViewsBounded
  <2>2. IsFiniteSet(obligations) /\ Cardinality(obligations) \in Nat
    BY FS_CardinalityType DEF LimitInv
  <2>3. /\ IsFiniteSet(obligations \cup {k})
        /\ Cardinality(obligations \cup {k})
             \in {Cardinality(obligations), Cardinality(obligations) + 1}
    BY <2>2, FS_AddElement
  <2>4. /\ IsFiniteSet(obligations')
        /\ Cardinality(obligations') <= MaxAlternatives + 1
    <3> DEFINE n == Cardinality(obligations)
               m == Cardinality(obligations')
    <3>1. MaxAlternatives \in Nat
      BY TurnAssumption
    <3>2. CASE obligations' = obligations
      <4>1. m = n
        BY <3>2
      <4>2. IsFiniteSet(obligations')
        BY <2>2, <3>2
      <4> HIDE DEF m
      <4> QED
        BY <2>1, <2>2, <3>1, <4>1, <4>2 DEF m
    <3>3. CASE obligations' = obligations \cup {k}
      <4>1. m \in {n, n + 1}
        BY <2>3, <3>3
      <4>2. IsFiniteSet(obligations')
        BY <2>3, <3>3
      <4>3. n <= MaxAlternatives /\ n \in Nat
        BY <2>1, <2>2
      <4> HIDE DEF m, n
      <4>4. m <= MaxAlternatives + 1
        BY <3>1, <4>1, <4>3
      <4> QED
        BY <4>2, <4>4 DEF m
    <3> QED
      BY <1>3, <3>2, <3>3
  <2> QED
    BY <1>1, <2>1, <2>4 DEF LimitInv, ObligationsBounded
<1> QED
  BY <1>2, <1>3, OnlyConclusionsCount

\* The session begins with no obligation, and every view with none.
LEMMA LimitInit == TurnInit => LimitInv
<1>1. /\ NoSituation.obligations = {}
      /\ IsFiniteSet({}) /\ Cardinality({}) = 0
  BY FS_EmptySet DEF NoSituation
<1>2. 0 <= MaxAlternatives /\ 0 <= MaxAlternatives + 1
  BY TurnAssumption
<1> SUFFICES ASSUME TurnInit PROVE LimitInv
  OBVIOUS
<1>3. obligations = {} /\ IsFiniteSet(obligations) /\ Cardinality(obligations) = 0
  BY <1>1 DEF TurnInit, Init, StoreInit
<1>4. ViewsBounded
  <2>1. \A p \in Process : phase[p] = "none"
    BY DEF TurnInit
  <2>2. \A k \in Key : Cardinality(material[k].obligations) = 0
    BY <1>1 DEF TurnInit
  <2> QED
    BY <1>2, <2>1, <2>2 DEF ViewsBounded
<1> QED
  BY <1>2, <1>3, <1>4 DEF LimitInv, ObligationsBounded

\* The inductive invariant of a session's limit.
THEOREM SessionLimit == TurnSpec => []LimitInv
BY LimitInit, LimitStep, TurnsTyped, TurnInvariant, PTL DEF TurnSpec

\* ObligationsBounded: turns oriented side by side do not add up their lessons
\* beyond the one a session may have over config.max_orientation_alternatives.
THEOREM ObligationsNeverAddUp == TurnSpec => []ObligationsBounded
BY SessionLimit, PTL DEF LimitInv

\* FullSessionStands: once over the bound, nothing concludes in the session.
THEOREM FullSessionsStand == TurnSpec => FullSessionStands
<1>1. TurnTypeOK /\ StoreInv /\ TurnInv /\ LimitInv /\ [TurnNext]_allVars
        => [turnIndex' # turnIndex
              => Cardinality(obligations) <= MaxAlternatives]_allVars
  BY LimitStep
<1> QED
  BY <1>1, SessionLimit, TurnsTyped, TurnInvariant, PTL DEF TurnSpec, FullSessionStands
=============================================================================
