-------------------------- MODULE SubStoresProofs --------------------------
(***************************************************************************)
(* Proofs about SubStores, for any number of processes, keys and           *)
(* transactions.                                                           *)
(***************************************************************************)
EXTENDS SubStores, TLAPS

\* A process between the two transactions of commit_effect_transaction has
\* committed the facts of its key.
TransactionsHaveFacts ==
    \A p \in Process :
        call[p].step \in {"commit", "insert"} /\ call[p].of = "transaction"
            => facts[call[p].key] \in revisions["world"]

\* The steps that only write revisions: world.commit and the R3 port.
PortNext(p) ==
    CommitWorld(p) \/ PortBegin(p) \/ PortTransition(p) \/ PortCommit(p) \/ PortLearning(p)

-----------------------------------------------------------------------------
(***************************************************************************)
(* Types.                                                                  *)
(***************************************************************************)
\* The initial state is well typed.
LEMMA TypeInit == SubInit => SubTypeOK
BY SubStoresAssumption
DEF SubInit, SubTypeOK, Calls, Idle, Fresh, SubStore, Appended, Upserted, database, local

\* What numbering a revision does to the types it touches.
LEMMA NumberTypes ==
    ASSUME SubTypeOK, NEW p \in Process, NEW S \in SUBSET SubStore, Number(p, S)
    PROVE  /\ meta' \in [SubStore -> Nat]
           /\ cache' \in [Process -> [SubStore -> Nat]]
           /\ commits' \in Nat
           /\ \A q \in Process : q # p => cache'[q] = cache[q]
<1>1. \A s \in SubStore : NextRevision(p, s) \in Nat
  BY DEF SubTypeOK, NextRevision
<1> QED
  BY <1>1 DEF SubTypeOK, Number

\* A transaction with rows in table revisions keeps the types.
LEMMA ReviseTypes ==
    ASSUME SubTypeOK, NEW p \in Process, NEW S \in SUBSET Revised, Revise(p, S)
    PROVE  /\ meta' \in [SubStore -> Nat]
           /\ cache' \in [Process -> [SubStore -> Nat]]
           /\ commits' \in Nat
           /\ \A q \in Process : q # p => cache'[q] = cache[q]
           /\ revisions' \in [Revised -> SUBSET Nat]
<1>1. \A s \in Revised : NextRevision(p, s) \in Nat
  BY DEF SubTypeOK, NextRevision, SubStore
<1>2. revisions' \in [Revised -> SUBSET Nat]
  BY <1>1 DEF Revise, WithNext, SubTypeOK
<1>3. S \in SUBSET SubStore
  BY DEF SubStore
<1> QED
  BY <1>2, <1>3, NumberTypes DEF Revise

\* What the record of a call in progress tells of it.
LEMMA CallShape ==
    ASSUME SubTypeOK, NEW p \in Process
    PROVE  /\ call[p] \in Calls
           /\ call[p].step # "idle" => process[p] = "up"
           /\ call[p].step = "fulfill" =>
                /\ call[p].of \in Obligation /\ call[p].receipt \in Receipt
           /\ call[p].step \in {"commit", "insert"} =>
                /\ call[p].key \in EffectKey
                /\ call[p].of \in {"execute", "transaction"}
                /\ \A step \in {"commit", "insert"} :
                     [call[p] EXCEPT !.step = step] \in Calls
<1>1. call[p] \in Calls
  BY DEF SubTypeOK
<1>2. call[p].step # "idle" => process[p] = "up"
  BY DEF SubTypeOK, Idle
<1>3. CASE call[p] = Idle
  BY <1>1, <1>2, <1>3 DEF Idle
<1>4. CASE call[p] \in [step : {"fulfill"}, key : {None}, receipt : Receipt,
                       of : Obligation]
  BY <1>1, <1>2, <1>4
<1>5. CASE call[p] \in [step : {"commit", "insert"}, key : EffectKey,
                       receipt : {None}, of : {"execute", "transaction"}]
  BY <1>1, <1>2, <1>5 DEF Calls
<1> QED
  BY <1>1, <1>3, <1>4, <1>5 DEF Calls

\* They differ in the stores they number.
LEMMA PortWrites ==
    ASSUME NEW p \in Process, PortNext(p)
    PROVE  \E S \in SUBSET Revised : PortWrite(p, S)
<1>1. {{"world"}, {"effects"}, {"effects", "sessions"}, {"world", "sessions", "effects"},
       {"sessions", "obligations", "effects"}} \subseteq SUBSET Revised
  BY DEF Revised
<1> QED
  BY <1>1 DEF PortNext, CommitWorld, PortBegin, PortTransition, PortCommit, PortLearning,
              PortWrite

\* Every operation keeps the types.
LEMMA TypeStep == SubTypeOK /\ [SubNext]_vars => SubTypeOK'
<1> SUFFICES ASSUME SubTypeOK, [SubNext]_vars PROVE SubTypeOK'
  OBVIOUS
<1> USE SubStoresAssumption
<1>1. CASE UNCHANGED vars
  BY <1>1 DEF vars, database, local, SubTypeOK, Calls
<1>2. ASSUME NEW p \in Process, NEW g \in Generation, Open(p, g) PROVE SubTypeOK'
  <2>1. /\ process[p] = "down"
        /\ process' \in [Process -> {"down", "fresh", "opening", "up"}]
        /\ process'[p] # "down" /\ \A q \in Process : q # p => process'[q] = process[q]
        /\ started' = [started EXCEPT ![p] = g]
        /\ UNCHANGED <<database, cache, memory, call, commits, crashes>>
    BY <1>2 DEF Open, SubTypeOK
  <2>2. call[p] = Idle
    BY <2>1 DEF SubTypeOK
  <2> QED
    BY <2>1, <2>2 DEF database, SubTypeOK
<1>3. ASSUME NEW p \in Process, Activate(p) PROVE SubTypeOK'
  <2>1. started[p] \in Generation /\ process[p] = "fresh"
    BY <1>3 DEF Activate, SubTypeOK
  <2>2. CASE generation = None
    BY <1>3, <2>1, <2>2 DEF Activate, SubTypeOK
  <2>3. CASE generation # None
    BY <1>3, <2>1, <2>3 DEF Activate, SubTypeOK
  <2> QED
    BY <2>2, <2>3
<1>4. ASSUME NEW p \in Process, Load(p) PROVE SubTypeOK'
  BY <1>4 DEF Load, database, SubTypeOK, Calls
<1>5. ASSUME NEW p \in Process, Gone(p), crashes' \in Nat PROVE SubTypeOK'
  BY <1>5 DEF Gone, database, SubTypeOK, Calls, Idle, Fresh
<1>6. ASSUME NEW p \in Process, Close(p) PROVE SubTypeOK'
  BY <1>5, <1>6 DEF Close, SubTypeOK
<1>7. ASSUME NEW p \in Process, Crash(p) PROVE SubTypeOK'
  <2>1. crashes' \in Nat
    BY <1>7 DEF Crash, SubTypeOK
  <2> QED
    BY <1>5, <1>7, <2>1 DEF Crash
<1>8. ASSUME NEW p \in Process, NEW s \in Appended, Append(p, s) PROVE SubTypeOK'
  <2>1. /\ meta' \in [SubStore -> Nat] /\ cache' \in [Process -> [SubStore -> Nat]]
        /\ commits' \in Nat /\ \A q \in Process : q # p => cache'[q] = cache[q]
    BY <1>8, NumberTypes DEF Append, SubStore
  <2>2. rows' \in [Appended -> SUBSET Nat]
    BY <1>8 DEF Append, NextRevision, SubTypeOK, SubStore
  <2> QED
    BY <1>8, <2>1, <2>2 DEF Append, Ready, SubTypeOK, Calls
<1>9. ASSUME NEW p \in Process, NEW s \in Upserted, Upsert(p, s) PROVE SubTypeOK'
  <2>1. /\ meta' \in [SubStore -> Nat] /\ cache' \in [Process -> [SubStore -> Nat]]
        /\ commits' \in Nat /\ \A q \in Process : q # p => cache'[q] = cache[q]
    BY <1>9, NumberTypes DEF Upsert, SubStore
  <2> QED
    BY <1>9, <2>1 DEF Upsert, Ready, SubTypeOK, Calls
<1>10. ASSUME NEW p \in Process, NEW S \in SUBSET Revised, PortWrite(p, S) PROVE SubTypeOK'
  <2>1. Revise(p, S) /\ Ready(p)
    BY <1>10 DEF PortWrite
  <2>2. /\ meta' \in [SubStore -> Nat] /\ cache' \in [Process -> [SubStore -> Nat]]
        /\ commits' \in Nat /\ \A q \in Process : q # p => cache'[q] = cache[q]
        /\ revisions' \in [Revised -> SUBSET Nat]
    BY <2>1, ReviseTypes
  <2> QED
    BY <1>10, <2>1, <2>2 DEF PortWrite, Ready, SubTypeOK, Calls
<1>11. ASSUME NEW p \in Process, NEW o \in Obligation, AddObligation(p, o)
       PROVE SubTypeOK'
  <2>1. /\ meta' \in [SubStore -> Nat] /\ cache' \in [Process -> [SubStore -> Nat]]
        /\ commits' \in Nat /\ \A q \in Process : q # p => cache'[q] = cache[q]
    BY <1>11, NumberTypes DEF AddObligation, SubStore, Revised
  <2> QED
    BY <1>11, <2>1 DEF AddObligation, Ready, SubTypeOK, Calls
<1>12. ASSUME NEW p \in Process, NEW o \in Obligation, NEW c \in Receipt,
              FulfillRead(p, o, c)
       PROVE SubTypeOK'
  <2>1. call'[p] \in Calls
    BY <1>12 DEF FulfillRead, SubTypeOK, Calls, Idle
  <2> QED
    BY <1>12, <2>1 DEF FulfillRead, Ready, database, SubTypeOK
<1>13. ASSUME NEW p \in Process, FulfillWrite(p) PROVE SubTypeOK'
  <2>1. call[p].of \in Obligation /\ call[p].receipt \in Receipt /\ process[p] = "up"
    BY <1>13, CallShape DEF FulfillWrite
  <2>2. CASE Resolves(call[p].of, call[p].receipt) /\ Number(p, {"obligations"})
    <3>1. /\ meta' \in [SubStore -> Nat] /\ cache' \in [Process -> [SubStore -> Nat]]
          /\ commits' \in Nat /\ \A q \in Process : q # p => cache'[q] = cache[q]
      BY <2>2, NumberTypes DEF SubStore, Revised
    <3>2. SubTypeOK'
      <4>1. /\ pending' \in [Obligation -> {"none", "open", "resolved"}]
            /\ completed' \subseteq Obligation \X Receipt
            /\ memory' \in [Process -> [Obligation -> Receipt \cup {None, "pending"}]]
            /\ \A q \in Process : q # p => memory'[q] = memory[q]
        <5>1. /\ pending' = [pending EXCEPT ![call[p].of] = "resolved"]
              /\ completed' = completed \cup {<<call[p].of, call[p].receipt>>}
              /\ memory' = [memory EXCEPT ![p][call[p].of] = call[p].receipt]
          BY <1>13, <2>2 DEF FulfillWrite
        <5>2. <<call[p].of, call[p].receipt>> \in Obligation \X Receipt
          BY <2>1
        <5>3. completed' \subseteq Obligation \X Receipt
          BY <5>1, <5>2 DEF SubTypeOK
        <5>4. pending' \in [Obligation -> {"none", "open", "resolved"}]
          BY <5>1, <2>1 DEF SubTypeOK
        <5>5. /\ memory' \in [Process -> [Obligation -> Receipt \cup {None, "pending"}]]
              /\ \A q \in Process : q # p => memory'[q] = memory[q]
          BY <5>1, <2>1 DEF SubTypeOK
        <5> QED
          BY <5>3, <5>4, <5>5
      <4>2. /\ call' \in [Process -> Calls]
            /\ \A q \in Process : q # p => call'[q] = call[q]
        BY <1>13 DEF FulfillWrite, SubTypeOK, Calls
      <4> QED
        BY <1>13, <2>1, <3>1, <4>1, <4>2 DEF FulfillWrite, SubTypeOK
    <3> QED
      BY <3>2
  <2>3. CASE ~Resolves(call[p].of, call[p].receipt)
    BY <1>13, <2>1, <2>3 DEF FulfillWrite, SubTypeOK, Calls
  <2> QED
    BY <1>13, <2>2, <2>3 DEF FulfillWrite
<1>14. ASSUME NEW p \in Process, NEW k \in EffectKey, Execute(p, k) PROVE SubTypeOK'
  <2>1. call'[p] \in Calls
    BY <1>14 DEF Execute, SubTypeOK, Calls, Idle
  <2> QED
    BY <1>14, <2>1 DEF Execute, Ready, database, SubTypeOK
<1>15. ASSUME NEW p \in Process, NEW k \in EffectKey, TransactionFacts(p, k)
       PROVE SubTypeOK'
  <2>1. /\ meta' \in [SubStore -> Nat] /\ cache' \in [Process -> [SubStore -> Nat]]
        /\ commits' \in Nat /\ \A q \in Process : q # p => cache'[q] = cache[q]
        /\ revisions' \in [Revised -> SUBSET Nat]
    BY <1>15, ReviseTypes DEF TransactionFacts, Revised
  <2>2. facts' \in [EffectKey -> Nat]
    BY <1>15 DEF TransactionFacts, NextRevision, SubTypeOK, SubStore, Revised
  <2>3. call'[p] \in Calls
    BY <1>15 DEF TransactionFacts, SubTypeOK, Calls, Idle
  <2> QED
    BY <1>15, <2>1, <2>2, <2>3 DEF TransactionFacts, Ready, SubTypeOK
<1>16. ASSUME NEW p \in Process, CommitFound(p) PROVE SubTypeOK'
  BY <1>16 DEF CommitFound, database, SubTypeOK, Calls
<1>17. ASSUME NEW p \in Process, CommitAbsent(p) PROVE SubTypeOK'
  <2>1. call'[p] \in Calls /\ process[p] = "up"
    <3>1. call[p].step = "commit" /\ call' = [call EXCEPT ![p].step = "insert"]
      BY <1>17 DEF CommitAbsent
    <3>2. process[p] = "up"
      BY <3>1, CallShape
    <3>3. call'[p] = [call[p] EXCEPT !.step = "insert"]
      BY <3>1 DEF SubTypeOK
    <3> QED
      BY <3>1, <3>2, <3>3, CallShape
  <2> QED
    BY <1>17, <2>1 DEF CommitAbsent, database, SubTypeOK
<1>18. ASSUME NEW p \in Process, CommitInsert(p) PROVE SubTypeOK'
  <2>1. /\ call[p].key \in EffectKey /\ call[p].of \in {"execute", "transaction"}
        /\ process[p] = "up"
    BY <1>18, CallShape DEF CommitInsert
  <2>2. CASE Insertable(call[p].key) /\ Number(p, {"effects"})
    <3>1. /\ meta' \in [SubStore -> Nat] /\ cache' \in [Process -> [SubStore -> Nat]]
          /\ commits' \in Nat /\ \A q \in Process : q # p => cache'[q] = cache[q]
      BY <2>2, NumberTypes DEF SubStore, Revised
    <3>2. SubTypeOK'
      <4>1. effects' \in [EffectKey -> {"none", "execute", "transaction"}]
        BY <1>18, <2>1, <2>2 DEF CommitInsert, SubTypeOK
      <4>2. /\ call' \in [Process -> Calls]
            /\ \A q \in Process : q # p => call'[q] = call[q]
        BY <1>18 DEF CommitInsert, SubTypeOK, Calls
      <4> QED
        BY <1>18, <2>1, <3>1, <4>1, <4>2 DEF CommitInsert, SubTypeOK
    <3> QED
      BY <3>2
  <2>3. CASE ~Insertable(call[p].key)
    BY <1>18, <2>1, <2>3 DEF CommitInsert, SubTypeOK, Calls
  <2> QED
    BY <1>18, <2>2, <2>3 DEF CommitInsert
<1>19. ASSUME NEW p \in Process, PortNext(p) PROVE SubTypeOK'
  <2>1. PICK S \in SUBSET Revised : PortWrite(p, S)
    BY <1>19, PortWrites
  <2> QED
    BY <1>10, <2>1
<1> QED
  BY <1>1, <1>2, <1>3, <1>4, <1>6, <1>7, <1>8, <1>9, <1>11, <1>12, <1>13, <1>14, <1>15,
     <1>16, <1>17, <1>18, <1>19
  DEF SubNext, PortNext

-----------------------------------------------------------------------------
(***************************************************************************)
(* Revisions without gaps.                                                 *)
(***************************************************************************)
DenseStore == {"world", "episodes"}

\* The row each of the two stores writes with a revision.
Named(s) == IF s = "world" THEN revisions["world"] ELSE rows["episodes"]

\* Dense, one store at a time.
DenseAt(s) == Named(s) = 1..meta[s] /\ \A p \in Process : cache[p][s] <= meta[s]

LEMMA DenseByStore == Dense <=> \A s \in DenseStore : DenseAt(s)
BY DEF Dense, DenseStore, DenseAt, Named

LEMMA DenseByStoreNext == Dense' <=> \A s \in DenseStore : DenseAt(s)'
BY DEF Dense, DenseStore, DenseAt, Named

\* A row the primary key lets through was numbered from the durable revision:
\* a cache that is behind would name a row that is there.
LEMMA NewRowIsNext ==
    ASSUME SubTypeOK, NEW s \in DenseStore, DenseAt(s), NEW p \in Process,
           NEW S \in SUBSET SubStore, s \in S, Number(p, S),
           NextRevision(p, s) \notin Named(s),
           Named(s)' = Named(s) \cup {NextRevision(p, s)}
    PROVE  DenseAt(s)'
<1>1. /\ s \in SubStore /\ meta[s] \in Nat /\ Named(s) = 1..meta[s]
      /\ \A q \in Process : cache[q][s] \in Nat /\ cache[q][s] <= meta[s]
  BY DEF SubTypeOK, DenseAt, DenseStore, SubStore, Revised, Appended
<1>2. cache[p][s] = meta[s]
  <2>1. ~(cache[p][s] + 1 \in 1..meta[s])
    BY <1>1 DEF NextRevision
  <2> QED
    BY <1>1, <2>1
<1>3. meta'[s] = meta[s] + 1 /\ NextRevision(p, s) = meta[s] + 1
  BY <1>1, <1>2 DEF Number, NextRevision
<1>4. Named(s)' = 1..meta'[s]
  <2>1. 1..(meta[s] + 1) = (1..meta[s]) \cup {meta[s] + 1}
    BY <1>1
  <2> QED
    BY <1>1, <1>3, <2>1
<1>5. ASSUME NEW q \in Process PROVE cache'[q][s] <= meta'[s]
  <2>1. cache'[q][s] \in {cache[q][s], meta[s] + 1}
    BY <1>1, <1>3 DEF Number, SubTypeOK
  <2> QED
    BY <1>1, <1>3, <2>1
<1> QED
  BY <1>4, <1>5 DEF DenseAt

\* Numbering other stores leaves this one alone.
LEMMA NumberKeepsDense ==
    ASSUME SubTypeOK, NEW s \in DenseStore, DenseAt(s), NEW p \in Process,
           NEW S \in SUBSET SubStore, s \notin S, Number(p, S), UNCHANGED Named(s)
    PROVE  DenseAt(s)'
<1>1. s \in SubStore
  BY DEF DenseStore, SubStore, Revised, Appended
<1>2. meta'[s] = meta[s]
  BY <1>1 DEF Number
<1>3. ASSUME NEW q \in Process PROVE cache'[q][s] = cache[q][s]
  BY <1>1 DEF Number, SubTypeOK
<1> QED
  BY <1>2, <1>3 DEF DenseAt

\* A transaction with rows in table revisions keeps both stores dense.
LEMMA ReviseKeepsDense ==
    ASSUME SubTypeOK, Dense, NEW p \in Process, NEW S \in SUBSET Revised, Revise(p, S),
           UNCHANGED rows
    PROVE  Dense'
<1>1. S \in SUBSET SubStore /\ Number(p, S)
  BY DEF Revise, SubStore
<1>2. DenseAt("world")'
  <2>1. "world" \in DenseStore /\ "world" \in Revised /\ DenseAt("world")
    BY DenseByStore DEF DenseStore, Revised
  <2>2. CASE "world" \in S
    <3>1. /\ NextRevision(p, "world") \notin Named("world")
          /\ Named("world")' = Named("world") \cup {NextRevision(p, "world")}
      BY <2>1, <2>2 DEF Revise, WithNext, Named
    <3> QED
      BY <1>1, <2>1, <2>2, <3>1, NewRowIsNext
  <2>3. CASE "world" \notin S
    <3>1. UNCHANGED Named("world")
      BY <2>1, <2>3 DEF Revise, WithNext, Named, SubTypeOK
    <3> QED
      BY <1>1, <2>1, <2>3, <3>1, NumberKeepsDense
  <2> QED
    BY <2>2, <2>3
<1>3. DenseAt("episodes")'
  <2>1. "episodes" \in DenseStore /\ "episodes" \notin S /\ DenseAt("episodes")
    BY DenseByStore DEF DenseStore, Revised
  <2>2. UNCHANGED Named("episodes")
    BY DEF Named
  <2> QED
    BY <1>1, <2>1, <2>2, NumberKeepsDense
<1> QED
  BY <1>2, <1>3, DenseByStoreNext DEF DenseStore

\* Every operation keeps the rows dense.
LEMMA DenseStep == SubTypeOK /\ Dense /\ [SubNext]_vars => Dense'
<1> SUFFICES ASSUME SubTypeOK, Dense, [SubNext]_vars PROVE Dense'
  OBVIOUS
<1>1. CASE UNCHANGED <<meta, rows, revisions, cache>>
  BY <1>1 DEF Dense
<1>2. ASSUME NEW p \in Process, Load(p) \/ Gone(p) PROVE Dense'
  <2>1. /\ UNCHANGED <<meta, rows, revisions>>
        /\ \A q \in Process : \A s \in SubStore : cache'[q][s] \in {cache[q][s], meta[s], 0}
    BY <1>2 DEF Load, Gone, Fresh, database, SubTypeOK
  <2>2. \A s \in {"world", "episodes"} : s \in SubStore /\ meta[s] \in Nat
    BY DEF SubTypeOK, SubStore, Revised, Appended
  <2>3. ASSUME NEW q \in Process, NEW s \in {"world", "episodes"}
        PROVE  cache'[q][s] <= meta[s]
    <3>1. cache[q][s] <= meta[s] /\ cache'[q][s] \in {cache[q][s], meta[s], 0}
      BY <2>1, <2>2 DEF Dense
    <3> QED
      BY <3>1, <2>2
  <2> QED
    BY <2>1, <2>3 DEF Dense
<1>3. ASSUME NEW p \in Process, NEW S \in SUBSET Revised, Revise(p, S), UNCHANGED rows
      PROVE  Dense'
  BY <1>3, ReviseKeepsDense
<1>4. ASSUME NEW p \in Process, NEW s \in {"models", "focus", "obligations", "effects"},
             Number(p, {s}), UNCHANGED <<rows, revisions>>
      PROVE  Dense'
  <2>1. {s} \in SUBSET SubStore /\ \A t \in DenseStore : t \notin {s}
    BY DEF SubStore, Upserted, Revised, DenseStore
  <2>2. ASSUME NEW t \in DenseStore PROVE DenseAt(t)'
    <3>1. DenseAt(t) /\ UNCHANGED Named(t)
      BY <1>4, DenseByStore DEF Named
    <3> QED
      BY <1>4, <2>1, <3>1, NumberKeepsDense
  <2> QED
    BY <2>2, DenseByStoreNext
<1>5. ASSUME NEW p \in Process, NEW s \in Appended, Append(p, s) PROVE Dense'
  <2>1. {s} \in SUBSET SubStore /\ Number(p, {s}) /\ UNCHANGED revisions
    BY <1>5 DEF SubStore, Append
  <2>2. DenseAt("world")'
    <3>1. /\ DenseAt("world") /\ UNCHANGED Named("world") /\ "world" \in DenseStore
          /\ "world" \notin {s}
      BY <2>1, DenseByStore DEF Named, DenseStore, Appended
    <3> QED
      BY <2>1, <3>1, NumberKeepsDense
  <2>3. DenseAt("episodes")'
    <3>1. "episodes" \in DenseStore /\ DenseAt("episodes")
      BY DenseByStore DEF DenseStore
    <3>2. CASE s = "episodes"
      <4>1. /\ NextRevision(p, s) \notin Named(s)
            /\ Named(s)' = Named(s) \cup {NextRevision(p, s)}
        BY <1>5, <3>2 DEF Append, Named, SubTypeOK
      <4> QED
        BY <2>1, <3>1, <3>2, <4>1, NewRowIsNext
    <3>3. CASE s # "episodes"
      <4>1. UNCHANGED Named("episodes")
        BY <1>5, <3>3 DEF Append, Named, SubTypeOK
      <4> QED
        BY <2>1, <3>1, <3>3, <4>1, NumberKeepsDense
    <3> QED
      BY <3>2, <3>3
  <2> QED
    BY <2>2, <2>3, DenseByStoreNext DEF DenseStore
<1>6. ASSUME NEW p \in Process, PortNext(p) PROVE Dense'
  <2>1. PICK S \in SUBSET Revised : PortWrite(p, S)
    BY <1>6, PortWrites
  <2> QED
    BY <1>3, <2>1 DEF PortWrite
<1>7. ASSUME NEW p \in Process, NEW k \in EffectKey, TransactionFacts(p, k) PROVE Dense'
  <2>1. {"world"} \in SUBSET Revised /\ Revise(p, {"world"}) /\ UNCHANGED rows
    BY <1>7 DEF TransactionFacts, Revised
  <2> QED
    BY <1>3, <2>1
<1>8. SubNext => \/ UNCHANGED <<meta, rows, revisions, cache>>
                 \/ \E p \in Process :
                      \/ Load(p) \/ Gone(p) \/ PortNext(p)
                      \/ \E s \in Appended : Append(p, s)
                      \/ \E k \in EffectKey : TransactionFacts(p, k)
                      \/ \E s \in {"models", "focus", "obligations", "effects"} :
                           Number(p, {s}) /\ UNCHANGED <<rows, revisions>>
  BY DEF SubNext, PortNext, Open, Activate, Close, Crash, Upsert, AddObligation,
         FulfillRead, FulfillWrite, Execute, CommitFound, CommitAbsent, CommitInsert,
         database, Upserted
<1> QED
  BY <1>1, <1>2, <1>4, <1>5, <1>6, <1>7, <1>8 DEF vars, database, local

-----------------------------------------------------------------------------
(***************************************************************************)
(* The generation of a database.                                           *)
(***************************************************************************)
\* The generation row is written once, by the process whose transaction comes
\* first; an open process never changes the generation it was started with.
LEMMA GenerationStep ==
    SubTypeOK /\ GenerationsMatch /\ [SubNext]_vars => GenerationsMatch'
<1> SUFFICES ASSUME SubTypeOK, GenerationsMatch, [SubNext]_vars PROVE GenerationsMatch'
  OBVIOUS
<1>1. CASE UNCHANGED <<generation, process, started>>
  BY <1>1 DEF GenerationsMatch
<1>2. ASSUME NEW p \in Process, NEW g \in Generation, Open(p, g)
      PROVE  GenerationsMatch'
  BY <1>2 DEF Open, database, GenerationsMatch, SubTypeOK
<1>3. ASSUME NEW p \in Process, Activate(p) PROVE GenerationsMatch'
  <2>1. CASE generation = None
    <3>1. \A q \in Process : process[q] \notin {"opening", "up"}
      BY <2>1 DEF GenerationsMatch, SubTypeOK
    <3> QED
      BY <1>3, <2>1, <3>1 DEF Activate, GenerationsMatch, SubTypeOK
  <2>2. CASE generation # None
    BY <1>3, <2>2 DEF Activate, GenerationsMatch, SubTypeOK
  <2> QED
    BY <2>1, <2>2
<1>4. ASSUME NEW p \in Process, Load(p) PROVE GenerationsMatch'
  BY <1>4 DEF Load, database, GenerationsMatch, SubTypeOK
<1>5. ASSUME NEW p \in Process, Gone(p) PROVE GenerationsMatch'
  BY <1>5 DEF Gone, database, GenerationsMatch, SubTypeOK
<1>6. SubNext => \/ UNCHANGED <<generation, process, started>>
                 \/ \E p \in Process :
                      \/ \E g \in Generation : Open(p, g)
                      \/ Activate(p) \/ Load(p) \/ Gone(p)
  BY DEF SubNext, Close, Crash, Append, Upsert, CommitWorld, PortBegin, PortTransition,
         PortCommit, PortLearning, PortWrite, AddObligation, FulfillRead, FulfillWrite,
         Execute, TransactionFacts, CommitFound, CommitAbsent, CommitInsert, database
<1> QED
  BY <1>1, <1>2, <1>3, <1>4, <1>5, <1>6 DEF vars, database, local

-----------------------------------------------------------------------------
(***************************************************************************)
(* Effects and their facts.                                                *)
(***************************************************************************)
FactsInv == TransactionsHaveFacts /\ EffectHasItsFacts

\* Facts stay in the world once committed.
LEMMA FactsStay ==
    ASSUME SubTypeOK, [SubNext]_vars, NEW k \in EffectKey, facts[k] \in revisions["world"]
    PROVE  facts'[k] \in revisions'["world"]
<1>1. CASE UNCHANGED <<facts, revisions>>
  BY <1>1
<1>2. ASSUME NEW p \in Process, NEW S \in SUBSET Revised, Revise(p, S)
      PROVE  revisions["world"] \subseteq revisions'["world"]
  BY <1>2 DEF Revise, WithNext, Revised
<1>3. ASSUME NEW p \in Process, NEW j \in EffectKey, TransactionFacts(p, j)
      PROVE  facts'[k] \in revisions'["world"]
  <2>1. Revise(p, {"world"}) /\ {"world"} \in SUBSET Revised
    BY <1>3 DEF TransactionFacts, Revised
  <2>2. facts'[k] \in {facts[k], NextRevision(p, "world")}
    BY <1>3 DEF TransactionFacts, SubTypeOK
  <2>3. NextRevision(p, "world") \in revisions'["world"]
    BY <2>1 DEF Revise, WithNext, Revised
  <2> QED
    BY <1>2, <2>1, <2>2, <2>3
<1>4. ASSUME NEW p \in Process, PortNext(p) PROVE facts'[k] \in revisions'["world"]
  <2>1. PICK S \in SUBSET Revised : PortWrite(p, S)
    BY <1>4, PortWrites
  <2> QED
    BY <1>2, <2>1 DEF PortWrite
<1>5. SubNext => \/ UNCHANGED <<facts, revisions>>
                 \/ \E p \in Process :
                      PortNext(p) \/ \E j \in EffectKey : TransactionFacts(p, j)
  BY DEF SubNext, PortNext, Open, Activate, Load, Close, Crash, Gone, Append, Upsert,
         AddObligation, FulfillRead, FulfillWrite, Execute, CommitFound, CommitAbsent,
         CommitInsert, database
<1> QED
  BY <1>1, <1>3, <1>4, <1>5 DEF vars, database

\* A process reaches the second transaction of commit_effect_transaction only
\* through the first.
LEMMA FactsStep == SubTypeOK /\ FactsInv /\ [SubNext]_vars => FactsInv'
<1> SUFFICES ASSUME SubTypeOK, FactsInv, [SubNext]_vars PROVE FactsInv'
  OBVIOUS
<1>1. ASSUME NEW k \in EffectKey, facts[k] \in revisions["world"]
      PROVE  facts'[k] \in revisions'["world"]
  BY <1>1, FactsStay
<1>2. ASSUME UNCHANGED effects,
             \A q \in Process : \/ call'[q].step \notin {"commit", "insert"}
                                \/ call'[q].of # "transaction"
                                \/ /\ call[q].step \in {"commit", "insert"}
                                   /\ call'[q].of = call[q].of
                                   /\ call'[q].key = call[q].key
      PROVE  FactsInv'
  <2>1. \A q \in Process : call[q].step \in {"commit", "insert"} => call[q].key \in EffectKey
    BY CallShape
  <2>2. TransactionsHaveFacts'
    BY <1>1, <1>2, <2>1 DEF FactsInv, TransactionsHaveFacts
  <2>3. EffectHasItsFacts'
    BY <1>1, <1>2 DEF FactsInv, EffectHasItsFacts
  <2> QED
    BY <2>2, <2>3 DEF FactsInv
<1>3. ASSUME NEW p \in Process, NEW k \in EffectKey, TransactionFacts(p, k)
      PROVE  FactsInv'
  <2>1. facts'[k] \in revisions'["world"]
    BY <1>3 DEF TransactionFacts, Revise, WithNext, Revised, SubTypeOK
  <2>2. call'[p].key = k /\ \A q \in Process : q # p => call'[q] = call[q]
    BY <1>3 DEF TransactionFacts, SubTypeOK, Idle
  <2>3. TransactionsHaveFacts'
    BY <1>1, <2>1, <2>2, CallShape DEF FactsInv, TransactionsHaveFacts
  <2>4. EffectHasItsFacts'
    BY <1>1, <1>3 DEF FactsInv, EffectHasItsFacts, TransactionFacts
  <2> QED
    BY <2>3, <2>4 DEF FactsInv
<1>4. ASSUME NEW p \in Process, CommitInsert(p) PROVE FactsInv'
  <2>1. call[p].key \in EffectKey /\ call[p].step = "insert"
    BY <1>4, CallShape DEF CommitInsert
  <2>2. call'[p] = Idle /\ \A q \in Process : q # p => call'[q] = call[q]
    BY <1>4 DEF CommitInsert, SubTypeOK
  <2>3. TransactionsHaveFacts'
    <3>1. ASSUME NEW q \in Process, call'[q].step \in {"commit", "insert"},
                 call'[q].of = "transaction"
          PROVE  facts'[call'[q].key] \in revisions'["world"]
      <4>1. call'[q] = call[q]
        BY <2>2, <3>1 DEF Idle
      <4>2. call[q].key \in EffectKey
        BY <3>1, <4>1, CallShape
      <4> QED
        BY <1>1, <3>1, <4>1, <4>2 DEF FactsInv, TransactionsHaveFacts
    <3> QED
      BY <3>1 DEF TransactionsHaveFacts
  <2>4. EffectHasItsFacts'
    <3>1. ASSUME NEW k \in EffectKey, effects'[k] = "transaction"
          PROVE  facts[k] \in revisions["world"]
      <4>1. \/ effects[k] = "transaction"
            \/ k = call[p].key /\ call[p].of = "transaction"
        BY <1>4, <2>1, <3>1 DEF CommitInsert, SubTypeOK
      <4> QED
        BY <4>1, <2>1 DEF FactsInv, TransactionsHaveFacts, EffectHasItsFacts
    <3> QED
      BY <3>1, <1>1 DEF EffectHasItsFacts
  <2> QED
    BY <2>3, <2>4 DEF FactsInv
<1>5. ASSUME NEW p \in Process, UNCHANGED effects, call' = [call EXCEPT ![p] = Idle]
      PROVE  FactsInv'
  BY <1>2, <1>5 DEF Idle, SubTypeOK
<1>6. ASSUME NEW p \in Process, NEW o \in Obligation, NEW c \in Receipt,
             FulfillRead(p, o, c)
      PROVE  FactsInv'
  <2>1. call'[p].step = "fulfill" /\ \A q \in Process : q # p => call'[q] = call[q]
    BY <1>6 DEF FulfillRead, Idle, SubTypeOK
  <2> QED
    BY <1>2, <1>6, <2>1 DEF FulfillRead, database
<1>7. ASSUME NEW p \in Process, NEW k \in EffectKey, Execute(p, k) PROVE FactsInv'
  <2>1. call'[p].of = "execute" /\ \A q \in Process : q # p => call'[q] = call[q]
    BY <1>7 DEF Execute, Idle, SubTypeOK
  <2> QED
    BY <1>2, <1>7, <2>1 DEF Execute, database
<1>8. ASSUME NEW p \in Process, CommitAbsent(p) PROVE FactsInv'
  <2>1. /\ call[p].step = "commit" /\ call'[p] = [call[p] EXCEPT !.step = "insert"]
        /\ \A q \in Process : q # p => call'[q] = call[q]
    BY <1>8 DEF CommitAbsent, SubTypeOK
  <2>2. call'[p].of = call[p].of /\ call'[p].key = call[p].key
    BY <2>1, CallShape
  <2> QED
    BY <1>2, <1>8, <2>1, <2>2 DEF CommitAbsent, database
<1>9. ASSUME UNCHANGED <<effects, call>> PROVE FactsInv'
  BY <1>2, <1>9
<1>10. SubNext => \/ UNCHANGED <<effects, call>>
                  \/ \E p \in Process :
                       \/ UNCHANGED effects /\ call' = [call EXCEPT ![p] = Idle]
                       \/ \E o \in Obligation, c \in Receipt : FulfillRead(p, o, c)
                       \/ \E k \in EffectKey : Execute(p, k) \/ TransactionFacts(p, k)
                       \/ CommitAbsent(p) \/ CommitInsert(p)
  BY DEF SubNext, Open, Activate, Load, Close, Crash, Gone, Append, Upsert, CommitWorld,
         PortBegin, PortTransition, PortCommit, PortLearning, PortWrite, AddObligation,
         FulfillWrite, CommitFound, database
<1> QED
  BY <1>3, <1>4, <1>5, <1>6, <1>7, <1>8, <1>9, <1>10 DEF vars, database, local

-----------------------------------------------------------------------------
(***************************************************************************)
(* The theorems.                                                           *)
(***************************************************************************)
\* The inductive invariant: types, dense rows, one generation, and facts
\* before effects.
THEOREM SubStoresInvariant ==
    SubSpec => [](SubTypeOK /\ Dense /\ GenerationsMatch /\ FactsInv)
<1>1. SubInit => Dense /\ GenerationsMatch /\ FactsInv
  <2> SUFFICES ASSUME SubInit PROVE Dense /\ GenerationsMatch /\ FactsInv
    OBVIOUS
  <2>1. /\ revisions["world"] = {} /\ meta["world"] = 0
        /\ rows["episodes"] = {} /\ meta["episodes"] = 0
        /\ \A p \in Process, s \in {"world", "episodes"} : cache[p][s] = 0
    BY DEF SubInit, Fresh, SubStore, Revised, Appended
  <2>2. Dense
    <3>1. 1..0 = {}
      OBVIOUS
    <3> QED
      BY <2>1, <3>1 DEF Dense
  <2>3. GenerationsMatch /\ FactsInv
    BY DEF SubInit, GenerationsMatch, FactsInv, TransactionsHaveFacts,
           EffectHasItsFacts, Idle
  <2> QED
    BY <2>2, <2>3
<1>2. SubInit => SubTypeOK
  BY TypeInit
<1>3. /\ SubTypeOK /\ Dense /\ GenerationsMatch /\ FactsInv
      /\ [SubNext]_vars
      => (SubTypeOK /\ Dense /\ GenerationsMatch /\ FactsInv)'
  BY TypeStep, DenseStep, GenerationStep, FactsStep
<1> QED
  BY <1>1, <1>2, <1>3, PTL DEF SubSpec

\* Types hold in every reachable state, for any number of processes.
THEOREM SubTypesCorrect == SubSpec => []SubTypeOK
BY SubStoresInvariant, PTL

\* The world's revisions and the episodes stay 1..n, and no stale process of
\* any writer, the R3 port's included, moves n back.
THEOREM RowsStayDense == SubSpec => []Dense
BY SubStoresInvariant, PTL

\* Two processes that find one fresh database never both activate it with
\* generations of their own.
THEOREM OneGeneration == SubSpec => []GenerationsMatch
BY SubStoresInvariant, PTL

\* No effect of commit_effect_transaction is recorded without its facts,
\* wherever processes die and whatever keys they share.
THEOREM EffectsHaveTheirFacts == SubSpec => []EffectHasItsFacts
<1>1. FactsInv => EffectHasItsFacts
  BY DEF FactsInv
<1> QED
  BY <1>1, SubStoresInvariant, PTL

\* Completed records appear only by consuming an open row.
THEOREM CompletionsConsume == SubSpec => CompletionConsumes
<1>1. SubTypeOK /\ [SubNext]_vars =>
        [\A oc \in completed' \ completed :
            /\ pending[oc[1]] = "open"
            /\ pending'[oc[1]] = "resolved"]_vars
  <2> SUFFICES ASSUME SubTypeOK, SubNext, NEW oc \in completed' \ completed
               PROVE  pending[oc[1]] = "open" /\ pending'[oc[1]] = "resolved"
    BY DEF vars
  <2>1. PICK p \in Process : FulfillWrite(p)
    BY DEF SubNext, Open, Activate, Load, Close, Crash, Gone, Append, Upsert, CommitWorld,
           PortBegin, PortTransition, PortCommit, PortLearning, PortWrite, AddObligation,
           FulfillRead, Execute, TransactionFacts, CommitFound, CommitAbsent,
           CommitInsert, database
  <2>2. call[p].of \in Obligation
    BY <2>1, CallShape DEF FulfillWrite
  <2>3. /\ Resolves(call[p].of, call[p].receipt)
        /\ pending' = [pending EXCEPT ![call[p].of] = "resolved"]
        /\ completed' = completed \cup {<<call[p].of, call[p].receipt>>}
    BY <2>1 DEF FulfillWrite
  <2>4. oc[1] = call[p].of
    BY <2>3
  <2> QED
    BY <2>2, <2>3, <2>4 DEF Resolves, SubTypeOK
<1> QED
  BY <1>1, SubTypesCorrect, PTL DEF SubSpec, CompletionConsumes
=============================================================================
