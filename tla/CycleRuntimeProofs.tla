------------------------- MODULE CycleRuntimeProofs -------------------------
(***************************************************************************)
(* Theorems about CycleRuntime and the ExactStore under it, for any number *)
(* of processes, effects, turns, commits and crashes.                      *)
(***************************************************************************)
EXTENDS CycleRuntime, TLAPS

\* One action of p.
Step(p) ==
  \/ Start(p) \/ Crash(p) \/ Reload(p)
  \/ OrientClaim(p) \/ OrientTeach(p) \/ OrientQuery(p) \/ OrientDirective(p)
  \/ Maintain(p)
  \/ Begin(p) \/ Number(p) \/ Write(p) \/ Abort(p) \/ AfterCommit(p)
  \/ Explain(p) \/ Execute(p) \/ JournalRead(p) \/ JournalUpsert(p)
  \/ Assimilate(p)
  \/ Verified(p) \/ Unverified(p) \/ GroundCheck(p) \/ GroundWrite(p)

\* A step of the program is a step of one of its processes.
LEMMA NextIsStep == Next <=> \E p \in Process : Step(p)
BY DEF Next, Step

-----------------------------------------------------------------------------
(* Type correctness.                                                       *)

\* The records that stand for nothing are of their types.
LEMMA NothingTyped ==
  /\ AnyEffect \in Effect
  /\ NoCycle \in Cycle /\ NoTx \in Tx
  /\ NoObligation \in Obligation /\ NoFocus \in Focus
<1>1. AnyEffect \in Effect
  BY CycleAssumption DEF AnyEffect
<1> QED
  BY <1>1 DEF NoCycle, Cycle, Kinds, Statuses, NoTx, Tx, NoPin,
              NoObligation, Obligation, NoFocus, Focus

\* The generation after the last is a number.
LEMMA GenerationTyped ==
  ASSUME ExactTypeOK
  PROVE  Generation \in Nat /\ Generation > 0
BY DEF ExactTypeOK, Generation

\* Every process starts in the types of the model.
LEMMA TypeInit == Init => CycleTypeOK
BY NothingTyped
   DEF Generation, Init, ExactInit, CycleTypeOK, ExactTypeOK, Statuses, PC

\* What the actions write into their own records.
LEMMA CycleTyped ==
  /\ \A c \in Cycle, n \in Nat : [c EXCEPT !.facts = n] \in Cycle
  /\ \A c \in Cycle, n \in Nat : [c EXCEPT !.base = n] \in Cycle
  /\ \A c \in Cycle, s \in Statuses : [c EXCEPT !.result = s] \in Cycle
BY DEF Cycle

\* The fields the actions read.
LEMMA FieldsTyped ==
  ASSUME CycleTypeOK, NEW p \in Process
  PROVE  /\ rev.world \in Nat /\ rev.discourse \in Nat
         /\ rev.observation \in Nat /\ rev.effect \in Nat
         /\ cycle[p] \in Cycle /\ tx[p] \in Tx
         /\ cycle[p].effect \in Effect /\ cycle[p].result \in Statuses
         /\ cycle[p].base \in Nat /\ cycle[p].facts \in Nat
         /\ cycle[p].discourse \in Nat
         /\ turn[p] \in Nat /\ gen[p] \in Nat
         /\ Generation + 1 \in Nat
         /\ tx[p].stage \in {13, 17} /\ tx[p].pin \in Nat \cup {NoPin}
         /\ tx[p].delta \in BOOLEAN /\ tx[p].apps \in BOOLEAN
         /\ tx[p].rules \in BOOLEAN
<1>1. cycle[p] \in Cycle /\ tx[p] \in Tx
  BY DEF CycleTypeOK
<1>2. /\ rev.world \in Nat /\ rev.discourse \in Nat
      /\ rev.observation \in Nat /\ rev.effect \in Nat
  BY DEF CycleTypeOK, ExactTypeOK
<1>3. turn[p] \in Nat /\ gen[p] \in Nat
  BY DEF CycleTypeOK
<1>4. Generation + 1 \in Nat
  BY GenerationTyped DEF CycleTypeOK
<1> QED
  BY <1>1, <1>2, <1>3, <1>4 DEF Cycle, Tx

\* The cycle a runtime orients is one.
LEMMA OrientedTyped ==
  ASSUME NEW kind \in Kinds, NEW e \in Effect, NEW n \in Nat,
         NEW learns \in BOOLEAN
  PROVE  /\ [NoCycle EXCEPT !.kind = kind] \in Cycle
         /\ [NoCycle EXCEPT !.kind = kind, !.effect = e,
                            !.discourse = n, !.learns = learns] \in Cycle
BY NothingTyped DEF Cycle

\* The three kinds of generation a cycle begins are transactions.
LEMMA TxTyped ==
  ASSUME ExactTypeOK, NEW stage \in {13, 17},
         NEW d \in [delta : BOOLEAN, apps : BOOLEAN, rules : BOOLEAN]
  PROVE  /\ Pinned(stage, d) \in Tx
         /\ Unpinned \in Tx
         /\ Frontiers \in Tx
BY DEF ExactTypeOK, Pinned, Unpinned, Frontiers, NoDelta, Tx, NoPin

\* So is one that has taken its number.
LEMMA NumberTyped ==
  \A t \in Tx, n \in Nat : [t EXCEPT !.number = n] \in Tx
BY DEF Tx

\* An obligation that has not expired is still one.
LEMMA AliveTyped ==
  ASSUME CycleTypeOK, NEW p \in Process, NEW n \in Nat
  PROVE  Alive(p, n) \in Obligation
BY NothingTyped DEF Alive, CycleTypeOK

\* Orientation keeps the types, whatever the kind of cycle.
LEMMA OrientStep ==
  ASSUME CycleTypeOK, NEW p \in Process, NEW kind \in Kinds, NEW where \in PC,
         Orient(p, kind, where), tx' \in [Process -> Tx]
  PROVE  CycleTypeOK'
<1>1. /\ pc' \in [Process -> PC]
      /\ turn' \in [Process -> Nat]
  BY DEF Orient, Goto, CycleTypeOK
<1>2. pending' \in [Process -> Obligation]
  <2>1. Alive(p, turn[p] + 1) \in Obligation
    BY AliveTyped DEF CycleTypeOK
  <2> QED
    BY <2>1 DEF Orient, CycleTypeOK
<1>3. cycle' \in [Process -> Cycle]
  <2>1. PICK e \in Effect, learns \in BOOLEAN :
          cycle' = [cycle EXCEPT ![p] =
                      [NoCycle EXCEPT !.kind = kind, !.effect = e,
                                      !.discourse = rev.discourse,
                                      !.learns = learns]]
    BY DEF Orient
  <2>2. rev.discourse \in Nat
    BY DEF CycleTypeOK, ExactTypeOK
  <2> QED
    BY <2>1, <2>2, OrientedTyped DEF CycleTypeOK
<1> QED
  BY <1>1, <1>2, <1>3 DEF Orient, exactVars, CycleTypeOK, ExactTypeOK

\* A cycle, and its generation, are over.
LEMMA EndedTyped ==
  ASSUME CycleTypeOK, NEW p \in Process, Ended(p)
  PROVE  /\ pc' \in [Process -> PC]
         /\ cycle' \in [Process -> Cycle]
         /\ tx' \in [Process -> Tx]
BY NothingTyped DEF Ended, Goto, PC, CycleTypeOK

\* So does binding a process to a generation.
LEMMA RebindTyped ==
  ASSUME CycleTypeOK, NEW p \in Process, Rebind(p)
  PROVE  /\ gen' \in [Process -> Nat]
         /\ pending' \in [Process -> Obligation]
         /\ focus' \in [Process -> Focus]
<1>1. Generation \in Nat
  BY GenerationTyped DEF CycleTypeOK
<1> QED
  BY <1>1, NothingTyped DEF Rebind, CycleTypeOK

\* So does going on to the next durable stage.
LEMMA ProceedTyped ==
  ASSUME CycleTypeOK, NEW p \in Process, Proceed(p)
  PROVE  /\ pc' \in [Process -> PC]
         /\ cycle' \in [Process -> Cycle]
         /\ tx' \in [Process -> Tx]
BY EndedTyped, NothingTyped DEF Proceed, Goto, PC, CycleTypeOK

\* Every step of every process keeps the types.
LEMMA TypeStep == CycleTypeOK /\ [Next]_vars => CycleTypeOK'
<1> SUFFICES ASSUME CycleTypeOK, [Next]_vars PROVE CycleTypeOK'
  OBVIOUS
<1> USE NothingTyped DEF CycleTypeOK, ExactTypeOK, exactVars
<1>f. Frontiers \in Tx /\ Unpinned \in Tx
  <2>1. NoDelta \in [delta : BOOLEAN, apps : BOOLEAN, rules : BOOLEAN]
    BY DEF NoDelta
  <2> QED
    BY <2>1, TxTyped
<1>0. CASE UNCHANGED vars
  BY <1>0 DEF vars, runtimeVars, ExactTypeOK
<1>1. ASSUME NEW p \in Process, Step(p)
      PROVE  CycleTypeOK'
  <2>1. CASE Start(p)
    <3>1. pc' \in [Process -> PC]
      BY <2>1 DEF Start, Goto, PC
    <3> QED
      BY <2>1, <3>1, RebindTyped DEF Start
  <2>2. CASE Crash(p)
    <3>1. pc' \in [Process -> PC]
      BY <2>2 DEF Crash, Goto, PC
    <3>2. /\ cycle' \in [Process -> Cycle]
          /\ tx' \in [Process -> Tx]
      BY <2>2 DEF Crash
    <3>3. /\ pending' \in [Process -> Obligation]
          /\ focus' \in [Process -> Focus]
      BY <2>2 DEF Crash
    <3>4. /\ turn' \in [Process -> Nat]
          /\ gen' \in [Process -> Nat]
          /\ crashes' \in Nat
      BY <2>2 DEF Crash
    <3>5. UNCHANGED <<exactVars, executed>>
      BY <2>2 DEF Crash
    <3> QED
      BY <3>1, <3>2, <3>3, <3>4, <3>5
  <2>3. CASE Reload(p)
    BY <2>3, RebindTyped DEF Reload
  <2>4. CASE OrientClaim(p)
    <3>1. PICK d \in Deltas : tx' = [tx EXCEPT ![p] = Pinned(13, d)]
      BY <2>4 DEF OrientClaim
    <3>2. tx' \in [Process -> Tx]
      BY <3>1, TxTyped DEF Deltas
    <3> QED
      BY <2>4, <3>2, OrientStep DEF OrientClaim, Kinds, PC
  <2>5. CASE OrientTeach(p)
    <3>1. tx' \in [Process -> Tx]
      <4>1. CASE UNCHANGED tx
        BY <4>1
      <4>2. ASSUME NEW d \in Deltas, tx' = [tx EXCEPT ![p] = Pinned(13, d)]
            PROVE  tx' \in [Process -> Tx]
        BY <4>2, TxTyped DEF Deltas
      <4> QED
        BY <2>5, <4>1, <4>2 DEF OrientTeach
    <3>2. Orient(p, "claim", "begin") \/ Orient(p, "claim", "respond")
      BY <2>5 DEF OrientTeach
    <3> QED
      BY <3>1, <3>2, OrientStep DEF Kinds, PC
  <2>6. CASE OrientQuery(p)
    <3>1. tx' \in [Process -> Tx]
      BY <2>6, <1>f DEF OrientQuery
    <3> QED
      BY <2>6, <3>1, OrientStep DEF OrientQuery, Kinds, PC
  <2>7. CASE OrientDirective(p)
    <3>1. tx' \in [Process -> Tx]
      BY <2>7, <1>f DEF OrientDirective
    <3> QED
      BY <2>7, <3>1, OrientStep DEF OrientDirective, Kinds, PC
  <2>8. CASE Maintain(p)
    <3>1. /\ pc' \in [Process -> PC]
          /\ cycle' \in [Process -> Cycle]
      BY <2>8, OrientedTyped DEF Maintain, Goto, PC, Kinds
    <3>2. tx' \in [Process -> Tx]
      <4>1. Pinned(13, [delta |-> TRUE, apps |-> TRUE, rules |-> FALSE]) \in Tx
        BY TxTyped
      <4> QED
        BY <2>8, <4>1, <1>f DEF Maintain
    <3> QED
      BY <2>8, <3>1, <3>2 DEF Maintain
  <2>9. CASE Begin(p)
    BY <2>9 DEF Begin, Goto, PC
  <2>10. CASE Number(p)
    <3>1. [tx[p] EXCEPT !.number = Generation + 1] \in Tx
      BY NumberTyped, FieldsTyped
    <3> QED
      BY <2>10, <3>1 DEF Number, Goto, PC
  <2>11. CASE Write(p)
    <3>1. /\ pc' \in [Process -> PC]
          /\ tx' \in [Process -> Tx]
      <4>1. CASE tx[p].stage = 13
        BY <2>11, <4>1 DEF Write, Goto, PC
      <4>2. CASE tx[p].stage # 13
        <5>1. /\ pc' = [pc EXCEPT ![p] = "respond"]
              /\ tx' = [tx EXCEPT ![p] = NoTx]
          BY <2>11, <4>2 DEF Write, Goto
        <5> QED
          BY <5>1 DEF PC
      <4> QED
        BY <4>1, <4>2
    <3>2. NextWorld(tx[p].delta) \in Nat
      BY FieldsTyped DEF NextWorld
    <3>3. rev' \in [world : Nat, discourse : Nat,
                    observation : Nat, effect : Nat]
      <4>1. rev' = [rev EXCEPT !.world = NextWorld(tx[p].delta),
                               !.observation = rev.observation + 1]
        BY <2>11 DEF Write, Finish
      <4>2. rev.observation + 1 \in Nat
        BY FieldsTyped
      <4> QED
        BY <4>1, <4>2, <3>2
    <3>4. [owner |-> p, stage |-> tx[p].stage, expected |-> tx[p].pin,
           world |-> NextWorld(tx[p].delta), delta |-> tx[p].delta,
           apps |-> tx[p].apps, rules |-> tx[p].rules] \in Receipt
      BY <3>2, FieldsTyped DEF Receipt
    <3>5. log' \in Seq(Receipt)
      BY <2>11, <3>4 DEF Write, Finish
    <3> QED
      BY <2>11, <3>1, <3>3, <3>5 DEF Write, Finish
  <2>12. CASE Abort(p)
    BY <2>12, EndedTyped DEF Abort
  <2>13. CASE AfterCommit(p)
    BY <2>13, RebindTyped, ProceedTyped DEF AfterCommit
  <2>14. CASE Explain(p)
    <3>1. [cycle[p] EXCEPT !.facts = rev.world] \in Cycle
      BY CycleTyped, FieldsTyped
    <3>2. pc' \in [Process -> PC]
      BY <2>14 DEF Explain, Goto, PC
    <3>3. cycle' \in [Process -> Cycle]
      BY <2>14, <3>1 DEF Explain
    <3>4. tx' \in [Process -> Tx]
      BY <2>14 DEF Explain
    <3> QED
      BY <2>14, <3>2, <3>3, <3>4 DEF Explain
  <2>15. CASE Execute(p)
    <3>1. PICK result \in {"succeeded", "failed", "declined"} :
            /\ cycle' = [cycle EXCEPT ![p].result = result]
            /\ executed' = [executed EXCEPT ![cycle[p].effect] =
                              IF result = "declined" THEN @ ELSE @ + 1]
      BY <2>15 DEF Execute
    <3>2. [cycle[p] EXCEPT !.result = result] \in Cycle
      BY CycleTyped, FieldsTyped DEF Statuses
    <3>3. executed' \in [Effect -> Nat]
      <4>1. executed[cycle[p].effect] \in Nat
        BY FieldsTyped
      <4>2. CASE result = "declined"
        BY <3>1, <4>1, <4>2
      <4>3. CASE result # "declined"
        <5>1. executed' = [executed EXCEPT ![cycle[p].effect] =
                             executed[cycle[p].effect] + 1]
          BY <3>1, <4>3
        <5>2. executed[cycle[p].effect] + 1 \in Nat
          BY <4>1
        <5> QED
          BY <5>1, <5>2
      <4> QED
        BY <4>2, <4>3
    <3>4. cycle' \in [Process -> Cycle]
      BY <3>1, <3>2
    <3> QED
      BY <2>15, <3>3, <3>4 DEF Execute, Goto, PC
  <2>16. CASE JournalRead(p)
    <3>1. [cycle[p] EXCEPT !.base = rev.effect] \in Cycle
      BY CycleTyped, FieldsTyped
    <3> QED
      BY <2>16, <3>1 DEF JournalRead, Goto, PC
  <2>17. CASE JournalUpsert(p)
    <3>1. /\ cycle[p].effect \in Effect
          /\ cycle[p].result \in Statuses
          /\ cycle[p].base \in Nat
      BY FieldsTyped
    <3>2. cycle[p].base + 1 \in Nat
      BY <3>1
    <3> QED
      BY <2>17, <3>1, <3>2 DEF JournalUpsert, JournalEffect, Goto, PC
  <2>18. CASE Assimilate(p)
    <3>1. Pinned(17, NoDelta) \in Tx
      BY TxTyped DEF NoDelta
    <3> QED
      BY <2>18, <3>1 DEF Assimilate, Goto, PC
  <2>19. CASE Verified(p)
    <3>1. Answered(p) \in Focus
      BY DEF Answered, Focus, Cycle
    <3>2. focus' \in [Process -> Focus]
      BY <2>19, <3>1 DEF Verified
    <3>3. /\ pc' \in [Process -> PC]
          /\ cycle' \in [Process -> Cycle]
          /\ tx' \in [Process -> Tx]
      BY <2>19, EndedTyped DEF Verified, Goto, PC
    <3> QED
      BY <2>19, <3>2, <3>3 DEF Verified
  <2>20. CASE Unverified(p)
    BY <2>20, EndedTyped DEF Unverified
  <2>21. CASE GroundCheck(p)
    BY <2>21 DEF GroundCheck, Goto, PC
  <2>22. CASE GroundWrite(p)
    <3>1. Requested(p) \subseteq Obligation
      BY DEF Requested, Obligation
    <3>2. pending' \in [Process -> Obligation]
      BY <2>22, <3>1 DEF GroundWrite
    <3>3. cycle[p].discourse + 1 \in Nat /\ turn[p] \in Nat
      <4>1. cycle[p].discourse \in Nat /\ turn[p] \in Nat
        BY FieldsTyped
      <4> QED
        BY <4>1
    <3>4. /\ rev' \in [world : Nat, discourse : Nat,
                        observation : Nat, effect : Nat]
          /\ ground' = ground \cup {[owner |-> p, act |-> turn[p],
                                     revision |-> cycle[p].discourse + 1]}
      BY <2>22, <3>3 DEF GroundWrite, CommitCommonGround
    <3>5. ground' \subseteq [owner : Process, act : Nat, revision : Nat]
      BY <3>3, <3>4
    <3> QED
      BY <2>22, <3>2, <3>4, <3>5, EndedTyped DEF GroundWrite, CommitCommonGround
  <2> QED
    BY <1>1, <2>1, <2>2, <2>3, <2>4, <2>5, <2>6, <2>7, <2>8, <2>9, <2>10, <2>11,
       <2>12, <2>13, <2>14, <2>15, <2>16, <2>17, <2>18, <2>19, <2>20, <2>21, <2>22 DEF Step
<1> QED
  BY <1>0, <1>1, NextIsStep

\* CycleTypeOK: the tables and the memory of every runtime are well-typed
\* along every behaviour.
THEOREM CycleTypeCorrect == Spec => []CycleTypeOK
BY TypeInit, TypeStep, PTL DEF Spec

-----------------------------------------------------------------------------
(* The store: what any action does to it is one of four things.            *)

\* What a step may do to the store: finish a generation, move the discourse
\* revision, count an effect, or nothing.
LEMMA StoreEffects ==
  ASSUME CycleTypeOK, NEW p \in Process, Step(p)
  PROVE  \/ UNCHANGED <<rev, log>>
         \/ Finish(p, tx[p].stage, tx[p].pin, tx[p].number,
                   tx[p].delta, tx[p].apps, tx[p].rules) /\ Write(p)
         \/ /\ rev' = [rev EXCEPT !.discourse = cycle[p].discourse + 1]
            /\ UNCHANGED log
         \/ /\ rev' = [rev EXCEPT !.effect = cycle[p].base + 1]
            /\ UNCHANGED log
<1> USE DEF exactVars
<1>1. CASE Write(p)
  BY <1>1 DEF Write
<1>2. CASE GroundWrite(p)
  BY <1>2 DEF GroundWrite, CommitCommonGround
<1>3. CASE JournalUpsert(p)
  BY <1>3 DEF JournalUpsert, JournalEffect
<1>4. CASE \/ Start(p) \/ Crash(p) \/ Reload(p) \/ Maintain(p)
  BY <1>4 DEF Start, Crash, Reload, Maintain
<1>5. CASE \/ OrientClaim(p) \/ OrientTeach(p)
           \/ OrientQuery(p) \/ OrientDirective(p)
  BY <1>5 DEF OrientClaim, OrientTeach, OrientQuery, OrientDirective, Orient
<1>6. CASE \/ Begin(p) \/ Number(p) \/ Abort(p) \/ AfterCommit(p)
  BY <1>6 DEF Begin, Number, Abort, AfterCommit
<1>7. CASE \/ Explain(p) \/ Execute(p) \/ JournalRead(p) \/ Assimilate(p)
           \/ Verified(p) \/ Unverified(p) \/ GroundCheck(p)
  BY <1>7 DEF Explain, Execute, JournalRead, Assimilate, Verified, Unverified,
              GroundCheck
<1> QED
  BY <1>1, <1>2, <1>3, <1>4, <1>5, <1>6, <1>7 DEF Step

\* What ReceiptsChain and NoStaleCommit say, and all they depend on.
Chain == ReceiptsChain /\ NoStaleCommit

\* A finished generation continues the line of receipts.
LEMMA FinishChains ==
  ASSUME CycleTypeOK, Chain, NEW p \in Process,
         Finish(p, tx[p].stage, tx[p].pin, tx[p].number,
                tx[p].delta, tx[p].apps, tx[p].rules)
  PROVE  Chain'
<1> DEFINE r == [owner |-> p, stage |-> tx[p].stage, expected |-> tx[p].pin,
                 world |-> NextWorld(tx[p].delta), delta |-> tx[p].delta,
                 apps |-> tx[p].apps, rules |-> tx[p].rules]
           n == Len(log) + 1
<1>1. log \in Seq(Receipt) /\ Len(log) \in Nat
  BY DEF CycleTypeOK, ExactTypeOK
<1>2. /\ log' = Append(log, r)
      /\ tx[p].pin \in {NoPin, rev.world}
  BY DEF Finish, FinishAccepted, Rechecked, PinHolds
<1>3. /\ Len(log') = n
      /\ DOMAIN log' = 1 .. n /\ DOMAIN log = 1 .. Len(log)
      /\ log'[n] = r
      /\ \A i \in 1 .. Len(log) : log'[i] = log[i]
  BY <1>1, <1>2
<1>4. /\ rev'.world = NextWorld(tx[p].delta)
      /\ rev'.observation = rev.observation + 1
  BY DEF Finish, CycleTypeOK, ExactTypeOK
<1>5. \A i \in 1 .. n : Before(i)' = Before(i)
  BY <1>1, <1>3 DEF Before
<1>6. rev.world = Before(n) /\ rev.observation = Len(log)
  BY DEF Chain, ReceiptsChain
<1>7. ReceiptsChain'
  <2>1. ASSUME NEW i \in 1 .. n
        PROVE  log'[i].world = IF log'[i].delta THEN Before(i)' + 1
                               ELSE Before(i)'
    <3>1. CASE i = n
      BY <3>1, <1>3, <1>5, <1>6 DEF NextWorld
    <3>2. CASE i # n
      <4>1. i \in 1 .. Len(log)
        BY <3>2, <1>1
      <4> QED
        BY <4>1, <1>3, <1>5 DEF Chain, ReceiptsChain
    <3> QED
      BY <3>1, <3>2
  <2>2. Before(Len(log) + 1)' = r.world
    BY <1>1, <1>3 DEF Before
  <2> QED
    BY <2>1, <2>2, <1>1, <1>3, <1>4, <1>6 DEF ReceiptsChain
<1>8. NoStaleCommit'
  <2>1. ASSUME NEW i \in 1 .. n
        PROVE  log'[i].expected \in {NoPin, Before(i)'}
    <3>1. CASE i = n
      BY <3>1, <1>2, <1>3, <1>5, <1>6
    <3>2. CASE i # n
      <4>1. i \in 1 .. Len(log)
        BY <3>2, <1>1
      <4> QED
        BY <4>1, <1>3, <1>5 DEF Chain, NoStaleCommit
    <3> QED
      BY <3>1, <3>2
  <2> QED
    BY <2>1, <1>3 DEF NoStaleCommit
<1> QED
  BY <1>7, <1>8 DEF Chain

\* Steps that finish nothing leave the line alone.
LEMMA QuietChains ==
  ASSUME Chain, UNCHANGED log,
         rev'.world = rev.world, rev'.observation = rev.observation
  PROVE  Chain'
<1>1. \A i : Before(i)' = Before(i)
  BY DEF Before
<1> QED
  BY <1>1 DEF Chain, ReceiptsChain, NoStaleCommit

\* The line of receipts goes from step to step.
LEMMA ChainStep == CycleTypeOK /\ Chain /\ [Next]_vars => Chain'
<1> SUFFICES ASSUME CycleTypeOK, Chain, [Next]_vars PROVE Chain'
  OBVIOUS
<1>1. CASE UNCHANGED vars
  BY <1>1, QuietChains DEF vars, exactVars
<1>2. ASSUME NEW p \in Process, Step(p)
      PROVE  Chain'
  <2>1. CASE UNCHANGED <<rev, log>>
    BY <2>1, QuietChains
  <2>2. CASE Finish(p, tx[p].stage, tx[p].pin, tx[p].number,
                    tx[p].delta, tx[p].apps, tx[p].rules)
    BY <2>2, FinishChains
  <2>3. CASE /\ rev' = [rev EXCEPT !.discourse = cycle[p].discourse + 1]
             /\ UNCHANGED log
    <3>1. rev'.world = rev.world /\ rev'.observation = rev.observation
      BY <2>3 DEF CycleTypeOK, ExactTypeOK
    <3> QED
      BY <2>3, <3>1, QuietChains
  <2>4. CASE /\ rev' = [rev EXCEPT !.effect = cycle[p].base + 1]
             /\ UNCHANGED log
    <3>1. rev'.world = rev.world /\ rev'.observation = rev.observation
      BY <2>4 DEF CycleTypeOK, ExactTypeOK
    <3> QED
      BY <2>4, <3>1, QuietChains
  <2> QED
    BY <1>2, <2>1, <2>2, <2>3, <2>4, StoreEffects
<1> QED
  BY <1>1, <1>2, NextIsStep

\* An empty store has an empty line.
LEMMA ChainInit == Init => Chain
BY DEF Init, ExactInit, Chain, ReceiptsChain, NoStaleCommit, Before

\* ReceiptsChain: whatever the interleaving of any number of processes, with
\* every number and revision computed from rows read before the transaction,
\* the receipts form one gapless line of world and observation revisions.
THEOREM ReceiptsFormALine == Spec => []ReceiptsChain
<1>1. Chain => ReceiptsChain
  BY DEF Chain
<1> QED
  BY <1>1, ChainInit, ChainStep, CycleTypeCorrect, PTL DEF Spec

\* NoStaleCommit: the Stage 13 and Stage 17 commits are made on exactly the
\* world revision the cycle pinned.
THEOREM PinnedCommitsAreExact == Spec => []NoStaleCommit
<1>1. Chain => NoStaleCommit
  BY DEF Chain
<1> QED
  BY <1>1, ChainInit, ChainStep, CycleTypeCorrect, PTL DEF Spec

-----------------------------------------------------------------------------
(* The memory of a runtime.  The invariant is per process: it relates the  *)
(* rows of p to one another and to the generations p has committed.        *)

Learning == {"begin", "number", "write", "committed", "respond", "ground",
             "emit"}

\* DialogueMatchesAuthority, of p.
Licensed(p) ==
  /\ pending[p] # NoObligation => pending[p].gen = gen[p]
  /\ focus[p] # NoFocus => focus[p].gen = gen[p]

\* ObligationOutlivesCommit, of p.
Answerable(p) ==
  cycle[p].learns /\ pc[p] \in {"begin", "number", "write", "committed"} =>
    /\ pending[p] # NoObligation
    /\ pending[p].gen = gen[p]
    /\ ~Expired(pending[p], turn[p])

\* Only a claim answers an obligation, and it never reaches Stages 10 and 16;
\* a Stage 17 commit admits nothing.
Shaped(p) ==
  /\ cycle[p].learns => cycle[p].kind = "claim" /\ pc[p] \in Learning
  /\ tx[p].stage = 17 => ~tx[p].apps

\* Between the commit and the reload p is bound to an older generation.
Bound(p) ==
  \A i \in DOMAIN log :
    log[i].owner = p /\ log[i].expected # NoPin /\ log[i].apps /\ pc[p] # "down" =>
      \/ gen[p] >= i + 1
      \/ pc[p] = "committed" /\ Rebinds(tx[p])

Session(p) == Licensed(p) /\ Answerable(p) /\ Shaped(p) /\ Bound(p)

SessionInv == \A p \in Process : Session(p)

Rows(p) == <<pc[p], turn[p], gen[p], pending[p], focus[p], cycle[p], tx[p]>>

\* A step of one process writes no rows of another.
LEMMA OtherRows ==
  ASSUME CycleTypeOK, NEW p \in Process, Step(p),
         NEW q \in Process, q # p
  PROVE  Rows(q)' = Rows(q)
<1> USE DEF CycleTypeOK, Rows
<1>1. CASE Start(p)
  BY <1>1 DEF Start, Goto, Rebind
<1>2. CASE Crash(p)
  BY <1>2 DEF Crash, Goto
<1>3. CASE Reload(p)
  BY <1>3 DEF Reload, Goto, Rebind
<1>4. CASE OrientClaim(p)
  BY <1>4 DEF OrientClaim, Goto, Orient
<1>5. CASE OrientTeach(p)
  BY <1>5 DEF OrientTeach, Goto, Orient
<1>6. CASE OrientQuery(p)
  BY <1>6 DEF OrientQuery, Goto, Orient
<1>7. CASE OrientDirective(p)
  BY <1>7 DEF OrientDirective, Goto, Orient
<1>8. CASE Maintain(p)
  BY <1>8 DEF Maintain, Goto
<1>9. CASE Begin(p)
  BY <1>9 DEF Begin, Goto
<1>10. CASE Number(p)
  BY <1>10 DEF Number, Goto
<1>11. CASE Write(p)
  BY <1>11 DEF Write, Goto, Finish
<1>12. CASE Abort(p)
  BY <1>12 DEF Abort, Goto, Ended
<1>13. CASE AfterCommit(p)
  BY <1>13 DEF AfterCommit, Goto, Rebind, Proceed, Ended
<1>14. CASE Explain(p)
  BY <1>14 DEF Explain, Goto
<1>15. CASE Execute(p)
  BY <1>15 DEF Execute, Goto
<1>16. CASE JournalRead(p)
  BY <1>16 DEF JournalRead, Goto
<1>17. CASE JournalUpsert(p)
  BY <1>17 DEF JournalUpsert, Goto, JournalEffect
<1>18. CASE Assimilate(p)
  BY <1>18 DEF Assimilate, Goto
<1>19. CASE Verified(p)
  BY <1>19 DEF Verified, Goto, Ended
<1>20. CASE Unverified(p)
  BY <1>20 DEF Unverified, Goto, Ended
<1>21. CASE GroundCheck(p)
  BY <1>21 DEF GroundCheck, Goto
<1>22. CASE GroundWrite(p)
  BY <1>22 DEF GroundWrite, Goto, CommitCommonGround, Ended
<1> QED
  BY <1>1, <1>2, <1>3, <1>4, <1>5, <1>6, <1>7, <1>8, <1>9, <1>10, <1>11,
     <1>12, <1>13, <1>14, <1>15, <1>16, <1>17, <1>18, <1>19, <1>20, <1>21, <1>22 DEF Step

\* The log of generations grows at its end, and by the writing step only.
LEMMA LogStep ==
  ASSUME CycleTypeOK, NEW p \in Process, Step(p)
  PROVE  \/ log' = log
         \/ /\ Write(p)
            /\ Len(log') = Len(log) + 1
            /\ DOMAIN log' = DOMAIN log \cup {Len(log) + 1}
            /\ \A i \in DOMAIN log : log'[i] = log[i]
            /\ log'[Len(log) + 1].owner = p
            /\ log'[Len(log) + 1].apps = tx[p].apps
            /\ log'[Len(log) + 1].expected = tx[p].pin
<1>1. log \in Seq(Receipt) /\ Len(log) \in Nat
  BY DEF CycleTypeOK, ExactTypeOK
<1>2. CASE UNCHANGED log
  BY <1>2
<1>3. CASE Write(p) /\ Finish(p, tx[p].stage, tx[p].pin, tx[p].number,
                              tx[p].delta, tx[p].apps, tx[p].rules)
  <2>1. PICK r : /\ log' = Append(log, r) /\ r.owner = p
                 /\ r.apps = tx[p].apps /\ r.expected = tx[p].pin
    BY <1>3 DEF Finish
  <2> QED
    BY <2>1, <1>1, <1>3
<1> QED
  BY <1>2, <1>3, StoreEffects

\* A step of one process leaves another's session as it was.
LEMMA OtherSession ==
  ASSUME CycleTypeOK, NEW p \in Process, Step(p),
         NEW q \in Process, q # p, Session(q)
  PROVE  Session(q)'
<1>1. /\ pc'[q] = pc[q] /\ turn'[q] = turn[q] /\ gen'[q] = gen[q]
      /\ pending'[q] = pending[q] /\ focus'[q] = focus[q]
      /\ cycle'[q] = cycle[q] /\ tx'[q] = tx[q]
  BY OtherRows DEF Rows
<1>2. Licensed(q)' /\ Answerable(q)' /\ Shaped(q)'
  BY <1>1 DEF Session, Licensed, Answerable, Shaped, Expired
<1>3. Bound(q)'
  <2>1. CASE log' = log
    BY <2>1, <1>1 DEF Session, Bound
  <2>2. CASE log' # log
    BY <2>2, <1>1, LogStep DEF Session, Bound
  <2> QED
    BY <2>1, <2>2
<1> QED
  BY <1>2, <1>3 DEF Session

\* A rebound runtime is bound to everything in the store.
LEMMA RebindBinds ==
  ASSUME CycleTypeOK, NEW p \in Process, Rebind(p), UNCHANGED log
  PROVE  /\ Licensed(p)'
         /\ Bound(p)'
<1>1. /\ gen'[p] = Generation /\ pending'[p] = NoObligation
      /\ focus'[p] = NoFocus
  BY DEF Rebind, CycleTypeOK
<1>2. \A i \in DOMAIN log : Generation >= i + 1
  BY DEF Generation, CycleTypeOK, ExactTypeOK
<1> QED
  BY <1>1, <1>2 DEF Licensed, Bound

\* Ending a cycle leaves nothing to answer.
LEMMA EndedRows ==
  ASSUME CycleTypeOK, NEW p \in Process, Ended(p)
  PROVE  /\ pc'[p] = "idle" /\ cycle'[p] = NoCycle /\ tx'[p] = NoTx
         /\ Answerable(p)' /\ Shaped(p)'
<1>1. /\ pc'[p] = "idle" /\ cycle'[p] = NoCycle /\ tx'[p] = NoTx
  BY DEF Ended, Goto, CycleTypeOK
<1>2. ~NoCycle.learns /\ NoTx.stage # 17
  BY DEF NoCycle, NoTx
<1> QED
  BY <1>1, <1>2 DEF Answerable, Shaped

\* Orienting leaves the obligation of a live plan, or none.
LEMMA OrientSession ==
  ASSUME CycleTypeOK, NEW p \in Process, Session(p),
         NEW kind, NEW where \in {"begin", "explain", "execute", "respond"},
         Orient(p, kind, where),
         cycle'[p].learns => where \in {"begin", "respond"},
         tx'[p].stage = 17 => ~tx'[p].apps
  PROVE  Session(p)'
<1>1. /\ pc[p] = "idle" /\ pc'[p] = where
      /\ turn'[p] = turn[p] + 1 /\ gen'[p] = gen[p] /\ focus'[p] = focus[p]
      /\ pending'[p] = Alive(p, turn[p] + 1)
      /\ log' = log
  BY DEF Orient, Goto, exactVars, CycleTypeOK
<1>2. cycle'[p].learns => kind = "claim" /\ pending'[p] # NoObligation
  <2>1. PICK e \in Effect, learns \in BOOLEAN :
          /\ learns => kind = "claim" /\ pending'[p] # NoObligation
          /\ cycle' = [cycle EXCEPT ![p] =
                      [NoCycle EXCEPT !.kind = kind, !.effect = e,
                                      !.discourse = rev.discourse,
                                      !.learns = learns]]
    BY DEF Orient
  <2>2. cycle'[p].learns = learns
    BY <2>1 DEF CycleTypeOK, NoCycle
  <2> QED
    BY <2>1, <2>2
<1>3. cycle'[p].kind = kind
  BY DEF Orient, CycleTypeOK, NoCycle
<1>4. pending'[p] # NoObligation =>
        pending'[p] = pending[p] /\ ~Expired(pending[p], turn[p] + 1)
  BY <1>1 DEF Alive
<1>5. Licensed(p)'
  BY <1>1, <1>4 DEF Session, Licensed
<1>6. Answerable(p)'
  BY <1>1, <1>2, <1>4 DEF Session, Licensed, Answerable, Expired
<1>7. Shaped(p)'
  BY <1>1, <1>2, <1>3 DEF Shaped, Learning
<1>8. Bound(p)'
  BY <1>1 DEF Session, Bound
<1> QED
  BY <1>5, <1>6, <1>7, <1>8 DEF Session

\* A process's own steps keep what its session promises.
LEMMA OwnSession ==
  ASSUME CycleTypeOK, NEW p \in Process, Step(p), Session(p)
  PROVE  Session(p)'
<1> USE DEF CycleTypeOK, exactVars
<1>1. CASE Start(p)
  <2>1. Licensed(p)' /\ Bound(p)'
    BY <1>1, RebindBinds DEF Start
  <2>2. /\ pc[p] = "down" /\ pc'[p] = "idle"
        /\ cycle'[p] = cycle[p] /\ tx'[p] = tx[p]
    BY <1>1 DEF Start, Goto
  <2> QED
    BY <2>1, <2>2 DEF Session, Answerable, Shaped, Learning
<1>2. CASE Crash(p)
  <2>1. /\ pc'[p] = "down" /\ cycle'[p] = NoCycle /\ tx'[p] = NoTx
        /\ pending'[p] = NoObligation /\ focus'[p] = NoFocus
    BY <1>2 DEF Crash, Goto
  <2>2. ~NoCycle.learns /\ NoTx.stage # 17
    BY DEF NoCycle, NoTx
  <2> QED
    BY <2>1, <2>2 DEF Session, Licensed, Answerable, Shaped, Bound
<1>3. CASE Reload(p)
  <2>1. Licensed(p)' /\ Bound(p)'
    BY <1>3, RebindBinds DEF Reload
  <2>2. /\ pc[p] = "idle" /\ pc'[p] = "idle"
        /\ cycle'[p] = cycle[p] /\ tx'[p] = tx[p]
    BY <1>3 DEF Reload
  <2> QED
    BY <2>1, <2>2 DEF Session, Answerable, Shaped, Learning
<1>4. CASE OrientClaim(p)
  <2>1. PICK d \in Deltas : tx' = [tx EXCEPT ![p] = Pinned(13, d)]
    BY <1>4 DEF OrientClaim
  <2>2. tx'[p].stage = 13
    BY <2>1 DEF Pinned
  <2> QED
    BY <1>4, <2>2, OrientSession DEF OrientClaim
<1>5. CASE OrientTeach(p)
  <2>1. CASE UNCHANGED tx
    <3>1. tx'[p].stage = 17 => ~tx'[p].apps
      BY <2>1 DEF Session, Shaped
    <3> QED
      BY <1>5, <3>1, OrientSession DEF OrientTeach
  <2>2. CASE \E d \in Deltas : tx' = [tx EXCEPT ![p] = Pinned(13, d)]
    <3>1. tx'[p].stage = 13
      BY <2>2 DEF Pinned
    <3> QED
      BY <1>5, <3>1, OrientSession DEF OrientTeach
  <2> QED
    BY <1>5, <2>1, <2>2 DEF OrientTeach
<1>6. CASE OrientQuery(p)
  <2>1. tx'[p].stage = 13
    BY <1>6 DEF OrientQuery, Frontiers, Pinned
  <2>2. ~cycle'[p].learns
    BY <1>6 DEF OrientQuery, Orient, NoCycle
  <2> QED
    BY <1>6, <2>1, <2>2, OrientSession DEF OrientQuery
<1>7. CASE OrientDirective(p)
  <2>1. tx'[p].stage = 13
    BY <1>7 DEF OrientDirective, Frontiers, Pinned
  <2>2. ~cycle'[p].learns
    BY <1>7 DEF OrientDirective, Orient, NoCycle
  <2> QED
    BY <1>7, <2>1, <2>2, OrientSession DEF OrientDirective
<1>8. CASE Maintain(p)
  <2>1. /\ pc[p] = "idle" /\ pc'[p] = "begin" /\ log' = log
        /\ gen'[p] = gen[p] /\ pending'[p] = pending[p]
        /\ focus'[p] = focus[p]
        /\ cycle'[p] = [NoCycle EXCEPT !.kind = "maintain"]
    BY <1>8 DEF Maintain, Goto
  <2>2. tx'[p].stage = 13
    BY <1>8 DEF Maintain, Unpinned, Pinned
  <2>3. ~cycle'[p].learns
    BY <2>1 DEF NoCycle
  <2> QED
    BY <2>1, <2>2, <2>3 DEF Session, Licensed, Answerable, Shaped, Bound
<1>9. CASE Begin(p)
  BY <1>9 DEF Begin, Goto, Session, Licensed, Answerable, Shaped, Bound,
              Learning, Expired
<1>10. CASE Number(p)
  <2>1. /\ pc[p] = "number" /\ pc'[p] = "write" /\ log' = log
        /\ turn'[p] = turn[p] /\ gen'[p] = gen[p] /\ pending'[p] = pending[p]
        /\ focus'[p] = focus[p] /\ cycle'[p] = cycle[p]
    BY <1>10 DEF Number, Goto
  <2>2. /\ tx'[p].stage = tx[p].stage /\ tx'[p].apps = tx[p].apps
        /\ tx'[p].pin = tx[p].pin
    <3>1. tx'[p] = [tx[p] EXCEPT !.number = Generation + 1]
      BY <1>10 DEF Number
    <3>2. tx[p] \in Tx
      OBVIOUS
    <3> QED
      BY <3>1, <3>2 DEF Tx
  <2> QED
    BY <2>1, <2>2 DEF Session, Licensed, Answerable, Shaped, Bound, Learning,
                      Expired
<1>11. CASE Write(p)
  <2>1. /\ pc[p] = "write"
        /\ turn'[p] = turn[p] /\ gen'[p] = gen[p] /\ pending'[p] = pending[p]
        /\ focus'[p] = focus[p] /\ cycle'[p] = cycle[p]
        /\ \/ tx[p].stage = 13 /\ pc'[p] = "committed" /\ tx'[p] = tx[p]
           \/ tx[p].stage # 13 /\ pc'[p] = "respond" /\ tx'[p] = NoTx
    BY <1>11 DEF Write, Goto
  <2>2. tx[p].stage # 13 => ~tx[p].apps
    BY FieldsTyped DEF Session, Shaped
  <2>3. Licensed(p)' /\ Answerable(p)' /\ Shaped(p)'
    BY <2>1, FieldsTyped DEF Session, Licensed, Answerable, Shaped, Learning,
                             Expired, NoTx
  <2>4. /\ DOMAIN log' = DOMAIN log \cup {Len(log) + 1}
        /\ \A i \in DOMAIN log : log'[i] = log[i]
        /\ log'[Len(log) + 1].apps = tx[p].apps
        /\ log'[Len(log) + 1].expected = tx[p].pin
    <3>1. log' # log
      BY <1>11 DEF Write, Finish, ExactTypeOK
    <3> QED
      BY <3>1, LogStep, <1>11 DEF Step
  <2>5. Bound(p)'
    BY <2>1, <2>2, <2>4 DEF Session, Bound, Rebinds
  <2> QED
    BY <2>3, <2>5 DEF Session
<1>12. CASE Abort(p)
  <2>1. pc[p] # "committed" /\ pc[p] # "down"
    BY <1>12 DEF Abort, Refused
  <2> QED
    BY <1>12, <2>1, EndedRows DEF Abort, Session, Licensed, Bound
<1>13. CASE AfterCommit(p)
  <2>1. /\ pc[p] = "committed" /\ log' = log
        /\ Answerable(p)' /\ Shaped(p)'
    <3>1. CASE cycle[p].kind = "maintain"
      BY <1>13, <3>1, EndedRows DEF AfterCommit, Proceed
    <3>2. CASE cycle[p].kind # "maintain"
      BY <1>13, <3>2 DEF AfterCommit, Proceed, Goto, Session, Answerable,
                         Shaped, Learning, NoTx
    <3> QED
      BY <1>13, <3>1, <3>2 DEF AfterCommit
  <2>2. Licensed(p)' /\ Bound(p)'
    <3>1. CASE Rebinds(tx[p])
      BY <1>13, <3>1, RebindBinds DEF AfterCommit
    <3>2. CASE ~Rebinds(tx[p])
      BY <1>13, <3>2, <2>1 DEF AfterCommit, Session, Licensed, Bound
    <3> QED
      BY <3>1, <3>2
  <2> QED
    BY <2>1, <2>2 DEF Session
<1>14. CASE Explain(p)
  <2>1. /\ pc[p] = "explain" /\ pc'[p] \in {"begin", "respond"} /\ log' = log
        /\ turn'[p] = turn[p] /\ gen'[p] = gen[p] /\ pending'[p] = pending[p]
        /\ focus'[p] = focus[p] /\ tx'[p] \in {tx[p], NoTx}
    BY <1>14 DEF Explain, Goto
  <2>2. ~cycle'[p].learns
    <3>1. ~cycle[p].learns
      BY <2>1 DEF Session, Shaped, Learning
    <3>2. cycle'[p] = [cycle[p] EXCEPT !.facts = rev.world]
      BY <1>14 DEF Explain
    <3>3. cycle[p] \in Cycle
      OBVIOUS
    <3> QED
      BY <3>1, <3>2, <3>3 DEF Cycle
  <2> QED
    BY <2>1, <2>2 DEF Session, Licensed, Answerable, Shaped, Bound, NoTx
<1>15. CASE Execute(p)
  <2>1. /\ pc[p] = "execute" /\ pc'[p] \in {"journal"} /\ log' = log
        /\ gen'[p] = gen[p] /\ pending'[p] = pending[p]
        /\ focus'[p] = focus[p] /\ tx'[p] = tx[p]
    BY <1>15 DEF Execute, Goto
  <2>2. ~cycle'[p].learns
    <3>1. ~cycle[p].learns
      BY <2>1 DEF Session, Shaped, Learning
    <3>2. PICK v : cycle'[p] = [cycle[p] EXCEPT !.result = v]
      BY <1>15 DEF Execute
    <3>3. cycle[p] \in Cycle
      OBVIOUS
    <3> QED
      BY <3>1, <3>2, <3>3 DEF Cycle
  <2> QED
    BY <2>1, <2>2 DEF Session, Licensed, Answerable, Shaped, Bound
<1>16. CASE JournalRead(p)
  <2>1. /\ pc[p] = "journal" /\ pc'[p] \in {"assimilate", "upsert"} /\ log' = log
        /\ gen'[p] = gen[p] /\ pending'[p] = pending[p]
        /\ focus'[p] = focus[p] /\ tx'[p] = tx[p]
    BY <1>16 DEF JournalRead, Goto
  <2>2. ~cycle'[p].learns
    <3>1. ~cycle[p].learns
      BY <2>1 DEF Session, Shaped, Learning
    <3>2. PICK v : cycle'[p] = [cycle[p] EXCEPT !.base = v]
      BY <1>16 DEF JournalRead
    <3>3. cycle[p] \in Cycle
      OBVIOUS
    <3> QED
      BY <3>1, <3>2, <3>3 DEF Cycle
  <2> QED
    BY <2>1, <2>2 DEF Session, Licensed, Answerable, Shaped, Bound
<1>17. CASE JournalUpsert(p)
  <2>1. /\ pc[p] = "upsert" /\ pc'[p] = "assimilate" /\ log' = log
        /\ gen'[p] = gen[p] /\ pending'[p] = pending[p]
        /\ focus'[p] = focus[p] /\ tx'[p] = tx[p] /\ cycle'[p] = cycle[p]
    BY <1>17 DEF JournalUpsert, JournalEffect, Goto
  <2> QED
    BY <2>1 DEF Session, Licensed, Answerable, Shaped, Bound, Learning
<1>18. CASE Assimilate(p)
  <2>1. /\ pc[p] = "assimilate" /\ pc'[p] = "begin" /\ log' = log
        /\ gen'[p] = gen[p] /\ pending'[p] = pending[p]
        /\ focus'[p] = focus[p] /\ cycle'[p] = cycle[p]
    BY <1>18 DEF Assimilate, Goto
  <2>2. ~tx'[p].apps
    BY <1>18 DEF Assimilate, Pinned, NoDelta
  <2> QED
    BY <2>1, <2>2 DEF Session, Licensed, Answerable, Shaped, Bound, Learning
<1>19. CASE Verified(p)
  <2>1. /\ pc[p] = "respond" /\ log' = log
        /\ turn'[p] = turn[p] /\ gen'[p] = gen[p] /\ pending'[p] = pending[p]
        /\ focus'[p] \in {Answered(p), focus[p]}
    BY <1>19 DEF Verified
  <2>2. Licensed(p)'
    BY <2>1 DEF Session, Licensed, Answered
  <2>3. CASE Ended(p)
    BY <2>1, <2>2, <2>3, EndedRows DEF Session, Bound
  <2>4. CASE /\ pc'[p] = "ground" /\ cycle'[p] = cycle[p] /\ tx'[p] = tx[p]
    BY <2>1, <2>2, <2>4 DEF Session, Answerable, Shaped, Bound, Learning
  <2> QED
    BY <1>19, <2>3, <2>4 DEF Verified, Goto
<1>20. CASE Unverified(p)
  BY <1>20, EndedRows DEF Unverified, Session, Licensed, Bound
<1>21. CASE GroundCheck(p)
  BY <1>21 DEF GroundCheck, Goto, Session, Licensed, Answerable, Shaped, Bound,
               Learning
<1>22. CASE GroundWrite(p)
  <2>1. /\ pc[p] = "emit" /\ log' = log /\ gen'[p] = gen[p]
        /\ focus'[p] = focus[p]
        /\ pending'[p] \in Requested(p)
    BY <1>22 DEF GroundWrite, CommitCommonGround
  <2>2. Licensed(p)'
    BY <2>1 DEF Session, Licensed, Requested
  <2>3. Ended(p)
    BY <1>22 DEF GroundWrite
  <2> QED
    BY <2>1, <2>2, <2>3, EndedRows DEF Session, Bound
<1> QED
  BY <1>1, <1>2, <1>3, <1>4, <1>5, <1>6, <1>7, <1>8, <1>9, <1>10, <1>11,
     <1>12, <1>13, <1>14, <1>15, <1>16, <1>17, <1>18, <1>19, <1>20, <1>21, <1>22 DEF Step

\* A process that is down promises nothing.
LEMMA SessionInit == Init => SessionInv
<1> SUFFICES ASSUME Init, NEW p \in Process
             PROVE  Session(p)
  BY DEF SessionInv
<1>1. /\ pc[p] = "down" /\ pending[p] = NoObligation /\ focus[p] = NoFocus
      /\ cycle[p] = NoCycle /\ tx[p] = NoTx
  BY DEF Init
<1>2. ~NoCycle.learns /\ NoTx.stage # 17
  BY DEF NoCycle, NoTx
<1> QED
  BY <1>1, <1>2 DEF Session, Licensed, Answerable, Shaped, Bound

\* The sessions of all processes go from step to step.
LEMMA SessionStep == CycleTypeOK /\ SessionInv /\ [Next]_vars => SessionInv'
<1> SUFFICES ASSUME CycleTypeOK, SessionInv, [Next]_vars, NEW q \in Process
             PROVE  Session(q)'
  BY DEF SessionInv
<1>1. Session(q)
  BY DEF SessionInv
<1>2. CASE UNCHANGED vars
  BY <1>1, <1>2 DEF vars, runtimeVars, exactVars, Session, Licensed,
                    Answerable, Shaped, Bound, Expired
<1>3. ASSUME NEW p \in Process, Step(p)
      PROVE  Session(q)'
  BY <1>1, <1>3, OwnSession, OtherSession
<1> QED
  BY <1>2, <1>3, NextIsStep

\* The inductive invariant of the runtimes' memory.
THEOREM SessionsConsistent == Spec => []SessionInv
BY SessionInit, SessionStep, CycleTypeCorrect, PTL DEF Spec

\* DialogueMatchesAuthority: no pending plan and no focus of a superseded
\* authority generation, however cycles, commits and reloads interleave.
THEOREM DialogueIsOfAuthority == Spec => []DialogueMatchesAuthority
<1>1. SessionInv => DialogueMatchesAuthority
  BY DEF SessionInv, Session, Licensed, DialogueMatchesAuthority
<1> QED
  BY <1>1, SessionsConsistent, PTL

\* ObligationOutlivesCommit: a learning answer whose commit is durable always
\* still finds the obligation it consumes.
THEOREM AnswersFindTheirObligation == Spec => []ObligationOutlivesCommit
<1>1. SessionInv => ObligationOutlivesCommit
  BY DEF SessionInv, Session, Answerable, ObligationOutlivesCommit
<1> QED
  BY <1>1, SessionsConsistent, PTL

\* OwnApplicationsVisible: between cycles a runtime sees all the applications
\* its own cycles have admitted.
THEOREM AdmittedApplicationsAreVisible == Spec => []OwnApplicationsVisible
<1>1. SessionInv => OwnApplicationsVisible
  BY DEF SessionInv, Session, Bound, OwnApplicationsVisible
<1> QED
  BY <1>1, SessionsConsistent, PTL

-----------------------------------------------------------------------------
(* The journal and the common ground: what a step does to the rows that     *)
(* the remaining invariants relate.                                         *)

\* A cycle is carried on, oriented anew or ended, given its facts, given its
\* outcome, or given the revision its journal row will follow.
LEMMA CycleChanges ==
  ASSUME CycleTypeOK, NEW p \in Process, Step(p)
  PROVE  \/ cycle' = cycle
         \/ /\ cycle'[p].result = "absent"
            /\ cycle'[p].discourse \in {0, rev.discourse}
            /\ pc'[p] \in {"down", "idle", "begin", "explain", "execute",
                           "respond"}
         \/ /\ Explain(p)
            /\ cycle'[p] = [cycle[p] EXCEPT !.facts = rev.world]
         \/ /\ Execute(p)
            /\ \E result \in {"succeeded", "failed", "declined"} :
                 /\ cycle'[p] = [cycle[p] EXCEPT !.result = result]
                 /\ executed' = [executed EXCEPT ![cycle[p].effect] =
                                   IF result = "declined" THEN @ ELSE @ + 1]
         \/ /\ JournalRead(p)
            /\ cycle'[p] = [cycle[p] EXCEPT !.base = rev.effect]
<1> USE DEF CycleTypeOK
<1>n. NoCycle.result = "absent" /\ NoCycle.discourse = 0
  BY DEF NoCycle
<1>1. CASE \/ Start(p) \/ Reload(p) \/ Begin(p) \/ Number(p) \/ Write(p)
           \/ JournalUpsert(p) \/ Assimilate(p) \/ GroundCheck(p)
  BY <1>1 DEF Start, Reload, Begin, Number, Write, JournalUpsert, Assimilate,
              GroundCheck
<1>2. CASE Crash(p)
  BY <1>2, <1>n DEF Crash, Goto
<1>3. ASSUME NEW kind, NEW where \in {"begin", "explain", "execute", "respond"},
             Orient(p, kind, where)
      PROVE  /\ cycle'[p].result = "absent"
             /\ cycle'[p].discourse \in {0, rev.discourse}
             /\ pc'[p] \in {"begin", "explain", "execute", "respond"}
  <2>1. PICK e \in Effect, learns \in BOOLEAN :
          cycle' = [cycle EXCEPT ![p] =
                      [NoCycle EXCEPT !.kind = kind, !.effect = e,
                                      !.discourse = rev.discourse,
                                      !.learns = learns]]
    BY <1>3 DEF Orient
  <2>2. cycle'[p].result = "absent" /\ cycle'[p].discourse = rev.discourse
    BY <2>1 DEF NoCycle
  <2> QED
    BY <1>3, <2>2 DEF Orient, Goto
<1>4. CASE \/ OrientClaim(p) \/ OrientTeach(p)
           \/ OrientQuery(p) \/ OrientDirective(p)
  <2>1. \E kind \in Kinds, where \in {"begin", "explain", "execute", "respond"} :
          Orient(p, kind, where)
    BY <1>4 DEF OrientClaim, OrientTeach, OrientQuery, OrientDirective, Kinds
  <2> QED
    BY <1>3, <2>1
<1>5. CASE Maintain(p)
  <2>1. cycle'[p] = [NoCycle EXCEPT !.kind = "maintain"] /\ pc'[p] = "begin"
    BY <1>5 DEF Maintain, Goto
  <2> QED
    BY <2>1 DEF NoCycle
<1>6. CASE Ended(p)
  BY <1>6, <1>n DEF Ended, Goto
<1>7. CASE \/ Abort(p) \/ AfterCommit(p) \/ Verified(p) \/ Unverified(p)
           \/ GroundWrite(p)
  BY <1>6, <1>7 DEF Abort, AfterCommit, Proceed, Verified, Unverified,
                    GroundWrite
<1>8. CASE Explain(p)
  BY <1>8 DEF Explain
<1>9. CASE Execute(p)
  <2>1. PICK result \in {"succeeded", "failed", "declined"} :
          /\ cycle' = [cycle EXCEPT ![p].result = result]
          /\ executed' = [executed EXCEPT ![cycle[p].effect] =
                            IF result = "declined" THEN @ ELSE @ + 1]
    BY <1>9 DEF Execute
  <2> QED
    BY <1>9, <2>1
<1>10. CASE JournalRead(p)
  BY <1>10 DEF JournalRead
<1> QED
  BY <1>1, <1>2, <1>4, <1>5, <1>7, <1>8, <1>9, <1>10 DEF Step

\* Each of the two tables has one writer, and the adapter one caller.
LEMMA TableWriters ==
  ASSUME NEW p \in Process, Step(p)
  PROVE  /\ effects' = effects \/ JournalUpsert(p)
         /\ ground' = ground \/ GroundWrite(p)
         /\ executed' = executed \/ Execute(p)
<1> USE DEF exactVars
<1>1. CASE \/ Start(p) \/ Crash(p) \/ Reload(p) \/ Maintain(p)
  BY <1>1 DEF Start, Crash, Reload, Maintain
<1>2. CASE \/ OrientClaim(p) \/ OrientTeach(p)
           \/ OrientQuery(p) \/ OrientDirective(p)
  BY <1>2 DEF OrientClaim, OrientTeach, OrientQuery, OrientDirective, Orient
<1>3. CASE Write(p)
  BY <1>3 DEF Write, Finish
<1>4. CASE JournalUpsert(p)
  BY <1>4 DEF JournalUpsert, JournalEffect
<1>5. CASE GroundWrite(p)
  BY <1>5 DEF GroundWrite, CommitCommonGround
<1>6. CASE \/ Begin(p) \/ Number(p) \/ Abort(p) \/ AfterCommit(p)
           \/ Explain(p) \/ Execute(p) \/ JournalRead(p) \/ Assimilate(p)
           \/ Verified(p) \/ Unverified(p) \/ GroundCheck(p)
  BY <1>6 DEF Begin, Number, Abort, AfterCommit, Explain, Execute, JournalRead,
              Assimilate, Verified, Unverified, GroundCheck
<1> QED
  BY <1>1, <1>2, <1>3, <1>4, <1>5, <1>6 DEF Step

-----------------------------------------------------------------------------
(* The journal records what adapters did.                                  *)

\* A result in the memory of a cycle is that of an execution.
Witnessed(p) ==
  cycle[p].result \in {"succeeded", "failed"} => executed[cycle[p].effect] > 0

JournalInv == JournaledWasExecuted /\ \A p \in Process : Witnessed(p)

\* Nobody takes an execution back.
LEMMA ExecutionsStay ==
  ASSUME CycleTypeOK, NEW p \in Process, Step(p), NEW e \in Effect,
         executed[e] > 0
  PROVE  executed'[e] > 0
<1>1. CASE executed' = executed
  BY <1>1
<1>2. CASE Execute(p)
  <2>1. PICK result \in {"succeeded", "failed", "declined"} :
          executed' = [executed EXCEPT ![cycle[p].effect] =
                         IF result = "declined" THEN @ ELSE @ + 1]
    BY <1>2 DEF Execute
  <2>2. executed \in [Effect -> Nat]
    BY DEF CycleTypeOK
  <2>3. executed'[e] \in {executed[e], executed[e] + 1}
    BY <2>1, <2>2
  <2> QED
    BY <2>2, <2>3
<1> QED
  BY <1>1, <1>2, TableWriters

\* Results, and the rows made of them, stay witnessed.
LEMMA JournalStep ==
  ASSUME CycleTypeOK, JournalInv, NEW p \in Process, Step(p)
  PROVE  JournalInv'
<1>1. ASSUME NEW q \in Process
      PROVE  Witnessed(q)'
  <2>1. cycle[q].effect \in Effect /\ Witnessed(q)
    BY FieldsTyped DEF JournalInv
  <2>2. CASE /\ cycle'[q].effect = cycle[q].effect
             /\ cycle'[q].result = cycle[q].result
    BY <2>1, <2>2, ExecutionsStay DEF Witnessed
  <2>3. CASE cycle'[q].result = "absent"
    BY <2>3 DEF Witnessed
  <2>4. CASE q = p /\ Execute(p)
    <3>1. PICK result \in {"succeeded", "failed", "declined"} :
            /\ cycle' = [cycle EXCEPT ![p].result = result]
            /\ executed' = [executed EXCEPT ![cycle[p].effect] =
                              IF result = "declined" THEN @ ELSE @ + 1]
      BY <2>4 DEF Execute
    <3>2. cycle[p] \in Cycle /\ cycle'[p] = [cycle[p] EXCEPT !.result = result]
      BY <3>1 DEF CycleTypeOK
    <3>3. cycle'[p].result = result /\ cycle'[p].effect = cycle[p].effect
      BY <3>2 DEF Cycle
    <3>4. CASE result = "declined"
      BY <2>4, <3>3, <3>4 DEF Witnessed
    <3>5. CASE result # "declined"
      <4>1. executed[cycle[p].effect] \in Nat /\ executed \in [Effect -> Nat]
        BY <2>1, <2>4 DEF CycleTypeOK
      <4>2. executed'[cycle[p].effect] = executed[cycle[p].effect] + 1
        BY <2>1, <2>4, <3>1, <3>5, <4>1
      <4> QED
        BY <2>4, <3>3, <4>1, <4>2 DEF Witnessed
    <3> QED
      BY <3>4, <3>5
  <2>5. CASE q # p
    BY <2>2, <2>5, OtherRows DEF Rows
  <2>6. CASE q = p /\ ~Execute(p)
    <3>1. cycle[p] \in Cycle
      BY DEF CycleTypeOK
    <3>2. \/ cycle'[p] = cycle[p]
          \/ cycle'[p].result = "absent"
          \/ cycle'[p] = [cycle[p] EXCEPT !.facts = rev.world]
          \/ cycle'[p] = [cycle[p] EXCEPT !.base = rev.effect]
      BY <2>6, CycleChanges
    <3> QED
      BY <2>2, <2>3, <2>6, <3>1, <3>2 DEF Cycle
  <2> QED
    BY <2>4, <2>5, <2>6
<1>2. JournaledWasExecuted'
  <2>1. CASE effects' = effects
    BY <2>1, ExecutionsStay DEF JournalInv, JournaledWasExecuted
  <2>2. CASE JournalUpsert(p)
    <3>1. /\ effects' = [effects EXCEPT ![cycle[p].effect] =
                           [status |-> cycle[p].result,
                            revision |-> cycle[p].base + 1]]
          /\ executed' = executed
      BY <2>2 DEF JournalUpsert, JournalEffect
    <3>2. \A e \in Effect :
            \/ effects'[e] = effects[e]
            \/ e = cycle[p].effect /\ effects'[e].status = cycle[p].result
      BY <3>1 DEF CycleTypeOK, ExactTypeOK
    <3> QED
      BY <3>1, <3>2 DEF JournalInv, JournaledWasExecuted, Witnessed
  <2> QED
    BY <2>1, <2>2, TableWriters
<1> QED
  BY <1>1, <1>2 DEF JournalInv

\* Nothing is journaled, and nobody holds a result, at the start.
LEMMA JournalInit == Init => JournalInv
BY DEF Init, ExactInit, NoCycle, JournalInv, JournaledWasExecuted, Witnessed

\* JournaledWasExecuted: no row of the effect journal claims an outcome of an
\* adapter that never ran, whatever crashed, raced or was replayed.
THEOREM JournalIsWitnessed == Spec => []JournaledWasExecuted
<1>1. CycleTypeOK /\ JournalInv /\ [Next]_vars => JournalInv'
  <2>1. CASE UNCHANGED vars
    BY <2>1 DEF vars, exactVars, runtimeVars, JournalInv, JournaledWasExecuted,
                Witnessed
  <2> QED
    BY <2>1, JournalStep, NextIsStep
<1>2. JournalInv => JournaledWasExecuted
  BY DEF JournalInv
<1> QED
  BY <1>1, <1>2, JournalInit, CycleTypeCorrect, PTL DEF Spec

-----------------------------------------------------------------------------
(* The common ground has no gaps.                                          *)

\* The revision a cycle will follow has been said too.
GroundInv == DiscourseDense /\ \A p \in Process : cycle[p].discourse \in Said

\* What a step does to the discourse revision.
LEMMA DiscourseEffects ==
  ASSUME CycleTypeOK, NEW p \in Process, Step(p)
  PROVE  \/ GroundWrite(p)
         \/ ground' = ground /\ rev'.discourse = rev.discourse
<1>1. rev \in [world : Nat, discourse : Nat, observation : Nat, effect : Nat]
  BY DEF CycleTypeOK, ExactTypeOK
<1>2. CASE ground' = ground /\ ~GroundWrite(p)
  <2>1. CASE UNCHANGED rev
    BY <1>2, <2>1
  <2>2. CASE Write(p)
    BY <1>1, <1>2, <2>2 DEF Write, Finish
  <2>3. CASE JournalUpsert(p)
    BY <1>1, <1>2, <2>3 DEF JournalUpsert, JournalEffect
  <2>4. UNCHANGED rev \/ Write(p) \/ JournalUpsert(p)
    <3> USE <1>2 DEF exactVars
    <3>1. CASE \/ Start(p) \/ Crash(p) \/ Reload(p) \/ Maintain(p)
      BY <3>1 DEF Start, Crash, Reload, Maintain
    <3>2. CASE \/ OrientClaim(p) \/ OrientTeach(p)
               \/ OrientQuery(p) \/ OrientDirective(p)
      BY <3>2 DEF OrientClaim, OrientTeach, OrientQuery, OrientDirective, Orient
    <3>3. CASE \/ Begin(p) \/ Number(p) \/ Abort(p) \/ AfterCommit(p)
               \/ Explain(p) \/ Execute(p) \/ JournalRead(p) \/ Assimilate(p)
               \/ Verified(p) \/ Unverified(p) \/ GroundCheck(p)
      BY <3>3 DEF Begin, Number, Abort, AfterCommit, Explain, Execute,
                  JournalRead, Assimilate, Verified, Unverified, GroundCheck
    <3> QED
      BY <3>1, <3>2, <3>3 DEF Step
  <2> QED
    BY <2>1, <2>2, <2>3, <2>4
<1> QED
  BY <1>2, TableWriters

\* The row a cycle adds follows one that is there.
LEMMA GroundWritten ==
  ASSUME CycleTypeOK, NEW p \in Process, GroundWrite(p)
  PROVE  /\ ground' = ground \cup {[owner |-> p, act |-> turn[p],
                                    revision |-> cycle[p].discourse + 1]}
         /\ rev'.discourse = cycle[p].discourse + 1
         /\ Said' = Said \cup {cycle[p].discourse + 1}
<1>1. /\ ground' = ground \cup {[owner |-> p, act |-> turn[p],
                                 revision |-> cycle[p].discourse + 1]}
      /\ rev' = [rev EXCEPT !.discourse = cycle[p].discourse + 1]
  BY DEF GroundWrite, CommitCommonGround
<1>2. rev'.discourse = cycle[p].discourse + 1
  BY <1>1 DEF CycleTypeOK, ExactTypeOK
<1> DEFINE row == [owner |-> p, act |-> turn[p],
                   revision |-> cycle[p].discourse + 1]
<1>3. row.revision = cycle[p].discourse + 1 /\ ground' = ground \cup {row}
  BY <1>1
<1>4. Said' = Said \cup {row.revision}
  <2> HIDE DEF row
  <2>1. Said' = {0} \cup {g.revision : g \in ground \cup {row}}
    BY <1>3 DEF Said
  <2> QED
    BY <2>1 DEF Said
<1> QED
  BY <1>1, <1>2, <1>3, <1>4

\* The discourse a cycle remembers is one it had, that of now, or none.
LEMMA DiscourseRead ==
  ASSUME CycleTypeOK, NEW p \in Process, Step(p), NEW q \in Process
  PROVE  \/ cycle'[q].discourse = cycle[q].discourse
         \/ q = p /\ cycle'[q].discourse \in {0, rev.discourse}
<1>1. CASE q # p
  BY <1>1, OtherRows DEF Rows
<1>2. CASE q = p
  <2>1. cycle[p] \in Cycle
    BY DEF CycleTypeOK
  <2>2. \/ cycle'[p] = cycle[p]
        \/ cycle'[p].discourse \in {0, rev.discourse}
        \/ cycle'[p] = [cycle[p] EXCEPT !.facts = rev.world]
        \/ \E result : cycle'[p] = [cycle[p] EXCEPT !.result = result]
        \/ cycle'[p] = [cycle[p] EXCEPT !.base = rev.effect]
    BY CycleChanges
  <2> QED
    BY <1>2, <2>1, <2>2 DEF Cycle
<1> QED
  BY <1>1, <1>2

\* Rows are added after rows.
LEMMA GroundStep ==
  ASSUME CycleTypeOK, GroundInv, NEW p \in Process, Step(p)
  PROVE  GroundInv'
<1>1. Said \subseteq Said'
  BY TableWriters, GroundWritten DEF Said
<1>2. ASSUME NEW q \in Process
      PROVE  cycle'[q].discourse \in Said'
  BY <1>1, DiscourseRead DEF GroundInv, DiscourseDense, Said
<1>3. DiscourseDense'
  <2>1. CASE GroundWrite(p)
    <3>1. \A g \in ground' :
            \/ g \in ground
            \/ g.revision = cycle[p].discourse + 1
      BY <2>1, GroundWritten
    <3>2. cycle[p].discourse \in Nat
      BY FieldsTyped
    <3>3. rev'.discourse \in Said'
      BY <2>1, GroundWritten
    <3>4. \A g \in ground : g.revision - 1 \in Said
      BY DEF GroundInv, DiscourseDense
    <3>5. cycle[p].discourse \in Said
      BY DEF GroundInv
    <3>6. ASSUME NEW g \in ground'
          PROVE  g.revision - 1 \in Said'
      <4>1. CASE g \in ground
        BY <1>1, <3>4, <4>1
      <4>2. CASE g.revision = cycle[p].discourse + 1
        <5>1. g.revision - 1 = cycle[p].discourse
          BY <3>2, <4>2
        <5> QED
          BY <1>1, <3>5, <5>1
      <4> QED
        BY <3>1, <3>6, <4>1, <4>2
    <3> QED
      BY <3>3, <3>6 DEF DiscourseDense
  <2>2. CASE ground' = ground /\ rev'.discourse = rev.discourse
    BY <2>2 DEF GroundInv, DiscourseDense, Said
  <2> QED
    BY <2>1, <2>2, DiscourseEffects
<1> QED
  BY <1>2, <1>3 DEF GroundInv

\* Nothing is said at the start.
LEMMA GroundInit == Init => GroundInv
BY DEF Init, ExactInit, NoCycle, GroundInv, DiscourseDense, Said

\* The invariant of the common ground goes from step to step.
LEMMA GroundNext == CycleTypeOK /\ GroundInv /\ [Next]_vars => GroundInv'
<1>1. ASSUME GroundInv, UNCHANGED vars
      PROVE  GroundInv'
  BY <1>1 DEF vars, exactVars, runtimeVars, GroundInv, DiscourseDense, Said
<1> QED
  BY <1>1, GroundStep, NextIsStep

\* DiscourseDense: whatever any number of processes repeat, overwrite or move
\* back, no revision of the common ground is left without its predecessor.
THEOREM CommonGroundHasNoGaps == Spec => []DiscourseDense
<1>1. GroundInv => DiscourseDense
  BY DEF GroundInv
<1> QED
  BY <1>1, GroundInit, GroundNext, CycleTypeCorrect, PTL DEF Spec

-----------------------------------------------------------------------------
(* The label of a focus.                                                   *)

\* p has committed no change of the world after `from`, up to `to`.
NoneOfOwn(p, from, to) ==
  \A i \in DOMAIN log :
    log[i].delta /\ from < log[i].world /\ log[i].world <= to
      => log[i].owner # p

\* OwnCommitsInFocus, of p.
Labelled(p) ==
  focus[p] # NoFocus =>
    /\ focus[p].facts <= focus[p].world /\ focus[p].world <= rev.world
    /\ NoneOfOwn(p, focus[p].facts, focus[p].world)

\* A query changes nothing in the world, and from Stage 10 on it has facts
\* that lack nothing of its own.
Explained(p) ==
  cycle[p].kind = "query" =>
    /\ ~tx[p].delta
    /\ pc[p] # "explain" => /\ cycle[p].facts <= rev.world
                           /\ NoneOfOwn(p, cycle[p].facts, rev.world)

\* No generation is ahead of the revision row.
LogBelow == \A i \in DOMAIN log : log[i].world <= rev.world

FocusInv == LogBelow /\ \A p \in Process : Labelled(p) /\ Explained(p)

\* The world moves by finished generations that change it, and forwards.
LEMMA WorldEffects ==
  ASSUME CycleTypeOK, NEW p \in Process, Step(p)
  PROVE  \/ log' = log /\ rev'.world = rev.world
         \/ /\ Write(p)
            /\ rev'.world = NextWorld(tx[p].delta)
            /\ DOMAIN log' = DOMAIN log \cup {Len(log) + 1}
            /\ \A i \in DOMAIN log : log'[i] = log[i]
            /\ log'[Len(log) + 1].owner = p
            /\ log'[Len(log) + 1].delta = tx[p].delta
            /\ log'[Len(log) + 1].world = rev'.world
<1>1. rev \in [world : Nat, discourse : Nat, observation : Nat, effect : Nat]
  BY DEF CycleTypeOK, ExactTypeOK
<1>2. log \in Seq(Receipt) /\ Len(log) \in Nat
  BY DEF CycleTypeOK, ExactTypeOK
<1>3. CASE Write(p) /\ Finish(p, tx[p].stage, tx[p].pin, tx[p].number,
                              tx[p].delta, tx[p].apps, tx[p].rules)
  <2>1. rev'.world = NextWorld(tx[p].delta)
    BY <1>1, <1>3 DEF Finish
  <2>2. PICK r : /\ log' = Append(log, r) /\ r.owner = p
                 /\ r.delta = tx[p].delta /\ r.world = NextWorld(tx[p].delta)
    BY <1>3 DEF Finish
  <2> QED
    BY <1>2, <1>3, <2>1, <2>2
<1>4. CASE log' = log /\ rev'.world = rev.world
  BY <1>4
<1> QED
  BY <1>1, <1>3, <1>4, StoreEffects

\* Every receipt names a world revision.
LEMMA WorldsTyped ==
  ASSUME NEW s \in Seq(Receipt), NEW i \in DOMAIN s
  PROVE  s[i].world \in Nat
<1>1. s[i] \in Receipt
  OBVIOUS
<1> QED
  BY <1>1 DEF Receipt

\* The world never moves back.
LEMMA WorldGrows ==
  ASSUME CycleTypeOK, NEW p \in Process, Step(p)
  PROVE  /\ rev.world \in Nat /\ rev'.world \in Nat
         /\ rev.world <= rev'.world
         /\ rev'.world # rev.world => Write(p) /\ tx[p].delta
         /\ \A i \in DOMAIN log' : log'[i].world \in Nat
<1>1. rev.world \in Nat
  BY FieldsTyped
<1>2. CycleTypeOK'
  BY TypeStep, NextIsStep
<1>3. log' \in Seq(Receipt)
  BY <1>2 DEF CycleTypeOK, ExactTypeOK
<1>4. \A i \in DOMAIN log' : log'[i].world \in Nat
  BY <1>3, WorldsTyped
<1> QED
  BY <1>1, <1>4, WorldEffects DEF NextWorld

\* No generation gets ahead of the revision row.
LEMMA LogBelowStep ==
  ASSUME CycleTypeOK, LogBelow, NEW p \in Process, Step(p)
  PROVE  LogBelow'
<1>1. /\ rev.world \in Nat /\ rev'.world \in Nat /\ rev.world <= rev'.world
      /\ \A i \in DOMAIN log' : log'[i].world \in Nat
  BY WorldGrows
<1> QED
  BY <1>1, WorldEffects DEF LogBelow

\* An interval in the past gains no generation of p, and one up to now gains
\* none unless p changes the world.
LEMMA IntervalStays ==
  ASSUME CycleTypeOK, LogBelow, NEW p \in Process, Step(p), NEW q \in Process,
         NEW from \in Nat, NEW to \in Nat, NoneOfOwn(q, from, to),
         to <= rev.world
  PROVE  /\ NoneOfOwn(q, from, to)'
         /\ to = rev.world /\ (q = p => ~(Write(p) /\ tx[p].delta))
              => NoneOfOwn(q, from, rev.world)'
<1>1. /\ rev.world \in Nat /\ rev'.world \in Nat /\ rev.world <= rev'.world
      /\ rev'.world # rev.world => Write(p) /\ tx[p].delta
      /\ \A i \in DOMAIN log' : log'[i].world \in Nat
  BY WorldGrows
<1>2. CASE log' = log /\ rev'.world = rev.world
  BY <1>2 DEF NoneOfOwn
<1>3. CASE /\ Write(p)
           /\ rev'.world = NextWorld(tx[p].delta)
           /\ DOMAIN log' = DOMAIN log \cup {Len(log) + 1}
           /\ \A i \in DOMAIN log : log'[i] = log[i]
           /\ log'[Len(log) + 1].owner = p
           /\ log'[Len(log) + 1].delta = tx[p].delta
           /\ log'[Len(log) + 1].world = rev'.world
  <2>1. tx[p].delta => rev'.world = rev.world + 1
    BY <1>3 DEF NextWorld
  <2>2. NoneOfOwn(q, from, to)'
    BY <1>1, <1>3, <2>1 DEF NoneOfOwn
  <2>3. ASSUME to = rev.world, q = p => ~(Write(p) /\ tx[p].delta)
        PROVE  NoneOfOwn(q, from, rev.world)'
    <3>1. \A i \in DOMAIN log : log[i].world <= rev.world
      BY DEF LogBelow
    <3> QED
      BY <1>1, <1>3, <2>3, <3>1 DEF NoneOfOwn
  <2> QED
    BY <2>2, <2>3
<1> QED
  BY <1>2, <1>3, WorldEffects

\* The facts of Stage 10 are of the revision of now, which lacks nothing.
LEMMA NowLacksNothing ==
  ASSUME CycleTypeOK, NEW p \in Process
  PROVE  NoneOfOwn(p, rev.world, rev.world)
<1>1. rev.world \in Nat
  BY FieldsTyped
<1>2. log \in Seq(Receipt)
  BY DEF CycleTypeOK, ExactTypeOK
<1>3. \A i \in DOMAIN log : log[i].world \in Nat
  BY <1>2, WorldsTyped
<1> QED
  BY <1>1, <1>3 DEF NoneOfOwn

\* Another's focus and facts keep their intervals.
LEMMA OtherFocus ==
  ASSUME CycleTypeOK, FocusInv, NEW p \in Process, Step(p),
         NEW q \in Process, q # p
  PROVE  Labelled(q)' /\ Explained(q)'
<1>1. /\ pc'[q] = pc[q] /\ focus'[q] = focus[q]
      /\ cycle'[q] = cycle[q] /\ tx'[q] = tx[q]
  BY OtherRows DEF Rows
<1>2. /\ rev.world \in Nat /\ rev'.world \in Nat /\ rev.world <= rev'.world
  BY WorldGrows
<1>3. LogBelow /\ Labelled(q) /\ Explained(q)
  BY DEF FocusInv
<1>4. focus[q].facts \in Nat /\ focus[q].world \in Nat /\ cycle[q].facts \in Nat
  <2>1. focus[q] \in Focus
    BY DEF CycleTypeOK
  <2> QED
    BY <2>1, FieldsTyped DEF Focus
<1>5. Labelled(q)'
  <2> SUFFICES ASSUME focus[q] # NoFocus
               PROVE  /\ focus[q].facts <= focus[q].world
                      /\ focus[q].world <= rev'.world
                      /\ NoneOfOwn(q, focus[q].facts, focus[q].world)'
    BY <1>1 DEF Labelled, NoneOfOwn
  <2>1. /\ focus[q].facts <= focus[q].world /\ focus[q].world <= rev.world
        /\ NoneOfOwn(q, focus[q].facts, focus[q].world)
    BY <1>3 DEF Labelled
  <2>2. NoneOfOwn(q, focus[q].facts, focus[q].world)'
    BY <1>1, <1>3, <1>4, <2>1, IntervalStays
  <2> QED
    BY <1>2, <1>4, <2>1, <2>2
<1>6. Explained(q)'
  <2> SUFFICES ASSUME cycle[q].kind = "query"
               PROVE  /\ ~tx[q].delta
                      /\ pc[q] # "explain" =>
                           /\ cycle[q].facts <= rev'.world
                           /\ NoneOfOwn(q, cycle[q].facts, rev.world)'
    BY <1>1 DEF Explained, NoneOfOwn
  <2>1. ~tx[q].delta
    BY <1>3 DEF Explained
  <2>2. ASSUME pc[q] # "explain"
        PROVE  /\ cycle[q].facts <= rev'.world
               /\ NoneOfOwn(q, cycle[q].facts, rev.world)'
    <3>1. /\ cycle[q].facts <= rev.world
          /\ NoneOfOwn(q, cycle[q].facts, rev.world)
      BY <1>3, <2>2 DEF Explained
    <3>2. NoneOfOwn(q, cycle[q].facts, rev.world)'
      BY <1>1, <1>2, <1>3, <1>4, <3>1, IntervalStays
    <3> QED
      BY <1>2, <1>4, <3>1, <3>2
  <2> QED
    BY <2>1, <2>2
<1> QED
  BY <1>5, <1>6

\* So do the focus and the facts a process keeps through a step of its own,
\* if the step changes no world under a query.
LEMMA KeptFocus ==
  ASSUME CycleTypeOK, FocusInv, NEW p \in Process, Step(p)
  PROVE  /\ focus'[p] = focus[p] => Labelled(p)'
         /\ (/\ cycle[p].kind = "query" /\ pc[p] # "explain"
             /\ cycle'[p].kind = "query" /\ cycle'[p].facts = cycle[p].facts
             /\ ~tx'[p].delta)
            => Explained(p)'
<1>1. /\ rev.world \in Nat /\ rev'.world \in Nat /\ rev.world <= rev'.world
      /\ rev'.world # rev.world => tx[p].delta
  BY WorldGrows
<1>2. LogBelow /\ Labelled(p) /\ Explained(p)
  BY DEF FocusInv
<1>3. focus[p].facts \in Nat /\ focus[p].world \in Nat /\ cycle[p].facts \in Nat
  <2>1. focus[p] \in Focus
    BY DEF CycleTypeOK
  <2> QED
    BY <2>1, FieldsTyped DEF Focus
<1>4. ASSUME focus'[p] = focus[p]
      PROVE  Labelled(p)'
  <2> SUFFICES ASSUME focus[p] # NoFocus
               PROVE  /\ focus[p].facts <= focus[p].world
                      /\ focus[p].world <= rev'.world
                      /\ NoneOfOwn(p, focus[p].facts, focus[p].world)'
    BY <1>4 DEF Labelled, NoneOfOwn
  <2>1. /\ focus[p].facts <= focus[p].world /\ focus[p].world <= rev.world
        /\ NoneOfOwn(p, focus[p].facts, focus[p].world)
    BY <1>2 DEF Labelled
  <2>2. NoneOfOwn(p, focus[p].facts, focus[p].world)'
    BY <1>4, <1>2, <1>3, <2>1, IntervalStays
  <2> QED
    BY <1>1, <1>3, <2>1, <2>2
<1>5. ASSUME cycle[p].kind = "query", pc[p] # "explain",
             cycle'[p].kind = "query", cycle'[p].facts = cycle[p].facts,
             ~tx'[p].delta
      PROVE  Explained(p)'
  <2>1. /\ ~tx[p].delta /\ cycle[p].facts <= rev.world
        /\ NoneOfOwn(p, cycle[p].facts, rev.world)
    BY <1>2, <1>5 DEF Explained
  <2>2. NoneOfOwn(p, cycle[p].facts, rev.world)'
    BY <1>1, <1>2, <1>3, <1>5, <2>1, IntervalStays
  <2>3. cycle'[p].facts <= rev'.world
    BY <1>1, <1>3, <1>5, <2>1
  <2> QED
    BY <1>5, <2>2, <2>3 DEF Explained, NoneOfOwn
<1> QED
  BY <1>4, <1>5

\* A process's own steps keep its focus and its facts labelled.
LEMMA OwnFocus ==
  ASSUME CycleTypeOK, FocusInv, NEW p \in Process, Step(p)
  PROVE  Labelled(p)' /\ Explained(p)'
<1> USE DEF CycleTypeOK
<1>n. /\ NoCycle.kind # "query" /\ ~NoTx.delta
      /\ cycle[p] \in Cycle /\ tx[p] \in Tx
  BY DEF NoCycle, NoTx
<1>f. LogBelow /\ Labelled(p) /\ Explained(p)
  BY DEF FocusInv
<1>l. focus'[p] \in {focus[p], NoFocus} => Labelled(p)'
  BY KeptFocus DEF Labelled
<1>e. Ended(p) => Explained(p)'
  BY <1>n DEF Ended, Explained
<1>k. ASSUME cycle'[p].kind = cycle[p].kind, cycle'[p].facts = cycle[p].facts,
             pc[p] # "explain", tx'[p].delta => tx[p].delta
      PROVE  Explained(p)'
  <2>1. CASE cycle[p].kind = "query"
    <3>1. ~tx'[p].delta
      BY <1>f, <1>k, <2>1 DEF Explained
    <3> QED
      BY <1>k, <2>1, <3>1, KeptFocus
  <2>2. CASE cycle[p].kind # "query"
    BY <1>k, <2>2 DEF Explained
  <2> QED
    BY <2>1, <2>2
<1>1. CASE Start(p) \/ Reload(p)
  <2>1. /\ pc[p] # "explain" /\ cycle'[p] = cycle[p] /\ tx'[p] = tx[p]
        /\ focus'[p] = NoFocus
    BY <1>1 DEF Start, Reload, Rebind
  <2> QED
    BY <1>l, <1>k, <2>1
<1>2. CASE Crash(p)
  <2>1. cycle'[p] = NoCycle /\ focus'[p] = NoFocus
    BY <1>2 DEF Crash
  <2> QED
    BY <1>n, <1>l, <2>1 DEF Explained
<1>3. CASE OrientClaim(p) \/ OrientTeach(p) \/ OrientDirective(p)
  <2>1. \E kind \in {"claim", "directive"} : \E where : Orient(p, kind, where)
    BY <1>3 DEF OrientClaim, OrientTeach, OrientDirective
  <2>2. cycle'[p].kind # "query" /\ focus'[p] = focus[p]
    BY <2>1 DEF Orient, NoCycle
  <2> QED
    BY <1>l, <2>2 DEF Explained
<1>4. CASE OrientQuery(p)
  <2>1. pc'[p] = "explain" /\ tx'[p] = Frontiers /\ focus'[p] = focus[p]
    BY <1>4 DEF OrientQuery, Orient, Goto
  <2>2. ~tx'[p].delta
    BY <2>1 DEF Frontiers, Pinned, NoDelta
  <2> QED
    BY <1>l, <2>1, <2>2 DEF Explained
<1>5. CASE Maintain(p)
  <2>1. cycle'[p].kind = "maintain" /\ focus'[p] = focus[p]
    BY <1>5 DEF Maintain, NoCycle
  <2> QED
    BY <1>l, <2>1 DEF Explained
<1>6. CASE Begin(p) \/ JournalUpsert(p) \/ GroundCheck(p)
  <2>1. /\ pc[p] # "explain" /\ cycle'[p] = cycle[p] /\ tx'[p] = tx[p]
        /\ focus'[p] = focus[p]
    BY <1>6 DEF Begin, JournalUpsert, GroundCheck
  <2> QED
    BY <1>l, <1>k, <2>1
<1>7. CASE Number(p)
  <2>1. /\ pc[p] # "explain" /\ cycle'[p] = cycle[p]
        /\ tx'[p] = [tx[p] EXCEPT !.number = Generation + 1]
        /\ focus'[p] = focus[p]
    BY <1>7 DEF Number
  <2>2. tx'[p].delta = tx[p].delta
    BY <1>n, <2>1 DEF Tx
  <2> QED
    BY <1>l, <1>k, <2>1, <2>2
<1>8. CASE Write(p)
  <2>1. /\ pc[p] # "explain" /\ cycle'[p] = cycle[p] /\ tx'[p] \in {tx[p], NoTx}
        /\ focus'[p] = focus[p]
    BY <1>8 DEF Write
  <2> QED
    BY <1>n, <1>l, <1>k, <2>1
<1>9. CASE Abort(p) \/ Unverified(p) \/ GroundWrite(p)
  <2>1. Ended(p) /\ focus'[p] = focus[p]
    BY <1>9 DEF Abort, Unverified, GroundWrite
  <2> QED
    BY <1>l, <1>e, <2>1
<1>10. CASE AfterCommit(p)
  <2>1. focus'[p] \in {focus[p], NoFocus}
    BY <1>10 DEF AfterCommit, Rebind
  <2>2. \/ Ended(p)
        \/ /\ pc[p] # "explain" /\ cycle'[p] = cycle[p] /\ tx'[p] = NoTx
    BY <1>10 DEF AfterCommit, Proceed
  <2> QED
    BY <1>n, <1>l, <1>e, <1>k, <2>1, <2>2
<1>11. CASE Explain(p)
  <2>1. /\ rev' = rev /\ log' = log /\ focus'[p] = focus[p]
        /\ cycle'[p] = [cycle[p] EXCEPT !.facts = rev.world]
        /\ tx'[p] \in {tx[p], NoTx}
    BY <1>11 DEF Explain, exactVars
  <2>2. cycle'[p].kind = cycle[p].kind /\ cycle'[p].facts = rev.world
    BY <1>n, <2>1 DEF Cycle
  <2>3. cycle[p].kind = "query" => ~tx'[p].delta
    BY <1>n, <1>f, <2>1 DEF Explained
  <2>4. rev.world <= rev.world
    BY FieldsTyped
  <2>5. NoneOfOwn(p, cycle[p].facts, rev.world)'
    BY <2>1, <2>2, NowLacksNothing DEF NoneOfOwn
  <2> QED
    BY <1>l, <2>1, <2>2, <2>3, <2>4, <2>5 DEF Explained, NoneOfOwn
<1>12. CASE Execute(p)
  <2>1. PICK result : cycle'[p] = [cycle[p] EXCEPT !.result = result]
    BY <1>12 DEF Execute
  <2>2. /\ pc[p] # "explain" /\ tx'[p] = tx[p] /\ focus'[p] = focus[p]
    BY <1>12 DEF Execute
  <2>3. cycle'[p].kind = cycle[p].kind /\ cycle'[p].facts = cycle[p].facts
    BY <1>n, <2>1 DEF Cycle
  <2> QED
    BY <1>l, <1>k, <2>2, <2>3
<1>13. CASE JournalRead(p)
  <2>1. /\ pc[p] # "explain" /\ tx'[p] = tx[p] /\ focus'[p] = focus[p]
        /\ cycle'[p] = [cycle[p] EXCEPT !.base = rev.effect]
    BY <1>13 DEF JournalRead
  <2>2. cycle'[p].kind = cycle[p].kind /\ cycle'[p].facts = cycle[p].facts
    BY <1>n, <2>1 DEF Cycle
  <2> QED
    BY <1>l, <1>k, <2>1, <2>2
<1>14. CASE Assimilate(p)
  <2>1. /\ pc[p] # "explain" /\ cycle'[p] = cycle[p] /\ focus'[p] = focus[p]
        /\ tx'[p] = Pinned(17, NoDelta)
    BY <1>14 DEF Assimilate
  <2>2. ~tx'[p].delta
    BY <2>1 DEF Pinned, NoDelta
  <2> QED
    BY <1>l, <1>k, <2>1, <2>2
<1>15. CASE Verified(p)
  <2>1. /\ pc[p] = "respond" /\ rev' = rev /\ log' = log
        /\ \/ Ended(p)
           \/ cycle'[p] = cycle[p] /\ tx'[p] = tx[p]
        /\ focus'[p] = IF cycle[p].kind = "query" THEN Answered(p) ELSE focus[p]
    BY <1>15 DEF Verified, exactVars
  <2>2. Explained(p)'
    BY <1>e, <1>k, <2>1
  <2>3. CASE cycle[p].kind = "query"
    <3>1. /\ cycle[p].facts <= rev.world
          /\ NoneOfOwn(p, cycle[p].facts, rev.world)
      BY <1>f, <2>1, <2>3 DEF Explained
    <3>2. /\ focus'[p].facts = cycle[p].facts
          /\ focus'[p].world = rev.world
      BY <2>1, <2>3 DEF Answered
    <3>3. rev.world <= rev.world
      BY FieldsTyped
    <3>4. NoneOfOwn(p, focus[p].facts, focus[p].world)'
      BY <2>1, <3>1, <3>2 DEF NoneOfOwn
    <3> QED
      BY <2>1, <2>2, <3>1, <3>2, <3>3, <3>4 DEF Labelled, NoneOfOwn
  <2>4. CASE cycle[p].kind # "query"
    BY <1>l, <2>1, <2>2, <2>4
  <2> QED
    BY <2>3, <2>4
<1> QED
  BY <1>1, <1>2, <1>3, <1>4, <1>5, <1>6, <1>7, <1>8, <1>9, <1>10, <1>11,
     <1>12, <1>13, <1>14, <1>15 DEF Step

\* Nobody has a focus or facts at the start.
LEMMA FocusInit == Init => FocusInv
BY DEF Init, ExactInit, NoCycle, FocusInv, LogBelow, Labelled, Explained

\* Labels go from step to step.
LEMMA FocusStep == CycleTypeOK /\ FocusInv /\ [Next]_vars => FocusInv'
<1>1. ASSUME FocusInv, UNCHANGED vars
      PROVE  FocusInv'
  BY <1>1 DEF vars, exactVars, runtimeVars, FocusInv, LogBelow, Labelled,
              Explained, NoneOfOwn
<1>2. ASSUME CycleTypeOK, FocusInv, NEW p \in Process, Step(p)
      PROVE  FocusInv'
  <2>1. \A q \in Process : Labelled(q)' /\ Explained(q)'
    BY <1>2, OwnFocus, OtherFocus
  <2>2. LogBelow'
    BY <1>2, LogBelowStep DEF FocusInv
  <2> QED
    BY <2>1, <2>2 DEF FocusInv
<1> QED
  BY <1>1, <1>2, NextIsStep

\* OwnCommitsInFocus: the label of a verified focus is never older than its
\* facts or newer than the store, and only commits of other processes can
\* have come between the two.
THEOREM FocusLacksOnlyOthers == Spec => []OwnCommitsInFocus
<1>1. FocusInv => OwnCommitsInFocus
  BY DEF FocusInv, Labelled, NoneOfOwn, OwnCommitsInFocus
<1> QED
  BY <1>1, FocusInit, FocusStep, CycleTypeCorrect, PTL DEF Spec

-----------------------------------------------------------------------------
(* One runtime on the file.                                                *)

\* What p read before its write still stands when it writes.
Reads(p) ==
  /\ cycle[p].discourse <= rev.discourse
  /\ pc[p] = "emit" => cycle[p].discourse = rev.discourse
  /\ pc[p] = "upsert" => effects[cycle[p].effect].status \notin Replayed

AloneInv == OneRowPerRevision /\ \A p \in Process : Reads(p)

\* The two writes that use an earlier read are reached from that read only.
LEMMA Arrivals ==
  ASSUME CycleTypeOK, NEW p \in Process, Step(p)
  PROVE  /\ pc'[p] = "emit" => GroundCheck(p)
         /\ pc'[p] = "upsert" => JournalRead(p)
<1> SUFFICES ASSUME pc'[p] \in {"emit", "upsert"}
             PROVE  \/ pc'[p] = "emit" /\ GroundCheck(p)
                    \/ pc'[p] = "upsert" /\ JournalRead(p)
  OBVIOUS
<1> USE DEF CycleTypeOK
<1>1. ~Ended(p) /\ ~Proceed(p)
  BY DEF Ended, Proceed, Goto
<1>2. ~(\E kind : \E where \in {"begin", "explain", "execute", "respond"} :
          Orient(p, kind, where))
  BY DEF Orient, Goto
<1>3. ~(OrientClaim(p) \/ OrientTeach(p) \/ OrientQuery(p)
         \/ OrientDirective(p))
  BY <1>2 DEF OrientClaim, OrientTeach, OrientQuery, OrientDirective
<1>4. ~(Start(p) \/ Crash(p) \/ Reload(p) \/ Maintain(p))
  BY DEF Start, Crash, Reload, Maintain, Goto
<1>5. ~(Begin(p) \/ Number(p) \/ Write(p) \/ Explain(p) \/ Execute(p)
         \/ JournalUpsert(p) \/ Assimilate(p))
  BY DEF Begin, Number, Write, Explain, Execute, JournalUpsert, Assimilate, Goto
<1>6. ~(Abort(p) \/ AfterCommit(p) \/ Verified(p) \/ Unverified(p)
         \/ GroundWrite(p))
  BY <1>1 DEF Abort, AfterCommit, Verified, Unverified, GroundWrite, Goto
<1>7. GroundCheck(p) \/ JournalRead(p)
  BY <1>3, <1>4, <1>5, <1>6 DEF Step
<1> QED
  BY <1>7 DEF GroundCheck, JournalRead, Goto

\* Alone, a runtime's next write follows its own last one.
LEMMA AloneStep ==
  ASSUME NEW p \in Process, Process = {p}, CycleTypeOK, AloneInv, Step(p)
  PROVE  /\ AloneInv'
         /\ \A e \in Effect :
              effects[e].status \in Replayed => effects'[e] = effects[e]
<1> USE DEF CycleTypeOK
<1>r. Reads(p) /\ OneRowPerRevision
  BY DEF AloneInv
<1>t. /\ cycle[p] \in Cycle /\ cycle[p].discourse \in Nat
      /\ rev.discourse \in Nat /\ cycle[p].effect \in Effect
      /\ \A g \in ground : g.revision \in Nat
  BY FieldsTyped DEF ExactTypeOK
<1>1. OneRowPerRevision'
  <2>1. CASE GroundWrite(p)
    <3>1. pc[p] = "emit"
      BY <2>1 DEF GroundWrite
    <3>2. cycle[p].discourse = rev.discourse
      BY <1>r, <3>1 DEF Reads
    <3>3. PICK row : /\ row.revision = rev.discourse + 1
                     /\ ground' = ground \cup {row}
                     /\ rev'.discourse = rev.discourse + 1
      BY <2>1, <3>2, GroundWritten
    <3>4. \A g \in ground : g.revision <= rev.discourse
      BY <1>r DEF OneRowPerRevision
    <3>5. \A g \in ground : g.revision # row.revision
      BY <1>t, <3>3, <3>4
    <3>6. \A g \in ground' : g.revision <= rev'.discourse
      BY <1>t, <3>3, <3>4
    <3>7. \A g, h \in ground' : g.revision = h.revision => g = h
      BY <1>r, <3>3, <3>5 DEF OneRowPerRevision
    <3> QED
      BY <3>6, <3>7 DEF OneRowPerRevision
  <2>2. CASE ground' = ground /\ rev'.discourse = rev.discourse
    BY <1>r, <2>2 DEF OneRowPerRevision
  <2> QED
    BY <2>1, <2>2, DiscourseEffects
<1>2. cycle'[p].discourse <= rev'.discourse
  <2>1. rev'.discourse \in {rev.discourse, cycle[p].discourse + 1}
    BY DiscourseEffects, GroundWritten
  <2>2. CASE rev'.discourse = rev.discourse
    BY <1>r, <1>t, <2>2, DiscourseRead DEF Reads
  <2>3. CASE GroundWrite(p)
    <3>1. cycle'[p] = NoCycle
      BY <2>3 DEF GroundWrite, Ended
    <3>2. cycle'[p].discourse = 0 /\ rev'.discourse = cycle[p].discourse + 1
      BY <2>3, <3>1, GroundWritten DEF NoCycle
    <3> QED
      BY <1>t, <3>2
  <2> QED
    BY <2>2, <2>3, DiscourseEffects
<1>3. pc'[p] = "emit" => cycle'[p].discourse = rev'.discourse
  <2> SUFFICES ASSUME pc'[p] = "emit"
               PROVE  cycle'[p].discourse = rev'.discourse
    OBVIOUS
  <2>1. GroundCheck(p)
    BY Arrivals
  <2> QED
    BY <2>1 DEF GroundCheck, exactVars
<1>4. ASSUME NEW e \in Effect, effects[e].status \in Replayed
      PROVE  effects'[e] = effects[e]
  <2>1. CASE JournalUpsert(p)
    <3>1. e # cycle[p].effect
      BY <1>r, <1>4, <2>1 DEF JournalUpsert, Reads
    <3> QED
      BY <2>1, <3>1 DEF JournalUpsert, JournalEffect, ExactTypeOK
  <2> QED
    BY <2>1, TableWriters
<1>5. pc'[p] = "upsert" => effects'[cycle'[p].effect].status \notin Replayed
  <2> SUFFICES ASSUME pc'[p] = "upsert"
               PROVE  effects'[cycle'[p].effect].status \notin Replayed
    OBVIOUS
  <2>1. JournalRead(p)
    BY Arrivals
  <2>2. /\ effects' = effects
        /\ cycle'[p] = [cycle[p] EXCEPT !.base = rev.effect]
        /\ effects[cycle[p].effect].status \notin Replayed
    BY <2>1 DEF JournalRead, Goto, exactVars
  <2>3. cycle'[p].effect = cycle[p].effect
    BY <1>t, <2>2 DEF Cycle
  <2> QED
    BY <2>2, <2>3
<1>6. Reads(p)'
  BY <1>2, <1>3, <1>5 DEF Reads
<1>7. AloneInv'
  BY <1>1, <1>6 DEF AloneInv
<1> QED
  BY <1>4, <1>7

\* Nothing is read at the start.
LEMMA AloneInit == Init => AloneInv
BY DEF Init, ExactInit, NoCycle, AloneInv, OneRowPerRevision, Reads

\* The invariant of a lone runtime goes from step to step.
LEMMA AloneNext ==
  ASSUME NEW p, Process = {p}
  PROVE  CycleTypeOK /\ AloneInv /\ [Next]_vars => AloneInv'
<1>1. ASSUME AloneInv, UNCHANGED vars
      PROVE  AloneInv'
  BY <1>1 DEF vars, exactVars, runtimeVars, AloneInv, OneRowPerRevision, Reads
<1>2. ASSUME CycleTypeOK, AloneInv, NEW q \in Process, Step(q)
      PROVE  AloneInv'
  <2>1. Process = {q}
    OBVIOUS
  <2> QED
    BY <1>2, <2>1, AloneStep
<1> QED
  BY <1>1, <1>2, NextIsStep

\* OneRowPerRevision: a runtime that has the file to itself never repeats a
\* discourse revision, across raised turns, crashes and restarts.
THEOREM LoneRuntimeNumbersRows ==
  ASSUME NEW p, Process = {p}
  PROVE  Spec => []OneRowPerRevision
<1>1. AloneInv => OneRowPerRevision
  BY DEF AloneInv
<1> QED
  BY <1>1, AloneInit, AloneNext, CycleTypeCorrect, PTL DEF Spec

\* ConclusionsFinal: nor does it ever overwrite a concluded journal row.
THEOREM LoneRuntimeConcludesOnce ==
  ASSUME NEW p, Process = {p}
  PROVE  Spec => ConclusionsFinal
<1>1. CycleTypeOK /\ AloneInv /\ [Next]_vars
        => [\A e \in Effect :
              effects[e].status \in {"succeeded", "declined"} =>
                effects'[e] = effects[e]]_vars
  <2>1. ASSUME CycleTypeOK, AloneInv, NEW q \in Process, Step(q)
        PROVE  \A e \in Effect :
                 effects[e].status \in {"succeeded", "declined"} =>
                   effects'[e] = effects[e]
    <3>1. Process = {q}
      OBVIOUS
    <3> QED
      BY <2>1, <3>1, AloneStep DEF Replayed
  <2> QED
    BY <2>1, NextIsStep
<1> QED
  BY <1>1, AloneInit, AloneNext, CycleTypeCorrect, PTL DEF Spec, ConclusionsFinal
=============================================================================
