------------------------ MODULE SemanticStoreProofs ------------------------
(***************************************************************************)
(* What SemanticStore guarantees to every set of processes and keys.       *)
(***************************************************************************)
EXTENDS SemanticStore, TLAPS

\* A key without a row has had none.
AbsentRowsEmpty == \A k \in Key : journal[k].state = "ABSENT" => journal[k] = NoRow

\* The conjunction that every transaction preserves.
StoreInv ==
  /\ StoreTypeOK
  /\ CacheBehind
  /\ RevisionContinuity
  /\ AbsentRowsEmpty
  /\ RowsHaveTheirRevision
  /\ WorldMatchesJournal

-----------------------------------------------------------------------------
(* Revisions.                                                              *)

\* RevisionContinuity, row by row.
LEMMA ContinuityByRow ==
  ASSUME NEW m \in [Counter -> Nat], NEW R \in SUBSET (Counter \X Nat)
  PROVE  R = RowsUpTo(m) <=>
            \A c \in Counter, n \in Nat : <<c, n>> \in R <=> n \in 1..m[c]
<1> DEFINE Rows == RowsUpTo(m)
<1>1. \A c \in Counter, n \in Nat : <<c, n>> \in Rows <=> n \in 1..m[c]
  <2>1. SUFFICES ASSUME NEW c \in Counter, NEW n \in Nat
                 PROVE  <<c, n>> \in Rows <=> n \in 1..m[c]
    OBVIOUS
  <2>2. ASSUME n \in 1..m[c] PROVE <<c, n>> \in Rows
    <3>1. <<c, n>> \in {c} \X (1..m[c])
      BY <2>2
    <3>2. QED
      BY <3>1 DEF RowsUpTo
  <2>3. ASSUME <<c, n>> \in Rows PROVE n \in 1..m[c]
    <3>1. PICK d \in Counter : <<c, n>> \in {d} \X (1..m[d])
      BY <2>3 DEF RowsUpTo
    <3>2. QED
      BY <3>1
  <2>4. QED
    BY <2>2, <2>3
<1>2. \A x \in Rows : \E c \in Counter, n \in Nat : x = <<c, n>>
  <2>1. SUFFICES ASSUME NEW x \in Rows
                 PROVE  \E c \in Counter, n \in Nat : x = <<c, n>>
    OBVIOUS
  <2>2. PICK d \in Counter : x \in {d} \X (1..m[d])
    BY DEF RowsUpTo
  <2>3. QED
    BY <2>2
<1>3. \A x \in R : \E c \in Counter, n \in Nat : x = <<c, n>>
  OBVIOUS
<1>4. ASSUME \A c \in Counter, n \in Nat : <<c, n>> \in R <=> n \in 1..m[c]
      PROVE  R = Rows
  <2>1. \A x \in Rows : x \in R
    BY <1>1, <1>2, <1>4
  <2>2. \A x \in R : x \in Rows
    BY <1>1, <1>3, <1>4
  <2>3. QED
    BY <2>1, <2>2
<1>5. QED
  BY <1>1, <1>4

\* A write that passes the primary key of the revisions table was made from
\* the durable revisions: the table refuses every stale process, with or
\* without a recheck of the metadata.
LEMMA FreshWriter ==
  ASSUME NEW p \in Process, NEW C \in SUBSET Counter,
         StoreTypeOK, CacheBehind, RevisionContinuity, RevisionFree(p, C)
  PROVE  \A c \in C : cache[p][c] = meta[c]
<1>1. SUFFICES ASSUME NEW c \in C, cache[p][c] # meta[c]
               PROVE  FALSE
  OBVIOUS
<1>2. cache[p][c] \in Nat /\ meta[c] \in Nat /\ cache[p][c] <= meta[c]
  BY DEF StoreTypeOK, CacheBehind
<1>3. cache[p][c] + 1 \in 1..meta[c]
  BY <1>1, <1>2
<1>4. <<c, cache[p][c] + 1>> \in revisions
  BY <1>2, <1>3, ContinuityByRow DEF RevisionContinuity, StoreTypeOK
<1>5. QED
  BY <1>4 DEF RevisionFree

\* Such a write moves exactly its counters, by one, and leaves the revision
\* rows contiguous and every cache at or behind the durable revisions.
LEMMA AdvanceKeepsRevisions ==
  ASSUME NEW p \in Process, NEW C \in SUBSET Counter,
         StoreTypeOK, CacheBehind, RevisionContinuity,
         RevisionFree(p, C), Advance(p, C)
  PROVE  /\ meta' = [c \in Counter |-> IF c \in C THEN meta[c] + 1 ELSE meta[c]]
         /\ meta' \in [Counter -> Nat]
         /\ cache' \in [Process -> [Counter -> Nat]]
         /\ revisions' \subseteq (Counter \X Nat)
         /\ loaded' \in [Process -> 0..4]
         /\ CacheBehind'
         /\ RevisionContinuity'
<1>1. \A c \in C : cache[p][c] = meta[c]
  BY FreshWriter
<1>2. meta \in [Counter -> Nat] /\ cache \in [Process -> [Counter -> Nat]]
  BY DEF StoreTypeOK
<1>3. meta' = [c \in Counter |-> IF c \in C THEN meta[c] + 1 ELSE meta[c]]
  BY <1>1 DEF Advance
<1>4. meta' \in [Counter -> Nat]
  BY <1>2, <1>3
<1>5. cache' \in [Process -> [Counter -> Nat]]
  BY <1>2 DEF Advance
<1>6. revisions' \subseteq (Counter \X Nat)
  <2>1. \A c \in C : <<c, cache[p][c] + 1>> \in Counter \X Nat
    BY <1>2
  <2>2. QED
    BY <2>1 DEF Advance, StoreTypeOK
<1>7. loaded' \in [Process -> 0..4]
  BY DEF Advance, StoreTypeOK
<1>8. CacheBehind'
  <2>1. SUFFICES ASSUME NEW q \in Process, NEW c \in Counter
                 PROVE  cache'[q][c] <= meta'[c]
    BY DEF CacheBehind
  <2>2. cache[q][c] <= meta[c] /\ cache[q][c] \in Nat /\ meta[c] \in Nat
    BY <1>2 DEF CacheBehind
  <2>3. CASE q = p /\ c \in C
    BY <1>1, <1>2, <1>3, <2>2, <2>3 DEF Advance
  <2>4. CASE ~(q = p /\ c \in C)
    <3>1. cache'[q][c] = cache[q][c]
      BY <1>2, <2>4 DEF Advance
    <3>2. QED
      BY <1>3, <2>2, <3>1
  <2>5. QED
    BY <2>3, <2>4
<1>9. RevisionContinuity'
  <2>1. revisions' = revisions \cup {<<c, meta[c] + 1>> : c \in C}
    BY <1>1 DEF Advance
  <2>2. \A c \in Counter, n \in Nat : <<c, n>> \in revisions <=> n \in 1..meta[c]
    BY <1>2, ContinuityByRow DEF RevisionContinuity, StoreTypeOK
  <2>3. ASSUME NEW c \in Counter, NEW n \in Nat
        PROVE  <<c, n>> \in revisions' <=> n \in 1..meta'[c]
    <3>1. <<c, n>> \in revisions' <=> \/ n \in 1..meta[c]
                                      \/ c \in C /\ n = meta[c] + 1
      BY <2>1, <2>2
    <3>2. meta[c] \in Nat /\ meta'[c] = IF c \in C THEN meta[c] + 1 ELSE meta[c]
      BY <1>2, <1>3
    <3>3. QED
      BY <3>1, <3>2
  <2>4. QED
    BY <1>4, <1>6, <2>3, ContinuityByRow DEF RevisionContinuity
<1>10. QED
  BY <1>3, <1>4, <1>5, <1>6, <1>7, <1>8, <1>9

-----------------------------------------------------------------------------
(* Journal rows.                                                           *)

\* A row written with the next effect revision is the only one of it.
LEMMA NewRowIsUnique ==
  ASSUME NEW k \in Key, NEW row \in Row, row.state # "ABSENT",
         StoreTypeOK, AbsentRowsEmpty, RowsHaveTheirRevision,
         journal' = [journal EXCEPT ![k] = row],
         row.rev = meta["effects"] + 1,
         meta'["effects"] = meta["effects"] + 1
  PROVE  /\ journal' \in [Key -> Row]
         /\ AbsentRowsEmpty'
         /\ RowsHaveTheirRevision'
<1>1. journal \in [Key -> Row] /\ meta["effects"] \in Nat
  BY DEF StoreTypeOK, Counter
<1>2. journal' \in [Key -> Row]
  BY <1>1
<1>3. AbsentRowsEmpty'
  BY <1>1 DEF AbsentRowsEmpty
<1>4. \A j \in Key : journal[j].rev \in 0..meta["effects"]
  <2>1. SUFFICES ASSUME NEW j \in Key
                 PROVE  journal[j].rev \in 0..meta["effects"]
    OBVIOUS
  <2>2. CASE journal[j].state = "ABSENT"
    BY <1>1, <2>2 DEF AbsentRowsEmpty, NoRow
  <2>3. CASE journal[j].state # "ABSENT"
    BY <1>1, <2>3 DEF RowsHaveTheirRevision
  <2>4. QED
    BY <2>2, <2>3
<1>5. RowsHaveTheirRevision'
  <2>1. SUFFICES ASSUME NEW i \in Key, journal'[i].state # "ABSENT"
                 PROVE  /\ journal'[i].rev \in 1..meta'["effects"]
                        /\ \A j \in Key \ {i} : journal'[j].rev # journal'[i].rev
    BY DEF RowsHaveTheirRevision
  <2>2. CASE i = k
    BY <1>1, <1>4, <2>2
  <2>3. CASE i # k
    <3>1. /\ journal[i].rev \in 1..meta["effects"]
          /\ \A j \in Key \ {i} : journal[j].rev # journal[i].rev
      BY <1>1, <2>1, <2>3 DEF RowsHaveTheirRevision
    <3>2. QED
      BY <1>1, <2>3, <3>1
  <2>4. QED
    BY <2>2, <2>3
<1>6. QED
  BY <1>2, <1>3, <1>5

\* Entry builds a row.
LEMMA EntryIsRow ==
  ASSUME NEW p \in Process, NEW state \in JournalStates, NEW attempt \in Nat,
         NEW turn \in Nat, NEW outcome \in Outcomes, NEW world \in Nat,
         StoreTypeOK
  PROVE  LET row == Entry(p, state, attempt, turn, outcome, world) IN
           /\ row \in Row
           /\ row.state = state /\ row.state # "ABSENT"
           /\ row.rev = cache[p]["effects"] + 1
<1>1. cache[p]["effects"] \in Nat
  BY DEF StoreTypeOK, Counter
<1>2. state # "ABSENT"
  BY DEF JournalStates, NonTerminalStates, TerminalStates
<1>3. QED
  BY <1>1, <1>2 DEF Entry, Row

\* What the four transactions have in common: one row written from the durable
\* effect revision, and counters advanced together with it.
LEMMA RowWriteKeeps ==
  ASSUME NEW p \in Process, NEW k \in Key, NEW C \in SUBSET Counter,
         "effects" \in C,
         NEW state \in JournalStates, NEW attempt \in Nat, NEW turn \in Nat,
         NEW outcome \in Outcomes, NEW world \in Nat,
         StoreInv, RevisionFree(p, C), Advance(p, C),
         journal' = [journal EXCEPT ![k] =
                       Entry(p, state, attempt, turn, outcome, world)],
         worldFacts' \subseteq Key, turnIndex' \in Nat, obligations' \subseteq Key
  PROVE  /\ StoreTypeOK' /\ CacheBehind' /\ RevisionContinuity'
         /\ AbsentRowsEmpty' /\ RowsHaveTheirRevision'
<1> DEFINE row == Entry(p, state, attempt, turn, outcome, world)
<1>1. StoreTypeOK /\ CacheBehind /\ RevisionContinuity
  BY DEF StoreInv
<1>2. cache[p]["effects"] = meta["effects"]
  BY <1>1, FreshWriter
<1>3. row \in Row /\ row.state # "ABSENT" /\ row.rev = meta["effects"] + 1
  <2>1. /\ row \in Row
        /\ row.state # "ABSENT"
        /\ row.rev = cache[p]["effects"] + 1
    BY <1>1, EntryIsRow
  <2> QED
    BY <1>2, <2>1
<1>4. /\ meta' \in [Counter -> Nat]
      /\ cache' \in [Process -> [Counter -> Nat]]
      /\ revisions' \subseteq (Counter \X Nat)
      /\ loaded' \in [Process -> 0..4]
      /\ CacheBehind' /\ RevisionContinuity'
      /\ meta'["effects"] = meta["effects"] + 1
  BY <1>1, AdvanceKeepsRevisions DEF Counter
<1>5. journal' \in [Key -> Row] /\ AbsentRowsEmpty' /\ RowsHaveTheirRevision'
  <2>1. journal' = [journal EXCEPT ![k] = row]
    OBVIOUS
  <2> HIDE DEF row
  <2>2. QED
    BY <1>1, <1>3, <1>4, <2>1, NewRowIsUnique DEF StoreInv
<1>6. StoreTypeOK'
  BY <1>4, <1>5 DEF StoreTypeOK
<1>7. QED
  BY <1>4, <1>5, <1>6

-----------------------------------------------------------------------------
(* The transactions.                                                       *)

\* r3_effect_journal_begin keeps the invariant of the store.
LEMMA BeginKeeps ==
  ASSUME NEW p \in Process, NEW k \in Key, NEW turn \in Nat,
         StoreInv, JournalBegin(p, k, turn)
  PROVE  StoreInv'
<1>1. journal \in [Key -> Row]
  BY DEF StoreInv, StoreTypeOK
<1>2. /\ StoreTypeOK' /\ CacheBehind' /\ RevisionContinuity'
      /\ AbsentRowsEmpty' /\ RowsHaveTheirRevision'
  <2>1. /\ RevisionFree(p, {"effects"}) /\ Advance(p, {"effects"})
        /\ journal' = [journal EXCEPT ![k] =
                         Entry(p, "PLANNED", 0, turn, "none", 0)]
        /\ worldFacts' \subseteq Key /\ turnIndex' \in Nat
        /\ obligations' \subseteq Key
    BY DEF JournalBegin, BeginAccepted, StoreInv, StoreTypeOK
  <2>2. /\ {"effects"} \in SUBSET Counter /\ "PLANNED" \in JournalStates
        /\ "none" \in Outcomes
    BY DEF Counter, JournalStates, NonTerminalStates, Outcomes
  <2>3. QED
    BY <2>1, <2>2, RowWriteKeeps
<1>3. WorldMatchesJournal'
  <2>1. worldFacts' = worldFacts /\ journal[k].state = "ABSENT"
    BY DEF JournalBegin, BeginAccepted
  <2>2. \A j \in Key : journal'[j].state = "COMMITTED"
                         <=> journal[j].state = "COMMITTED"
    BY <1>1, <2>1 DEF JournalBegin, Entry
  <2>3. QED
    BY <2>1, <2>2 DEF StoreInv, WorldMatchesJournal
<1>4. QED
  BY <1>2, <1>3 DEF StoreInv

\* So does r3_effect_journal_transition, stale cache or not.
LEMMA TransitionKeeps ==
  ASSUME NEW p \in Process, NEW k \in Key,
         NEW target \in JournalStates \ {"COMMITTED"}, NEW outcome \in Outcomes,
         StoreInv, JournalTransition(p, k, journal[k].state, target, outcome)
  PROVE  StoreInv'
<1> DEFINE source == journal[k].state
           attempt == NextAttempt(journal[k].attempt, source, target)
           world == IF target \in TerminalStates THEN cache[p]["world"] ELSE 0
<1>1. journal[k] \in Row /\ journal \in [Key -> Row]
  BY DEF StoreInv, StoreTypeOK
<1>2. attempt \in Nat /\ journal[k].turn \in Nat
  BY <1>1 DEF Row, NextAttempt
<1>3. world \in Nat
  BY DEF StoreInv, StoreTypeOK, Counter
<1>4. /\ StoreTypeOK' /\ CacheBehind' /\ RevisionContinuity'
      /\ AbsentRowsEmpty' /\ RowsHaveTheirRevision'
  <2>1. /\ RevisionFree(p, Written(target)) /\ Advance(p, Written(target))
        /\ journal' = [journal EXCEPT ![k] =
                         Entry(p, target, attempt, journal[k].turn, outcome, world)]
    BY DEF JournalTransition, TransitionAccepted
  <2>2. /\ worldFacts' \subseteq Key /\ turnIndex' \in Nat
        /\ obligations' \subseteq Key
    BY <1>2 DEF JournalTransition, StoreInv, StoreTypeOK
  <2>3. Written(target) \in SUBSET Counter /\ "effects" \in Written(target)
    BY DEF Written, Counter
  <2> HIDE DEF attempt, world
  <2>4. QED
    BY <1>2, <1>3, <2>1, <2>2, <2>3, RowWriteKeeps
<1>5. WorldMatchesJournal'
  <2>1. worldFacts' = worldFacts /\ target \in Targets(journal[k].state)
    BY DEF JournalTransition, TransitionAccepted
  <2>2. journal[k].state # "COMMITTED" /\ target # "COMMITTED"
    BY <2>1 DEF Targets
  <2>3. \A j \in Key : journal'[j].state = "COMMITTED"
                         <=> journal[j].state = "COMMITTED"
    BY <1>1, <2>2 DEF JournalTransition, Entry
  <2>4. QED
    BY <2>1, <2>3 DEF StoreInv, WorldMatchesJournal
<1>6. QED
  BY <1>4, <1>5 DEF StoreInv

\* So does r3_effect_journal_commit.
LEMMA CommitKeeps ==
  ASSUME NEW p \in Process, NEW k \in Key, StoreInv, JournalCommit(p, k)
  PROVE  StoreInv'
<1> DEFINE C == {"world", "session", "effects"}
<1>1. journal[k] \in Row /\ journal \in [Key -> Row]
  BY DEF StoreInv, StoreTypeOK
<1>2. journal[k].attempt \in Nat /\ journal[k].turn \in Nat
  BY <1>1 DEF Row
<1>3. cache[p]["world"] + 1 \in Nat
  BY DEF StoreInv, StoreTypeOK, Counter
<1>4. /\ StoreTypeOK' /\ CacheBehind' /\ RevisionContinuity'
      /\ AbsentRowsEmpty' /\ RowsHaveTheirRevision'
  <2>1. /\ RevisionFree(p, C) /\ Advance(p, C)
        /\ journal' = [journal EXCEPT ![k] =
                         Entry(p, "COMMITTED", journal[k].attempt,
                               journal[k].turn, "committed",
                               cache[p]["world"] + 1)]
    BY DEF JournalCommit, CommitAccepted
  <2>2. /\ worldFacts' \subseteq Key /\ turnIndex' \in Nat
        /\ obligations' \subseteq Key
    BY <1>2 DEF JournalCommit, StoreInv, StoreTypeOK
  <2>3. /\ C \in SUBSET Counter /\ "effects" \in C
        /\ "COMMITTED" \in JournalStates /\ "committed" \in Outcomes
    BY DEF Counter, JournalStates, TerminalStates, Outcomes
  <2>4. QED
    BY <1>2, <1>3, <2>1, <2>2, <2>3, RowWriteKeeps
<1>5. WorldMatchesJournal'
  <2>1. worldFacts' = worldFacts \cup {k}
    BY DEF JournalCommit
  <2>2. \A j \in Key : journal'[j].state = "COMMITTED"
                         <=> j = k \/ journal[j].state = "COMMITTED"
    BY <1>1 DEF JournalCommit, Entry
  <2>3. QED
    BY <2>1, <2>2 DEF StoreInv, WorldMatchesJournal
<1>6. QED
  BY <1>4, <1>5 DEF StoreInv

\* So does r3_commit_learning_outcome.
LEMMA LearningKeeps ==
  ASSUME NEW p \in Process, NEW k \in Key, StoreInv, CommitLearningOutcome(p, k)
  PROVE  StoreInv'
<1> DEFINE C == {"session", "obligations", "effects"}
<1>1. journal[k] \in Row /\ journal \in [Key -> Row]
  BY DEF StoreInv, StoreTypeOK
<1>2. journal[k].attempt \in Nat /\ journal[k].turn \in Nat
  BY <1>1 DEF Row
<1>3. cache[p]["world"] \in Nat
  BY DEF StoreInv, StoreTypeOK, Counter
<1>4. /\ StoreTypeOK' /\ CacheBehind' /\ RevisionContinuity'
      /\ AbsentRowsEmpty' /\ RowsHaveTheirRevision'
  <2>1. /\ RevisionFree(p, C) /\ Advance(p, C)
        /\ journal' = [journal EXCEPT ![k] =
                         Entry(p, "NO_EFFECT", journal[k].attempt,
                               journal[k].turn, "no_effect", cache[p]["world"])]
    BY DEF CommitLearningOutcome, LearningAccepted
  <2>2. /\ worldFacts' \subseteq Key /\ turnIndex' \in Nat
        /\ obligations' \subseteq Key
    BY <1>2 DEF CommitLearningOutcome, StoreInv, StoreTypeOK
  <2>3. /\ C \in SUBSET Counter /\ "effects" \in C
        /\ "NO_EFFECT" \in JournalStates /\ "no_effect" \in Outcomes
    BY DEF Counter, JournalStates, TerminalStates, Outcomes
  <2>4. QED
    BY <1>2, <1>3, <2>1, <2>2, <2>3, RowWriteKeeps
<1>5. WorldMatchesJournal'
  <2>1. worldFacts' = worldFacts /\ journal[k].state = "PLANNED"
    BY DEF CommitLearningOutcome, LearningAccepted
  <2>2. \A j \in Key : journal'[j].state = "COMMITTED"
                         <=> journal[j].state = "COMMITTED"
    BY <1>1, <2>1 DEF CommitLearningOutcome, Entry
  <2>3. QED
    BY <2>1, <2>2 DEF StoreInv, WorldMatchesJournal
<1>6. QED
  BY <1>4, <1>5 DEF StoreInv

-----------------------------------------------------------------------------
(* Opening and losing a process.                                           *)

\* A revision loaded at open is one the store has reached.
LEMMA LoadKeeps ==
  ASSUME NEW p \in Process, StoreInv, LoadNext(p)
  PROVE  StoreInv'
<1> DEFINE c == LoadOrder[loaded[p] + 1]
<1>1. loaded \in [Process -> 0..4] /\ loaded[p] \in 0..3
  BY DEF LoadNext, StoreInv, StoreTypeOK
<1>2. c \in Counter
  BY <1>1 DEF LoadOrder, Counter
<1>3. /\ cache \in [Process -> [Counter -> Nat]] /\ meta \in [Counter -> Nat]
      /\ cache' = [cache EXCEPT ![p] = [cache[p] EXCEPT ![c] = meta[c]]]
  BY DEF LoadNext, StoreInv, StoreTypeOK
<1> HIDE DEF c
<1>4. cache' \in [Process -> [Counter -> Nat]]
  BY <1>2, <1>3
<1>5. loaded' \in [Process -> 0..4]
  BY <1>1 DEF LoadNext
<1>6. UNCHANGED <<meta, revisions, journal, worldFacts, turnIndex, obligations>>
  BY DEF LoadNext
<1>7. CacheBehind'
  BY <1>2, <1>3, <1>6 DEF StoreInv, CacheBehind
<1>8. QED
  BY <1>4, <1>5, <1>6, <1>7
  DEF StoreInv, StoreTypeOK, RevisionContinuity, AbsentRowsEmpty,
      RowsHaveTheirRevision, WorldMatchesJournal

\* A process that is gone has seen nothing.
LEMMA ForgetKeeps ==
  ASSUME NEW p \in Process, StoreInv, Forget(p)
  PROVE  StoreInv'
<1>1. /\ cache \in [Process -> [Counter -> Nat]] /\ meta \in [Counter -> Nat]
      /\ loaded \in [Process -> 0..4]
  BY DEF StoreInv, StoreTypeOK
<1>2. cache' \in [Process -> [Counter -> Nat]] /\ loaded' \in [Process -> 0..4]
  BY <1>1 DEF Forget
<1>3. UNCHANGED <<meta, revisions, journal, worldFacts, turnIndex, obligations>>
  BY DEF Forget
<1>4. CacheBehind'
  BY <1>1, <1>3 DEF Forget, StoreInv, CacheBehind
<1>5. QED
  BY <1>2, <1>3, <1>4
  DEF StoreInv, StoreTypeOK, RevisionContinuity, AbsentRowsEmpty,
      RowsHaveTheirRevision, WorldMatchesJournal

-----------------------------------------------------------------------------
(* The invariant of the store.                                             *)

\* An empty store satisfies the invariant.
LEMMA InitHolds == StoreInit => StoreInv
<1> SUFFICES ASSUME StoreInit PROVE StoreInv
  OBVIOUS
<1>1. StoreTypeOK
  BY DEF StoreInit, StoreTypeOK, Row, NoRow, Outcomes
<1>2. RevisionContinuity
  <2>1. meta \in [Counter -> Nat] /\ revisions \in SUBSET (Counter \X Nat)
    BY <1>1 DEF StoreTypeOK
  <2>2. \A c \in Counter, n \in Nat : <<c, n>> \in revisions <=> n \in 1..meta[c]
    BY DEF StoreInit
  <2>3. QED
    BY <2>1, <2>2, ContinuityByRow DEF RevisionContinuity
<1>3. CacheBehind /\ AbsentRowsEmpty /\ RowsHaveTheirRevision
  BY DEF StoreInit, CacheBehind, AbsentRowsEmpty, RowsHaveTheirRevision, NoRow
<1>4. WorldMatchesJournal
  BY DEF StoreInit, WorldMatchesJournal, NoRow
<1>5. QED
  BY <1>1, <1>2, <1>3, <1>4 DEF StoreInv

\* The invariant of the store goes from step to step.
LEMMA NextKeeps == StoreInv /\ [StoreNext]_storeVars => StoreInv'
<1> SUFFICES ASSUME StoreInv, [StoreNext]_storeVars PROVE StoreInv'
  OBVIOUS
<1>1. CASE UNCHANGED storeVars
  BY <1>1 DEF storeVars, StoreInv, StoreTypeOK, CacheBehind, RevisionContinuity,
              AbsentRowsEmpty, RowsHaveTheirRevision, WorldMatchesJournal
<1>2. CASE StoreNext
  <2>1. PICK p \in Process : StoreStep(p)
    BY <1>2 DEF StoreNext
  <2>2. CASE LoadNext(p)
    BY <2>2, LoadKeeps
  <2>3. CASE Forget(p)
    BY <2>3, ForgetKeeps
  <2>4. ASSUME NEW k \in Key, NEW turn \in Nat, JournalBegin(p, k, turn)
        PROVE  StoreInv'
    BY <2>4, BeginKeeps
  <2>5. ASSUME NEW k \in Key, NEW target \in JournalStates \ {"COMMITTED"},
               NEW outcome \in Outcomes,
               JournalTransition(p, k, journal[k].state, target, outcome)
        PROVE  StoreInv'
    BY <2>5, TransitionKeeps
  <2>6. ASSUME NEW k \in Key, JournalCommit(p, k)
        PROVE  StoreInv'
    BY <2>6, CommitKeeps
  <2>7. ASSUME NEW k \in Key, CommitLearningOutcome(p, k)
        PROVE  StoreInv'
    BY <2>7, LearningKeeps
  <2>8. QED
    BY <2>1, <2>2, <2>3, <2>4, <2>5, <2>6, <2>7 DEF StoreStep
<1>3. QED
  BY <1>1, <1>2

\* The inductive invariant holds for every number of processes and keys.
THEOREM StoreInvariant == StoreSpec => []StoreInv
  BY InitHolds, NextKeeps, PTL DEF StoreSpec

\* r3_persistence.py, persistence.py: revisions are contiguous, rows have their
\* revision to themselves, and facts are visible exactly with their COMMITTED
\* entry, whichever processes write and however stale they are.
THEOREM StoreConsistent ==
  StoreSpec => [](RevisionContinuity /\ RowsHaveTheirRevision /\ WorldMatchesJournal)
<1>1. StoreInv => RevisionContinuity /\ RowsHaveTheirRevision /\ WorldMatchesJournal
  BY DEF StoreInv
<1>2. QED
  BY <1>1, StoreInvariant, PTL

-----------------------------------------------------------------------------
(* What a step of the store may do.                                        *)

\* No transaction accepts a terminal row as its source.
LEMMA StepKeepsTerminalRows ==
  ASSUME StoreInv, StoreNext, NEW k \in Key, journal[k].state \in TerminalStates
  PROVE  journal'[k] = journal[k]
<1>1. PICK p \in Process : StoreStep(p)
  BY DEF StoreNext
<1>2. journal \in [Key -> Row]
  BY DEF StoreInv, StoreTypeOK
<1>3. /\ journal[k].state \notin {"ABSENT", "PLANNED", "OBSERVED"}
      /\ Targets(journal[k].state) = {}
  BY DEF TerminalStates, Targets
<1>4. CASE LoadNext(p) \/ Forget(p)
  BY <1>4 DEF LoadNext, Forget
<1>5. ASSUME NEW j \in Key, NEW turn \in Nat, JournalBegin(p, j, turn)
      PROVE  journal'[k] = journal[k]
  BY <1>2, <1>3, <1>5 DEF JournalBegin, BeginAccepted
<1>6. ASSUME NEW j \in Key, NEW target \in JournalStates \ {"COMMITTED"},
             NEW outcome \in Outcomes,
             JournalTransition(p, j, journal[j].state, target, outcome)
      PROVE  journal'[k] = journal[k]
  <2>1. target \in Targets(journal[j].state)
    BY <1>6 DEF JournalTransition, TransitionAccepted
  <2>2. j # k
    BY <1>3, <2>1
  <2>3. QED
    BY <1>2, <1>6, <2>2 DEF JournalTransition
<1>7. ASSUME NEW j \in Key, JournalCommit(p, j)
      PROVE  journal'[k] = journal[k]
  BY <1>2, <1>3, <1>7 DEF JournalCommit, CommitAccepted
<1>8. ASSUME NEW j \in Key, CommitLearningOutcome(p, j)
      PROVE  journal'[k] = journal[k]
  BY <1>2, <1>3, <1>8 DEF CommitLearningOutcome, LearningAccepted
<1>9. QED
  BY <1>1, <1>4, <1>5, <1>6, <1>7, <1>8 DEF StoreStep

\* Row k moves to the state target by the transition table.
RowMoves(k, target) ==
  /\ target \in Targets(journal[k].state)
  /\ journal'[k].state = target
  /\ journal'[k].attempt = NextAttempt(journal[k].attempt, journal[k].state, target)

RowBegins(k) ==
  journal[k].state = "ABSENT" /\ journal'[k].state = "PLANNED" /\ journal'[k].attempt = 0

\* Commits and learning outcomes, which do not consult the table, obey it too.
LEMMA RowsMoveByTable ==
  ASSUME StoreInv, StoreNext, NEW k \in Key
  PROVE  \/ journal'[k] = journal[k]
         \/ RowBegins(k)
         \/ \E target \in JournalStates : RowMoves(k, target)
<1>1. PICK p \in Process : StoreStep(p)
  BY DEF StoreNext
<1>2. journal \in [Key -> Row]
  BY DEF StoreInv, StoreTypeOK
<1>3. CASE LoadNext(p) \/ Forget(p)
  BY <1>3 DEF LoadNext, Forget
<1>4. ASSUME NEW j \in Key, NEW turn \in Nat, JournalBegin(p, j, turn)
      PROVE  journal'[k] = journal[k] \/ RowBegins(k)
  BY <1>2, <1>4 DEF JournalBegin, BeginAccepted, Entry, RowBegins
<1>5. ASSUME NEW j \in Key, NEW target \in JournalStates \ {"COMMITTED"},
             NEW outcome \in Outcomes,
             JournalTransition(p, j, journal[j].state, target, outcome)
      PROVE  journal'[k] = journal[k] \/ RowMoves(k, target)
  <2>1. CASE j # k
    BY <1>2, <1>5, <2>1 DEF JournalTransition
  <2>2. CASE j = k
    BY <1>2, <1>5, <2>2 DEF JournalTransition, TransitionAccepted, Entry, RowMoves
  <2>3. QED
    BY <2>1, <2>2
<1>6. ASSUME NEW j \in Key, JournalCommit(p, j)
      PROVE  journal'[k] = journal[k] \/ RowMoves(k, "COMMITTED")
  BY <1>2, <1>6 DEF JournalCommit, CommitAccepted, Entry, RowMoves, NextAttempt
<1>7. ASSUME NEW j \in Key, CommitLearningOutcome(p, j)
      PROVE  journal'[k] = journal[k] \/ RowMoves(k, "NO_EFFECT")
  BY <1>2, <1>7
  DEF CommitLearningOutcome, LearningAccepted, Entry, RowMoves, NextAttempt, Targets
<1>8. "COMMITTED" \in JournalStates /\ "NO_EFFECT" \in JournalStates
  BY DEF JournalStates, TerminalStates
<1>9. QED
  BY <1>1, <1>3, <1>4, <1>5, <1>6, <1>7, <1>8 DEF StoreStep

\* A concluded effect stays concluded the same way.
THEOREM TerminalRowsNeverChange == StoreSpec => TerminalRowsStay
<1>1. StoreInv /\ [StoreNext]_storeVars
        => [\A k \in Key : journal[k].state \in TerminalStates
                             => journal'[k] = journal[k]]_storeVars
  BY StepKeepsTerminalRows
<1>2. QED
  BY <1>1, StoreInvariant, PTL DEF StoreSpec, TerminalRowsStay

\* A write that the primary key lets pass moves durable revisions by one.
LEMMA AdvanceSwaps ==
  ASSUME NEW q \in Process, NEW C \in SUBSET Counter, StoreInv,
         RevisionFree(q, C), Advance(q, C),
         NEW p \in Process, NEW c \in Counter, cache'[p][c] # cache[p][c]
  PROVE  /\ cache[p][c] = meta[c]
         /\ cache'[p][c] = meta[c] + 1
         /\ meta'[c] = meta[c] + 1
<1>1. StoreTypeOK /\ CacheBehind /\ RevisionContinuity
  BY DEF StoreInv
<1>2. \A d \in C : cache[q][d] = meta[d]
  BY <1>1, FreshWriter
<1>3. cache \in [Process -> [Counter -> Nat]]
  BY <1>1 DEF StoreTypeOK
<1>4. p = q /\ c \in C
  BY <1>3 DEF Advance
<1>5. QED
  BY <1>2, <1>3, <1>4 DEF Advance

\* So does every step that moves a revision of an open process.
LEMMA StepSwaps ==
  ASSUME StoreInv, StoreNext, NEW p \in Process, NEW c \in Counter,
         Open(p), Open(p)', cache'[p][c] # cache[p][c]
  PROVE  /\ cache[p][c] = meta[c]
         /\ cache'[p][c] = meta[c] + 1
         /\ meta'[c] = meta[c] + 1
<1>1. PICK q \in Process : StoreStep(q)
  BY DEF StoreNext
<1>2. cache \in [Process -> [Counter -> Nat]] /\ loaded \in [Process -> 0..4]
  BY DEF StoreInv, StoreTypeOK
<1>3. ~LoadNext(q)
  BY <1>2 DEF LoadNext, Open
<1>4. ~Forget(q)
  BY <1>2 DEF Forget, Open
<1>5. PICK C \in SUBSET Counter : RevisionFree(q, C) /\ Advance(q, C)
  <2>1. /\ {"effects"} \in SUBSET Counter
        /\ {"world", "session", "effects"} \in SUBSET Counter
        /\ {"session", "obligations", "effects"} \in SUBSET Counter
        /\ \A target \in JournalStates : Written(target) \in SUBSET Counter
    BY DEF Counter, Written
  <2>2. ASSUME NEW k \in Key, NEW turn \in Nat, JournalBegin(q, k, turn)
        PROVE  \E C \in SUBSET Counter : RevisionFree(q, C) /\ Advance(q, C)
    BY <2>1, <2>2 DEF JournalBegin, BeginAccepted
  <2>3. ASSUME NEW k \in Key, NEW target \in JournalStates \ {"COMMITTED"},
               NEW outcome \in Outcomes,
               JournalTransition(q, k, journal[k].state, target, outcome)
        PROVE  \E C \in SUBSET Counter : RevisionFree(q, C) /\ Advance(q, C)
    BY <2>1, <2>3 DEF JournalTransition, TransitionAccepted
  <2>4. ASSUME NEW k \in Key, JournalCommit(q, k)
        PROVE  \E C \in SUBSET Counter : RevisionFree(q, C) /\ Advance(q, C)
    BY <2>1, <2>4 DEF JournalCommit, CommitAccepted
  <2>5. ASSUME NEW k \in Key, CommitLearningOutcome(q, k)
        PROVE  \E C \in SUBSET Counter : RevisionFree(q, C) /\ Advance(q, C)
    BY <2>1, <2>5 DEF CommitLearningOutcome, LearningAccepted
  <2>6. QED
    BY <1>1, <1>3, <1>4, <2>2, <2>3, <2>4, <2>5 DEF StoreStep
<1>6. QED
  BY <1>5, AdvanceSwaps

\* Every revision bump of every transaction is a compare-and-swap, although
\* only two of the four transactions compare.
THEOREM RevisionsAreCompareAndSwap == StoreSpec => CompareAndSwap
<1>1. StoreInv /\ [StoreNext]_storeVars
        => [\A p \in Process, c \in Counter :
              Open(p) /\ Open(p)' /\ cache'[p][c] # cache[p][c] =>
                /\ cache[p][c] = meta[c]
                /\ cache'[p][c] = meta[c] + 1
                /\ meta'[c] = meta[c] + 1]_storeVars
  BY StepSwaps
<1>2. QED
  BY <1>1, StoreInvariant, PTL DEF StoreSpec, CompareAndSwap
=============================================================================
