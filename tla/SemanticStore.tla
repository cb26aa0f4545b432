--------------------------- MODULE SemanticStore ---------------------------
(***************************************************************************)
(* persistence.py: the SQLite semantic store, shared by the processes that *)
(* opened it.  A write is one BEGIN IMMEDIATE transaction, so it is atomic *)
(* and serialized; what is NOT serialized is a process's view: every       *)
(* sub-store caches its revision when the store is opened, and only the    *)
(* process's own writes advance that cache.                                *)
(*                                                                         *)
(* The module states the transactions of the R3 port.  Each has a guard of *)
(* its own (...Accepted: the checks that otherwise raise and roll back),   *)
(* so that a caller can also take the step on which the write is refused.  *)
(***************************************************************************)
EXTENDS FiniteSets, EffectJournal

CONSTANTS
  Process,      \* operating-system processes that open the store
  Key           \* idempotency keys of effects

VARIABLES
  meta,         \* metadata table: the durable revision of each sub-store
  revisions,    \* revisions table: PRIMARY KEY (store, revision)
  journal,      \* r3_effect_journal table: one row per idempotency key
  worldFacts,   \* keys whose facts are in world_facts
  turnIndex,    \* turn_index of the session row (0: no row yet)
  obligations,  \* keys whose learning obligation is stored unresolved
  cache,        \* per process: the revision each sub-store object caches
  loaded        \* per process: how many sub-stores its open has loaded

storeVars == <<meta, revisions, journal, worldFacts, turnIndex, obligations,
               cache, loaded>>

Counter == {"world", "session", "effects", "obligations"}

\* The order in which SQLiteSemanticStore.__init__ loads the sub-stores: one
\* SELECT each, so that another process may commit between two of them.
LoadOrder == <<"world", "session", "effects", "obligations">>

Outcomes == {"none", "committed", "no_effect", "failed", "adapter_missing"}

\* One journal row: the entry's state and attempt_index, the effect_revision
\* that wrote it, turn_index of its request payload, and, once terminal, the
\* outcome and the world revision its receipt names.
Row == [state : JournalStates \cup {"ABSENT"}, attempt : Nat, rev : Nat,
        turn : Nat, outcome : Outcomes, world : Nat]

NoRow == [state |-> "ABSENT", attempt |-> 0, rev |-> 0, turn |-> 0,
          outcome |-> "none", world |-> 0]

StoreTypeOK ==
  /\ meta \in [Counter -> Nat]
  /\ revisions \subseteq (Counter \X Nat)
  /\ journal \in [Key -> Row]
  /\ worldFacts \subseteq Key
  /\ turnIndex \in Nat
  /\ obligations \subseteq Key
  /\ cache \in [Process -> [Counter -> Nat]]
  /\ loaded \in [Process -> 0..4]

StoreInit ==
  /\ meta = [c \in Counter |-> 0]
  /\ revisions = {}
  /\ journal = [k \in Key |-> NoRow]
  /\ worldFacts = {}
  /\ turnIndex = 0
  /\ obligations = {}
  /\ cache = [p \in Process |-> [c \in Counter |-> 0]]
  /\ loaded = [p \in Process |-> 0]

Open(p) == loaded[p] = 4

-----------------------------------------------------------------------------
(* Revisions.                                                              *)

\* The in-transaction recheck of the metadata row against the cached revision.
Pinned(p, counters) == \A c \in counters : meta[c] = cache[p][c]

\* Mutant of RevisionFree: the revisions table without its primary key.
NoPrimaryKey(p, counters) == TRUE

\* INSERT INTO revisions fails on a (store, revision) that is already there.
RevisionFree(p, counters) ==
  \A c \in counters : <<c, cache[p][c] + 1>> \notin revisions

\* A committed write moves each counter of the set from the CACHED revision.
Advance(p, counters) ==
  /\ meta' = [c \in Counter |->
                IF c \in counters THEN cache[p][c] + 1 ELSE meta[c]]
  /\ revisions' = revisions \cup {<<c, cache[p][c] + 1>> : c \in counters}
  /\ cache' = [cache EXCEPT ![p] =
                 [c \in Counter |->
                    IF c \in counters THEN cache[p][c] + 1 ELSE cache[p][c]]]
  /\ UNCHANGED loaded

-----------------------------------------------------------------------------
(* Opening and losing a process.                                           *)

\* One step of SQLiteSemanticStore.__init__: load the next cached revision.
LoadNext(p) ==
  /\ loaded[p] < 4
  /\ LET c == LoadOrder[loaded[p] + 1] IN
       cache' = [cache EXCEPT ![p] = [cache[p] EXCEPT ![c] = meta[c]]]
  /\ loaded' = [loaded EXCEPT ![p] = loaded[p] + 1]
  /\ UNCHANGED <<meta, revisions, journal, worldFacts, turnIndex, obligations>>

\* close(), or the end of the process: what it cached is gone.
Forget(p) ==
  /\ cache' = [cache EXCEPT ![p] = [c \in Counter |-> 0]]
  /\ loaded' = [loaded EXCEPT ![p] = 0]
  /\ UNCHANGED <<meta, revisions, journal, worldFacts, turnIndex, obligations>>

-----------------------------------------------------------------------------
\* The row every journal write leaves: EffectJournalEntry.create with the next
\* effect_revision, and the receipt.
Entry(p, state, attempt, turn, outcome, world) ==
  [state |-> state, attempt |-> attempt, rev |-> cache[p]["effects"] + 1,
   turn |-> turn, outcome |-> outcome, world |-> world]

-----------------------------------------------------------------------------
(* r3_effect_journal_begin, for a key with no row.                         *)

BeginAccepted(p, k) ==
  /\ journal[k].state = "ABSENT"
  /\ Pinned(p, {"effects"})
  /\ RevisionFree(p, {"effects"})

JournalBegin(p, k, turn) ==
  /\ BeginAccepted(p, k)
  /\ journal' = [journal EXCEPT ![k] =
                   Entry(p, "PLANNED", 0, turn, "none", 0)]
  /\ Advance(p, {"effects"})
  /\ UNCHANGED <<worldFacts, turnIndex, obligations>>

-----------------------------------------------------------------------------
(* r3_effect_journal_transition.                                           *)

\* A terminal target also writes the session row in the same transaction.
Written(target) ==
  IF target \in TerminalStates THEN {"effects", "session"} ELSE {"effects"}

\* Mutant of TransitionAccepted: the row is not read again in the transaction,
\* and the revision row is written with INSERT OR REPLACE.
TransitionBlind(p, k, source, target) == target \in Targets(source)

TransitionAccepted(p, k, source, target) ==
  /\ journal[k].state = source
  /\ target \in Targets(source)
  /\ RevisionFree(p, Written(target))

JournalTransition(p, k, source, target, outcome) ==
  /\ TransitionAccepted(p, k, source, target)
  /\ journal' = [journal EXCEPT ![k] =
                   Entry(p, target,
                         NextAttempt(journal[k].attempt, source, target),
                         journal[k].turn, outcome,
                         IF target \in TerminalStates THEN cache[p]["world"]
                                                      ELSE 0)]
  /\ turnIndex' = IF target \in TerminalStates THEN journal[k].turn
                                               ELSE turnIndex
  /\ Advance(p, Written(target))
  /\ UNCHANGED <<worldFacts, obligations>>

-----------------------------------------------------------------------------
(* r3_effect_journal_commit: facts, session, journal and receipt together. *)

CommitAccepted(p, k) ==
  /\ journal[k].state = "OBSERVED"
  /\ "COMMITTED" \in Targets("OBSERVED")
  /\ Pinned(p, {"world", "session", "effects"})
  /\ RevisionFree(p, {"world", "session", "effects"})

\* Mutant of JournalCommit: the facts are left to a transaction of their own.
CommitWithoutFacts(p, k) ==
  /\ CommitAccepted(p, k)
  /\ journal' = [journal EXCEPT ![k] =
                   Entry(p, "COMMITTED", journal[k].attempt, journal[k].turn,
                         "committed", cache[p]["world"] + 1)]
  /\ turnIndex' = journal[k].turn
  /\ Advance(p, {"world", "session", "effects"})
  /\ UNCHANGED <<worldFacts, obligations>>

\* Mutant of JournalCommit: the receipt names the revision before the commit.
CommitPinUnadvanced(p, k) ==
  /\ CommitAccepted(p, k)
  /\ worldFacts' = worldFacts \cup {k}
  /\ journal' = [journal EXCEPT ![k] =
                   Entry(p, "COMMITTED", journal[k].attempt, journal[k].turn,
                         "committed", cache[p]["world"])]
  /\ turnIndex' = journal[k].turn
  /\ Advance(p, {"world", "session", "effects"})
  /\ UNCHANGED obligations

JournalCommit(p, k) ==
  /\ CommitAccepted(p, k)
  /\ worldFacts' = worldFacts \cup {k}
  /\ journal' = [journal EXCEPT ![k] =
                   Entry(p, "COMMITTED", journal[k].attempt, journal[k].turn,
                         "committed", cache[p]["world"] + 1)]
  /\ turnIndex' = journal[k].turn
  /\ Advance(p, {"world", "session", "effects"})
  /\ UNCHANGED obligations

-----------------------------------------------------------------------------
(* r3_commit_learning_outcome: obligation, session, journal and receipt.   *)

LearningAccepted(p, k) ==
  /\ journal[k].state = "PLANNED"
  /\ RevisionFree(p, {"session", "obligations", "effects"})

\* Mutant of CommitLearningOutcome: persists the outcome, not the obligation.
OutcomeWithoutObligation(p, k) ==
  JournalTransition(p, k, "PLANNED", "NO_EFFECT", "no_effect")

CommitLearningOutcome(p, k) ==
  /\ LearningAccepted(p, k)
  /\ obligations' = obligations \cup {k}
  /\ journal' = [journal EXCEPT ![k] =
                   Entry(p, "NO_EFFECT", journal[k].attempt, journal[k].turn,
                         "no_effect", cache[p]["world"])]
  /\ turnIndex' = journal[k].turn
  /\ Advance(p, {"session", "obligations", "effects"})
  /\ UNCHANGED worldFacts

-----------------------------------------------------------------------------
(* Every step a process may take on the store through its port; commits are *)
(* the only writes of COMMITTED.                                           *)

StoreStep(p) ==
  \/ LoadNext(p)
  \/ Forget(p)
  \/ \E k \in Key :
       \/ \E turn \in Nat : JournalBegin(p, k, turn)
       \/ \E target \in JournalStates \ {"COMMITTED"}, outcome \in Outcomes :
            JournalTransition(p, k, journal[k].state, target, outcome)
       \/ JournalCommit(p, k)
       \/ CommitLearningOutcome(p, k)

StoreNext == \E p \in Process : StoreStep(p)

StoreSpec == StoreInit /\ [][StoreNext]_storeVars

-----------------------------------------------------------------------------
(* What the tables say together, whatever the processes do.                *)

\* The revision rows of counters that stand at m.
RowsUpTo(m) == UNION {{c} \X (1..m[c]) : c \in Counter}

\* The revision rows of each counter are 1..n, and n is its metadata revision:
\* no process overwrites, repeats or skips a revision, although only the begin
\* and the commit recheck the metadata inside their transaction.
RevisionContinuity == revisions = RowsUpTo(meta)

\* No process has a revision in its cache that the store has not reached.
CacheBehind == \A p \in Process, c \in Counter : cache[p][c] <= meta[c]

\* Every journal row is the only one written by its effect revision.
RowsHaveTheirRevision ==
  \A k \in Key : journal[k].state # "ABSENT" =>
    /\ journal[k].rev \in 1..meta["effects"]
    /\ \A j \in Key \ {k} : journal[j].rev # journal[k].rev

\* Facts reach the world exactly with the COMMITTED entry of their effect:
\* no half of the transaction is ever visible, also not after a crash.
WorldMatchesJournal ==
  worldFacts = {k \in Key : journal[k].state = "COMMITTED"}

\* A row that is terminal never changes again.
TerminalRowsStay ==
  [][\A k \in Key : journal[k].state \in TerminalStates
                      => journal'[k] = journal[k]]_storeVars

\* Revisions are compare-and-swap: an open process moves a counter only from
\* the durable revision, by one, and the durable revision with it.
CompareAndSwap ==
  [][\A p \in Process, c \in Counter :
       Open(p) /\ Open(p)' /\ cache'[p][c] # cache[p][c] =>
         /\ cache[p][c] = meta[c]
         /\ cache'[p][c] = meta[c] + 1
         /\ meta'[c] = meta[c] + 1]_storeVars
=============================================================================
