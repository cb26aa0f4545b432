----------------------------- MODULE ExactStore -----------------------------
(***************************************************************************)
(* cemm/store.py: the exact store of CEMM v1, an SQLite file in WAL mode   *)
(* opened by any number of processes (cemm chat, cemm acquire-reviewed,    *)
(* the web demo).  begin ... finish write one generation and its commit    *)
(* receipt; commit_common_ground and journal_effect write the other two    *)
(* revision-counted tables.                                                *)
(*                                                                         *)
(* Python's sqlite3 opens a transaction only at the first INSERT or        *)
(* UPDATE.  What a method reads before that is read in a transaction of    *)
(* its own, and is a step of its own here; from the first write on the     *)
(* connection holds the write lock and a snapshot no one else can move, so *)
(* the rest up to COMMIT is one step, and dying inside it is not to have   *)
(* taken it.                                                               *)
(***************************************************************************)
EXTENDS Integers, Sequences

CONSTANTS
  Process,      \* processes that open the database
  Effect        \* idempotency keys of operation plans

VARIABLES
  rev,          \* revision_state, the singleton row
  log,          \* generations and commit_receipts: log[i] is generation i + 1
  ground,       \* common_ground
  effects       \* effect_journal

exactVars == <<rev, log, ground, effects>>

\* expected_world_revision=None: the caller does not ask for compare-and-swap.
NoPin == -1

Statuses == {"absent", "succeeded", "failed", "declined"}

\* What a generation leaves: who committed it at which stage, the world
\* revision it expected and the one it made, whether it changed the world,
\* and whether it admitted semantic applications and rules.
Receipt == [owner : Process, stage : {13, 17}, expected : Nat \cup {NoPin},
            world : Nat, delta : BOOLEAN, apps : BOOLEAN, rules : BOOLEAN]

ExactTypeOK ==
  /\ rev \in [world : Nat, discourse : Nat, observation : Nat, effect : Nat]
  /\ log \in Seq(Receipt)
  /\ ground \subseteq [owner : Process, act : Nat, revision : Nat]
  /\ effects \in [Effect -> [status : Statuses, revision : Nat]]

ExactInit ==
  /\ rev = [world |-> 0, discourse |-> 0, observation |-> 0, effect |-> 0]
  /\ log = <<>>
  /\ ground = {}
  /\ effects = [e \in Effect |-> [status |-> "absent", revision |-> 0]]

\* Store.generation; generation 1 is the empty store.
Generation == Len(log) + 1

\* The comparison begin makes before the transaction and finish in it.
PinHolds(pin) == pin \in {NoPin, rev.world}

-----------------------------------------------------------------------------
(* The write half of begin, what the caller inserts, and finish.           *)

\* INSERT INTO generations fails if another process has taken the number.
NumberFree(number) == number > Generation

\* Mutant of Rechecked: finish trusts what begin compared.
Unchecked(pin) == TRUE

\* finish compares again, now that nobody else can write.
Rechecked(pin) == PinHolds(pin)

FinishAccepted(pin, number) == NumberFree(number) /\ Rechecked(pin)

\* Mutant of NextWorld: the counter moves whatever was committed.
AlwaysNext(delta) == rev.world + 1

NextWorld(delta) == IF delta THEN rev.world + 1 ELSE rev.world

\* Every caller passes observation_delta=True.
Finish(owner, stage, pin, number, delta, apps, rules) ==
  /\ FinishAccepted(pin, number)
  /\ rev' = [rev EXCEPT !.world = NextWorld(delta), !.observation = @ + 1]
  /\ log' = Append(log, [owner |-> owner, stage |-> stage, expected |-> pin,
                         world |-> NextWorld(delta),
                         delta |-> delta, apps |-> apps, rules |-> rules])
  /\ UNCHANGED <<ground, effects>>

-----------------------------------------------------------------------------
(* commit_common_ground and journal_effect, from their first write on: the *)
(* revision they write was computed from what they read before it.         *)

\* Mutant of CommitCommonGround: the row is ignored, the counter moves.
CountOnly(owner, act, revision) ==
  /\ rev' = [rev EXCEPT !.discourse = revision]
  /\ UNCHANGED <<ground, log, effects>>

CommitCommonGround(owner, act, revision) ==
  /\ ground' = ground \cup {[owner |-> owner, act |-> act,
                             revision |-> revision]}
  /\ rev' = [rev EXCEPT !.discourse = revision]
  /\ UNCHANGED <<log, effects>>

\* Mutant of Replayed: a declined plan is journaled again.
ReplaysSuccess == {"succeeded"}

\* A row with one of these answers the plan; nothing is written.
Replayed == {"succeeded", "declined"}

JournalEffect(e, status, revision) ==
  /\ effects' = [effects EXCEPT ![e] = [status |-> status,
                                        revision |-> revision]]
  /\ rev' = [rev EXCEPT !.effect = revision]
  /\ UNCHANGED <<log, ground>>

-----------------------------------------------------------------------------
(* What the tables say together.                                           *)

\* The world revision generation i + 1 was built on.
Before(i) == IF i = 1 THEN 0 ELSE log[i - 1].world

\* The receipts form one line: each takes up the world revision where the
\* one before it left it, and the revision row stands at its end.  No world or
\* observation revision is lost, repeated or skipped, although every process
\* computes it from a row it has read.
ReceiptsChain ==
  /\ \A i \in DOMAIN log :
       log[i].world = IF log[i].delta THEN Before(i) + 1 ELSE Before(i)
  /\ rev.world = Before(Len(log) + 1)
  /\ rev.observation = Len(log)

\* A commit that pinned the world at its orientation was built on exactly that
\* revision: no other commit, pinned or not, slipped in between.
NoStaleCommit ==
  \A i \in DOMAIN log : log[i].expected \in {NoPin, Before(i)}

\* The discourse revisions that rows of common_ground name, and that of the
\* empty store.
Said == {0} \cup {g.revision : g \in ground}

\* The discourse revisions have no gap: each row follows a row with the
\* revision before its own, and the counter names a row.  Concurrent
\* processes may repeat a revision, and the slower one moves the counter
\* back, but what was said is never left without its predecessor.
DiscourseDense ==
  /\ rev.discourse \in Said
  /\ \A g \in ground : g.revision - 1 \in Said

\* With one runtime on the file the revision names the row: nothing it says
\* repeats a revision, across turns that raise and restarts, although the
\* revision is computed before the transaction opens.
OneRowPerRevision ==
  /\ \A g, h \in ground : g.revision = h.revision => g = h
  /\ \A g \in ground : g.revision <= rev.discourse
=============================================================================
