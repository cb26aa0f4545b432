----------------------------- MODULE SubStores -----------------------------
(***************************************************************************)
(* The sub-stores of persistence.py, and who writes them: dialogue.py's    *)
(* DialogueObligationManager, effects.py's EffectGateway, r3_persistence's *)
(* commit_effect_transaction, and the R3 port, which moves four of the     *)
(* counters with methods of its own.  Several processes may open one       *)
(* semantic.db.                                                            *)
(*                                                                         *)
(* Each sub-store caches its revision when the process opens the database, *)
(* numbers its next write from the cache, and writes in one BEGIN          *)
(* IMMEDIATE transaction (one step here).  What a method reads before its  *)
(* transaction is a step of its own.  A transaction that a primary key     *)
(* refuses is rolled back and changes nothing.                             *)
(***************************************************************************)
EXTENDS Naturals, FiniteSets

CONSTANTS
    Process,
    Generation,     \* authority generations a process may be started with
    Obligation,     \* pending obligations, by content ref; all are learning
                    \* obligations of one session
    Receipt,        \* completion receipts
    EffectKey,      \* idempotency keys of effects.py and of effect transactions
    None,
    MaxCommits,     \* bound: transactions that number a revision
    MaxCrashes      \* bound: processes that die

ASSUME SubStoresAssumption ==
    /\ None \notin Generation \cup Receipt
    /\ MaxCommits \in Nat /\ MaxCrashes \in Nat

Appended == {"sessions", "episodes"}    \* a row's ref is its revision
Upserted == {"models", "focus"}         \* a row is overwritten in place
Revised == {"world", "sessions", "effects", "obligations"}
                                        \* may have rows in table revisions
SubStore == Appended \cup Upserted \cup Revised

VARIABLES
    generation, \* the authority_generation row, None in a fresh database
    meta,       \* the metadata table's revision of each sub-store
    rows,       \* the revisions sessions.create and episodes.append
                \* named rows of their own after
    revisions,  \* the rows of table revisions, by store
    facts,      \* for each effect key, the world revision of its facts or 0
    effects,    \* for each key who wrote its effects row: none, execute or
                \* transaction
    pending,    \* the row of each pending obligation: none, open, resolved
    completed,  \* the completed obligations: pairs of obligation and receipt
    process,    \* each process: down, fresh, opening or up
    started,    \* the generation it was started with
    cache,      \* its cached revision of each sub-store
    memory,     \* its manager's rows: None, "pending" or the receipt
    call,       \* what it is in the middle of
    commits,    \* for MaxCommits
    crashes     \* for MaxCrashes

database == <<generation, meta, rows, revisions, facts, effects, pending, completed>>
local == <<process, started, cache, memory, call>>
vars == <<database, local, commits, crashes>>

Idle == [step |-> "idle", key |-> None, receipt |-> None, of |-> None]
Fresh == [s \in SubStore |-> 0]

SubInit ==
    /\ generation = None
    /\ meta = Fresh
    /\ rows = [s \in Appended |-> {}]
    /\ revisions = [s \in Revised |-> {}]
    /\ facts = [k \in EffectKey |-> 0]
    /\ effects = [k \in EffectKey |-> "none"]
    /\ pending = [o \in Obligation |-> "none"]
    /\ completed = {}
    /\ process = [p \in Process |-> "down"]
    /\ started = [p \in Process |-> None]
    /\ cache = [p \in Process |-> Fresh]
    /\ memory = [p \in Process |-> [o \in Obligation |-> None]]
    /\ call = [p \in Process |-> Idle]
    /\ commits = 0
    /\ crashes = 0

-----------------------------------------------------------------------------
(***************************************************************************)
(* Opening, closing and dying.                                             *)
(***************************************************************************)
\* open_stores: the schema is there, the schema_version row may not be.
Open(p, g) ==
    /\ process[p] = "down"
    /\ IF generation = None
         THEN process' = [process EXCEPT ![p] = "fresh"]
         ELSE /\ generation = g     \* otherwise StoreActivationError
              /\ process' = [process EXCEPT ![p] = "opening"]
    /\ started' = [started EXCEPT ![p] = g]
    /\ UNCHANGED <<database, cache, memory, call, commits, crashes>>

\* Mutant: the loser of the race keeps the rows of the winner.
ActivateTolerant(p) ==
    /\ process[p] = "fresh"
    /\ generation' = IF generation = None THEN started[p] ELSE generation
    /\ process' = [process EXCEPT ![p] = "opening"]
    /\ UNCHANGED <<started, meta, rows, revisions, facts, effects, pending, completed,
                   cache, memory, call, commits, crashes>>

\* _activate on a fresh database: both rows in one transaction.  The primary
\* key refuses a second process, whose open then raises.
Activate(p) ==
    /\ process[p] = "fresh"
    /\ IF generation = None
         THEN /\ generation' = started[p]
              /\ process' = [process EXCEPT ![p] = "opening"]
              /\ UNCHANGED started
         ELSE /\ process' = [process EXCEPT ![p] = "down"]
              /\ started' = [started EXCEPT ![p] = None]
              /\ UNCHANGED generation
    /\ UNCHANGED <<meta, rows, revisions, facts, effects, pending, completed, cache,
                   memory, call, commits, crashes>>

\* The sub-stores load their revisions.  A cache is used by its own
\* sub-store only, so the order of the seven SELECTs makes no difference.
Load(p) ==
    /\ process[p] = "opening"
    /\ process' = [process EXCEPT ![p] = "up"]
    /\ cache' = [cache EXCEPT ![p] = meta]
    /\ UNCHANGED <<database, started, memory, call, commits, crashes>>

\* What a process leaves behind when it goes: nothing but its commits.
Gone(p) ==
    /\ process' = [process EXCEPT ![p] = "down"]
    /\ started' = [started EXCEPT ![p] = None]
    /\ cache' = [cache EXCEPT ![p] = Fresh]
    /\ memory' = [memory EXCEPT ![p] = [o \in Obligation |-> None]]
    /\ call' = [call EXCEPT ![p] = Idle]
    /\ UNCHANGED <<database, commits>>

Close(p) ==
    /\ process[p] = "up" /\ call[p] = Idle
    /\ Gone(p)
    /\ UNCHANGED crashes

Crash(p) ==
    /\ process[p] # "down"
    /\ crashes < MaxCrashes
    /\ crashes' = crashes + 1
    /\ Gone(p)

-----------------------------------------------------------------------------
(***************************************************************************)
(* A transaction that numbers a revision.                                  *)
(***************************************************************************)
Ready(p) == process[p] = "up" /\ call[p] = Idle

NextRevision(p, s) == cache[p][s] + 1

\* _save_revision writes the number the cache gives, and the cache follows.
\* A transaction of the port moves the counters of several stores.
Number(p, S) ==
    /\ commits < MaxCommits
    /\ commits' = commits + 1
    /\ meta' = [s \in SubStore |-> IF s \in S THEN NextRevision(p, s) ELSE meta[s]]
    /\ cache' = [cache EXCEPT ![p] =
                   [s \in SubStore |-> IF s \in S THEN NextRevision(p, s) ELSE @[s]]]

\* sessions.create, episodes.append: the row's ref is made of the revision,
\* and the INSERT is refused when the row is there.
Append(p, s) ==
    /\ Ready(p) /\ s \in Appended
    /\ NextRevision(p, s) \notin rows[s]
    /\ rows' = [rows EXCEPT ![s] = @ \cup {NextRevision(p, s)}]
    /\ Number(p, {s})
    /\ UNCHANGED <<generation, revisions, facts, effects, pending, completed, process,
                   started, memory, call, crashes>>

\* models.register and focus.commit overwrite by ref and number no row.
Upsert(p, s) ==
    /\ Ready(p) /\ s \in Upserted
    /\ Number(p, {s})
    /\ UNCHANGED <<generation, rows, revisions, facts, effects, pending, completed,
                   process, started, memory, call, crashes>>

WithNext(p, S) ==
    [s \in Revised |-> revisions[s] \cup IF s \in S THEN {NextRevision(p, s)} ELSE {}]

\* Mutant: the row of a revision is overwritten.
ReviseAgain(p, S) == revisions' = WithNext(p, S) /\ Number(p, S)

\* INSERT INTO revisions: the primary key is (store, revision), and one
\* refused row rolls the whole transaction back.
Revise(p, S) ==
    /\ \A s \in S : NextRevision(p, s) \notin revisions[s]
    /\ revisions' = WithNext(p, S)
    /\ Number(p, S)

\* world.commit for install_reviewed_world_facts and state transitions.
CommitWorld(p) ==
    /\ Ready(p)
    /\ Revise(p, {"world"})
    /\ UNCHANGED <<generation, rows, facts, effects, pending, completed, process, started,
                   memory, call, crashes>>

\* The R3 port's transactions as far as the sub-stores see them: what they do
\* to the effect journal is EffectGateway's.  The session row they upsert has
\* the host's session ref, and the obligation row a ref no manager has.
PortWrite(p, S) ==
    /\ Ready(p)
    /\ Revise(p, S)
    /\ UNCHANGED <<generation, rows, facts, effects, pending, completed, process, started,
                   memory, call, crashes>>

\* Two of the four compare the metadata with the caches inside the transaction.
Current(p, S) == \A s \in S : meta[s] = cache[p][s]

PortBegin(p) == Current(p, {"effects"}) /\ PortWrite(p, {"effects"})

\* A terminal transition records the turn in the session as well.
PortTransition(p) ==
    PortWrite(p, {"effects"}) \/ PortWrite(p, {"effects", "sessions"})

PortCommit(p) ==
    LET S == {"world", "sessions", "effects"}
    IN  Current(p, S) /\ PortWrite(p, S)

PortLearning(p) == PortWrite(p, {"sessions", "obligations", "effects"})

-----------------------------------------------------------------------------
(***************************************************************************)
(* DialogueObligationManager over obligations.commit and .complete.        *)
(***************************************************************************)
\* add: the memory of this process alone says whether the obligation exists
\* and whether another one is pending; the row is an upsert.
AddObligation(p, o) ==
    /\ Ready(p)
    /\ memory[p][o] = None
    /\ \A other \in Obligation : memory[p][other] # "pending"
    /\ pending' = [pending EXCEPT ![o] = "open"]
    /\ Number(p, {"obligations"})
    /\ memory' = [memory EXCEPT ![p][o] = "pending"]
    /\ UNCHANGED <<generation, rows, revisions, facts, effects, completed, process, started,
                   call, crashes>>

\* fulfill, complete: the row is read before the transaction.
FulfillRead(p, o, c) ==
    /\ Ready(p)
    /\ memory[p][o] = "pending"
    /\ pending[o] = "open"          \* otherwise complete raises
    /\ call' = [call EXCEPT ![p] = [Idle EXCEPT !.step = "fulfill", !.of = o,
                                                !.receipt = c]]
    /\ UNCHANGED <<database, process, started, cache, memory, commits, crashes>>

\* Mutant: the UPDATE does not ask for resolved = 0.
ResolvesAgain(o, c) == <<o, c>> \notin completed

\* UPDATE ... WHERE resolved = 0 must change one row, and the completed
\* record must be new; both are one transaction.
Resolves(o, c) == pending[o] = "open" /\ <<o, c>> \notin completed

FulfillWrite(p) ==
    LET o == call[p].of
        c == call[p].receipt
    IN  /\ call[p].step = "fulfill"
        /\ call' = [call EXCEPT ![p] = Idle]
        /\ \/ /\ Resolves(o, c)
              /\ pending' = [pending EXCEPT ![o] = "resolved"]
              /\ completed' = completed \cup {<<o, c>>}
              /\ Number(p, {"obligations"})
              /\ memory' = [memory EXCEPT ![p][o] = c]
           \/ /\ ~Resolves(o, c)
              /\ UNCHANGED <<pending, completed, meta, cache, memory, commits>>
        /\ UNCHANGED <<generation, rows, revisions, facts, effects, process, started,
                       crashes>>

-----------------------------------------------------------------------------
(***************************************************************************)
(* effects.commit, called by EffectGateway.execute after the adapter has   *)
(* run, and by commit_effect_transaction after world.commit.               *)
(***************************************************************************)
\* execute: begin_once finds no completed effect, and the adapter succeeds.
\* A failed or timed out adapter changes nothing.
Execute(p, k) ==
    /\ Ready(p)
    /\ effects[k] = "none"          \* otherwise the completed receipt is returned
    /\ call' = [call EXCEPT ![p] = [Idle EXCEPT !.step = "commit", !.key = k,
                                                !.of = "execute"]]
    /\ UNCHANGED <<database, process, started, cache, memory, commits, crashes>>

\* Mutant: the effect is written first, the facts would come after.
EffectFirst(p, k) ==
    /\ Ready(p)
    /\ call' = [call EXCEPT ![p] = [Idle EXCEPT !.step = "commit", !.key = k,
                                                !.of = "transaction"]]
    /\ UNCHANGED <<database, process, started, cache, memory, commits, crashes>>

\* commit_effect_transaction: the world facts, in a transaction of their own.
TransactionFacts(p, k) ==
    /\ Ready(p)
    /\ Revise(p, {"world"})
    /\ facts' = [facts EXCEPT ![k] = NextRevision(p, "world")]
    /\ call' = [call EXCEPT ![p] = [Idle EXCEPT !.step = "commit", !.key = k,
                                                !.of = "transaction"]]
    /\ UNCHANGED <<generation, rows, effects, pending, completed, process, started, memory,
                   crashes>>

\* effects.commit looks for the key first: a duplicate returns its receipt.
CommitFound(p) ==
    /\ call[p].step = "commit"
    /\ effects[call[p].key] # "none"
    /\ call' = [call EXCEPT ![p] = Idle]
    /\ UNCHANGED <<database, process, started, cache, memory, commits, crashes>>

CommitAbsent(p) ==
    /\ call[p].step = "commit"
    /\ effects[call[p].key] = "none"
    /\ call' = [call EXCEPT ![p].step = "insert"]
    /\ UNCHANGED <<database, process, started, cache, memory, commits, crashes>>

\* The INSERT; the primary key refuses a key that came meanwhile.
Insertable(k) == effects[k] = "none"

CommitInsert(p) ==
    LET k == call[p].key
    IN  /\ call[p].step = "insert"
        /\ call' = [call EXCEPT ![p] = Idle]
        /\ \/ /\ Insertable(k)
              /\ effects' = [effects EXCEPT ![k] = call[p].of]
              /\ Number(p, {"effects"})
           \/ /\ ~Insertable(k)
              /\ UNCHANGED <<effects, meta, cache, commits>>
        /\ UNCHANGED <<generation, rows, revisions, facts, pending, completed, process,
                       started, memory, crashes>>

SubNext ==
    \E p \in Process :
        \/ \E g \in Generation : Open(p, g)
        \/ Activate(p) \/ Load(p) \/ Close(p) \/ Crash(p)
        \/ \E s \in Appended : Append(p, s)
        \/ \E s \in Upserted : Upsert(p, s)
        \/ CommitWorld(p)
        \/ PortBegin(p) \/ PortTransition(p) \/ PortCommit(p) \/ PortLearning(p)
        \/ \E o \in Obligation : AddObligation(p, o)
        \/ \E o \in Obligation, c \in Receipt : FulfillRead(p, o, c)
        \/ FulfillWrite(p)
        \/ \E k \in EffectKey : Execute(p, k) \/ TransactionFacts(p, k)
        \/ CommitFound(p) \/ CommitAbsent(p) \/ CommitInsert(p)

SubSpec == SubInit /\ [][SubNext]_vars

-----------------------------------------------------------------------------
(***************************************************************************)
(* What must hold.                                                         *)
(***************************************************************************)
Calls ==
    {Idle}
    \cup [step : {"fulfill"}, key : {None}, receipt : Receipt, of : Obligation]
    \cup [step : {"commit", "insert"}, key : EffectKey, receipt : {None},
          of : {"execute", "transaction"}]

\* The values the tables and a process's memory take; a process that has not
\* opened the database has read nothing of it and is in the middle of nothing.
SubTypeOK ==
    /\ generation \in Generation \cup {None}
    /\ meta \in [SubStore -> Nat]
    /\ rows \in [Appended -> SUBSET Nat]
    /\ revisions \in [Revised -> SUBSET Nat]
    /\ facts \in [EffectKey -> Nat]
    /\ effects \in [EffectKey -> {"none", "execute", "transaction"}]
    /\ pending \in [Obligation -> {"none", "open", "resolved"}]
    /\ completed \subseteq Obligation \X Receipt
    /\ process \in [Process -> {"down", "fresh", "opening", "up"}]
    /\ started \in [Process -> Generation \cup {None}]
    /\ cache \in [Process -> [SubStore -> Nat]]
    /\ memory \in [Process -> [Obligation -> Receipt \cup {None, "pending"}]]
    /\ call \in [Process -> Calls]
    /\ commits \in Nat /\ crashes \in Nat
    /\ \A p \in Process :
         /\ process[p] = "down" <=> started[p] = None
         /\ process[p] # "up" =>
              /\ call[p] = Idle /\ cache[p] = Fresh
              /\ memory[p] = [o \in Obligation |-> None]

\* The world's revisions and the episodes are 1..n for the n the metadata
\* names, whatever stale caches wrote: the metadata row alone is an upsert
\* that would let a stale process move it back.  It does for sessions, effects
\* and obligations, whose counters have writers that number no row.
Dense ==
    /\ revisions["world"] = 1..meta["world"]
    /\ rows["episodes"] = 1..meta["episodes"]
    /\ \A p \in Process, s \in {"world", "episodes"} : cache[p][s] <= meta[s]

\* Whoever has opened the database was started with the generation it is of,
\* although two processes may both find it fresh.
GenerationsMatch ==
    \A p \in Process :
        process[p] \in {"opening", "up"} => generation = started[p]

\* "Atomically resolve one pending row and persist its completed record"
\* (complete): a completed record appears only by resolving a row that is
\* open in that very step, though the row was read before the transaction.
CompletionConsumes ==
    [][\A oc \in completed' \ completed :
         /\ pending[oc[1]] = "open"
         /\ pending'[oc[1]] = "resolved"]_vars

\* commit_effect_transaction may leave world facts no effect owns when it
\* dies in the middle, but never an effect without its facts.
EffectHasItsFacts ==
    \A k \in EffectKey : effects[k] = "transaction" => facts[k] \in revisions["world"]

=============================================================================
