# A verification development for CEMM

TLA+ modules, TLC configurations and TLAPS proofs for the programs of this
repository: **CEMM v1** (`cemm/`, the program the root README describes), the
**authoritative hybrid** (`hybrid_mvp/src/cemm_authoritative_hybrid/`, "R3"
below), and the two tools around the hybrid that keep state of their own, the
**accountable review** (`hybrid_mvp/scripts/`) and the **process control** of
its validation. The language processing is a long pipeline of pure steps over
large data; what these modules are about is what the programs then do with
databases, files, processes and adapters, when several of them, crashes and
retries meet.

Contents: [inventory](#inventory) · [modules](#modules-and-the-code-they-model)
· [runs](#what-tlc-checks) · [fairness](#fairness) ·
[proofs](#what-is-proved) · [disagreements](#where-code-and-documents-disagree)
· [limits](#what-is-not-modelled) · [plan](#plan)

## Inventory

### The R3 store (`persistence.py`, `r3_persistence.py`)

*State.* SQLite tables: `revisions` (one row per sub-store and revision,
primary key), `metadata` (the current revision of each sub-store), facts,
session rows, effect journal, receipts, obligations, focus, episodes, model
bindings; and per process an in-memory copy of each sub-store's revision,
loaded by separate SELECTs at open.
*Operations.* Through the R3 port: journal get, begin, transition, commit, and
the learning outcome. Below it: open and activation, close, and each
sub-store's own commit, create, append, register and complete; and
`commit_effect_transaction` and `install_reviewed_world_facts`, which combine
them.
*Interaction.* The effect gateway uses the port, the dialogue obligation
manager and the legacy effect gateway the sub-stores; the port numbers the
revisions of world, sessions, effects and obligations as well, with rows the
sub-stores' own methods do not write. Any number of processes may have the file
open.
*Hard.* A process's cached revisions go stale when another one commits; two of
the four journal transactions compare only against the cache; rows are read
before BEGIN IMMEDIATE; several tables must change together or not at all; two
processes may activate one fresh database.
*Correct when* revisions are contiguous and moved only by compare-and-swap (those
of the world by every writer, the others by the port),
terminal journal rows never change, facts, obligations and receipts are visible
exactly with the journal entry that made them, an obligation is completed by
consuming an open row, and whoever has opened the database is of its generation.

### The R3 effect gateway (`r3_effects.py`)

*State.* None of its own: the journal row of the effect key, and the adapter
registry of its process.
*Operations.* `execute(evaluation, ...)`, in four forms (no effect, learning,
trusted admission, external effect), each a sequence of store transactions and
adapter calls, any of which may be the last before the process dies.
*Hard.* Crash between "invocation started" and the adapter's answer; timeouts
racing a late success; two processes with one key; a restart whose registry
lacks the adapter.
*Correct when* an external operation is invoked at most once, the journal tells
what happened outside, and no two callers are told different conclusions.

### The R3 kernel and turns (`r3_kernel.py`, `runtime.py`, `r3_cycle.py`, `situation.py`)

*State.* The session's turn index; of a turn, its revision pin, its number, its
obligation snapshot and its evaluation.
*Operations.* `orient_turn`, `process_evidence`: ORIENT, PROPOSE, VERIFY,
EVALUATE, EFFECT, REALIZE.
*Interaction.* Reads the store, calls the gateway.
*Hard.* A turn is numbered, oriented and evaluated from separate reads, and
written long after; whatever other processes conclude in between must make it
fail or leave it right. A turn that fails leaves its journal row behind.
*Correct when* the turns that conclude are serializable and numbered 1..n.

### R3 learning and dialogue, the legacy effect gateway (`r3_learning.py`, `dialogue.py`, `effects.py`)

*State.* Per process the manager's copy of the obligation rows; the `effects`
table. *Operations.* `add`, `fulfill`; `begin_once`, `finish_and_commit`.
*Hard.* `complete` reads before its transaction; a key may be committed by
another process between the read and the insert. *Correct when* no completion
is without its obligation, and no effect without its facts. Building a lesson's
materials is pure.

### The accountable review (`build_r4_1_review_selection.py`, `r4_1_review_session.py`, `r4_1_guided_review.py`, `build_r4_1_review_worksheets.py`, `serve_r4_1_review.py`, `r4_1_review_ui/app.js`)

*State.* The selection: structural, membership, group, holdout, denominator,
recipe and designation decisions. The working file, the action journal, the
export; per server the loaded state and one pending preview; per tab a dialog.
*Operations.* Preview, apply, set reviewers, export; the guided flow's next
item.
*Interaction.* Tabs call a server over HTTP; servers share files.
*Hard.* Decisions are reversed in any order and make others inapplicable, which
feed others again. Two tabs, or two servers, act on what they saw earlier; files
are replaced after comparisons that are not part of the replacement.
*Correct when* nothing stale stays in a selection, no offered action raises, an
export is complete, what a user confirmed is what is written, and acknowledged
decisions survive.

### Process control (`process_control.py`)

*State.* A child process and its group, two pipes, two drain threads, a shared
budget. *Operations.* `capture_bounded_process`, `terminate_process_tree`.
*Hard.* The tree forks while it is killed, zombies count as members, a
descendant leaves the group or inherits a pipe; threads hold bytes when the
group dies; budgets are shared. *Correct when* a result is whole, nothing of
the group survives an outcome that does not say so, and the call returns.

### The v1 exact store (`cemm/store.py`, `cemm/constants.py`)

*State.* `generations` and `commit_receipts`, the one-row `revision_state`
(world, discourse, observation, effect), `common_ground`, `effect_journal`; and
the semantic tables (applications, claims, state timeline, designation index,
rules). *Operations.* `begin` ... `finish`; `commit_common_ground`;
`journal_effect`; imports and publications built from the first two.
*Interaction.* The CLI (`cemm chat`, `process`, `acquire-reviewed`, `reload`)
and the web demo open the same file; WAL mode, so readers never block.
*Hard.* Python's `sqlite3` opens a transaction at the first INSERT or UPDATE:
what a method reads before that is read outside it.
*Correct when* each generation takes up the revisions where the one before left
them, and no pinned commit is built on another world than the pinned one.

### The v1 cycle and dialogue state (`cemm/runtime.py`, `dialogue.py`, `learning_plans.py`, `goals.py`, `acquisition.py`, `rules.py`, `web_demo.py`)

*State.* Per process: the turn counter, the authority generation the runtime is
bound to, one pending learning obligation, the verified foci. *Operations.* A
cycle of stages 0-22 for a claim, a query, a directive, a reviewed teaching;
reviewed acquisition; reload. *Hard.* Dialogue state must die with the
authority that licensed it; the obligation must survive until the answer is
durable; a cycle has up to four separate commits and an adapter call.
*Correct when* pending plan and focus are always of the bound generation, a
durable answer always finds its obligation, and a runtime sees the applications
it has admitted.

### The rest

v1 forms, composition, atomic graph, reference resolution, retrieval, settler,
realizer, codec, trainer; R3 proposal, verification, compilation, decision and
query; the R4 pipelines: no state of their own, and scoring or building over
large data. The validation gate runs commands through process control; the
replay status script rewrites one file. `archive/` and `reference/` are earlier
versions. Not modelled.

## Modules and the code they model

    EffectJournal --> SemanticStore --> EffectGateway --> Turn
                           |                 |              |  refines SessionPromise
                           |                 |  refines EffectPromise
                  SemanticStoreProofs --> EffectGatewayProofs --> TurnProofs

    SubStores --> SubStoresProofs              (the store below the R3 port)
    ReviewSelection --> ReviewSelectionProofs  (what a review decides)
    ReviewServer --> ReviewServerProofs        (servers, tabs and files)
    ProcessControl --> ProcessControlProofs
    ExactStore --> CycleRuntime --> CycleRuntimeProofs   (v1)

The `MC...` modules only add symmetry sets, and `MCEffectGateway` the bound
`TwoEffects`.

| module | models | correspondence |
|---|---|---|
| `EffectJournal` | `EffectJournalState`, `_ALLOWED_TRANSITIONS` | states, the transition table, when an attempt is counted |
| `SemanticStore` | `SemanticStores` journal transactions, open, close | `meta`, `revisions`, `journal`, `turnIndex`, facts and obligations are the tables; `cache` and `loaded` are a process's memory. `Load` reads one sub-store revision at a time. One action per transaction, guarded by the comparisons of that transaction and no others |
| `EffectGateway` | `R3EffectGateway.execute` | `pc`, `key`, `held` are a call in progress; every store transaction and every adapter call is a step; `external` is the operation outside; `Crash`, `Raise` end a call anywhere |
| `EffectPromise` | nothing: it is the abstract specification | an effect is open until settled once; its licence precedes the one touch of the outside; facts are those of committed effects |
| `Turn` | `HybridRuntime.process_evidence`, `orient_turn`, `R3Kernel.run` | `draft` is the situation a turn was oriented in: pin and number at `ReserveTurn`, obligations at `SnapshotObligations`, facts at `Evaluate`, each a read of its own. `SnapshotRefused` is the snapshot that raises. A decision binds the situation and its key hashes the decision, so `material` gives each key one situation; `RunTurn` replaces the gateway's `Execute` |
| `SessionPromise` | nothing: it is the abstract specification | a session is one sequence of concluded turns; a turn, from its reads to its receipt, is one step on what the turns before it left |
| `SubStores` | the sub-stores' commits, activation, `DialogueObligationManager`, `EffectGateway` of `effects.py`, `commit_effect_transaction`, and the R3 port's four transactions as the other writers of the same counters | one step per transaction, one per read before it (`FulfillRead`, `CommitFound`). A transaction that a primary key refuses changes nothing. `revisions` are the rows of that table, which `world.commit` and the port insert (`Revise`); `rows` are the sessions and episodes whose ref is made of their revision; everything else overwrites and only counts. `PortBegin`, `PortTransition`, `PortCommit` and `PortLearning` say which counters a transaction of the port moves together; what it does to the journal is `SemanticStore`'s |
| `ReviewSelection` | `evaluate_selection`, the four kinds of action of `ReviewSession.preview`, `_clear_stale_refs`, the guided items | one variable, the selection; a step is one action previewed and applied: a candidate, evaluated, cleared. `Stale`, `Crosses`, `Decided` are the evaluation's three verdicts, the `Guided...` operators the guided flow's own notion of unresolved |
| `ReviewServer` | `ReviewSession` commit and export, `_atomic_replace_regular`, `_append_journal`, `do_POST`, the dialog of `app.js` | `Check`, `Recheck`, `Replace`, `Verify` are the comparisons around `os.replace`, `JournalRead`, `JournalCompare`, `JournalAppend` those of the journal; `confirm` is what a tab's dialog shows, `preview` what its server would apply |
| `ProcessControl` | `capture_bounded_process`, `_drain_pipe`, `_PosixGuard` | `main` is the watching thread's place, `reader` and `chunk` a drain thread's; `proc`, `group`, `holds` and `pipe` the process tree and the kernel. A byte is a unit |
| `ExactStore` | `Store.begin`, `finish`, `commit_common_ground`, `journal_effect` | `rev` is `revision_state`, `log[i]` generation `i + 1` with its receipt. Reads before the implicit BEGIN are steps of their own; from the first write to COMMIT is one step |
| `CycleRuntime` | `Runtime.process`, `reload_authority`, `DialogueState`, `acquire_reviewed`, `RuleLearner.teach` | `pc` is the next durable step of a cycle; `gen`, `pending`, `focus`, `turn` are a process's memory; `tx` the generation being written |

What a call is about is reduced to what its control depends on. In
`EffectGateway` an effect key is a model value and the *set* it belongs to is
the kind of decision. In `Turn` a situation reaches its key, and a new situation
any unused key. In `ReviewSelection` rows and their options are kept exactly,
what a recipe contains is not. In `ReviewServer` a working state is the set of
decisions taken, since what an action clears is `ReviewSelection`'s. In
`CycleRuntime` a cycle has a kind, and a commit is known by whether it changes
the world (`delta`), whether it admits semantic applications (`apps`) and whether
it admits rules (`rules`): only pinned commits with applications rebind the
runtime (`Rebinds`), and a publication may admit both without any rebind.

`Turn` composes the whole R3 side: every step but the lookup of the key is a
step of `EffectGateway` over `SemanticStore`, so a turn is interrupted wherever
a call or a transaction of another process may come between. `ReviewSelection`
and `ReviewServer` divide one component: a server commits a previewed state only
if nothing was applied since (`Fresh`), which is why one action at a time is
enough for the selection.

History variables (`invoked`, `told`, `crashes`, `executed`, `writer`,
`acknowledged`, `gaps`, `overlapped`) record what the properties speak of and
guard nothing but the named bounds.

## What TLC checks

| run | instance | shows |
|---|---|---|
| `gateway_external` | 2 processes, 1 external effect, 2 crashes, 3 attempts | `AtMostOneInvocation`, `JournalTellsTheTruth`, `AnswersAgree`, the refinement `PromiseKept` |
| `gateway_mixed` | 2 processes, any two of two trusted admissions, a learning decision and a read (`TwoEffects`), 1 crash: each pair of the store's transactions runs from independently stale caches | `WorldMatchesJournal`, `CommittedPinsExact`, `CompareAndSwap` |
| `turns` | 2 processes, an external and two learning keys, 1 input, 1 crash, snapshots of at most one obligation | `TurnsSerial` (each decided on exactly what the turns before it left), `RowsMoveWithTheirCall`, `FullSessionStands` (a session with more lessons open than a snapshot holds concludes nothing more, not even a turn oriented before), the refinement `SessionKept` |
| `sub_stores` | 2 processes, 2 generations, an obligation with two receipts, one effect key, 4 commits (the port's included), 1 crash; processes and generations symmetric | `Dense` (the world's revisions and the episodes have no gap and never go back, whichever writers meet), `GenerationsMatch` (activation has one winner), `EffectHasItsFacts`, `CompletionConsumes` |
| `review_selection` | 2 conditional cases, a diagnostic, a candidate, 2 purposes, one group, holdout and cohort, two families | `NothingStale`, `NoDecisionRefused`, `RecipesOwnTheirPartition`, `ExportMeansDecided` |
| `review_server` | 2 servers with a tab each, 2 decisions, at most 2 files, 1 crash | `AcknowledgedSurvives`, `JournalKeeps`, `ConfirmedIsCommitted`, `ExportFinal` |
| `capture` | a leader and a descendant, budgets 2, 1 and 2 together, pipes of 2, at most 2 written | `ResultIsWhole`, `NoSurvivor`, `OnlyEscapedHold` (after the kill only a process outside the group can keep a pipe from being closed), and `ReturnsUnlessEscaped` under fairness |
| `cycle_two_runtimes` | 2 runtimes, one cycle each, reviewed maintenance | `ReceiptsChain`, `NoStaleCommit`, `OwnApplicationsVisible` (between cycles a runtime is bound to every generation in which its own commits admitted applications), `DiscourseDense` (no gap in what was said), `OwnCommitsInFocus` (what a focus lacks under its label, others committed) |
| `cycle_one_runtime` | 1 runtime, 3 turns, maintenance, 1 crash | `DialogueMatchesAuthority`, `ObligationOutlivesCommit`, `JournaledWasExecuted` (no recorded outcome without an execution), `ConclusionsFinal` (a concluded row is never rewritten) |
| `guided_applicability`, `capture_hangs`, `cycle_new_authority` | small | the three [disagreements](#where-code-and-documents-disagree) that a run shows |

Each component has one type invariant. `TypeOK` is checked in
`gateway_external` and `ControlTypeOK`, which also holds the output budgets, in
`capture`; `CycleTypeOK`, `SubTypeOK`, `SelectionTypeOK`, `ServerTypeOK` and
`TurnTypeOK` are proved below and cost no run. So are the invariants that others imply
or that follow step by step from one transaction: `InvocationLicence`,
`TerminalRowsStay`, `TurnsConcludeInOrder` (contained in `SessionKept`),
`ObligationsBounded` (contained in `FullSessionStands`: a conclusion adds at most
one lesson), and `OneRowPerRevision`.

The bounds, and why they suffice:

* `MaxAttempts`: attempts at an effect, and exceptions of its adapter, continue
  up to it; from then on a caller retries only a concluded operation and the
  adapter answers. Three lets an attempt fail, be reconciled as pending, and be
  concluded by a third. Turns need one: what they add to the gateway is the
  order of turns, and a second turn comes as a new key.
* `TwoEffects` (a `CONSTRAINT` of `gateway_mixed`): two processes are in the
  middle of at most two calls, so two effects let every pair of transactions meet
  with every pair of stale caches, and a second commit follow a first. Longer
  sequences repeat this from a larger revision; the theorems are for all of them.
* `MaxCrashes`: two let both processes die, or one twice, once before and once
  after the invocation. The other components read nothing back after a crash
  that a second crash could interrupt, so they have one.
* `MaxAlternatives`: the code allows sixteen open obligations in a snapshot.
  With one, two learning turns, oriented one after the other, fill the session,
  and a third turn may have been oriented before it was full or be refused its
  snapshot. The proofs are for every bound.
* `MaxTurns`, `ExpiryTurns`: with an expiry of one turn, three turns open an
  obligation, answer it or let it live, and let it expire. To keep the state
  space small a crash costs two turns of the bound. The code's expiry is four
  turns; only its comparison with the counter matters.
* `MaxCommits`: in `CycleRuntime`, generations after which nobody starts another
  maintenance: one is enough to slip between the pin and the commit of any
  cycle. In `SubStores`, transactions that number a revision, of all sub-stores
  together: four let one process commit facts and their effect while the other
  opens an obligation and resolves it, or both write one sub-store twice.
* `MaxFiles`: contents the working file takes. Two decisions applied by two
  servers are two replacements, which is what a lost update takes.
* `PipeCapacity`, `MaxWritten`, and the budgets: a stream can be within its own
  budget and over the shared one, exactly at a budget, and hold bytes in the
  pipe and in a reader's hands at once. A byte stands for a block: the code only
  compares sums.
* Sets: two cases of one group and a candidate that shares a recipe with one of
  them let a recipe be crossed by a decision about another case, which takes
  exactly two; two tokens of everything else give a first and a second.

Two processes are enough for every race found in the code: each is one reader
whose read goes stale and one writer. `SYMMETRY` appears only in runs that check
no liveness, and permutes the admissions only because no idle process holds one
(`IdleKeyIsNoAdmission`). Deadlock is checked in the gateway, turn and selection runs. The
other systems really may stop, or are stopped by a named bound: a bounded number
of v1 turns, files or commits ends, and a captured command has returned.

## Fairness

Only the two runs of process control, `capture` and `capture_hangs`, state
fairness (`ControlSpec`): the watching thread and the two draining threads are
scheduled, time passes, and the kernel delivers a kill that was sent (weak
fairness of each). Nothing is assumed of what the command does: it need not
write, close, end or stay in its group.

The gateway has no liveness property. That an operation the outside world has
concluded settles in the journal needs a caller that executes the same effect
again, and the R3 runtime has none: every turn makes a new effect key, so nobody
comes back for an entry that a failed turn left open (`RowsMoveWithTheirCall` is
the other side of this). Fairness that supplied such a caller would assume the
hazard away. What is claimed is safety: whoever does come back finds an entry
that is true (`JournalTellsTheTruth`) and gets the one conclusion
(`AnswersAgree`, `PromiseKept`).

## What is proved

TLAPS proves the following for every number of processes, keys, turns, cases,
servers, tabs, commits and crashes, and every size of budget. Assumptions, one
per component, each evaluated by TLC on every run: `KeyAssumption` (the kinds of
keys are disjoint and cover `Key`), `BoundAssumption`, `TurnAssumption`,
`CycleAssumption`, `SubStoresAssumption`, `ReviewAssumption` (what the
worksheets guarantee of cases, groups and families), `ServerAssumption`,
`ControlAssumption` (finite sets, bounds that are naturals, names that are
different).

**Store** (`SemanticStoreProofs`). `StoreInv` is inductive: types, caches never
ahead of the database, `RevisionContinuity`, `RowsHaveTheirRevision`,
`WorldMatchesJournal`. The point of the argument is `FreshWriter`: `transition`
and the learning outcome compare the pin with the cache only, but a stale cache
makes the INSERT of the next revision collide with an existing primary key, so
whoever writes was fresh (`RevisionsAreCompareAndSwap`).
`TerminalRowsNeverChange` follows row by row from the transition table.

**Gateway** (`EffectGatewayProofs`). The invariants are proved of `AnyCaller`,
which starts a call for any key, with any turn number, whenever a process is
idle, and of which the gateway's own `Spec` is one case (`CallersOfNext`): what
the gateway guarantees does not rest on who calls it. `GatewayUsesStore` shows that every step of
a call is a store transaction or leaves the store alone, so the store's theorems
carry over. `AtMostOnce` rests on `LicenceInv`: the first attempt is counted
with the write of INVOCATION_STARTED, that write needs AUTHORIZED, nothing goes
back there, so one process per key ever reaches `invoke`; `LicenceIsUnique` says
that of the processes. `JournalTruthful` needs in addition that an answer a call
still holds is true of the outside (`AnswersTrue`; concluded operations do not
change). `AnswersAlwaysAgree` needs that a terminal row a call holds is the
journal's. `PinsAreExact` counts: the world revision is the number of committed
entries, so a receipt written down before its transaction names the revision
that transaction made. That an obligation is stored
exactly with its entry follows from the learning transaction alone and is an
auxiliary invariant (`AnyObligations`) for the turns. `GatewayKeepsPromise` is the refinement: `PromiseInit`, and
every step is a promised step or a stutter.

**Turns** (`TurnProofs`). `TurnInv` is inductive: the turns concluded are
numbered as the session counts them; a row belongs to the situation its key
hashes; a call in progress is pinned to the situation its process drafted
(`CallsPinned`) and is the call that began its row (`WritersCall`); and a
process that could still conclude holds a view of obligations and facts that is
the store's as long as its pin is (`ViewsCurrent`). The crux is `MoverIsWriter`:
a row is younger than the pin of its situation (`RowsOfSituations`), a call of
any other process is still at the effect revision of that pin (`CallsPinned`),
and a write from an old revision is refused. So only the call that began a row
can move it, and only while nothing was concluded in between: `TurnsSerial` and `TurnsConcludeInOrder` follow, although
the turn number and pin, the obligations and the facts are read at different
times and nobody holds a lock across a turn.

`TurnsUseGateway` shows that turns are a caller, although they choose their keys
by situation and abandon calls: so the gateway's guarantees hold of the whole R3
side (`TurnsKeepPromise`, `TurnsInvokeOnce`, `TurnsAreTold`,
`TurnsStoreConsistent`, `TurnsStoreSteps`). `SessionsAreSequential` is the
refinement of `SessionPromise`: the abstract session is the sequence of
concluded decisions by turn number, and it is well defined because that number
is a numbering (`Numbering`, from `TurnsConcludeInOrder`); the step that
concludes a turn appends it, with `TurnsSerial` before and after giving what it
was made on, and every other step stutters. `LimitInv` says that a view a turn
can still conclude with was bounded when it was taken (`ViewsBounded`); with
`ViewsCurrent` the session itself was within the bound at the conclusion, so
turns oriented side by side never add up their lessons (`ObligationsNeverAddUp`)
and a full session stands (`FullSessionsStand`). That it then stands for good,
because nothing resolves an obligation of the R3 store, is the hazard at
`persistence.py:1557`.

**Sub-stores** (`SubStoresProofs`). `SubStoresInvariant` is inductive: types,
`Dense`, `GenerationsMatch`, and facts before their effect. `Dense` is about
world and episodes, the two whose writers, the port's among them, all insert a
row under the number they take: a stale writer then inserts a row that exists.
For sessions, effects and obligations it is false (below).
Activation has one winner for the reason writers are fresh: a second one inserts
a row that exists. `CompletionsConsume` follows from the conditional UPDATE alone:
the read before it is not used.

**Review selection** (`ReviewSelectionProofs`). `Good` is inductive: types, no
stale reference, every decided recipe owning its partition. That nothing stale
survives *one* pass of clearing is the result worth having, because purposes
decide which recipes are stale and clearing changes purpose rows: the proof
shows that it changes no case's purpose (`ClearPurposes`), since a row is stale
only when its case has none. From it the evaluation never refuses an offered
action, and the guided flow's own notion of unresolved misses nothing that the
export asks for.

**Review servers** (`ReviewServerProofs`). Applying a request only adds to what
its server loaded (`RequestsAdd`), a tab's dialog shows the preview its server
would apply or the server refuses it (`ShownIsUnderWay`): hence
`ConfirmationsAreCommitted`. `FileGrows` and `FileAccounted` give
`AcknowledgementsSurvive`, and `JournalKnown` gives `JournalKeepsUp`; both are
about what happens *outside* the window between the last comparison and
`os.replace`, and the history variable `overlapped` records that the window was
used, because inside it the code does lose updates (below).

**Process control** (`ProcessControlProofs`). `Torn` says what the guard knows:
a process of the group was forked there, and a confirmed group is empty and
stays so; so `NothingSurvives`. `Whole` accounts for every byte: what the tree
wrote is in the pipe, in a reader's hands, or retained (`Accounted`), and a
reader that ended saw the end of its pipe; so a result has it all
(`ResultsAreWhole`) although the leader's exit, the deadline, the budgets and
the two readers race. `OnlyEscapesBlock` is the safety half of termination: what
a kill leaves holding a pipe inside the group is dying, also what was forked
between two kills, so that whatever still blocks `pipe.close()` has escaped.

**v1** (`CycleRuntimeProofs`). `CycleTypeCorrect`; `ReceiptsFormALine` and
`PinnedCommitsAreExact` from `Chain`, which needs only that `finish` compares
again inside the transaction and that the generation number is a primary key:
the comparison in `begin` is not used. `SessionsConsistent` is the per-process
invariant `Session`: to know that a learning answer still finds its obligation
one must know which stages such a cycle can be in (`Shaped`), and to know that
admitted applications are visible one must allow for the moment between the
commit and the reload (`Bound`). From it `DialogueIsOfAuthority`,
`AnswersFindTheirObligation`, `AdmittedApplicationsAreVisible`; the last is not
about promoted rules, nor about publications, which rebind nobody (below).

What is true of the journal, the common ground and the foci, which the code
writes from earlier reads, takes an invariant each. `JournalIsWitnessed`: a
cycle that has a result to record executed its effect (`Witnessed`).
`CommonGroundHasNoGaps`: what a cycle read of the discourse revision is a
revision that some row names (`GroundInv`), and that stays so, because rows are
never removed even when a slow writer moves the counter back.
`FocusLacksOnlyOthers` (`FocusInv`): between its facts (Stage 10) and its label
(Stage 20) a query writes only learning frontiers, which change no world, so
every generation between the two has another owner. Two
theorems are of one process on the file, and say so in their hypothesis:
`LoneRuntimeNumbersRows` and `LoneRuntimeConcludesOnce` (`AloneInv`: what a
cycle read before its write is still what is there). With two processes both are
false, which is what the hazards at `store.py:1210` and `store.py:1234` are
about: two rows may share a revision, and a concluded row may be overwritten.

*Only model-checked:* the liveness property `ReturnsUnlessEscaped`, which is out
of the prover's reach, and of course the three violations.

## Where code and documents disagree

Shown by a run:

* `guided_applicability`: the guided design omits inapplicable decisions; the
  purpose branch of `_is_unresolved` (`r4_1_guided_review.py:537`) does not, so
  after a structural decision the flow offers rows that preview refuses, and
  never reaches the export.
* `capture_hangs`: "hard input, output and time bounds"
  (`process_control.py:431`), but a descendant that left the group and keeps a
  pipe open blocks `pipe.close()` for as long as it lives. Executing the code
  confirms it: with a bound of two seconds and such a descendant sleeping
  twelve, the call returned TIMEOUT after twelve.
* `cycle_new_authority`: "After a successful semantic commit, the next cycle must
  bind the new authority generation"
  (`CEMM_RUNTIME_IMPLEMENTATION_CONTRACT.md:618`). The runtime reloads only when
  the commit has applications (`runtime.py:1168-1179`). A rule promoted by
  reviewed teaching (`runtime.py:706`, `rules.py:46-73`) is authority of a newer
  generation that the next query's retriever filters out
  (`retrieval.py:304-310`); the run needs two cycles of one runtime.

Found while modelling, and read in the code; no run is kept for them.

*R3 store and gateway*

* A started invocation can be settled as failed by a process without the
  adapter, with no reconciliation (`r3_effects.py:1292-1312` against
  `r3_persistence.py:7-9`).
* Nobody reconstructs pending effects: every turn makes a new key, so the entry
  of a failed turn is never asked for again.
* `config.py:51` sets `max_learning_obligations`, and nothing reads it
  (`hybrid_mvp/README.md:107` promises one pending obligation).
* `commit_effect_transaction` says it commits facts and effect "in one
  transaction"; there are two. A crash between them leaves facts without their
  effect, and the world advances even without facts.
* `effects.py:3-5` promises idempotent receipts; when another process committed
  the key first, `finish_and_commit` returns the receipt it made itself, and a
  crash between its invocation and its commit lets the key be invoked again.
* `persistence.py:7-8` lists revision continuity and unresolved effects among
  the checks at startup; `_activate` does neither. When an insert of it fails it
  leaves its BEGIN IMMEDIATE open.
* The revisions of effects, models, focus and obligations are written by the
  sub-stores without a row of their own: with two processes they can repeat or go
  back. Where the R3 port is used on the same file, the counters of sessions,
  effects and obligations have two kinds of writers: `sessions.create`
  (`persistence.py:552-570`) counts without a row in `revisions`, the port
  (316-336) inserts that row without a session named by the revision. Neither
  refuses the other, so rows have gaps and a stale process can move the counter
  back. `SubStores` has both kinds, and claims nothing of those three counters.
* The upsert of `obligations.commit` can reopen a resolved row after a restart,
  and "only one learning obligation may be pending" is checked in memory only.

*v1*

* Stage 21's compare-and-swap compares before its transaction
  (`store.py:1208-1221` against `runtime-core-loop.md:235` and
  `V1_ACCEPTANCE.md:100`): with two processes a discourse revision can be given
  twice and the counter can move back, though never over a gap
  (`DiscourseDense`).
* The journal's row for a key is likewise chosen before its transaction
  (`store.py:1228-1234`), so one process can overwrite what another concluded;
  one process alone does not (`ConclusionsFinal`).
* `publish_definition_graph` and imports admit applications and rules
  (`store.py:941-975`) and rebind no runtime that has the file open.
* A focus is labelled with a world revision read after its facts, so it can pass
  for fresh (`runtime.py:1397-1424` against `ARCHITECTURE.md:280`).
* The idempotency key gates the journal row and not the adapter
  (`runtime.py:1284` against `CEMM_RUNTIME_IMPLEMENTATION_CONTRACT.md:456`).

*Review*

* "Last-write-wins behavior is forbidden" (the review UI design, section 7), but
  between the last comparison and `os.replace` two servers can both write and
  the later one wins.
* An error after `os.replace` (fsync of the directory, verification) leaves the
  file new and the server's memory old; a failed journal append is never
  retried; the action sequence starts again at 0 when a file is reopened; a
  crash in the middle of an export leaves a partial file that blocks every later
  export.
* The guided flow has no item that repairs a generator that no longer matches
  its branch.

*Process control*

* `validation_gate.py:1283` confirms "no descendant survives"; a descendant that
  left the group does.

## What is not modelled

* Loss of the last commits at a power failure (both databases run WAL with
  `synchronous=NORMAL`): a crash here is the death of a process.
* SQLite's busy timeouts: a transaction that cannot get the lock is one that
  happens later.
* In v1, exceptions of the transient stages (a missing resource, a malformed
  packet) and a reload that fails halfway; the contents of the semantic tables;
  the proof bundles beside a focus, and all but the latest focus.
* In a turn, what proposal, verification and evaluation compute: a turn's
  decision is any decision on the situation it was given.
* In the selection, what recipes and designations contain; the worksheets are
  constants. In the servers, the token, origin and file-kind checks of a
  request, which decide nothing about the files of a legitimate one.
* In process control, the Windows guard, KeyboardInterrupt, the staging of the
  input, the reuse of process numbers, and a `killpg` that is refused
  (`process_control.py:112-115`, `330-331`): with EPERM the guard gives up, and
  neither `OnlyEscapedHold` nor `ReturnsUnlessEscaped` is claimed of that path.
* `ExportMeansDecided` is about items left undecided. `blocking_errors` (a
  generator that differs from its branch, a holdout that crosses, a denominator
  that falls short) and `review_complete` are outside it: the guided flow can
  offer the export while the export would be refused.
* Pure computation over data: v1 interpretation and realization, R3 decision,
  query, proposal, verification and compilation, the R4 pipelines. They hold no
  state between calls, their inputs are the sizes of a lexicon, and what could
  be said of them is a statement about data, for which a model would be a
  transliteration.
* Training, the validation gate's and inventories' own logic, the replay status
  script (one writer of one file), the archives.

The map therefore covers a small share of the repository's lines: most of them
are those pure builders and their archived copies. Of the files that keep state,
it covers every operation except the ones above.

## Plan

1. `PowerLoss`: a prefix of the committed transactions survives; what the
   gateway's promise becomes.
2. v1 claims and state timeline (`_supersede_state`, retraction, designation
   index) as an extension of `ExactStore`.
3. An abstract promise of a review (one working state, changed by confirmed
   requests) with `ReviewServer` as its refinement outside the overlap window,
   and `ReviewServer` over `ReviewSelection`; begin and finish in v1 as a
   refinement of an abstract compare-and-swap register.
4. Pure algorithms against a reference definition: the decision matrix of
   `decision.py`.
