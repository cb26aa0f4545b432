---------------------------- MODULE CycleRuntime ----------------------------
(***************************************************************************)
(* cemm/runtime.py: Runtimes running Stage 0-22 cycles over one ExactStore. *)
(* A cycle pins the world and discourse revisions when it orients, may      *)
(* commit at Stage 13, run an adapter at 16, record its result at 17, and   *)
(* commit common ground at 21.  The dialogue state (dialogue.py) and the    *)
(* authority generation a Runtime is bound to live in memory only.          *)
(*                                                                          *)
(* What stages 1-12, 18-20 compute decides which of these steps a cycle     *)
(* takes; it is the kind of the cycle and the choices made here.  Mode      *)
(* read_only writes nothing: it is a query that ends at Stage 20.           *)
(***************************************************************************)
EXTENDS ExactStore

CONSTANTS
  ExpiryTurns,  \* DialogueState.expiry_turns
  MaxTurns,     \* bound: cycles of one Runtime, two less after a crash
  MaxCommits,   \* bound: generations after which nobody asks for another
  MaxCrashes    \* bound: how often processes die

ASSUME CycleAssumption ==
  /\ Effect # {}
  /\ ExpiryTurns \in Nat \ {0}
  /\ MaxTurns \in Nat /\ MaxCommits \in Nat /\ MaxCrashes \in Nat

VARIABLES
  pc,           \* per process: where it stands
  turn,         \* per process: _cycle_counter
  gen,          \* per process: the authority generation it is bound to
  pending,      \* per process: the pending learning obligation
  focus,        \* per process: the latest verified semantic focus
  cycle,        \* per process: the cycle it runs
  tx,           \* per process: the generation it is about to commit
  executed,     \* history: how often the adapter ran for a key
  crashes       \* history: how often a process died

runtimeVars == <<pc, turn, gen, pending, focus, cycle, tx>>
vars == <<exactVars, runtimeVars, executed, crashes>>

PC == {"down", "idle", "begin", "number", "write", "committed", "explain",
       "execute", "journal", "upsert", "assimilate", "respond", "ground",
       "emit"}

\* "claim" is a claim, correction or retraction, mere learning frontiers, or a
\* turn in mode reviewed_teach; "maintain" a reviewed workflow.
Kinds == {"none", "claim", "query", "directive", "maintain"}

Cycle == [kind : Kinds, discourse : Nat, learns : BOOLEAN, facts : Nat,
          effect : Effect, result : Statuses, base : Nat]
AnyEffect == CHOOSE e \in Effect : TRUE
NoCycle == [kind |-> "none", discourse |-> 0, learns |-> FALSE, facts |-> 0,
            effect |-> AnyEffect, result |-> "absent", base |-> 0]

Tx == [stage : {13, 17}, pin : Nat \cup {NoPin}, number : Nat,
       delta : BOOLEAN, apps : BOOLEAN, rules : BOOLEAN]
NoTx == [stage |-> 13, pin |-> NoPin, number |-> 0,
         delta |-> FALSE, apps |-> FALSE, rules |-> FALSE]

\* created = 0: none.
Obligation == [created : Nat, gen : Nat]
NoObligation == [created |-> 0, gen |-> 0]

\* gen = 0: none.  facts is the world revision its facts were read at.
Focus == [gen : Nat, world : Nat, facts : Nat]
NoFocus == [gen |-> 0, world |-> 0, facts |-> 0]

CycleTypeOK ==
  /\ ExactTypeOK
  /\ pc \in [Process -> PC]
  /\ turn \in [Process -> Nat]
  /\ gen \in [Process -> Nat]
  /\ pending \in [Process -> Obligation]
  /\ focus \in [Process -> Focus]
  /\ cycle \in [Process -> Cycle]
  /\ tx \in [Process -> Tx]
  /\ executed \in [Effect -> Nat]
  /\ crashes \in Nat

Init ==
  /\ ExactInit
  /\ pc = [p \in Process |-> "down"]
  /\ turn = [p \in Process |-> 0]
  /\ gen = [p \in Process |-> 0]
  /\ pending = [p \in Process |-> NoObligation]
  /\ focus = [p \in Process |-> NoFocus]
  /\ cycle = [p \in Process |-> NoCycle]
  /\ tx = [p \in Process |-> NoTx]
  /\ executed = [e \in Effect |-> 0]
  /\ crashes = 0

-----------------------------------------------------------------------------
(* The process and its authority.                                          *)

Goto(p, where) == pc' = [pc EXCEPT ![p] = where]

\* process() returns, or raises.
Ended(p) ==
  /\ Goto(p, "idle")
  /\ cycle' = [cycle EXCEPT ![p] = NoCycle]
  /\ tx' = [tx EXCEPT ![p] = NoTx]

\* Mutant of Rebind: learning plans survive the reload.
RebindOnly(p) ==
  /\ gen' = [gen EXCEPT ![p] = Generation]
  /\ UNCHANGED <<pending, focus>>

\* reload_authority: whatever was licensed by the old generation goes.
Rebind(p) ==
  /\ gen' = [gen EXCEPT ![p] = Generation]
  /\ pending' = [pending EXCEPT ![p] = NoObligation]
  /\ focus' = [focus EXCEPT ![p] = NoFocus]

\* Runtime(...), with an empty DialogueState.
Start(p) ==
  /\ pc[p] = "down"
  /\ Goto(p, "idle")
  /\ Rebind(p)
  /\ UNCHANGED <<exactVars, turn, cycle, tx, executed, crashes>>

Crash(p) ==
  /\ pc[p] # "down"
  /\ crashes < MaxCrashes
  /\ crashes' = crashes + 1
  /\ Goto(p, "down")
  /\ turn' = [turn EXCEPT ![p] = 0]
  /\ gen' = [gen EXCEPT ![p] = 0]
  /\ pending' = [pending EXCEPT ![p] = NoObligation]
  /\ focus' = [focus EXCEPT ![p] = NoFocus]
  /\ cycle' = [cycle EXCEPT ![p] = NoCycle]
  /\ tx' = [tx EXCEPT ![p] = NoTx]
  /\ UNCHANGED <<exactVars, executed>>

\* Mutant of Reload: the endpoint is served while a cycle runs.
ReloadAnytime(p) ==
  /\ pc[p] # "down"
  /\ gen[p] # Generation
  /\ Rebind(p)
  /\ UNCHANGED <<exactVars, pc, turn, cycle, tx, executed, crashes>>

\* /api/reload and cemm reload, between cycles.
Reload(p) ==
  /\ pc[p] = "idle"
  /\ gen[p] # Generation
  /\ Rebind(p)
  /\ UNCHANGED <<exactVars, pc, turn, cycle, tx, executed, crashes>>

-----------------------------------------------------------------------------
(* Stage 0, and the two reviewed workflows that start with a commit.       *)

Expired(obligation, now) == now > obligation.created + ExpiryTurns

\* What DialogueState.context leaves of the pending obligation at this turn.
Alive(p, now) ==
  IF Expired(pending[p], now) THEN NoObligation ELSE pending[p]

\* A cycle that may commit at Stage 13 knows here what it will commit: apps or
\* rules admitted, or claims retracted, or nothing of these.
Deltas == {d \in [delta : BOOLEAN, apps : BOOLEAN, rules : BOOLEAN] :
             d.apps \/ d.rules => d.delta}
NoDelta == [delta |-> FALSE, apps |-> FALSE, rules |-> FALSE]

Pinned(stage, d) == [stage |-> stage, pin |-> rev.world, number |-> 0,
                     delta |-> d.delta, apps |-> d.apps, rules |-> d.rules]

\* A published definition is inserted as applications and as a rule.
Unpinned == [stage |-> 13, pin |-> NoPin, number |-> 0,
             delta |-> TRUE, apps |-> TRUE, rules |-> TRUE]

\* _new_cycle: count the turn, read the revisions, take the dialogue context.
Orient(p, kind, where) ==
  /\ pc[p] = "idle" /\ turn[p] + 2 * crashes < MaxTurns
  /\ Goto(p, where)
  /\ turn' = [turn EXCEPT ![p] = @ + 1]
  /\ pending' = [pending EXCEPT ![p] = Alive(p, turn[p] + 1)]
  /\ \E e \in Effect, learns \in BOOLEAN :
       /\ kind # "directive" => e = AnyEffect
       /\ learns => kind = "claim" /\ pending'[p] # NoObligation
       /\ cycle' = [cycle EXCEPT ![p] =
                      [NoCycle EXCEPT !.kind = kind, !.effect = e,
                                      !.discourse = rev.discourse,
                                      !.learns = learns]]
  /\ UNCHANGED <<exactVars, gen, focus, executed, crashes>>

OrientClaim(p) ==
  /\ Orient(p, "claim", "begin")
  /\ \E d \in Deltas : /\ ~d.rules
                       /\ tx' = [tx EXCEPT ![p] = Pinned(13, d)]

\* Mode reviewed_teach: a rule is promoted, or gains evidence only, or nothing
\* was learned.
OrientTeach(p) ==
  \/ /\ Orient(p, "claim", "begin")
     /\ ~cycle'[p].learns
     /\ \E d \in Deltas : /\ ~d.apps /\ d.rules = d.delta
                          /\ tx' = [tx EXCEPT ![p] = Pinned(13, d)]
  \/ Orient(p, "claim", "respond") /\ ~cycle'[p].learns /\ UNCHANGED tx

\* Mutant of Frontiers: an open frontier counts as a change of the world.
FrontiersMoveWorld == Pinned(13, [NoDelta EXCEPT !.delta = TRUE])

\* The learning frontiers beside a query or a directive, if there are any.
Frontiers == Pinned(13, NoDelta)

OrientQuery(p) ==
  /\ Orient(p, "query", "explain")
  /\ tx' = [tx EXCEPT ![p] = Frontiers]

OrientDirective(p) ==
  /\ \E where \in {"begin", "execute"} : Orient(p, "directive", where)
  /\ tx' = [tx EXCEPT ![p] = Frontiers]

\* acquire_reviewed pins the world it finds; publish_definition_graph and
\* import_bundle pin nothing.
Maintain(p) ==
  /\ pc[p] = "idle" /\ Len(log) < MaxCommits
  /\ Goto(p, "begin")
  /\ cycle' = [cycle EXCEPT ![p] = [NoCycle EXCEPT !.kind = "maintain"]]
  /\ \E t \in {Unpinned,
              Pinned(13, [delta |-> TRUE, apps |-> TRUE, rules |-> FALSE])} :
       tx' = [tx EXCEPT ![p] = t]
  /\ UNCHANGED <<exactVars, turn, gen, pending, focus, executed, crashes>>

-----------------------------------------------------------------------------
(* A generation: begin reads twice, then everything is written.            *)

Begin(p) ==
  /\ pc[p] = "begin"
  /\ PinHolds(tx[p].pin)
  /\ Goto(p, "number")
  /\ UNCHANGED <<exactVars, turn, gen, pending, focus, cycle, tx,
                 executed, crashes>>

Number(p) ==
  /\ pc[p] = "number"
  /\ tx' = [tx EXCEPT ![p].number = Generation + 1]
  /\ Goto(p, "write")
  /\ UNCHANGED <<exactVars, turn, gen, pending, focus, cycle,
                 executed, crashes>>

Write(p) ==
  /\ pc[p] = "write"
  /\ Finish(p, tx[p].stage, tx[p].pin, tx[p].number, tx[p].delta,
            tx[p].apps, tx[p].rules)
  /\ IF tx[p].stage = 13
     THEN Goto(p, "committed") /\ UNCHANGED tx
     ELSE Goto(p, "respond") /\ tx' = [tx EXCEPT ![p] = NoTx]
  /\ UNCHANGED <<turn, gen, pending, focus, cycle, executed, crashes>>

\* RuntimeError of either comparison, or IntegrityError of the INSERT: rolled
\* back, and raised out of process().
Refused(p) ==
  \/ pc[p] = "begin" /\ ~PinHolds(tx[p].pin)
  \/ pc[p] = "write" /\ ~FinishAccepted(tx[p].pin, tx[p].number)
  \/ pc[p] = "ground" /\ rev.discourse # cycle[p].discourse

Abort(p) ==
  /\ Refused(p)
  /\ Ended(p)
  /\ UNCHANGED <<exactVars, turn, gen, pending, focus, executed, crashes>>

\* Where a committed cycle goes on.
Proceed(p) ==
  IF cycle[p].kind = "maintain" THEN Ended(p)
  ELSE /\ Goto(p, IF cycle[p].kind = "directive" THEN "execute" ELSE "respond")
       /\ tx' = [tx EXCEPT ![p] = NoTx]
       /\ UNCHANGED cycle

\* Mutant of AfterCommit: the bindings are not refreshed.
ConsumeOnly(p) ==
  /\ pc[p] = "committed"
  /\ pending' = [pending EXCEPT ![p] =
                   IF cycle[p].learns /\ tx[p].apps THEN NoObligation ELSE @]
  /\ Proceed(p)
  /\ UNCHANGED <<exactVars, turn, gen, focus, executed, crashes>>

\* process() and acquire_reviewed reload after applications; nobody does after
\* a publication or a promoted rule.
Rebinds(t) == t.apps /\ t.pin # NoPin

\* Admitted applications consume the obligation they answer and rebind the
\* runtime, which also drops an obligation they do not answer.
AfterCommit(p) ==
  /\ pc[p] = "committed"
  /\ IF Rebinds(tx[p]) THEN Rebind(p) ELSE UNCHANGED <<gen, pending, focus>>
  /\ Proceed(p)
  /\ UNCHANGED <<exactVars, turn, executed, crashes>>

-----------------------------------------------------------------------------
(* Stage 10, and Stages 16 and 17 of a directive.                          *)

\* The facts of the answer are read; frontiers beside it are committed next.
Explain(p) ==
  /\ pc[p] = "explain"
  /\ cycle' = [cycle EXCEPT ![p].facts = rev.world]
  /\ \/ Goto(p, "begin") /\ UNCHANGED tx
     \/ Goto(p, "respond") /\ tx' = [tx EXCEPT ![p] = NoTx]
  /\ UNCHANGED <<exactVars, turn, gen, pending, focus, executed, crashes>>

\* AdapterRegistry.execute: unauthorized plans are declined, all others run;
\* an exception of the adapter is a failed result.
Execute(p) ==
  /\ pc[p] = "execute"
  /\ \E result \in {"succeeded", "failed", "declined"} :
       /\ cycle' = [cycle EXCEPT ![p].result = result]
       /\ executed' = [executed EXCEPT ![cycle[p].effect] =
                         IF result = "declined" THEN @ ELSE @ + 1]
  /\ Goto(p, "journal")
  /\ UNCHANGED <<exactVars, turn, gen, pending, focus, tx, crashes>>

\* journal_effect reads the row of the key, and the revision.
JournalRead(p) ==
  /\ pc[p] = "journal"
  /\ cycle' = [cycle EXCEPT ![p].base = rev.effect]
  /\ Goto(p, IF effects[cycle[p].effect].status \in Replayed
             THEN "assimilate" ELSE "upsert")
  /\ UNCHANGED <<exactVars, turn, gen, pending, focus, tx, executed, crashes>>

\* Mutant of JournalUpsert: whatever the adapter said, the plan succeeded.
JournalSuccess(p) ==
  /\ pc[p] = "upsert"
  /\ JournalEffect(cycle[p].effect, "succeeded", cycle[p].base + 1)
  /\ Goto(p, "assimilate")
  /\ UNCHANGED <<turn, gen, pending, focus, cycle, tx, executed, crashes>>

JournalUpsert(p) ==
  /\ pc[p] = "upsert"
  /\ JournalEffect(cycle[p].effect, cycle[p].result, cycle[p].base + 1)
  /\ Goto(p, "assimilate")
  /\ UNCHANGED <<turn, gen, pending, focus, cycle, tx, executed, crashes>>

\* The result is committed as an observation, against the world as it now is.
Assimilate(p) ==
  /\ pc[p] = "assimilate"
  /\ tx' = [tx EXCEPT ![p] = Pinned(17, NoDelta)]
  /\ Goto(p, "begin")
  /\ UNCHANGED <<exactVars, turn, gen, pending, focus, cycle,
                 executed, crashes>>

-----------------------------------------------------------------------------
(* Stages 20 and 21.                                                       *)

\* The focus a verified answer leaves, labelled with the revision of now.
Answered(p) ==
  [gen |-> gen[p], world |-> rev.world, facts |-> cycle[p].facts]

Verified(p) ==
  /\ pc[p] = "respond"
  /\ focus' = [focus EXCEPT ![p] =
                 IF cycle[p].kind = "query" THEN Answered(p) ELSE @]
  /\ \/ Goto(p, "ground") /\ UNCHANGED <<cycle, tx>>
     \/ Ended(p)     \* read_only, or persist_common_ground is off
  /\ UNCHANGED <<exactVars, turn, gen, pending, executed, crashes>>

\* An unverified surface is neither emitted nor remembered.
Unverified(p) ==
  /\ pc[p] = "respond"
  /\ Ended(p)
  /\ UNCHANGED <<exactVars, turn, gen, pending, focus, executed, crashes>>

\* commit_common_ground compares the discourse revision ...
GroundCheck(p) ==
  /\ pc[p] = "ground"
  /\ rev.discourse = cycle[p].discourse
  /\ Goto(p, "emit")
  /\ UNCHANGED <<exactVars, turn, gen, pending, focus, cycle, tx,
                 executed, crashes>>

\* observe_response opens the obligation of a query's learning request.  A
\* live one stays: the request is the same, or it raises.
Requested(p) ==
  IF cycle[p].kind = "query" /\ pending[p] = NoObligation
  THEN {NoObligation, [created |-> turn[p], gen |-> gen[p]]}
  ELSE {pending[p]}

\* ... and writes the next one; then comes observe_response.
GroundWrite(p) ==
  /\ pc[p] = "emit"
  /\ CommitCommonGround(p, turn[p], cycle[p].discourse + 1)
  /\ \E o \in Requested(p) : pending' = [pending EXCEPT ![p] = o]
  /\ Ended(p)
  /\ UNCHANGED <<turn, gen, focus, executed, crashes>>

-----------------------------------------------------------------------------
Next ==
  \E p \in Process :
    \/ Start(p) \/ Crash(p) \/ Reload(p)
    \/ OrientClaim(p) \/ OrientTeach(p) \/ OrientQuery(p) \/ OrientDirective(p)
    \/ Maintain(p)
    \/ Begin(p) \/ Number(p) \/ Write(p) \/ Abort(p) \/ AfterCommit(p)
    \/ Explain(p) \/ Execute(p) \/ JournalRead(p) \/ JournalUpsert(p)
    \/ Assimilate(p)
    \/ Verified(p) \/ Unverified(p) \/ GroundCheck(p) \/ GroundWrite(p)

Spec == Init /\ [][Next]_vars

-----------------------------------------------------------------------------
(* Properties.                                                             *)

\* The dialogue state never outlives the authority it was licensed by: the
\* pending learning plan and the verified focus are of the generation the
\* runtime is bound to, whatever commits and reloads came between.
DialogueMatchesAuthority ==
  \A p \in Process :
    /\ pending[p] # NoObligation => pending[p].gen = gen[p]
    /\ focus[p] # NoFocus => focus[p].gen = gen[p]

\* A cycle that answers a pending obligation still has it, unexpired and of
\* its own authority, at every step up to its consumption after the commit:
\* consume_after_commit never raises with the answer already durable.
ObligationOutlivesCommit ==
  \A p \in Process :
    cycle[p].learns /\ pc[p] \in {"begin", "number", "write", "committed"} =>
      /\ pending[p] # NoObligation
      /\ pending[p].gen = gen[p]
      /\ ~Expired(pending[p], turn[p])

\* Between cycles a runtime is bound to every generation in which its cycles or
\* its reviewed acquisitions have admitted applications, whatever others
\* commit meanwhile and wherever it stopped in between.
OwnApplicationsVisible ==
  \A p \in Process, i \in DOMAIN log :
    /\ pc[p] = "idle"
    /\ log[i].owner = p /\ log[i].expected # NoPin /\ log[i].apps
    => gen[p] >= i + 1

\* "After a successful semantic commit, the next cycle must bind the new
\* authority generation": at Stage 10 a runtime reads under a generation that
\* covers all the authority, applications and rules, its cycles committed.
OwnAuthorityVisible ==
  \A p \in Process, i \in DOMAIN log :
    /\ pc[p] = "explain"
    /\ log[i].owner = p /\ log[i].expected # NoPin
    /\ log[i].apps \/ log[i].rules
    => gen[p] >= i + 1

\* The journal records no outcome an adapter did not have: a key that stands
\* as succeeded or failed was executed, in this cycle or an earlier one,
\* whatever crashed or raced in between.  (The reverse is false: the adapter
\* runs first, and a crash before the journal leaves no record.)
JournaledWasExecuted ==
  \A e \in Effect :
    effects[e].status \in {"succeeded", "failed"} => executed[e] > 0

\* A focus carries the world revision of Stage 20 and facts of Stage 10.  The
\* label is never older than the facts nor newer than the store, and what
\* the facts lack under it others have committed: the runtime's own learning
\* frontiers, written between the two, never make its focus stale.
OwnCommitsInFocus ==
  \A p \in Process :
    focus[p] # NoFocus =>
      /\ focus[p].facts <= focus[p].world /\ focus[p].world <= rev.world
      /\ \A i \in DOMAIN log :
           log[i].delta /\ focus[p].facts < log[i].world
             /\ log[i].world <= focus[p].world => log[i].owner # p

\* With one runtime on the file a concluded key is concluded for good: a row
\* that stands as succeeded or declined is never overwritten, though the row
\* is read in one transaction and written in another.  So a plan once
\* declined stays declined in the journal, whatever later runs of it do.
ConclusionsFinal ==
  [][\A e \in Effect :
       effects[e].status \in {"succeeded", "declined"} =>
         effects'[e] = effects[e]]_vars
=============================================================================
