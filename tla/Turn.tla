-------------------------------- MODULE Turn --------------------------------
(***************************************************************************)
(* HybridRuntime.process_evidence: the turns of one session, run by several *)
(* processes over the store and the gateway of EffectGateway.              *)
(*                                                                         *)
(* A turn is oriented from reads alone, verified, evaluated and only then  *)
(* handed to the gateway.  The decision binds the whole situation (pin,    *)
(* turn_ref, obligation snapshot), and the effect key hashes the decision: *)
(* the same input in the same situation reaches the same key, and anything *)
(* else a new one.  Keys are names here, given out in any fixed order.     *)
(***************************************************************************)
EXTENDS EffectGateway

CONSTANTS
  Input,            \* what a user may say
  MaxAlternatives,  \* config.max_orientation_alternatives (16 in the code)
  Nobody            \* no process

ASSUME TurnAssumption ==
  Input # {} /\ MaxAlternatives \in Nat \ {0} /\ Nobody \notin Process

VARIABLES
  phase,      \* per process: where its turn stands
  draft,      \* per process: the situation of its last turn
  material,   \* per key: the situation its decision was made in
  writer      \* history: the process whose call began the row, while it lasts

turnVars == <<phase, draft, material, writer>>
allVars == <<vars, turnVars>>

\* What a decision is made of: the text, the revisions the process caches
\* (RevisionPin, and the session and obligation revisions that turn_ref and
\* the obligation snapshot name), the turn, the open obligations, and the
\* facts its evaluation finds in the world.
Situation == [input : Input, pin : [Counter -> Nat], turn : Nat,
              obligations : SUBSET Key, facts : SUBSET Key]

\* No situation: turn 0.
NoSituation == [input |-> CHOOSE i \in Input : TRUE,
                pin |-> [c \in Counter |-> 0], turn |-> 0, obligations |-> {},
                facts |-> {}]

TurnTypeOK ==
  /\ TypeOK
  /\ phase \in [Process -> {"none", "reserved", "oriented",
                             "evaluated", "r3"}]
  /\ draft \in [Process -> Situation]
  /\ material \in [Key -> Situation]
  /\ writer \in [Key -> Process \cup {Nobody}]

TurnInit ==
  /\ Init
  /\ phase = [p \in Process |-> "none"]
  /\ draft = [p \in Process |-> NoSituation]
  /\ material = [k \in Key |-> NoSituation]
  /\ writer = [k \in Key |-> Nobody]

-----------------------------------------------------------------------------
(* ORIENT: reads only, one SELECT each.                                    *)

Between(p) == Open(p) /\ pc[p] = "idle" /\ phase[p] \in {"none", "r3"}

\* r3_begin_turn: the turn index follows the session row, the revisions are
\* those the process has cached.
ReserveTurn(p, i) ==
  /\ Between(p)
  /\ phase' = [phase EXCEPT ![p] = "reserved"]
  /\ draft' = [draft EXCEPT ![p] =
                 [input |-> i, pin |-> cache[p], turn |-> turnIndex + 1,
                  obligations |-> {}, facts |-> {}]]
  /\ UNCHANGED <<vars, material, writer>>

\* Mutant of SnapshotObligations: as many as the SELECT returns are too few.
SnapshotOneMore(p) ==
  /\ phase[p] = "reserved"
  /\ Cardinality(obligations) <= MaxAlternatives + 1
  /\ phase' = [phase EXCEPT ![p] = "oriented"]
  /\ draft' = [draft EXCEPT ![p].obligations = obligations]
  /\ UNCHANGED <<vars, material, writer>>

\* r3_obligation_snapshot: the session's unresolved obligations, if not more
\* than the bound; a larger snapshot raises out of the turn.
SnapshotObligations(p) ==
  /\ phase[p] = "reserved"
  /\ Cardinality(obligations) <= MaxAlternatives
  /\ phase' = [phase EXCEPT ![p] = "oriented"]
  /\ draft' = [draft EXCEPT ![p].obligations = obligations]
  /\ UNCHANGED <<vars, material, writer>>

EndTurn(p) ==
  /\ phase' = [phase EXCEPT ![p] = "none"]
  /\ draft' = [draft EXCEPT ![p] = NoSituation]

SnapshotRefused(p) ==
  /\ phase[p] = "reserved"
  /\ Cardinality(obligations) > MaxAlternatives
  /\ EndTurn(p)
  /\ UNCHANGED <<vars, material, writer>>

\* VERIFY selects no meaning, or a phase before EFFECT raises.
Abandon(p) ==
  /\ phase[p] \in {"oriented", "evaluated"}
  /\ EndTurn(p)
  /\ UNCHANGED <<vars, material, writer>>

-----------------------------------------------------------------------------
(* EVALUATE and EFFECT.                                                    *)

Unused(kind) == {k \in kind : material[k].turn = 0}

\* _effect_key: one key per decision, and so one per situation; in a new
\* situation the decision may be of any kind.
EffectKeys(s) ==
  LET made == {k \in Key : material[k] = s} IN
  IF made # {} THEN made
  ELSE {CHOOSE k \in Unused(kind) : TRUE :
          kind \in {g \in {ExternalKey, AdmitKey, ReadKey, LearnKey} :
                      Unused(g) # {}}}

\* R3Kernel.run checks the pin; the evaluation reads the world's facts.
Evaluate(p) ==
  /\ phase[p] = "oriented"
  /\ draft[p].pin = cache[p]
  /\ phase' = [phase EXCEPT ![p] = "evaluated"]
  /\ draft' = [draft EXCEPT ![p].facts = worldFacts]
  /\ UNCHANGED <<vars, material, writer>>

\* R3Kernel.run calls gateway.execute, which looks its key up.
RunTurn(p) ==
  /\ phase[p] = "evaluated"
  /\ \E k \in EffectKeys(draft[p]) :
       /\ StartCall(p, k, draft[p].turn)
       /\ material' = [material EXCEPT ![k] = draft[p]]
  /\ phase' = [phase EXCEPT ![p] = "r3"]
  /\ UNCHANGED <<draft, writer>>

\* The call that begins a row is its writer until it ends.
Attribute(p) ==
  writer' = [k \in Key |->
    CASE journal[k].state = "ABSENT" /\ journal'[k].state # "ABSENT" -> p
      [] writer[k] = p /\ pc'[p] = "idle" -> Nobody
      [] OTHER -> writer[k]]

InCall(p) ==
  /\ CallStep(p)
  /\ Attribute(p)
  /\ UNCHANGED <<phase, draft, material>>

CloseBetween(p) ==
  /\ Between(p)
  /\ Close(p)
  /\ EndTurn(p)
  /\ UNCHANGED <<material, writer>>

Die(p) ==
  /\ Crash(p)
  /\ EndTurn(p)
  /\ Attribute(p)
  /\ UNCHANGED material

TurnStep(p) ==
  \/ Load(p) /\ UNCHANGED turnVars
  \/ CloseBetween(p) \/ Die(p)
  \/ \E i \in Input : ReserveTurn(p, i)
  \/ SnapshotObligations(p) \/ SnapshotRefused(p) \/ Abandon(p)
  \/ Evaluate(p) \/ RunTurn(p)
  \/ InCall(p)

TurnNext ==
  \/ \E p \in Process : TurnStep(p)
  \/ \E k \in Key :
       (OperationStarts(k) \/ OperationEnds(k)) /\ UNCHANGED turnVars

TurnSpec == TurnInit /\ [][TurnNext]_allVars

-----------------------------------------------------------------------------
(* What must hold.                                                         *)

Concluded == {k \in Key : Settled(k)}

\* Turn numbers are conclusions: the session row stands at the number of turns
\* that ended in a receipt, the receipts carry the numbers 1..n, and no two
\* turns share one, although each process numbers its turn from a read made
\* long before it writes.  (In EffectGateway alone, where an old decision may
\* be executed late, the row of a settled key can take the session back.)
TurnsConcludeInOrder ==
  /\ turnIndex = meta["session"]
  /\ {journal[k].turn : k \in Concluded} = 1..turnIndex
  /\ \A j, k \in Concluded : j # k => journal[j].turn # journal[k].turn

\* A journal row is moved only by the call that began it, while that call
\* lasts: what a crash or a refused write leaves behind is never taken up
\* again by another process, which would do so with a stale view.
RowsMoveWithTheirCall ==
  [][\A k \in Key :
       journal[k].state # "ABSENT" /\ journal'[k] # journal[k] =>
         /\ writer[k] # Nobody
         /\ cache'[writer[k]] # cache[writer[k]]]_allVars

\* Turns are serializable: whatever other processes did while it was oriented
\* and evaluated, a turn that concludes was decided on exactly the obligations
\* and the facts that the turns numbered before it left.
TurnsSerial ==
  \A k \in Concluded :
    /\ material[k].obligations =
         {j \in obligations : journal[j].turn < journal[k].turn}
    /\ material[k].facts =
         {j \in worldFacts : journal[j].turn < journal[k].turn}

\* A session never holds more than one obligation over the bound of a snapshot:
\* turns that were oriented side by side, each with room for its own lesson,
\* do not add them up, because only one of them concludes.
ObligationsBounded == Cardinality(obligations) <= MaxAlternatives + 1

\* And one that holds more than the bound concludes no further turn, not even
\* one oriented before it was full: the session is where the user left it.
FullSessionStands ==
  [][turnIndex' # turnIndex => Cardinality(obligations) <= MaxAlternatives]_allVars

-----------------------------------------------------------------------------
(* The turns of all processes implement SessionPromise.                    *)

\* The decision of the n-th turn of the session.
DecisionOf(n) == CHOOSE k \in Concluded : journal[k].turn = n

\* The turns of the session: what each decided, and what it was decided on.
ConcludedTurns ==
  [n \in 1..turnIndex |->
     LET k == DecisionOf(n) IN
     [decision |-> k, obligations |-> material[k].obligations,
      facts |-> material[k].facts]]

Session == INSTANCE SessionPromise WITH
  Decision  <- Key,
  Lesson    <- LearnKey,
  Claim     <- AdmitKey,
  Operation <- ExternalKey,
  session   <- ConcludedTurns,
  facts     <- worldFacts

\* Seen from its user a session is sequential: whatever the processes do
\* between the reads of a turn and the write that concludes it, and wherever
\* they die, every conclusion is one step on what the one before it left.
SessionKept == Session!SessionSpec
=============================================================================
