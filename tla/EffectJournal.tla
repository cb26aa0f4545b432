--------------------------- MODULE EffectJournal ---------------------------
(***************************************************************************)
(* The durable effect-journal state machine of r3_persistence.py: the ten  *)
(* states of an entry, which of them are terminal, and the transition      *)
(* table validate_journal_transition consults before every write.          *)
(***************************************************************************)

EXTENDS Integers

\* "ABSENT" is no state of the code: it stands for "no row under this key".
NonTerminalStates ==
  {"PLANNED", "AUTHORIZED", "INVOCATION_STARTED", "PENDING_RECONCILIATION",
   "OBSERVED"}

TerminalStates == {"COMMITTED", "DENIED", "NO_EFFECT", "FAILED", "STALE"}

JournalStates == NonTerminalStates \cup TerminalStates

\* _ALLOWED_TRANSITIONS, as the set of states a source state may move to.
Targets(source) ==
  CASE source = "PLANNED" ->
         {"AUTHORIZED", "DENIED", "NO_EFFECT", "FAILED", "STALE"}
    [] source = "AUTHORIZED" ->
         {"INVOCATION_STARTED", "OBSERVED", "DENIED", "NO_EFFECT", "FAILED",
          "STALE"}
    [] source \in {"INVOCATION_STARTED", "PENDING_RECONCILIATION"} ->
         {"OBSERVED", "FAILED", "PENDING_RECONCILIATION"}
    [] source = "OBSERVED" -> {"COMMITTED", "FAILED"}
    [] OTHER -> {}

\* Mutant of NextAttempt: counts down.
AttemptRewound(attempt, source, target) ==
  IF target = "INVOCATION_STARTED" THEN attempt - 1 ELSE attempt

\* attempt_index of the entry a transition writes.
NextAttempt(attempt, source, target) ==
  IF target = "INVOCATION_STARTED" \/ source = "PENDING_RECONCILIATION"
  THEN attempt + 1
  ELSE attempt
=============================================================================
