--------------------------- MODULE SessionPromise ---------------------------
(***************************************************************************)
(* What a session promises to its user, with no processes, no calls and no *)
(* revisions: a session is one sequence of concluded turns.  Each decision *)
(* concludes once, was made on exactly the obligations and the facts that  *)
(* the turns before it left, and changes them only as its kind may.        *)
(***************************************************************************)
EXTENDS Naturals, Sequences

CONSTANTS
  Decision,     \* what a turn may decide
  Lesson,       \* decisions to create a learning obligation
  Claim,        \* decisions to admit what the user said
  Operation     \* decisions to ask an adapter for an effect

VARIABLES
  session,      \* the concluded turns: decisions, and what each was made on
  obligations,  \* lessons that are open
  facts         \* decisions whose facts are in the world

sessionVars == <<session, obligations, facts>>

SessionInit == session = <<>> /\ obligations = {} /\ facts = {}

\* One turn, from reading the session to its receipt, as a single step.
Conclude(d) ==
  /\ \A n \in 1..Len(session) : session[n].decision # d
  /\ session' = Append(session, [decision |-> d, obligations |-> obligations,
                                 facts |-> facts])
  /\ obligations' = IF d \in Lesson THEN obligations \cup {d} ELSE obligations
  /\ \/ d \in Claim \cup Operation /\ facts' = facts \cup {d}
     \/ d \notin Claim /\ facts' = facts

SessionNext == \E d \in Decision : Conclude(d)

SessionSpec == SessionInit /\ [][SessionNext]_sessionVars
=============================================================================
