--------------------------- MODULE EffectPromise ---------------------------
(***************************************************************************)
(* What the effect gateway and its journal promise, with no processes, no  *)
(* revisions and no journal states: an effect is open until it is settled  *)
(* once and for all; the outside world is touched at most once per effect, *)
(* only for an effect that asks for it, and only under a licence that was  *)
(* written while the effect was open; and the world's facts are those of   *)
(* the effects settled as committed, which for an external effect means    *)
(* that its operation was really carried out.                              *)
(***************************************************************************)
CONSTANTS
  Effect,       \* the effects (idempotency keys)
  External      \* of them, those that are performed by an adapter

VARIABLES
  outcome,      \* per effect: "open", or how it was settled
  licensed,     \* effects whose invocation has been journaled as started
  touches,      \* per effect: how often the adapter was called for it
  facts         \* effects whose facts are in the world

promiseVars == <<outcome, licensed, touches, facts>>

Settlements == {"committed", "no_effect", "failed", "adapter_missing"}

PromiseInit ==
  /\ outcome = [e \in Effect |-> "open"]
  /\ licensed = {}
  /\ touches = [e \in Effect |-> 0]
  /\ facts = {}

\* The invocation is journaled, before anything happens outside.
License(e) ==
  /\ e \in External
  /\ outcome[e] = "open"
  /\ e \notin licensed
  /\ licensed' = licensed \cup {e}
  /\ UNCHANGED <<outcome, touches, facts>>

\* The adapter is called.  The effect may have been settled meanwhile, by a
\* process that came up without the adapter.
Touch(e) ==
  /\ e \in licensed
  /\ touches[e] = 0
  /\ touches' = [touches EXCEPT ![e] = 1]
  /\ UNCHANGED <<outcome, licensed, facts>>

\* The effect is settled, in one step with its facts.
Settle(e, how) ==
  /\ outcome[e] = "open"
  /\ how = "committed" /\ e \in External => touches[e] = 1
  /\ outcome' = [outcome EXCEPT ![e] = how]
  /\ facts' = IF how = "committed" THEN facts \cup {e} ELSE facts
  /\ UNCHANGED <<licensed, touches>>

PromiseNext ==
  \E e \in Effect :
    \/ License(e)
    \/ Touch(e)
    \/ \E how \in Settlements : Settle(e, how)

PromiseSpec == PromiseInit /\ [][PromiseNext]_promiseVars
=============================================================================
