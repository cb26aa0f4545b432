--------------------------- MODULE ReviewSelection ---------------------------
(***************************************************************************)
(* The accountable review of R4.1: one selection over structural, purpose, *)
(* recipe and designation rows, evaluate_selection, the actions of         *)
(* ReviewSession.preview / apply, and the items GuidedReviewService        *)
(* offers.  A step is one action previewed and applied: within a session   *)
(* no other action comes between (ReviewServer shows it).                  *)
(*                                                                         *)
(* What a recipe or a designation decides (approve, reject, parameters)    *)
(* has no effect on completeness and is left out; that it is decided is    *)
(* kept.  A composed-expression proposal is named by its candidate case.   *)
(***************************************************************************)
EXTENDS Naturals, FiniteSets

CONSTANTS
  OrdinaryCase,     \* current cases of every branch
  ConditionalCase,  \* current cases of the legacy conditional scenarios
  DiagnosticCase,   \* restart diagnostic cases
  CandidateCase,    \* cases of composed-expression proposals
  Purpose,          \* train, selection, calibration, frozen_test
  Group,            \* duplicate groups: the cases of one scenario
  Holdout,          \* challenge holdouts: sets of candidate cases
  DenominatorRow,   \* denominator families
  ProposalFamily, RealizationFamily,   \* recipe families: sets of cases
  DesignatedCase,   \* cases with a designation row
  Cohort            \* routine designation cohorts: sets of designated cases

Case == OrdinaryCase \cup ConditionalCase \cup DiagnosticCase \cup CandidateCase

Branches == {"retain_typed_proposal_gaps", "retire_with_reserved_indices"}
Unset == "unset"
ToGroup == "assign_to_reviewed_group"
NoPurpose == "no purpose"

ASSUME ReviewAssumption ==
  /\ \A a, b \in {OrdinaryCase, ConditionalCase, DiagnosticCase, CandidateCase} :
       a # b => a \cap b = {}
  /\ Purpose \cap {Unset, ToGroup, NoPurpose, "reject_group", "not_a_holdout",
                   "approve_diagnostic_only", "reject_pending_replacement"} = {}
  /\ Group \subseteq SUBSET (Case \ DiagnosticCase)
  /\ \A g, h \in Group : g # h => g \cap h = {}
  /\ Holdout \subseteq SUBSET CandidateCase
  /\ ProposalFamily \subseteq SUBSET Case
  /\ RealizationFamily \subseteq SUBSET Case
  /\ DesignatedCase \subseteq Case
  /\ Cohort \subseteq SUBSET DesignatedCase
  /\ \A g, h \in Cohort : g # h => g \cap h = {}

VARIABLE selection

\* The selectable options of each kind of row.
StructuralOptions ==
  [legacy |-> Branches, generator |-> Branches,
   restart |-> {"approve_diagnostic_only", "reject_pending_replacement"},
   proposal |-> {"approve_exact_proposal", "reject_exact_proposal"}]
MembershipOptions(c) ==
  IF c \in DiagnosticCase THEN StructuralOptions.restart
  ELSE Purpose \cup (IF c \in UNION Group THEN {ToGroup} ELSE {})
MembershipRowOptions == UNION {MembershipOptions(c) : c \in Case}
GroupOptions == Purpose \cup {"reject_group"}
HoldoutOptions == Purpose \cup {"not_a_holdout"}
DenominatorOptions == {"minimum_one_each"}

Recipe == [purpose : Purpose, members : SUBSET Case]

Selections ==
    [legacy : Branches \cup {Unset}, generator : Branches \cup {Unset},
     restart : StructuralOptions.restart \cup {Unset},
     proposal : [CandidateCase -> StructuralOptions.proposal \cup {Unset}],
     membership : [Case -> MembershipRowOptions \cup {Unset}],
     group : [Group -> GroupOptions \cup {Unset}],
     holdout : [Holdout -> HoldoutOptions \cup {Unset}],
     denominator : [DenominatorRow -> DenominatorOptions \cup {Unset}],
     proposal_recipes : [ProposalFamily -> SUBSET Recipe],
     realization_recipes : [RealizationFamily -> SUBSET Recipe],
     designated : SUBSET DesignatedCase]

\* A decision is one its row offers, and only cases with a row have one.
SelectionTypeOK ==
  /\ selection \in Selections
  /\ \A c \in Case : selection.membership[c] \in MembershipOptions(c) \cup {Unset}

Template ==
  [legacy |-> Unset, generator |-> Unset, restart |-> Unset,
   proposal |-> [c \in CandidateCase |-> Unset],
   membership |-> [c \in Case |-> Unset],
   group |-> [g \in Group |-> Unset],
   holdout |-> [h \in Holdout |-> Unset],
   denominator |-> [d \in DenominatorRow |-> Unset],
   proposal_recipes |-> [f \in ProposalFamily |-> {}],
   realization_recipes |-> [f \in RealizationFamily |-> {}],
   designated |-> {}]

SelectionInit == selection = Template

-----------------------------------------------------------------------------
(* evaluate_selection.                                                     *)

StructuralComplete(s) ==
  /\ Unset \notin {s.legacy, s.generator, s.restart}
  /\ \A c \in CandidateCase : s.proposal[c] # Unset

\* Nothing is applicable while a structural row is undecided.
CaseActive(s, c) ==
  /\ StructuralComplete(s)
  /\ c \in CandidateCase => s.proposal[c] = "approve_exact_proposal"
  /\ c \in DiagnosticCase => s.restart = "approve_diagnostic_only"
  /\ c \in ConditionalCase => s.legacy = "retain_typed_proposal_gaps"

AllActive(s, cases) ==
  StructuralComplete(s) /\ \A c \in cases : CaseActive(s, c)

\* case_purposes: an applicable membership names a purpose, or the applicable
\* group whose purpose it takes.
CasePurpose(s, c) ==
  LET chosen == s.membership[c] IN
  IF ~ CaseActive(s, c) THEN NoPurpose
  ELSE CASE chosen \in Purpose -> chosen
         [] chosen = ToGroup ->
              LET g == CHOOSE g \in Group : c \in g IN
              IF AllActive(s, g) /\ s.group[g] \in Purpose THEN s.group[g]
                                                           ELSE NoPurpose
         [] OTHER -> NoPurpose

Supervised(s) == {c \in Case : CasePurpose(s, c) # NoPurpose}

\* _evaluate_recipe_partitions, for one family: a recipe of a case that is not
\* supervised is stale; one that crosses purposes raises.
Current(s, f, recipes) ==
  LET active == f \cap Supervised(s) IN {r \in recipes : r.members \subseteq active}
FamilyStale(s, f, recipes) == recipes # Current(s, f, recipes)
FamilyCrosses(s, f, recipes) ==
  LET current == Current(s, f, recipes) IN
  \E r \in current : \E c \in r.members :
    \/ CasePurpose(s, c) # r.purpose
    \/ \E q \in current \ {r} : c \in q.members
FamilyUnresolved(s, f, recipes) ==
  UNION {r.members : r \in Current(s, f, recipes)} # f \cap Supervised(s)

\* Decisions of rows that no longer apply.
StaleMembership(s, c) == s.membership[c] # Unset /\ ~ CaseActive(s, c)
StaleGroup(s, g) == s.group[g] # Unset /\ ~ AllActive(s, g)
StaleHoldout(s, h) == s.holdout[h] # Unset /\ ~ AllActive(s, h)
StaleDenominator(s, d) == s.denominator[d] # Unset /\ ~ StructuralComplete(s)

Stale(s) ==
  \/ \E c \in Case : StaleMembership(s, c)
  \/ \E g \in Group : StaleGroup(s, g)
  \/ \E h \in Holdout : StaleHoldout(s, h)
  \/ \E d \in DenominatorRow : StaleDenominator(s, d)
  \/ \E f \in ProposalFamily : FamilyStale(s, f, s.proposal_recipes[f])
  \/ \E f \in RealizationFamily : FamilyStale(s, f, s.realization_recipes[f])
  \/ ~ s.designated \subseteq Supervised(s)

\* evaluate_selection raises.
Crosses(s) ==
  \/ \E f \in ProposalFamily : FamilyCrosses(s, f, s.proposal_recipes[f])
  \/ \E f \in RealizationFamily : FamilyCrosses(s, f, s.realization_recipes[f])

\* Every applicable row has its decision.
PurposeDecided(s) ==
  /\ \A c \in Case : CaseActive(s, c) => s.membership[c] # Unset
  /\ \A g \in Group : AllActive(s, g) => s.group[g] # Unset
  /\ \A h \in Holdout : AllActive(s, h) => s.holdout[h] # Unset
  /\ \A d \in DenominatorRow : s.denominator[d] # Unset
Decided(s) ==
  /\ StructuralComplete(s)
  /\ PurposeDecided(s)
  /\ \A f \in ProposalFamily : ~ FamilyUnresolved(s, f, s.proposal_recipes[f])
  /\ \A f \in RealizationFamily : ~ FamilyUnresolved(s, f, s.realization_recipes[f])
  /\ DesignatedCase \cap Supervised(s) \subseteq s.designated

-----------------------------------------------------------------------------
(* ReviewSession.preview.                                                  *)
\* Mutant of ClearStale: recipes are forgotten only with all their cases.
ClearRows(s) ==
  [s EXCEPT
    !.membership = [c \in Case |->
      IF StaleMembership(s, c) THEN Unset ELSE s.membership[c]],
    !.group = [g \in Group |-> IF StaleGroup(s, g) THEN Unset ELSE s.group[g]],
    !.holdout = [h \in Holdout |->
      IF StaleHoldout(s, h) THEN Unset ELSE s.holdout[h]],
    !.denominator = [d \in DenominatorRow |->
      IF StaleDenominator(s, d) THEN Unset ELSE s.denominator[d]],
    !.designated = s.designated \cap Supervised(s)]

\* _clear_stale_refs, and the set evaluate_selection gives it.
ClearStale(s) ==
  [s EXCEPT
    !.membership = [c \in Case |->
      IF StaleMembership(s, c) THEN Unset ELSE s.membership[c]],
    !.group = [g \in Group |-> IF StaleGroup(s, g) THEN Unset ELSE s.group[g]],
    !.holdout = [h \in Holdout |->
      IF StaleHoldout(s, h) THEN Unset ELSE s.holdout[h]],
    !.denominator = [d \in DenominatorRow |->
      IF StaleDenominator(s, d) THEN Unset ELSE s.denominator[d]],
    !.proposal_recipes = [f \in ProposalFamily |->
      IF FamilyStale(s, f, s.proposal_recipes[f]) THEN {}
                                                  ELSE s.proposal_recipes[f]],
    !.realization_recipes = [f \in RealizationFamily |->
      IF FamilyStale(s, f, s.realization_recipes[f]) THEN {}
                                                     ELSE s.realization_recipes[f]],
    !.designated = s.designated \cap Supervised(s)]

\* preview and apply: neither evaluation may raise, and apply commits the
\* candidate of the preview.
Apply(candidate) ==
  /\ ~ Crosses(candidate)
  /\ ~ Crosses(ClearStale(candidate))
  /\ selection' = ClearStale(candidate)

\* _apply_structural_action: another branch drops the other branch's patch.
ChooseLegacy(s, o) ==
  [s EXCEPT !.legacy = o,
            !.generator = IF s.generator = o THEN o ELSE Unset]
ChooseGenerator(s, o) == [s EXCEPT !.generator = o]
ChooseRestart(s, o) == [s EXCEPT !.restart = o]
ChooseProposal(s, c, o) == [s EXCEPT !.proposal[c] = o]
\* Mutant of WithoutRecipesOf: only proposal families.
WithoutProposalRecipesOf(s, cases) ==
  [s EXCEPT
    !.proposal_recipes = [f \in ProposalFamily |->
      IF f \cap cases # {} THEN {} ELSE s.proposal_recipes[f]]]

\* _apply_purpose_action: a family with a case whose row changed loses all its
\* recipes.
WithoutRecipesOf(s, cases) ==
  [s EXCEPT
    !.proposal_recipes = [f \in ProposalFamily |->
      IF f \cap cases # {} THEN {} ELSE s.proposal_recipes[f]],
    !.realization_recipes = [f \in RealizationFamily |->
      IF f \cap cases # {} THEN {} ELSE s.realization_recipes[f]]]

AssignMembership(s, rows, o) ==
  WithoutRecipesOf(
    [s EXCEPT !.membership = [c \in Case |->
       IF c \in rows THEN o ELSE s.membership[c]]],
    {c \in rows : s.membership[c] # o})
\* Mutant of AssignGroup: only membership rows change cases.
AssignGroupOnly(s, rows, o) ==
  [s EXCEPT !.group = [g \in Group |-> IF g \in rows THEN o ELSE s.group[g]]]

AssignGroup(s, rows, o) ==
  WithoutRecipesOf(
    [s EXCEPT !.group = [g \in Group |-> IF g \in rows THEN o ELSE s.group[g]]],
    UNION {g \in rows : s.group[g] # o})

AssignHoldout(s, rows, o) ==
  [s EXCEPT !.holdout = [h \in Holdout |->
     IF h \in rows THEN o ELSE s.holdout[h]]]

AssignDenominator(s, rows, o) ==
  [s EXCEPT !.denominator = [d \in DenominatorRow |->
     IF d \in rows THEN o ELSE s.denominator[d]]]

\* _apply_recipe_action: the recipe of one purpose owns the family's cases of
\* that purpose.
Partition(s, f, p) == {c \in f : CasePurpose(s, c) = p}
Replaced(s, f, p, recipes) ==
  {r \in recipes : r.purpose # p} \cup {[purpose |-> p, members |-> Partition(s, f, p)]}
DecideProposal(s, f, p) ==
  [s EXCEPT !.proposal_recipes[f] = Replaced(s, f, p, @)]
DecideRealization(s, f, p) ==
  [s EXCEPT !.realization_recipes[f] = Replaced(s, f, p, @)]

\* _apply_designation_action: exceptions one at a time, supervised cases only.
Exceptions == DesignatedCase \ UNION Cohort
Designatable(s, cases) ==
  /\ cases # {}
  /\ cases \subseteq Supervised(s)
  /\ cases \cap Exceptions # {} => Cardinality(cases) = 1
Designate(s, cases) == [s EXCEPT !.designated = @ \cup cases]

\* What the session lets a reviewer preview, by kind of action.
StructuralCandidates(s) ==
  {ChooseLegacy(s, o) : o \in StructuralOptions.legacy}
  \cup {ChooseGenerator(s, o) : o \in StructuralOptions.generator}
  \cup {ChooseRestart(s, o) : o \in StructuralOptions.restart}
  \cup {ChooseProposal(s, c, o) :
          c \in CandidateCase, o \in StructuralOptions.proposal}

Rows(applicable) == SUBSET applicable \ {{}}

MembershipCandidates(s) ==
  UNION {{AssignMembership(s, rows, o) :
            o \in {o \in Purpose \cup StructuralOptions.restart \cup {ToGroup} :
                     \A c \in rows : o \in MembershipOptions(c)}} :
          rows \in Rows({c \in Case : CaseActive(s, c)})}
GroupCandidates(s) ==
  {AssignGroup(s, rows, o) :
     rows \in Rows({g \in Group : AllActive(s, g)}), o \in GroupOptions}
HoldoutCandidates(s) ==
  {AssignHoldout(s, rows, o) :
     rows \in Rows({h \in Holdout : AllActive(s, h)}), o \in HoldoutOptions}
DenominatorCandidates(s) ==
  {AssignDenominator(s, rows, o) :
     rows \in Rows(IF StructuralComplete(s) THEN DenominatorRow ELSE {}),
     o \in DenominatorOptions}
PurposeCandidates(s) ==
  MembershipCandidates(s) \cup GroupCandidates(s)
  \cup HoldoutCandidates(s) \cup DenominatorCandidates(s)

RecipeCandidates(s) ==
  {DecideProposal(s, x[1], x[2]) :
     x \in {x \in ProposalFamily \X Purpose : Partition(s, x[1], x[2]) # {}}}
  \cup {DecideRealization(s, x[1], x[2]) :
     x \in {x \in RealizationFamily \X Purpose : Partition(s, x[1], x[2]) # {}}}

DesignationCandidates(s) ==
  {Designate(s, cases) :
     cases \in {cases \in Rows(DesignatedCase) : Designatable(s, cases)}}

Candidates(s) ==
  StructuralCandidates(s) \cup PurposeCandidates(s)
  \cup RecipeCandidates(s) \cup DesignationCandidates(s)

StructuralAction == \E s \in StructuralCandidates(selection) : Apply(s)
PurposeAction == \E s \in PurposeCandidates(selection) : Apply(s)
RecipeAction == \E s \in RecipeCandidates(selection) : Apply(s)
DesignationAction == \E s \in DesignationCandidates(selection) : Apply(s)

SelectionNext ==
  StructuralAction \/ PurposeAction \/ RecipeAction \/ DesignationAction

SelectionSpec == SelectionInit /\ [][SelectionNext]_selection

-----------------------------------------------------------------------------
(* GuidedReviewService: the items it offers, in the order of the phases.   *)

\* _is_unresolved, by the kind of item.
GuidedStructural(s) ==
  {r \in {"legacy", "generator", "restart"} : s[r] = Unset}
  \cup {c \in CandidateCase : s.proposal[c] = Unset}
GuidedPurpose(s) ==
  {c \in Case : s.membership[c] = Unset}
  \cup {g \in Group : s.group[g] = Unset}
  \cup {h \in Holdout : s.holdout[h] = Unset}
  \cup {d \in DenominatorRow : s.denominator[d] = Unset}
GuidedFamily(s, families, recipes) ==
  {x \in families \X Purpose :
     /\ Partition(s, x[1], x[2]) # {}
     /\ \A r \in recipes[x[1]] : r.purpose # x[2]}
GuidedRecipe(s) ==
  GuidedFamily(s, ProposalFamily, s.proposal_recipes)
  \cup GuidedFamily(s, RealizationFamily, s.realization_recipes)
GuidedCohort(s) ==
  {h \in Cohort : h \subseteq Supervised(s) /\ h \cap s.designated = {}}
\* Mutant of GuidedCase: a case of a cohort is left to its cohort.
GuidedException(s) ==
  {c \in Supervised(s) \cap Exceptions : c \notin s.designated}

GuidedCase(s) ==
  {c \in Supervised(s) \cap DesignatedCase :
     c \notin s.designated /\ c \notin UNION GuidedCohort(s)}

\* next_item: no target is unresolved.
ExportOffered(s) ==
  /\ GuidedStructural(s) = {} /\ GuidedPurpose(s) = {} /\ GuidedRecipe(s) = {}
  /\ GuidedCohort(s) = {} /\ GuidedCase(s) = {}

-----------------------------------------------------------------------------
(* What must hold.                                                         *)

\* Clearing once is enough: nothing the working state holds is about a row
\* that does not apply, whatever branch, group or proposal changed before.
NothingStale == ~ Stale(selection)

\* No legal action is refused: after any sequence of decisions, evaluation
\* never meets a recipe that crosses purposes, so a reviewer is never stuck
\* with a state whose every action raises.
NoDecisionRefused ==
  \A s \in Candidates(selection) : ~ Crosses(s) /\ ~ Crosses(ClearStale(s))

\* A recipe owns exactly its family's cases of its purpose, although purposes
\* change later, directly, through groups, and by whole branches.
OwnsPartition(s, f, r) == r.members = Partition(s, f, r.purpose)
RecipesOwnTheirPartition ==
  /\ \A f \in ProposalFamily : \A r \in selection.proposal_recipes[f] :
       OwnsPartition(selection, f, r)
  /\ \A f \in RealizationFamily : \A r \in selection.realization_recipes[f] :
       OwnsPartition(selection, f, r)

\* When the guided review offers the export, nothing applicable is undecided:
\* its own notion of unresolved misses nothing that evaluate_selection counts.
ExportMeansDecided == ExportOffered(selection) => Decided(selection)

\* docs/superpowers/specs/2026-08-30-r4-1-guided-accountable-review-design.md:
\* "Inapplicable decisions are omitted using the existing server-side
\* applicability rules."
GuidedOffersApplicable ==
  StructuralComplete(selection) =>
    /\ \A c \in GuidedPurpose(selection) \cap Case : CaseActive(selection, c)
    /\ \A g \in GuidedPurpose(selection) \cap (Group \cup Holdout) :
         AllActive(selection, g)
=============================================================================
