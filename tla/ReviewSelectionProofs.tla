------------------------ MODULE ReviewSelectionProofs ------------------------
(***************************************************************************)
(* Proofs about ReviewSelection, for every set of cases, groups, holdouts, *)
(* families and cohorts.  An action makes a candidate and clears it; the   *)
(* invariant is that nothing in the result is stale and that its recipes   *)
(* own their partitions, and a candidate keeps as much of the latter as    *)
(* clearing needs.                                                         *)
(***************************************************************************)
EXTENDS ReviewSelection, TLAPS

\* The type invariant, of any selection.
Typed(s) ==
  /\ s \in Selections
  /\ \A c \in Case : s.membership[c] \in MembershipOptions(c) \cup {Unset}

\* The structural rows, on which applicability depends.
SameBranch(s, t) ==
  /\ s.legacy = t.legacy /\ s.generator = t.generator
  /\ s.restart = t.restart /\ s.proposal = t.proposal

\* The recipes of a family that all of whose cases are supervised own their
\* partition: clearing drops the others.
FamilyOwns(s, f, recipes) ==
  \A r \in recipes :
    r.members \subseteq Supervised(s) => OwnsPartition(s, f, r)
CurrentOwn(s) ==
  /\ \A f \in ProposalFamily : FamilyOwns(s, f, s.proposal_recipes[f])
  /\ \A f \in RealizationFamily : FamilyOwns(s, f, s.realization_recipes[f])

AllOwn(s) ==
  /\ \A f \in ProposalFamily : \A r \in s.proposal_recipes[f] : OwnsPartition(s, f, r)
  /\ \A f \in RealizationFamily :
       \A r \in s.realization_recipes[f] : OwnsPartition(s, f, r)

Good(s) == Typed(s) /\ ~ Stale(s) /\ AllOwn(s)

-----------------------------------------------------------------------------
(* Applicability and purposes.                                             *)

\* Applicability depends on the structural rows alone.
LEMMA SameActive ==
  ASSUME NEW s, NEW t, SameBranch(s, t)
  PROVE  /\ StructuralComplete(s) <=> StructuralComplete(t)
         /\ \A c \in Case : CaseActive(s, c) <=> CaseActive(t, c)
         /\ \A cases \in SUBSET Case : AllActive(s, cases) <=> AllActive(t, cases)
BY DEF SameBranch, StructuralComplete, CaseActive, AllActive

\* Groups, holdouts and families are sets of cases.
LEMMA GroupsAreCases ==
  /\ \A g \in Group : g \subseteq Case
  /\ \A h \in Holdout : h \subseteq Case
  /\ \A f \in ProposalFamily \cup RealizationFamily : f \subseteq Case
BY ReviewAssumption DEF Case

\* The purpose of a case depends on its row and, if it has one, its group's.
LEMMA SamePurpose ==
  ASSUME NEW s, Typed(s), NEW t, NEW c \in Case,
         StructuralComplete(s) <=> StructuralComplete(t),
         CaseActive(s, c) <=> CaseActive(t, c),
         CaseActive(s, c) => s.membership[c] = t.membership[c],
         \A g \in Group : c \in g =>
           /\ AllActive(s, g) <=> AllActive(t, g)
           /\ AllActive(s, g) => s.group[g] = t.group[g]
  PROVE  CasePurpose(s, c) = CasePurpose(t, c)
<1> DEFINE g == CHOOSE g \in Group : c \in g
<1>1. CASE ~ CaseActive(s, c)
  BY <1>1 DEF CasePurpose
<1>2. CASE CaseActive(s, c) /\ s.membership[c] # ToGroup
  BY <1>2 DEF CasePurpose
<1>3. CASE CaseActive(s, c) /\ s.membership[c] = ToGroup
  <2>1. \E h \in Group : c \in h
    BY <1>3, ReviewAssumption
    DEF Typed, MembershipOptions, StructuralOptions, ToGroup, Unset
  <2>2. g \in Group /\ c \in g
    BY <2>1
  <2> QED
    BY <1>3, <2>2 DEF CasePurpose
<1> QED
  BY <1>1, <1>2, <1>3

\* A purpose is one of the reviewed purposes, or none.
LEMMA PurposeType ==
  ASSUME NEW s, NEW c \in Case
  PROVE  CasePurpose(s, c) \in Purpose \cup {NoPurpose} /\ NoPurpose \notin Purpose
BY ReviewAssumption DEF CasePurpose

-----------------------------------------------------------------------------
(* Clearing.                                                               *)

\* What _clear_stale_refs leaves alone and what it takes.
LEMMA ClearShape ==
  ASSUME NEW s, Typed(s), NEW t, t = ClearStale(s)
  PROVE  /\ Typed(t) /\ SameBranch(s, t)
         /\ \A c \in Case : t.membership[c] =
              IF StaleMembership(s, c) THEN Unset ELSE s.membership[c]
         /\ \A g \in Group : t.group[g] = IF StaleGroup(s, g) THEN Unset ELSE s.group[g]
         /\ \A h \in Holdout : t.holdout[h] =
              IF StaleHoldout(s, h) THEN Unset ELSE s.holdout[h]
         /\ \A d \in DenominatorRow : t.denominator[d] =
              IF StaleDenominator(s, d) THEN Unset ELSE s.denominator[d]
         /\ \A f \in ProposalFamily : t.proposal_recipes[f] =
              IF FamilyStale(s, f, s.proposal_recipes[f]) THEN {}
                                                          ELSE s.proposal_recipes[f]
         /\ \A f \in RealizationFamily : t.realization_recipes[f] =
              IF FamilyStale(s, f, s.realization_recipes[f]) THEN {}
                                                   ELSE s.realization_recipes[f]
         /\ t.designated = s.designated \cap Supervised(s)
<1>1. s \in Selections
  BY DEF Typed
<1>2. /\ t.legacy = s.legacy /\ t.generator = s.generator /\ t.restart = s.restart
      /\ t.proposal = s.proposal
      /\ t.membership = [c \in Case |->
           IF StaleMembership(s, c) THEN Unset ELSE s.membership[c]]
      /\ t.group = [g \in Group |-> IF StaleGroup(s, g) THEN Unset ELSE s.group[g]]
      /\ t.holdout = [h \in Holdout |->
           IF StaleHoldout(s, h) THEN Unset ELSE s.holdout[h]]
      /\ t.denominator = [d \in DenominatorRow |->
           IF StaleDenominator(s, d) THEN Unset ELSE s.denominator[d]]
      /\ t.proposal_recipes = [f \in ProposalFamily |->
           IF FamilyStale(s, f, s.proposal_recipes[f]) THEN {}
                                                       ELSE s.proposal_recipes[f]]
      /\ t.realization_recipes = [f \in RealizationFamily |->
           IF FamilyStale(s, f, s.realization_recipes[f]) THEN {}
                                                   ELSE s.realization_recipes[f]]
      /\ t.designated = s.designated \cap Supervised(s)
  BY <1>1 DEF ClearStale, Selections
<1>3. t \in Selections
  <2>1. t = [legacy |-> t.legacy, generator |-> t.generator, restart |-> t.restart,
             proposal |-> t.proposal, membership |-> t.membership, group |-> t.group,
             holdout |-> t.holdout, denominator |-> t.denominator,
             proposal_recipes |-> t.proposal_recipes,
             realization_recipes |-> t.realization_recipes, designated |-> t.designated]
    BY <1>1 DEF ClearStale, Selections
  <2>2. /\ s.membership \in [Case -> MembershipRowOptions \cup {Unset}]
        /\ s.group \in [Group -> GroupOptions \cup {Unset}]
        /\ s.holdout \in [Holdout -> HoldoutOptions \cup {Unset}]
        /\ s.denominator \in [DenominatorRow -> DenominatorOptions \cup {Unset}]
        /\ s.proposal_recipes \in [ProposalFamily -> SUBSET Recipe]
        /\ s.realization_recipes \in [RealizationFamily -> SUBSET Recipe]
        /\ s.designated \in SUBSET DesignatedCase
        /\ s.legacy \in Branches \cup {Unset} /\ s.generator \in Branches \cup {Unset}
        /\ s.restart \in StructuralOptions.restart \cup {Unset}
        /\ s.proposal \in [CandidateCase -> StructuralOptions.proposal \cup {Unset}]
    BY <1>1 DEF Selections
  <2>3. /\ t.membership \in [Case -> MembershipRowOptions \cup {Unset}]
        /\ t.group \in [Group -> GroupOptions \cup {Unset}]
        /\ t.holdout \in [Holdout -> HoldoutOptions \cup {Unset}]
        /\ t.denominator \in [DenominatorRow -> DenominatorOptions \cup {Unset}]
        /\ t.proposal_recipes \in [ProposalFamily -> SUBSET Recipe]
        /\ t.realization_recipes \in [RealizationFamily -> SUBSET Recipe]
        /\ t.designated \in SUBSET DesignatedCase
    <3>0. t.membership \in [Case -> MembershipRowOptions \cup {Unset}]
      BY <1>2, <2>2
    <3>1. t.group \in [Group -> GroupOptions \cup {Unset}]
      BY <1>2, <2>2
    <3>2. /\ t.holdout \in [Holdout -> HoldoutOptions \cup {Unset}]
          /\ t.denominator \in [DenominatorRow -> DenominatorOptions \cup {Unset}]
      BY <1>2, <2>2
    <3>3. t.proposal_recipes \in [ProposalFamily -> SUBSET Recipe]
      BY <1>2, <2>2
    <3>4. t.realization_recipes \in [RealizationFamily -> SUBSET Recipe]
      BY <1>2, <2>2
    <3>5. t.designated \in SUBSET DesignatedCase
      BY <1>2, <2>2
    <3> QED
      BY <3>0, <3>1, <3>2, <3>3, <3>4, <3>5
  <2> QED
    BY <1>2, <2>1, <2>2, <2>3 DEF Selections
<1>4. \A c \in Case : t.membership[c] \in MembershipOptions(c) \cup {Unset}
  BY <1>2 DEF Typed
<1> QED
  BY <1>2, <1>3, <1>4 DEF Typed, SameBranch

\* Clearing changes no purpose: what it clears counted for nothing.
LEMMA ClearPurposes ==
  ASSUME NEW s, Typed(s), NEW t, t = ClearStale(s)
  PROVE  /\ \A c \in Case : CasePurpose(t, c) = CasePurpose(s, c)
         /\ Supervised(t) = Supervised(s)
<1>1. SameBranch(s, t)
  BY ClearShape
<1>2. ASSUME NEW c \in Case PROVE CasePurpose(t, c) = CasePurpose(s, c)
  <2>1. CaseActive(s, c) => s.membership[c] = t.membership[c]
    BY ClearShape DEF StaleMembership
  <2>2. \A g \in Group : AllActive(s, g) => s.group[g] = t.group[g]
    BY ClearShape DEF StaleGroup
  <2>3. \A g \in Group : AllActive(s, g) <=> AllActive(t, g)
    BY <1>1, SameActive, GroupsAreCases
  <2> QED
    BY <1>1, <2>1, <2>2, <2>3, SameActive, SamePurpose
<1> QED
  BY <1>2 DEF Supervised

\* One pass of clearing leaves nothing stale.
LEMMA ClearedIsFresh ==
  ASSUME NEW s, Typed(s) PROVE ~ Stale(ClearStale(s))
<1> DEFINE t == ClearStale(s)
<1> HIDE DEF t
<1>0. t = ClearStale(s)
  BY DEF t
<1>1. SameBranch(s, t) /\ Supervised(t) = Supervised(s)
  BY <1>0, ClearShape, ClearPurposes
<1>2. \A c \in Case : ~ StaleMembership(t, c)
  BY <1>0, <1>1, ClearShape, SameActive DEF StaleMembership
<1>3. \A g \in Group : ~ StaleGroup(t, g)
  BY <1>0, <1>1, ClearShape, SameActive, GroupsAreCases DEF StaleGroup
<1>4. \A h \in Holdout : ~ StaleHoldout(t, h)
  BY <1>0, <1>1, ClearShape, SameActive, GroupsAreCases DEF StaleHoldout
<1>5. \A d \in DenominatorRow : ~ StaleDenominator(t, d)
  BY <1>0, <1>1, ClearShape, SameActive DEF StaleDenominator
<1>6. ASSUME NEW f, NEW recipes
      PROVE  ~ FamilyStale(t, f, IF FamilyStale(s, f, recipes) THEN {} ELSE recipes)
  BY <1>1 DEF FamilyStale, Current
<1>7. /\ \A f \in ProposalFamily : ~ FamilyStale(t, f, t.proposal_recipes[f])
      /\ \A f \in RealizationFamily : ~ FamilyStale(t, f, t.realization_recipes[f])
  BY <1>0, <1>6, ClearShape
<1>8. t.designated \subseteq Supervised(t)
  BY <1>0, <1>1, ClearShape
<1> QED
  BY <1>0, <1>2, <1>3, <1>4, <1>5, <1>7, <1>8 DEF Stale

-----------------------------------------------------------------------------
(* Recipes.                                                                *)

\* The types of a family's recipes.
LEMMA RecipeTypes ==
  ASSUME NEW s, Typed(s)
  PROVE  /\ \A f \in ProposalFamily : s.proposal_recipes[f] \in SUBSET Recipe
         /\ \A f \in RealizationFamily : s.realization_recipes[f] \in SUBSET Recipe
BY DEF Typed, Selections

\* Recipes that own their partitions do not cross.
LEMMA OwnersDoNotCross ==
  ASSUME NEW s, NEW f \in SUBSET Case, NEW recipes \in SUBSET Recipe,
         FamilyOwns(s, f, recipes)
  PROVE  ~ FamilyCrosses(s, f, recipes)
<1> SUFFICES ASSUME NEW r \in Current(s, f, recipes), NEW c \in r.members
             PROVE  /\ CasePurpose(s, c) = r.purpose
                    /\ \A q \in Current(s, f, recipes) \ {r} : c \notin q.members
  BY DEF FamilyCrosses
<1>1. ASSUME NEW q \in Current(s, f, recipes)
      PROVE  q \in Recipe /\ q.members = {d \in f : CasePurpose(s, d) = q.purpose}
  BY <1>1 DEF Current, FamilyOwns, OwnsPartition, Partition
<1>2. CasePurpose(s, c) = r.purpose
  BY <1>1
<1>3. ASSUME NEW q \in Current(s, f, recipes) \ {r}, c \in q.members PROVE FALSE
  <2>1. q.purpose = r.purpose /\ q.members = r.members
    BY <1>1, <1>2, <1>3
  <2>2. q \in Recipe /\ r \in Recipe
    BY <1>1
  <2>3. q = r
    BY <2>1, <2>2 DEF Recipe
  <2> QED
    BY <1>3, <2>3
<1> QED
  BY <1>2, <1>3

\* Nor does a whole selection of such recipes.
LEMMA OwnedDoesNotCross ==
  ASSUME NEW s, Typed(s), CurrentOwn(s) PROVE ~ Crosses(s)
<1>1. \A f \in ProposalFamily : ~ FamilyCrosses(s, f, s.proposal_recipes[f])
  BY OwnersDoNotCross, GroupsAreCases, RecipeTypes DEF CurrentOwn
<1>2. \A f \in RealizationFamily : ~ FamilyCrosses(s, f, s.realization_recipes[f])
  BY OwnersDoNotCross, GroupsAreCases, RecipeTypes DEF CurrentOwn
<1> QED
  BY <1>1, <1>2 DEF Crosses

\* What clearing leaves owns its partition.
LEMMA ClearedOwns ==
  ASSUME NEW s, Typed(s), CurrentOwn(s) PROVE AllOwn(ClearStale(s))
<1> DEFINE t == ClearStale(s)
<1> HIDE DEF t
<1>0. t = ClearStale(s)
  BY DEF t
<1>1. ASSUME NEW f \in SUBSET Case, NEW p PROVE Partition(t, f, p) = Partition(s, f, p)
  BY <1>0, ClearPurposes DEF Partition
<1>2. ASSUME NEW f \in SUBSET Case, NEW recipes, FamilyOwns(s, f, recipes),
             NEW r \in IF FamilyStale(s, f, recipes) THEN {} ELSE recipes
      PROVE  OwnsPartition(t, f, r)
  <2>1. r \in Current(s, f, recipes)
    BY <1>2 DEF FamilyStale
  <2>2. OwnsPartition(s, f, r)
    BY <1>2, <2>1 DEF Current, FamilyOwns
  <2> QED
    BY <1>1, <2>2 DEF OwnsPartition
<1>3. ASSUME NEW f \in ProposalFamily, NEW r \in t.proposal_recipes[f]
      PROVE  OwnsPartition(t, f, r)
  <2>1. FamilyOwns(s, f, s.proposal_recipes[f])
    BY DEF CurrentOwn
  <2>2. r \in IF FamilyStale(s, f, s.proposal_recipes[f]) THEN {}
                                                    ELSE s.proposal_recipes[f]
    BY <1>0, <1>3, ClearShape
  <2> QED
    BY <1>2, <2>1, <2>2, GroupsAreCases
<1>4. ASSUME NEW f \in RealizationFamily, NEW r \in t.realization_recipes[f]
      PROVE  OwnsPartition(t, f, r)
  <2>1. FamilyOwns(s, f, s.realization_recipes[f])
    BY DEF CurrentOwn
  <2>2. r \in IF FamilyStale(s, f, s.realization_recipes[f]) THEN {}
                                                       ELSE s.realization_recipes[f]
    BY <1>0, <1>4, ClearShape
  <2> QED
    BY <1>2, <2>1, <2>2, GroupsAreCases
<1> QED
  BY <1>0, <1>3, <1>4 DEF AllOwn

\* A candidate whose current recipes own their partitions is accepted, and
\* makes a good selection.
LEMMA AcceptedIsGood ==
  ASSUME NEW s, Typed(s), CurrentOwn(s)
  PROVE  /\ ~ Crosses(s) /\ ~ Crosses(ClearStale(s))
         /\ Good(ClearStale(s))
<1>1. Typed(ClearStale(s))
  BY ClearShape
<1>2. AllOwn(ClearStale(s))
  BY ClearedOwns
<1>3. CurrentOwn(ClearStale(s))
  BY <1>2 DEF AllOwn, CurrentOwn, FamilyOwns
<1> QED
  BY <1>1, <1>2, <1>3, OwnedDoesNotCross, ClearedIsFresh DEF Good

-----------------------------------------------------------------------------
(* Candidates.                                                             *)

\* A structural decision takes purposes away and gives none: the rows of what
\* becomes applicable are undecided.
LEMMA StructuralTakes ==
  ASSUME NEW s, Good(s), NEW t, t.membership = s.membership, t.group = s.group,
         NEW c \in Case
  PROVE  CasePurpose(t, c) \in {CasePurpose(s, c), NoPurpose}
<1> DEFINE g == CHOOSE g \in Group : c \in g
<1> USE ReviewAssumption
<1>1. CASE ~ CaseActive(t, c)
  BY <1>1 DEF CasePurpose
<1>2. CASE CaseActive(t, c) /\ ~ CaseActive(s, c)
  <2>1. t.membership[c] = Unset
    BY <1>2 DEF Good, Stale, StaleMembership
  <2> QED
    BY <1>2, <2>1 DEF CasePurpose, Unset, ToGroup
<1>3. CASE CaseActive(t, c) /\ CaseActive(s, c) /\ t.membership[c] # ToGroup
  BY <1>3 DEF CasePurpose
<1>4. CASE CaseActive(t, c) /\ CaseActive(s, c) /\ t.membership[c] = ToGroup
  <2>1. \E h \in Group : c \in h
    BY <1>4 DEF Good, Typed, MembershipOptions, StructuralOptions, ToGroup, Unset
  <2>2. g \in Group
    BY <2>1
  <2>3. AllActive(s, g) \/ s.group[g] = Unset
    BY <2>2 DEF Good, Stale, StaleGroup
  <2> HIDE DEF g
  <2>4. ToGroup \notin Purpose /\ Unset \notin Purpose
    OBVIOUS
  <2>5. CasePurpose(t, c) = IF AllActive(t, g) /\ t.group[g] \in Purpose
                              THEN t.group[g] ELSE NoPurpose
    BY <1>4, <2>4 DEF CasePurpose, g
  <2>6. CasePurpose(s, c) = IF AllActive(s, g) /\ s.group[g] \in Purpose
                              THEN s.group[g] ELSE NoPurpose
    BY <1>4, <2>4 DEF CasePurpose, g
  <2> QED
    BY <2>3, <2>4, <2>5, <2>6
<1> QED
  BY <1>1, <1>2, <1>3, <1>4

\* A family keeps its ownership when its cases keep or lose their purposes.
LEMMA LosingKeepsOwners ==
  ASSUME NEW s, NEW t, NEW f \in SUBSET Case, NEW recipes \in SUBSET Recipe,
         \A r \in recipes : OwnsPartition(s, f, r),
         \A c \in f : CasePurpose(t, c) \in {CasePurpose(s, c), NoPurpose}
  PROVE  FamilyOwns(t, f, recipes)
<1> SUFFICES ASSUME NEW r \in recipes, r.members \subseteq Supervised(t)
             PROVE  r.members = {c \in f : CasePurpose(t, c) = r.purpose}
  BY DEF FamilyOwns, OwnsPartition, Partition
<1>1. r.members = {c \in f : CasePurpose(s, c) = r.purpose}
  BY DEF OwnsPartition, Partition
<1>2. r.purpose \in Purpose /\ NoPurpose \notin Purpose
  BY ReviewAssumption DEF Recipe
<1>3. \A c \in r.members : CasePurpose(t, c) # NoPurpose
  BY DEF Supervised
<1> QED
  BY <1>1, <1>2, <1>3

\* So a structural decision keeps the ownership of what stays current.
LEMMA StructuralOwns ==
  ASSUME NEW s, Good(s), NEW t, t.membership = s.membership, t.group = s.group,
         t.proposal_recipes = s.proposal_recipes,
         t.realization_recipes = s.realization_recipes
  PROVE  CurrentOwn(t)
<1>1. \A c \in Case : CasePurpose(t, c) \in {CasePurpose(s, c), NoPurpose}
  BY StructuralTakes
<1>2. ASSUME NEW f \in ProposalFamily PROVE FamilyOwns(t, f, t.proposal_recipes[f])
  BY <1>1, LosingKeepsOwners, GroupsAreCases, RecipeTypes DEF Good, AllOwn
<1>3. ASSUME NEW f \in RealizationFamily
      PROVE  FamilyOwns(t, f, t.realization_recipes[f])
  BY <1>1, LosingKeepsOwners, GroupsAreCases, RecipeTypes DEF Good, AllOwn
<1> QED
  BY <1>2, <1>3 DEF CurrentOwn

\* A purpose decision forgets the recipes of every family with a case whose
\* purpose it may change.
LEMMA PurposeOwns ==
  ASSUME NEW s, Good(s), NEW t, NEW cases,
         \A c \in Case \ cases : CasePurpose(t, c) = CasePurpose(s, c),
         \A f \in ProposalFamily : t.proposal_recipes[f] =
           IF f \cap cases # {} THEN {} ELSE s.proposal_recipes[f],
         \A f \in RealizationFamily : t.realization_recipes[f] =
           IF f \cap cases # {} THEN {} ELSE s.realization_recipes[f]
  PROVE  CurrentOwn(t)
<1>1. ASSUME NEW f \in ProposalFamily PROVE FamilyOwns(t, f, t.proposal_recipes[f])
  <2>1. CASE f \cap cases # {}
    BY <2>1 DEF FamilyOwns
  <2>2. CASE f \cap cases = {}
    <3>1. \A c \in f : CasePurpose(t, c) = CasePurpose(s, c)
      BY <2>2, GroupsAreCases
    <3> QED
      BY <2>2, <3>1, LosingKeepsOwners, GroupsAreCases, RecipeTypes DEF Good, AllOwn
  <2> QED
    BY <2>1, <2>2
<1>2. ASSUME NEW f \in RealizationFamily
      PROVE  FamilyOwns(t, f, t.realization_recipes[f])
  <2>1. CASE f \cap cases # {}
    BY <2>1 DEF FamilyOwns
  <2>2. CASE f \cap cases = {}
    <3>1. \A c \in f : CasePurpose(t, c) = CasePurpose(s, c)
      BY <2>2, GroupsAreCases
    <3> QED
      BY <2>2, <3>1, LosingKeepsOwners, GroupsAreCases, RecipeTypes DEF Good, AllOwn
  <2> QED
    BY <2>1, <2>2
<1> QED
  BY <1>1, <1>2 DEF CurrentOwn

\* What each kind of decision changes, field by field.
LEMMA StructuralTyped ==
  ASSUME NEW s, Typed(s), NEW t \in StructuralCandidates(s)
  PROVE  /\ Typed(t) /\ t.membership = s.membership /\ t.group = s.group
         /\ t.proposal_recipes = s.proposal_recipes
         /\ t.realization_recipes = s.realization_recipes
<1>0. s \in Selections
  BY DEF Typed
<1>1. CASE \E o \in StructuralOptions.legacy : t = ChooseLegacy(s, o)
  <2> PICK o \in StructuralOptions.legacy : t = ChooseLegacy(s, o)
    BY <1>1
  <2>1. o \in Branches
    BY DEF StructuralOptions
  <2>2. t \in Selections /\ t.membership = s.membership /\ t.group = s.group
        /\ t.proposal_recipes = s.proposal_recipes
        /\ t.realization_recipes = s.realization_recipes
    BY <1>0, <2>1 DEF ChooseLegacy, Selections
  <2> QED
    BY <2>2 DEF Typed
<1>2. CASE \E o \in StructuralOptions.generator : t = ChooseGenerator(s, o)
  <2> PICK o \in StructuralOptions.generator : t = ChooseGenerator(s, o)
    BY <1>2
  <2>1. o \in Branches
    BY DEF StructuralOptions
  <2>2. t \in Selections /\ t.membership = s.membership /\ t.group = s.group
        /\ t.proposal_recipes = s.proposal_recipes
        /\ t.realization_recipes = s.realization_recipes
    BY <1>0, <2>1 DEF ChooseGenerator, Selections
  <2> QED
    BY <2>2 DEF Typed
<1>3. CASE \E o \in StructuralOptions.restart : t = ChooseRestart(s, o)
  <2> PICK o \in StructuralOptions.restart : t = ChooseRestart(s, o)
    BY <1>3
  <2>2. t \in Selections /\ t.membership = s.membership /\ t.group = s.group
        /\ t.proposal_recipes = s.proposal_recipes
        /\ t.realization_recipes = s.realization_recipes
    BY <1>0 DEF ChooseRestart, Selections
  <2> QED
    BY <2>2 DEF Typed
<1>4. CASE \E c \in CandidateCase, o \in StructuralOptions.proposal :
             t = ChooseProposal(s, c, o)
  <2> PICK c \in CandidateCase, o \in StructuralOptions.proposal :
        t = ChooseProposal(s, c, o)
    BY <1>4
  <2>2. t \in Selections /\ t.membership = s.membership /\ t.group = s.group
        /\ t.proposal_recipes = s.proposal_recipes
        /\ t.realization_recipes = s.realization_recipes
    BY <1>0 DEF ChooseProposal, Selections
  <2> QED
    BY <2>2 DEF Typed
<1> QED
  BY <1>1, <1>2, <1>3, <1>4 DEF StructuralCandidates

\* Forgetting the recipes of some cases.
LEMMA WithoutShape ==
  ASSUME NEW s, s \in Selections, NEW cases, NEW t, t = WithoutRecipesOf(s, cases)
  PROVE  /\ t \in Selections /\ SameBranch(s, t)
         /\ t.membership = s.membership /\ t.group = s.group
         /\ \A f \in ProposalFamily : t.proposal_recipes[f] =
              IF f \cap cases # {} THEN {} ELSE s.proposal_recipes[f]
         /\ \A f \in RealizationFamily : t.realization_recipes[f] =
              IF f \cap cases # {} THEN {} ELSE s.realization_recipes[f]
<1>1. s.proposal_recipes \in [ProposalFamily -> SUBSET Recipe]
      /\ s.realization_recipes \in [RealizationFamily -> SUBSET Recipe]
  BY DEF Selections
<1> DEFINE P == [f \in ProposalFamily |->
             IF f \cap cases # {} THEN {} ELSE s.proposal_recipes[f]]
           R == [f \in RealizationFamily |->
             IF f \cap cases # {} THEN {} ELSE s.realization_recipes[f]]
<1>2. P \in [ProposalFamily -> SUBSET Recipe] /\ R \in [RealizationFamily -> SUBSET Recipe]
  BY <1>1
<1>3. /\ \A f \in ProposalFamily : P[f] =
           IF f \cap cases # {} THEN {} ELSE s.proposal_recipes[f]
      /\ \A f \in RealizationFamily : R[f] =
           IF f \cap cases # {} THEN {} ELSE s.realization_recipes[f]
  OBVIOUS
<1>4. t = [s EXCEPT !.proposal_recipes = P, !.realization_recipes = R]
  BY DEF WithoutRecipesOf
<1> HIDE DEF P, R
<1>5. t \in Selections
  BY <1>2, <1>4 DEF Selections
<1>6. t.proposal_recipes = P /\ t.realization_recipes = R
      /\ t.membership = s.membership /\ t.group = s.group /\ SameBranch(s, t)
  BY <1>4 DEF Selections, SameBranch
<1> QED
  BY <1>3, <1>5, <1>6

\* A decision about membership rows is typed and keeps ownership.
LEMMA MembershipOwns ==
  ASSUME NEW s, Good(s), NEW rows \in SUBSET Case, NEW o,
         \A c \in rows : o \in MembershipOptions(c)
  PROVE  Typed(AssignMembership(s, rows, o)) /\ CurrentOwn(AssignMembership(s, rows, o))
<1> DEFINE cases == {c \in rows : s.membership[c] # o}
           M == [c \in Case |-> IF c \in rows THEN o ELSE s.membership[c]]
           u == [s EXCEPT !.membership = M]
           t == WithoutRecipesOf(u, cases)
<1>1. s \in Selections /\ Typed(s)
  BY DEF Good, Typed
<1>2. M \in [Case -> MembershipRowOptions \cup {Unset}]
  <2>1. \A c \in rows : o \in MembershipRowOptions
    BY DEF MembershipRowOptions
  <2>2. s.membership \in [Case -> MembershipRowOptions \cup {Unset}]
    BY <1>1 DEF Selections
  <2> QED
    BY <2>1, <2>2
<1>3. \A c \in Case : M[c] = IF c \in rows THEN o ELSE s.membership[c]
  OBVIOUS
<1>4. t = AssignMembership(s, rows, o)
  BY DEF AssignMembership
<1> HIDE DEF M
<1>5. /\ u \in Selections /\ u.membership = M /\ u.group = s.group /\ SameBranch(s, u)
      /\ u.proposal_recipes = s.proposal_recipes
      /\ u.realization_recipes = s.realization_recipes
  BY <1>1, <1>2 DEF Selections, SameBranch
<1> HIDE DEF u
<1> HIDE DEF cases
<1>6. /\ t \in Selections /\ SameBranch(u, t)
      /\ t.membership = M /\ t.group = s.group
      /\ \A f \in ProposalFamily : t.proposal_recipes[f] =
           IF f \cap cases # {} THEN {} ELSE s.proposal_recipes[f]
      /\ \A f \in RealizationFamily : t.realization_recipes[f] =
           IF f \cap cases # {} THEN {} ELSE s.realization_recipes[f]
  BY <1>5, WithoutShape
<1> HIDE DEF t
<1>7. Typed(t)
  <2>1. \A c \in Case : M[c] \in MembershipOptions(c) \cup {Unset}
    <3>1. \A c \in Case : s.membership[c] \in MembershipOptions(c) \cup {Unset}
      BY <1>1 DEF Typed
    <3> QED
      BY <1>3, <3>1
  <2> QED
    BY <1>6, <2>1 DEF Typed
<1>8. SameBranch(s, t)
  BY <1>5, <1>6 DEF SameBranch
<1>9. ASSUME NEW c \in Case \ cases PROVE CasePurpose(t, c) = CasePurpose(s, c)
  <2>1. s.membership[c] = t.membership[c]
    BY <1>3, <1>6 DEF cases
  <2>2. \A g \in Group : AllActive(s, g) <=> AllActive(t, g)
    BY <1>8, SameActive, GroupsAreCases
  <2>3. /\ StructuralComplete(s) <=> StructuralComplete(t)
        /\ CaseActive(s, c) <=> CaseActive(t, c)
    BY <1>8, SameActive
  <2> QED
    BY <1>1, <1>6, <2>1, <2>2, <2>3, SamePurpose
<1>10. CurrentOwn(t)
  <2>1. \A c \in Case \ cases : CasePurpose(t, c) = CasePurpose(s, c)
    BY <1>9
  <2>2. \A f \in ProposalFamily : t.proposal_recipes[f] =
          IF f \cap cases # {} THEN {} ELSE s.proposal_recipes[f]
    BY <1>6
  <2>3. \A f \in RealizationFamily : t.realization_recipes[f] =
          IF f \cap cases # {} THEN {} ELSE s.realization_recipes[f]
    BY <1>6
  <2> QED
    BY <2>1, <2>2, <2>3, PurposeOwns
<1> QED
  BY <1>4, <1>7, <1>10

\* So is one about groups: the cases of a changed group lose their recipes.
LEMMA GroupOwns ==
  ASSUME NEW s, Good(s), NEW rows \in SUBSET Group, NEW o \in GroupOptions
  PROVE  Typed(AssignGroup(s, rows, o)) /\ CurrentOwn(AssignGroup(s, rows, o))
<1> DEFINE cases == UNION {g \in rows : s.group[g] # o}
           G == [g \in Group |-> IF g \in rows THEN o ELSE s.group[g]]
           u == [s EXCEPT !.group = G]
           t == WithoutRecipesOf(u, cases)
<1>1. s \in Selections /\ Typed(s)
  BY DEF Good, Typed
<1>2. G \in [Group -> GroupOptions \cup {Unset}]
  <2>1. s.group \in [Group -> GroupOptions \cup {Unset}]
    BY <1>1 DEF Selections
  <2> QED
    BY <2>1
<1>3. \A g \in Group : G[g] = IF g \in rows THEN o ELSE s.group[g]
  OBVIOUS
<1>4. t = AssignGroup(s, rows, o)
  BY DEF AssignGroup
<1> HIDE DEF G
<1>5. /\ u \in Selections /\ u.membership = s.membership /\ u.group = G
      /\ SameBranch(s, u)
      /\ u.proposal_recipes = s.proposal_recipes
      /\ u.realization_recipes = s.realization_recipes
  BY <1>1, <1>2 DEF Selections, SameBranch
<1> HIDE DEF u
<1> HIDE DEF cases
<1>6. /\ t \in Selections /\ SameBranch(u, t)
      /\ t.membership = s.membership /\ t.group = G
      /\ \A f \in ProposalFamily : t.proposal_recipes[f] =
           IF f \cap cases # {} THEN {} ELSE s.proposal_recipes[f]
      /\ \A f \in RealizationFamily : t.realization_recipes[f] =
           IF f \cap cases # {} THEN {} ELSE s.realization_recipes[f]
  BY <1>5, WithoutShape
<1> HIDE DEF t
<1>7. Typed(t)
  BY <1>1, <1>6 DEF Typed
<1>8. SameBranch(s, t)
  BY <1>5, <1>6 DEF SameBranch
<1>9. ASSUME NEW c \in Case \ cases PROVE CasePurpose(t, c) = CasePurpose(s, c)
  <2>1. \A g \in Group : c \in g => s.group[g] = t.group[g]
    BY <1>3, <1>6 DEF cases
  <2>2. \A g \in Group : AllActive(s, g) <=> AllActive(t, g)
    BY <1>8, SameActive, GroupsAreCases
  <2>3. /\ StructuralComplete(s) <=> StructuralComplete(t)
        /\ CaseActive(s, c) <=> CaseActive(t, c)
    BY <1>8, SameActive
  <2> QED
    BY <1>1, <1>6, <2>1, <2>2, <2>3, SamePurpose
<1>10. CurrentOwn(t)
  <2>1. \A c \in Case \ cases : CasePurpose(t, c) = CasePurpose(s, c)
    BY <1>9
  <2>2. \A f \in ProposalFamily : t.proposal_recipes[f] =
          IF f \cap cases # {} THEN {} ELSE s.proposal_recipes[f]
    BY <1>6
  <2>3. \A f \in RealizationFamily : t.realization_recipes[f] =
          IF f \cap cases # {} THEN {} ELSE s.realization_recipes[f]
    BY <1>6
  <2> QED
    BY <2>1, <2>2, <2>3, PurposeOwns
<1> QED
  BY <1>4, <1>7, <1>10

\* A change of other rows leaves purposes and recipes as they were.
LEMMA OtherRowsOwn ==
  ASSUME NEW s, Good(s), NEW t, Typed(t), SameBranch(s, t),
         t.membership = s.membership, t.group = s.group,
         t.proposal_recipes = s.proposal_recipes,
         t.realization_recipes = s.realization_recipes
  PROVE  CurrentOwn(t)
BY StructuralOwns

\* Every purpose action makes a candidate of that kind ...
LEMMA PurposeCandidatesOwn ==
  ASSUME NEW s, Good(s), NEW t \in PurposeCandidates(s)
  PROVE  Typed(t) /\ CurrentOwn(t)
<1>0. s \in Selections /\ Typed(s)
  BY DEF Good, Typed
<1>1. CASE t \in MembershipCandidates(s)
  <2> PICK rows \in Rows({c \in Case : CaseActive(s, c)}),
           o \in Purpose \cup StructuralOptions.restart \cup {ToGroup} :
        /\ \A c \in rows : o \in MembershipOptions(c)
        /\ t = AssignMembership(s, rows, o)
    BY <1>1 DEF MembershipCandidates
  <2>1. rows \in SUBSET Case
    BY DEF Rows
  <2> QED
    BY <2>1, MembershipOwns
<1>2. CASE t \in GroupCandidates(s)
  <2> PICK rows \in Rows({g \in Group : AllActive(s, g)}), o \in GroupOptions :
        t = AssignGroup(s, rows, o)
    BY <1>2 DEF GroupCandidates
  <2> QED
    BY GroupOwns DEF Rows
<1>3. CASE t \in HoldoutCandidates(s)
  <2> PICK rows \in Rows({h \in Holdout : AllActive(s, h)}), o \in HoldoutOptions :
        t = AssignHoldout(s, rows, o)
    BY <1>3 DEF HoldoutCandidates
  <2> DEFINE H == [h \in Holdout |-> IF h \in rows THEN o ELSE s.holdout[h]]
  <2>1. H \in [Holdout -> HoldoutOptions \cup {Unset}]
    BY <1>0 DEF Selections
  <2>2. t = [s EXCEPT !.holdout = H]
    BY DEF AssignHoldout
  <2> HIDE DEF H
  <2>3. /\ t \in Selections /\ SameBranch(s, t)
        /\ t.membership = s.membership /\ t.group = s.group
        /\ t.proposal_recipes = s.proposal_recipes
        /\ t.realization_recipes = s.realization_recipes
    BY <1>0, <2>1, <2>2 DEF Selections, SameBranch
  <2>4. Typed(t)
    BY <1>0, <2>3 DEF Typed
  <2> QED
    BY <2>3, <2>4, OtherRowsOwn
<1>4. CASE t \in DenominatorCandidates(s)
  <2> PICK rows \in Rows(IF StructuralComplete(s) THEN DenominatorRow ELSE {}),
           o \in DenominatorOptions : t = AssignDenominator(s, rows, o)
    BY <1>4 DEF DenominatorCandidates
  <2> DEFINE H == [d \in DenominatorRow |-> IF d \in rows THEN o ELSE s.denominator[d]]
  <2>1. H \in [DenominatorRow -> DenominatorOptions \cup {Unset}]
    BY <1>0 DEF Selections
  <2>2. t = [s EXCEPT !.denominator = H]
    BY DEF AssignDenominator
  <2> HIDE DEF H
  <2>3. /\ t \in Selections /\ SameBranch(s, t)
        /\ t.membership = s.membership /\ t.group = s.group
        /\ t.proposal_recipes = s.proposal_recipes
        /\ t.realization_recipes = s.realization_recipes
    BY <1>0, <2>1, <2>2 DEF Selections, SameBranch
  <2>4. Typed(t)
    BY <1>0, <2>3 DEF Typed
  <2> QED
    BY <2>3, <2>4, OtherRowsOwn
<1> QED
  BY <1>1, <1>2, <1>3, <1>4 DEF PurposeCandidates

\* A replaced recipe owns its partition too.
LEMMA ReplacedOwns ==
  ASSUME NEW s, NEW f \in SUBSET Case, NEW p \in Purpose, NEW recipes \in SUBSET Recipe,
         \A r \in recipes : OwnsPartition(s, f, r)
  PROVE  /\ Replaced(s, f, p, recipes) \in SUBSET Recipe
         /\ \A r \in Replaced(s, f, p, recipes) : OwnsPartition(s, f, r)
<1>1. [purpose |-> p, members |-> Partition(s, f, p)] \in Recipe
  BY DEF Recipe, Partition
<1> QED
  BY <1>1 DEF Replaced, OwnsPartition

\* ... and every recipe action: its new recipe is the partition itself ...
LEMMA RecipeCandidatesOwn ==
  ASSUME NEW s, Good(s), NEW t \in RecipeCandidates(s)
  PROVE  Typed(t) /\ CurrentOwn(t)
<1>0. s \in Selections /\ Typed(s)
  BY DEF Good, Typed
<1>1. CASE \E f \in ProposalFamily, p \in Purpose : t = DecideProposal(s, f, p)
  <2> PICK f \in ProposalFamily, p \in Purpose : t = DecideProposal(s, f, p)
    BY <1>1
  <2> DEFINE new == Replaced(s, f, p, s.proposal_recipes[f])
             P == [s.proposal_recipes EXCEPT ![f] = new]
  <2>1. new \in SUBSET Recipe /\ \A r \in new : OwnsPartition(s, f, r)
    BY <1>0, GroupsAreCases, RecipeTypes, ReplacedOwns DEF Good, AllOwn
  <2> HIDE DEF new
  <2>2. P \in [ProposalFamily -> SUBSET Recipe]
        /\ \A k \in ProposalFamily : \A r \in P[k] : OwnsPartition(s, k, r)
    BY <1>0, <2>1 DEF Good, AllOwn, Selections
  <2>3. t = [s EXCEPT !.proposal_recipes = P]
    BY <1>0 DEF DecideProposal, new, Selections
  <2> HIDE DEF P
  <2>4. /\ t \in Selections /\ SameBranch(s, t)
        /\ t.membership = s.membership /\ t.group = s.group
        /\ t.proposal_recipes = P /\ t.realization_recipes = s.realization_recipes
    BY <1>0, <2>2, <2>3 DEF Selections, SameBranch
  <2>5. Typed(t)
    BY <1>0, <2>4 DEF Typed
  <2>6. \A c \in Case : CasePurpose(t, c) = CasePurpose(s, c)
    <3> TAKE c \in Case
    <3>1. \A g \in Group : AllActive(s, g) <=> AllActive(t, g)
      BY <2>4, SameActive, GroupsAreCases
    <3> QED
      BY <1>0, <2>4, <3>1, SameActive, SamePurpose
  <2>7. ASSUME NEW k \in SUBSET Case, NEW r, OwnsPartition(s, k, r)
        PROVE  OwnsPartition(t, k, r)
    BY <2>6, <2>7 DEF OwnsPartition, Partition
  <2> QED
    BY <2>2, <2>4, <2>5, <2>7, GroupsAreCases DEF CurrentOwn, FamilyOwns, Good, AllOwn
<1>2. CASE \E f \in RealizationFamily, p \in Purpose : t = DecideRealization(s, f, p)
  <2> PICK f \in RealizationFamily, p \in Purpose : t = DecideRealization(s, f, p)
    BY <1>2
  <2> DEFINE new == Replaced(s, f, p, s.realization_recipes[f])
             P == [s.realization_recipes EXCEPT ![f] = new]
  <2>1. new \in SUBSET Recipe /\ \A r \in new : OwnsPartition(s, f, r)
    BY <1>0, GroupsAreCases, RecipeTypes, ReplacedOwns DEF Good, AllOwn
  <2> HIDE DEF new
  <2>2. P \in [RealizationFamily -> SUBSET Recipe]
        /\ \A k \in RealizationFamily : \A r \in P[k] : OwnsPartition(s, k, r)
    BY <1>0, <2>1 DEF Good, AllOwn, Selections
  <2>3. t = [s EXCEPT !.realization_recipes = P]
    BY <1>0 DEF DecideRealization, new, Selections
  <2> HIDE DEF P
  <2>4. /\ t \in Selections /\ SameBranch(s, t)
        /\ t.membership = s.membership /\ t.group = s.group
        /\ t.realization_recipes = P /\ t.proposal_recipes = s.proposal_recipes
    BY <1>0, <2>2, <2>3 DEF Selections, SameBranch
  <2>5. Typed(t)
    BY <1>0, <2>4 DEF Typed
  <2>6. \A c \in Case : CasePurpose(t, c) = CasePurpose(s, c)
    <3> TAKE c \in Case
    <3>1. \A g \in Group : AllActive(s, g) <=> AllActive(t, g)
      BY <2>4, SameActive, GroupsAreCases
    <3> QED
      BY <1>0, <2>4, <3>1, SameActive, SamePurpose
  <2>7. ASSUME NEW k \in SUBSET Case, NEW r, OwnsPartition(s, k, r)
        PROVE  OwnsPartition(t, k, r)
    BY <2>6, <2>7 DEF OwnsPartition, Partition
  <2> QED
    BY <2>2, <2>4, <2>5, <2>7, GroupsAreCases DEF CurrentOwn, FamilyOwns, Good, AllOwn
<1> QED
  BY <1>1, <1>2 DEF RecipeCandidates

\* ... and every designation, which touches no purpose and no recipe.
LEMMA DesignationCandidatesOwn ==
  ASSUME NEW s, Good(s), NEW t \in DesignationCandidates(s)
  PROVE  Typed(t) /\ CurrentOwn(t)
<1>0. s \in Selections /\ Typed(s)
  BY DEF Good, Typed
<1> PICK cases \in Rows(DesignatedCase) : t = Designate(s, cases)
  BY DEF DesignationCandidates
<1>1. s.designated \cup cases \in SUBSET DesignatedCase
  BY <1>0 DEF Rows, Selections
<1>2. t = [s EXCEPT !.designated = s.designated \cup cases]
  BY DEF Designate
<1>3. /\ t \in Selections /\ SameBranch(s, t)
      /\ t.membership = s.membership /\ t.group = s.group
      /\ t.proposal_recipes = s.proposal_recipes
      /\ t.realization_recipes = s.realization_recipes
  BY <1>0, <1>1, <1>2 DEF Selections, SameBranch
<1>4. Typed(t)
  BY <1>0, <1>3 DEF Typed
<1> QED
  BY <1>3, <1>4, OtherRowsOwn

\* Every candidate of a good selection is accepted.
LEMMA CandidatesOwn ==
  ASSUME NEW s, Good(s), NEW t \in Candidates(s)
  PROVE  Typed(t) /\ CurrentOwn(t)
<1>1. CASE t \in StructuralCandidates(s)
  <2>1. Typed(s)
    BY DEF Good
  <2> QED
    BY <1>1, <2>1, StructuralTyped, StructuralOwns
<1> QED
  BY <1>1, PurposeCandidatesOwn, RecipeCandidatesOwn, DesignationCandidatesOwn
  DEF Candidates

-----------------------------------------------------------------------------
(* The invariant, and what follows from it.                                *)

\* The template decides nothing, so nothing of it is stale.
LEMMA TemplateIsGood == Good(Template)
<1>1. /\ Template.legacy = Unset
      /\ Template.membership = [c \in Case |-> Unset]
      /\ Template.group = [g \in Group |-> Unset]
      /\ Template.holdout = [h \in Holdout |-> Unset]
      /\ Template.denominator = [d \in DenominatorRow |-> Unset]
      /\ Template.proposal_recipes = [f \in ProposalFamily |-> {}]
      /\ Template.realization_recipes = [f \in RealizationFamily |-> {}]
      /\ Template.designated = {}
  BY DEF Template
<1>2. Template \in Selections
  BY DEF Template, Selections
<1>3. Typed(Template)
  BY <1>1, <1>2 DEF Typed
<1>4. ~ Stale(Template)
  BY <1>1 DEF Stale, StaleMembership, StaleGroup, StaleHoldout, StaleDenominator,
              FamilyStale, Current
<1>5. AllOwn(Template)
  BY <1>1 DEF AllOwn
<1> QED
  BY <1>3, <1>4, <1>5 DEF Good

\* The inductive invariant.
LEMMA GoodAlways == SelectionSpec => []Good(selection)
<1>1. SelectionInit => Good(selection)
  BY TemplateIsGood DEF SelectionInit
<1>2. Good(selection) /\ [SelectionNext]_selection => Good(selection)'
  <2> SUFFICES ASSUME Good(selection), [SelectionNext]_selection
               PROVE  Good(selection')
    OBVIOUS
  <2>1. CASE UNCHANGED selection
    BY <2>1
  <2>2. CASE SelectionNext
    <3>1. \E t \in Candidates(selection) : selection' = ClearStale(t)
      BY <2>2 DEF SelectionNext, StructuralAction, PurposeAction, RecipeAction,
                  DesignationAction, Apply, Candidates
    <3> QED
      BY <3>1, CandidatesOwn, AcceptedIsGood
  <2> QED
    BY <2>1, <2>2
<1> QED
  BY <1>1, <1>2, PTL DEF SelectionSpec

\* Every decision is one its row offers (review_selection.py validates the
\* selections of each section against the worksheet).
THEOREM SelectionTypeCorrect == SelectionSpec => []SelectionTypeOK
<1>1. Good(selection) => SelectionTypeOK
  BY DEF Good, Typed, SelectionTypeOK
<1> QED
  BY <1>1, GoodAlways, PTL

\* One pass of _clear_stale_refs after each action leaves nothing stale.
THEOREM StaleNeverSurvives == SelectionSpec => []NothingStale
<1>1. Good(selection) => NothingStale
  BY DEF Good, NothingStale
<1> QED
  BY <1>1, GoodAlways, PTL

\* Each recipe owns exactly its family's cases of its purpose, after any
\* sequence of decisions.
THEOREM RecipesStayWhole == SelectionSpec => []RecipesOwnTheirPartition
<1>1. Good(selection) => RecipesOwnTheirPartition
  BY DEF Good, AllOwn, RecipesOwnTheirPartition
<1> QED
  BY <1>1, GoodAlways, PTL

\* Neither evaluation of ReviewSession.preview raises, whatever is decided.
THEOREM NeverStuck == SelectionSpec => []NoDecisionRefused
<1>1. Good(selection) => NoDecisionRefused
  BY CandidatesOwn, AcceptedIsGood DEF NoDecisionRefused
<1> QED
  BY <1>1, GoodAlways, PTL

\* The guided review offers the export only when evaluate_selection finds
\* every applicable row decided.
THEOREM ExportIsComplete == SelectionSpec => []ExportMeansDecided
<1>1. Good(selection) /\ ExportOffered(selection) => Decided(selection)
  <2> SUFFICES ASSUME Good(selection), ExportOffered(selection)
               PROVE  Decided(selection)
    OBVIOUS
  <2> DEFINE s == selection
  <2>1. StructuralComplete(s)
    BY DEF ExportOffered, GuidedStructural, StructuralComplete
  <2>2. PurposeDecided(s)
    BY DEF ExportOffered, GuidedPurpose, PurposeDecided
  <2>3. ASSUME NEW f \in SUBSET Case, NEW recipes \in SUBSET Recipe,
               \A r \in recipes : OwnsPartition(s, f, r),
               \A p \in Purpose : Partition(s, f, p) # {} =>
                 \E r \in recipes : r.purpose = p
        PROVE  ~ FamilyUnresolved(s, f, recipes)
    <3>1. \A c \in f \cap Supervised(s) : CasePurpose(s, c) \in Purpose
      BY PurposeType DEF Supervised
    <3>2. \A r \in recipes : r.members \subseteq f \cap Supervised(s)
      <4> TAKE r \in recipes
      <4>1. r.members = {c \in f : CasePurpose(s, c) = r.purpose}
        BY <2>3 DEF OwnsPartition, Partition
      <4>2. r.purpose \in Purpose
        BY <2>3 DEF Recipe
      <4>3. \A c \in f : CasePurpose(s, c) = r.purpose => CasePurpose(s, c) # NoPurpose
        BY <4>2, ReviewAssumption
      <4> QED
        BY <4>1, <4>3 DEF Supervised
    <3>3. Current(s, f, recipes) = recipes
      BY <3>2 DEF Current
    <3>4. ASSUME NEW c \in f \cap Supervised(s)
          PROVE  \E r \in recipes : c \in r.members
      <4>1. c \in Partition(s, f, CasePurpose(s, c))
        BY DEF Partition
      <4> QED
        BY <2>3, <3>1, <4>1 DEF OwnsPartition
    <3> QED
      BY <3>2, <3>3, <3>4 DEF FamilyUnresolved
  <2>4. \A f \in ProposalFamily : ~ FamilyUnresolved(s, f, s.proposal_recipes[f])
    <3> TAKE f \in ProposalFamily
    <3>1. \A p \in Purpose : Partition(s, f, p) # {} =>
            \E r \in s.proposal_recipes[f] : r.purpose = p
      <4> SUFFICES ASSUME NEW p \in Purpose, Partition(s, f, p) # {},
                          \A r \in s.proposal_recipes[f] : r.purpose # p
                   PROVE  FALSE
        OBVIOUS
      <4>1. <<f, p>> \in GuidedFamily(s, ProposalFamily, s.proposal_recipes)
        BY DEF GuidedFamily
      <4> QED
        BY <4>1 DEF ExportOffered, GuidedRecipe
    <3> QED
      BY <2>3, <3>1, GroupsAreCases, RecipeTypes DEF Good, AllOwn
  <2>5. \A f \in RealizationFamily :
          ~ FamilyUnresolved(s, f, s.realization_recipes[f])
    <3> TAKE f \in RealizationFamily
    <3>1. \A p \in Purpose : Partition(s, f, p) # {} =>
            \E r \in s.realization_recipes[f] : r.purpose = p
      <4> SUFFICES ASSUME NEW p \in Purpose, Partition(s, f, p) # {},
                          \A r \in s.realization_recipes[f] : r.purpose # p
                   PROVE  FALSE
        OBVIOUS
      <4>1. <<f, p>> \in GuidedFamily(s, RealizationFamily, s.realization_recipes)
        BY DEF GuidedFamily
      <4> QED
        BY <4>1 DEF ExportOffered, GuidedRecipe
    <3> QED
      BY <2>3, <3>1, GroupsAreCases, RecipeTypes DEF Good, AllOwn
  <2>6. DesignatedCase \cap Supervised(s) \subseteq s.designated
    BY DEF ExportOffered, GuidedCase
  <2> QED
    BY <2>1, <2>2, <2>4, <2>5, <2>6 DEF Decided
<1>2. Good(selection) => ExportMeansDecided
  BY <1>1 DEF ExportMeansDecided
<1> QED
  BY <1>2, GoodAlways, PTL
=============================================================================
