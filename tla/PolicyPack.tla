----------------------------- MODULE PolicyPack -----------------------------
(***************************************************************************)
(* Policy packs of a jurisdiction: structural validation, activation and   *)
(* the resolution of the policy that governs an instant                    *)
(* (packages/jurisdiction-policy).  Packs are code: a build knows a fixed  *)
(* sequence of them and nothing changes one at run time.                   *)
(*                                                                         *)
(* A decision is [slot, key, state, basis]: which question the pack        *)
(* answers, for which capability, purpose or category, whether it is       *)
(* DECIDED, and whether it names its instrument.  Errors and findings are  *)
(* modelled by their kind; their wording is left out.                      *)
(***************************************************************************)
LOCAL INSTANCE Integers
LOCAL INSTANCE Sequences
LOCAL INSTANCE FiniteSets

Lifecycle == {"DRAFT", "PENDING_LEGAL_REVIEW", "APPROVED", "RETIRED"}
DecisionState == {"DECIDED", "PENDING_LEGAL_REVIEW", "UNRESOLVED"}
PolicyEnvironment == {"local", "dev", "staging", "production"}

\* effectiveTo: null, and the end null stands for.
OpenEnded == -1
Covers(pack, at) == pack.from <= at /\ (pack.to = OpenEnded \/ at < pack.to)

-----------------------------------------------------------------------------
\* Resolution strategies: which pack versions govern a record

NoVersion == "null"

AtCreation(creation, evaluation) == {creation} \ {NoVersion}
AtEvaluation(creation, evaluation) == {evaluation} \ {NoVersion}
MostRestrictive(creation, evaluation) == {creation, evaluation} \ {NoVersion}

Strategies == {"AT_CREATION", "AT_EVALUATION", "MOST_RESTRICTIVE"}

GoverningVersions(strategy, creation, evaluation) ==
  CASE strategy = "AT_CREATION" -> AtCreation(creation, evaluation)
    [] strategy = "AT_EVALUATION" -> AtEvaluation(creation, evaluation)
    [] strategy = "MOST_RESTRICTIVE" -> MostRestrictive(creation, evaluation)

-----------------------------------------------------------------------------
\* Validation

Decided(pack, slot, key) ==
  \E d \in pack.decisions : d.slot = slot /\ d.key = key /\ d.state = "DECIDED"

Answered(pack, slot, key) == \E d \in pack.decisions : d.slot = slot /\ d.key = key

\* The findings of one pack; disclosing holds the disclosure-bearing ids.
ValidatePack(pack, disclosing) ==
  {f \in {"INVALID_EFFECTIVE_PERIOD", "APPROVAL_EVIDENCE_MISSING",
          "MISSING_RESOLUTION_STRATEGY", "UNKNOWN_RESOLUTION_STRATEGY",
          "MISSING_APPROVAL_POLICY", "MISSING_PROCESSING_BASIS",
          "DECISION_WITHOUT_BASIS"} :
     \/ f = "INVALID_EFFECTIVE_PERIOD" /\ pack.to # OpenEnded /\ pack.to <= pack.from
     \/ f = "APPROVAL_EVIDENCE_MISSING" /\ pack.lifecycle = "APPROVED" /\ ~pack.evidence
     \/ f = "MISSING_RESOLUTION_STRATEGY" /\ ~(pack.cleared \subseteq DOMAIN pack.strategy)
     \/ /\ f = "UNKNOWN_RESOLUTION_STRATEGY"
        /\ \E c \in pack.cleared \cap DOMAIN pack.strategy : pack.strategy[c] \notin Strategies
     \/ /\ f = "MISSING_APPROVAL_POLICY"
        /\ \E c \in pack.cleared \cap disclosing : ~Decided(pack, "approvalPolicies", c)
     \/ /\ f = "MISSING_PROCESSING_BASIS"
        /\ \E p \in pack.purposes : ~Answered(pack, "processingBases", p)
     \/ /\ f = "DECISION_WITHOUT_BASIS"
        /\ \E d \in pack.decisions : d.state = "DECIDED" /\ ~d.basis}

Overlap(a, b) ==
  /\ b.to = OpenEnded \/ a.from < b.to
  /\ a.to = OpenEnded \/ b.from < a.to

ValidatePackSet(packs, disclosing) ==
  UNION {ValidatePack(packs[i], disclosing) : i \in DOMAIN packs}
    \cup {f \in {"DUPLICATE_VERSION", "OVERLAPPING_EFFECTIVE_PERIODS"} :
            \E i, j \in DOMAIN packs :
              /\ i < j
              /\ packs[i].jurisdiction = packs[j].jurisdiction
              /\ IF packs[i].version = packs[j].version
                   THEN f = "DUPLICATE_VERSION"
                   ELSE f = "OVERLAPPING_EFFECTIVE_PERIODS" /\ Overlap(packs[i], packs[j])}

-----------------------------------------------------------------------------
\* Activation: where a pack may govern

CanActivate(pack, environment) ==
  CASE pack.lifecycle = "RETIRED" -> FALSE
    [] pack.lifecycle = "APPROVED" -> pack.evidence
    [] OTHER -> environment = "local"

\* A retired version still resolves for the records it governed.
CanResolveExplicitVersion(pack, environment) ==
  IF pack.lifecycle = "RETIRED"
    THEN environment = "local" \/ pack.evidence
    ELSE CanActivate(pack, environment)

-----------------------------------------------------------------------------
\* Resolution

NoSettings == [disabled |-> {}, suspended |-> FALSE]

CollectUnresolved(pack) ==
  {<<d.slot, d.key, d.state>> : d \in {x \in pack.decisions : x.state # "DECIDED"}}

\* The ceiling after restrict-only settings: what the pack clears and the
\* settings leave, each with its strategy.
Ceiling(pack, settings) ==
  {<<c, pack.strategy[c]>> : c \in pack.cleared \ settings.disabled}

AiProcessing(pack, settings) ==
  LET d == CHOOSE x \in pack.decisions : x.slot = "aiProcessingPolicy"
  IN IF settings.suspended /\ d.state = "DECIDED" THEN "RESTRICTED_BY_SETTINGS" ELSE d.state

Refused(kind) == [ok |-> FALSE, error |-> kind]

\* The chosen pack, once it is structurally valid.
Policy(pack, settings, disclosing) ==
  IF ValidatePack(pack, disclosing) # {}
    THEN Refused("PACK_INVALID")
    ELSE [ok |-> TRUE, pack |-> pack.version, ceiling |-> Ceiling(pack, settings),
          ai |-> AiProcessing(pack, settings), unresolved |-> CollectUnresolved(pack)]

\* The packs of a jurisdiction, by their place in the build's list.
ForJurisdiction(packs, jurisdiction) ==
  {i \in DOMAIN packs : packs[i].jurisdiction = jurisdiction}

\* The first of them in the order the build lists them.
FirstPack(packs, found) == packs[CHOOSE i \in found : \A j \in found : i <= j]

\* resolveEffectivePolicy for one named version: the first pack that bears it.
ResolveVersion(packs, jurisdiction, version, settings, environment, disclosing) ==
  LET mine  == ForJurisdiction(packs, jurisdiction)
      found == {i \in mine : packs[i].version = version}
      pack  == FirstPack(packs, found)
  IN IF mine = {} THEN Refused("NO_PACK_FOR_JURISDICTION")
     ELSE IF found = {} THEN Refused("PACK_VERSION_NOT_FOUND")
     ELSE IF ~CanResolveExplicitVersion(pack, environment) THEN Refused("PACK_NOT_RESOLVABLE")
     ELSE Policy(pack, settings, disclosing)

\* resolveEffectivePolicy for the pack in force at an instant: exactly one
\* must cover it and be allowed to govern here.
ResolveInForce(packs, jurisdiction, at, settings, environment, disclosing) ==
  LET mine     == ForJurisdiction(packs, jurisdiction)
      covering == {i \in mine : Covers(packs[i], at)}
      eligible == {i \in covering : CanActivate(packs[i], environment)}
  IN IF mine = {} THEN Refused("NO_PACK_FOR_JURISDICTION")
     ELSE IF covering = {} THEN Refused("NO_PACK_IN_FORCE")
     ELSE IF eligible = {} THEN Refused("PACK_NOT_RESOLVABLE")
     ELSE IF Cardinality(eligible) > 1 THEN Refused("OVERLAPPING_PACKS_IN_FORCE")
     ELSE Policy(FirstPack(packs, eligible), settings, disclosing)
=============================================================================
