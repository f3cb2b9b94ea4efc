------------------------------ MODULE MCPolicy ------------------------------
(***************************************************************************)
(* An instance of the policy components over one database: jurisdictions,  *)
(* elections, kill switches and capabilities, one or two requests at a     *)
(* time and the mixes of calls in Mixes.                                   *)
(***************************************************************************)
EXTENDS PolicyStore, TLC

Groups == {"assignments", "declarations", "packs", "ceilings", "selections", "switches",
           "guarded", "availability", "entitlements", "resolutions"}

Mix(some) == [g \in Groups |-> IF g \in DOMAIN some THEN some[g] ELSE 0]

Mixes == {Mix([assignments |-> 2, declarations |-> 1]),
          Mix([declarations |-> 2, ceilings |-> 1]),
          Mix([assignments |-> 1, packs |-> 1, ceilings |-> 1]),
          Mix([packs |-> 2, ceilings |-> 1]),
          Mix([packs |-> 1, selections |-> 2]),
          Mix([selections |-> 3]),
          Mix([switches |-> 3, guarded |-> 1]),
          Mix([availability |-> 2, resolutions |-> 1]),
          Mix([entitlements |-> 2, resolutions |-> 1])}

-----------------------------------------------------------------------------
\* The build's packs

Decision(slot, key, state, basis) == [slot |-> slot, key |-> key, state |-> state, basis |-> basis]

Unreviewed == Decision("aiProcessingPolicy", "", "PENDING_LEGAL_REVIEW", FALSE)

Pack(version, lifecycle, cleared) ==
  [version |-> version, jurisdiction |-> "j1", lifecycle |-> lifecycle,
   evidence |-> lifecycle = "APPROVED", from |-> 0, to |-> OpenEnded,
   decisions |-> {Unreviewed}, purposes |-> {}, cleared |-> cleared,
   strategy |-> [c \in cleared |-> "AT_EVALUATION"]]

\* Two approved packs, one that clears a capability, and one in review.
MCPacks == <<Pack("k1", "APPROVED", {}), Pack("k2", "APPROVED", {}),
             Pack("k3", "APPROVED", {"c1"}), Pack("k4", "PENDING_LEGAL_REVIEW", {})>>

\* j2 may be declared at 2 only, j3 never.
MCRegister ==
  [j \in {"j1", "j2", "j3"} |->
     [status |-> IF j = "j3" THEN "RETIRED" ELSE "APPROVED",
      from |-> IF j = "j2" THEN 2 ELSE Open, to |-> Open]]

MCOptionSets == [p \in {"k1", "k2"} |-> IF p = "k1" THEN {"f1", "f2"} ELSE {"f1"}]

-----------------------------------------------------------------------------
\* The ports of the resolver

MCDescriptor ==
  [c \in {"c1", "c2"} |->
     [implemented |-> c = "c1", deployed |-> {"dev"}, declared |-> {"j1"},
      hidden |-> FALSE, explainable |-> TRUE]]

Cleared(basis, licence, provider) ==
  [capability |-> "c1", verified |-> TRUE, basis |-> basis, licence |-> licence,
   provider |-> provider]

MCCeilings ==
  {[kind |-> "NO_ASSIGNMENT"],
   [kind |-> "RESOLVED", scope |-> "j1", verified |-> TRUE, cleared |-> {}],
   [kind |-> "RESOLVED", scope |-> "j1", verified |-> TRUE,
    cleared |-> {Cleared("DECLARED_BASIS", FALSE, FALSE)}],
   [kind |-> "RESOLVED", scope |-> "j1", verified |-> TRUE,
    cleared |-> {Cleared("CONSENT", TRUE, TRUE)}]}

MCConsents == {[kind |-> k] : k \in {"ACTIVE", "NO_DOCUMENT"}}

Licence(status, from, to) == [status |-> status, from |-> from, to |-> to]

MCLicences ==
  {[kind |-> "ENTITY", permitted |-> TRUE, licences |-> ls] :
     ls \in {{Licence("EVIDENCED", 0, 2)}, {Licence("CLAIMED_UNVERIFIED", Open, Open)}}}

MCProviders == {[kind |-> k] : k \in {"CONNECTED"}}

-----------------------------------------------------------------------------
\* One capability is exposed in the whole environment and granted.
Exposed == [environment |-> "dev", scope |-> EveryScope, capability |-> "c1",
            state |-> "AVAILABLE", version |-> 1, updated |-> 0]

EntitledRow == [capability |-> "c1", status |-> "ACTIVE", from |-> 0, to |-> Open, version |-> 1]

MCInit ==
  /\ PolicyInit("j1", "k1", <<Exposed>>, <<EntitledRow>>)
  /\ now = 1

MCSpec == MCInit /\ [][Next]_vars

-----------------------------------------------------------------------------
\* What operators ask for

MCAssignments ==
  [code : {"j2"}, source : {"USER_DECLARED", "OPERATOR_ASSIGNED"},
   verified : VerificationStatus, from : 0 .. 1]

Setting(environment, scope, state, expected) ==
  [environment |-> environment, scope |-> scope, capability |-> "c1", state |-> state,
   expected |-> expected]

MCAvailabilityInputs ==
  {Setting("dev", s, state, 1) : s \in {"j1", "every"}, state \in {"AVAILABLE", "DISABLED"}}
    \cup {Setting("prod", "every", state, 0) : state \in {"AVAILABLE", "DISABLED"}}

MCGrants == [capability : {"c1", "c2"}, from : {1}, to : {Open, 2}]

MCQuestions == {<<"c1", "c2">>}

RequestSymmetry == Permutations(Requests)
=============================================================================
