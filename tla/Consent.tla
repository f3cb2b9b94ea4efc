------------------------------- MODULE Consent -------------------------------
(***************************************************************************)
(* Legal documents, their versions and the grants of one user              *)
(* (src/modules/consent), over the register of operating entities that     *)
(* says whose document a subject may accept.                               *)
(*                                                                         *)
(* A version is drafted, classified and published by three calls; a grant  *)
(* pins the version that was accepted and is resolved by its entity,       *)
(* purpose and jurisdiction.  The guards of migrations 0064 and 0065       *)
(* decide what an UPDATE may do when it commits.  recordAcceptance is one  *)
(* transaction of three statements at READ COMMITTED: the active grants    *)
(* are selected in one step, superseded in the next, and the new grant is  *)
(* inserted with the commit.                                               *)
(*                                                                         *)
(* A document's text is its hash: the content source has the bytes of one  *)
(* version, or of none.  Evidence references and wording are left out.     *)
(***************************************************************************)
EXTENDS Entities

CONSTANTS
  Purpose,      \* processing purposes
  PinnedPacks   \* the pack versions that may be in force for the subject

Classification ==
  {"MATERIAL_REACCEPTANCE_REQUIRED", "NOTICE_REQUIRED", "NO_USER_ACTION_REQUIRED"}
Unclassified == "UNCLASSIFIED"
Anywhere == "ANY_JURISDICTION"   \* no jurisdiction was named

GrantStatus == {"ACTIVE", "WITHDRAWN", "SUPERSEDED"}

-----------------------------------------------------------------------------
\* Rows

DocumentRow == [entity : Entity, jurisdiction : Jurisdiction, purposes : SUBSET Purpose]

\* effective and published are Open until the version is published; content
\* is what the content source has: the text that was pinned, another or none.
VersionRow ==
  [document : Nat, classification : Classification \cup {Unclassified},
   effective : Nat \cup {Open}, published : Nat \cup {Open},
   content : {"pinned", "other", "absent"}]

GrantRow ==
  [tenant : Tenant, entity : Entity, jurisdiction : Jurisdiction, purpose : Purpose,
   version : Nat, granted : Nat, status : GrantStatus, pack : PinnedPacks]

\* What the local seed leaves: one document and a published version of it,
\* classified as material; then some drafts of it.
SeededDocuments(entity, jurisdiction, purposes, drafts) ==
  [documents |-> <<[entity |-> entity, jurisdiction |-> jurisdiction, purposes |-> purposes]>>,
   versions |-> <<[document |-> 1, classification |-> "MATERIAL_REACCEPTANCE_REQUIRED",
                   effective |-> 0, published |-> 0, content |-> "pinned"]>> \o drafts,
   grants |-> <<>>, evaluations |-> {}, bases |-> {}, trail |-> {}]

-----------------------------------------------------------------------------
\* What the domain and the repositories compute

Published(v) == db.versions[v].published # Open

\* MUTANT of MayBeAccepted: a draft can be accepted.
DraftMayBeAccepted(v, purpose) == purpose \in db.documents[db.versions[v].document].purposes

DocumentCoversPurpose(d, purpose) == purpose \in db.documents[d].purposes

\* The checks of RecordOwnAcceptance on what it read.
MayBeAccepted(v, purpose) ==
  Published(v) /\ DocumentCoversPurpose(db.versions[v].document, purpose)

\* findDocumentsCoveringPurpose: the jurisdiction filters when it is given.
Covering(entity, purpose, scope) ==
  {d \in Ids(db.documents) :
     /\ db.documents[d].entity = entity
     /\ DocumentCoversPurpose(d, purpose)
     /\ scope \in {Anywhere, db.documents[d].jurisdiction}}

\* currentEffectiveVersion: published and in force, the latest by effective
\* date, then by publication; the store may return any of equals.
CurrentEffective(versions, d, at) ==
  LET inForce == {v \in Ids(versions) :
                    /\ versions[v].document = d
                    /\ versions[v].published # Open
                    /\ versions[v].effective <= at}
      before(v, w) == \/ versions[v].effective < versions[w].effective
                      \/ /\ versions[v].effective = versions[w].effective
                         /\ versions[v].published < versions[w].published
  IN {v \in inForce : ~\E w \in inForce : before(v, w)}

InTriple(g, tenant, entity, purpose, jurisdiction) ==
  /\ g.tenant = tenant /\ g.entity = entity
  /\ g.purpose = purpose /\ g.jurisdiction = jurisdiction

\* The grants that recordAcceptance supersedes: the active ones of the triple.
PriorActive(row) ==
  {g \in Ids(db.grants) :
     /\ InTriple(db.grants[g], row.tenant, row.entity, row.purpose, row.jurisdiction)
     /\ db.grants[g].status = "ACTIVE"}

\* The newest of some rows: by granted_at, then in the order of insertion.
NewestGrant(grants, found) ==
  IF found = {} THEN 0
  ELSE CHOOSE g \in found :
         \A h \in found : \/ grants[h].granted < grants[g].granted
                          \/ grants[h].granted = grants[g].granted /\ h <= g

\* MUTANT of LatestResolutionGrant: withdrawn grants are not looked at.
LatestActiveGrant(grants, tenant, entity, purpose, jurisdiction) ==
  NewestGrant(grants, {g \in Ids(grants) :
                         /\ InTriple(grants[g], tenant, entity, purpose, jurisdiction)
                         /\ grants[g].status = "ACTIVE"})

\* latestResolutionGrant: the newest row that is active or withdrawn, or 0.
LatestResolutionGrant(grants, tenant, entity, purpose, jurisdiction) ==
  NewestGrant(grants, {g \in Ids(grants) :
                         /\ InTriple(grants[g], tenant, entity, purpose, jurisdiction)
                         /\ grants[g].status \in {"ACTIVE", "WITHDRAWN"}})

\* MUTANT of NeedsNoAcceptance: any classified version lets a grant stand.
AnyClassificationStands(classification) == classification # Unclassified

NeedsNoAcceptance(classification) ==
  classification \in {"NOTICE_REQUIRED", "NO_USER_ACTION_REQUIRED"}

\* resolveConsentStatus: grant is the row that was read, effective the version
\* in force that was read, or 0.
ResolveConsentStatus(grant, effective) ==
  LET pinned == db.versions[grant.version]
      newer == effective # 0 /\ effective # grant.version
               /\ db.versions[effective].effective > pinned.effective
  IN IF grant.status = "WITHDRAWN" THEN "WITHDRAWN"
     ELSE IF grant.status = "SUPERSEDED" THEN "NO_GRANT"
     ELSE IF newer /\ ~NeedsNoAcceptance(db.versions[effective].classification)
     THEN "RECONSENT_REQUIRED" ELSE "ACTIVE"

StatusPermitsProcessing(state) == state = "ACTIVE"

\* MUTANT of GrantMayBecome: the trigger is not there.
GrantMayBecomeAnything(status, to) == TRUE

\* consent_grants_guard
GrantMayBecome(status, to) == status = "ACTIVE" /\ to \in {"WITHDRAWN", "SUPERSEDED"}

\* MUTANT of VersionMayChange: a published version may be written again.
PublishedMayChange(v) == TRUE

\* legal_document_versions_guard
VersionMayChange(v) == ~Published(v)

\* MUTANT of VersionMayPublish: the classification is not asked for.
MayPublishUnclassified(v) == ~Published(v)

\* versionMayPublish
VersionMayPublish(v) == ~Published(v) /\ db.versions[v].classification # Unclassified

-----------------------------------------------------------------------------
\* Documents: CreateLegalDocument, DraftDocumentVersion

BeginCreateDocument(q, entity, jurisdiction, purposes) ==
  /\ purposes # {}
  /\ Begins(q, "catalogue", "document.insert",
            [entity |-> entity, jurisdiction |-> jurisdiction, purposes |-> purposes], <<>>)

CreateLegalDocument(q) ==
  /\ At(q, "document.insert")
  /\ Room(db.documents)
  /\ WritesAudited(q, [db EXCEPT !.documents = Append(@, req[q].in)],
                   [action |-> "consent.document.created",
                    id |-> Len(db.documents) + 1, status |-> "OPEN"])

BeginDraftVersion(q, d, content) ==
  Begins(q, "catalogue", "version.insert",
         [document |-> d, classification |-> Unclassified, effective |-> Open,
          published |-> Open, content |-> content], <<>>)

DraftDocumentVersion(q) ==
  /\ At(q, "version.insert")
  /\ Room(db.versions)
  /\ WritesAudited(q, [db EXCEPT !.versions = Append(@, req[q].in)],
                   [action |-> "consent.document_version.drafted",
                    id |-> Len(db.versions) + 1, status |-> Unclassified])

-----------------------------------------------------------------------------
\* ClassifyDocumentVersion, PublishDocumentVersion

BeginClassify(q, v, classification) ==
  /\ ~Published(v)
  /\ Begins(q, "documents", "version.classify",
            [version |-> v, classification |-> classification], <<>>)

\* classifyVersion: an UPDATE by id, which the guard may refuse.
ClassifyVersion(q) ==
  LET in == req[q].in
  IN /\ At(q, "version.classify")
     /\ VersionMayChange(in.version)
     /\ WritesAudited(q, [db EXCEPT !.versions[in.version].classification = in.classification],
                      [action |-> "consent.document_version.classified",
                       id |-> in.version, status |-> in.classification])

BeginPublish(q, v, effective) ==
  /\ VersionMayPublish(v)
  /\ Begins(q, "documents", "version.publish", [version |-> v, effective |-> effective], <<>>)

\* publishVersion: an UPDATE by id, which the guard may refuse.
PublishVersion(q) ==
  LET in == req[q].in
  IN /\ At(q, "version.publish")
     /\ VersionMayChange(in.version)
     /\ WritesAudited(q, [db EXCEPT !.versions[in.version].effective = in.effective,
                                    !.versions[in.version].published = req[q].now],
                      [action |-> "consent.document_version.published",
                       id |-> in.version, status |-> "PUBLISHED"])

-----------------------------------------------------------------------------
\* RecordReconsentEvaluation, DeclareProcessingBasisReference

\* An evaluation says what the classification says, when it is read.
BeginEvaluate(q, v, purpose) ==
  /\ db.versions[v].classification # Unclassified
  /\ Begins(q, "catalogue", "evaluation.insert",
            [version |-> v, purpose |-> purpose,
             evaluation |-> db.versions[v].classification], <<>>)

\* One evaluation per version and purpose, append-only.
RecordReconsentEvaluation(q) ==
  LET in == req[q].in
  IN /\ At(q, "evaluation.insert")
     /\ ~\E e \in db.evaluations : e.version = in.version /\ e.purpose = in.purpose
     /\ WritesAudited(q, [db EXCEPT !.evaluations = @ \cup {in}],
                      [action |-> "consent.reconsent.evaluated", id |-> in.version,
                       status |-> in.evaluation])

\* declare: an upsert on the purpose and the jurisdiction.
DeclareProcessingBasisReference(q, purpose, jurisdiction, basis) ==
  LET kept == {b \in db.bases : b.purpose # purpose \/ b.jurisdiction # jurisdiction}
  IN /\ At(q, "idle")
     /\ left["catalogue"] > 0
     /\ db' = [db EXCEPT !.bases = kept \cup {[purpose |-> purpose,
                                               jurisdiction |-> jurisdiction,
                                               basis |-> basis]}]
     /\ req' = [req EXCEPT ![q] = [Idle EXCEPT !.at = "audit", !.now = now, !.read =
                  [action |-> "consent.processing_basis.declared", id |-> 0,
                   status |-> "OPEN"]]]
     /\ left' = [left EXCEPT !["catalogue"] = @ - 1]
     /\ UNCHANGED now

-----------------------------------------------------------------------------
\* The directory adapter: which entity is effective, in two statements

\* A call of the principal begins with the lookup of the contracting entity.
BeginForEntity(q, group, at, tenant, ask) ==
  LET contracting == Newest(FindActiveAt("USER_CONTRACTING", Platform, now))
      in == [call |-> at, tenant |-> tenant, ask |-> ask]
  IN \/ /\ contracting = {}
        /\ Begins(q, group, "entity.default", in, <<>>)
     \/ \E i \in contracting :
          Begins(q, group, at, in, [entity |-> db.bindings[i].entity])

\* Nothing is bound to the user: the tenant's default, or NO_EFFECTIVE_ENTITY.
ResolveDefault(q) ==
  LET in == req[q].in
  IN /\ At(q, "entity.default")
     /\ \E i \in Newest(FindActiveAt("TENANT_DEFAULT", in.tenant, req[q].now)) :
          Reads(q, in.call, [entity |-> db.bindings[i].entity])

-----------------------------------------------------------------------------
\* RecordOwnAcceptance

\* The grant that an acceptance pins to the document it accepts.
GrantOf(in, at) ==
  LET document == db.documents[db.versions[in.ask.version].document]
  IN [tenant |-> in.tenant, entity |-> document.entity,
      jurisdiction |-> document.jurisdiction, purpose |-> in.ask.purpose,
      version |-> in.ask.version, granted |-> at, status |-> "ACTIVE",
      pack |-> in.ask.pack]

\* The policy pin was resolved, the version and its document read.
BeginAcceptance(q, tenant, v, purpose, pack) ==
  /\ MayBeAccepted(v, purpose)
  /\ BeginForEntity(q, "consent", "accept.select", tenant,
                    [version |-> v, purpose |-> purpose, pack |-> pack])

\* Another entity's document is not applicable; otherwise the transaction of
\* recordAcceptance begins with the active grants of the triple.
AcceptanceSelects(q) ==
  LET row == GrantOf(req[q].in, req[q].now)
  IN /\ At(q, "accept.select")
     /\ req[q].read.entity = row.entity
     /\ Reads(q, "accept.commit", PriorActive(row))

\* The selected grants are superseded by id, which the guard may refuse, and
\* the new one is inserted; then the transaction commits.
RecordAcceptance(q) ==
  LET prior == req[q].read
      kept == [g \in Ids(db.grants) |->
                 IF g \in prior THEN [db.grants[g] EXCEPT !.status = "SUPERSEDED"]
                 ELSE db.grants[g]]
  IN /\ At(q, "accept.commit")
     /\ \A g \in prior : GrantMayBecome(db.grants[g].status, "SUPERSEDED")
     /\ Room(db.grants)
     /\ WritesAudited(q, [db EXCEPT !.grants = Append(kept, GrantOf(req[q].in, req[q].now))],
                      [action |-> "consent.grant.recorded", id |-> Len(db.grants) + 1,
                       status |-> "ACTIVE"])

-----------------------------------------------------------------------------
\* WithdrawOwnConsent

\* findById under the principal's row policy, and the status check.
BeginWithdrawal(q, tenant, g) ==
  /\ db.grants[g].tenant = tenant
  /\ db.grants[g].status = "ACTIVE"
  /\ Begins(q, "consent", "withdraw", [grant |-> g], <<>>)

\* withdraw: an UPDATE by id, which the guard may refuse.
Withdraw(q) ==
  LET g == req[q].in.grant
  IN /\ At(q, "withdraw")
     /\ GrantMayBecome(db.grants[g].status, "WITHDRAWN")
     /\ WritesAudited(q, [db EXCEPT !.grants[g].status = "WITHDRAWN"],
                      [action |-> "consent.grant.withdrawn", id |-> g,
                       status |-> "WITHDRAWN"])

-----------------------------------------------------------------------------
\* AssertConsentFor over GetOwnConsentStatus

\* grants and versions are history: the tables when the check began.
BeginCheck(q, tenant, purpose, scope) ==
  BeginForEntity(q, "checks", "check.document", tenant,
                 [purpose |-> purpose, scope |-> scope,
                  grants |-> db.grants, versions |-> db.versions])

\* No document covers the purpose: NO_GRANT; more than one is ambiguous.
CheckFindsDocument(q) ==
  LET ask == req[q].in.ask
      covering == Covering(req[q].read.entity, ask.purpose, ask.scope)
  IN /\ At(q, "check.document")
     /\ \/ /\ covering = {}
           /\ Reads(q, "checked", [state |-> "NO_GRANT", grant |-> 0,
                                   entity |-> req[q].read.entity])
        \/ /\ Cardinality(covering) = 1
           /\ \E d \in covering :
                Reads(q, "check.version", [entity |-> req[q].read.entity, document |-> d])

CheckReadsVersion(q) ==
  LET read == req[q].read
      current == CurrentEffective(db.versions, read.document, req[q].now)
  IN /\ At(q, "check.version")
     /\ \E v \in (IF current = {} THEN {0} ELSE current) :
          Reads(q, "check.grant", [entity |-> read.entity, document |-> read.document,
                                   effective |-> v])

\* The grant of the triple is read and the status resolved.
CheckReadsGrant(q) ==
  LET read == req[q].read
      g == LatestResolutionGrant(db.grants, req[q].in.tenant, read.entity, req[q].in.ask.purpose,
                                 db.documents[read.document].jurisdiction)
      state == IF g = 0 THEN "NO_GRANT" ELSE ResolveConsentStatus(db.grants[g], read.effective)
  IN /\ At(q, "check.grant")
     /\ Reads(q, "checked", [state |-> state, grant |-> g, entity |-> read.entity])

-----------------------------------------------------------------------------
\* GetLegalDocumentContent

BeginReadContent(q, tenant, d) ==
  BeginForEntity(q, "checks", "content.version", tenant, [document |-> d])

\* A document of another entity is not found, and only a version in force is
\* displayed.
ContentFindsVersion(q) ==
  LET d == req[q].in.ask.document
  IN /\ At(q, "content.version")
     /\ db.documents[d].entity = req[q].read.entity
     /\ \E v \in CurrentEffective(db.versions, d, req[q].now) :
          Reads(q, "content.fetch", [entity |-> req[q].read.entity, version |-> v])

\* Retrieved, and it hashes to what the version pinned.
ContentMayBeServed(v) == db.versions[v].content = "pinned"

ContentServes(q) ==
  LET v == req[q].read.version
  IN /\ At(q, "content.fetch")
     /\ ContentMayBeServed(v)
     /\ Reads(q, "served", [version |-> v, entity |-> req[q].read.entity])

-----------------------------------------------------------------------------
ConsentNext ==
  \E q \in Requests :
    \/ \E e \in Entity, j \in Jurisdiction, p \in SUBSET Purpose : BeginCreateDocument(q, e, j, p)
    \/ CreateLegalDocument(q)
    \/ \E d \in Ids(db.documents), c \in {"pinned", "other", "absent"} : BeginDraftVersion(q, d, c)
    \/ DraftDocumentVersion(q)
    \/ \E v \in Ids(db.versions), c \in Classification : BeginClassify(q, v, c)
    \/ ClassifyVersion(q)
    \/ \E v \in Ids(db.versions), at \in now .. now + 1 : BeginPublish(q, v, at)
    \/ PublishVersion(q)
    \/ \E v \in Ids(db.versions), p \in Purpose : BeginEvaluate(q, v, p)
    \/ RecordReconsentEvaluation(q)
    \/ \E p \in Purpose, j \in Jurisdiction, b \in {"basis:consent", "basis:contract"} :
         DeclareProcessingBasisReference(q, p, j, b)
    \/ ResolveDefault(q)
    \/ \E t \in Tenant, v \in Ids(db.versions), p \in Purpose, k \in PinnedPacks :
         BeginAcceptance(q, t, v, p, k)
    \/ AcceptanceSelects(q)
    \/ RecordAcceptance(q)
    \/ \E t \in Tenant, g \in Ids(db.grants) : BeginWithdrawal(q, t, g)
    \/ Withdraw(q)
    \/ \E t \in Tenant, p \in Purpose, j \in Jurisdiction \cup {Anywhere} : BeginCheck(q, t, p, j)
    \/ CheckFindsDocument(q)
    \/ CheckReadsVersion(q)
    \/ CheckReadsGrant(q)
    \/ \E t \in Tenant, d \in Ids(db.documents) : BeginReadContent(q, t, d)
    \/ ContentFindsVersion(q)
    \/ ContentServes(q)

ConsentInit(tenant, entities, jurisdiction, drafts) ==
  LET entity == CHOOSE e \in entities : TRUE
      register == SeededEntities(tenant, entities)
      catalogue == SeededDocuments(entity, jurisdiction, Purpose, drafts)
  IN /\ db = [f \in DOMAIN register \cup DOMAIN catalogue |->
                IF f \in DOMAIN register THEN register[f] ELSE catalogue[f]]
     /\ now = 0
     /\ req = [q \in Requests |-> Idle]
     /\ left \in Budgets

\* A version that was drafted of the seeded document, and may be classified.
DraftRow ==
  {v \in VersionRow : v.document = 1 /\ v.effective = Open /\ v.published = Open}

\* Whatever the seed registered, and whatever was drafted since.
Init ==
  \E tenant \in Tenant, entities \in (SUBSET Entity) \ {{}}, jurisdiction \in Jurisdiction,
     drafts \in Seq(DraftRow) :
    ConsentInit(tenant, entities, jurisdiction, drafts)

Next ==
  \/ EntitiesNext
  \/ ConsentNext
  \/ \E q \in Requests : AppendAudit(q) \/ Abandon(q)
  \/ Tick

Spec == Init /\ [][Next]_vars

-----------------------------------------------------------------------------
\* Properties

\* The rows of every table are rows of its schema and refer to rows that exist
\* (the foreign keys of migrations 0061 to 0065), at every step of the calls.
TypeOK ==
  /\ db.entities \in [Entity -> EntityStatus \cup {"UNKNOWN"}]
  /\ \A i \in Ids(db.bindings) : db.bindings[i] \in AssignmentRow
  /\ \A i \in Ids(db.migrations) : db.migrations[i] \in MigrationRow
  /\ \A i \in Ids(db.licences) :
       /\ db.licences[i] \in LicenceRow
       /\ db.licences[i].status = "EVIDENCED" => db.licences[i].evidence
  /\ \A i \in Ids(db.roles) : db.roles[i] \in RoleRow
  /\ \A i \in Ids(db.permissions) : db.permissions[i] \in PermissionRow
  /\ \A d \in Ids(db.documents) : db.documents[d] \in DocumentRow
  /\ \A v \in Ids(db.versions) :
       /\ db.versions[v] \in VersionRow
       /\ db.versions[v].document \in Ids(db.documents)
  /\ \A g \in Ids(db.grants) :
       /\ db.grants[g] \in GrantRow
       /\ db.grants[g].version \in Ids(db.versions)
  /\ now \in 0 .. MaxNow

\* A row that was there is there, and differs at most as the last argument allows.
Kept(before, after, MayDiffer(_, _)) ==
  \A i \in Ids(before) : i \in Ids(after) /\ (after[i] = before[i] \/ MayDiffer(before[i], after[i]))

OnlyEnded(before, after) ==
  before.to = Open /\ after = [before EXCEPT !.to = after.to] /\ after.to > before.from

OnlyDecided(before, after) ==
  before.status = "ACTIVE" /\ after = [before EXCEPT !.status = after.status]

\* Evidence is history, however calls interleave: a grant never changes but to
\* leave ACTIVE once, for good; a version is never written after publication;
\* documents, evaluations and audit events are only added (the guards of
\* migrations 0064 and 0065 against checks made a statement earlier).
EvidenceIsHistory ==
  [][/\ Kept(db.grants, db'.grants, OnlyDecided)
     /\ Kept(db.versions, db'.versions, LAMBDA v, w : v.published = Open)
     /\ Kept(db.documents, db'.documents, LAMBDA d, e : FALSE)
     /\ db.evaluations \subseteq db'.evaluations
     /\ db.trail \subseteq db'.trail]_vars

\* A grant pins what could be accepted: a published and classified version of a
\* document of its own entity and jurisdiction that covers its purpose, although
\* the version was read several statements before the grant is inserted
\* (RecordOwnAcceptance).
GrantsPinPublished ==
  \A g \in Ids(db.grants) :
    LET grant == db.grants[g]
        version == db.versions[grant.version]
        document == db.documents[version.document]
    IN /\ Published(grant.version)
       /\ version.classification # Unclassified
       /\ document.entity = grant.entity
       /\ document.jurisdiction = grant.jurisdiction
       /\ grant.purpose \in document.purposes

Permitted(q) == At(q, "checked") /\ StatusPermitsProcessing(req[q].read.state)

\* The grant that was read, and the newest decision of its triple at the start.
GrantStood(in, read) ==
  LET grant == db.grants[read.grant]
      then == in.ask.grants
      newest == NewestGrant(then, {g \in Ids(then) :
                  /\ InTriple(then[g], in.tenant, read.entity, in.ask.purpose, grant.jurisdiction)
                  /\ then[g].status # "SUPERSEDED"})
  IN /\ InTriple(grant, in.tenant, read.entity, in.ask.purpose, grant.jurisdiction)
     /\ read.grant \in Ids(then) => then[read.grant].status = "ACTIVE"
     /\ newest # 0 /\ Len(db.grants) = Len(then) => then[newest].status = "ACTIVE"

\* No material version was in force at the start that is newer than the pinned
\* one, unless a further version was published since.  Of versions with equal
\* dates the store returns any.
NoMaterialVersion(in, read, at) ==
  LET then == in.ask.versions
      pinned == db.grants[read.grant].version
      published(versions) == {v \in Ids(versions) : versions[v].published # Open}
      inForce == CurrentEffective(then, db.versions[pinned].document, at)
  IN published(then) = published(db.versions) /\ inForce # {} =>
       \E v \in inForce :
         then[v].effective > then[pinned].effective =>
           then[v].classification # "MATERIAL_REACCEPTANCE_REQUIRED"

\* AssertConsentFor permits processing only on a grant that stood when it was
\* called or was recorded since: a withdrawal that committed before is obeyed,
\* whichever of several active rows it withdrew if it is the newest one, and so
\* is a material version (the version is read a statement before the grant).
PermittedOnLiveConsent ==
  \A q \in Requests : Permitted(q) =>
    GrantStood(req[q].in, req[q].read) /\ NoMaterialVersion(req[q].in, req[q].read, req[q].now)

\* What was recorded as final stays as it was recorded, however calls that read
\* it earlier interleave: a terminal migration, a linked evaluation, the end of
\* a binding or a role (the guards of migrations 0062 and 0063). Permissions
\* have no guard and are not promised this.
RegisterIsHistory ==
  [][/\ Kept(db.bindings, db'.bindings, OnlyEnded)
     /\ Kept(db.roles, db'.roles, OnlyEnded)
     /\ Kept(db.migrations, db'.migrations,
             LAMBDA m, n : /\ ~Terminal(m.status)
                           /\ n.from = m.from /\ n.to = m.to
                           /\ m.evaluation \in {None, n.evaluation}
                           /\ n.status # "PROPOSED" /\ n.evaluation # None)]_vars

\* What an audit event of a final change says is what the tables hold, even when
\* it was appended after other calls wrote (the events of the consent and the
\* entity use cases are appended after the change committed).
TrailAgrees ==
  \A entry \in db.trail :
    CASE entry.action = "consent.grant.withdrawn" -> db.grants[entry.id].status = "WITHDRAWN"
      [] entry.action = "consent.document_version.published" -> Published(entry.id)
      [] entry.action = "entity.migration.advanced" /\ Terminal(entry.status) ->
           db.migrations[entry.id].status = entry.status
      [] entry.action = "entity.role_assignment.ended" -> db.roles[entry.id].to # Open
      [] OTHER -> TRUE

\* The comment of migration 0065 on consent_grants: "Single-ACTIVE-per-triple is
\* enforced by the re-grant use case". Two acceptances that both select before
\* either commits leave two.
SingleActivePerTriple ==
  \A g, h \in Ids(db.grants) :
    db.grants[g].status = "ACTIVE" /\ g # h =>
      LET row == db.grants[h]
      IN row.status = "ACTIVE" =>
           ~InTriple(db.grants[g], row.tenant, row.entity, row.purpose, row.jurisdiction)
=============================================================================
