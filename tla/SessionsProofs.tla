--------------------------- MODULE SessionsProofs ---------------------------
(***************************************************************************)
(* Theorems of Sessions for every number of requests, sessions, tenants,   *)
(* refresh tokens and boundaries, with and without MFA.                    *)
(***************************************************************************)
EXTENDS Sessions, TLAPS

\* The stored token version counts the boundaries, one bump for each.
VersionCounts ==
  /\ account.version = seen.epoch
  /\ account.generation <= seen.epoch
  /\ seen.byToken <= seen.epoch

\* What a request holds is in the table: the session it works on, the token it
\* refreshes, the targets its sweep found.
Named(x) ==
  /\ x.at \in {"reuse", "account", "rotate", "refreshed", "reused", "bind", "rebind"} =>
       x.session \in {s \in Sessions : sessions[s].issued}
  /\ x.at \in {"reuse", "account", "rotate"} => x.token \in 1 .. sessions[x.session].minted
  /\ x.at = "session" => x.session \in Sessions
  /\ \A s \in x.targets : sessions[s].issued

RequestsName == \A q \in Requests : Named(req[q])

\* A login ancestor is a session that was minted.
RootsIssued ==
  \A s \in Sessions : sessions[s].issued =>
    /\ sessions[s].root \in Sessions
    /\ sessions[sessions[s].root].issued

\* The copy of the token version that a request acts on names the boundary it
\* was read at.
CopyHonest(x) ==
  x.at \in {"verify", "rotate", "issue", "rebind", "session"} => x.version = x.epoch

\* An authentication carries a token that was current when it began; one that
\* waits for a session that was dead then will find it dead.
AuthenticationFresh(x) ==
  /\ x.at \in {"session", "accepted"} => x.born >= x.epoch
  /\ x.at = "session" /\ x.dead => sessions[x.session].revoked
  /\ x.at = "accepted" => ~x.dead

\* While requests begin behind a completed disable the account is not active,
\* and those that passed the status check did not begin behind one.
ShutOut(x) ==
  /\ x.shut => ~account.active
  /\ x.at \in {"rotate", "session", "verify", "complete", "issue", "rebind",
               "accepted", "refreshed", "issued", "rebound"} => ~x.shut

\* What a refresh finds in the table: its token is none of those minted after
\* its session ended, and what an answered one wrote is there.
AnswerHolds(x) ==
  /\ x.at \in {"account", "rotate"} /\ sessions[x.session].revoked =>
       x.token <= sessions[x.session].ended
  /\ x.at = "refreshed" => x.token \in sessions[x.session].used
  /\ x.at = "reused" => /\ sessions[x.session].revoked
                        /\ sessions[x.session].familyRevoked

Honest(x) == CopyHonest(x) /\ AuthenticationFresh(x) /\ ShutOut(x) /\ AnswerHolds(x)

RequestsHonest == \A q \in Requests : Honest(req[q])

\* The tokens that clients hold carry the version of their boundary.
TokensHonest ==
  /\ \A a \in access : a.version = a.epoch
  /\ seen.shut => ~account.active

TableTyped ==
  /\ sessions \in [Sessions -> Rows]
  /\ \A s \in Sessions :
       /\ ~sessions[s].issued => sessions[s] = Missing
       /\ sessions[s].used \subseteq 1 .. sessions[s].minted

RequestsTyped == req \in [Requests -> RequestStates] /\ RequestsName

TokensTyped ==
  /\ access \subseteq [session: Sessions, version: Boundaries, epoch: Boundaries]
  /\ challenges \subseteq Boundaries
  /\ reset \in {"none", "open", "dead"}

CountersTyped ==
  /\ account \in [active: BOOLEAN, version: Boundaries, generation: Boundaries]
  /\ seen \in [epoch: Boundaries, shut: BOOLEAN, reset: Boundaries, disable: Boundaries,
               byToken: Boundaries]
  /\ VersionCounts

TypeInv == TableTyped /\ RequestsTyped /\ TokensTyped /\ CountersTyped

\* The one unused token of a family is the last that was minted.
LastIsUnused ==
  \A s \in Sessions : sessions[s].issued => sessions[s].minted \notin sessions[s].used

TableInv ==
  RootsIssued /\ OneUnusedToken /\ LastIsUnused /\ DeadFamilyIsSpent /\ OneSessionPerLogin

RequestInv == RequestsHonest /\ TokensHonest /\ PresentedTwiceIsRevoked

IInv == TypeInv /\ TableInv /\ RequestInv

-----------------------------------------------------------------------------
\* The types

LEMMA TypeInvImplies == TypeInv => TypeOK
BY DEF TypeInv, TypeOK, TableTyped, RequestsTyped, TokensTyped, CountersTyped,
       RequestsName, Named

\* The values requests are made of.
LEMMA IdleTyped == Idle \in RequestStates
BY SessionsAssumption DEF Idle, RequestStates, Points, Boundaries, Bindings

LEMMA MissingTyped == Missing \in Rows
BY SessionsAssumption DEF Missing, Rows, Boundaries, Bindings

LEMMA RequestTyped ==
  ASSUME CountersTyped, NEW at \in Points
  PROVE  /\ Request(at) \in RequestStates
         /\ Request(at).at = at
         /\ Request(at).targets = {}
         /\ Holding(at) \in RequestStates
         /\ Holding(at).at = at
         /\ Holding(at).targets = {}
BY IdleTyped DEF CountersTyped, Request, Holding, RequestStates, Idle

LEMMA TypeInit == Init => TypeInv
BY SessionsAssumption, IdleTyped, MissingTyped
DEF Init, TypeInv, TableTyped, RequestsTyped, TokensTyped, CountersTyped, VersionCounts,
    RequestsName, Named, Missing, Idle, Boundaries

\* Rows are never deleted and tokens only added.
Grows ==
  \A s \in Sessions :
    /\ sessions[s].issued => sessions'[s].issued
    /\ sessions[s].minted <= sessions'[s].minted

\* The step of one request, when what it now holds is in the table.
LEMMA RequestMove ==
  ASSUME RequestsTyped, TableTyped, TableTyped', Grows,
         NEW q \in Requests, NEW x \in RequestStates, Named(x),
         req' = [req EXCEPT ![q] = x]
  PROVE  RequestsTyped'
<1>1. req' \in [Requests -> RequestStates]
  BY DEF RequestsTyped
<1>2. ASSUME NEW r \in Requests PROVE Named(req[r])'
  <2>1. CASE r = q
    <3>1. req'[r] = x
      BY <2>1 DEF RequestsTyped
    <3>2. QED
      BY <3>1 DEF Named, Grows, TableTyped, Rows, RequestStates
  <2>2. CASE r # q
    <3>1. req'[r] = req[r] /\ req[r] \in RequestStates /\ Named(req[r])
      BY <2>2 DEF RequestsTyped, RequestsName
    <3>2. QED
      BY <3>1 DEF Named, Grows, TableTyped, Rows, RequestStates
  <2>3. QED
    BY <2>1, <2>2
<1>3. QED
  BY <1>1, <1>2 DEF RequestsTyped, RequestsName

\* The step of one request that leaves the table alone.
LEMMA QuietMove ==
  ASSUME TypeInv, UNCHANGED sessions,
         NEW q \in Requests, NEW x \in RequestStates, Named(x),
         req' = [req EXCEPT ![q] = x]
  PROVE  TableTyped' /\ RequestsTyped'
<1>1. TableTyped' /\ Grows
  BY DEF TypeInv, TableTyped, Grows, Rows
<1>2. QED
  BY <1>1, RequestMove DEF TypeInv

\* The write of one row.
LEMMA TableMove ==
  ASSUME TableTyped, NEW s \in Sessions, NEW row \in Rows,
         row.issued, sessions[s].minted <= row.minted, row.used \subseteq 1 .. row.minted,
         sessions' = [sessions EXCEPT ![s] = row]
  PROVE  TableTyped' /\ Grows
<1>1. \A u \in Sessions : sessions[u] \in Rows /\ sessions'[u] \in Rows
  BY DEF TableTyped
<1>2. \A u \in Sessions : sessions'[u] = IF u = s THEN row ELSE sessions[u]
  BY DEF TableTyped
<1>3. sessions' \in [Sessions -> Rows]
  BY DEF TableTyped
<1>4. Grows
  BY <1>1, <1>2 DEF Grows, Rows
<1>5. QED
  BY <1>2, <1>3, <1>4 DEF TableTyped

\* Revoking a row keeps everything else about it.
LEMMA RevokedTyped ==
  ASSUME NEW row \in Rows
  PROVE  /\ Revoked(row) \in Rows
         /\ Revoked(row).issued = row.issued
         /\ Revoked(row).minted = row.minted
         /\ Revoked(row).used = row.used
         /\ Revoked(row).root = row.root
         /\ Revoked(row).binding = row.binding
         /\ Revoked(row).revoked
         /\ Revoked(row).familyRevoked
         /\ Revoked(row).ended = IF row.revoked THEN row.ended ELSE row.minted
BY DEF Revoked, Rows

LEMMA MintedTyped ==
  ASSUME NEW root \in Sessions \cup {NoSession}, NEW born \in Boundaries,
         NEW binding \in Bindings
  PROVE  /\ Minted(root, born, binding) \in Rows
         /\ Minted(root, born, binding).issued
         /\ ~Minted(root, born, binding).revoked
         /\ ~Minted(root, born, binding).familyRevoked
         /\ Minted(root, born, binding).minted = 1
         /\ Minted(root, born, binding).used = {}
         /\ Minted(root, born, binding).root = root
         /\ Minted(root, born, binding).binding = binding
<1>1. 1 \in 0 .. MaxTokens
  BY SessionsAssumption
<1>2. Minted(root, born, binding) \in Rows
  BY <1>1, MissingTyped DEF Minted, Rows
<1>3. QED
  BY <1>2 DEF Minted, Missing

\* The copy a request holds after its last step.
LEMMA AnswerTyped ==
  ASSUME RequestsTyped, NEW q \in Requests, NEW at \in Points
  PROVE  LET x == [Idle EXCEPT !.at = at, !.session = req[q].session,
                               !.token = req[q].token, !.shut = req[q].shut]
         IN  /\ x \in RequestStates
             /\ x.at = at
             /\ x.session = req[q].session
             /\ x.token = req[q].token
             /\ x.targets = {}
<1>1. req[q] \in RequestStates
  BY DEF RequestsTyped
<1>2. QED
  BY <1>1, IdleTyped DEF Idle, RequestStates

\* Requests that hold still while the table grows.
LEMMA RequestsStay ==
  ASSUME RequestsTyped, TableTyped, TableTyped', Grows, UNCHANGED req
  PROVE  RequestsTyped'
<1>1. ASSUME NEW r \in Requests PROVE Named(req[r])'
  <2>1. req'[r] = req[r] /\ req[r] \in RequestStates /\ Named(req[r])
    BY DEF RequestsTyped, RequestsName
  <2>2. QED
    BY <2>1 DEF Named, Grows, TableTyped, Rows, RequestStates
<1>2. QED
  BY <1>1 DEF RequestsTyped, RequestsName

LEMMA Unmoved ==
  ASSUME TypeInv, UNCHANGED <<account, access, challenges, reset, seen>>
  PROVE  TokensTyped' /\ CountersTyped'
BY DEF TypeInv, TokensTyped, CountersTyped, VersionCounts

\* The step of one request that writes nothing.
LEMMA ReadOnly ==
  ASSUME TypeInv, UNCHANGED <<account, sessions, access, challenges, reset, seen>>,
         NEW q \in Requests, NEW x \in RequestStates, Named(x),
         req' = [req EXCEPT ![q] = x]
  PROVE  TypeInv'
BY QuietMove, Unmoved DEF TypeInv

\* A request that is answered about a session of the table.
LEMMA AnswerMoves ==
  ASSUME RequestsTyped, TableTyped, TableTyped', Grows,
         NEW q \in Requests, NEW at \in {"refreshed", "reused", "issued", "rebound"},
         Answers(q, at),
         at \in {"refreshed", "reused"} => req[q].session \in Sessions
                                           /\ sessions[req[q].session].issued
  PROVE  RequestsTyped'
<1> DEFINE x == [Idle EXCEPT !.at = at, !.session = req[q].session,
                             !.token = req[q].token, !.shut = req[q].shut]
<1>1. at \in Points
  BY DEF Points
<1>2. /\ x \in RequestStates
      /\ x.at = at
      /\ x.session = req[q].session
      /\ x.targets = {}
  BY <1>1, AnswerTyped
<1>3. Named(x)
  BY <1>2 DEF Named
<1>4. req' = [req EXCEPT ![q] = x]
  BY DEF Answers
<1>5. QED
  BY <1>2, <1>3, <1>4, RequestMove

\* Revoking one row.
LEMMA RevokeMoves ==
  ASSUME TableTyped, NEW s \in Sessions, sessions[s].issued,
         sessions' = [sessions EXCEPT ![s] = Revoked(@)]
  PROVE  TableTyped' /\ Grows
<1> DEFINE row == Revoked(sessions[s])
<1>1. sessions[s] \in Rows /\ sessions[s].used \subseteq 1 .. sessions[s].minted
  BY DEF TableTyped
<1>2. /\ row \in Rows
      /\ row.issued
      /\ row.minted = sessions[s].minted
      /\ row.used = sessions[s].used
  BY <1>1, RevokedTyped
<1>3. sessions[s].minted <= row.minted
  BY <1>1, <1>2 DEF Rows
<1>4. sessions' = [sessions EXCEPT ![s] = row]
  OBVIOUS
<1> HIDE DEF row
<1>5. QED
  BY <1>1, <1>2, <1>3, <1>4, TableMove

LEMMA TypeRefresh ==
  ASSUME TypeInv, NEW q \in Requests, Refresh(q)
  PROVE  TypeInv'
<1>1. req[q] \in RequestStates /\ Named(req[q])
  BY DEF TypeInv, RequestsTyped, RequestsName
<1>2. ASSUME NEW s \in Sessions, NEW t \in 1 .. MaxTokens, BeginRefresh(q, s, t) PROVE TypeInv'
  <2>1. sessions[s].issued /\ t \in 1 .. sessions[s].minted
    BY <1>2 DEF BeginRefresh, TypeInv, TableTyped, Missing
  <2>2. ASSUME NEW at \in {"reuse", "account"},
               Begins(q, [Request(at) EXCEPT !.session = s, !.token = t])
        PROVE  TypeInv'
    <3> DEFINE x == [Request(at) EXCEPT !.session = s, !.token = t]
    <3>1. at \in Points
      BY DEF Points
    <3>2. CountersTyped
      BY DEF TypeInv
    <3>3. /\ Request(at) \in RequestStates
          /\ Request(at).at = at
          /\ Request(at).targets = {}
      BY <3>1, <3>2, RequestTyped
    <3>4. t \in 0 .. MaxTokens
      BY SessionsAssumption
    <3>5. x \in RequestStates /\ x.at = at /\ x.session = s /\ x.token = t /\ x.targets = {}
      BY <3>3, <3>4 DEF RequestStates
    <3>6. Named(x)
      BY <2>1, <3>5 DEF Named
    <3>7. req' = [req EXCEPT ![q] = x]
      BY <2>2 DEF Begins
    <3>8. UNCHANGED <<account, sessions, access, challenges, reset, seen>>
      BY <1>2 DEF BeginRefresh
    <3>9. QED
      BY <3>5, <3>6, <3>7, <3>8, ReadOnly
  <2>3. QED
    BY <1>2, <2>2 DEF BeginRefresh
<1>3. ASSUME RefreshReadsAccount(q) PROVE TypeInv'
  <2> DEFINE x == [req[q] EXCEPT !.at = "rotate", !.version = account.version,
                                 !.epoch = seen.epoch]
  <2>1. account.version \in Boundaries /\ seen.epoch \in Boundaries
    BY DEF TypeInv, CountersTyped
  <2>2. x \in RequestStates
    BY <1>1, <2>1 DEF RequestStates, Points
  <2>3. Named(x)
    BY <1>1, <1>3 DEF Named, RefreshReadsAccount, At, RequestStates
  <2>4. req' = [req EXCEPT ![q] = x]
    BY <1>3 DEF RefreshReadsAccount, TypeInv, RequestsTyped
  <2>5. QED
    BY <1>3, <2>2, <2>3, <2>4, ReadOnly DEF RefreshReadsAccount
<1>4. ASSUME RotateToken(q) PROVE TypeInv'
  <2> DEFINE s == req[q].session
             t == req[q].token
             row == [sessions[s] EXCEPT !.used = @ \cup {t}, !.minted = @ + 1]
  <2>1. s \in Sessions /\ sessions[s].issued /\ t \in 1 .. sessions[s].minted
    BY <1>1, <1>4 DEF RotateToken, At, Named
  <2>2. sessions[s] \in Rows /\ sessions[s].used \subseteq 1 .. sessions[s].minted
    BY <2>1 DEF TypeInv, TableTyped
  <2>3. CASE Claims(sessions[s], t) /\ sessions[s].minted < MaxTokens
    <3>1. /\ sessions' = [sessions EXCEPT ![s] = row]
          /\ access' = access \cup {Signed(q, s)}
          /\ Answers(q, "refreshed")
          /\ UNCHANGED <<account, challenges, reset, seen>>
      BY <1>4, <2>3 DEF RotateToken
    <3>2. row \in Rows
      <4>1. sessions[s].minted + 1 \in 0 .. MaxTokens
        BY <2>2, <2>3, SessionsAssumption DEF Rows
      <4>2. sessions[s].used \cup {t} \in SUBSET (1 .. MaxTokens)
        BY <2>1, <2>2, <2>3, SessionsAssumption DEF Rows
      <4>3. QED
        BY <2>2, <4>1, <4>2 DEF Rows
    <3>3. /\ row.issued
          /\ row.minted = sessions[s].minted + 1
          /\ row.used = sessions[s].used \cup {t}
      BY <2>1, <2>2 DEF Rows
    <3>4. sessions[s].minted <= row.minted /\ row.used \subseteq 1 .. row.minted
      BY <2>1, <2>2, <3>3 DEF Rows
    <3>5. TableTyped' /\ Grows
      <4> HIDE DEF row
      <4> QED BY <2>1, <3>1, <3>2, <3>3, <3>4, TableMove DEF TypeInv
    <3>6. RequestsTyped'
      BY <2>1, <3>1, <3>5, AnswerMoves DEF TypeInv
    <3>7. Signed(q, s) \in [session: Sessions, version: Boundaries, epoch: Boundaries]
      BY <1>1, <2>1 DEF Signed, RequestStates
    <3>8. QED
      BY <3>1, <3>5, <3>6, <3>7 DEF TypeInv, TokensTyped, CountersTyped, VersionCounts
  <2>4. CASE ~Claims(sessions[s], t) /\ UNCHANGED sessions
    <3> DEFINE x == [req[q] EXCEPT !.at = "reuse"]
    <3>1. x \in RequestStates
      BY <1>1 DEF RequestStates, Points
    <3>2. Named(x)
      BY <1>1, <2>1 DEF Named, RequestStates
    <3>3. req' = [req EXCEPT ![q] = x]
      BY <1>4, <2>4 DEF RotateToken, Goes
    <3>4. UNCHANGED <<account, sessions, access, challenges, reset, seen>>
      BY <1>4, <2>4 DEF RotateToken
    <3>5. QED
      BY <3>1, <3>2, <3>3, <3>4, ReadOnly
  <2>5. QED
    BY <1>4, <2>3, <2>4 DEF RotateToken
<1>5. ASSUME RevokeReused(q) PROVE TypeInv'
  <2> DEFINE s == req[q].session
  <2>1. s \in Sessions /\ sessions[s].issued
    BY <1>1, <1>5 DEF RevokeReused, At, Named
  <2>2. TableTyped' /\ Grows
    BY <1>5, <2>1, RevokeMoves DEF RevokeReused, TypeInv
  <2>3. RequestsTyped'
    BY <1>5, <2>1, <2>2, AnswerMoves DEF RevokeReused, TypeInv
  <2>4. QED
    BY <1>5, <2>2, <2>3, Unmoved DEF RevokeReused, TypeInv
<1>6. QED
  BY <1>2, <1>3, <1>4, <1>5 DEF Refresh

\* Minting a session in a blank row.
LEMMA MintMoves ==
  ASSUME TableTyped, NEW s \in Sessions, Fresh(s),
         NEW root \in Sessions, NEW born \in Boundaries, NEW binding \in Bindings,
         sessions' = [sessions EXCEPT ![s] = Minted(root, born, binding)]
  PROVE  TableTyped' /\ Grows
<1> DEFINE row == Minted(root, born, binding)
<1>1. sessions[s].minted = 0
  BY DEF TableTyped, Fresh, Missing
<1>2. row \in Rows /\ row.issued /\ row.minted = 1 /\ row.used = {}
  BY MintedTyped
<1>3. sessions' = [sessions EXCEPT ![s] = row]
  OBVIOUS
<1>4. sessions[s].minted <= row.minted /\ row.used \subseteq 1 .. row.minted
  BY <1>1, <1>2
<1> HIDE DEF row
<1>5. QED
  BY <1>2, <1>3, <1>4, TableMove

LEMMA TypeAuthenticate ==
  ASSUME TypeInv, NEW q \in Requests, Authenticate(q)
  PROVE  TypeInv'
<1>1. req[q] \in RequestStates /\ Named(req[q])
  BY DEF TypeInv, RequestsTyped, RequestsName
<1>2. ASSUME NEW a \in access, BeginAuthenticate(q, a) PROVE TypeInv'
  <2> DEFINE x == [Holding("session") EXCEPT !.session = a.session, !.born = a.epoch,
                                             !.dead = sessions[a.session].revoked]
  <2>1. "session" \in Points
    BY DEF Points
  <2>2. CountersTyped /\ TokensTyped /\ TableTyped
    BY DEF TypeInv
  <2>3. /\ Holding("session") \in RequestStates
        /\ Holding("session").at = "session"
        /\ Holding("session").targets = {}
    BY <2>1, <2>2, RequestTyped
  <2>4. /\ a.session \in Sessions
        /\ a.epoch \in Boundaries
        /\ sessions[a.session].revoked \in BOOLEAN
    BY <2>2 DEF TokensTyped, TableTyped, Rows
  <2>5. x \in RequestStates /\ x.at = "session" /\ x.session = a.session /\ x.targets = {}
    BY <2>3, <2>4 DEF RequestStates
  <2>6. Named(x)
    BY <2>4, <2>5 DEF Named
  <2>7. req' = [req EXCEPT ![q] = x]
    BY <1>2 DEF BeginAuthenticate, Begins
  <2>8. UNCHANGED <<account, sessions, access, challenges, reset, seen>>
    BY <1>2 DEF BeginAuthenticate
  <2>9. QED
    BY <2>5, <2>6, <2>7, <2>8, ReadOnly
<1>3. ASSUME AuthenticateSession(q) PROVE TypeInv'
  <2> DEFINE x == [req[q] EXCEPT !.at = "accepted"]
  <2>1. x \in RequestStates
    BY <1>1 DEF RequestStates, Points
  <2>2. Named(x)
    BY <1>1 DEF Named, RequestStates
  <2>3. QED
    BY <1>3, <2>1, <2>2, ReadOnly DEF AuthenticateSession, Goes
<1>4. QED
  BY <1>2, <1>3 DEF Authenticate

LEMMA TypeLogin ==
  ASSUME TypeInv, NEW q \in Requests, Login(q)
  PROVE  TypeInv'
<1>1. req[q] \in RequestStates /\ Named(req[q])
  BY DEF TypeInv, RequestsTyped, RequestsName
<1>2. /\ account.version \in Boundaries
      /\ seen.epoch \in Boundaries
      /\ CountersTyped
      /\ challenges \subseteq Boundaries
  BY DEF TypeInv, CountersTyped, TokensTyped
<1>3. ASSUME BeginLogin(q) PROVE TypeInv'
  <2> DEFINE x == Holding("verify")
  <2>1. "verify" \in Points
    BY DEF Points
  <2>2. x \in RequestStates /\ x.at = "verify" /\ x.targets = {}
    BY <2>1, <1>2, RequestTyped
  <2>3. Named(x)
    BY <2>2 DEF Named
  <2>4. QED
    BY <1>3, <2>2, <2>3, ReadOnly DEF BeginLogin, Begins
<1>4. ASSUME LoginVerifies(q) PROVE TypeInv'
  <2>1. CASE ~MfaActive
    <3> DEFINE x == [req[q] EXCEPT !.at = "issue", !.born = seen.epoch]
    <3>1. x \in RequestStates
      BY <1>1, <1>2 DEF RequestStates, Points
    <3>2. Named(x)
      BY <1>1 DEF Named, RequestStates
    <3>3. req' = [req EXCEPT ![q] = x]
      BY <1>4, <2>1 DEF LoginVerifies, TypeInv, RequestsTyped
    <3>4. UNCHANGED <<account, sessions, access, challenges, reset, seen>>
      BY <1>4, <2>1 DEF LoginVerifies
    <3>5. QED
      BY <3>1, <3>2, <3>3, <3>4, ReadOnly
  <2>2. CASE MfaActive
    <3>1. Named(Idle)
      BY DEF Named, Idle
    <3>2. TableTyped' /\ RequestsTyped'
      BY <1>4, <2>2, <3>1, IdleTyped, QuietMove DEF LoginVerifies, Finishes
    <3>3. TokensTyped' /\ CountersTyped'
      BY <1>4, <2>2, <1>2 DEF LoginVerifies, TypeInv, TokensTyped, CountersTyped, VersionCounts
    <3>4. QED
      BY <3>2, <3>3 DEF TypeInv
  <2>3. QED
    BY <2>1, <2>2, SessionsAssumption
<1>5. ASSUME NEW c \in challenges, OpenChallenge(q, c) PROVE TypeInv'
  <2> DEFINE x == [Request("complete") EXCEPT !.born = c]
  <2>1. "complete" \in Points
    BY DEF Points
  <2>2. /\ Request("complete") \in RequestStates
        /\ Request("complete").at = "complete"
        /\ Request("complete").targets = {}
    BY <2>1, <1>2, RequestTyped
  <2>3. x \in RequestStates /\ x.at = "complete" /\ x.targets = {}
    BY <1>2, <2>2 DEF RequestStates
  <2>4. Named(x)
    BY <2>3 DEF Named
  <2>5. QED
    BY <1>5, <2>3, <2>4, ReadOnly DEF OpenChallenge, Begins
<1>6. ASSUME CompleteLogin(q) PROVE TypeInv'
  <2> DEFINE x == [req[q] EXCEPT !.at = "issue", !.version = account.version,
                                 !.epoch = seen.epoch]
  <2>1. x \in RequestStates
    BY <1>1, <1>2 DEF RequestStates, Points
  <2>2. Named(x)
    BY <1>1 DEF Named, RequestStates
  <2>3. req' = [req EXCEPT ![q] = x]
    BY <1>6 DEF CompleteLogin, TypeInv, RequestsTyped
  <2>4. UNCHANGED <<account, sessions, access, challenges, reset, seen>>
    BY <1>6 DEF CompleteLogin
  <2>5. QED
    BY <2>1, <2>2, <2>3, <2>4, ReadOnly
<1>7. ASSUME NEW s \in Sessions, Issue(q, s) PROVE TypeInv'
  <2>1. req[q].born \in Boundaries /\ Unbound \in Bindings
    BY <1>1 DEF RequestStates, Bindings
  <2>2. TableTyped' /\ Grows
    BY <1>7, <2>1, MintMoves DEF Issue, TypeInv
  <2>3. RequestsTyped'
    BY <1>7, <2>2, AnswerMoves DEF Issue, TypeInv
  <2>4. Signed(q, s) \in [session: Sessions, version: Boundaries, epoch: Boundaries]
    BY <1>1 DEF Signed, RequestStates
  <2>5. TokensTyped' /\ CountersTyped'
    BY <1>7, <2>4 DEF Issue, TypeInv, TokensTyped, CountersTyped, VersionCounts
  <2>6. QED
    BY <2>2, <2>3, <2>5 DEF TypeInv
<1>8. QED
  BY <1>3, <1>4, <1>5, <1>6, <1>7 DEF Login

LEMMA TypeBind ==
  ASSUME TypeInv, NEW q \in Requests, Bind(q)
  PROVE  TypeInv'
<1>1. req[q] \in RequestStates /\ Named(req[q])
  BY DEF TypeInv, RequestsTyped, RequestsName
<1>2. CountersTyped /\ TableTyped
  BY DEF TypeInv
<1>3. ASSUME NEW s \in Sessions, NEW b \in Tenants, BeginBind(q, s, b) PROVE TypeInv'
  <2> DEFINE x == [Request("bind") EXCEPT !.session = s, !.binding = b]
  <2>1. "bind" \in Points
    BY DEF Points
  <2>2. /\ Request("bind") \in RequestStates
        /\ Request("bind").at = "bind"
        /\ Request("bind").targets = {}
    BY <2>1, <1>2, RequestTyped
  <2>3. x \in RequestStates /\ x.at = "bind" /\ x.session = s /\ x.targets = {}
    BY <2>2 DEF RequestStates, Bindings
  <2>4. sessions[s].issued
    BY <1>3 DEF BeginBind, Live
  <2>5. Named(x)
    BY <2>3, <2>4 DEF Named
  <2>6. QED
    BY <1>3, <2>3, <2>5, ReadOnly DEF BeginBind, Begins
<1>4. ASSUME ClaimBinding(q) PROVE TypeInv'
  <2> DEFINE s == req[q].session
             row == [sessions[s] EXCEPT !.binding = req[q].binding]
  <2>1. s \in Sessions /\ sessions[s].issued
    BY <1>1, <1>4 DEF ClaimBinding, At, Named
  <2>2. sessions[s] \in Rows /\ sessions[s].used \subseteq 1 .. sessions[s].minted
    BY <1>2, <2>1 DEF TableTyped
  <2>3. req[q].binding \in Bindings
    BY <1>1 DEF RequestStates
  <2>4. /\ row \in Rows
        /\ row.issued
        /\ sessions[s].minted <= row.minted
        /\ row.used \subseteq 1 .. row.minted
    BY <2>1, <2>2, <2>3 DEF Rows
  <2>5. sessions' = [sessions EXCEPT ![s] = row]
    BY <1>4 DEF ClaimBinding
  <2>6. TableTyped' /\ Grows
    <3> HIDE DEF row
    <3> QED BY <1>2, <2>1, <2>4, <2>5, TableMove
  <2>7. Named(Idle)
    BY DEF Named, Idle
  <2>8. RequestsTyped'
    BY <1>4, <2>6, <2>7, IdleTyped, RequestMove DEF ClaimBinding, Finishes, TypeInv
  <2>9. QED
    BY <1>4, <2>6, <2>8, Unmoved DEF ClaimBinding, TypeInv
<1>5. ASSUME NEW s \in Sessions, NEW b \in Bindings, BeginRebind(q, s, b) PROVE TypeInv'
  <2> DEFINE x == [Holding("rebind") EXCEPT !.session = s, !.binding = b]
  <2>1. "rebind" \in Points
    BY DEF Points
  <2>2. /\ Holding("rebind") \in RequestStates
        /\ Holding("rebind").at = "rebind"
        /\ Holding("rebind").targets = {}
    BY <2>1, <1>2, RequestTyped
  <2>3. x \in RequestStates /\ x.at = "rebind" /\ x.session = s /\ x.targets = {}
    BY <2>2 DEF RequestStates
  <2>4. sessions[s].issued
    BY <1>5 DEF BeginRebind, Live
  <2>5. Named(x)
    BY <2>3, <2>4 DEF Named
  <2>6. QED
    BY <1>5, <2>3, <2>5, ReadOnly DEF BeginRebind, Begins
<1>6. ASSUME NEW s \in Sessions, RebindSession(q, s) PROVE TypeInv'
  <2>1. PICK old \in Sessions : old = req[q].session /\ sessions[old].issued /\ old # s
    BY <1>1, <1>6 DEF RebindSession, At, Named, Fresh
  <2>2. PICK born \in Boundaries : born = sessions[old].born
    BY <1>2 DEF TableTyped, Rows
  <2>3. PICK binding \in Bindings : binding = req[q].binding
    BY <1>1 DEF RequestStates
  <2>4. PICK root \in Sessions \cup {NoSession} : root = sessions[old].root
    BY <1>2 DEF TableTyped, Rows
  <2> DEFINE dead == Revoked(sessions[old])
             fresh == Minted(root, born, binding)
  <2>5. \A u \in Sessions :
          sessions'[u] = IF u = s THEN fresh ELSE IF u = old THEN dead ELSE sessions[u]
    BY <1>6, <2>1, <2>2, <2>3, <2>4, <1>2 DEF RebindSession, TableTyped
  <2>6. DOMAIN sessions' = Sessions /\ sessions' = [u \in Sessions |-> sessions'[u]]
    BY <1>6, <1>2 DEF RebindSession, TableTyped
  <2>7. /\ sessions[old] \in Rows
        /\ dead \in Rows
        /\ dead.issued
        /\ dead.minted = sessions[old].minted
        /\ dead.used = sessions[old].used
    BY <1>2, <2>1, RevokedTyped DEF TableTyped
  <2>8. fresh \in Rows /\ fresh.issued /\ fresh.minted = 1 /\ fresh.used = {}
    BY MintedTyped
  <2>9. sessions[s].minted = 0
    BY <1>6, <1>2 DEF RebindSession, Fresh, TableTyped, Missing
  <2> HIDE DEF dead, fresh
  <2>10. TableTyped' /\ Grows
    <3>1. sessions' \in [Sessions -> Rows]
      BY <1>2, <2>5, <2>6, <2>7, <2>8 DEF TableTyped
    <3>2. ASSUME NEW u \in Sessions
          PROVE  /\ ~sessions'[u].issued => sessions'[u] = Missing
                 /\ sessions'[u].used \subseteq 1 .. sessions'[u].minted
                 /\ sessions[u].issued => sessions'[u].issued
                 /\ sessions[u].minted <= sessions'[u].minted
      <4>1. CASE u = s
        BY <2>5, <2>8, <2>9, <4>1
      <4>2. CASE u = old /\ u # s
        BY <1>2, <2>1, <2>5, <2>7, <4>2 DEF TableTyped, Rows
      <4>3. CASE u # old /\ u # s
        BY <1>2, <2>5, <4>3 DEF TableTyped, Rows
      <4>4. QED
        BY <4>1, <4>2, <4>3
    <3>3. QED
      BY <3>1, <3>2 DEF TableTyped, Grows
  <2>11. RequestsTyped' /\ TableTyped'
    BY <1>6, <2>10, AnswerMoves DEF RebindSession, TypeInv
  <2>12. Signed(q, s) \in [session: Sessions, version: Boundaries, epoch: Boundaries]
    BY <1>1 DEF Signed, RequestStates
  <2>13. TokensTyped' /\ CountersTyped'
    BY <1>6, <2>12 DEF RebindSession, TypeInv, TokensTyped, CountersTyped, VersionCounts
  <2>14. QED
    BY <2>11, <2>13 DEF TypeInv
<1>7. QED
  BY <1>3, <1>4, <1>5, <1>6 DEF Bind

\* Counting a boundary bumps the version and the epoch together.
LEMMA BoundaryCounts ==
  ASSUME CountersTyped, seen.epoch < MaxBoundaries
  PROVE  /\ seen.epoch + 1 \in Boundaries
         /\ account.generation + 1 \in Boundaries
         /\ account.generation + 1 <= seen.epoch + 1
         /\ seen.byToken + 1 \in Boundaries
         /\ seen.byToken + 1 <= seen.epoch + 1
         /\ Bumped(account.version) = seen.epoch + 1
         /\ account.active \in BOOLEAN
         /\ account.generation \in Boundaries
         /\ account.generation <= seen.epoch + 1
         /\ seen.byToken \in Boundaries
         /\ seen.byToken <= seen.epoch + 1
BY SessionsAssumption DEF CountersTyped, VersionCounts, Boundaries, Bumped

\* The end of a sweep notes its boundary and leaves the counters.
LEMMA CompletedTyped ==
  ASSUME CountersTyped, NEW q \in Requests, req[q] \in RequestStates
  PROVE  /\ Completed(q) \in [epoch: Boundaries, shut: BOOLEAN, reset: Boundaries,
                              disable: Boundaries, byToken: Boundaries]
         /\ Completed(q).epoch = seen.epoch
         /\ Completed(q).byToken = seen.byToken
         /\ Completed(q).shut => seen.shut \/ ~account.active
<1>1. /\ req[q].epoch \in Boundaries
      /\ account.active \in BOOLEAN
      /\ seen \in [epoch: Boundaries, shut: BOOLEAN, reset: Boundaries,
                   disable: Boundaries, byToken: Boundaries]
  BY DEF CountersTyped, RequestStates
<1>2. CASE req[q].kind = "reset"
  BY <1>1, <1>2 DEF Completed
<1>3. CASE req[q].kind = "disable"
  BY <1>1, <1>3 DEF Completed
<1>4. CASE req[q].kind \notin {"reset", "disable"}
  BY <1>1, <1>4 DEF Completed
<1>5. QED
  BY <1>2, <1>3, <1>4

\* A sweep revokes rows of the table.
LEMMA SweepMoves ==
  ASSUME TableTyped, NEW S \in SUBSET Sessions, \A s \in S : sessions[s].issued,
         sessions' = [s \in Sessions |-> IF s \in S THEN Revoked(sessions[s])
                                                    ELSE sessions[s]]
  PROVE  TableTyped' /\ Grows
<1>1. ASSUME NEW s \in Sessions
      PROVE  /\ sessions[s] \in Rows
             /\ sessions'[s] \in Rows
             /\ sessions'[s].issued = sessions[s].issued
             /\ sessions'[s].minted = sessions[s].minted
             /\ sessions'[s].used = sessions[s].used
             /\ ~sessions[s].issued => sessions'[s] = sessions[s]
  <2>1. sessions[s] \in Rows
    BY DEF TableTyped
  <2>2. QED
    BY <2>1, RevokedTyped
<1>2. sessions' \in [Sessions -> Rows]
  BY <1>1
<1>3. Grows
  BY <1>1 DEF Grows, Rows
<1>4. QED
  BY <1>1, <1>2, <1>3 DEF TableTyped

LEMMA TypeBoundary ==
  ASSUME TypeInv, NEW q \in Requests, Boundary(q)
  PROVE  TypeInv'
<1>1. req[q] \in RequestStates /\ Named(req[q])
  BY DEF TypeInv, RequestsTyped, RequestsName
<1>2. CountersTyped /\ TableTyped /\ TokensTyped /\ RequestsTyped
  BY DEF TypeInv
<1>3. ASSUME BeginReset(q) PROVE TypeInv'
  <2> DEFINE x == [Request("consume") EXCEPT !.kind = "reset"]
  <2>1. "consume" \in Points
    BY DEF Points
  <2>2. /\ Request("consume") \in RequestStates
        /\ Request("consume").at = "consume"
        /\ Request("consume").targets = {}
    BY <1>2, <2>1, RequestTyped
  <2>3. x \in RequestStates /\ x.at = "consume" /\ x.targets = {}
    BY <2>2 DEF RequestStates
  <2>4. Named(x)
    BY <2>3 DEF Named
  <2>5. QED
    BY <1>3, <2>3, <2>4, ReadOnly DEF BeginReset, Begins
<1>4. ASSUME ConsumeReset(q) PROVE TypeInv'
  <2> DEFINE x == [req[q] EXCEPT !.at = "replace"]
  <2>1. x \in RequestStates
    BY <1>1 DEF RequestStates, Points
  <2>2. Named(x)
    BY <1>1 DEF Named, RequestStates
  <2>3. TableTyped' /\ RequestsTyped'
    BY <1>4, <2>1, <2>2, QuietMove DEF ConsumeReset, Goes
  <2>4. TokensTyped' /\ CountersTyped'
    BY <1>2, <1>4 DEF ConsumeReset, TokensTyped, CountersTyped, VersionCounts
  <2>5. QED
    BY <2>3, <2>4 DEF TypeInv
<1>5. ASSUME NEW s \in Sessions, BeginChange(q, s) PROVE TypeInv'
  <2> DEFINE x == [Request("replace") EXCEPT !.kind = "change", !.session = s]
  <2>1. "replace" \in Points
    BY DEF Points
  <2>2. /\ Request("replace") \in RequestStates
        /\ Request("replace").at = "replace"
        /\ Request("replace").targets = {}
    BY <1>2, <2>1, RequestTyped
  <2>3. x \in RequestStates /\ x.at = "replace" /\ x.targets = {}
    BY <2>2 DEF RequestStates
  <2>4. Named(x)
    BY <2>3 DEF Named
  <2>5. QED
    BY <1>5, <2>3, <2>4, ReadOnly DEF BeginChange, Begins
<1>6. ASSUME ReplacePassword(q) PROVE TypeInv'
  <2> DEFINE x == [req[q] EXCEPT !.at = "find", !.epoch = seen.epoch + 1]
  <2>1. seen.epoch < MaxBoundaries
    BY <1>6 DEF ReplacePassword
  <2>2. seen.epoch + 1 \in Boundaries
    BY <1>2, <2>1, BoundaryCounts
  <2>3. x \in RequestStates
    BY <1>1, <2>2 DEF RequestStates, Points
  <2>4. Named(x)
    BY <1>1 DEF Named, RequestStates
  <2>5. TableTyped' /\ RequestsTyped'
    BY <1>6, <2>3, <2>4, QuietMove DEF ReplacePassword
  <2>6. CountersTyped'
    <3>1. account' \in [active: BOOLEAN, version: Boundaries, generation: Boundaries]
      BY <1>2, <1>6, <2>1, BoundaryCounts DEF ReplacePassword, CountersTyped
    <3>2. PICK n \in Boundaries :
            /\ seen' = [seen EXCEPT !.epoch = @ + 1, !.byToken = n]
            /\ n <= seen.epoch + 1
      <4>1. CASE req[q].kind = "reset"
        BY <1>2, <1>6, <2>1, <4>1, BoundaryCounts DEF ReplacePassword
      <4>2. CASE req[q].kind # "reset"
        <5>1. seen.byToken + 0 = seen.byToken
          BY <1>2, <2>1, BoundaryCounts, SessionsAssumption DEF Boundaries
        <5>2. seen' = [seen EXCEPT !.epoch = @ + 1, !.byToken = seen.byToken]
          BY <1>6, <4>2, <5>1 DEF ReplacePassword
        <5>3. QED
          BY <1>2, <2>1, <5>2, BoundaryCounts
      <4>3. QED
        BY <4>1, <4>2
    <3>3. seen' \in [epoch: Boundaries, shut: BOOLEAN, reset: Boundaries,
                     disable: Boundaries, byToken: Boundaries]
      BY <1>2, <2>1, <3>2, BoundaryCounts DEF CountersTyped
    <3>4. account'.version = seen.epoch + 1 /\ account'.generation = account.generation + 1
      BY <1>2, <1>6, <2>1, BoundaryCounts DEF ReplacePassword, CountersTyped
    <3>5. seen'.epoch = seen.epoch + 1 /\ seen'.byToken <= seen.epoch + 1
      BY <1>2, <3>2 DEF CountersTyped
    <3>6. VersionCounts'
      BY <1>2, <2>1, <3>4, <3>5, BoundaryCounts DEF VersionCounts
    <3>7. QED
      BY <3>1, <3>3, <3>6 DEF CountersTyped
  <2>7. QED
    BY <1>2, <1>6, <2>5, <2>6 DEF ReplacePassword, TypeInv, TokensTyped
<1>7. ASSUME Disable(q) PROVE TypeInv'
  <2> DEFINE x == [Idle EXCEPT !.at = "find", !.kind = "disable", !.epoch = seen.epoch + 1]
  <2>1. seen.epoch < MaxBoundaries
    BY <1>7 DEF Disable
  <2>2. seen.epoch + 1 \in Boundaries
    BY <1>2, <2>1, BoundaryCounts
  <2>3. x \in RequestStates
    BY <2>2, IdleTyped DEF RequestStates, Points
  <2>4. Named(x)
    BY DEF Named, Idle
  <2>5. TableTyped' /\ RequestsTyped'
    BY <1>7, <2>3, <2>4, QuietMove DEF Disable, Begins
  <2>6. CountersTyped'
    <3>1. account' \in [active: BOOLEAN, version: Boundaries, generation: Boundaries]
      BY <1>2, <1>7, <2>1, BoundaryCounts DEF Disable, CountersTyped
    <3>2. seen' \in [epoch: Boundaries, shut: BOOLEAN, reset: Boundaries,
                     disable: Boundaries, byToken: Boundaries]
      BY <1>2, <1>7, <2>1, BoundaryCounts DEF Disable, CountersTyped
    <3>3. VersionCounts'
      BY <1>2, <1>7, <2>1, BoundaryCounts DEF Disable, CountersTyped, VersionCounts
    <3>4. QED
      BY <3>1, <3>2, <3>3 DEF CountersTyped
  <2>7. QED
    BY <1>2, <1>7, <2>5, <2>6 DEF Disable, TypeInv, TokensTyped
<1>8. ASSUME NEW s \in Sessions, BeginRevokeOthers(q, s) PROVE TypeInv'
  <2> DEFINE x == [Request("find") EXCEPT !.kind = "others", !.session = s]
  <2>1. "find" \in Points
    BY DEF Points
  <2>2. /\ Request("find") \in RequestStates
        /\ Request("find").at = "find"
        /\ Request("find").targets = {}
    BY <1>2, <2>1, RequestTyped
  <2>3. x \in RequestStates /\ x.at = "find" /\ x.targets = {}
    BY <2>2 DEF RequestStates
  <2>4. Named(x)
    BY <2>3 DEF Named
  <2>5. QED
    BY <1>8, <2>3, <2>4, ReadOnly DEF BeginRevokeOthers, Begins
<1>9. ASSUME FindTargets(q) PROVE TypeInv'
  <2> DEFINE x == [req[q] EXCEPT !.at = "sweep", !.targets = Targets(q)]
  <2>1. Targets(q) \in SUBSET Sessions /\ \A s \in Targets(q) : sessions[s].issued
    BY DEF Targets
  <2>2. x \in RequestStates /\ x.at = "sweep" /\ x.targets = Targets(q)
    BY <1>1, <2>1 DEF RequestStates, Points
  <2>3. Named(x)
    BY <2>1, <2>2 DEF Named
  <2>4. req' = [req EXCEPT ![q] = x]
    BY <1>2, <1>9 DEF FindTargets, RequestsTyped
  <2>5. UNCHANGED <<account, sessions, access, challenges, reset, seen>>
    BY <1>9 DEF FindTargets
  <2>6. QED
    BY <2>2, <2>3, <2>4, <2>5, ReadOnly
<1>10. ASSUME Sweep(q) PROVE TypeInv'
  <2>1. TableTyped' /\ Grows
    BY <1>1, <1>2, <1>10, SweepMoves DEF Sweep, Named, RequestStates
  <2>2. Named(Idle)
    BY DEF Named, Idle
  <2>3. RequestsTyped'
    BY <1>2, <1>10, <2>1, <2>2, IdleTyped, RequestMove DEF Sweep, Finishes
  <2>4. seen' \in [epoch: Boundaries, shut: BOOLEAN, reset: Boundaries,
                   disable: Boundaries, byToken: Boundaries]
    BY <1>1, <1>2, <1>10, CompletedTyped DEF Sweep, CountersTyped
  <2>5. VersionCounts'
    BY <1>1, <1>2, <1>10, CompletedTyped DEF Sweep, CountersTyped, VersionCounts
  <2>6. QED
    BY <1>2, <1>10, <2>1, <2>3, <2>4, <2>5 DEF Sweep, TypeInv, TokensTyped, CountersTyped
<1>11. QED
  BY <1>3, <1>4, <1>5, <1>6, <1>7, <1>8, <1>9, <1>10 DEF Boundary

\* Enabling lets the requests in flight be told from later ones, no more.
LEMMA EnableRequests ==
  ASSUME Enable, req \in [Requests -> RequestStates]
  PROVE  /\ req' \in [Requests -> RequestStates]
         /\ \A q \in Requests :
              /\ req'[q].at = req[q].at
              /\ req'[q].session = req[q].session
              /\ req'[q].token = req[q].token
              /\ req'[q].version = req[q].version
              /\ req'[q].epoch = req[q].epoch
              /\ req'[q].born = req[q].born
              /\ req'[q].dead = req[q].dead
              /\ req'[q].targets = req[q].targets
              /\ ~req'[q].shut
<1>1. \A q \in Requests : req[q] \in RequestStates
  OBVIOUS
<1>2. req' = [q \in Requests |-> [req[q] EXCEPT !.shut = FALSE]]
  BY DEF Enable
<1>3. QED
  BY <1>1, <1>2 DEF RequestStates

\* Every statement of a request, a client or the clock keeps the types.
LEMMA TypeStep == TypeInv /\ [Next]_vars => TypeInv'
<1> SUFFICES ASSUME TypeInv, [Next]_vars PROVE TypeInv'
  OBVIOUS
<1>1. CountersTyped /\ TableTyped /\ TokensTyped /\ RequestsTyped
  BY DEF TypeInv
<1>2. ASSUME NEW q \in Requests, End(q) PROVE TypeInv'
  <2>1. Named(Idle)
    BY DEF Named, Idle
  <2>2. QED
    BY <1>2, <2>1, IdleTyped, ReadOnly DEF End
<1>3. ASSUME NEW s \in Sessions, RevokeSession(s) PROVE TypeInv'
  <2>1. TableTyped' /\ Grows
    BY <1>1, <1>3, RevokeMoves DEF RevokeSession
  <2>2. RequestsTyped'
    BY <1>1, <1>3, <2>1, RequestsStay DEF RevokeSession
  <2>3. QED
    BY <1>3, <2>1, <2>2, Unmoved DEF RevokeSession, TypeInv
<1>4. ASSUME NEW s \in Sessions, SessionExpires(s) PROVE TypeInv'
  <2> DEFINE row == [sessions[s] EXCEPT !.expired = TRUE]
  <2>1. sessions[s] \in Rows /\ sessions[s].used \subseteq 1 .. sessions[s].minted
    BY <1>1 DEF TableTyped
  <2>2. row \in Rows /\ row.issued
    BY <1>4, <2>1 DEF SessionExpires, Live, Rows
  <2>3. row.minted = sessions[s].minted /\ row.used = sessions[s].used
    BY <2>1 DEF Rows
  <2>4. sessions[s].minted <= row.minted /\ row.used \subseteq 1 .. row.minted
    BY <2>1, <2>3 DEF Rows
  <2>5. sessions' = [sessions EXCEPT ![s] = row]
    BY <1>4 DEF SessionExpires
  <2>6. TableTyped' /\ Grows
    <3> HIDE DEF row
    <3> QED BY <1>1, <2>2, <2>5, <2>4, TableMove
  <2>7. RequestsTyped'
    BY <1>1, <1>4, <2>6, RequestsStay DEF SessionExpires
  <2>8. QED
    BY <1>4, <2>6, <2>7, Unmoved DEF SessionExpires, TypeInv
<1>5. ASSUME ForgotPassword \/ ResetExpires PROVE TypeInv'
  <2>1. TableTyped' /\ Grows /\ UNCHANGED req
    BY <1>1, <1>5 DEF ForgotPassword, ResetExpires, TableTyped, Grows, Rows
  <2>2. RequestsTyped'
    BY <1>1, <2>1, RequestsStay
  <2>3. TokensTyped' /\ CountersTyped'
    BY <1>1, <1>5 DEF ForgotPassword, ResetExpires, TokensTyped, CountersTyped, VersionCounts
  <2>4. QED
    BY <2>1, <2>2, <2>3 DEF TypeInv
<1>6. ASSUME Enable PROVE TypeInv'
  <2>1. seen.epoch < MaxBoundaries
    BY <1>6 DEF Enable
  <2>2. TableTyped'
    BY <1>1, <1>6 DEF Enable, TableTyped
  <2>3. RequestsTyped'
    BY <1>1, <1>6, EnableRequests DEF Enable, RequestsTyped, RequestsName, Named
  <2>4. CountersTyped'
    <3>1. account' \in [active: BOOLEAN, version: Boundaries, generation: Boundaries]
      BY <1>1, <1>6, <2>1, BoundaryCounts DEF Enable, CountersTyped
    <3>2. seen' \in [epoch: Boundaries, shut: BOOLEAN, reset: Boundaries,
                     disable: Boundaries, byToken: Boundaries]
      BY <1>1, <1>6, <2>1, BoundaryCounts DEF Enable, CountersTyped
    <3>3. VersionCounts'
      BY <1>1, <1>6, <2>1, BoundaryCounts DEF Enable, CountersTyped, VersionCounts
    <3>4. QED
      BY <3>1, <3>2, <3>3 DEF CountersTyped
  <2>5. QED
    BY <1>1, <1>6, <2>2, <2>3, <2>4 DEF Enable, TypeInv, TokensTyped
<1>7. CASE UNCHANGED vars
  <2>1. TableTyped' /\ Grows /\ UNCHANGED req
    BY <1>1, <1>7 DEF vars, TableTyped, Grows, Rows
  <2>2. RequestsTyped'
    BY <1>1, <2>1, RequestsStay
  <2>3. QED
    BY <1>7, <2>1, <2>2, Unmoved DEF vars, TypeInv
<1>8. QED
  BY <1>2, <1>3, <1>4, <1>5, <1>6, <1>7, TypeRefresh, TypeAuthenticate, TypeLogin,
     TypeBind, TypeBoundary DEF Next

\* Every variable is well typed, sessions that were not minted are blank, and
\* requests name sessions of the table: all use cases, in any interleaving.
THEOREM TypeCorrect == Spec => []TypeOK
<1>1. TypeInv /\ [Next]_vars => TypeInv'
  BY TypeStep
<1>2. QED
  BY TypeInit, TypeInvImplies, <1>1, PTL DEF Spec

-----------------------------------------------------------------------------
\* The table

\* What one step may do to one row.
RowStep(s) ==
  LET row == sessions[s]
  IN \/ sessions'[s] = row
     \/ row.issued /\ sessions'[s] = Revoked(row)
     \/ row.issued /\ sessions'[s] = [row EXCEPT !.expired = TRUE]
     \/ /\ row.issued
        /\ row.binding = Unbound
        /\ \E b \in Bindings : sessions'[s] = [row EXCEPT !.binding = b]
     \/ /\ row.issued
        /\ \E t \in (1 .. row.minted) \ row.used :
             /\ \E q \in Requests : At(q, "rotate") /\ req[q].session = s /\ req[q].token = t
             /\ sessions'[s] = [row EXCEPT !.used = @ \cup {t}, !.minted = @ + 1]
     \/ /\ ~row.issued
        /\ \E root \in Sessions \cup {NoSession}, born \in Boundaries, b \in Bindings :
             sessions'[s] = Minted(root, born, b)

\* Only these steps write the table.
LEMMA TableSteps ==
  ASSUME [Next]_vars
  PROVE  \/ UNCHANGED sessions
         \/ \E q \in Requests, s \in Sessions : Issue(q, s) \/ RebindSession(q, s)
         \/ \E q \in Requests : RotateToken(q) \/ RevokeReused(q) \/ ClaimBinding(q) \/ Sweep(q)
         \/ \E s \in Sessions : RevokeSession(s) \/ SessionExpires(s)
<1>1. ASSUME NEW q \in Requests, Refresh(q)
      PROVE  UNCHANGED sessions \/ RotateToken(q) \/ RevokeReused(q)
  BY <1>1 DEF Refresh, BeginRefresh, RefreshReadsAccount
<1>2. ASSUME NEW q \in Requests, Authenticate(q) PROVE UNCHANGED sessions
  BY <1>2 DEF Authenticate, BeginAuthenticate, AuthenticateSession
<1>3. ASSUME NEW q \in Requests, Login(q)
      PROVE  UNCHANGED sessions \/ \E s \in Sessions : Issue(q, s)
  BY <1>3 DEF Login, BeginLogin, LoginVerifies, OpenChallenge, CompleteLogin
<1>4. ASSUME NEW q \in Requests, Bind(q)
      PROVE  UNCHANGED sessions \/ ClaimBinding(q) \/ \E s \in Sessions : RebindSession(q, s)
  BY <1>4 DEF Bind, BeginBind, BeginRebind
<1>5. ASSUME NEW q \in Requests, Boundary(q) PROVE UNCHANGED sessions \/ Sweep(q)
  BY <1>5 DEF Boundary, BeginReset, ConsumeReset, BeginChange, ReplacePassword, Disable,
              BeginRevokeOthers, FindTargets
<1>6. ASSUME NEW q \in Requests, End(q) PROVE UNCHANGED sessions
  BY <1>6 DEF End
<1>7. ForgotPassword \/ ResetExpires \/ Enable \/ UNCHANGED vars => UNCHANGED sessions
  BY DEF ForgotPassword, ResetExpires, Enable, vars
<1>8. QED
  BY <1>1, <1>2, <1>3, <1>4, <1>5, <1>6, <1>7 DEF Next

LEMMA RowSteps ==
  ASSUME TypeInv, [Next]_vars, NEW s \in Sessions
  PROVE  RowStep(s)
<1>1. /\ sessions \in [Sessions -> Rows]
      /\ \A q \in Requests : req[q] \in RequestStates /\ Named(req[q])
  BY DEF TypeInv, TableTyped, RequestsTyped, RequestsName
<1>2. CASE UNCHANGED sessions
  BY <1>2 DEF RowStep
<1>3. ASSUME NEW q \in Requests, NEW u \in Sessions, Issue(q, u) PROVE RowStep(s)
  <2>1. /\ sessions' = [sessions EXCEPT ![u] = Minted(u, req[q].born, Unbound)]
        /\ ~sessions[u].issued
        /\ req[q].born \in Boundaries
    BY <1>1, <1>3 DEF Issue, Fresh, RequestStates
  <2>2. Unbound \in Bindings
    BY DEF Bindings
  <2>3. QED
    BY <1>1, <2>1, <2>2 DEF RowStep
<1>4. ASSUME NEW q \in Requests, NEW u \in Sessions, RebindSession(q, u) PROVE RowStep(s)
  <2>1. PICK old \in Sessions : old = req[q].session /\ sessions[old].issued /\ old # u
    BY <1>1, <1>4 DEF RebindSession, At, Named, Fresh
  <2>2. /\ sessions' = [sessions EXCEPT
                          ![old] = Revoked(@),
                          ![u] = Minted(sessions[old].root, sessions[old].born,
                                        req[q].binding)]
        /\ ~sessions[u].issued
        /\ req[q].binding \in Bindings
    BY <1>1, <1>4, <2>1 DEF RebindSession, Fresh, RequestStates
  <2>3. sessions[old].root \in Sessions \cup {NoSession} /\ sessions[old].born \in Boundaries
    BY <1>1 DEF Rows
  <2>4. CASE s = u
    BY <1>1, <2>2, <2>3, <2>4 DEF RowStep
  <2>5. CASE s # u
    BY <1>1, <2>1, <2>2, <2>5 DEF RowStep
  <2>6. QED
    BY <2>4, <2>5
<1>5. ASSUME NEW q \in Requests, RotateToken(q) PROVE RowStep(s)
  <2>1. CASE UNCHANGED sessions
    BY <2>1 DEF RowStep
  <2>2. PICK u \in Sessions, t \in Nat :
          /\ t \in 1 .. sessions[u].minted
          /\ u = req[q].session
          /\ t = req[q].token
          /\ sessions[u].issued
    BY <1>1, <1>5 DEF RotateToken, At, Named
  <2>3. CASE /\ Claims(sessions[u], t)
             /\ sessions' = [sessions EXCEPT ![u].used = @ \cup {t}, ![u].minted = @ + 1]
    <3>1. t \in (1 .. sessions[u].minted) \ sessions[u].used
      BY <2>2, <2>3 DEF Claims
    <3>2. sessions' = [sessions EXCEPT
                         ![u] = [sessions[u] EXCEPT !.used = @ \cup {t}, !.minted = @ + 1]]
      BY <1>1, <2>3
    <3>3. At(q, "rotate")
      BY <1>5 DEF RotateToken
    <3>4. QED
      BY <1>1, <2>2, <3>1, <3>2, <3>3 DEF RowStep
  <2>4. QED
    BY <1>5, <2>1, <2>2, <2>3 DEF RotateToken
<1>6. ASSUME NEW q \in Requests, RevokeReused(q) PROVE RowStep(s)
  <2>1. req[q].session \in Sessions /\ sessions[req[q].session].issued
    BY <1>1, <1>6 DEF RevokeReused, At, Named
  <2>2. QED
    BY <1>1, <1>6, <2>1 DEF RevokeReused, RowStep
<1>7. ASSUME NEW q \in Requests, ClaimBinding(q) PROVE RowStep(s)
  <2>1. /\ req[q].session \in Sessions
        /\ sessions[req[q].session].issued
        /\ req[q].binding \in Bindings
    BY <1>1, <1>7 DEF ClaimBinding, At, Named, RequestStates
  <2>2. QED
    BY <1>1, <1>7, <2>1 DEF ClaimBinding, Bindable, RowStep
<1>8. ASSUME NEW q \in Requests, Sweep(q) PROVE RowStep(s)
  <2>1. \A u \in req[q].targets : sessions[u].issued
    BY <1>1 DEF Named
  <2>2. QED
    BY <1>8, <2>1 DEF Sweep, RowStep
<1>9. ASSUME NEW u \in Sessions, RevokeSession(u) PROVE RowStep(s)
  BY <1>1, <1>9 DEF RevokeSession, RowStep
<1>10. ASSUME NEW u \in Sessions, SessionExpires(u) PROVE RowStep(s)
  BY <1>1, <1>10 DEF SessionExpires, Live, RowStep
<1>11. QED
  BY <1>2, <1>3, <1>4, <1>5, <1>6, <1>7, <1>8, <1>9, <1>10, TableSteps

\* What no step takes back from a row.
LEMMA RowKeeps ==
  ASSUME TypeInv, NEW s \in Sessions, RowStep(s)
  PROVE  /\ sessions[s].issued => sessions'[s].issued
         /\ sessions[s].revoked => sessions'[s].revoked
         /\ sessions[s].familyRevoked => sessions'[s].familyRevoked
         /\ sessions[s].used \subseteq sessions'[s].used
         /\ sessions[s].issued => sessions'[s].root = sessions[s].root
         /\ sessions[s].binding # Unbound => sessions'[s].binding = sessions[s].binding
         /\ sessions[s].issued => sessions'[s].born = sessions[s].born
         /\ sessions'[s].revoked =>
              sessions'[s].ended = IF sessions[s].revoked THEN sessions[s].ended
                                                          ELSE sessions[s].minted
<1> DEFINE row == sessions[s]
<1>1. row \in Rows /\ (~row.issued => row = Missing)
  BY DEF TypeInv, TableTyped
<1>2. CASE row.issued /\ sessions'[s] = Revoked(row)
  BY <1>1, <1>2 DEF Revoked, Rows
<1>3. CASE row.issued /\ sessions'[s] = [row EXCEPT !.expired = TRUE]
  BY <1>1, <1>3 DEF Rows
<1>4. CASE /\ row.issued
           /\ row.binding = Unbound
           /\ \E b \in Bindings : sessions'[s] = [row EXCEPT !.binding = b]
  BY <1>1, <1>4 DEF Rows
<1>5. CASE /\ row.issued
           /\ \E t \in (1 .. row.minted) \ row.used :
                sessions'[s] = [row EXCEPT !.used = @ \cup {t}, !.minted = @ + 1]
  BY <1>1, <1>5 DEF Rows
<1>6. CASE /\ ~row.issued
           /\ \E root \in Sessions \cup {NoSession}, born \in Boundaries, b \in Bindings :
                sessions'[s] = Minted(root, born, b)
  <2>1. row = Missing
    BY <1>1, <1>6
  <2>2. ~row.revoked /\ ~row.familyRevoked /\ row.used = {} /\ row.binding = Unbound
    BY <2>1 DEF Missing
  <2>3. ~sessions'[s].revoked
    BY <1>6, MintedTyped
  <2>4. QED
    BY <1>6, <2>2, <2>3
<1>7. CASE sessions'[s] = row
  BY <1>7
<1>8. QED
  BY <1>2, <1>3, <1>4, <1>5, <1>6, <1>7 DEF RowStep

\* A claim made after the end is made with a token from before it, which is the
\* last one then: it leaves one successor, and the token of the next claim is
\* no more from before.
LEMMA SpentStep ==
  ASSUME TypeInv, OneUnusedToken, LastIsUnused, DeadFamilyIsSpent, RequestsHonest, [Next]_vars
  PROVE  LastIsUnused' /\ DeadFamilyIsSpent'
<1> SUFFICES ASSUME NEW s \in Sessions
             PROVE  /\ sessions'[s].issued => sessions'[s].minted \notin sessions'[s].used
                    /\ sessions'[s].revoked =>
                         /\ sessions'[s].minted <= sessions'[s].ended + 1
                         /\ sessions'[s].used \subseteq 1 .. sessions'[s].ended
  BY DEF LastIsUnused, DeadFamilyIsSpent
<1> DEFINE row == sessions[s]
<1>1. /\ row \in Rows
      /\ row.used \subseteq 1 .. row.minted
      /\ RowStep(s)
      /\ row.issued => row.minted \notin row.used
      /\ row.revoked => /\ row.minted <= row.ended + 1
                        /\ row.used \subseteq 1 .. row.ended
  BY RowSteps DEF TypeInv, TableTyped, LastIsUnused, DeadFamilyIsSpent
<1>2. sessions'[s].revoked =>
        sessions'[s].ended = IF row.revoked THEN row.ended ELSE row.minted
  BY <1>1, RowKeeps
<1>3. row.minted \in Nat /\ row.ended \in Nat
  BY <1>1 DEF Rows
<1>4. CASE /\ sessions'[s].issued = row.issued
           /\ sessions'[s].minted = row.minted
           /\ sessions'[s].used = row.used
  BY <1>1, <1>2, <1>3, <1>4
<1>5. CASE sessions'[s] = Revoked(row)
  BY <1>1, <1>4, <1>5, RevokedTyped
<1>6. CASE sessions'[s] = [row EXCEPT !.expired = TRUE]
  BY <1>1, <1>4, <1>6 DEF Rows
<1>7. CASE \E b \in Bindings : sessions'[s] = [row EXCEPT !.binding = b]
  BY <1>1, <1>4, <1>7 DEF Rows
<1>8. CASE /\ row.issued
           /\ \E t \in (1 .. row.minted) \ row.used :
                /\ \E q \in Requests : /\ At(q, "rotate")
                                        /\ req[q].session = s
                                        /\ req[q].token = t
                /\ sessions'[s] = [row EXCEPT !.used = @ \cup {t}, !.minted = @ + 1]
  <2>1. PICK t \in (1 .. row.minted) \ row.used, q \in Requests :
          /\ req[q].at = "rotate"
          /\ req[q].session = s
          /\ req[q].token = t
          /\ sessions'[s] = [row EXCEPT !.used = @ \cup {t}, !.minted = @ + 1]
    BY <1>8 DEF At
  <2>2. /\ sessions'[s].used = row.used \cup {t}
        /\ sessions'[s].minted = row.minted + 1
        /\ sessions'[s].revoked = row.revoked
    BY <1>1, <2>1 DEF Rows
  <2>3. t = row.minted
    <3>1. PICK u \in 1 .. row.minted : (1 .. row.minted) \ row.used = {u}
      BY <1>8 DEF OneUnusedToken
    <3>2. row.minted \in (1 .. row.minted) \ row.used
      BY <1>1, <1>3, <1>8, <3>1
    <3>3. QED
      BY <2>1, <3>1, <3>2
  <2>4. row.revoked => t <= row.ended
    BY <2>1 DEF RequestsHonest, Honest, AnswerHolds
  <2>5. row.minted + 1 \notin row.used \cup {t}
    BY <1>1, <1>3, <2>3
  <2>6. ASSUME row.revoked
        PROVE  row.minted + 1 <= row.ended + 1 /\ row.used \cup {t} \subseteq 1 .. row.ended
    BY <1>1, <1>3, <2>1, <2>3, <2>4, <2>6
  <2>7. QED
    BY <1>2, <2>2, <2>5, <2>6
<1>9. CASE \E root \in Sessions \cup {NoSession}, born \in Boundaries, b \in Bindings :
             sessions'[s] = Minted(root, born, b)
  <2>1. /\ ~sessions'[s].revoked
        /\ sessions'[s].minted = 1
        /\ sessions'[s].used = {}
    BY <1>9, MintedTyped
  <2>2. QED
    BY <2>1
<1>10. CASE sessions'[s] = row
  BY <1>4, <1>10
<1>11. QED
  BY <1>1, <1>5, <1>6, <1>7, <1>8, <1>9, <1>10 DEF RowStep

\* A claim moves the one unused token to the successor it mints.
LEMMA ClaimLeavesOne ==
  ASSUME NEW n \in Nat, NEW used \in SUBSET (1 .. n), NEW t \in (1 .. n) \ used,
         \E u \in 1 .. n : (1 .. n) \ used = {u}
  PROVE  \E u \in 1 .. (n + 1) : (1 .. (n + 1)) \ (used \cup {t}) = {u}
<1>1. (1 .. n) \ used = {t}
  OBVIOUS
<1>2. 1 .. (n + 1) = (1 .. n) \cup {n + 1}
  OBVIOUS
<1>3. n + 1 \notin used /\ n + 1 # t
  OBVIOUS
<1>4. (1 .. (n + 1)) \ (used \cup {t}) = {n + 1}
  BY <1>1, <1>2, <1>3
<1>5. n + 1 \in 1 .. (n + 1)
  OBVIOUS
<1>6. QED
  BY <1>4, <1>5

LEMMA UnusedStep ==
  ASSUME TypeInv, OneUnusedToken, [Next]_vars
  PROVE  OneUnusedToken'
<1> SUFFICES ASSUME NEW s \in Sessions, sessions'[s].issued
             PROVE  \E t \in 1 .. sessions'[s].minted :
                      (1 .. sessions'[s].minted) \ sessions'[s].used = {t}
  BY DEF OneUnusedToken
<1> DEFINE row == sessions[s]
<1>1. row \in Rows /\ row.used \subseteq 1 .. row.minted /\ RowStep(s)
  BY RowSteps DEF TypeInv, TableTyped
<1>2. row.issued => \E t \in 1 .. row.minted : (1 .. row.minted) \ row.used = {t}
  BY DEF OneUnusedToken
<1>3. CASE row.issued /\ sessions'[s].minted = row.minted /\ sessions'[s].used = row.used
  BY <1>2, <1>3
<1>4. CASE row.issued /\ sessions'[s] = Revoked(row)
  BY <1>1, <1>3, <1>4, RevokedTyped
<1>5. CASE row.issued /\ sessions'[s] = [row EXCEPT !.expired = TRUE]
  BY <1>1, <1>3, <1>5 DEF Rows
<1>6. CASE row.issued /\ \E b \in Bindings : sessions'[s] = [row EXCEPT !.binding = b]
  BY <1>1, <1>3, <1>6 DEF Rows
<1>7. CASE /\ row.issued
           /\ \E t \in (1 .. row.minted) \ row.used :
                sessions'[s] = [row EXCEPT !.used = @ \cup {t}, !.minted = @ + 1]
  <2>1. PICK t \in (1 .. row.minted) \ row.used :
          sessions'[s] = [row EXCEPT !.used = @ \cup {t}, !.minted = @ + 1]
    BY <1>7
  <2>2. sessions'[s].used = row.used \cup {t} /\ sessions'[s].minted = row.minted + 1
    BY <1>1, <2>1 DEF Rows
  <2>3. row.minted \in Nat /\ row.used \in SUBSET (1 .. row.minted)
    BY <1>1 DEF Rows
  <2>4. PICK n \in Nat : n = row.minted
    BY <2>3
  <2>5. PICK used \in SUBSET (1 .. n) : used = row.used
    BY <2>3, <2>4
  <2>6. t \in (1 .. n) \ used /\ \E u \in 1 .. n : (1 .. n) \ used = {u}
    BY <1>2, <1>7, <2>4, <2>5
  <2>7. \E u \in 1 .. (n + 1) : (1 .. (n + 1)) \ (used \cup {t}) = {u}
    BY <2>6, ClaimLeavesOne
  <2>8. QED
    BY <2>2, <2>4, <2>5, <2>7
<1>8. CASE \E root \in Sessions \cup {NoSession}, born \in Boundaries, b \in Bindings :
             sessions'[s] = Minted(root, born, b)
  <2>1. sessions'[s].minted = 1 /\ sessions'[s].used = {}
    BY <1>8, MintedTyped
  <2>2. (1 .. 1) \ {} = {1} /\ 1 \in 1 .. 1
    OBVIOUS
  <2>3. QED
    BY <2>1, <2>2
<1>9. CASE sessions'[s] = row
  BY <1>2, <1>9
<1>10. QED
  BY <1>1, <1>4, <1>5, <1>6, <1>7, <1>8, <1>9 DEF RowStep

\* Sessions are minted by a login and by a switch, and nowhere else.
LEMMA MintSteps ==
  ASSUME TypeInv, [Next]_vars
  PROVE  \/ \E q \in Requests, s \in Sessions : Issue(q, s) \/ RebindSession(q, s)
         \/ \A s \in Sessions : sessions'[s].issued => sessions[s].issued
<1>1. /\ sessions \in [Sessions -> Rows]
      /\ \A q \in Requests : req[q] \in RequestStates /\ Named(req[q])
  BY DEF TypeInv, TableTyped, RequestsTyped, RequestsName
<1>2. ASSUME NEW q \in Requests, RotateToken(q) \/ RevokeReused(q) \/ ClaimBinding(q)
      PROVE  \A s \in Sessions : sessions'[s].issued => sessions[s].issued
  <2>1. req[q].session \in Sessions /\ sessions[req[q].session].issued
    BY <1>1, <1>2 DEF RotateToken, RevokeReused, ClaimBinding, At, Named
  <2>2. \A s \in Sessions : s # req[q].session => sessions'[s] = sessions[s]
    BY <1>1, <1>2, <2>1 DEF RotateToken, RevokeReused, ClaimBinding
  <2>3. QED
    BY <2>1, <2>2
<1>3. ASSUME NEW q \in Requests, Sweep(q)
      PROVE  \A s \in Sessions : sessions'[s].issued => sessions[s].issued
  BY <1>1, <1>3, RevokedTyped DEF Sweep
<1>4. ASSUME NEW s \in Sessions, RevokeSession(s) \/ SessionExpires(s)
      PROVE  \A u \in Sessions : sessions'[u].issued => sessions[u].issued
  BY <1>1, <1>4 DEF RevokeSession, SessionExpires, Live
<1>5. QED
  BY <1>2, <1>3, <1>4, TableSteps

LEMMA LoginStep ==
  ASSUME TypeInv, RootsIssued, OneSessionPerLogin, [Next]_vars
  PROVE  RootsIssued' /\ OneSessionPerLogin'
<1>1. /\ sessions \in [Sessions -> Rows]
      /\ \A q \in Requests : req[q] \in RequestStates /\ Named(req[q])
  BY DEF TypeInv, TableTyped, RequestsTyped, RequestsName
<1>2. \A s \in Sessions :
        /\ sessions[s].issued => sessions'[s].issued /\ sessions'[s].root = sessions[s].root
        /\ sessions[s].revoked => sessions'[s].revoked
  BY RowSteps, RowKeeps
<1>3. CASE \A s \in Sessions : sessions'[s].issued => sessions[s].issued
  BY <1>2, <1>3 DEF RootsIssued, OneSessionPerLogin
<1>4. ASSUME NEW q \in Requests, NEW s \in Sessions, Issue(q, s)
      PROVE  RootsIssued' /\ OneSessionPerLogin'
  <2>1. /\ ~sessions[s].issued
        /\ sessions'[s] = Minted(s, req[q].born, Unbound)
        /\ \A u \in Sessions : u # s => sessions'[u] = sessions[u]
    BY <1>1, <1>4 DEF Issue, Fresh
  <2>2. req[q].born \in Boundaries /\ Unbound \in Bindings
    BY <1>1 DEF RequestStates, Bindings
  <2>3. sessions'[s].issued /\ sessions'[s].root = s
    BY <2>1, <2>2, MintedTyped
  <2>4. \A u \in Sessions : u # s /\ sessions[u].issued => sessions[u].root # s
    BY <2>1 DEF RootsIssued
  <2>5. RootsIssued'
    BY <1>2, <2>1, <2>3 DEF RootsIssued
  <2>6. OneSessionPerLogin'
    BY <2>1, <2>3, <2>4 DEF OneSessionPerLogin
  <2>7. QED
    BY <2>5, <2>6
<1>5. ASSUME NEW q \in Requests, NEW s \in Sessions, RebindSession(q, s)
      PROVE  RootsIssued' /\ OneSessionPerLogin'
  <2>1. PICK old \in Sessions : old = req[q].session /\ sessions[old].issued /\ old # s
    BY <1>1, <1>5 DEF RebindSession, At, Named, Fresh
  <2>2. /\ ~sessions[s].issued
        /\ ~sessions[old].revoked
        /\ sessions'[s] = Minted(sessions[old].root, sessions[old].born, req[q].binding)
        /\ sessions'[old] = Revoked(sessions[old])
        /\ \A u \in Sessions : u # s /\ u # old => sessions'[u] = sessions[u]
    BY <1>1, <1>5, <2>1 DEF RebindSession, Fresh, Rebindable
  <2>3. /\ sessions[old].root \in Sessions \cup {NoSession}
        /\ sessions[old].born \in Boundaries
        /\ req[q].binding \in Bindings
        /\ sessions[old] \in Rows
    BY <1>1 DEF Rows, RequestStates
  <2>4. sessions'[s].issued /\ sessions'[s].root = sessions[old].root
    BY <2>2, <2>3, MintedTyped
  <2>5. /\ sessions'[old].issued
        /\ sessions'[old].revoked
        /\ sessions'[old].root = sessions[old].root
    BY <2>1, <2>2, <2>3, RevokedTyped
  <2>6. RootsIssued'
    <3>1. sessions[old].root \in Sessions /\ sessions'[sessions[old].root].issued
      BY <1>2, <2>1 DEF RootsIssued
    <3>2. ASSUME NEW u \in Sessions, sessions'[u].issued, u # s
          PROVE  sessions'[u].root \in Sessions /\ sessions'[sessions'[u].root].issued
      <4>1. sessions[u].issued
        BY <2>1, <2>2, <3>2
      <4>2. QED
        BY <1>2, <4>1 DEF RootsIssued
    <3>3. QED
      BY <2>4, <3>1, <3>2 DEF RootsIssued
  <2>7. \A u \in Sessions : u # s /\ u # old /\ sessions[u].issued /\ ~sessions[u].revoked
          => sessions[u].root # sessions[old].root
    BY <2>1, <2>2 DEF OneSessionPerLogin
  <2>8. OneSessionPerLogin'
    BY <2>1, <2>2, <2>4, <2>5, <2>7 DEF OneSessionPerLogin
  <2>9. QED
    BY <2>6, <2>8
<1>6. QED
  BY <1>3, <1>4, <1>5, MintSteps

-----------------------------------------------------------------------------
\* The requests

\* What a request holds stays true while rows only move forward, unless the
\* account comes back to life.
LEMMA HonestKept ==
  ASSUME TypeInv, [Next]_vars, account'.active => account.active,
         NEW x \in RequestStates, Named(x), Honest(x)
  PROVE  Honest(x)'
<1>1. \A s \in Sessions :
        /\ sessions[s].revoked => sessions'[s].revoked
        /\ sessions[s].familyRevoked => sessions'[s].familyRevoked
        /\ sessions[s].used \subseteq sessions'[s].used
        /\ sessions'[s].revoked =>
             sessions'[s].ended = IF sessions[s].revoked THEN sessions[s].ended
                                                         ELSE sessions[s].minted
  BY RowSteps, RowKeeps
<1>2. /\ x.at \in {"session", "refreshed", "reused", "account", "rotate"} =>
           x.session \in Sessions
      /\ x.at \in {"account", "rotate"} =>
           x.token <= sessions[x.session].minted
  BY DEF Named
<1>3. QED
  BY <1>1, <1>2 DEF Honest, CopyHonest, AuthenticationFresh, ShutOut, AnswerHolds

\* The step of one request keeps the others honest.
LEMMA OthersHonest ==
  ASSUME TypeInv, RequestsHonest, [Next]_vars, account'.active => account.active,
         NEW q \in Requests, Honest(req[q])',
         \A r \in Requests : r # q => req'[r] = req[r]
  PROVE  RequestsHonest'
<1>1. ASSUME NEW r \in Requests, r # q PROVE Honest(req[r])'
  <2>1. PICK y \in RequestStates : y = req[r]
    BY DEF TypeInv, RequestsTyped
  <2>2. Named(y) /\ Honest(y)
    BY <2>1 DEF TypeInv, RequestsTyped, RequestsName, RequestsHonest
  <2>3. Honest(y)'
    BY <2>2, HonestKept
  <2>4. req'[r] = y
    BY <1>1, <2>1 DEF TypeInv, RequestsTyped
  <2>5. QED
    BY <2>3, <2>4 DEF Honest, CopyHonest, AuthenticationFresh, ShutOut, AnswerHolds
<1>2. QED
  BY <1>1 DEF RequestsHonest

LEMMA HonestInit == Init => RequestInv
BY DEF Init, RequestInv, RequestsHonest, Honest, CopyHonest, AuthenticationFresh, ShutOut,
       AnswerHolds, TokensHonest, PresentedTwiceIsRevoked, At, Idle

\* What a request begins with.
LEMMA RequestFields ==
  ASSUME NEW at
  PROVE  /\ Request(at).at = at
         /\ Request(at).shut = seen.shut
         /\ Holding(at).at = at
         /\ Holding(at).shut = seen.shut
         /\ Holding(at).version = account.version
         /\ Holding(at).epoch = seen.epoch
         /\ Idle.at = "idle"
         /\ Idle.shut = FALSE
BY DEF Request, Holding, Idle

LEMMA HonestRefresh ==
  ASSUME TypeInv, RequestsHonest, TokensHonest, NEW q \in Requests, Refresh(q)
  PROVE  Honest(req[q])'
<1>1. /\ req \in [Requests -> RequestStates]
      /\ req[q] \in RequestStates
      /\ Named(req[q])
      /\ Honest(req[q])
      /\ sessions \in [Sessions -> Rows]
  BY DEF TypeInv, TableTyped, RequestsTyped, RequestsName, RequestsHonest
<1>2. ASSUME NEW s \in Sessions, NEW t \in 1 .. MaxTokens, BeginRefresh(q, s, t)
      PROVE  Honest(req[q])'
  <2>1. PICK at \in {"reuse", "account"} :
          req' = [req EXCEPT ![q] = [Request(at) EXCEPT !.session = s, !.token = t]]
    BY <1>2 DEF BeginRefresh, Begins
  <2>2. req'[q].at = at /\ req'[q].shut = seen.shut
    BY <1>1, <2>1, RequestFields DEF Request, Idle
  <2>3. CASE Refreshable(sessions[s])
    <3>1. req'[q].session = s /\ ~sessions'[s].revoked
      BY <1>1, <1>2, <2>1, <2>3 DEF BeginRefresh, Refreshable, Live, Request, Idle
    <3>2. QED
      BY <1>2, <2>2, <3>1 DEF BeginRefresh, TokensHonest, Honest, CopyHonest,
                              AuthenticationFresh, ShutOut, AnswerHolds
  <2>4. CASE ~Refreshable(sessions[s])
    <3>1. req' = [req EXCEPT ![q] = [Request("reuse") EXCEPT !.session = s, !.token = t]]
      BY <1>2, <2>4 DEF BeginRefresh, Begins
    <3>2. req'[q].at = "reuse" /\ req'[q].shut = seen.shut
      BY <1>1, <3>1, RequestFields DEF Request, Idle
    <3>3. QED
      BY <1>2, <3>2 DEF BeginRefresh, TokensHonest, Honest, CopyHonest, AuthenticationFresh,
                        ShutOut, AnswerHolds
  <2>5. QED
    BY <2>3, <2>4
<1>3. ASSUME RefreshReadsAccount(q) PROVE Honest(req[q])'
  <2>1. req'[q] = [req[q] EXCEPT !.at = "rotate", !.version = account.version,
                                 !.epoch = seen.epoch]
    BY <1>1, <1>3 DEF RefreshReadsAccount
  <2>2. /\ req'[q].at = "rotate"
        /\ req'[q].version = account.version
        /\ req'[q].epoch = seen.epoch
        /\ req'[q].shut = req[q].shut
        /\ req'[q].session = req[q].session
        /\ req'[q].token = req[q].token
    BY <1>1, <2>1 DEF RequestStates
  <2>3. account.version = seen.epoch /\ account.active /\ account' = account
    BY <1>3 DEF RefreshReadsAccount, StatusAllows, TypeInv, CountersTyped, VersionCounts
  <2>4. ~req[q].shut
    BY <1>1, <2>3 DEF Honest, ShutOut
  <2>5. sessions'[req[q].session].revoked => req[q].token <= sessions'[req[q].session].ended
    BY <1>1, <1>3 DEF RefreshReadsAccount, At, Honest, AnswerHolds
  <2>6. QED
    BY <2>2, <2>3, <2>4, <2>5 DEF Honest, CopyHonest, AuthenticationFresh, ShutOut, AnswerHolds
<1>4. ASSUME RotateToken(q) PROVE Honest(req[q])'
  <2> DEFINE s == req[q].session
             t == req[q].token
  <2>1. s \in Sessions /\ req[q].at = "rotate" /\ account' = account
    BY <1>1, <1>4 DEF RotateToken, At, Named
  <2>2. ~req[q].shut
    BY <1>1, <2>1 DEF Honest, ShutOut
  <2>3. CASE /\ sessions' = [sessions EXCEPT ![s].used = @ \cup {t}, ![s].minted = @ + 1]
             /\ Answers(q, "refreshed")
    <3>1. t \in sessions'[s].used
      BY <1>1, <2>1, <2>3 DEF Rows
    <3>2. /\ req'[q].at = "refreshed"
          /\ req'[q].session = s
          /\ req'[q].token = t
          /\ req'[q].shut = req[q].shut
      BY <1>1, <2>3 DEF Answers, Idle
    <3>3. QED
      BY <2>2, <3>1, <3>2 DEF Honest, CopyHonest, AuthenticationFresh, ShutOut, AnswerHolds
  <2>4. CASE Goes(q, "reuse")
    <3>1. req'[q].at = "reuse" /\ req'[q].shut = req[q].shut
      BY <1>1, <2>4 DEF Goes, RequestStates
    <3>2. QED
      BY <2>2, <3>1 DEF Honest, CopyHonest, AuthenticationFresh, ShutOut, AnswerHolds
  <2>5. QED
    BY <1>4, <2>3, <2>4 DEF RotateToken
<1>5. ASSUME RevokeReused(q) PROVE Honest(req[q])'
  <2> DEFINE s == req[q].session
  <2>1. s \in Sessions /\ sessions[s] \in Rows /\ account' = account
    BY <1>1, <1>5 DEF RevokeReused, At, Named
  <2>2. sessions'[s].revoked /\ sessions'[s].familyRevoked
    BY <1>1, <1>5, <2>1, RevokedTyped DEF RevokeReused
  <2>3. /\ req'[q].at = "reused"
        /\ req'[q].session = s
        /\ req'[q].shut = req[q].shut
    BY <1>1, <1>5 DEF RevokeReused, Answers, Idle
  <2>4. req[q].shut => ~account.active
    BY <1>1 DEF Honest, ShutOut
  <2>5. QED
    BY <2>1, <2>2, <2>3, <2>4 DEF Honest, CopyHonest, AuthenticationFresh, ShutOut, AnswerHolds
<1>6. QED
  BY <1>2, <1>3, <1>4, <1>5 DEF Refresh

LEMMA HonestAuthenticate ==
  ASSUME TypeInv, RequestsHonest, TokensHonest, NEW q \in Requests, Authenticate(q)
  PROVE  Honest(req[q])'
<1>1. /\ req \in [Requests -> RequestStates]
      /\ req[q] \in RequestStates
      /\ Honest(req[q])
  BY DEF TypeInv, RequestsTyped, RequestsHonest
<1>2. ASSUME NEW a \in access, BeginAuthenticate(q, a) PROVE Honest(req[q])'
  <2>1. req'[q] = [Holding("session") EXCEPT !.session = a.session, !.born = a.epoch,
                                             !.dead = sessions[a.session].revoked]
    BY <1>1, <1>2 DEF BeginAuthenticate, Begins
  <2>2. /\ req'[q].at = "session"
        /\ req'[q].version = account.version
        /\ req'[q].epoch = seen.epoch
        /\ req'[q].born = a.epoch
        /\ req'[q].session = a.session
        /\ req'[q].dead = sessions[a.session].revoked
        /\ req'[q].shut = seen.shut
    BY <2>1 DEF Holding, Request, Idle
  <2>3. /\ account.active
        /\ account.version = a.version
        /\ account' = account
        /\ sessions' = sessions
    BY <1>2 DEF BeginAuthenticate, StatusAllows
  <2>4. a.version = a.epoch /\ ~seen.shut
    BY <2>3 DEF TokensHonest
  <2>5. account.version = seen.epoch /\ seen.epoch \in Int
    BY SessionsAssumption DEF TypeInv, CountersTyped, VersionCounts, Boundaries
  <2>6. QED
    BY <2>2, <2>3, <2>4, <2>5 DEF Honest, CopyHonest, AuthenticationFresh, ShutOut, AnswerHolds
<1>3. ASSUME AuthenticateSession(q) PROVE Honest(req[q])'
  <2>1. /\ req[q].at = "session"
        /\ ~sessions[req[q].session].revoked
        /\ req'[q] = [req[q] EXCEPT !.at = "accepted"]
        /\ account' = account
    BY <1>1, <1>3 DEF AuthenticateSession, At, Live, Goes
  <2>2. /\ req'[q].at = "accepted"
        /\ req'[q].shut = req[q].shut
        /\ req'[q].born = req[q].born
        /\ req'[q].epoch = req[q].epoch
        /\ req'[q].dead = req[q].dead
    BY <1>1, <2>1 DEF RequestStates
  <2>3. req[q].born >= req[q].epoch /\ ~req[q].dead /\ ~req[q].shut
    BY <1>1, <2>1 DEF Honest, AuthenticationFresh, ShutOut
  <2>4. QED
    BY <2>1, <2>2, <2>3 DEF Honest, CopyHonest, AuthenticationFresh, ShutOut, AnswerHolds
<1>4. QED
  BY <1>2, <1>3 DEF Authenticate

\* A request that is over holds nothing.
LEMMA IdleHonest ==
  ASSUME NEW q \in Requests, req'[q] = Idle
  PROVE  Honest(req[q])'
BY DEF Idle, Honest, CopyHonest, AuthenticationFresh, ShutOut, AnswerHolds

LEMMA HonestLogin ==
  ASSUME TypeInv, RequestsHonest, TokensHonest, NEW q \in Requests, Login(q)
  PROVE  Honest(req[q])'
<1>1. /\ req \in [Requests -> RequestStates]
      /\ req[q] \in RequestStates
      /\ Honest(req[q])
      /\ account.version = seen.epoch
  BY DEF TypeInv, RequestsTyped, RequestsHonest, CountersTyped, VersionCounts
<1>2. ASSUME BeginLogin(q) PROVE Honest(req[q])'
  <2>1. req'[q] = Holding("verify") /\ account.active /\ account' = account
    BY <1>1, <1>2 DEF BeginLogin, Begins, StatusAllows
  <2>2. ~seen.shut
    BY <2>1 DEF TokensHonest
  <2>3. /\ req'[q].at = "verify"
        /\ req'[q].version = account.version
        /\ req'[q].epoch = seen.epoch
        /\ req'[q].shut = seen.shut
    BY <2>1 DEF Holding, Request, Idle
  <2>4. QED
    BY <1>1, <2>1, <2>2, <2>3 DEF Honest, CopyHonest, AuthenticationFresh, ShutOut, AnswerHolds
<1>3. ASSUME LoginVerifies(q) PROVE Honest(req[q])'
  <2>1. CASE req' = [req EXCEPT ![q].at = "issue", ![q].born = seen.epoch]
    <3>1. /\ req'[q].at = "issue"
          /\ req'[q].shut = req[q].shut
          /\ req'[q].version = req[q].version
          /\ req'[q].epoch = req[q].epoch
      BY <1>1, <2>1 DEF RequestStates
    <3>2. req[q].version = req[q].epoch /\ ~req[q].shut
      BY <1>1, <1>3 DEF LoginVerifies, At, Honest, CopyHonest, ShutOut
    <3>3. QED
      BY <3>1, <3>2 DEF Honest, CopyHonest, AuthenticationFresh, ShutOut, AnswerHolds
  <2>2. CASE Finishes(q)
    BY <1>1, <2>2, IdleHonest DEF Finishes
  <2>3. QED
    BY <1>3, <2>1, <2>2 DEF LoginVerifies
<1>4. ASSUME NEW c \in challenges, OpenChallenge(q, c) PROVE Honest(req[q])'
  <2>1. /\ req'[q] = [Request("complete") EXCEPT !.born = c]
        /\ account.active
        /\ account' = account
    BY <1>1, <1>4 DEF OpenChallenge, Begins, StatusAllows
  <2>2. req'[q].at = "complete" /\ req'[q].shut = seen.shut
    BY <2>1 DEF Request, Idle
  <2>3. QED
    BY <2>1, <2>2
    DEF TokensHonest, Honest, CopyHonest, AuthenticationFresh, ShutOut, AnswerHolds
<1>5. ASSUME CompleteLogin(q) PROVE Honest(req[q])'
  <2>1. /\ req'[q].at = "issue"
        /\ req'[q].shut = req[q].shut
        /\ req'[q].version = account.version
        /\ req'[q].epoch = seen.epoch
    BY <1>1, <1>5 DEF CompleteLogin, RequestStates
  <2>2. ~req[q].shut
    BY <1>1, <1>5 DEF CompleteLogin, At, Honest, ShutOut
  <2>3. QED
    BY <1>1, <2>1, <2>2 DEF Honest, CopyHonest, AuthenticationFresh, ShutOut, AnswerHolds
<1>6. ASSUME NEW s \in Sessions, Issue(q, s) PROVE Honest(req[q])'
  <2>1. req'[q].at = "issued" /\ req'[q].shut = req[q].shut
    BY <1>1, <1>6 DEF Issue, Answers, Idle
  <2>2. ~req[q].shut
    BY <1>1, <1>6 DEF Issue, At, Honest, ShutOut
  <2>3. QED
    BY <2>1, <2>2 DEF Honest, CopyHonest, AuthenticationFresh, ShutOut, AnswerHolds
<1>7. QED
  BY <1>2, <1>3, <1>4, <1>5, <1>6 DEF Login

LEMMA HonestBind ==
  ASSUME TypeInv, RequestsHonest, TokensHonest, NEW q \in Requests, Bind(q)
  PROVE  Honest(req[q])'
<1>1. /\ req \in [Requests -> RequestStates]
      /\ req[q] \in RequestStates
      /\ Honest(req[q])
      /\ account.version = seen.epoch
  BY DEF TypeInv, RequestsTyped, RequestsHonest, CountersTyped, VersionCounts
<1>2. ASSUME NEW s \in Sessions, NEW b \in Tenants, BeginBind(q, s, b) PROVE Honest(req[q])'
  <2>1. req'[q] = [Request("bind") EXCEPT !.session = s, !.binding = b]
    BY <1>1, <1>2 DEF BeginBind, Begins
  <2>2. req'[q].at = "bind" /\ req'[q].shut = seen.shut /\ account' = account
    BY <1>2, <2>1 DEF BeginBind, Request, Idle
  <2>3. QED
    BY <2>2
    DEF TokensHonest, Honest, CopyHonest, AuthenticationFresh, ShutOut, AnswerHolds
<1>3. ASSUME ClaimBinding(q) PROVE Honest(req[q])'
  BY <1>1, <1>3, IdleHonest DEF ClaimBinding, Finishes
<1>4. ASSUME NEW s \in Sessions, NEW b \in Bindings, BeginRebind(q, s, b)
      PROVE  Honest(req[q])'
  <2>1. /\ req'[q] = [Holding("rebind") EXCEPT !.session = s, !.binding = b]
        /\ account.active
        /\ account' = account
    BY <1>1, <1>4 DEF BeginRebind, Begins, StatusAllows
  <2>2. /\ req'[q].at = "rebind"
        /\ req'[q].shut = seen.shut
        /\ req'[q].version = account.version
        /\ req'[q].epoch = seen.epoch
    BY <2>1 DEF Holding, Request, Idle
  <2>3. QED
    BY <1>1, <2>1, <2>2
    DEF TokensHonest, Honest, CopyHonest, AuthenticationFresh, ShutOut, AnswerHolds
<1>5. ASSUME NEW s \in Sessions, RebindSession(q, s) PROVE Honest(req[q])'
  <2>1. req'[q].at = "rebound" /\ req'[q].shut = req[q].shut
    BY <1>1, <1>5 DEF RebindSession, Answers, Idle
  <2>2. ~req[q].shut
    BY <1>1, <1>5 DEF RebindSession, At, Honest, ShutOut
  <2>3. QED
    BY <2>1, <2>2 DEF Honest, CopyHonest, AuthenticationFresh, ShutOut, AnswerHolds
<1>6. QED
  BY <1>2, <1>3, <1>4, <1>5 DEF Bind

LEMMA HonestBoundary ==
  ASSUME TypeInv, RequestsHonest, TokensHonest, NEW q \in Requests, Boundary(q)
  PROVE  Honest(req[q])'
<1>1. /\ req \in [Requests -> RequestStates]
      /\ req[q] \in RequestStates
      /\ req[q].shut => ~account.active
      /\ account \in [active: BOOLEAN, version: Boundaries, generation: Boundaries]
  BY DEF TypeInv, RequestsTyped, RequestsHonest, Honest, ShutOut, CountersTyped
<1>2. ASSUME req'[q].at \in {"consume", "replace", "find", "sweep"},
             req'[q].shut => ~account'.active
      PROVE  Honest(req[q])'
  BY <1>2 DEF Honest, CopyHonest, AuthenticationFresh, ShutOut, AnswerHolds
<1>3. CASE BeginReset(q)
  <2>1. req'[q].at = "consume" /\ req'[q].shut = seen.shut /\ account' = account
    BY <1>1, <1>3 DEF BeginReset, Begins, Request, Idle
  <2>2. QED
    BY <1>2, <2>1 DEF TokensHonest
<1>4. ASSUME NEW s \in Sessions, BeginChange(q, s) PROVE Honest(req[q])'
  <2>1. req'[q].at = "replace" /\ req'[q].shut = seen.shut /\ account' = account
    BY <1>1, <1>4 DEF BeginChange, Begins, Request, Idle
  <2>2. QED
    BY <1>2, <2>1 DEF TokensHonest
<1>5. ASSUME NEW s \in Sessions, BeginRevokeOthers(q, s) PROVE Honest(req[q])'
  <2>1. req'[q].at = "find" /\ req'[q].shut = seen.shut /\ account' = account
    BY <1>1, <1>5 DEF BeginRevokeOthers, Begins, Request, Idle
  <2>2. QED
    BY <1>2, <2>1 DEF TokensHonest
<1>6. CASE ConsumeReset(q) \/ FindTargets(q)
  <2>1. /\ req'[q].at \in {"replace", "sweep"}
        /\ req'[q].shut = req[q].shut
        /\ account' = account
    BY <1>1, <1>6 DEF ConsumeReset, FindTargets, Goes, RequestStates
  <2>2. QED
    BY <1>1, <1>2, <2>1
<1>7. CASE ReplacePassword(q)
  <2>1. /\ req'[q].at = "find"
        /\ req'[q].shut = req[q].shut
        /\ account'.active = account.active
    BY <1>1, <1>7 DEF ReplacePassword, RequestStates
  <2>2. QED
    BY <1>1, <1>2, <2>1
<1>8. CASE Disable(q)
  <2>1. req'[q].at = "find" /\ ~req'[q].shut
    BY <1>1, <1>8 DEF Disable, Begins, Idle
  <2>2. QED
    BY <1>2, <2>1
<1>9. CASE Sweep(q)
  BY <1>1, <1>9, IdleHonest DEF Sweep, Finishes
<1>10. QED
  BY <1>3, <1>6, <1>7, <1>8, <1>9, <1>4, <1>5 DEF Boundary

\* A request's statement touches that request alone.
LEMMA OneMoves ==
  ASSUME req \in [Requests -> RequestStates], CountersTyped, NEW q \in Requests,
         Refresh(q) \/ Authenticate(q) \/ Login(q) \/ Bind(q) \/ Boundary(q) \/ End(q)
  PROVE  /\ \A r \in Requests : r # q => req'[r] = req[r]
         /\ account'.active => account.active
<1>1. CASE Refresh(q)
  BY <1>1 DEF Refresh, BeginRefresh, RefreshReadsAccount, RotateToken, RevokeReused, Begins,
              Goes, Answers
<1>2. CASE Authenticate(q)
  BY <1>2 DEF Authenticate, BeginAuthenticate, AuthenticateSession, Begins, Goes
<1>3. CASE Login(q)
  BY <1>3 DEF Login, BeginLogin, LoginVerifies, OpenChallenge, CompleteLogin, Issue, Begins,
              Finishes, Answers
<1>4. CASE Bind(q)
  BY <1>4 DEF Bind, BeginBind, ClaimBinding, BeginRebind, RebindSession, Begins, Finishes,
              Answers
<1>5. CASE Boundary(q)
  <2>1. CASE ReplacePassword(q)
    <3>1. account'.active => account.active
      BY <2>1 DEF ReplacePassword, CountersTyped
    <3>2. QED
      BY <2>1, <3>1 DEF ReplacePassword
  <2>2. CASE Disable(q)
    <3>1. account'.active => account.active
      BY <2>2 DEF Disable, CountersTyped
    <3>2. QED
      BY <2>2, <3>1 DEF Disable, Begins
  <2>3. CASE Sweep(q)
    BY <2>3 DEF Sweep, Finishes
  <2>4. CASE BeginReset(q) \/ ConsumeReset(q) \/ FindTargets(q)
    BY <2>4 DEF BeginReset, ConsumeReset, FindTargets, Begins, Goes
  <2>5. ASSUME NEW s \in Sessions, BeginChange(q, s) \/ BeginRevokeOthers(q, s)
        PROVE  /\ \A r \in Requests : r # q => req'[r] = req[r]
               /\ account'.active => account.active
    BY <2>5 DEF BeginChange, BeginRevokeOthers, Begins
  <2>6. QED
    BY <1>5, <2>1, <2>2, <2>3, <2>4, <2>5 DEF Boundary
<1>6. CASE End(q)
  BY <1>6 DEF End
<1>7. QED
  BY <1>1, <1>2, <1>3, <1>4, <1>5, <1>6

LEMMA RequestsStep ==
  ASSUME TypeInv, RequestsHonest, TokensHonest, [Next]_vars
  PROVE  RequestsHonest'
<1>1. /\ req \in [Requests -> RequestStates]
      /\ \A q \in Requests : Named(req[q]) /\ Honest(req[q])
  BY DEF TypeInv, RequestsTyped, RequestsName, RequestsHonest
<1>2. ASSUME NEW q \in Requests, Honest(req[q])',
             Refresh(q) \/ Authenticate(q) \/ Login(q) \/ Bind(q) \/ Boundary(q) \/ End(q)
      PROVE  RequestsHonest'
  BY <1>2, OneMoves, OthersHonest DEF TypeInv, RequestsTyped
<1>3. ASSUME NEW q \in Requests, End(q) PROVE Honest(req[q])'
  BY <1>1, <1>3, IdleHonest DEF End
<1>4. ASSUME UNCHANGED req, account'.active => account.active PROVE RequestsHonest'
  <2>1. ASSUME NEW r \in Requests PROVE Honest(req[r])'
    <3>1. PICK y \in RequestStates : y = req[r] /\ Named(y) /\ Honest(y)
      BY <1>1
    <3>2. Honest(y)'
      BY <1>4, <3>1, HonestKept
    <3>3. req'[r] = y
      BY <1>4, <3>1
    <3>4. QED
      BY <3>2, <3>3 DEF Honest, CopyHonest, AuthenticationFresh, ShutOut, AnswerHolds
  <2>2. QED
    BY <2>1 DEF RequestsHonest
<1>5. ASSUME Enable PROVE RequestsHonest'
  <2>1. UNCHANGED sessions
    BY <1>5 DEF Enable
  <2>2. QED
    BY <1>1, <1>5, <2>1, EnableRequests
    DEF RequestsHonest, Honest, CopyHonest, AuthenticationFresh, ShutOut, AnswerHolds
<1>6. (\E s \in Sessions : RevokeSession(s) \/ SessionExpires(s)) \/ ForgotPassword \/ ResetExpires
        \/ UNCHANGED vars => UNCHANGED req /\ UNCHANGED account
  BY DEF RevokeSession, SessionExpires, ForgotPassword, ResetExpires, vars
<1>7. QED
  BY <1>2, <1>3, <1>4, <1>5, <1>6, HonestRefresh, HonestAuthenticate, HonestLogin,
     HonestBind, HonestBoundary DEF Next

\* Access tokens are signed from honest copies, and the door shuts only behind
\* an account that is disabled.
LEMMA TokensStep ==
  ASSUME TypeInv, RequestsHonest, TokensHonest, [Next]_vars
  PROVE  TokensHonest'
<1>1. /\ \A q \in Requests : req[q] \in RequestStates /\ CopyHonest(req[q])
      /\ CountersTyped
  BY DEF TypeInv, RequestsTyped, RequestsHonest, Honest
<1>2. ASSUME NEW q \in Requests, NEW s, req[q].at \in {"rotate", "issue", "rebind"},
             access' = access \cup {Signed(q, s)}
      PROVE  \A a \in access' : a.version = a.epoch
  BY <1>1, <1>2 DEF TokensHonest, CopyHonest, Signed
<1>3. CASE UNCHANGED <<access, account, seen>>
  BY <1>3 DEF TokensHonest
<1>4. ASSUME NEW q \in Requests, Refresh(q) PROVE TokensHonest'
  <2>1. UNCHANGED <<account, seen>>
    BY <1>4 DEF Refresh, BeginRefresh, RefreshReadsAccount, RotateToken, RevokeReused
  <2>2. \/ UNCHANGED access
        \/ RotateToken(q) /\ access' = access \cup {Signed(q, req[q].session)}
    BY <1>4 DEF Refresh, BeginRefresh, RefreshReadsAccount, RotateToken, RevokeReused
  <2>3. QED
    BY <1>2, <1>3, <2>1, <2>2 DEF RotateToken, At, TokensHonest
<1>5. ASSUME NEW q \in Requests, Authenticate(q) \/ End(q) PROVE TokensHonest'
  BY <1>3, <1>5 DEF Authenticate, BeginAuthenticate, AuthenticateSession, End
<1>6. ASSUME NEW q \in Requests, Login(q) PROVE TokensHonest'
  <2>1. UNCHANGED <<account, seen>>
    BY <1>6 DEF Login, BeginLogin, LoginVerifies, OpenChallenge, CompleteLogin, Issue
  <2>2. \/ UNCHANGED access
        \/ \E s \in Sessions : Issue(q, s)
    BY <1>6 DEF Login, BeginLogin, LoginVerifies, OpenChallenge, CompleteLogin
  <2>3. QED
    BY <1>2, <1>3, <2>1, <2>2 DEF Issue, At, TokensHonest
<1>7. ASSUME NEW q \in Requests, Bind(q) PROVE TokensHonest'
  <2>1. UNCHANGED <<account, seen>>
    BY <1>7 DEF Bind, BeginBind, ClaimBinding, BeginRebind, RebindSession
  <2>2. \/ UNCHANGED access
        \/ \E s \in Sessions : RebindSession(q, s)
    BY <1>7 DEF Bind, BeginBind, ClaimBinding, BeginRebind
  <2>3. QED
    BY <1>2, <1>3, <2>1, <2>2 DEF RebindSession, At, TokensHonest
<1>8. ASSUME NEW q \in Requests, Boundary(q) PROVE TokensHonest'
  <2>1. CASE UNCHANGED <<account, seen>>
    <3>1. UNCHANGED access
      BY <1>8 DEF Boundary, BeginReset, ConsumeReset, BeginChange, ReplacePassword, Disable,
                  BeginRevokeOthers, FindTargets, Sweep
    <3>2. QED
      BY <1>3, <2>1, <3>1
  <2>2. CASE ReplacePassword(q)
    <3>1. seen'.shut = seen.shut /\ account'.active = account.active
      BY <1>1, <2>2 DEF ReplacePassword, CountersTyped
    <3>2. QED
      BY <2>2, <3>1 DEF ReplacePassword, TokensHonest
  <2>3. CASE Disable(q)
    <3>1. ~account'.active
      BY <1>1, <2>3 DEF Disable, CountersTyped
    <3>2. QED
      BY <2>3, <3>1 DEF Disable, TokensHonest
  <2>4. CASE Sweep(q)
    <3>1. seen'.shut => seen.shut \/ ~account.active
      BY <1>1, <2>4, CompletedTyped DEF Sweep
    <3>2. QED
      BY <2>4, <3>1 DEF Sweep, TokensHonest
  <2>5. QED
    BY <1>8, <2>1, <2>2, <2>3, <2>4
    DEF Boundary, BeginReset, ConsumeReset, BeginChange, BeginRevokeOthers, FindTargets
<1>9. CASE Enable
  <2>1. ~seen'.shut
    BY <1>1, <1>9 DEF Enable, CountersTyped
  <2>2. QED
    BY <1>9, <2>1 DEF Enable, TokensHonest
<1>10. CASE \/ \E s \in Sessions : RevokeSession(s) \/ SessionExpires(s)
           \/ ForgotPassword \/ ResetExpires \/ UNCHANGED vars
  BY <1>3, <1>10 DEF RevokeSession, SessionExpires, ForgotPassword, ResetExpires, vars
<1>11. QED
  BY <1>4, <1>5, <1>6, <1>7, <1>8, <1>9, <1>10 DEF Next

\* A token gets its successor from the claim alone.
LEMMA RefreshedByClaim ==
  ASSUME TypeInv, [Next]_vars, NEW q \in Requests, req'[q].at = "refreshed"
  PROVE  \/ /\ req[q].at = "refreshed"
            /\ req'[q].session = req[q].session
            /\ req'[q].token = req[q].token
         \/ /\ req'[q].session = req[q].session
            /\ req'[q].token = req[q].token
            /\ req[q].token \notin sessions[req[q].session].used
            /\ \A r \in Requests : r # q => req'[r] = req[r]
<1> DEFINE Goal == \/ /\ req[q].at = "refreshed"
                      /\ req'[q].session = req[q].session
                      /\ req'[q].token = req[q].token
                   \/ /\ req'[q].session = req[q].session
                      /\ req'[q].token = req[q].token
                      /\ req[q].token \notin sessions[req[q].session].used
                      /\ \A r \in Requests : r # q => req'[r] = req[r]
<1>1. /\ req \in [Requests -> RequestStates]
      /\ req[q] \in RequestStates
      /\ CountersTyped
  BY DEF TypeInv, RequestsTyped
<1>2. CASE req'[q] = req[q]
  BY <1>2
<1>3. ASSUME NEW r \in Requests,
             Refresh(r) \/ Authenticate(r) \/ Login(r) \/ Bind(r) \/ Boundary(r) \/ End(r),
             r # q
      PROVE  Goal
  BY <1>1, <1>2, <1>3, OneMoves
<1>4. ASSUME Refresh(q) PROVE Goal
  <2>1. ASSUME NEW s \in Sessions, NEW t \in 1 .. MaxTokens, BeginRefresh(q, s, t)
        PROVE  FALSE
    <3>1. req'[q].at \in {"reuse", "account"}
      BY <1>1, <2>1 DEF BeginRefresh, Begins, Request, Idle
    <3>2. QED
      BY <3>1
  <2>2. CASE RefreshReadsAccount(q)
    BY <1>1, <2>2 DEF RefreshReadsAccount, RequestStates
  <2>3. CASE RevokeReused(q)
    BY <1>1, <2>3 DEF RevokeReused, Answers, Idle
  <2>4. CASE RotateToken(q)
    <3>1. CASE Goes(q, "reuse")
      BY <1>1, <3>1 DEF Goes, RequestStates
    <3>2. CASE Claims(sessions[req[q].session], req[q].token) /\ Answers(q, "refreshed")
      BY <1>1, <3>2 DEF Claims, Answers, Idle
    <3>3. QED
      BY <2>4, <3>1, <3>2 DEF RotateToken
  <2>5. QED
    BY <1>4, <2>1, <2>2, <2>3, <2>4 DEF Refresh
<1>5. ASSUME Authenticate(q) PROVE FALSE
  <2>1. ASSUME NEW a \in access, BeginAuthenticate(q, a) PROVE req'[q].at = "session"
    BY <1>1, <2>1 DEF BeginAuthenticate, Begins, Holding, Request, Idle
  <2>2. CASE AuthenticateSession(q)
    BY <1>1, <2>2 DEF AuthenticateSession, Goes, RequestStates
  <2>3. QED
    BY <1>5, <2>1, <2>2 DEF Authenticate
<1>6. ASSUME Login(q) PROVE FALSE
  <2>1. req'[q].at \in {"verify", "issue", "idle", "complete", "issued"}
    <3>1. CASE BeginLogin(q)
      BY <1>1, <3>1 DEF BeginLogin, Begins, Holding, Request, Idle
    <3>2. CASE LoginVerifies(q)
      BY <1>1, <3>2 DEF LoginVerifies, Finishes, Idle, RequestStates
    <3>3. ASSUME NEW c \in challenges, OpenChallenge(q, c) PROVE req'[q].at = "complete"
      BY <1>1, <3>3 DEF OpenChallenge, Begins, Request, Idle
    <3>4. CASE CompleteLogin(q)
      BY <1>1, <3>4 DEF CompleteLogin, RequestStates
    <3>5. ASSUME NEW s \in Sessions, Issue(q, s) PROVE req'[q].at = "issued"
      BY <1>1, <3>5 DEF Issue, Answers, Idle
    <3>6. QED
      BY <1>6, <3>1, <3>2, <3>3, <3>4, <3>5 DEF Login
  <2>2. QED
    BY <2>1
<1>7. ASSUME Bind(q) PROVE FALSE
  <2>1. req'[q].at \in {"bind", "idle", "rebind", "rebound"}
    <3>1. ASSUME NEW s \in Sessions, NEW b \in Tenants, BeginBind(q, s, b)
          PROVE  req'[q].at = "bind"
      BY <1>1, <3>1 DEF BeginBind, Begins, Request, Idle
    <3>2. CASE ClaimBinding(q)
      BY <1>1, <3>2 DEF ClaimBinding, Finishes, Idle
    <3>3. ASSUME NEW s \in Sessions, NEW b \in Bindings, BeginRebind(q, s, b)
          PROVE  req'[q].at = "rebind"
      BY <1>1, <3>3 DEF BeginRebind, Begins, Holding, Request, Idle
    <3>4. ASSUME NEW s \in Sessions, RebindSession(q, s) PROVE req'[q].at = "rebound"
      BY <1>1, <3>4 DEF RebindSession, Answers, Idle
    <3>5. QED
      BY <1>7, <3>1, <3>2, <3>3, <3>4 DEF Bind
  <2>2. QED
    BY <2>1
<1>8. ASSUME Boundary(q) PROVE FALSE
  <2>1. req'[q].at \in {"consume", "replace", "find", "sweep", "idle"}
    <3>1. CASE BeginReset(q)
      BY <1>1, <3>1 DEF BeginReset, Begins, Request, Idle
    <3>2. CASE ConsumeReset(q) \/ ReplacePassword(q) \/ FindTargets(q)
      BY <1>1, <3>2 DEF ConsumeReset, ReplacePassword, FindTargets, Goes, RequestStates
    <3>3. CASE Disable(q)
      BY <1>1, <3>3 DEF Disable, Begins, Idle
    <3>4. ASSUME NEW s \in Sessions, BeginChange(q, s) \/ BeginRevokeOthers(q, s)
          PROVE  req'[q].at \in {"replace", "find"}
      <4>1. req'[q] \in {[Request("replace") EXCEPT !.kind = "change", !.session = s],
                         [Request("find") EXCEPT !.kind = "others", !.session = s]}
        BY <1>1, <3>4 DEF BeginChange, BeginRevokeOthers, Begins
      <4>2. QED
        BY <4>1 DEF Request, Idle
    <3>5. CASE Sweep(q)
      BY <1>1, <3>5 DEF Sweep, Finishes, Idle
    <3>6. QED
      BY <1>8, <3>1, <3>2, <3>3, <3>4, <3>5 DEF Boundary
  <2>2. QED
    BY <2>1
<1>9. ASSUME End(q) PROVE FALSE
  BY <1>1, <1>9 DEF End, Idle
<1>10. CASE Enable
  BY <1>1, <1>10, EnableRequests
<1>11. CASE \/ \E s \in Sessions : RevokeSession(s) \/ SessionExpires(s)
            \/ ForgotPassword \/ ResetExpires \/ UNCHANGED vars
  <2>1. UNCHANGED req
    BY <1>11 DEF RevokeSession, SessionExpires, ForgotPassword, ResetExpires, vars
  <2>2. QED
    BY <1>2, <2>1
<1>12. QED
  BY <1>3, <1>4, <1>5, <1>6, <1>7, <1>8, <1>9, <1>10, <1>11 DEF Next

LEMMA TwiceStep ==
  ASSUME TypeInv, RequestsHonest, RequestsHonest', PresentedTwiceIsRevoked, [Next]_vars
  PROVE  PresentedTwiceIsRevoked'
<1> SUFFICES ASSUME NEW q \in Requests, NEW r \in Requests, q # r,
                    req'[q].at \in {"refreshed", "reused"},
                    req'[r].at \in {"refreshed", "reused"},
                    req'[q].session = req'[r].session,
                    req'[q].token = req'[r].token
             PROVE  /\ ~(req'[q].at = "refreshed" /\ req'[r].at = "refreshed")
                    /\ sessions'[req'[q].session].revoked
                    /\ sessions'[req'[q].session].familyRevoked
  BY DEF PresentedTwiceIsRevoked, At
<1>1. ASSUME NEW x \in Requests, NEW y \in Requests, x # y,
             req'[x].at = "refreshed", req'[y].at = "refreshed",
             req'[x].session = req'[y].session, req'[x].token = req'[y].token,
             req[x].token \notin sessions[req[x].session].used,
             req'[x].session = req[x].session, req'[x].token = req[x].token,
             req'[y] = req[y]
      PROVE  FALSE
  BY <1>1 DEF RequestsHonest, Honest, AnswerHolds
<1>2. ~(req'[q].at = "refreshed" /\ req'[r].at = "refreshed")
  <2> SUFFICES ASSUME req'[q].at = "refreshed", req'[r].at = "refreshed" PROVE FALSE
    OBVIOUS
  <2>1. CASE /\ req[q].at = "refreshed"
             /\ req'[q].session = req[q].session
             /\ req'[q].token = req[q].token
             /\ req[r].at = "refreshed"
             /\ req'[r].session = req[r].session
             /\ req'[r].token = req[r].token
    BY <2>1 DEF PresentedTwiceIsRevoked, At
  <2>2. CASE /\ req'[q].session = req[q].session
             /\ req'[q].token = req[q].token
             /\ req[q].token \notin sessions[req[q].session].used
             /\ req'[r] = req[r]
    BY <1>1, <2>2
  <2>3. CASE /\ req'[r].session = req[r].session
             /\ req'[r].token = req[r].token
             /\ req[r].token \notin sessions[req[r].session].used
             /\ req'[q] = req[q]
    BY <1>1, <2>3
  <2>4. QED
    BY <2>1, <2>2, <2>3, RefreshedByClaim
<1>3. req'[q].at = "reused" \/ req'[r].at = "reused"
  BY <1>2
<1>4. QED
  BY <1>2, <1>3 DEF RequestsHonest, Honest, AnswerHolds

-----------------------------------------------------------------------------
\* Theorems

LEMMA InvInit == Init => IInv
<1>1. ASSUME Init PROVE TableInv
  <2>1. \A s \in Sessions :
          ~sessions[s].issued /\ ~sessions[s].revoked
    BY <1>1 DEF Init, Missing
  <2>2. QED
    BY <2>1 DEF TableInv, RootsIssued, OneUnusedToken, LastIsUnused, DeadFamilyIsSpent,
                OneSessionPerLogin
<1>2. QED
  BY <1>1, TypeInit, HonestInit DEF IInv

LEMMA InvStep == IInv /\ [Next]_vars => IInv'
<1> SUFFICES ASSUME IInv, [Next]_vars PROVE IInv'
  OBVIOUS
<1>1. TypeInv'
  BY TypeStep DEF IInv
<1>2. TableInv'
  BY SpentStep, UnusedStep, LoginStep DEF IInv, TableInv, RequestInv
<1>3. RequestsHonest' /\ TokensHonest'
  BY RequestsStep, TokensStep DEF IInv, RequestInv
<1>4. PresentedTwiceIsRevoked'
  BY <1>3, TwiceStep DEF IInv, RequestInv
<1>5. QED
  BY <1>1, <1>2, <1>3, <1>4 DEF IInv, RequestInv

LEMMA Invariance == Spec => []IInv
BY InvInit, InvStep, PTL DEF Spec

\* refresh-session.ts: the rotation of any number of requests never forks a
\* family.
THEOREM NoFork == Spec => []OneUnusedToken
<1>1. IInv => OneUnusedToken
  BY DEF IInv, TableInv
<1>2. QED
  BY <1>1, Invariance, PTL

\* refresh-session.ts: of two requests that present one token at most one is
\* answered with a successor, and the session does not survive them.
THEOREM ReuseIsFatal == Spec => []PresentedTwiceIsRevoked
<1>1. IInv => PresentedTwiceIsRevoked
  BY DEF IInv, RequestInv
<1>2. QED
  BY <1>1, Invariance, PTL

\* refresh-session.ts: the rotations that a revocation overtook leave one
\* successor at most, and nothing is ever rotated out of it.
THEOREM DeadFamilyGrowsNoFurther == Spec => []DeadFamilyIsSpent
<1>1. IInv => DeadFamilyIsSpent
  BY DEF IInv, TableInv
<1>2. QED
  BY <1>1, Invariance, PTL

\* session-tenant-binding.ts: switches in any number of requests leave one
\* session of a login standing at most.
THEOREM OneLineage == Spec => []OneSessionPerLogin
<1>1. IInv => OneSessionPerLogin
  BY DEF IInv, TableInv
<1>2. QED
  BY <1>1, Invariance, PTL

\* authenticate-request.ts: a stale version or a revoked session shuts out
\* every request that begins after it, whatever is in flight.
THEOREM ImmediateRevocation == Spec => []RevocationIsImmediate
<1>1. IInv => RevocationIsImmediate
  BY DEF IInv, RequestInv, RequestsHonest, Honest, AuthenticationFresh,
         RevocationIsImmediate, At
<1>2. QED
  BY <1>1, Invariance, PTL

\* account-administration.ts: behind a completed disable no request gets in,
\* although sessions that raced the sweep are left standing.
THEOREM DisableHolds == Spec => []DisabledShutsEveryDoor
<1>1. IInv => DisabledShutsEveryDoor
  BY DEF IInv, RequestInv, RequestsHonest, Honest, ShutOut, DisabledShutsEveryDoor
<1>2. QED
  BY <1>1, Invariance, PTL

\* session-tenant-binding.ts: a binding is never overwritten.
THEOREM BindingIsFinal == Spec => BoundOnce
<1>1. TypeInv /\ [Next]_vars =>
        [\A s \in Sessions :
           sessions[s].binding # Unbound => sessions'[s].binding = sessions[s].binding]_vars
  BY RowSteps, RowKeeps
<1>2. TypeInv /\ [Next]_vars => TypeInv'
  BY TypeStep
<1>3. QED
  BY <1>1, <1>2, TypeInit, PTL DEF Spec, BoundOnce

=============================================================================
