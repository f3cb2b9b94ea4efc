--------------------------- MODULE PlatformProofs ---------------------------
(***************************************************************************)
(* Theorems of the platform modules: Pool for every number of sessions and *)
(* calls and every set of principals; Database for every set of operators, *)
(* environments and migrations directories; Processes for every number of  *)
(* processes and every build they ship, over that database.                *)
(***************************************************************************)
EXTENDS Processes, Pool, WellFoundedInduction, TLAPS

-----------------------------------------------------------------------------
(* The pool *)
\* What may be set in a session: a principal, or nothing.
Bindings == {Unbound} \cup {BoundValues(context) : context \in Contexts}

\* A session of the pool, and what is set in it.
SessionRow ==
  [state : {"none", "idle", "out", "dead"}, tx : {"none", "open"},
   local : Bindings, lasting : Bindings]

InUse == {"begin", "bind", "statement", "commit", "rollback", "release", "destroy"}

CallRow ==
  [at : {"idle", "connect"} \cup InUse, kind : {"query", "transaction", "principal"},
   on : Sessions \cup {NoSession}, bind : Bindings, saw : Bindings, ran : BOOLEAN]

PoolTypeOK ==
  /\ session \in [Sessions -> SessionRow]
  /\ call \in [Calls -> CallRow]
  /\ open \in BOOLEAN

\* A call has a session exactly while it is in use, one that no other call has
\* and that the pool does not hand out.
Leased ==
  /\ \A c \in Calls : call[c].at \in InUse <=> call[c].on # NoSession
  /\ \A c \in Calls : call[c].at \in InUse => session[call[c].on].state \in {"out", "dead"}
  /\ \A c, d \in Calls : (c # d /\ call[c].on # NoSession) => call[c].on # call[d].on

\* Nothing is set beyond a transaction, and a session at rest is in none.
NothingLasts ==
  \A s \in Sessions :
    /\ session[s].lasting = Unbound
    /\ session[s].state \in {"none", "idle"} => session[s].tx = "none"

\* What session a call finds at each of its steps.
StepFinds(c) ==
  LET row == session[call[c].on]
  IN /\ call[c].at \in {"begin", "release"} => row.tx = "none"
     /\ call[c].at = "begin" => call[c].kind # "query"
     /\ call[c].at = "bind" => row.tx = "open" /\ call[c].kind = "principal"
     /\ call[c].at = "statement" /\ call[c].kind = "query" => row.tx = "none"
     /\ call[c].at = "statement" /\ call[c].kind # "query" =>
          row.tx = "open" /\ row.local = call[c].bind

FoundAsLeft == \A c \in Calls : call[c].at \in InUse => StepFinds(c)

\* A call that is nobody's principal binds nothing; what ran saw its own.
OwnPrincipal ==
  \A c \in Calls :
    /\ call[c].kind # "principal" => call[c].bind = Unbound
    /\ call[c].at \in {"idle", "connect"} => ~call[c].ran
    /\ call[c].ran => call[c].saw = call[c].bind

IInv == PoolTypeOK /\ Leased /\ NothingLasts /\ FoundAsLeft /\ OwnPrincipal

-----------------------------------------------------------------------------
\* What every connection and every call start with.
LEMMA FreshIsRow == Fresh \in SessionRow /\ IdleCall \in CallRow
BY DEF Fresh, IdleCall, SessionRow, CallRow, Bindings

\* A pool without connections satisfies the invariant.
LEMMA InitInv == PoolInit => IInv
<1> SUFFICES ASSUME PoolInit PROVE IInv
  OBVIOUS
<1>1. PoolTypeOK
  BY FreshIsRow DEF PoolInit, PoolTypeOK
<1>2. Leased /\ NothingLasts /\ FoundAsLeft /\ OwnPrincipal
  BY PoolAssumption
     DEF PoolInit, Fresh, IdleCall, InUse, Leased, NothingLasts, FoundAsLeft, OwnPrincipal
<1> QED
  BY <1>1, <1>2 DEF IInv

-----------------------------------------------------------------------------
(* One step moves one session, one call, or both.                          *)

\* A call moves on and its session stays.
LEMMA CallMoves ==
  ASSUME IInv, NEW c \in Calls, NEW row \in CallRow,
         call' = [call EXCEPT ![c] = row], UNCHANGED <<session, open>>,
         row.at \in InUse, row.on = call[c].on, call[c].at \in InUse,
         StepFinds(c)',
         row.kind # "principal" => row.bind = Unbound,
         row.ran => row.saw = row.bind
  PROVE  IInv'
<1> USE DEF IInv
<1>1. PoolTypeOK'
  BY DEF PoolTypeOK
<1>2. call'[c] = row /\ \A d \in Calls \ {c} : call'[d] = call[d]
  BY DEF PoolTypeOK
<1>3. Leased' /\ NothingLasts'
  BY <1>2 DEF Leased, NothingLasts
<1>4. FoundAsLeft'
  BY <1>2 DEF FoundAsLeft, StepFinds
<1>5. OwnPrincipal'
  BY <1>2 DEF OwnPrincipal, InUse
<1> QED
  BY <1>1, <1>3, <1>4, <1>5

\* A call moves on and changes the settings of its own session.
LEMMA BothMove ==
  ASSUME IInv, NEW c \in Calls, NEW row \in CallRow, NEW s \in Sessions, NEW to \in SessionRow,
         call' = [call EXCEPT ![c] = row], session' = [session EXCEPT ![s] = to],
         UNCHANGED open,
         row.on = IF row.at \in InUse THEN s ELSE NoSession,
         \A d \in Calls \ {c} : call[d].on # s,
         row.at \in InUse => to.state \in {"out", "dead"},
         to.lasting = Unbound,
         to.state \in {"none", "idle"} => to.tx = "none",
         row.at \in InUse => StepFinds(c)',
         row.kind # "principal" => row.bind = Unbound,
         row.at \in {"idle", "connect"} => ~row.ran,
         row.ran => row.saw = row.bind
  PROVE  IInv'
<1> USE DEF IInv
<1>1. PoolTypeOK'
  BY DEF PoolTypeOK
<1>2. /\ call'[c] = row /\ \A d \in Calls \ {c} : call'[d] = call[d]
      /\ session'[s] = to /\ \A t \in Sessions \ {s} : session'[t] = session[t]
  BY DEF PoolTypeOK
<1>3. \A d \in Calls : call[d].at \in InUse => call[d].on \in Sessions
  BY DEF PoolTypeOK, CallRow, Leased
<1>4. Leased' /\ NothingLasts'
  BY <1>2, <1>3, PoolAssumption DEF Leased, NothingLasts
<1>5. FoundAsLeft'
  BY <1>2, <1>3 DEF FoundAsLeft, StepFinds, Leased
<1>6. OwnPrincipal'
  BY <1>2 DEF OwnPrincipal
<1> QED
  BY <1>1, <1>4, <1>5, <1>6

\* A call that goes on with its session, whose settings it changed.
LEMMA GoesOn ==
  ASSUME IInv, NEW c \in Calls, NEW row \in CallRow, NEW s \in Sessions, NEW to \in SessionRow,
         call' = [call EXCEPT ![c] = row], session' = [session EXCEPT ![s] = to],
         UNCHANGED open,
         row.at \in InUse, row.on = s, to.state = "out", to.lasting = Unbound,
         \A d \in Calls \ {c} : call[d].on # s,
         StepFinds(c)',
         row.kind # "principal" => row.bind = Unbound,
         row.ran => row.saw = row.bind
  PROVE  IInv'
BY BothMove DEF InUse

\* A call that begins or waits touches no session.
LEMMA CallWaits ==
  ASSUME IInv, NEW c \in Calls, NEW row \in CallRow,
         call' = [call EXCEPT ![c] = row], UNCHANGED <<session, open>>,
         row.at \in {"idle", "connect"}, row.on = NoSession, call[c].at \in {"idle", "connect"},
         row.kind # "principal" => row.bind = Unbound,
         ~row.ran
  PROVE  IInv'
<1> USE DEF IInv
<1>1. PoolTypeOK'
  BY DEF PoolTypeOK
<1>2. call'[c] = row /\ \A d \in Calls \ {c} : call'[d] = call[d]
  BY DEF PoolTypeOK
<1>3. Leased' /\ NothingLasts'
  BY <1>2 DEF Leased, NothingLasts, InUse
<1>4. FoundAsLeft'
  BY <1>2 DEF FoundAsLeft, StepFinds, InUse
<1>5. OwnPrincipal'
  BY <1>2 DEF OwnPrincipal
<1> QED
  BY <1>1, <1>3, <1>4, <1>5

\* Every step of the callers, the pool and the server preserves the invariant.
LEMMA StepInv == IInv /\ [PoolNext]_poolVars => IInv'
<1> SUFFICES ASSUME IInv, [PoolNext]_poolVars PROVE IInv'
  OBVIOUS
<1>0. PoolTypeOK /\ Leased /\ NothingLasts /\ FoundAsLeft /\ OwnPrincipal
  BY DEF IInv
<1>a. ASSUME NEW c \in Calls
      PROVE  /\ call[c] \in CallRow
             /\ call[c].at \in InUse => call[c].on \in Sessions /\ session[call[c].on] \in SessionRow
             /\ call[c].at \in InUse => \A d \in Calls \ {c} : call[d].on # call[c].on
  BY <1>0, <1>a DEF PoolTypeOK, Leased, CallRow
<1>1. ASSUME NEW c \in Calls, NEW context \in Contexts, NEW required \in Requirements,
             AsPrincipal(c, context, required)
      PROVE  IInv'
  <2> DEFINE row == [IdleCall EXCEPT !.at = "connect", !.kind = "principal",
                                     !.bind = BoundValues(context)]
  <2>1. /\ row \in CallRow
        /\ row.at = "connect" /\ row.on = NoSession /\ row.kind = "principal" /\ ~row.ran
    BY DEF IdleCall, CallRow, Bindings
  <2>2. call' = [call EXCEPT ![c] = row] /\ UNCHANGED <<session, open>> /\ call[c].at = "idle"
    BY <1>1 DEF AsPrincipal, CallAt
  <2> HIDE DEF row
  <2> QED
    BY <2>1, <2>2, CallWaits
<1>2. ASSUME NEW c \in Calls, NEW kind \in {"query", "transaction"}, Plain(c, kind) PROVE IInv'
  <2> DEFINE row == [IdleCall EXCEPT !.at = "connect", !.kind = kind]
  <2>1. /\ row \in CallRow
        /\ row.at = "connect" /\ row.on = NoSession /\ row.bind = Unbound /\ ~row.ran
    BY DEF IdleCall, CallRow, Bindings
  <2>2. call' = [call EXCEPT ![c] = row] /\ UNCHANGED <<session, open>> /\ call[c].at = "idle"
    BY <1>2 DEF Plain, CallAt
  <2> HIDE DEF row
  <2> QED
    BY <2>1, <2>2, CallWaits
<1>3. ASSUME NEW c \in Calls, NEW s \in Sessions, Connect(c, s) PROVE IInv'
  <2> DEFINE to == [session[s] EXCEPT !.state = "out"]
             row == [call[c] EXCEPT !.at = IF call[c].kind = "query" THEN "statement" ELSE "begin",
                                    !.on = s]
  <2>1. /\ call' = [call EXCEPT ![c] = row]
        /\ session' = [session EXCEPT ![s] = to]
        /\ UNCHANGED open
        /\ call[c].at = "connect" /\ session[s].state \in {"none", "idle"}
    BY <1>3, <1>0, <1>a DEF Connect, CallAt, PoolTypeOK, CallRow
  <2>2. session[s] \in SessionRow /\ session[s].lasting = Unbound /\ session[s].tx = "none"
    BY <1>0, <2>1 DEF PoolTypeOK, NothingLasts
  <2>3. /\ to \in SessionRow /\ to.state = "out" /\ to.tx = "none" /\ to.lasting = Unbound
    BY <2>2 DEF SessionRow
  <2>4. /\ row \in CallRow /\ row.on = s /\ row.kind = call[c].kind /\ row.bind = call[c].bind
        /\ row.ran = call[c].ran
        /\ row.at = IF call[c].kind = "query" THEN "statement" ELSE "begin"
    BY <1>a DEF CallRow, InUse
  <2>5. ~call[c].ran /\ (call[c].kind # "principal" => call[c].bind = Unbound)
    BY <1>0, <2>1 DEF OwnPrincipal
  <2>6. \A d \in Calls \ {c} : call[d].on # s
    BY <1>0, <2>1, PoolAssumption DEF Leased
  <2>7. call'[c] = row /\ session'[s] = to
    BY <1>0, <2>1 DEF PoolTypeOK
  <2> HIDE DEF row, to
  <2>8. StepFinds(c)'
    BY <2>3, <2>4, <2>7 DEF StepFinds
  <2>9. row.at \in InUse /\ ~row.ran /\ (row.kind # "principal" => row.bind = Unbound)
    BY <2>4, <2>5 DEF InUse
  <2> QED
    BY <2>1, <2>3, <2>4, <2>6, <2>8, <2>9, GoesOn
<1>4. ASSUME NEW c \in Calls, BeginTransaction(c) PROVE IInv'
  <2> DEFINE s == call[c].on
             to == [session[s] EXCEPT !.tx = "open", !.local = session[s].lasting]
             row == [call[c] EXCEPT !.at = IF call[c].kind = "principal" THEN "bind" ELSE "statement"]
  <2>1. call[c].at = "begin" /\ session[s].state = "out"
    BY <1>4 DEF BeginTransaction, CallAt, Alive
  <2>2. s \in Sessions /\ session[s] \in SessionRow /\ session[s].lasting = Unbound
        /\ \A d \in Calls \ {c} : call[d].on # s
    BY <1>0, <1>a, <2>1 DEF NothingLasts, InUse
  <2>3. /\ call' = [call EXCEPT ![c] = row]
        /\ session' = [session EXCEPT ![s] = to]
        /\ UNCHANGED open
    BY <1>4, <1>0, <1>a, <2>2 DEF BeginTransaction, Steps, PoolTypeOK, CallRow
  <2>4. /\ to \in SessionRow /\ to.state = "out" /\ to.tx = "open" /\ to.lasting = Unbound
        /\ to.local = Unbound
    BY <2>1, <2>2 DEF SessionRow
  <2>5. /\ row \in CallRow /\ row.on = s /\ row.kind = call[c].kind /\ row.bind = call[c].bind
        /\ row.ran = call[c].ran /\ row.saw = call[c].saw
        /\ row.at = IF call[c].kind = "principal" THEN "bind" ELSE "statement"
    BY <1>a DEF CallRow, InUse
  <2>6. /\ call[c].ran => call[c].saw = call[c].bind
        /\ call[c].kind # "principal" => call[c].bind = Unbound
    BY <1>0 DEF OwnPrincipal
  <2>7. call'[c] = row /\ session'[s] = to
    BY <1>0, <2>2, <2>3 DEF PoolTypeOK
  <2> HIDE DEF row, to, s
  <2>8. StepFinds(c)'
    BY <2>1, <2>4, <2>5, <2>6, <2>7, <1>0 DEF StepFinds, FoundAsLeft, InUse
  <2>9. row.at \in InUse /\ (row.kind # "principal" => row.bind = Unbound)
        /\ (row.ran => row.saw = row.bind)
    BY <2>5, <2>6 DEF InUse
  <2> QED
    BY <2>2, <2>3, <2>4, <2>5, <2>8, <2>9, GoesOn
<1>5. ASSUME NEW c \in Calls, BindPrincipal(c) PROVE IInv'
  <2> DEFINE s == call[c].on
             to == [session[s] EXCEPT !.local = call[c].bind]
             row == [call[c] EXCEPT !.at = "statement"]
  <2>1. call[c].at = "bind" /\ session[s].state = "out"
    BY <1>5 DEF BindPrincipal, CallAt, Alive
  <2>2. /\ s \in Sessions /\ session[s] \in SessionRow /\ session[s].lasting = Unbound
        /\ \A d \in Calls \ {c} : call[d].on # s
        /\ session[s].tx = "open" /\ call[c].kind = "principal"
    BY <1>0, <1>a, <2>1 DEF NothingLasts, InUse, FoundAsLeft, StepFinds
  <2>3. /\ call' = [call EXCEPT ![c] = row]
        /\ session' = [session EXCEPT ![s] = to]
        /\ UNCHANGED open
    BY <1>5, <1>0, <1>a, <2>2 DEF BindPrincipal, SetLocal, Steps, PoolTypeOK, CallRow
  <2>4. /\ to \in SessionRow /\ to.state = "out" /\ to.tx = "open" /\ to.lasting = Unbound
        /\ to.local = call[c].bind
    BY <1>a, <2>1, <2>2 DEF SessionRow, CallRow
  <2>5. /\ row \in CallRow /\ row.on = s /\ row.kind = call[c].kind /\ row.bind = call[c].bind
        /\ row.ran = call[c].ran /\ row.saw = call[c].saw /\ row.at = "statement"
    BY <1>a DEF CallRow, InUse
  <2>6. call[c].ran => call[c].saw = call[c].bind
    BY <1>0 DEF OwnPrincipal
  <2>7. call'[c] = row /\ session'[s] = to
    BY <1>0, <2>2, <2>3 DEF PoolTypeOK
  <2> HIDE DEF row, to, s
  <2>8. StepFinds(c)'
    BY <2>2, <2>4, <2>5, <2>7 DEF StepFinds
  <2>9. row.at \in InUse /\ (row.kind # "principal" => row.bind = Unbound)
        /\ (row.ran => row.saw = row.bind)
    BY <2>2, <2>5, <2>6 DEF InUse
  <2> QED
    BY <2>2, <2>3, <2>4, <2>5, <2>8, <2>9, GoesOn
<1>6. ASSUME NEW c \in Calls, Statement(c) PROVE IInv'
  <2> DEFINE sees == Effective(call[c].on)
             row == [call[c] EXCEPT !.saw = sees, !.ran = TRUE,
                                    !.at = IF call[c].kind = "query" THEN "release" ELSE @]
  <2>1. call[c].at = "statement"
    BY <1>6 DEF Statement, CallAt
  <2>2. /\ call' = [call EXCEPT ![c] = row]
        /\ UNCHANGED <<session, open>>
    BY <1>6, <1>0, <1>a DEF Statement, PoolTypeOK, CallRow
  <2>3. sees = call[c].bind
    BY <1>0, <1>a, <2>1 DEF Effective, FoundAsLeft, StepFinds, NothingLasts, OwnPrincipal, InUse
  <2>4. /\ row \in CallRow /\ row.on = call[c].on /\ row.kind = call[c].kind
        /\ row.bind = call[c].bind /\ row.saw = sees /\ row.ran = TRUE
        /\ row.at = IF call[c].kind = "query" THEN "release" ELSE "statement"
    BY <1>a, <2>1, <2>3 DEF CallRow, InUse
  <2>5. call[c].kind # "principal" => call[c].bind = Unbound
    BY <1>0 DEF OwnPrincipal
  <2>6. call'[c] = row
    BY <1>0, <2>2 DEF PoolTypeOK
  <2> HIDE DEF row, sees
  <2>7. StepFinds(c)'
    BY <1>0, <2>1, <2>2, <2>4, <2>6 DEF StepFinds, FoundAsLeft, InUse
  <2> QED
    BY <2>1, <2>2, <2>3, <2>4, <2>5, <2>7, CallMoves DEF InUse
<1>7. ASSUME NEW c \in Calls, NEW at \in {"commit", "rollback", "destroy"},
             call[c].at \in {"begin", "bind", "statement", "commit", "rollback"},
             Steps(c, at), UNCHANGED <<session, open>>
      PROVE  IInv'
  <2> DEFINE row == [call[c] EXCEPT !.at = at]
  <2>1. call' = [call EXCEPT ![c] = row]
    BY <1>7, <1>0, <1>a DEF Steps, PoolTypeOK, CallRow
  <2>2. /\ row \in CallRow /\ row.on = call[c].on /\ row.kind = call[c].kind
        /\ row.bind = call[c].bind /\ row.saw = call[c].saw /\ row.ran = call[c].ran
        /\ row.at = at
    BY <1>a, <1>7 DEF CallRow, InUse
  <2>3. /\ call[c].kind # "principal" => call[c].bind = Unbound
        /\ call[c].ran => call[c].saw = call[c].bind
    BY <1>0 DEF OwnPrincipal
  <2>4. call'[c] = row
    BY <1>0, <2>1 DEF PoolTypeOK
  <2> HIDE DEF row
  <2>5. StepFinds(c)'
    BY <2>2, <2>4 DEF StepFinds
  <2> QED
    BY <1>7, <2>1, <2>2, <2>3, <2>5, CallMoves DEF InUse
<1>8. ASSUME NEW c \in Calls, EndTransaction(c) PROVE IInv'
  <2> DEFINE s == call[c].on
             to == [session[s] EXCEPT !.tx = "none", !.local = Unbound]
             row == [call[c] EXCEPT !.at = "release"]
  <2>1. call[c].at \in {"commit", "rollback"} /\ session[s].state = "out"
    BY <1>8 DEF EndTransaction, CallAt, Alive
  <2>2. /\ s \in Sessions /\ session[s] \in SessionRow /\ session[s].lasting = Unbound
        /\ \A d \in Calls \ {c} : call[d].on # s
    BY <1>0, <1>a, <2>1 DEF NothingLasts, InUse
  <2>3. /\ call' = [call EXCEPT ![c] = row]
        /\ session' = [session EXCEPT ![s] = to]
        /\ UNCHANGED open
    BY <1>8, <1>0, <1>a, <2>2 DEF EndTransaction, Steps, PoolTypeOK, CallRow
  <2>4. /\ to \in SessionRow /\ to.state = "out" /\ to.tx = "none" /\ to.lasting = Unbound
    BY <2>1, <2>2 DEF SessionRow, Bindings
  <2>5. /\ row \in CallRow /\ row.on = s /\ row.kind = call[c].kind /\ row.bind = call[c].bind
        /\ row.ran = call[c].ran /\ row.saw = call[c].saw /\ row.at = "release"
    BY <1>a DEF CallRow, InUse
  <2>6. /\ call[c].ran => call[c].saw = call[c].bind
        /\ call[c].kind # "principal" => call[c].bind = Unbound
    BY <1>0 DEF OwnPrincipal
  <2>7. call'[c] = row /\ session'[s] = to
    BY <1>0, <2>2, <2>3 DEF PoolTypeOK
  <2> HIDE DEF row, to, s
  <2>8. StepFinds(c)'
    BY <2>4, <2>5, <2>7 DEF StepFinds
  <2>9. row.at \in InUse /\ (row.kind # "principal" => row.bind = Unbound)
        /\ (row.ran => row.saw = row.bind)
    BY <2>2, <2>5, <2>6 DEF InUse
  <2> QED
    BY <2>2, <2>3, <2>4, <2>5, <2>8, <2>9, GoesOn
<1>9. ASSUME NEW c \in Calls, Release(c) PROVE IInv'
  <2> DEFINE s == call[c].on
             to == IF CallAt(c, "destroy") \/ ~open \/ ~Alive(s) THEN Fresh
                   ELSE [session[s] EXCEPT !.state = "idle"]
  <2>1. call[c].at \in {"release", "destroy"}
    BY <1>9 DEF Release
  <2>2. /\ s \in Sessions /\ session[s] \in SessionRow /\ session[s].lasting = Unbound
        /\ \A d \in Calls \ {c} : call[d].on # s
        /\ call[c].at = "release" => session[s].tx = "none"
    BY <1>0, <1>a, <2>1 DEF NothingLasts, InUse, FoundAsLeft, StepFinds
  <2>3. /\ call' = [call EXCEPT ![c] = IdleCall]
        /\ session' = [session EXCEPT ![s] = to]
        /\ UNCHANGED open
    BY <1>9, <1>0, <2>2 DEF Release, PoolTypeOK
  <2>4. /\ to \in SessionRow /\ to.state \in {"none", "idle"} /\ to.tx = "none"
        /\ to.lasting = Unbound
    <3>1. CASE to = Fresh
      BY <3>1, FreshIsRow DEF Fresh
    <3>2. CASE call[c].at = "release" /\ to = [session[s] EXCEPT !.state = "idle"]
      BY <2>2, <3>2 DEF SessionRow
    <3> QED
      BY <2>1, <3>1, <3>2 DEF CallAt
  <2>5. /\ IdleCall \in CallRow /\ IdleCall.on = NoSession /\ IdleCall.at = "idle"
        /\ IdleCall.bind = Unbound /\ ~IdleCall.ran
    BY FreshIsRow DEF IdleCall
  <2> HIDE DEF to, s
  <2> QED
    BY <2>2, <2>3, <2>4, <2>5, BothMove DEF InUse
<1>10. CASE EndAdapter
  <2>1. \A c \in Calls : call'[c] = IF call[c].at = "connect" THEN IdleCall ELSE call[c]
    BY <1>10 DEF EndAdapter, CallAt
  <2>2. \A s \in Sessions : session'[s] = IF session[s].state = "idle" THEN Fresh ELSE session[s]
    BY <1>10 DEF EndAdapter
  <2>3. PoolTypeOK'
    BY <1>10, <1>0, FreshIsRow DEF EndAdapter, PoolTypeOK
  <2>4. /\ IdleCall.at = "idle" /\ IdleCall.on = NoSession /\ IdleCall.bind = Unbound
        /\ ~IdleCall.ran
        /\ Fresh.state = "none" /\ Fresh.tx = "none" /\ Fresh.lasting = Unbound
    BY DEF IdleCall, Fresh
  <2>5. \A c \in Calls : call[c].at \in InUse =>
          /\ call'[c] = call[c]
          /\ call[c].on \in Sessions /\ session'[call[c].on] = session[call[c].on]
    BY <1>0, <1>a, <2>1, <2>2 DEF Leased, InUse
  <2>6. \A c \in Calls : call'[c].at \in InUse <=> call[c].at \in InUse
    BY <2>1, <2>4 DEF InUse
  <2>7. \A c \in Calls : call'[c] # call[c] => call'[c] = IdleCall
    BY <2>1
  <2>8. NothingLasts'
    BY <1>0, <2>2, <2>4 DEF NothingLasts
  <2>9. Leased'
    BY <1>0, <2>4, <2>5, <2>6, <2>7 DEF Leased
  <2>10. FoundAsLeft'
    BY <1>0, <2>5, <2>6 DEF FoundAsLeft, StepFinds
  <2>11. OwnPrincipal'
    BY <1>0, <2>4, <2>7 DEF OwnPrincipal
  <2> QED
    BY <2>3, <2>8, <2>9, <2>10, <2>11 DEF IInv
<1>11. CASE NewAdapter
  <2>1. \A c \in Calls : call[c].at = "idle"
    BY <1>11 DEF NewAdapter, CallAt
  <2>2. PoolTypeOK'
    BY <1>11, <1>0, FreshIsRow DEF NewAdapter, PoolTypeOK
  <2>3. NothingLasts'
    BY <1>11 DEF NewAdapter, NothingLasts, Fresh
  <2>4. Leased' /\ FoundAsLeft' /\ OwnPrincipal'
    BY <1>11, <1>0, <2>1 DEF NewAdapter, Leased, FoundAsLeft, OwnPrincipal, InUse
  <2> QED
    BY <2>2, <2>3, <2>4 DEF IInv
<1>12. ASSUME NEW s \in Sessions, Drops(s) PROVE IInv'
  <2> DEFINE to == IF session[s].state = "idle" THEN Fresh
                   ELSE [session[s] EXCEPT !.state = "dead"]
  <2>1. /\ session' = [session EXCEPT ![s] = to]
        /\ UNCHANGED <<call, open>>
        /\ session[s].state \in {"idle", "out"}
    BY <1>12, <1>0 DEF Drops, PoolTypeOK
  <2>2. session[s] \in SessionRow /\ session[s].lasting = Unbound
    BY <1>0 DEF PoolTypeOK, NothingLasts
  <2>3. /\ to \in SessionRow /\ to.lasting = Unbound
        /\ to.state \in {"none", "idle"} => to.tx = "none"
        /\ session[s].state = "out" =>
             to.state = "dead" /\ to.tx = session[s].tx /\ to.local = session[s].local
    BY <2>1, <2>2, FreshIsRow DEF SessionRow, Fresh
  <2>4. /\ session'[s] = to
        /\ \A t \in Sessions \ {s} : session'[t] = session[t]
    BY <1>0, <2>1 DEF PoolTypeOK
  <2> HIDE DEF to
  <2>5. PoolTypeOK'
    BY <1>0, <2>1, <2>3 DEF PoolTypeOK
  <2>6. NothingLasts'
    BY <1>0, <2>3, <2>4 DEF NothingLasts
  <2>7. \A c \in Calls : call[c].at \in InUse =>
          /\ call[c].on \in Sessions
          /\ session'[call[c].on].state \in {"out", "dead"}
          /\ session'[call[c].on].tx = session[call[c].on].tx
          /\ session'[call[c].on].local = session[call[c].on].local
    BY <1>0, <1>a, <2>1, <2>3, <2>4 DEF Leased
  <2>8. Leased' /\ OwnPrincipal'
    BY <1>0, <2>1, <2>7 DEF Leased, OwnPrincipal
  <2>9. FoundAsLeft'
    BY <1>0, <2>1, <2>7 DEF FoundAsLeft, StepFinds
  <2> QED
    BY <2>5, <2>6, <2>8, <2>9 DEF IInv
<1>13. CASE UNCHANGED poolVars
  BY <1>0, <1>13
     DEF poolVars, IInv, PoolTypeOK, Leased, NothingLasts, FoundAsLeft, StepFinds, OwnPrincipal
<1>14. ASSUME NEW c \in Calls,
              \/ \E how \in {"commit", "rollback"} : Finishes(c, how)
              \/ StatementFails(c)
              \/ RollbackFails(c)
       PROVE  IInv'
  BY <1>7, <1>14 DEF Finishes, StatementFails, RollbackFails, CallAt
<1> QED
  BY <1>1, <1>2, <1>3, <1>4, <1>5, <1>6, <1>8, <1>9, <1>10, <1>11, <1>12, <1>13, <1>14 DEF PoolNext

-----------------------------------------------------------------------------
\* The invariant of the pool.
THEOREM Invariance == PoolSpec => []IInv
<1> QED
  BY InitInv, StepInv, PTL DEF PoolSpec

\* The pool, its sessions and its callers keep their types.
THEOREM TypeCorrect == PoolSpec => []PoolTypeOK
<1>1. IInv => PoolTypeOK
  BY DEF IInv
<1> QED
  BY <1>1, Invariance, PTL

\* A statement runs under the principal of its own call whatever its session
\* served before (withPrincipalContext, set_config with is_local), and no two
\* calls are on one session.
THEOREM PrincipalsStayHome == PoolSpec => []PrincipalStaysHome
<1>1. IInv => PrincipalStaysHome
  BY DEF IInv, OwnPrincipal, Leased, PrincipalStaysHome
<1> QED
  BY <1>1, Invariance, PTL

-----------------------------------------------------------------------------
(* The ledger *)

File == UNION Directories

LedgerRow ==
  [version : Nat, name : {f.name : f \in File}, checksum : {f.checksum : f \in File},
   dir : Directories, since : Nat, saw : Nat]

OpRow ==
  [at : {"idle", "drop", "roles", "find", "createdb", "grants", "metadata", "read", "apply",
         "report"},
   cmd : DOMAIN FirstStep \cup {"none"}, env : Envs \cup {<<>>}, dir : Directories \cup {{}},
   pending : SUBSET File, since : Nat, saw : Nat]

DatabaseTypeOK ==
  /\ cluster \in [roles : BOOLEAN, created : Nat, incarnation : Nat, granted : BOOLEAN,
                  metadata : BOOLEAN, ledger : Seq(LedgerRow)]
  /\ op \in [Operators -> OpRow]

\* The three parts of LedgerIsHistory, of any ledger.
NumberedOnce(ledger) ==
  \A i, k \in DOMAIN ledger : ledger[i].version = ledger[k].version => i = k

Rests(ledger, i) ==
  \A f \in ledger[i].dir :
    f.version < ledger[i].version => \E k \in 1 .. (i - 1) : Same(f, ledger[k])

Overtakes(ledger, k) ==
  \A i \in 1 .. (k - 1) : ledger[i].version > ledger[k].version => i > ledger[k].saw

\* What was read of this database is still so: whatever is not pending is in
\* the ledger as the run's directory has it, and no pending file is numbered
\* below what the run saw.
ReadStands(row, ledger) ==
  /\ \A f \in row.dir \ row.pending : \E k \in DOMAIN ledger : Same(f, ledger[k])
  /\ row.saw <= Len(ledger)
  /\ \A i \in 1 .. row.saw : \A f \in row.pending : ledger[i].version <= f.version

\* What an operator's run goes by.
RunSound(row, ledger, incarnation) ==
  /\ row.at # "idle" => row.dir \in Directories
  /\ row.at \in {"metadata", "read", "apply"} => LoadsFiles(row.dir)
  /\ row.at = "apply" =>
       /\ row.since # Dropped /\ row.pending \subseteq row.dir /\ row.pending # {}
       /\ row.since = incarnation => ReadStands(row, ledger)

\* No run and no row is of an incarnation that is still to come.
NoneToCome ==
  /\ cluster.incarnation <= cluster.created
  /\ \A p \in Operators : op[p].since <= cluster.created
  /\ \A i \in DOMAIN cluster.ledger : cluster.ledger[i].since <= cluster.created

DatabaseInv ==
  /\ DatabaseTypeOK /\ NoneToCome /\ LedgerIsHistory
  /\ \A p \in Operators : RunSound(op[p], cluster.ledger, cluster.incarnation)

-----------------------------------------------------------------------------
\* Files that are still to be applied have a lowest one.
LEMMA LowestIsThere ==
  ASSUME NEW files \in SUBSET File, files # {}
  PROVE  Lowest(files) \in files /\ \A g \in files : Lowest(files).version <= g.version
<1> DEFINE versions == {f.version : f \in files}
           R == OpToRel(<, Nat)
<1>1. versions \in SUBSET Nat /\ versions # {}
  BY DatabaseAssumption DEF File
<1>2. IsWellFoundedOn(R, Nat)
  BY NatLessThanWellFounded
<1>3. \A x, y \in Nat : <<x, y>> \in R <=> x < y
  BY DEF OpToRel
<1> HIDE DEF R
<1>4. PICK v \in versions : \A w \in versions : ~(<<w, v>> \in R)
  BY <1>1, <1>2, WFMin
<1>5. \A w \in versions : v <= w
  <2> HIDE DEF versions
  <2> TAKE w \in versions
  <2>1. v \in Nat /\ w \in Nat
    BY <1>1
  <2>2. ~(w < v)
    BY <1>3, <1>4, <2>1
  <2> QED
    BY <2>1, <2>2
<1>6. PICK f \in files : f.version = v
  OBVIOUS
<1>7. \A g \in files : f.version <= g.version
  BY <1>5, <1>6
<1> QED
  BY <1>7 DEF Lowest

\* A row that is appended leaves what every run has read of the ledger.
LEMMA ReadStandsOn ==
  ASSUME NEW row \in OpRow, NEW ledger \in Seq(LedgerRow), NEW e \in LedgerRow,
         ReadStands(row, ledger)
  PROVE  ReadStands(row, Append(ledger, e))
<1>1. /\ DOMAIN ledger = 1 .. Len(ledger) /\ Len(ledger) \in Nat
      /\ DOMAIN Append(ledger, e) = 1 .. Len(ledger) + 1 /\ Len(Append(ledger, e)) = Len(ledger) + 1
      /\ \A i \in DOMAIN ledger : Append(ledger, e)[i] = ledger[i]
  OBVIOUS
<1>2. row.saw \in Nat
  BY DEF OpRow
<1>3. ASSUME NEW f \in row.dir \ row.pending
      PROVE  \E k \in DOMAIN Append(ledger, e) : Same(f, Append(ledger, e)[k])
  <2>1. PICK k \in DOMAIN ledger : Same(f, ledger[k])
    BY <1>3 DEF ReadStands
  <2>2. k \in DOMAIN Append(ledger, e) /\ Append(ledger, e)[k] = ledger[k]
    BY <1>1
  <2> QED
    BY <2>1, <2>2
<1> QED
  BY <1>1, <1>2, <1>3 DEF ReadStands

\* A step of one operator that leaves the tables.
LEMMA RunMoves ==
  ASSUME DatabaseInv, NEW p \in Operators, NEW row \in OpRow, op' = [op EXCEPT ![p] = row],
         cluster' \in [roles : BOOLEAN, created : Nat, incarnation : Nat, granted : BOOLEAN,
                       metadata : BOOLEAN, ledger : Seq(LedgerRow)],
         cluster'.ledger = cluster.ledger, cluster'.incarnation = cluster.incarnation,
         cluster'.created = cluster.created,
         row.since <= cluster.created,
         RunSound(row, cluster.ledger, cluster.incarnation)
  PROVE  DatabaseInv'
<1>1. DatabaseTypeOK'
  BY DEF DatabaseInv, DatabaseTypeOK
<1>2. op'[p] = row /\ \A r \in Operators \ {p} : op'[r] = op[r]
  BY DEF DatabaseInv, DatabaseTypeOK
<1>3. NoneToCome'
  BY <1>2 DEF DatabaseInv, NoneToCome
<1>4. LedgerIsHistory'
  BY DEF DatabaseInv, LedgerIsHistory
<1>5. \A r \in Operators : RunSound(op'[r], cluster'.ledger, cluster'.incarnation)
  BY <1>2 DEF DatabaseInv
<1> QED
  BY <1>1, <1>3, <1>4, <1>5 DEF DatabaseInv

\* A run that ends, or goes on before it has read the ledger.
LEMMA RunGoes ==
  ASSUME DatabaseInv, NEW p \in Operators, Exits(p),
         cluster' \in [roles : BOOLEAN, created : Nat, incarnation : Nat, granted : BOOLEAN,
                       metadata : BOOLEAN, ledger : Seq(LedgerRow)],
         cluster'.ledger = cluster.ledger, cluster'.incarnation = cluster.incarnation,
         cluster'.created = cluster.created
  PROVE  DatabaseInv'
<1>1. /\ IdleOp \in OpRow /\ IdleOp.since <= cluster.created
      /\ RunSound(IdleOp, cluster.ledger, cluster.incarnation)
  BY DEF IdleOp, OpRow, Dropped, DatabaseInv, DatabaseTypeOK, RunSound
<1> QED
  BY <1>1, RunMoves DEF Exits

\* A run goes on, and leaves the database and its ledger as they were.
LEMMA RunStepsOn ==
  ASSUME DatabaseInv, NEW p \in Operators, NEW at, Goes(p, at),
         at \in {"roles", "find", "createdb", "grants", "metadata", "read", "report"},
         op[p].at # "idle",
         at \in {"metadata", "read"} => LoadsFiles(op[p].dir),
         cluster' \in [roles : BOOLEAN, created : Nat, incarnation : Nat, granted : BOOLEAN,
                       metadata : BOOLEAN, ledger : Seq(LedgerRow)],
         cluster'.ledger = cluster.ledger, cluster'.incarnation = cluster.incarnation,
         cluster'.created = cluster.created
  PROVE  DatabaseInv'
<1> DEFINE row == [op[p] EXCEPT !.at = at]
<1>1. op[p] \in OpRow /\ op[p].since <= cluster.created /\ op[p].dir \in Directories
  BY DEF DatabaseInv, DatabaseTypeOK, NoneToCome, RunSound
<1>2. row \in OpRow /\ row.since <= cluster.created
  BY <1>1 DEF OpRow
<1>3. RunSound(row, cluster.ledger, cluster.incarnation)
  BY <1>1 DEF OpRow, RunSound
<1>4. op' = [op EXCEPT ![p] = row]
  BY DEF Goes, DatabaseInv, DatabaseTypeOK
<1> QED
  BY <1>2, <1>3, <1>4, RunMoves

\* The database is another one, or gone: what was read is of an earlier one.
LEMMA DatabaseReplaced ==
  ASSUME DatabaseInv, NEW p \in Operators, NEW incarnation \in Nat,
         cluster' \in [roles : BOOLEAN, created : Nat, incarnation : Nat, granted : BOOLEAN,
                       metadata : BOOLEAN, ledger : Seq(LedgerRow)],
         cluster'.ledger = <<>>, cluster'.incarnation = incarnation,
         cluster.created <= cluster'.created,
         incarnation \in {Dropped, cluster.created + 1}, incarnation <= cluster'.created,
         NEW row \in OpRow, op' = [op EXCEPT ![p] = row],
         row.at \in {"idle", "roles", "grants"}, row.since <= cluster.created,
         row.at # "idle" => row.dir \in Directories
  PROVE  DatabaseInv'
<1>1. DatabaseTypeOK'
  BY DEF DatabaseInv, DatabaseTypeOK
<1>2. op'[p] = row /\ \A r \in Operators \ {p} : op'[r] = op[r]
  BY DEF DatabaseInv, DatabaseTypeOK
<1>3. \A r \in Operators : op[r].since \in Nat /\ op[r].since <= cluster.created
  BY DEF DatabaseInv, DatabaseTypeOK, OpRow, NoneToCome
<1>4. cluster.created \in Nat /\ cluster'.created \in Nat /\ row.since \in Nat
  BY DEF DatabaseInv, DatabaseTypeOK, OpRow
<1>5. NoneToCome'
  BY <1>2, <1>3, <1>4 DEF NoneToCome
<1>6. LedgerIsHistory'
  BY DEF LedgerIsHistory
<1>7. ASSUME NEW r \in Operators
      PROVE  RunSound(op'[r], cluster'.ledger, cluster'.incarnation)
  <2>1. CASE r = p
    BY <1>2, <2>1 DEF RunSound
  <2>2. CASE r # p
    <3>1. op'[r] = op[r] /\ RunSound(op[r], cluster.ledger, cluster.incarnation)
      BY <1>2, <2>2 DEF DatabaseInv
    <3>2. op[r].since = incarnation => op[r].since = Dropped
      BY <1>3, <1>4
    <3> QED
      BY <3>1, <3>2 DEF RunSound
  <2> QED
    BY <2>1, <2>2
<1> QED
  BY <1>1, <1>5, <1>6, <1>7 DEF DatabaseInv

\* A file that is applied: its row is the last one of the ledger.
LEMMA FileApplied ==
  ASSUME DatabaseInv, NEW p \in Operators, At(p, "apply"), Commits(p),
         cluster' = Applied(p)
  PROVE  /\ cluster' \in [roles : BOOLEAN, created : Nat, incarnation : Nat, granted : BOOLEAN,
                          metadata : BOOLEAN, ledger : Seq(LedgerRow)]
         /\ cluster'.ledger = Append(cluster.ledger, RowOf(p))
         /\ cluster'.incarnation = cluster.incarnation /\ cluster'.created = cluster.created
         /\ RowOf(p) \in LedgerRow /\ NextFile(p) \in op[p].pending
         /\ LedgerIsHistory'
         /\ \A i \in DOMAIN cluster'.ledger : cluster'.ledger[i].since <= cluster.created
<1> DEFINE ledger == cluster.ledger
           n == Len(cluster.ledger)
           file == NextFile(p)
           e == RowOf(p)
<1>1. /\ op[p] \in OpRow /\ op[p].since <= cluster.created /\ op[p].dir \in Directories
      /\ LoadsFiles(op[p].dir)
      /\ op[p].pending \subseteq op[p].dir /\ op[p].pending # {}
      /\ op[p].since = cluster.incarnation => ReadStands(op[p], ledger)
  BY DEF DatabaseInv, DatabaseTypeOK, NoneToCome, RunSound, At
<1>2. /\ cluster \in [roles : BOOLEAN, created : Nat, incarnation : Nat, granted : BOOLEAN,
                      metadata : BOOLEAN, ledger : Seq(LedgerRow)]
      /\ ledger \in Seq(LedgerRow)
  BY DEF DatabaseInv, DatabaseTypeOK
<1>3. file \in op[p].pending /\ \A g \in op[p].pending : file.version <= g.version
  <2>1. op[p].pending \in SUBSET File
    BY <1>1 DEF OpRow
  <2> QED
    BY <1>1, <2>1, LowestIsThere DEF NextFile
<1>4. file \in File /\ \A f \in File : f.version \in Nat
  BY <1>1, <1>3, DatabaseAssumption DEF File
<1>5. e \in LedgerRow
  BY <1>1, <1>4 DEF RowOf, LedgerRow, OpRow
<1>6. /\ cluster' \in [roles : BOOLEAN, created : Nat, incarnation : Nat, granted : BOOLEAN,
                       metadata : BOOLEAN, ledger : Seq(LedgerRow)]
      /\ cluster'.ledger = Append(ledger, e)
      /\ cluster'.incarnation = cluster.incarnation /\ cluster'.created = cluster.created
  <2>1. Append(ledger, e) \in Seq(LedgerRow)
    BY <1>2, <1>5
  <2>2. cluster' = [cluster EXCEPT !.metadata = TRUE, !.ledger = Append(ledger, e)]
    BY DEF Applied
  <2> HIDE DEF ledger, e
  <2> QED
    BY <1>2, <2>1, <2>2
<1>7. /\ DOMAIN ledger = 1 .. n /\ n \in Nat
      /\ DOMAIN cluster'.ledger = 1 .. n + 1
      /\ \A i \in 1 .. n : cluster'.ledger[i] = ledger[i] /\ ledger[i] \in LedgerRow
      /\ cluster'.ledger[n + 1] = e
  BY <1>2, <1>5, <1>6
<1>8. /\ e.version = file.version /\ e.name = file.name /\ e.checksum = file.checksum
      /\ e.dir = op[p].dir /\ e.since = op[p].since /\ e.saw = op[p].saw
  BY DEF RowOf
<1>9. ASSUME NEW i \in DOMAIN cluster'.ledger
      PROVE  \/ i \in 1 .. n /\ cluster'.ledger[i] = ledger[i]
             \/ i = n + 1 /\ cluster'.ledger[i] = e
  BY <1>7
<1>10. \A i \in 1 .. n : ledger[i].version # e.version
  BY <1>7, <1>8 DEF Commits, Versions
<1>11. ASSUME NEW i \in DOMAIN cluster'.ledger, NEW k \in DOMAIN cluster'.ledger,
              cluster'.ledger[i].version = cluster'.ledger[k].version
       PROVE  i = k
  <2>1. \A a, b \in 1 .. n : ledger[a].version = ledger[b].version => a = b
    BY <1>7 DEF DatabaseInv, LedgerIsHistory
  <2> QED
    BY <1>7, <1>9, <1>10, <1>11, <2>1
<1>12. ASSUME NEW i \in DOMAIN cluster'.ledger,
              cluster'.ledger[i].since = cluster'.incarnation,
              NEW f \in cluster'.ledger[i].dir, f.version < cluster'.ledger[i].version
       PROVE  \E k \in 1 .. (i - 1) : Same(f, cluster'.ledger[k])
  <2>1. CASE i \in 1 .. n
    <3>1. PICK k \in 1 .. (i - 1) : Same(f, ledger[k])
      BY <1>6, <1>7, <1>12, <2>1 DEF DatabaseInv, LedgerIsHistory
    <3>2. cluster'.ledger[k] = ledger[k]
      BY <1>7, <2>1, <3>1
    <3> QED
      BY <3>1, <3>2
  <2>2. CASE i = n + 1
    <3>1. f \in op[p].dir /\ f.version < file.version /\ op[p].since = cluster.incarnation
      BY <1>6, <1>7, <1>8, <1>12, <2>2
    <3>2. f \in File
      BY <1>1, <3>1 DEF File
    <3>3. f \notin op[p].pending
      BY <1>3, <1>4, <3>1, <3>2
    <3>4. PICK k \in 1 .. n : Same(f, ledger[k])
      BY <1>1, <1>7, <3>1, <3>3 DEF ReadStands
    <3>5. k \in 1 .. (i - 1) /\ cluster'.ledger[k] = ledger[k]
      BY <1>7, <2>2, <3>4
    <3> QED
      BY <3>4, <3>5
  <2> QED
    BY <1>9, <2>1, <2>2
<1>13. ASSUME NEW k \in DOMAIN cluster'.ledger,
              cluster'.ledger[k].since = cluster'.incarnation,
              NEW i \in 1 .. (k - 1), cluster'.ledger[i].version > cluster'.ledger[k].version
       PROVE  i > cluster'.ledger[k].saw
  <2>1. i \in 1 .. n /\ cluster'.ledger[i] = ledger[i]
    BY <1>7, <1>9
  <2>2. CASE k \in 1 .. n
    <3>1. cluster'.ledger[k] = ledger[k]
      BY <1>7, <2>2
    <3> QED
      BY <1>6, <1>7, <1>13, <2>1, <2>2, <3>1 DEF DatabaseInv, LedgerIsHistory
  <2>3. CASE k = n + 1
    <3>1. ledger[i].version > file.version /\ op[p].since = cluster.incarnation
      BY <1>6, <1>7, <1>8, <1>13, <2>1, <2>3
    <3>2. i \in 1 .. op[p].saw => ledger[i].version <= file.version
      BY <1>1, <1>3, <3>1 DEF ReadStands
    <3>3. ledger[i].version \in Nat /\ file.version \in Nat
      BY <1>4, <1>7, <2>1 DEF LedgerRow
    <3>4. op[p].saw \in Nat /\ i \in Nat /\ i >= 1
      BY <1>1, <2>1, <1>7 DEF OpRow
    <3>5. i > op[p].saw
      BY <3>1, <3>2, <3>3, <3>4
    <3> QED
      BY <1>7, <1>8, <2>3, <3>5
  <2> QED
    BY <1>9, <2>2, <2>3
<1>14. LedgerIsHistory'
  BY <1>11, <1>12, <1>13 DEF LedgerIsHistory
<1>15. \A i \in DOMAIN cluster'.ledger : cluster'.ledger[i].since <= cluster.created
  <2>1. \A i \in 1 .. n : ledger[i].since <= cluster.created
    BY <1>7 DEF DatabaseInv, NoneToCome
  <2> QED
    BY <1>1, <1>7, <1>8, <1>9, <2>1
<1> QED
  BY <1>3, <1>5, <1>6, <1>14, <1>15

\* The run that applied it goes on as long as it stays sound.
LEMMA AppliedGoesOn ==
  ASSUME DatabaseInv, NEW p \in Operators, At(p, "apply"), Commits(p),
         cluster' = Applied(p), NEW row \in OpRow, op' = [op EXCEPT ![p] = row],
         row.since <= cluster.created,
         RunSound(row, cluster'.ledger, cluster'.incarnation)
  PROVE  DatabaseInv'
<1>1. /\ cluster' \in [roles : BOOLEAN, created : Nat, incarnation : Nat, granted : BOOLEAN,
                       metadata : BOOLEAN, ledger : Seq(LedgerRow)]
      /\ cluster'.ledger = Append(cluster.ledger, RowOf(p))
      /\ cluster'.incarnation = cluster.incarnation /\ cluster'.created = cluster.created
      /\ RowOf(p) \in LedgerRow /\ LedgerIsHistory'
      /\ \A i \in DOMAIN cluster'.ledger : cluster'.ledger[i].since <= cluster.created
  BY FileApplied
<1>2. DatabaseTypeOK'
  BY <1>1 DEF DatabaseInv, DatabaseTypeOK
<1>3. op'[p] = row /\ \A r \in Operators \ {p} : op'[r] = op[r]
  BY DEF DatabaseInv, DatabaseTypeOK
<1>4. NoneToCome'
  BY <1>1, <1>3 DEF DatabaseInv, NoneToCome
<1>5. ASSUME NEW r \in Operators
      PROVE  RunSound(op'[r], cluster'.ledger, cluster'.incarnation)
  <2>1. CASE r = p
    BY <1>3, <2>1
  <2>2. CASE r # p
    <3>1. /\ op'[r] = op[r] /\ op[r] \in OpRow /\ cluster.ledger \in Seq(LedgerRow)
          /\ RunSound(op[r], cluster.ledger, cluster.incarnation)
      BY <1>3, <2>2 DEF DatabaseInv, DatabaseTypeOK
    <3>2. ReadStands(op[r], cluster.ledger) => ReadStands(op[r], cluster'.ledger)
      BY <1>1, <3>1, ReadStandsOn
    <3> QED
      BY <1>1, <3>1, <3>2 DEF RunSound
  <2> QED
    BY <2>1, <2>2
<1> QED
  BY <1>1, <1>2, <1>4, <1>5 DEF DatabaseInv

-----------------------------------------------------------------------------
\* DatabaseInv holds at the start.
LEMMA InitDatabase == DatabaseInit => DatabaseInv
<1> SUFFICES ASSUME DatabaseInit PROVE DatabaseInv
  OBVIOUS
<1>1. DatabaseTypeOK
  BY DEF DatabaseInit, DatabaseTypeOK, IdleOp, OpRow, Dropped
<1>2. NoneToCome /\ LedgerIsHistory
  BY DEF DatabaseInit, NoneToCome, LedgerIsHistory, IdleOp, Dropped
<1>3. \A p \in Operators : RunSound(op[p], cluster.ledger, cluster.incarnation)
  BY DEF DatabaseInit, RunSound, IdleOp
<1> QED
  BY <1>1, <1>2, <1>3 DEF DatabaseInv

\* A command begins, or exits at once.
LEMMA RunSteps ==
  ASSUME DatabaseInv, NEW p \in Operators, NEW cmd \in DOMAIN FirstStep, NEW env \in Envs,
         NEW dir \in Directories, Run(p, cmd, env, dir)
  PROVE  DatabaseInv'
<1>1. /\ cluster' \in [roles : BOOLEAN, created : Nat, incarnation : Nat, granted : BOOLEAN,
                       metadata : BOOLEAN, ledger : Seq(LedgerRow)]
      /\ cluster' = cluster
  BY DEF Run, DatabaseInv, DatabaseTypeOK
<1>2. CASE Exits(p)
  BY <1>1, <1>2, RunGoes
<1> DEFINE row == [IdleOp EXCEPT !.at = FirstStep[cmd], !.cmd = cmd, !.dir = dir,
                                 !.env = IF cmd = "reset_local" THEN env ELSE @]
<1>3. CASE /\ op' = [op EXCEPT ![p] = row]
           /\ FirstStep[cmd] \in {"metadata", "report"} => LoadsFiles(dir)
  <2>1. FirstStep[cmd] \in {"roles", "drop", "metadata", "report"}
    BY DEF FirstStep
  <2>2. row \in OpRow /\ row.since <= cluster.created
    <3> DEFINE at == FirstStep[cmd]
               read == IF cmd = "reset_local" THEN env ELSE <<>>
    <3>1. row = [at |-> at, cmd |-> cmd, env |-> read, dir |-> dir, pending |-> {},
                 since |-> 0, saw |-> 0]
      <4>1. IdleOp.env = <<>>
        BY DEF IdleOp
      <4>2. row = [IdleOp EXCEPT !.at = at, !.cmd = cmd, !.dir = dir, !.env = read]
        BY <4>1, Zenon
      <4> HIDE DEF read, at, row
      <4> QED
        BY <4>2 DEF IdleOp, Dropped
    <3>2. at \in {"roles", "drop", "metadata", "report"} /\ read \in Envs \cup {<<>>}
      BY <2>1
    <3>3. cluster.created \in Nat
      BY DEF DatabaseInv, DatabaseTypeOK
    <3> HIDE DEF at, read, row
    <3> QED
      BY <3>1, <3>2, <3>3 DEF OpRow
  <2>3. RunSound(row, cluster.ledger, cluster.incarnation)
    BY <1>3, <2>1 DEF IdleOp, RunSound
  <2> QED
    BY <1>1, <1>3, <2>2, <2>3, RunMoves
<1> QED
  BY <1>2, <1>3 DEF Run

\* The steps around the ledger: roles, grants, metadata, and a failure at any of them.
LEMMA CreateSteps ==
  ASSUME DatabaseInv, NEW p \in Operators,
         \/ Fail(p) \/ EnsureRoles(p) \/ FindDatabase(p) \/ ApplyGrants(p) \/ EnsureMetadata(p)
         \/ VerifyDatabase(p)
  PROVE  DatabaseInv'
<1>1. cluster \in [roles : BOOLEAN, created : Nat, incarnation : Nat, granted : BOOLEAN,
                   metadata : BOOLEAN, ledger : Seq(LedgerRow)]
  BY DEF DatabaseInv, DatabaseTypeOK
<1>2. CASE Fail(p) \/ VerifyDatabase(p)
  BY <1>1, <1>2, RunGoes DEF Fail, VerifyDatabase
<1>3. CASE EnsureRoles(p)
  <2>1. Goes(p, "find") /\ op[p].at # "idle" /\ cluster' = [cluster EXCEPT !.roles = TRUE]
    BY <1>3 DEF EnsureRoles, At
  <2> QED
    BY <1>1, <2>1, RunStepsOn
<1>4. CASE FindDatabase(p)
  <2>1. PICK at \in {"grants", "createdb"} : Goes(p, at)
    BY <1>4 DEF FindDatabase
  <2>2. op[p].at # "idle" /\ cluster' = cluster
    BY <1>4 DEF FindDatabase, At
  <2> QED
    BY <1>1, <2>1, <2>2, RunStepsOn
<1>5. CASE ApplyGrants(p)
  <2>1. op[p].at # "idle" /\ cluster' = [cluster EXCEPT !.granted = TRUE]
    BY <1>5 DEF ApplyGrants, At
  <2>2. CASE Exits(p)
    BY <1>1, <2>1, <2>2, RunGoes
  <2>3. CASE Goes(p, "metadata") /\ LoadsFiles(op[p].dir)
    BY <1>1, <2>1, <2>3, RunStepsOn
  <2> QED
    BY <1>5, <2>2, <2>3 DEF ApplyGrants
<1>6. CASE EnsureMetadata(p)
  <2>1. CASE Exits(p) /\ UNCHANGED cluster
    BY <1>1, <2>1, RunGoes
  <2>2. CASE cluster' = [cluster EXCEPT !.metadata = TRUE] /\ Goes(p, "read")
    <3>1. op[p].at # "idle" /\ LoadsFiles(op[p].dir)
      BY <1>6 DEF EnsureMetadata, At, DatabaseInv, RunSound
    <3> QED
      BY <1>1, <2>2, <3>1, RunStepsOn
  <2> QED
    BY <1>6, <2>1, <2>2 DEF EnsureMetadata
<1> QED
  BY <1>2, <1>3, <1>4, <1>5, <1>6

\* A reset drops it,
LEMMA DropDatabaseSteps ==
  ASSUME DatabaseInv, NEW p \in Operators, DropDatabase(p)
  PROVE  DatabaseInv'
<1>1. /\ cluster \in [roles : BOOLEAN, created : Nat, incarnation : Nat, granted : BOOLEAN,
                      metadata : BOOLEAN, ledger : Seq(LedgerRow)]
      /\ op[p] \in OpRow /\ op[p].since <= cluster.created /\ op[p].dir \in Directories
  BY DEF DatabaseInv, DatabaseTypeOK, NoneToCome, RunSound, DropDatabase, At
<1>2. /\ cluster' \in [roles : BOOLEAN, created : Nat, incarnation : Nat, granted : BOOLEAN,
                       metadata : BOOLEAN, ledger : Seq(LedgerRow)]
      /\ cluster'.ledger = <<>> /\ cluster'.incarnation = Dropped
      /\ cluster'.created = cluster.created
  <2>1. cluster' = [cluster EXCEPT !.incarnation = Dropped, !.granted = FALSE, !.metadata = FALSE,
                                   !.ledger = <<>>]
    BY DEF DropDatabase, EmptyDatabase
  <2>2. <<>> \in Seq(LedgerRow) /\ 0 \in Nat /\ cluster.created \in Nat
    BY <1>1
  <2>3. Dropped \in Nat
    BY DEF Dropped
  <2> QED
    BY <1>1, <2>1, <2>2, <2>3
<1>5. /\ Dropped \in Nat /\ Dropped <= cluster'.created /\ cluster.created <= cluster'.created
      /\ Dropped \in {Dropped, cluster.created + 1}
  <2>1. cluster.created \in Nat
    BY <1>1
  <2> QED
    BY <1>2, <2>1 DEF Dropped
<1>3. CASE Goes(p, "roles")
  <2> DEFINE row == [op[p] EXCEPT !.at = "roles"]
  <2>1. /\ row \in OpRow /\ row.at = "roles" /\ row.since <= cluster.created
        /\ row.dir \in Directories /\ op' = [op EXCEPT ![p] = row]
    BY <1>1, <1>3 DEF OpRow, Goes, DatabaseInv, DatabaseTypeOK
  <2> HIDE DEF row
  <2> QED
    BY <1>1, <1>2, <1>5, <2>1, DatabaseReplaced
<1>4. CASE Exits(p)
  <2>1. IdleOp \in OpRow /\ IdleOp.at = "idle" /\ IdleOp.since <= cluster.created
    BY <1>1 DEF IdleOp, OpRow, Dropped
  <2> QED
    BY <1>1, <1>2, <1>5, <1>4, <2>1, DatabaseReplaced DEF Exits
<1> QED
  BY <1>3, <1>4 DEF DropDatabase

\* and creates it again.
LEMMA CreateDatabaseSteps ==
  ASSUME DatabaseInv, NEW p \in Operators, CreateDatabase(p)
  PROVE  DatabaseInv'
<1>1. /\ cluster \in [roles : BOOLEAN, created : Nat, incarnation : Nat, granted : BOOLEAN,
                      metadata : BOOLEAN, ledger : Seq(LedgerRow)]
      /\ op[p] \in OpRow /\ op[p].since <= cluster.created /\ op[p].dir \in Directories
  BY DEF DatabaseInv, DatabaseTypeOK, NoneToCome, RunSound, CreateDatabase, At
<1>2. CASE Exits(p) /\ UNCHANGED cluster
  BY <1>1, <1>2, RunGoes
<1>3. CASE /\ cluster' = [EmptyDatabase(cluster.created + 1) EXCEPT !.created = @ + 1]
           /\ Goes(p, "grants")
  <2>1. /\ cluster' \in [roles : BOOLEAN, created : Nat, incarnation : Nat, granted : BOOLEAN,
                         metadata : BOOLEAN, ledger : Seq(LedgerRow)]
        /\ cluster'.ledger = <<>> /\ cluster'.incarnation = cluster.created + 1
        /\ cluster'.created = cluster.created + 1
    <3>1. <<>> \in Seq(LedgerRow) /\ cluster.created \in Nat /\ cluster.created + 1 \in Nat
      BY <1>1
    <3> QED
      BY <1>1, <1>3, <3>1 DEF EmptyDatabase
  <2> DEFINE next == cluster.created + 1
  <2>2. /\ next \in Nat /\ cluster.created <= cluster'.created /\ next <= cluster'.created
        /\ next \in {Dropped, cluster.created + 1}
    BY <1>1, <2>1
  <2> DEFINE row == [op[p] EXCEPT !.at = "grants"]
  <2>3. /\ row \in OpRow /\ row.at = "grants" /\ row.since <= cluster.created
        /\ row.dir \in Directories /\ op' = [op EXCEPT ![p] = row]
    BY <1>1, <1>3 DEF OpRow, Goes, DatabaseInv, DatabaseTypeOK
  <2>4. cluster'.incarnation = next
    BY <2>1
  <2> HIDE DEF row, next
  <2> QED
    BY <2>1, <2>2, <2>3, <2>4, DatabaseReplaced
<1> QED
  BY <1>2, <1>3 DEF CreateDatabase

\* A file that is neither pending nor drifted is in the ledger as the
\* directory has it.
LEMMA NotPendingIsThere ==
  ASSUME NEW dir, NEW ledger, LoadsFiles(dir), NoDrift(ledger, dir), NEW f \in dir \ Pending(ledger, dir)
  PROVE  \E k \in DOMAIN ledger : Same(f, ledger[k])
<1>1. PICK k \in DOMAIN ledger : ledger[k].version = f.version
  BY DEF Pending, Versions
<1> DEFINE same == {g \in dir : g.version = ledger[k].version}
<1>2. ClassifyApplied(ledger[k], dir) = "ok"
  BY DEF NoDrift
<1>3. \A g \in same : g = f
  BY <1>1 DEF LoadsFiles
<1>4. ~(\A g \in same : g.name # ledger[k].name) /\ ~(\A g \in same : g.checksum # ledger[k].checksum)
  BY <1>2 DEF ClassifyApplied
<1> QED
  BY <1>1, <1>3, <1>4 DEF Same

\* A run reads what is applied, and refuses what was changed.
LEMMA ReadAppliedSteps ==
  ASSUME DatabaseInv, NEW p \in Operators, ReadApplied(p)
  PROVE  DatabaseInv'
<1> DEFINE dir == op[p].dir
           pending == Pending(cluster.ledger, dir)
<1>1. /\ cluster \in [roles : BOOLEAN, created : Nat, incarnation : Nat, granted : BOOLEAN,
                      metadata : BOOLEAN, ledger : Seq(LedgerRow)]
      /\ cluster' = cluster /\ cluster.incarnation # Dropped
      /\ op[p] \in OpRow /\ dir \in Directories /\ LoadsFiles(dir)
      /\ cluster.incarnation <= cluster.created
  BY DEF DatabaseInv, DatabaseTypeOK, NoneToCome, RunSound, ReadApplied, At, Exists
<1>2. CASE Exits(p)
  BY <1>1, <1>2, RunGoes
<1>3. CASE /\ Reconciles(cluster.ledger, dir) /\ pending # {}
           /\ op' = [op EXCEPT ![p].at = "apply", ![p].pending = pending,
                               ![p].since = cluster.incarnation,
                               ![p].saw = Len(cluster.ledger)]
  <2> DEFINE row == [op[p] EXCEPT !.at = "apply", !.pending = pending,
                                  !.since = cluster.incarnation, !.saw = Len(cluster.ledger)]
  <2>1. pending \subseteq dir /\ dir \subseteq File
    BY <1>1 DEF Pending, File
  <2>2. cluster.ledger \in Seq(LedgerRow) /\ Len(cluster.ledger) \in Nat
        /\ DOMAIN cluster.ledger = 1 .. Len(cluster.ledger)
    BY <1>1
  <2>3. /\ row \in OpRow /\ row.since <= cluster.created /\ row.at = "apply" /\ row.dir = dir
        /\ row.pending = pending /\ row.since = cluster.incarnation
        /\ row.saw = Len(cluster.ledger)
    <3> HIDE DEF pending
    <3> QED
      BY <1>1, <2>1, <2>2 DEF OpRow
  <2>4. op' = [op EXCEPT ![p] = row]
    BY <1>3 DEF DatabaseInv, DatabaseTypeOK
  <2>5. ReadStands(row, cluster.ledger)
    <3>1. \A f \in dir \ pending : \E k \in DOMAIN cluster.ledger : Same(f, cluster.ledger[k])
      BY <1>1, <1>3, <2>2, NotPendingIsThere DEF Reconciles
    <3>2. \A i \in 1 .. Len(cluster.ledger) : \A f \in pending : cluster.ledger[i].version <= f.version
      BY <1>3, <2>2 DEF Reconciles, InOrder, Versions
    <3> HIDE DEF row, pending, dir
    <3> QED
      BY <2>2, <2>3, <3>1, <3>2 DEF ReadStands
  <2> HIDE DEF row
  <2>6. RunSound(row, cluster.ledger, cluster.incarnation)
    BY <1>1, <1>3, <2>1, <2>3, <2>5 DEF RunSound
  <2> QED
    BY <1>1, <2>3, <2>4, <2>6, RunMoves
<1> QED
  BY <1>2, <1>3 DEF ReadApplied

\* A file and its row of the ledger are one transaction.
LEMMA ApplySteps ==
  ASSUME DatabaseInv, NEW p \in Operators, ApplyFile(p) \/ ApplyFileUnanswered(p)
  PROVE  DatabaseInv'
<1> DEFINE file == NextFile(p)
<1>1. /\ cluster \in [roles : BOOLEAN, created : Nat, incarnation : Nat, granted : BOOLEAN,
                      metadata : BOOLEAN, ledger : Seq(LedgerRow)]
      /\ op[p] \in OpRow /\ At(p, "apply") /\ op[p].since <= cluster.created
      /\ RunSound(op[p], cluster.ledger, cluster.incarnation)
  BY DEF DatabaseInv, DatabaseTypeOK, NoneToCome, ApplyFile, ApplyFileUnanswered
<1>2. CASE Exits(p) /\ UNCHANGED cluster
  BY <1>1, <1>2, RunGoes
<1>3. CASE Commits(p) /\ cluster' = Applied(p) /\ Exits(p)
  <2>1. /\ IdleOp \in OpRow /\ IdleOp.since <= cluster.created
        /\ RunSound(IdleOp, cluster'.ledger, cluster'.incarnation)
    BY <1>1 DEF IdleOp, OpRow, Dropped, RunSound
  <2> QED
    BY <1>1, <1>3, <2>1, AppliedGoesOn DEF Exits
<1>4. CASE /\ Commits(p) /\ cluster' = Applied(p) /\ op[p].pending # {file}
           /\ op' = [op EXCEPT ![p].pending = @ \ {file}]
  <2> DEFINE row == [op[p] EXCEPT !.pending = @ \ {file}]
             ledger == cluster.ledger
             later == cluster'.ledger
  <2>1. /\ later = Append(ledger, RowOf(p)) /\ RowOf(p) \in LedgerRow
        /\ cluster'.incarnation = cluster.incarnation /\ file \in op[p].pending
    BY <1>1, <1>4, FileApplied
  <2>2. /\ row \in OpRow /\ row.since = op[p].since /\ row.dir = op[p].dir /\ row.saw = op[p].saw
        /\ row.at = "apply" /\ row.pending = op[p].pending \ {file}
    BY <1>1 DEF OpRow, At
  <2>3. op' = [op EXCEPT ![p] = row]
    BY <1>4 DEF DatabaseInv, DatabaseTypeOK
  <2> HIDE DEF row
  <2>4. ledger \in Seq(LedgerRow)
    BY <1>1
  <2>5. ASSUME ReadStands(op[p], ledger) PROVE ReadStands(row, later)
    <3>1. ReadStands(op[p], later)
      BY <1>1, <2>1, <2>4, <2>5, ReadStandsOn
    <3>2. Len(ledger) + 1 \in DOMAIN later /\ later[Len(ledger) + 1] = RowOf(p)
      BY <2>1, <2>4
    <3>3. Same(file, RowOf(p))
      BY DEF Same, RowOf
    <3> QED
      BY <2>2, <3>1, <3>2, <3>3 DEF ReadStands
  <2>6. row.pending # {} /\ row.pending \subseteq row.dir
    BY <1>1, <1>4, <2>1, <2>2 DEF RunSound, At
  <2>7. RunSound(row, later, cluster'.incarnation)
    BY <1>1, <2>1, <2>2, <2>5, <2>6 DEF RunSound, At
  <2> QED
    BY <1>1, <1>4, <2>2, <2>3, <2>7, AppliedGoesOn
<1> QED
  BY <1>2, <1>3, <1>4 DEF ApplyFile, ApplyFileUnanswered

\* The operators, step by step.
LEMMA DatabaseSteps == DatabaseInv /\ [DatabaseNext]_databaseVars => DatabaseInv'
<1> SUFFICES ASSUME DatabaseInv, [DatabaseNext]_databaseVars PROVE DatabaseInv'
  OBVIOUS
<1>1. CASE UNCHANGED databaseVars
  BY <1>1 DEF databaseVars, DatabaseInv, DatabaseTypeOK, NoneToCome, LedgerIsHistory
<1>2. ASSUME NEW p \in Operators, OperatorStep(p) PROVE DatabaseInv'
  BY <1>2, CreateSteps, DropDatabaseSteps, CreateDatabaseSteps, ReadAppliedSteps, ApplySteps
     DEF OperatorStep
<1> QED
  BY <1>1, <1>2, RunSteps DEF DatabaseNext

\* DatabaseInv holds in every state.
LEMMA DatabaseInvariance == DatabaseSpec => []DatabaseInv
<1> QED
  BY InitDatabase, DatabaseSteps, PTL DEF DatabaseSpec

\* The cluster and the operators' runs keep the shape the CLI gives them,
\* and no run or row names a database that was never created.
THEOREM DatabaseTypes == DatabaseSpec => [](DatabaseTypeOK /\ NoneToCome)
BY DatabaseInvariance, PTL DEF DatabaseInv

\* With any number of operators, checkouts and databases: a number is in the
\* ledger once, a row stands after every lower number of its directory, and
\* only what was committed after its run read the ledger may overtake it.
THEOREM LedgerStaysHistory == DatabaseSpec => []LedgerIsHistory
BY DatabaseInvariance, PTL DEF DatabaseInv

-----------------------------------------------------------------------------
(* The processes *)

Clock == Nat \cup {NoTick}

ProcRow ==
  [at : {"down", "connecting", "listen", "health", "context", "up", "stopping", "closing",
         "draining", "flushing"},
   pool : {"none", "open", "closed"}, listening : BOOLEAN, started : Clock,
   rejected : BOOLEAN, answer : {"none", "ok", "unavailable"}]

LoopRow == [running : BOOLEAN, stopping : BOOLEAN, busy : BOOLEAN, tick : Clock]

CheckRow ==
  [on : BOOLEAN, postgres : {"waiting", "up", "down"},
   migrations : {"waiting", "ok", "behind", "unknown"}, redis : {"waiting", "up", "down"}]

ProcessesTypeOK ==
  /\ proc \in [Processes -> ProcRow]
  /\ loops \in [Processes -> [Loops -> LoopRow]]
  /\ check \in [Processes -> CheckRow]
  /\ store \in BOOLEAN /\ time \in Nat
  /\ held \in [Processes -> SUBSET {"reachable", "current", "store"}]

\* What the place of a process in its boot or shutdown says of the rest of it.
ProcSound(p, row, ls, c) ==
  /\ row.at \in {"connecting", "listen"} => p \in Apis
  /\ row.at \in {"health", "context", "stopping"} => p \in Workers
  /\ \A l \in Loops : ls[l].busy => ls[l].running
  /\ p \in Apis => \A l \in Loops : ~ls[l].running
  /\ row.at \in {"stopping", "closing", "draining", "flushing"} =>
       \A l \in Loops : ls[l].running => ls[l].stopping
  /\ row.at \in {"closing", "draining", "flushing"} =>
       ((\E l \in Loops : ls[l].busy) => row.rejected)
  /\ row.at \in {"draining", "flushing"} => ~row.listening /\ ~c.on
  /\ row.pool = "closed" => row.at = "flushing"

\* What a check has found was so at some moment since it was asked for.
CheckSound(p, c, facts) ==
  c.on =>
    /\ c.postgres = "up" => "reachable" \in facts
    /\ c.migrations = "ok" => "current" \in facts
    /\ p \in Apis /\ c.redis = "up" => "store" \in facts

ProcessesInv ==
  /\ ProcessesTypeOK
  /\ \A p \in Processes : ProcSound(p, proc[p], loops[p], check[p])
  /\ \A p \in Processes : CheckSound(p, check[p], held[p])

\* What was observed of a check stays observed until it is answered.
LEMMA HeldGrows ==
  ASSUME ProcessesTypeOK, Observes
  PROVE  /\ held' \in [Processes -> SUBSET {"reachable", "current", "store"}]
         /\ \A p \in Processes : check[p].on /\ check'[p].on => held[p] \subseteq held'[p]
         /\ \A p \in Processes : check'[p].on => Facts(p)' \subseteq held'[p]
<1> DEFINE H(p) == IF ~check'[p].on THEN held[p]
                   ELSE (IF check[p].on THEN held[p] ELSE {}) \cup Facts(p)'
<1>1. held' = [p \in Processes |-> H(p)]
  BY DEF Observes
<1>2. ASSUME NEW p \in Processes PROVE Facts(p)' \in SUBSET {"reachable", "current", "store"}
  BY DEF Facts
<1>3. ASSUME NEW p \in Processes
      PROVE  /\ H(p) \in SUBSET {"reachable", "current", "store"}
             /\ check[p].on /\ check'[p].on => held[p] \subseteq H(p)
             /\ check'[p].on => Facts(p)' \subseteq H(p)
  BY <1>2 DEF ProcessesTypeOK
<1> HIDE DEF H
<1> QED
  BY <1>1, <1>3

\* A step of one process.
LEMMA ProcessGoes ==
  ASSUME ProcessesInv, NEW p \in Processes, Observes,
         NEW row \in ProcRow, NEW ls \in [Loops -> LoopRow], NEW c \in CheckRow,
         proc' = [proc EXCEPT ![p] = row], loops' = [loops EXCEPT ![p] = ls],
         check' = [check EXCEPT ![p] = c], UNCHANGED <<store, time>>,
         ProcSound(p, row, ls, c), CheckSound(p, c, held'[p])
  PROVE  ProcessesInv'
<1>1. ProcessesTypeOK
  BY DEF ProcessesInv
<1>2. /\ held' \in [Processes -> SUBSET {"reachable", "current", "store"}]
      /\ \A q \in Processes : check[q].on /\ check'[q].on => held[q] \subseteq held'[q]
  BY <1>1, HeldGrows
<1>3. ProcessesTypeOK'
  BY <1>1, <1>2 DEF ProcessesTypeOK
<1>4. /\ proc'[p] = row /\ loops'[p] = ls /\ check'[p] = c
      /\ \A q \in Processes \ {p} : proc'[q] = proc[q] /\ loops'[q] = loops[q] /\ check'[q] = check[q]
  BY <1>1 DEF ProcessesTypeOK
<1>5. ASSUME NEW q \in Processes PROVE ProcSound(q, proc'[q], loops'[q], check'[q])
  BY <1>4 DEF ProcessesInv
<1>6. ASSUME NEW q \in Processes PROVE CheckSound(q, check'[q], held'[q])
  <2>1. CASE q = p
    BY <1>4, <2>1
  <2>2. CASE q # p
    <3>1. check'[q] = check[q] /\ CheckSound(q, check[q], held[q])
      BY <1>4, <2>2 DEF ProcessesInv
    <3> QED
      BY <1>2, <3>1 DEF CheckSound
  <2> QED
    BY <2>1, <2>2
<1> QED
  BY <1>3, <1>5, <1>6 DEF ProcessesInv

\* A step that leaves the checks in flight alone.
LEMMA ProcessMovesOn ==
  ASSUME ProcessesInv, NEW p \in Processes, Observes,
         NEW row \in ProcRow, NEW ls \in [Loops -> LoopRow],
         proc' = [proc EXCEPT ![p] = row], loops' = [loops EXCEPT ![p] = ls],
         UNCHANGED <<check, store, time>>,
         ProcSound(p, row, ls, check[p])
  PROVE  ProcessesInv'
<1>1. ProcessesTypeOK /\ CheckSound(p, check[p], held[p])
  BY DEF ProcessesInv
<1>2. check[p] \in CheckRow /\ check' = [check EXCEPT ![p] = check[p]]
  BY <1>1 DEF ProcessesTypeOK
<1>3. check[p].on => held[p] \subseteq held'[p]
  BY <1>1, HeldGrows
<1>4. CheckSound(p, check[p], held'[p])
  BY <1>1, <1>3 DEF CheckSound
<1> QED
  BY <1>2, <1>4, ProcessGoes

\* A process moves on, and its loops stay as they are.
LEMMA MovesOn ==
  ASSUME ProcessesInv, NEW p \in Processes, Observes, NEW row \in ProcRow, Moves(p, row),
         ProcSound(p, row, loops[p], check[p])
  PROVE  ProcessesInv'
<1>1. loops[p] \in [Loops -> LoopRow] /\ loops \in [Processes -> [Loops -> LoopRow]]
  BY DEF ProcessesInv, ProcessesTypeOK
<1>2. loops' = [loops EXCEPT ![p] = loops[p]]
  BY <1>1 DEF Moves
<1> QED
  BY <1>1, <1>2, ProcessMovesOn DEF Moves

\* The loops of a process move, and the process stays where it is.
LEMMA LoopsMove ==
  ASSUME ProcessesInv, NEW p \in Processes, Observes, NEW ls \in [Loops -> LoopRow],
         loops' = [loops EXCEPT ![p] = ls], UNCHANGED <<proc, check, store, time>>,
         ProcSound(p, proc[p], ls, check[p])
  PROVE  ProcessesInv'
<1>1. proc[p] \in ProcRow /\ proc \in [Processes -> ProcRow]
  BY DEF ProcessesInv, ProcessesTypeOK
<1>2. proc' = [proc EXCEPT ![p] = proc[p]]
  BY <1>1
<1> QED
  BY <1>1, <1>2, ProcessMovesOn

\* The steps of a boot.
LEMMA BootSteps ==
  ASSUME ProcessesInv, NEW p \in Processes, Observes,
         \/ \E env \in Envs : BootApi(p, env) \/ BootWorker(p, env)
         \/ ConnectStore(p) \/ Listen(p) \/ OpenHealth(p)
  PROVE  ProcessesInv'
<1>1. proc[p] \in ProcRow /\ ProcSound(p, proc[p], loops[p], check[p])
  BY DEF ProcessesInv, ProcessesTypeOK
<1>2. CASE \E env \in Envs : BootApi(p, env)
  <2> DEFINE row == [proc[p] EXCEPT !.at = "connecting", !.pool = "open"]
  <2>1. p \in Apis /\ Moves(p, row)
    BY <1>2 DEF BootApi
  <2>2. row \in ProcRow /\ ProcSound(p, row, loops[p], check[p])
    BY <1>1, <2>1 DEF ProcRow, ProcSound
  <2> QED
    BY <2>1, <2>2, MovesOn
<1>3. CASE \E env \in Envs : BootWorker(p, env)
  <2> DEFINE row == [proc[p] EXCEPT !.at = "health", !.pool = "open"]
  <2>1. p \in Workers /\ Moves(p, row)
    BY <1>3 DEF BootWorker
  <2>2. row \in ProcRow /\ ProcSound(p, row, loops[p], check[p])
    BY <1>1, <2>1 DEF ProcRow, ProcSound
  <2> QED
    BY <2>1, <2>2, MovesOn
<1>4. CASE ConnectStore(p)
  <2> DEFINE row == [proc[p] EXCEPT !.at = "listen"]
  <2>1. proc[p].at = "connecting" /\ Moves(p, row)
    BY <1>4 DEF ConnectStore, ProcAt
  <2>2. row \in ProcRow /\ ProcSound(p, row, loops[p], check[p])
    BY <1>1, <2>1 DEF ProcRow, ProcSound
  <2> QED
    BY <2>1, <2>2, MovesOn
<1>5. CASE Listen(p)
  <2> DEFINE row == [proc[p] EXCEPT !.at = "up", !.listening = TRUE]
  <2>1. proc[p].at = "listen" /\ Moves(p, row)
    BY <1>5 DEF Listen, ProcAt
  <2>2. row \in ProcRow /\ ProcSound(p, row, loops[p], check[p])
    BY <1>1, <2>1 DEF ProcRow, ProcSound
  <2> QED
    BY <2>1, <2>2, MovesOn
<1>6. CASE OpenHealth(p)
  <2> DEFINE row == [proc[p] EXCEPT !.at = "context", !.listening = TRUE]
  <2>1. proc[p].at = "health" /\ Moves(p, row)
    BY <1>6 DEF OpenHealth, ProcAt
  <2>2. row \in ProcRow /\ ProcSound(p, row, loops[p], check[p])
    BY <1>1, <2>1 DEF ProcRow, ProcSound
  <2> QED
    BY <2>1, <2>2, MovesOn
<1> QED
  BY <1>2, <1>3, <1>4, <1>5, <1>6

\* The steps of a shutdown.
LEMMA ShutdownSteps ==
  ASSUME ProcessesInv, NEW p \in Processes, Observes,
         \/ SignalApi(p) \/ ReleaseFails(p) \/ LoopsStopped(p) \/ CloseServer(p) \/ EndPool(p)
  PROVE  ProcessesInv'
<1>1. proc[p] \in ProcRow /\ ProcSound(p, proc[p], loops[p], check[p])
  BY DEF ProcessesInv, ProcessesTypeOK
<1>2. CASE SignalApi(p)
  <2> DEFINE row == [proc[p] EXCEPT !.at = "closing"]
  <2>1. p \in Apis /\ proc[p].at = "up" /\ Moves(p, row)
    BY <1>2 DEF SignalApi, ProcAt
  <2>2. row \in ProcRow /\ ProcSound(p, row, loops[p], check[p])
    BY <1>1, <2>1 DEF ProcRow, ProcSound
  <2> QED
    BY <2>1, <2>2, MovesOn
<1>3. CASE ReleaseFails(p)
  <2> DEFINE row == [proc[p] EXCEPT !.at = "closing", !.rejected = TRUE]
  <2>1. proc[p].at = "stopping" /\ Moves(p, row)
    BY <1>3 DEF ReleaseFails, ProcAt
  <2>2. row \in ProcRow /\ ProcSound(p, row, loops[p], check[p])
    BY <1>1, <2>1 DEF ProcRow, ProcSound
  <2> QED
    BY <2>1, <2>2, MovesOn
<1>4. CASE LoopsStopped(p)
  <2> DEFINE row == [proc[p] EXCEPT !.at = "closing"]
  <2>1. /\ proc[p].at = "stopping" /\ Moves(p, row)
        /\ \A l \in Loops : ~loops[p][l].running
    BY <1>4 DEF LoopsStopped, AllStopped, ProcAt
  <2>2. row \in ProcRow /\ ProcSound(p, row, loops[p], check[p])
    BY <1>1, <2>1 DEF ProcRow, ProcSound
  <2> QED
    BY <2>1, <2>2, MovesOn
<1>5. CASE CloseServer(p)
  <2> DEFINE row == [proc[p] EXCEPT !.at = "draining", !.listening = FALSE]
  <2>1. proc[p].at = "closing" /\ ~check[p].on /\ Moves(p, row)
    BY <1>5 DEF CloseServer, ProcAt
  <2>2. row \in ProcRow /\ ProcSound(p, row, loops[p], check[p])
    BY <1>1, <2>1 DEF ProcRow, ProcSound
  <2> QED
    BY <2>1, <2>2, MovesOn
<1>6. CASE EndPool(p)
  <2> DEFINE row == [proc[p] EXCEPT !.at = "flushing", !.pool = "closed"]
  <2>1. proc[p].at = "draining" /\ Moves(p, row)
    BY <1>6 DEF EndPool, ProcAt
  <2>2. row \in ProcRow /\ ProcSound(p, row, loops[p], check[p])
    BY <1>1, <2>1 DEF ProcRow, ProcSound
  <2> QED
    BY <2>1, <2>2, MovesOn
<1> QED
  BY <1>2, <1>3, <1>4, <1>5, <1>6

\* The steps of the loops of a worker.
LEMMA LoopSteps ==
  ASSUME ProcessesInv, NEW p \in Processes, Observes, NEW l \in Loops,
         \/ RunBegins(p, l) \/ StopLoop(p, l) \/ \E threw \in BOOLEAN : RunEnds(p, l, threw)
  PROVE  ProcessesInv'
<1> DEFINE old == loops[p]
<1>1. /\ loops \in [Processes -> [Loops -> LoopRow]] /\ old \in [Loops -> LoopRow]
      /\ time \in Nat /\ ProcSound(p, proc[p], old, check[p])
  BY DEF ProcessesInv, ProcessesTypeOK
<1>2. CASE RunBegins(p, l)
  <2> DEFINE ls == [old EXCEPT ![l].busy = TRUE]
  <2>1. /\ old[l].running /\ ~old[l].stopping /\ loops' = [loops EXCEPT ![p] = ls]
        /\ UNCHANGED <<proc, check, store, time>>
    BY <1>1, <1>2 DEF RunBegins, IsRunning
  <2>2. ls \in [Loops -> LoopRow]
    BY <1>1 DEF LoopRow
  <2>3. /\ ls[l] = [old[l] EXCEPT !.busy = TRUE] /\ old[l] \in LoopRow
        /\ \A k \in Loops \ {l} : ls[k] = old[k]
    BY <1>1
  <2>4. ls[l].running /\ ~ls[l].stopping /\ old[l].running = TRUE
    BY <2>1, <2>3 DEF LoopRow
  <2> HIDE DEF ls, old
  <2>5. ProcSound(p, proc[p], ls, check[p])
    BY <1>1, <2>1, <2>3, <2>4 DEF ProcSound
  <2> QED
    BY <2>1, <2>2, <2>5, LoopsMove
<1>3. CASE StopLoop(p, l)
  <2> DEFINE ls == [old EXCEPT ![l].running = FALSE]
  <2>1. /\ ~old[l].busy /\ loops' = [loops EXCEPT ![p] = ls]
        /\ UNCHANGED <<proc, check, store, time>>
    BY <1>1, <1>3 DEF StopLoop
  <2>2. ls \in [Loops -> LoopRow]
    BY <1>1 DEF LoopRow
  <2>3. /\ ls[l] = [old[l] EXCEPT !.running = FALSE] /\ old[l] \in LoopRow
        /\ \A k \in Loops \ {l} : ls[k] = old[k]
    BY <1>1
  <2>4. ~ls[l].running /\ ~ls[l].busy
    BY <2>1, <2>3 DEF LoopRow
  <2> HIDE DEF ls, old
  <2>5. ProcSound(p, proc[p], ls, check[p])
    BY <1>1, <2>1, <2>3, <2>4 DEF ProcSound
  <2> QED
    BY <2>1, <2>2, <2>5, LoopsMove
<1>4. ASSUME NEW threw \in BOOLEAN, RunEnds(p, l, threw) PROVE ProcessesInv'
  <2> DEFINE tick == IF threw THEN old[l].tick ELSE time
             ls == [old EXCEPT ![l] = [@ EXCEPT !.busy = FALSE, !.tick = tick]]
  <2>1. loops' = [loops EXCEPT ![p] = ls] /\ UNCHANGED <<proc, check, store, time>>
    <3>1. loops' = [loops EXCEPT ![p][l] = [@ EXCEPT !.busy = FALSE, !.tick = tick]]
      BY <1>4 DEF RunEnds
    <3>2. UNCHANGED <<proc, check, store, time>>
      BY <1>4 DEF RunEnds
    <3> HIDE DEF tick
    <3> QED
      BY <1>1, <3>1, <3>2
  <2>2. tick \in Clock
    BY <1>1 DEF LoopRow, Clock
  <2> HIDE DEF tick
  <2>3. ls \in [Loops -> LoopRow]
    BY <1>1, <2>2 DEF LoopRow
  <2>4. /\ ls[l] = [old[l] EXCEPT !.busy = FALSE, !.tick = tick] /\ old[l] \in LoopRow
        /\ \A k \in Loops \ {l} : ls[k] = old[k]
    BY <1>1
  <2> HIDE DEF ls, old
  <2>5. ~ls[l].busy /\ ls[l].running = old[l].running /\ ls[l].stopping = old[l].stopping
    BY <2>4 DEF LoopRow
  <2>6. ProcSound(p, proc[p], ls, check[p])
    BY <1>1, <2>1, <2>4, <2>5 DEF ProcSound
  <2> QED
    BY <2>1, <2>3, <2>6, LoopsMove
<1> QED
  BY <1>2, <1>3, <1>4

\* The process is gone, the worker's loops begin, or they are told to stop.
LEMMA WholeProcessSteps ==
  ASSUME ProcessesInv, NEW p \in Processes, Observes,
         \/ Dies(p) \/ FlushAndExit(p) \/ StartLoops(p) \/ SignalWorker(p)
  PROVE  ProcessesInv'
<1>1. /\ ProcessesTypeOK /\ proc[p] \in ProcRow /\ loops[p] \in [Loops -> LoopRow]
      /\ ProcSound(p, proc[p], loops[p], check[p])
  BY DEF ProcessesInv, ProcessesTypeOK
<1>2. CASE Dies(p) \/ FlushAndExit(p)
  <2> DEFINE ls == [l \in Loops |-> LoopOff]
  <2>1. /\ proc' = [proc EXCEPT ![p] = Exited] /\ loops' = [loops EXCEPT ![p] = ls]
        /\ check' = [check EXCEPT ![p] = NoCheck] /\ UNCHANGED <<store, time>>
    BY <1>2 DEF Dies, FlushAndExit, Gone
  <2>2. /\ Exited \in ProcRow /\ Exited.at = "down" /\ Exited.pool = "none"
        /\ LoopOff \in LoopRow /\ ~LoopOff.running /\ ~LoopOff.busy
        /\ NoCheck \in CheckRow /\ NoCheck.on = FALSE
    BY DEF Exited, LoopOff, NoCheck, ProcRow, LoopRow, CheckRow, Clock
  <2>3. ls \in [Loops -> LoopRow] /\ \A l \in Loops : ls[l] = LoopOff
    BY <2>2
  <2>4. ProcSound(p, Exited, ls, NoCheck) /\ CheckSound(p, NoCheck, held'[p])
    <3> HIDE DEF ls
    <3> QED
      BY <2>2, <2>3 DEF ProcSound, CheckSound
  <2> HIDE DEF ls
  <2> QED
    BY <2>1, <2>2, <2>3, <2>4, ProcessGoes
<1>3. CASE StartLoops(p)
  <2> DEFINE row == [proc[p] EXCEPT !.at = "up", !.started = time]
             on == [LoopOff EXCEPT !.running = TRUE, !.busy = TRUE]
             ls == [l \in Loops |-> on]
  <2>1. /\ proc[p].at = "context" /\ proc' = [proc EXCEPT ![p] = row]
        /\ loops' = [loops EXCEPT ![p] = ls] /\ UNCHANGED <<check, store, time>>
    BY <1>1, <1>3 DEF StartLoops, ProcAt, ProcessesTypeOK
  <2>2. on \in LoopRow /\ on.running /\ on.busy
    BY DEF LoopOff, LoopRow, Clock
  <2>3. ls \in [Loops -> LoopRow] /\ \A l \in Loops : ls[l] = on
    BY <2>2
  <2>4. /\ row \in ProcRow /\ row.at = "up" /\ row.pool = proc[p].pool
        /\ row.listening = proc[p].listening
    BY <1>1 DEF ProcessesTypeOK, ProcRow, Clock
  <2>5. p \notin Apis
    BY <1>1, <2>1, ProcessesAssumption DEF ProcSound
  <2> HIDE DEF row, on, ls
  <2>6. ProcSound(p, row, ls, check[p])
    BY <1>1, <2>1, <2>2, <2>3, <2>4, <2>5 DEF ProcSound
  <2> QED
    BY <2>1, <2>3, <2>4, <2>6, ProcessMovesOn
<1>4. CASE SignalWorker(p)
  <2> DEFINE old == loops[p]
             row == [proc[p] EXCEPT !.at = "stopping"]
             ls == [l \in Loops |-> [old[l] EXCEPT !.stopping = TRUE]]
  <2>1. /\ p \in Workers /\ proc[p].at = "up" /\ proc' = [proc EXCEPT ![p] = row]
        /\ loops' = [loops EXCEPT ![p] = ls] /\ UNCHANGED <<check, store, time>>
    BY <1>1, <1>4 DEF SignalWorker, ProcAt, ProcessesTypeOK
  <2>2. /\ \A l \in Loops : /\ ls[l] \in LoopRow /\ ls[l].stopping /\ ls[l].busy = old[l].busy
                            /\ ls[l].running = old[l].running
        /\ ls \in [Loops -> LoopRow]
    BY <1>1 DEF LoopRow
  <2>3. row \in ProcRow /\ row.at = "stopping" /\ row.pool = proc[p].pool
    BY <1>1 DEF ProcRow
  <2> HIDE DEF row, ls
  <2>4. ProcSound(p, row, ls, check[p])
    BY <1>1, <2>1, <2>2, <2>3 DEF ProcSound
  <2> QED
    BY <2>1, <2>2, <2>3, <2>4, ProcessMovesOn
<1> QED
  BY <1>2, <1>3, <1>4

\* verifyMigrations answers clean only for a ledger that is exactly the files.
LEMMA CleanIsCurrent ==
  ASSUME NEW p, LoadsFiles(BuildOf[p]), Report(cluster.ledger, BuildOf[p]) = "clean"
  PROVE  "current" \in Facts(p)
<1> DEFINE dir == BuildOf[p]
           ledger == cluster.ledger
           built == {[version |-> f.version, name |-> f.name, checksum |-> f.checksum] : f \in dir}
           rows == {[version |-> ledger[i].version, name |-> ledger[i].name,
                     checksum |-> ledger[i].checksum] : i \in DOMAIN ledger}
<1>1. NoDrift(ledger, dir) /\ Pending(ledger, dir) = {}
  BY DEF Report
<1>2. ASSUME NEW f \in dir
      PROVE  \E k \in DOMAIN ledger : Same(f, ledger[k])
  BY <1>1, NotPendingIsThere
<1>3. ASSUME NEW i \in DOMAIN ledger
      PROVE  \E f \in dir : Same(f, ledger[i])
  <2> DEFINE same == {g \in dir : g.version = ledger[i].version}
  <2>1. /\ same # {} /\ ~(\A g \in same : g.name # ledger[i].name)
        /\ ~(\A g \in same : g.checksum # ledger[i].checksum)
    BY <1>1 DEF NoDrift, ClassifyApplied
  <2>2. \A f, g \in same : f = g
    BY DEF LoadsFiles
  <2> QED
    BY <2>1, <2>2 DEF Same
<1>4. rows = built
  <2>1. \A x \in rows : x \in built
    BY <1>3 DEF Same
  <2>2. \A x \in built : x \in rows
    BY <1>2 DEF Same
  <2> QED
    BY <2>1, <2>2
<1> QED
  BY <1>4 DEF Facts

\* The checks: asked for, probed and answered.
LEMMA CheckSteps ==
  ASSUME ProcessesInv, NEW p \in Processes, Observes, UNCHANGED databaseVars,
         \/ Ask(p) \/ ProbePostgres(p) \/ ProbeMigrations(p) \/ ProbeRedis(p)
         \/ \E probe \in {"postgres", "migrations", "redis"} : ProbeFails(p, probe)
  PROVE  ProcessesInv'
<1>1. /\ ProcessesTypeOK /\ check[p] \in CheckRow /\ proc[p] \in ProcRow
      /\ loops[p] \in [Loops -> LoopRow]
      /\ ProcSound(p, proc[p], loops[p], check[p]) /\ CheckSound(p, check[p], held[p])
  BY DEF ProcessesInv, ProcessesTypeOK
<1>2. ASSUME NEW c \in CheckRow, check' = [check EXCEPT ![p] = c],
             UNCHANGED <<proc, loops, store, time>>, c.on,
             proc[p].at \notin {"draining", "flushing"} \/ check[p].on,
             CheckSound(p, c, held'[p])
      PROVE  ProcessesInv'
  <2>1. /\ proc' = [proc EXCEPT ![p] = proc[p]] /\ loops' = [loops EXCEPT ![p] = loops[p]]
    BY <1>1, <1>2 DEF ProcessesTypeOK
  <2>2. ProcSound(p, proc[p], loops[p], c)
    BY <1>1, <1>2 DEF ProcSound
  <2> QED
    BY <1>1, <1>2, <2>1, <2>2, ProcessGoes
<1>3. CASE Ask(p)
  <2> DEFINE redis == IF p \in Apis THEN "waiting" ELSE "up"
             c == [NoCheck EXCEPT !.on = TRUE, !.redis = redis]
  <2>1. /\ proc[p].listening /\ check' = [check EXCEPT ![p] = c]
        /\ UNCHANGED <<proc, loops, store, time>>
    BY <1>3 DEF Ask, NoCheck
  <2>2. redis \in {"waiting", "up"} /\ (p \in Apis => redis # "up")
    OBVIOUS
  <2> HIDE DEF redis
  <2>3. c \in CheckRow /\ c.on /\ CheckSound(p, c, held'[p])
    BY <2>2 DEF NoCheck, CheckRow, CheckSound
  <2> HIDE DEF c
  <2>4. proc[p].at \notin {"draining", "flushing"}
    BY <1>1, <2>1 DEF ProcSound
  <2> QED
    BY <1>2, <2>1, <2>3, <2>4
<1>4. ASSUME NEW probe \in {"postgres", "migrations", "redis"}, NEW result,
             Found(p, probe, result),
             probe = "migrations" => result \in {"ok", "behind", "unknown"},
             probe # "migrations" => result \in {"up", "down"},
             probe = "postgres" /\ result = "up" => "reachable" \in Facts(p)',
             probe = "migrations" /\ result = "ok" => "current" \in Facts(p)',
             probe = "redis" /\ result = "up" => "store" \in Facts(p)'
      PROVE  ProcessesInv'
  <2> DEFINE c == [check[p] EXCEPT ![probe] = result]
  <2>1. check[p].on /\ check' = [check EXCEPT ![p] = c] /\ UNCHANGED <<proc, loops, store, time>>
    BY <1>1, <1>4 DEF Found, ProcessesTypeOK
  <2>2. /\ c \in CheckRow /\ c.on
        /\ c.postgres = IF probe = "postgres" THEN result ELSE check[p].postgres
        /\ c.migrations = IF probe = "migrations" THEN result ELSE check[p].migrations
        /\ c.redis = IF probe = "redis" THEN result ELSE check[p].redis
    <3>1. CASE probe = "postgres"
      <4>1. c = [check[p] EXCEPT !.postgres = result]
        BY <3>1
      <4> HIDE DEF c
      <4> QED
        BY <1>1, <1>4, <2>1, <3>1, <4>1 DEF CheckRow
    <3>2. CASE probe = "migrations"
      <4>1. c = [check[p] EXCEPT !.migrations = result]
        BY <3>2
      <4> HIDE DEF c
      <4> QED
        BY <1>1, <1>4, <2>1, <3>2, <4>1 DEF CheckRow
    <3>3. CASE probe = "redis"
      <4>1. c = [check[p] EXCEPT !.redis = result]
        BY <3>3
      <4> HIDE DEF c
      <4> QED
        BY <1>1, <1>4, <2>1, <3>3, <4>1 DEF CheckRow
    <3> QED
      BY <3>1, <3>2, <3>3
  <2> HIDE DEF c
  <2>3. check'[p] = c
    BY <1>1, <2>1 DEF ProcessesTypeOK
  <2>4. held[p] \subseteq held'[p] /\ Facts(p)' \subseteq held'[p]
    BY <1>1, <2>1, <2>2, <2>3, HeldGrows
  <2>5. CheckSound(p, c, held'[p])
    BY <1>1, <1>4, <2>1, <2>2, <2>4 DEF CheckSound
  <2> QED
    BY <1>2, <2>1, <2>2, <2>5
<1>5. CASE ProbePostgres(p)
  <2>1. "reachable" \in Facts(p)'
    BY <1>5 DEF ProbePostgres, Queries, Found, Facts, Exists, databaseVars
  <2> QED
    BY <1>4, <1>5, <2>1 DEF ProbePostgres
<1>6. CASE ProbeMigrations(p)
  <2>1. PICK result \in {"ok", "behind"} :
          /\ Found(p, "migrations", result)
          /\ result = "ok" => Report(cluster.ledger, BuildOf[p]) = "clean"
    BY <1>6 DEF ProbeMigrations
  <2>2. LoadsFiles(BuildOf[p])
    BY <1>6 DEF ProbeMigrations
  <2>3. result = "ok" => "current" \in Facts(p)
    BY <2>1, <2>2, CleanIsCurrent
  <2>4. Facts(p)' = Facts(p)
    BY <2>1 DEF Found, Facts, Exists, databaseVars
  <2> QED
    BY <1>4, <2>1, <2>3, <2>4
<1>7. CASE ProbeRedis(p)
  <2>1. "store" \in Facts(p)'
    BY <1>7 DEF ProbeRedis, Found, Facts
  <2> QED
    BY <1>4, <1>7, <2>1 DEF ProbeRedis
<1>8. ASSUME NEW probe \in {"postgres", "migrations", "redis"}, ProbeFails(p, probe)
      PROVE  ProcessesInv'
  <2>1. PICK result \in {"unknown", "down"} :
          /\ Found(p, probe, result)
          /\ probe = "migrations" <=> result = "unknown"
    BY <1>8 DEF ProbeFails
  <2> QED
    BY <1>4, <2>1
<1> QED
  BY <1>3, <1>5, <1>6, <1>7, <1>8

\* A readiness check that is answered.
LEMMA AnswerSteps ==
  ASSUME ProcessesInv, NEW p \in Processes, Observes, Answer(p)
  PROVE  ProcessesInv'
<1>1. /\ ProcessesTypeOK /\ proc[p] \in ProcRow /\ loops[p] \in [Loops -> LoopRow]
      /\ ProcSound(p, proc[p], loops[p], check[p])
  BY DEF ProcessesInv, ProcessesTypeOK
<1>2. PICK answer \in {"ok", "unavailable"} : proc' = [proc EXCEPT ![p].answer = answer]
  BY DEF Answer
<1> DEFINE row == [proc[p] EXCEPT !.answer = answer]
<1>3. /\ proc' = [proc EXCEPT ![p] = row] /\ loops' = [loops EXCEPT ![p] = loops[p]]
      /\ check' = [check EXCEPT ![p] = NoCheck] /\ UNCHANGED <<store, time>>
  BY <1>1, <1>2 DEF Answer, ProcessesTypeOK
<1>4. row \in ProcRow /\ NoCheck \in CheckRow /\ NoCheck.on = FALSE
  BY <1>1 DEF ProcRow, NoCheck, CheckRow
<1>5. ProcSound(p, row, loops[p], NoCheck) /\ CheckSound(p, NoCheck, held'[p])
  BY <1>1, <1>4 DEF ProcSound, CheckSound, ProcRow
<1> QED
  BY <1>1, <1>3, <1>4, <1>5, ProcessGoes

\* The store, the clock and the database leave the processes as they are.
LEMMA SurroundingsMove ==
  ASSUME ProcessesInv, Observes, UNCHANGED <<proc, loops, check>>, store' \in BOOLEAN, time' \in Nat
  PROVE  ProcessesInv'
<1>1. ProcessesTypeOK
  BY DEF ProcessesInv
<1>2. /\ held' \in [Processes -> SUBSET {"reachable", "current", "store"}]
      /\ \A q \in Processes : check[q].on => held[q] \subseteq held'[q]
  BY <1>1, HeldGrows
<1>3. ProcessesTypeOK'
  BY <1>1, <1>2 DEF ProcessesTypeOK
<1>4. ASSUME NEW q \in Processes PROVE CheckSound(q, check'[q], held'[q])
  BY <1>2 DEF ProcessesInv, CheckSound
<1>5. ASSUME NEW q \in Processes PROVE ProcSound(q, proc'[q], loops'[q], check'[q])
  BY DEF ProcessesInv
<1> QED
  BY <1>3, <1>4, <1>5 DEF ProcessesInv

\* ProcessesInv holds at the start.
LEMMA InitProcesses == ProcessesInit => ProcessesInv
<1> SUFFICES ASSUME ProcessesInit PROVE ProcessesInv
  OBVIOUS
<1>1. /\ Exited \in ProcRow /\ Exited.at = "down" /\ Exited.pool = "none"
      /\ LoopOff \in LoopRow /\ ~LoopOff.running /\ ~LoopOff.busy
      /\ NoCheck \in CheckRow /\ NoCheck.on = FALSE
  BY DEF Exited, LoopOff, NoCheck, ProcRow, LoopRow, CheckRow, Clock
<1>2. ProcessesTypeOK
  BY <1>1 DEF ProcessesInit, ProcessesTypeOK
<1>3. ASSUME NEW p \in Processes
      PROVE  ProcSound(p, proc[p], loops[p], check[p]) /\ CheckSound(p, check[p], held[p])
  <2>1. /\ proc[p] = Exited /\ check[p] = NoCheck /\ \A l \in Loops : loops[p][l] = LoopOff
    BY DEF ProcessesInit
  <2> QED
    BY <1>1, <2>1 DEF ProcSound, CheckSound
<1> QED
  BY <1>2, <1>3 DEF ProcessesInv

\* ProcessesInv is inductive.
LEMMA ProcessesSteps ==
  ProcessesInv /\ [ProcessesNext]_<<databaseVars, processVars>> => ProcessesInv'
<1> SUFFICES ASSUME ProcessesInv, [ProcessesNext]_<<databaseVars, processVars>>
             PROVE  ProcessesInv'
  OBVIOUS
<1>1. CASE UNCHANGED <<databaseVars, processVars>>
  <2>1. UNCHANGED <<proc, loops, check, store, time, held>>
    BY <1>1 DEF processVars
  <2> QED
    BY <2>1 DEF ProcessesInv, ProcessesTypeOK
<1>2. ASSUME NEW p \in Processes, ProcessMoves(p) PROVE ProcessesInv'
  <2>1. ProcessStep(p) /\ UNCHANGED databaseVars /\ Observes
    BY <1>2 DEF ProcessMoves
  <2> QED
    BY <2>1, BootSteps, ShutdownSteps, LoopSteps, WholeProcessSteps, CheckSteps, AnswerSteps
       DEF ProcessStep
<1>3. CASE WorldMoves
  <2>1. store \in BOOLEAN /\ time \in Nat
    BY DEF ProcessesInv, ProcessesTypeOK
  <2>2. store' \in BOOLEAN /\ time' \in Nat /\ UNCHANGED <<proc, loops, check>> /\ Observes
    <3>1. CASE StoreFlips
      <4>1. store' = ~store
        BY <3>1 DEF StoreFlips
      <4>2. store' \in BOOLEAN
        BY <4>1, Zenon
      <4> QED
        BY <1>3, <2>1, <3>1, <4>2 DEF WorldMoves, StoreFlips
    <3>2. CASE TimePasses
      BY <1>3, <2>1, <3>2 DEF WorldMoves, TimePasses
    <3> QED
      BY <1>3, <3>1, <3>2 DEF WorldMoves
  <2> QED
    BY <2>2, SurroundingsMove
<1>4. CASE Watched(DatabaseNext)
  BY <1>4, SurroundingsMove DEF Watched, ProcessesInv, ProcessesTypeOK
<1> QED
  BY <1>1, <1>2, <1>3, <1>4 DEF ProcessesNext

\* ProcessesInv holds in every state.
LEMMA ProcessesInvariance == ProcessesSpec => []ProcessesInv
<1> QED
  BY InitProcesses, ProcessesSteps, PTL DEF ProcessesSpec

\* The processes, their loops and the checks in flight keep the shape the
\* two entrypoints give them.
THEOREM ProcessesTypes == ProcessesSpec => []ProcessesTypeOK
BY ProcessesInvariance, PTL DEF ProcessesInv

\* What a sound process holds is what a shutdown promises.
LEMMA SoundDrains == ProcessesInv => ShutdownDrains
<1> SUFFICES ASSUME ProcessesInv, NEW p \in Processes, proc[p].pool = "closed"
             PROVE  /\ ~proc[p].listening /\ ~check[p].on
                    /\ (\E l \in Loops : loops[p][l].busy) => proc[p].rejected
  BY DEF ShutdownDrains
<1>1. ProcSound(p, proc[p], loops[p], check[p])
  BY DEF ProcessesInv
<1> QED
  BY <1>1 DEF ProcSound

\* However many processes share the database: the pool of one is closed only
\* after its server, and only a failed release of the relay's claims leaves
\* a run in flight behind it.
THEOREM PoolsCloseLast == ProcessesSpec => []ShutdownDrains
BY ProcessesInvariance, SoundDrains, PTL

\* Only Answer gives a ready answer.
LEMMA OnlyAnswers ==
  ASSUME ProcessesInv, ProcessesNext, NEW p \in Processes,
         check[p].on, ~check'[p].on, proc'[p].answer = "ok"
  PROVE  Answer(p)
<1>1. /\ check \in [Processes -> CheckRow] /\ proc \in [Processes -> ProcRow]
  BY DEF ProcessesInv, ProcessesTypeOK
<1>2. PICK q \in Processes : ProcessStep(q) /\ check'[p] # check[p]
  BY DEF ProcessesNext, ProcessMoves, WorldMoves, StoreFlips, TimePasses, Watched
<1>3. Dies(q) \/ FlushAndExit(q) \/ Ask(q) \/ ProbePostgres(q) \/ ProbeMigrations(q)
      \/ ProbeRedis(q) \/ (\E probe \in {"postgres", "migrations", "redis"} : ProbeFails(q, probe))
      \/ Answer(q)
  BY <1>2 DEF ProcessStep, BootApi, BootWorker, ConnectStore, Listen, OpenHealth, StartLoops,
     RunBegins, StopLoop, RunEnds, SignalApi, SignalWorker, ReleaseFails, LoopsStopped,
     CloseServer, EndPool, Moves
<1>4. ~(Dies(q) \/ FlushAndExit(q))
  <2> SUFFICES ASSUME Gone(q) PROVE FALSE
    BY DEF Dies, FlushAndExit
  <2>1. check'[p] # check[p] => q = p
    BY <1>1 DEF Gone
  <2>2. proc'[p] = Exited
    BY <1>1, <1>2, <2>1 DEF Gone
  <2> QED
    BY <2>2 DEF Exited
<1>5. ASSUME NEW probe \in {"postgres", "migrations", "redis"}, NEW result, Found(q, probe, result)
      PROVE  FALSE
  <2>1. check' = [check EXCEPT ![q][probe] = result]
    BY <1>5 DEF Found
  <2>2. q = p /\ check'[p] = [check[p] EXCEPT ![probe] = result] /\ probe # "on"
    BY <1>1, <1>2, <2>1
  <2>3. check'[p].on = check[p].on
    BY <1>1, <2>2 DEF CheckRow
  <2> QED
    BY <2>3
<1>6. ~Ask(q)
  <2> SUFFICES ASSUME Ask(q) PROVE FALSE
    OBVIOUS
  <2>1. q = p
    BY <1>1, <1>2 DEF Ask
  <2> QED
    BY <2>1 DEF Ask
<1>7. Answer(q)
  BY <1>3, <1>4, <1>5, <1>6 DEF ProbePostgres, ProbeMigrations, ProbeRedis, ProbeFails
<1>8. q = p
  BY <1>1, <1>2, <1>7 DEF Answer
<1> QED
  BY <1>7, <1>8

\* A check that is answered ready saw what it says.
LEMMA AnswerIsEarned ==
  ASSUME ProcessesInv, NEW p \in Processes, Answer(p), proc'[p].answer = "ok"
  PROVE  /\ {"reachable", "current"} \subseteq held[p]
         /\ p \in Apis => "store" \in held[p]
         /\ p \in Workers => \A l \in Loops :
              /\ loops[p][l].running /\ ~loops[p][l].stopping
              /\ \E t \in {proc[p].started, loops[p][l].tick} : t # NoTick /\ time <= t + StaleAfter
<1>1. /\ proc \in [Processes -> ProcRow] /\ CheckSound(p, check[p], held[p])
      /\ loops[p] \in [Loops -> LoopRow] /\ time \in Nat /\ proc[p] \in ProcRow
  BY DEF ProcessesInv, ProcessesTypeOK
<1> DEFINE ready == /\ check[p].postgres = "up" /\ check[p].migrations = "ok"
                    /\ check[p].redis = "up"
                    /\ p \in Workers => \A l \in Loops : LoopAlive(p, l)
<1>2. proc' = [proc EXCEPT ![p].answer = IF ready THEN "ok" ELSE "unavailable"] /\ check[p].on
  BY DEF Answer
<1>3. ready
  <2> HIDE DEF ready
  <2>1. proc'[p].answer = IF ready THEN "ok" ELSE "unavailable"
    BY <1>1, <1>2 DEF ProcRow
  <2> QED
    BY <2>1
<1>4. ASSUME p \in Workers, NEW l \in Loops
      PROVE  /\ loops[p][l].running /\ ~loops[p][l].stopping
             /\ \E t \in {proc[p].started, loops[p][l].tick} : t # NoTick /\ time <= t + StaleAfter
  <2> DEFINE tick == loops[p][l].tick
             heartbeat == IF tick = NoTick THEN proc[p].started ELSE tick
  <2>1. IsRunning(p, l) /\ proc[p].started # NoTick /\ time - heartbeat <= StaleAfter
    BY <1>3, <1>4 DEF LoopAlive
  <2>2. tick \in Clock /\ proc[p].started \in Clock
    BY <1>1, <1>4 DEF LoopRow, ProcRow
  <2>3. heartbeat \in Nat /\ heartbeat # NoTick /\ heartbeat \in {proc[p].started, tick}
    BY <2>1, <2>2 DEF Clock, NoTick
  <2> HIDE DEF heartbeat
  <2>4. time <= heartbeat + StaleAfter
    BY <1>1, <2>1, <2>3, ProcessesAssumption
  <2> QED
    BY <2>1, <2>3, <2>4 DEF IsRunning
<1> QED
  BY <1>1, <1>2, <1>3, <1>4 DEF CheckSound

\* A ready answer names only what held while it was being given, with any
\* number of processes, operators and builds.
THEOREM AnswersAreEarned == ProcessesSpec => ReadinessIsEarned
<1>1. ProcessesInv /\ [ProcessesNext]_<<databaseVars, processVars>> =>
        [\A p \in Processes :
           (check[p].on /\ ~check'[p].on /\ proc'[p].answer = "ok") =>
             /\ {"reachable", "current"} \subseteq held[p]
             /\ p \in Apis => "store" \in held[p]
             /\ p \in Workers => \A l \in Loops :
                  /\ loops[p][l].running /\ ~loops[p][l].stopping
                  /\ \E t \in {proc[p].started, loops[p][l].tick} :
                       t # NoTick /\ time <= t + StaleAfter]_<<proc, check>>
  <2> SUFFICES ASSUME ProcessesInv, [ProcessesNext]_<<databaseVars, processVars>>,
                      ~UNCHANGED <<proc, check>>, NEW p \in Processes,
                      check[p].on, ~check'[p].on, proc'[p].answer = "ok"
               PROVE  /\ {"reachable", "current"} \subseteq held[p]
                      /\ p \in Apis => "store" \in held[p]
                      /\ p \in Workers => \A l \in Loops :
                           /\ loops[p][l].running /\ ~loops[p][l].stopping
                           /\ \E t \in {proc[p].started, loops[p][l].tick} :
                                t # NoTick /\ time <= t + StaleAfter
    OBVIOUS
  <2>1. ProcessesNext
    BY DEF processVars
  <2>2. Answer(p)
    BY <2>1, OnlyAnswers
  <2> QED
    BY <2>2, AnswerIsEarned
<1> QED
  BY <1>1, ProcessesInvariance, PTL DEF ProcessesSpec, ReadinessIsEarned
=============================================================================
