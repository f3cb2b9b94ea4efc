-------------------------- MODULE MobileClientProofs --------------------------
(***************************************************************************)
(* Theorems of MobileClient for every number of tasks and credentials: a   *)
(* credential that was given up is not handed back, and a process that was *)
(* never let in opens nothing an earlier one left.                         *)
(*                                                                         *)
(* StoreMove and LockMove say what one step of one task may do to the      *)
(* credential and to the lock.  Each action makes such a move (the Moves   *)
(* lemmas), and such moves preserve the invariant.                         *)
(***************************************************************************)
EXTENDS MobileClient, TLAPS

\* What a place for a credential may hold.
Held == Credentials \cup {NoCredential}

\* A task: the function it runs, the await it stands at, what it carries.
TaskFields ==
  [op : {"none", "start", "signIn", "reset", "signOut", "switch", "verify", "refresh",
         "ending", "abandon"},
   at : {"idle", "load", "marker", "stored", "erase", "lowerRead", "restored", "bootstrap",
         "asked", "write", "lowerWrite", "raise", "delete", "lowerClear", "wipe"},
   cred : Held, got : Held \cup {"failed"}, current : BOOLEAN, raised : BOOLEAN,
   behind : {"open", "relocked", "locked"}, held : Held]

\* The awaits of a restore, which only startup stands at.
OfRestore == {"marker", "stored", "erase", "lowerRead", "restored", "bootstrap"}

TaskRow == {row \in TaskFields : row.at \in OfRestore => row.op = "start"}

\* The memory of the process.
AppRow ==
  [memory : Held, latch : BOOLEAN, inFlight : {"none", "one"}, terminated : BOOLEAN,
   choice : {"unloaded", "unavailable", "on", "off"}, unlocked : BOOLEAN,
   screen : {"off", "loading", "securityUnavailable", "locked", "restoring", "signedOut",
             "blocked", "expired", "bootstrap", "inside", "unavailable"}]

PastRow ==
  [issued : SUBSET Credentials, own : SUBSET Credentials, abandoned : SUBSET Credentials,
   calls : Nat, let : BOOLEAN]

StateTyped ==
  /\ keystore \in Held
  /\ flags \in [marker : BOOLEAN, lock : BOOLEAN]
  /\ app \in AppRow
  /\ past \in PastRow

ClientTypeOK == StateTyped /\ task \in [Tasks -> TaskRow]

\* Nothing runs while there is no process, and it has done nothing yet.
ColdWhenOff ==
  app.screen = "off" =>
    /\ app = NoProcess
    /\ past.own = {} /\ ~past.let
    /\ \A k \in Tasks : task[k] = IdleTask

-----------------------------------------------------------------------------
(* The credential *)

\* A row that is going to write the credential it carries.
Pending(row) ==
  row.at = "write" \/ (row.op = "switch" /\ row.at \in {"raise", "delete", "lowerClear"})

\* A row that is giving up the credential it holds.
GivingUp(row) == row.at \in {"raise", "delete"}

\* A credential that was given up, or may be counted so by a step to come.
GivenUp(c) ==
  /\ c \in Credentials
  /\ c \in past.abandoned \/ \E k \in Tasks : GivingUp(task[k]) /\ task[k].held = c

\* Whatever is kept anywhere was issued.
AllIssued ==
  /\ keystore \in past.issued \cup {NoCredential}
  /\ past.abandoned \subseteq past.issued
  /\ \A k \in Tasks : /\ GivingUp(task[k]) => task[k].held \in past.issued \cup {NoCredential}
                      /\ Pending(task[k]) => task[k].cred \in past.issued

\* A credential still to be written is on no disk, was not given up, and is
\* written by one task.
PendingFresh ==
  \A k \in Tasks : Pending(task[k]) =>
    /\ task[k].cred # keystore
    /\ ~GivenUp(task[k].cred)
    /\ \A j \in Tasks \ {k} : Pending(task[j]) => task[j].cred # task[k].cred

\* The awaits after which the marker is lowered or the keystore read.
Trusting == {"lowerRead", "lowerWrite", "lowerClear", "stored"}

\* Whoever stands at one of them may rely on what the keystore holds.
TrustIsDue == \A k \in Tasks : task[k].at \in Trusting => ~GivenUp(keystore)

\* What is on the disk though it was given up is barred: by the marker, or,
\* until that is raised, by the latch of this process.
GivenUpIsBarred ==
  /\ keystore \in past.abandoned => flags.marker
  /\ GivenUp(keystore) => flags.marker \/ app.latch

\* What a read has in its hands was not given up.
InHandStands == \A k \in Tasks : task[k].at = "restored" => ~GivenUp(task[k].got)

StoreInv == AllIssued /\ PendingFresh /\ TrustIsDue /\ GivenUpIsBarred /\ InHandStands

-----------------------------------------------------------------------------
(* The lock *)

\* The disk holds what an earlier process left there.
Untouched == keystore \in Credentials \ past.own

\* A process that was let in by nobody has no way past the lock of its own.
NeverLetIn == ~past.let => ~app.unlocked /\ app.choice # "off"

\* A row that neither restores nor is on its way to a restore.
Outside(row) ==
  /\ row.at \notin OfRestore
  /\ row.op \notin {"switch", "verify"}

InnerScreens == {"restoring", "bootstrap", "inside", "unavailable"}

\* While the disk is untouched, such a process shows nothing behind the lock.
ShutOut ==
  ~past.let /\ Untouched =>
    /\ app.screen \notin InnerScreens
    /\ \A k \in Tasks : Outside(task[k])

\* After a write of this process the disk is its own.
WrittenIsOwn == \A k \in Tasks : task[k].at = "lowerWrite" => ~Untouched

\* A row that went past a lock that nobody opened finds only its own.
SeesOwn(row) ==
  row.behind = "locked" =>
    /\ ~Untouched
    /\ row.at = "restored" => row.got \notin Credentials \ past.own

LockInv ==
  /\ NeverLetIn /\ ShutOut /\ WrittenIsOwn
  /\ \A k \in Tasks : SeesOwn(task[k])

IInv == ClientTypeOK /\ ColdWhenOff /\ StoreInv /\ LockInv

-----------------------------------------------------------------------------
(* What one step of a task may do *)

\* Rows that differ at most in whether their generation is the latest one.
Alike(r, s) ==
  /\ r.op = s.op /\ r.at = s.at /\ r.cred = s.cred /\ r.got = s.got
  /\ r.raised = s.raised /\ r.behind = s.behind /\ r.held = s.held

\* Task k becomes r and no other one moves.
RowBecomes(k, r) ==
  /\ task' \in [Tasks -> TaskRow]
  /\ Alike(r, task'[k])
  /\ \A j \in Tasks \ {k} : Alike(task[j], task'[j])

\* Task k writes the credential it carries.
WritesOwn(k) == task[k].at = "write" /\ keystore' = task[k].cred

\* What may become of the keystore, its marker and its latch.
KeystoreMove(k, r) ==
  /\ keystore' \in {keystore, NoCredential} \/ WritesOwn(k)
  /\ WritesOwn(k) => r.at # "write" \/ keystore' = keystore
  /\ app.latch /\ ~app'.latch => keystore' = NoCredential \/ WritesOwn(k)
  /\ flags.marker /\ ~flags'.marker =>
       keystore' = keystore /\ task[k].at \in {"lowerRead", "lowerWrite", "lowerClear"}

\* What may become of the history of the store.
HistoryMove(k, r) ==
  /\ past.issued \subseteq past'.issued
  /\ past'.abandoned \subseteq past.abandoned \cup {task[k].held}
  /\ past'.abandoned \subseteq past.abandoned
       \/ (GivingUp(task[k]) /\ (flags'.marker \/ keystore' = NoCredential))

\* How a row comes to stand at the store.
RowMove(k, r) ==
  /\ GivingUp(r) =>
       \/ GivingUp(task[k]) /\ r.held = task[k].held
       \/ /\ app'.latch /\ keystore' = keystore
          /\ r.held = NoCredential
             \/ (r.held = keystore /\ \A j \in Tasks \ {k} : task[j].at \notin AtTheStore)
  /\ Pending(r) =>
       \/ Pending(task[k]) /\ r.cred = task[k].cred /\ ~WritesOwn(k)
       \/ r.cred \in past'.issued \ past.issued
  /\ r.at \in Trusting =>
       \/ keystore' = NoCredential
       \/ WritesOwn(k)
       \/ keystore' = keystore /\ ~flags.marker /\ ~app.latch
  /\ r.at = "restored" =>
       r.got \notin Credentials \/ (task[k].at = "stored" /\ r.got = keystore)

StoreMove(k, r) == KeystoreMove(k, r) /\ HistoryMove(k, r) /\ RowMove(k, r)

\* What a step may do about the lock.
LockMove(k, r) ==
  /\ past.own \subseteq past'.own /\ (past.let => past'.let)
  /\ keystore' \in {keystore, NoCredential} \cup past'.own
  /\ NeverLetIn'
  /\ ~past'.let /\ Untouched' => app'.screen \notin InnerScreens /\ Outside(r)
  /\ r.at = "lowerWrite" => ~Untouched'
  /\ r.behind = "locked" => /\ ~Untouched'
                            /\ r.at = "restored" => r.got \notin Credentials \ past'.own

\* A step of task k, in a process that runs.
Moves(k) ==
  /\ StateTyped'
  /\ app'.screen # "off"
  /\ \E r \in TaskRow : RowBecomes(k, r) /\ StoreMove(k, r) /\ LockMove(k, r)

-----------------------------------------------------------------------------
(* Rows *)

\* Only the generation changes: a row stays a row, alike to what it was.
LEMMA CurrentOnly ==
  ASSUME NEW r \in TaskRow, NEW b \in BOOLEAN
  PROVE  [r EXCEPT !.current = b] \in TaskRow /\ Alike(r, [r EXCEPT !.current = b])
BY DEF TaskRow, TaskFields, Alike

\* The three ways in which the actions write the table of tasks.
LEMMA RowsOfTasks ==
  ASSUME ClientTypeOK, NEW k \in Tasks, NEW r \in TaskRow,
         \/ task' = Generation(k, r)
         \/ task' = Superseded(k, r)
         \/ Continues(k, r)
  PROVE  RowBecomes(k, r)
<1>1. \A s \in TaskRow : Alike(s, s)
  BY DEF Alike
<1>2. \A j \in Tasks : task[j] \in TaskRow
  BY DEF ClientTypeOK
<1>3. CASE task' = Generation(k, r)
  BY <1>2, <1>3, CurrentOnly DEF Generation, RowBecomes
<1>4. CASE task' = Superseded(k, r)
  BY <1>2, <1>4, CurrentOnly DEF Superseded, RowBecomes
<1>5. CASE Continues(k, r)
  BY <1>1, <1>2, <1>5 DEF Continues, RowBecomes, ClientTypeOK
<1> QED
  BY <1>3, <1>4, <1>5

\* The row and the process that everything begins with.
LEMMA Blank == IdleTask \in TaskRow /\ NoProcess \in AppRow
BY DEF IdleTask, NoProcess, NoCredential, TaskRow, TaskFields, OfRestore, AppRow, Held

-----------------------------------------------------------------------------
(* Such moves preserve the invariant *)

\* Such a move adds to what counts as given up only what k now holds.
LEMMA GivenUpGrows ==
  ASSUME IInv, NEW k \in Tasks, NEW r \in TaskRow, RowBecomes(k, r), StoreMove(k, r), NEW c,
         GivenUp(c)'
  PROVE  GivenUp(c) \/ (c \in Credentials /\ GivingUp(r) /\ r.held = c)
<1>1. c \in Credentials
  BY DEF GivenUp
<1>2. CASE c \in past'.abandoned
  BY <1>1, <1>2 DEF GivenUp, StoreMove, HistoryMove
<1>3. CASE \E j \in Tasks : GivingUp(task'[j]) /\ task'[j].held = c
  <2>1. PICK j \in Tasks : GivingUp(task'[j]) /\ task'[j].held = c
    BY <1>3
  <2>2. CASE j = k
    BY <1>1, <2>1, <2>2 DEF RowBecomes, Alike, GivingUp
  <2>3. CASE j # k
    BY <1>1, <2>1, <2>3 DEF RowBecomes, Alike, GivingUp, GivenUp
  <2> QED
    BY <2>2, <2>3
<1> QED
  BY <1>2, <1>3 DEF GivenUp

\* The store half of the invariant survives what a step may do to the store.
LEMMA StoreKept ==
  ASSUME IInv, NEW k \in Tasks, NEW r \in TaskRow, RowBecomes(k, r), StoreMove(k, r), StateTyped'
  PROVE  StoreInv'
<1> DEFINE row(j) == IF j = k THEN r ELSE task[j]
           Becomes(c) == /\ c \in Credentials
                         /\ \/ c \in past'.abandoned
                            \/ \E j \in Tasks : GivingUp(task'[j]) /\ task'[j].held = c
<1>1. /\ AllIssued /\ PendingFresh /\ TrustIsDue /\ GivenUpIsBarred /\ InHandStands
      /\ KeystoreMove(k, r) /\ HistoryMove(k, r) /\ RowMove(k, r)
  BY DEF IInv, StoreInv, StoreMove
<1>2. \A j \in Tasks :
        /\ task'[j].at = row(j).at /\ task'[j].op = row(j).op /\ task'[j].cred = row(j).cred
        /\ task'[j].got = row(j).got /\ task'[j].held = row(j).held
        /\ Pending(task'[j]) <=> Pending(row(j))
        /\ GivingUp(task'[j]) <=> GivingUp(row(j))
  BY DEF RowBecomes, Alike, Pending, GivingUp
<1>3. NoCredential \notin Credentials
  BY ClientAssumption DEF NoCredential
<1>4. /\ GivenUp(keystore)' <=> Becomes(keystore')
      /\ \A j \in Tasks : /\ GivenUp(task[j].cred)' <=> Becomes(task'[j].cred)
                          /\ GivenUp(task[j].got)' <=> Becomes(task'[j].got)
  BY DEF GivenUp
<1>5. \A c : Becomes(c) => c \in Credentials /\ (GivenUp(c) \/ (GivingUp(r) /\ r.held = c))
  <2> SUFFICES ASSUME NEW c, Becomes(c)
               PROVE  c \in Credentials /\ (GivenUp(c) \/ (GivingUp(r) /\ r.held = c))
    OBVIOUS
  <2>1. GivenUp(c)'
    BY DEF GivenUp
  <2> QED
    BY <2>1, GivenUpGrows
<1>6. /\ \A c : c \in past'.abandoned /\ c \in Credentials => Becomes(c)
      /\ \A c : GivenUp(c) => c \in past.issued
  BY <1>1, <1>3 DEF GivenUp, AllIssued
<1>7. row(k) = r /\ \A j \in Tasks \ {k} : row(j) = task[j]
  OBVIOUS
<1> HIDE DEF row, Becomes
<1>8. WritesOwn(k) => /\ Pending(task[k]) /\ ~GivingUp(task[k]) /\ ~GivingUp(r)
                      /\ task[k].cred # keystore
  BY <1>1 DEF WritesOwn, Pending, GivingUp, PendingFresh, RowMove
<1>9. AllIssued'
  <2>1. keystore' \in past'.issued \cup {NoCredential}
    BY <1>1, <1>8 DEF KeystoreMove, HistoryMove, AllIssued, WritesOwn
  <2>2. past'.abandoned \subseteq past'.issued
    BY <1>1, <1>3 DEF HistoryMove, AllIssued, StateTyped, PastRow
  <2>3. ASSUME NEW j \in Tasks, GivingUp(row(j))
        PROVE  row(j).held \in past'.issued \cup {NoCredential}
    BY <1>1, <1>7, <2>3 DEF RowMove, HistoryMove, AllIssued
  <2>4. ASSUME NEW j \in Tasks, Pending(row(j))
        PROVE  row(j).cred \in past'.issued
    BY <1>1, <1>7, <2>4 DEF RowMove, HistoryMove, AllIssued
  <2> QED
    BY <1>2, <2>1, <2>2, <2>3, <2>4 DEF AllIssued
<1>10. PendingFresh'
  <2> SUFFICES ASSUME NEW j \in Tasks, Pending(row(j))
               PROVE  /\ row(j).cred # keystore'
                      /\ ~Becomes(row(j).cred)
                      /\ \A i \in Tasks \ {j} : Pending(row(i)) => row(i).cred # row(j).cred
    BY <1>2, <1>4 DEF PendingFresh
  <2>1. CASE row(j).cred \in past'.issued \ past.issued
    <3>1. j = k
      BY <1>1, <1>7, <2>1 DEF AllIssued
    <3>2. row(j).cred # keystore' /\ row(j).cred # keystore
      BY <1>1, <1>3, <1>8, <2>1, <3>1, <1>7 DEF KeystoreMove, AllIssued, StateTyped, PastRow, WritesOwn
    <3>3. ~GivenUp(row(j).cred)
      BY <1>6, <2>1
    <3>4. ~(GivingUp(r) /\ r.held = row(j).cred)
      BY <1>1, <1>3, <2>1, <3>2 DEF RowMove, AllIssued, StateTyped, PastRow
    <3> QED
      BY <1>1, <1>5, <1>7, <2>1, <3>1, <3>2, <3>3, <3>4 DEF AllIssued
  <2>2. CASE row(j).cred \notin past'.issued \ past.issued
    <3>1. Pending(task[j]) /\ row(j).cred = task[j].cred /\ (j = k => ~WritesOwn(k))
      BY <1>1, <1>7, <2>2 DEF RowMove
    <3>2. row(j).cred # keystore /\ ~GivenUp(row(j).cred) /\ row(j).cred \in past.issued
      BY <1>1, <3>1 DEF PendingFresh, AllIssued
    <3>3. row(j).cred # keystore'
      <4>1. CASE WritesOwn(k)
        BY <1>1, <1>8, <3>1, <4>1 DEF PendingFresh, WritesOwn
      <4>2. CASE ~WritesOwn(k)
        BY <1>1, <1>3, <3>1, <3>2, <4>2 DEF KeystoreMove, IInv, ClientTypeOK, StateTyped, PastRow
      <4> QED
        BY <4>1, <4>2
    <3>4. ~(GivingUp(r) /\ r.held = row(j).cred /\ row(j).cred \in Credentials)
      BY <1>1, <1>3, <3>1, <3>2 DEF RowMove, GivenUp
    <3>5. ASSUME NEW i \in Tasks \ {j}, Pending(row(i)) PROVE row(i).cred # row(j).cred
      BY <1>1, <1>7, <3>1, <3>2, <3>5 DEF RowMove, PendingFresh
    <3> QED
      BY <1>5, <3>2, <3>3, <3>4, <3>5
  <2> QED
    BY <2>1, <2>2
<1>11. TrustIsDue'
  <2> SUFFICES ASSUME NEW j \in Tasks, row(j).at \in Trusting, Becomes(keystore')
               PROVE  FALSE
    BY <1>2, <1>4 DEF TrustIsDue
  <2>1. keystore' \in Credentials
    BY <1>5
  <2>2. CASE WritesOwn(k)
    BY <1>1, <1>5, <1>8, <2>2 DEF WritesOwn, PendingFresh
  <2>3. CASE keystore' = keystore /\ j = k /\ ~WritesOwn(k)
    BY <1>1, <1>3, <1>5, <1>7, <2>1, <2>3 DEF RowMove, GivenUpIsBarred, Trusting, GivingUp
  <2>4. CASE keystore' = keystore /\ j # k
    <3>1. ~GivenUp(keystore) /\ task[j].at \in Trusting
      BY <1>1, <1>7, <2>4 DEF TrustIsDue
    <3>2. GivingUp(r) /\ r.held = keystore
      BY <1>5, <2>4, <3>1
    <3>3. ~(GivingUp(task[k]) /\ task[k].held = keystore)
      BY <2>1, <2>4, <3>1 DEF GivenUp
    <3>4. j \in Tasks \ {k} /\ task[j].at \in AtTheStore
      BY <2>4, <3>1 DEF Trusting, AtTheStore
    <3> QED
      BY <1>1, <1>3, <2>1, <2>4, <3>2, <3>3, <3>4 DEF RowMove
  <2> QED
    BY <1>1, <1>3, <2>1, <2>2, <2>3, <2>4 DEF KeystoreMove
<1>12. GivenUpIsBarred'
  <2>1. keystore' \in past'.abandoned => flags'.marker
    <3> SUFFICES ASSUME keystore' \in past'.abandoned PROVE flags'.marker
      OBVIOUS
    <3>1. keystore' \in Credentials
      BY DEF StateTyped, PastRow
    <3>2. CASE keystore' \notin past.abandoned
      BY <1>1, <1>3, <3>1, <3>2 DEF HistoryMove
    <3>3. CASE keystore' \in past.abandoned /\ WritesOwn(k)
      BY <1>1, <1>8, <3>1, <3>3 DEF WritesOwn, PendingFresh, GivenUp
    <3>4. CASE keystore' \in past.abandoned /\ keystore' = keystore
      BY <1>1, <3>1, <3>4 DEF KeystoreMove, GivenUpIsBarred, TrustIsDue, Trusting, GivenUp
    <3> QED
      BY <1>1, <1>3, <3>1, <3>2, <3>3, <3>4 DEF KeystoreMove
  <2>2. Becomes(keystore') => flags'.marker \/ app'.latch
    <3> SUFFICES ASSUME Becomes(keystore') PROVE flags'.marker \/ app'.latch
      OBVIOUS
    <3>1. keystore' \in Credentials
      BY <1>5
    <3>2. CASE WritesOwn(k)
      BY <1>1, <1>5, <1>8, <3>2 DEF WritesOwn, PendingFresh
    <3>3. CASE keystore' = keystore /\ GivenUp(keystore) /\ ~WritesOwn(k)
      BY <1>1, <1>3, <3>1, <3>3 DEF KeystoreMove, GivenUpIsBarred, TrustIsDue, Trusting
    <3>4. CASE keystore' = keystore /\ ~GivenUp(keystore)
      <4>1. GivingUp(r) /\ r.held = keystore
        BY <1>5, <3>4
      <4>2. ~(GivingUp(task[k]) /\ task[k].held = keystore)
        BY <3>1, <3>4 DEF GivenUp
      <4> QED
        BY <1>1, <4>1, <4>2 DEF RowMove
    <3> QED
      BY <1>1, <1>3, <3>1, <3>2, <3>3, <3>4 DEF KeystoreMove
  <2> QED
    BY <1>4, <2>1, <2>2 DEF GivenUpIsBarred
<1>13. InHandStands'
  <2> SUFFICES ASSUME NEW j \in Tasks, row(j).at = "restored", Becomes(row(j).got)
               PROVE  FALSE
    BY <1>2, <1>4 DEF InHandStands
  <2>1. row(j).got \in Credentials
    BY <1>5
  <2>2. CASE j = k
    <3>1. ~GivingUp(r) /\ task[k].at = "stored" /\ r.got = keystore
      BY <1>1, <1>7, <2>1, <2>2 DEF RowMove, GivingUp
    <3> QED
      BY <1>1, <1>5, <1>7, <2>2, <3>1 DEF TrustIsDue, Trusting
  <2>3. CASE j # k
    <3>1. ~GivenUp(row(j).got) /\ task[j].at = "restored" /\ row(j) = task[j]
      BY <1>1, <1>7, <2>3 DEF InHandStands
    <3>2. GivingUp(r) /\ r.held = row(j).got
      BY <1>5, <3>1
    <3>3. ~(GivingUp(task[k]) /\ task[k].held = row(j).got)
      BY <2>1, <3>1 DEF GivenUp
    <3> QED
      BY <1>1, <1>3, <2>1, <2>3, <3>1, <3>2, <3>3 DEF RowMove, AtTheStore
  <2> QED
    BY <2>2, <2>3
<1> QED
  BY <1>9, <1>10, <1>11, <1>12, <1>13 DEF StoreInv

\* So does the lock half.
LEMMA LockKept ==
  ASSUME IInv, NEW k \in Tasks, NEW r \in TaskRow, RowBecomes(k, r), LockMove(k, r)
  PROVE  LockInv'
<1> DEFINE row(j) == IF j = k THEN r ELSE task[j]
<1>1. /\ NeverLetIn /\ ShutOut /\ WrittenIsOwn /\ \A j \in Tasks : SeesOwn(task[j])
      /\ LockMove(k, r)
  BY DEF IInv, LockInv
<1>2. \A j \in Tasks :
        /\ task'[j].at = row(j).at /\ task'[j].op = row(j).op
        /\ task'[j].got = row(j).got /\ task'[j].behind = row(j).behind
        /\ Outside(task'[j]) <=> Outside(row(j))
  BY DEF RowBecomes, Alike, Outside
<1>3. row(k) = r /\ \A j \in Tasks \ {k} : row(j) = task[j]
  OBVIOUS
<1> HIDE DEF row
<1>4. Untouched' => Untouched
  BY <1>1, ClientAssumption DEF LockMove, Untouched, NoCredential
<1>5. NeverLetIn'
  BY <1>1 DEF LockMove
<1>6. ShutOut'
  <2> SUFFICES ASSUME ~past'.let, Untouched'
               PROVE  app'.screen \notin InnerScreens /\ \A j \in Tasks : Outside(row(j))
    BY <1>2 DEF ShutOut, InnerScreens
  <2>1. app'.screen \notin InnerScreens /\ Outside(r)
    BY <1>1 DEF LockMove
  <2>2. \A j \in Tasks : Outside(task[j])
    BY <1>1, <1>4 DEF LockMove, ShutOut
  <2> QED
    BY <1>3, <2>1, <2>2
<1>7. WrittenIsOwn'
  <2>1. \A j \in Tasks : row(j).at = "lowerWrite" => ~Untouched'
    BY <1>1, <1>3, <1>4 DEF LockMove, WrittenIsOwn
  <2> QED
    BY <1>2, <2>1 DEF WrittenIsOwn
<1>8. ASSUME NEW j \in Tasks PROVE SeesOwn(task[j])'
  <2>1. row(j).behind = "locked" =>
          /\ ~Untouched'
          /\ row(j).at = "restored" => row(j).got \notin Credentials \ past'.own
    BY <1>1, <1>3, <1>4 DEF LockMove, SeesOwn
  <2> QED
    BY <1>2, <2>1 DEF SeesOwn
<1> QED
  BY <1>5, <1>6, <1>7, <1>8 DEF LockInv

\* A move of a task preserves the invariant.
LEMMA MovesKeep ==
  ASSUME IInv, NEW k \in Tasks, Moves(k)
  PROVE  IInv'
<1>1. PICK r \in TaskRow : RowBecomes(k, r) /\ StoreMove(k, r) /\ LockMove(k, r)
  BY DEF Moves
<1>2. ClientTypeOK' /\ ColdWhenOff'
  BY <1>1 DEF Moves, ClientTypeOK, RowBecomes, ColdWhenOff
<1> QED
  BY <1>1, <1>2, StoreKept, LockKept DEF IInv, Moves

-----------------------------------------------------------------------------
(* Every action of a task is such a move *)

\* The answers that stand for the absence of a credential.
LEMMA Absent == NoCredential \notin Credentials /\ "failed" \notin Credentials
BY ClientAssumption DEF NoCredential

\* Whoever is not idle, or finds the process free, runs in a process.
LEMMA Running ==
  ASSUME IInv, NEW k \in Tasks, task[k].at # "idle" \/ IsFree(k)
  PROVE  /\ app.screen # "off" /\ task[k] \in TaskRow
         /\ StateTyped
BY DEF IInv, ColdWhenOff, IdleTask, IsFree, ClientTypeOK

\* A move from its parts.
LEMMA MoveOf ==
  ASSUME IInv, NEW k \in Tasks, NEW r \in TaskRow,
         task' = Generation(k, r) \/ task' = Superseded(k, r) \/ Continues(k, r),
         StateTyped', app'.screen # "off", StoreMove(k, r), LockMove(k, r)
  PROVE  Moves(k)
<1>1. RowBecomes(k, r)
  BY RowsOfTasks DEF IInv
<1> QED
  BY <1>1 DEF Moves

\* The store is left as it is, and the row does not come to stand at it.
StoreQuiet(k, r) ==
  /\ keystore' = keystore /\ flags'.marker = flags.marker
  /\ app.latch => app'.latch
  /\ past'.issued = past.issued /\ past'.abandoned = past.abandoned
  /\ ~GivingUp(r) /\ ~Pending(r) /\ r.at \notin Trusting \cup {"restored"}

LEMMA StoreAlone ==
  ASSUME NEW k, NEW r, StoreQuiet(k, r)
  PROVE  StoreMove(k, r)
BY DEF StoreQuiet, StoreMove, KeystoreMove, HistoryMove, RowMove, Pending

\* The lock is left as it is, by a task that stays outside or was inside.
LockQuiet(k, r) ==
  /\ keystore' \in {keystore, NoCredential}
  /\ past'.own = past.own /\ past'.let = past.let
  /\ app'.unlocked => app.unlocked
  /\ app'.choice = app.choice
  /\ Outside(task[k]) => Outside(r) /\ (app'.screen = app.screen \/ app'.screen \notin InnerScreens)
  /\ r.at # "lowerWrite"
  /\ r.behind # "locked" \/ r.behind = task[k].behind
  /\ r.at = "restored" => r.got \notin Credentials \/ r.got = keystore

LEMMA LockAlone ==
  ASSUME IInv, NEW k \in Tasks, NEW r, LockQuiet(k, r)
  PROVE  LockMove(k, r)
<1>1. Untouched' => Untouched
  BY Absent DEF Untouched, LockQuiet
<1> QED
  BY <1>1, Absent
     DEF LockQuiet, LockMove, IInv, LockInv, NeverLetIn, ShutOut, SeesOwn, Untouched

LEMMA ReadMarkerMoves ==
  ASSUME IInv, NEW k \in Tasks, ReadMarker(k)
  PROVE  Moves(k)
<1>1. /\ task[k].at = "marker" /\ task[k] \in TaskRow /\ StateTyped /\ app.screen # "off"
      /\ keystore' = keystore /\ flags' = flags /\ app' = app /\ past' = past
  BY Running DEF ReadMarker, Waits
<1>2. StateTyped'
  BY <1>1 DEF StateTyped
<1>3. CASE InHand(k, "failed")
  <2> DEFINE r == [task[k] EXCEPT !.at = "restored", !.got = "failed"]
  <2>1. /\ r \in TaskRow /\ r.at = "restored" /\ r.got \notin Credentials
        /\ r.behind = task[k].behind
    BY <1>1, Absent DEF TaskRow, TaskFields, OfRestore
  <2>2. Continues(k, r)
    BY <1>3 DEF InHand
  <2> HIDE DEF r
  <2>3. StoreMove(k, r)
    BY <1>1, <2>1 DEF StoreMove, KeystoreMove, HistoryMove, RowMove, GivingUp, Pending, Trusting
  <2>4. LockQuiet(k, r)
    BY <1>1, <2>1 DEF LockQuiet, Outside, OfRestore
  <2> QED
    BY <1>1, <1>2, <2>1, <2>2, <2>3, <2>4, MoveOf, LockAlone
<1>4. ASSUME NEW at \in {"stored", "erase"}, at = "stored" => MayRead,
             Continues(k, [task[k] EXCEPT !.at = at])
      PROVE  Moves(k)
  <2> DEFINE r == [task[k] EXCEPT !.at = at]
  <2>1. r \in TaskRow /\ r.at = at /\ r.behind = task[k].behind
    BY <1>1 DEF TaskRow, TaskFields, OfRestore
  <2>2. StoreMove(k, r)
    BY <1>1, <1>4, <2>1
       DEF StoreMove, KeystoreMove, HistoryMove, RowMove, GivingUp, Pending, Trusting, MayRead
  <2>3. LockQuiet(k, r)
    BY <1>1, <2>1 DEF LockQuiet, Outside, OfRestore
  <2> QED
    BY <1>1, <1>2, <1>4, <2>1, <2>2, <2>3, MoveOf, LockAlone
<1> QED
  BY <1>3, <1>4 DEF ReadMarker

\* Task k ends, or nobody is left with a generation of its own.
LEMMA Ceasing ==
  ASSUME IInv, NEW k \in Tasks,
         Continues(k, IdleTask) \/ task' = Superseded(k, IdleTask),
         StateTyped', app'.screen # "off",
         StoreMove(k, IdleTask),
         keystore' \in {keystore, NoCredential},
         past'.own = past.own, past'.let = past.let,
         app'.unlocked => app.unlocked, app'.choice = app.choice,
         Outside(task[k]) => app'.screen = app.screen \/ app'.screen \notin InnerScreens
  PROVE  Moves(k)
<1>1. /\ IdleTask \in TaskRow /\ IdleTask.at = "idle" /\ IdleTask.op = "none"
      /\ IdleTask.behind = "open"
  BY Blank DEF IdleTask
<1>2. LockQuiet(k, IdleTask)
  BY <1>1 DEF LockQuiet, Outside, OfRestore
<1> QED
  BY <1>1, <1>2, LockAlone, MoveOf

\* An idle row is nothing to the store.
LEMMA IdleAtTheStore ==
  ASSUME NEW k, KeystoreMove(k, IdleTask), HistoryMove(k, IdleTask)
  PROVE  StoreMove(k, IdleTask)
BY DEF IdleTask, StoreMove, RowMove, GivingUp, Pending, Trusting

\* Task k enters SecureTokenStore.clear, after the platform has answered
\* whatever it was waiting for.
LEMMA Ending ==
  ASSUME IInv, NEW k \in Tasks, NEW r \in TaskRow, NEW a \in AppRow,
         app' = Forgets(a),
         Continues(k, Clearing(k, r)) \/ task' = Generation(k, Clearing(k, r)),
         StateTyped', keystore' = keystore,
         flags.marker /\ ~flags'.marker => task[k].at = "lowerWrite",
         a.screen # "off",
         a.screen = app.screen \/ a.screen \notin InnerScreens \/ ~Outside(task[k]),
         a.unlocked => app.unlocked, a.choice = app.choice,
         past.issued \subseteq past'.issued, past'.abandoned = past.abandoned,
         past'.own = past.own, past'.let = past.let,
         r.op = "switch" => r.cred \in past'.issued \ past.issued,
         r.behind = "open" \/ r.behind = task[k].behind,
         Outside(task[k]) => r.op \notin {"switch", "verify"}
  PROVE  Moves(k)
<1> DEFINE s == Clearing(k, r)
<1>1. keystore \in Held /\ NoCredential \in Held
  BY DEF IInv, ClientTypeOK, StateTyped, Held
<1>2. /\ s \in TaskRow /\ s.at = "raise" /\ s.op = r.op /\ s.cred = r.cred
      /\ s.behind = r.behind
      /\ s.held = NoCredential
         \/ (s.held = keystore /\ \A j \in Tasks \ {k} : task[j].at \notin AtTheStore)
  <2> DEFINE h == IF \E j \in Tasks \ {k} : task[j].at \in AtTheStore THEN NoCredential ELSE keystore
  <2>1. /\ h \in Held
        /\ h = NoCredential \/ (h = keystore /\ \A j \in Tasks \ {k} : task[j].at \notin AtTheStore)
    BY <1>1
  <2>2. s = [r EXCEPT !.at = "raise", !.held = h]
    BY DEF Clearing
  <2> HIDE DEF h, s
  <2> QED
    BY <2>1, <2>2 DEF TaskRow, TaskFields, OfRestore
<1>3. /\ app'.latch /\ app'.screen = a.screen /\ app'.unlocked = a.unlocked
      /\ app'.choice = a.choice
  BY DEF Forgets, AppRow
<1> HIDE DEF s
<1>4. StoreMove(k, s)
  BY <1>2, <1>3 DEF StoreMove, KeystoreMove, HistoryMove, RowMove, GivingUp, Pending, Trusting
<1>5. LockQuiet(k, s)
  BY <1>2, <1>3 DEF LockQuiet, Outside, OfRestore
<1>6. Continues(k, s) \/ task' = Generation(k, s)
  BY DEF s
<1> QED
  BY <1>2, <1>3, <1>4, <1>5, <1>6, LockAlone, MoveOf

\* Task k goes on to _restoreAndBootstrap.
LEMMA Restoration ==
  ASSUME IInv, NEW k \in Tasks, NEW r \in TaskRow, NEW a \in AppRow,
         Restores(k, r, a), StateTyped', keystore' = keystore,
         flags.marker /\ ~flags'.marker => task[k].at = "lowerWrite",
         app.latch => a.latch,
         past'.issued = past.issued, past'.abandoned = past.abandoned,
         past'.own = past.own, past.let => past'.let,
         past'.let \/ (~a.unlocked /\ a.choice # "off"),
         past'.let \/ ~Untouched,
         ~flags.lock \/ a.unlocked \/ past.let \/ ~Untouched
  PROVE  Moves(k)
<1> DEFINE s == Restoring(k, r, a)
<1>1. /\ s \in TaskRow /\ s.at = "marker" /\ s.op = "start"
      /\ s.behind = "locked" => flags.lock /\ ~a.unlocked /\ ~past.let
  <2>1. PICK behind : behind = Behind(a)
    OBVIOUS
  <2>2. /\ behind \in {"open", "relocked", "locked"}
        /\ behind = "locked" => flags.lock /\ ~a.unlocked /\ ~past.let
    BY <2>1 DEF Behind
  <2>3. PICK row : row = [r EXCEPT !.op = "start", !.at = "marker", !.cred = NoCredential,
                                   !.behind = behind]
    OBVIOUS
  <2>4. s = row
    BY <2>1, <2>3 DEF Restoring
  <2>5. row \in TaskRow /\ row.at = "marker" /\ row.op = "start" /\ row.behind = behind
    BY <2>2, <2>3 DEF TaskRow, TaskFields, OfRestore, Held
  <2> HIDE DEF s
  <2> QED
    BY <2>2, <2>4, <2>5
<1>2. /\ app'.screen = "restoring" /\ app'.latch = a.latch
      /\ app'.unlocked = a.unlocked /\ app'.choice = a.choice
  BY DEF Restores, AppRow
<1>3. task' = Generation(k, s)
  BY DEF Restores
<1> HIDE DEF s
<1>4. StoreMove(k, s)
  BY <1>1, <1>2 DEF StoreMove, KeystoreMove, HistoryMove, RowMove, GivingUp, Pending, Trusting
<1>5. LockMove(k, s)
  BY <1>1, <1>2 DEF LockMove, NeverLetIn, Untouched
<1> QED
  BY <1>1, <1>2, <1>3, <1>4, <1>5, MoveOf

\* Task k begins a start(), which shows nothing before the lock is asked.
LEMMA Beginning ==
  ASSUME IInv, NEW k \in Tasks, NEW a \in AppRow,
         Starts(k, a), StateTyped',
         app.latch => a.latch,
         past'.issued = past.issued, past'.abandoned = past.abandoned,
         past'.own = past.own, past.let => past'.let,
         past'.let \/ (~a.unlocked /\ a.choice # "off")
  PROVE  Moves(k)
<1> DEFINE s == [IdleTask EXCEPT !.op = "start", !.at = "load"]
<1>1. s \in TaskRow /\ s.at = "load" /\ s.op = "start" /\ s.behind = "open"
  BY Blank DEF IdleTask, TaskRow, TaskFields, OfRestore
<1>2. /\ app'.screen = "loading" /\ app'.latch = a.latch
      /\ app'.unlocked = a.unlocked /\ app'.choice = a.choice
  BY DEF Starts, AppRow
<1>3. task' = Generation(k, s) /\ keystore' = keystore /\ flags' = flags
  BY DEF Starts
<1> HIDE DEF s
<1>4. StoreMove(k, s)
  BY <1>1, <1>2, <1>3
     DEF StoreMove, KeystoreMove, HistoryMove, RowMove, GivingUp, Pending, Trusting
<1>5. LockMove(k, s)
  BY <1>1, <1>2, <1>3
     DEF LockMove, NeverLetIn, InnerScreens, Outside, OfRestore
<1> QED
  BY <1>1, <1>2, <1>3, <1>4, <1>5, MoveOf

\* The memory of the process with one field written.
LEMMA AppFields ==
  ASSUME app \in AppRow, NEW b \in BOOLEAN, NEW m \in Held
  PROVE  /\ NoProcess \in AppRow
         /\ [app EXCEPT !.latch = b] \in AppRow
         /\ [app EXCEPT !.terminated = b] \in AppRow
         /\ [app EXCEPT !.unlocked = b] \in AppRow
         /\ [app EXCEPT !.memory = m] \in AppRow
         /\ [app EXCEPT !.inFlight = "none"] \in AppRow
         /\ Forgets(app) \in AppRow
BY Blank DEF AppRow, Forgets, Held

LEMMA OneMoreCallTyped ==
  ASSUME past \in PastRow
  PROVE  /\ OneMoreCall \in PastRow
         /\ OneMoreCall.issued = past.issued /\ OneMoreCall.own = past.own
         /\ OneMoreCall.abandoned = past.abandoned /\ OneMoreCall.let = past.let
BY DEF PastRow, OneMoreCall

LEMMA BeginningsMove ==
  ASSUME IInv, NEW k \in Tasks, Launch(k) \/ Restart(k) \/ ComesBack(k)
  PROVE  Moves(k)
<1>1. StateTyped /\ NeverLetIn
  BY DEF IInv, ClientTypeOK, LockInv
<1>2. CASE Launch(k)
  <2>1. /\ NoProcess \in AppRow /\ ~NoProcess.unlocked /\ NoProcess.choice # "off"
        /\ app.latch = NoProcess.latch
    BY <1>2, Blank DEF Launch, IInv, ColdWhenOff, NoProcess
  <2>2. StateTyped'
    BY <1>1, <1>2, <2>1 DEF Launch, Starts, StateTyped, AppRow
  <2> QED
    BY <1>2, <2>1, <2>2, Beginning DEF Launch
<1>3. CASE Restart(k)
  <2>1. StateTyped'
    BY <1>1, <1>3, OneMoreCallTyped DEF Restart, Starts, StateTyped, AppRow
  <2>2. app \in AppRow /\ Starts(k, app) /\ past' = OneMoreCall /\ past \in PastRow
    BY <1>1, <1>3 DEF Restart, StateTyped
  <2> QED
    BY <1>1, <2>1, <2>2, Beginning, OneMoreCallTyped DEF NeverLetIn
<1>4. CASE ComesBack(k)
  <2> DEFINE a == [app EXCEPT !.unlocked = FALSE]
  <2>1. a \in AppRow /\ ~a.unlocked /\ a.choice # "off" /\ a.latch = app.latch
    BY <1>1, <1>4 DEF ComesBack, StateTyped, AppRow
  <2>2. Starts(k, a) /\ past' = OneMoreCall /\ past \in PastRow
    BY <1>1, <1>4 DEF ComesBack, StateTyped
  <2> HIDE DEF a
  <2>3. StateTyped'
    BY <1>1, <2>1, <2>2, OneMoreCallTyped DEF Starts, StateTyped, AppRow
  <2> QED
    BY <2>1, <2>2, <2>3, Beginning, OneMoreCallTyped
<1> QED
  BY <1>2, <1>3, <1>4

LEMMA LoadLockMoves ==
  ASSUME IInv, NEW k \in Tasks, LoadLock(k)
  PROVE  Moves(k)
<1>1. /\ task[k].at = "load" /\ task[k] \in TaskRow /\ StateTyped /\ app.screen # "off"
      /\ keystore' = keystore /\ flags' = flags
      /\ past' = [past EXCEPT !.let = @ \/ ~flags.lock]
  BY Running DEF LoadLock, Waits
<1>2. /\ past' \in PastRow /\ past'.issued = past.issued /\ past'.own = past.own
      /\ past'.abandoned = past.abandoned /\ past'.let = (past.let \/ ~flags.lock)
  BY <1>1 DEF StateTyped, PastRow
<1>3. NeverLetIn
  BY DEF IInv, LockInv
<1>4. PICK answer \in {IF flags.lock THEN "on" ELSE "off", "failed"} :
        LET a == [app EXCEPT !.choice = ChoiceOf(answer)]
            stops(screen) == app' = [a EXCEPT !.screen = screen] /\ Returns(k)
        IN IF ~task[k].current THEN app' = a /\ Returns(k)
           ELSE IF a.choice = "unavailable" THEN stops("securityUnavailable")
           ELSE IF IsLocked(a) THEN stops("locked")
           ELSE Restores(k, task[k], a)
  BY DEF LoadLock
<1> DEFINE a == [app EXCEPT !.choice = ChoiceOf(answer)]
<1>5. /\ a \in AppRow /\ a.choice \in {"on", "off", "unavailable"}
      /\ a.choice = "off" => ~flags.lock
      /\ a.unlocked = app.unlocked /\ a.latch = app.latch /\ a.screen = app.screen
  BY <1>1, <1>4 DEF StateTyped, AppRow, ChoiceOf
<1>6. CASE /\ Returns(k)
           /\ app' = a \/ \E screen \in {"securityUnavailable", "locked"} : app' = [a EXCEPT !.screen = screen]
  <2>1. /\ app' \in AppRow /\ app'.latch = app.latch /\ app'.unlocked = app.unlocked
        /\ app'.choice = a.choice
        /\ app'.screen = app.screen \/ app'.screen \notin InnerScreens
        /\ app'.screen # "off"
    BY <1>1, <1>5, <1>6 DEF AppRow, InnerScreens
  <2>2. StateTyped'
    BY <1>1, <1>2, <2>1 DEF StateTyped
  <2>3. StoreMove(k, IdleTask)
    BY <1>1, <1>2, <2>1, IdleAtTheStore DEF KeystoreMove, HistoryMove, IdleTask
  <2>4. LockMove(k, IdleTask)
    BY <1>1, <1>2, <1>3, <1>5, <2>1
       DEF LockMove, IdleTask, NeverLetIn, IInv, LockInv, ShutOut, Untouched, Outside, OfRestore
  <2> QED
    BY <1>6, <2>1, <2>2, <2>3, <2>4, Blank, MoveOf DEF Returns
<1>7. CASE Restores(k, task[k], a) /\ ~IsLocked(a)
  <2>1. a.unlocked \/ ~flags.lock
    BY <1>5, <1>7 DEF IsLocked
  <2>2. StateTyped'
    BY <1>1, <1>2, <1>5, <1>7 DEF StateTyped, Restores, AppRow
  <2>3. past'.let
    BY <1>2, <1>3, <1>5, <2>1 DEF NeverLetIn
  <2> HIDE DEF a
  <2> QED
    BY <1>1, <1>2, <1>5, <1>7, <2>1, <2>2, <2>3, Restoration
<1> QED
  BY <1>4, <1>6, <1>7

LEMMA UnlockMoves ==
  ASSUME IInv, NEW k \in Tasks, Unlock(k)
  PROVE  Moves(k)
<1> DEFINE a == [app EXCEPT !.unlocked = TRUE]
<1>1. StateTyped /\ app.screen # "off"
  BY Running DEF Unlock
<1>2. a \in AppRow /\ a.unlocked /\ a.latch = app.latch
  BY <1>1 DEF StateTyped, AppRow
<1>3. /\ past' \in PastRow /\ past'.issued = past.issued /\ past'.own = past.own
      /\ past'.abandoned = past.abandoned /\ past'.let
  BY <1>1, OneMoreCallTyped DEF Unlock, StateTyped, PastRow
<1>4. \/ Starts(k, a)
      \/ Restores(k, IdleTask, a) /\ keystore' = keystore /\ flags' = flags
  BY DEF Unlock
<1> HIDE DEF a
<1>5. StateTyped'
  BY <1>1, <1>2, <1>3, <1>4 DEF Starts, Restores, StateTyped, AppRow
<1> QED
  BY <1>1, <1>2, <1>3, <1>4, <1>5, Blank, Beginning, Restoration

LEMMA RestoresMove ==
  ASSUME IInv, NEW k \in Tasks, RetryBootstrap(k) \/ Verified(k)
  PROVE  Moves(k)
<1>1. /\ StateTyped /\ app.screen # "off"
      /\ Restores(k, IdleTask, app) /\ keystore' = keystore /\ flags' = flags
      /\ past' \in {past, OneMoreCall}
  BY Running DEF RetryBootstrap, Verified, Waits
<1>2. /\ past' \in PastRow /\ past'.issued = past.issued /\ past'.own = past.own
      /\ past'.abandoned = past.abandoned /\ past'.let = past.let
  BY <1>1, OneMoreCallTyped DEF StateTyped
<1>3. StateTyped' /\ app \in AppRow
  BY <1>1, <1>2 DEF Restores, StateTyped, AppRow
<1>4. past.let \/ ~Untouched
  BY DEF RetryBootstrap, Verified, IInv, LockInv, ShutOut, InnerScreens, Outside
<1>5. past.let \/ (~app.unlocked /\ app.choice # "off")
  BY DEF IInv, LockInv, NeverLetIn
<1> QED
  BY <1>1, <1>2, <1>3, <1>4, <1>5, Blank, Restoration

\* A request goes out: the task is outside, the store and the lock stay.
LEMMA Requesting ==
  ASSUME IInv, NEW k \in Tasks, IsFree(k),
         NEW op \in {"signIn", "reset", "signOut", "switch", "verify", "refresh"},
         AskServer(k, op), app' \in AppRow,
         app'.latch = app.latch, app'.unlocked = app.unlocked, app'.choice = app.choice,
         app'.screen = app.screen,
         keystore' = keystore, flags' = flags, past' = OneMoreCall,
         op \in {"switch", "verify"} => app.screen = "inside"
  PROVE  Moves(k)
<1> DEFINE r == [IdleTask EXCEPT !.op = op, !.at = "asked"]
<1>1. StateTyped /\ app.screen # "off"
  BY Running
<1>2. /\ past' \in PastRow /\ past'.issued = past.issued /\ past'.own = past.own
      /\ past'.abandoned = past.abandoned /\ past'.let = past.let
  BY <1>1, OneMoreCallTyped DEF StateTyped
<1>3. r \in TaskRow /\ r.at = "asked" /\ r.op = op /\ r.behind = "open"
  BY Blank DEF IdleTask, TaskRow, TaskFields, OfRestore
<1>4. Continues(k, r)
  BY DEF AskServer
<1> HIDE DEF r
<1>5. StateTyped'
  BY <1>1, <1>2 DEF StateTyped
<1>6. StoreMove(k, r)
  BY <1>2, <1>3, StoreAlone DEF StoreQuiet, GivingUp, Pending, Trusting
<1>7. op \in {"switch", "verify"} => past.let \/ ~Untouched
  BY DEF IInv, LockInv, ShutOut, InnerScreens
<1>8. LockMove(k, r)
  BY <1>2, <1>3, <1>7
     DEF LockMove, IInv, LockInv, NeverLetIn, ShutOut, Outside, OfRestore, Untouched
<1> QED
  BY <1>1, <1>3, <1>4, <1>5, <1>6, <1>8, MoveOf

LEMMA AsksMoves ==
  ASSUME IInv, NEW k \in Tasks, Asks(k) \/ Refresh(k)
  PROVE  Moves(k)
<1>1. StateTyped /\ IsFree(k)
  BY DEF Asks, Refresh, IInv, ClientTypeOK
<1>2. CASE Asks(k)
  <2>1. PICK op \in {"signIn", "reset", "signOut", "switch", "verify"} :
          AskServer(k, op) /\ (op \in {"switch", "verify"} => app.screen = "inside")
    BY <1>2 DEF Asks
  <2> QED
    BY <1>1, <1>2, <2>1, Requesting DEF Asks, StateTyped
<1>3. CASE Refresh(k)
  <2>1. app' = [app EXCEPT !.inFlight = "one"] /\ app \in AppRow
    BY <1>1, <1>3 DEF Refresh, StateTyped
  <2>2. /\ app' \in AppRow /\ app'.latch = app.latch /\ app'.unlocked = app.unlocked
        /\ app'.choice = app.choice /\ app'.screen = app.screen
    BY <2>1 DEF AppRow
  <2> QED
    BY <1>1, <1>3, <2>2, Requesting DEF Refresh
<1> QED
  BY <1>2, <1>3

\* What a call into the store or to its end leaves typed.
LEMMA ForgetsTyped ==
  ASSUME StateTyped, NEW a \in AppRow, app' = Forgets(a), keystore' \in Held,
         flags' \in [marker : BOOLEAN, lock : BOOLEAN], past' \in PastRow
  PROVE  StateTyped'
BY DEF StateTyped, Forgets, AppRow, Held, NoCredential

LEMMA AbandonMoves ==
  ASSUME IInv, NEW k \in Tasks, Abandon(k) \/ AgedOut(k) \/ WipeBegins(k)
  PROVE  Moves(k)
<1>1. StateTyped /\ app.screen # "off" /\ task[k] \in TaskRow /\ app \in AppRow
  BY Running DEF Abandon, AgedOut, WipeBegins, Waits, StateTyped
<1>2. keystore' = keystore /\ flags' = flags /\ past' \in {past, OneMoreCall}
  BY DEF Abandon, AgedOut, WipeBegins
<1>3. /\ past' \in PastRow /\ past'.issued = past.issued /\ past'.own = past.own
      /\ past'.abandoned = past.abandoned /\ past'.let = past.let
  BY <1>1, <1>2, OneMoreCallTyped DEF StateTyped
<1>4. PICK a \in AppRow, r \in TaskRow :
        /\ app' = Forgets(a)
        /\ Continues(k, Clearing(k, r)) \/ task' = Generation(k, Clearing(k, r))
        /\ a.screen = app.screen /\ a.unlocked = app.unlocked /\ a.choice = app.choice
        /\ r.op \notin {"switch", "verify"}
        /\ r.behind = "open" \/ r.behind = task[k].behind
  <2>1. CASE Abandon(k)
    <3> DEFINE r == [IdleTask EXCEPT !.op = "abandon"]
    <3>1. r \in TaskRow /\ r.op = "abandon" /\ r.behind = "open"
      BY Blank DEF IdleTask, TaskRow, TaskFields, OfRestore
    <3> QED
      BY <1>1, <2>1, <3>1 DEF Abandon
  <2>2. CASE AgedOut(k)
    <3> DEFINE r == [IdleTask EXCEPT !.op = "ending"]
               a == [app EXCEPT !.terminated = TRUE]
    <3>1. r \in TaskRow /\ r.op = "ending" /\ r.behind = "open"
      BY Blank DEF IdleTask, TaskRow, TaskFields, OfRestore
    <3>2. /\ a \in AppRow /\ a.screen = app.screen /\ a.unlocked = app.unlocked
          /\ a.choice = app.choice
      BY <1>1 DEF AppRow
    <3>3. app' = Forgets(a) /\ Continues(k, Clearing(k, r))
      BY <2>2 DEF AgedOut, Ends
    <3> QED
      BY <3>1, <3>2, <3>3
  <2>3. CASE WipeBegins(k)
    BY <1>1, <2>3 DEF WipeBegins
  <2> QED
    BY <2>1, <2>2, <2>3
<1>5. StateTyped'
  BY <1>1, <1>2, <1>3, <1>4, ForgetsTyped DEF StateTyped
<1> QED
  BY <1>1, <1>2, <1>3, <1>4, <1>5, Ending

LEMMA IssuedMoves ==
  ASSUME IInv, NEW k \in Tasks, Issued(k)
  PROVE  Moves(k)
<1>1. /\ task[k].at = "asked" /\ StateTyped /\ app.screen # "off" /\ task[k] \in TaskRow
      /\ app \in AppRow /\ keystore' = keystore /\ flags' = flags
      /\ task[k].op \in {"signIn", "refresh", "switch"}
      /\ past' = [past EXCEPT !.issued = @ \cup {NextIssued}]
  BY Running DEF Issued, Waits, StateTyped
<1>2. NextIssued \in Credentials \ past.issued
  BY DEF Issued, NextIssued, Unissued
<1>3. /\ past' \in PastRow /\ past'.issued = past.issued \cup {NextIssued}
      /\ past'.own = past.own /\ past'.abandoned = past.abandoned /\ past'.let = past.let
  BY <1>1, <1>2 DEF StateTyped, PastRow
<1> DEFINE r == Adopting(k, task[k], NextIssued)
<1>4. /\ r \in TaskRow /\ r.at = "write" /\ r.cred = NextIssued /\ r.op = task[k].op
      /\ r.behind = task[k].behind
  BY <1>1, <1>2 DEF Adopting, TaskRow, TaskFields, OfRestore, Held
<1>5. \/ /\ Continues(k, r)
         /\ \E a \in {app, [app EXCEPT !.terminated = FALSE, !.inFlight = "none"]} :
              app' = [a EXCEPT !.memory = NextIssued]
      \/ app' = Forgets(app) /\ Continues(k, Clearing(k, r))
  BY <1>1 DEF Issued, Ends
<1> HIDE DEF r
<1>6. CASE /\ Continues(k, r)
           /\ \E a \in {app, [app EXCEPT !.terminated = FALSE, !.inFlight = "none"]} :
                app' = [a EXCEPT !.memory = NextIssued]
  <2>1. /\ app' \in AppRow /\ app'.screen = app.screen /\ app'.latch = app.latch
        /\ app'.unlocked = app.unlocked /\ app'.choice = app.choice
    <3>1. PICK a \in {app, [app EXCEPT !.terminated = FALSE, !.inFlight = "none"]} :
            app' = [a EXCEPT !.memory = NextIssued]
      BY <1>6
    <3>2. /\ a \in AppRow /\ a.screen = app.screen /\ a.latch = app.latch
          /\ a.unlocked = app.unlocked /\ a.choice = app.choice
      BY <1>1 DEF AppRow
    <3> QED
      BY <1>2, <3>1, <3>2 DEF AppRow, Held
  <2>2. StateTyped'
    BY <1>1, <1>3, <2>1 DEF StateTyped
  <2>3. StoreMove(k, r)
    BY <1>1, <1>2, <1>3, <1>4, <2>1
       DEF StoreMove, KeystoreMove, HistoryMove, RowMove, GivingUp, Pending, Trusting, WritesOwn
  <2>4. LockQuiet(k, r)
    BY <1>1, <1>3, <1>4, <2>1 DEF LockQuiet, Outside, OfRestore
  <2> QED
    BY <1>1, <1>4, <1>6, <2>1, <2>2, <2>3, <2>4, MoveOf, LockAlone
<1>7. CASE app' = Forgets(app) /\ Continues(k, Clearing(k, r))
  <2>1. StateTyped'
    BY <1>1, <1>3, <1>7, ForgetsTyped DEF StateTyped
  <2>2. Outside(task[k]) => r.op \notin {"switch", "verify"}
    BY <1>4 DEF Outside
  <2> QED
    BY <1>1, <1>2, <1>3, <1>4, <1>7, <2>1, <2>2, Ending
<1> QED
  BY <1>5, <1>6, <1>7

LEMMA NotGrantedMoves ==
  ASSUME IInv, NEW k \in Tasks, Unanswered(k) \/ Refused(k)
  PROVE  Moves(k)
<1>1. /\ task[k].at = "asked" /\ StateTyped /\ app.screen # "off" /\ task[k] \in TaskRow
      /\ app \in AppRow /\ keystore' = keystore /\ flags' = flags /\ past' = past
  BY Running DEF Unanswered, Refused, Waits, StateTyped
<1>2. \/ /\ Returns(k)
         /\ app' \in AppRow /\ app'.screen = app.screen /\ app'.latch = app.latch
         /\ app'.unlocked = app.unlocked /\ app'.choice = app.choice
      \/ \E a \in {app, [app EXCEPT !.terminated = TRUE]},
            r \in {task[k], [task[k] EXCEPT !.op = "ending"]} :
           app' = Forgets(a) /\ Continues(k, Clearing(k, r)) /\ r.op # "switch"
  <2>1. CASE Unanswered(k)
    BY <1>1, <2>1 DEF Unanswered, AppRow
  <2>2. CASE Refused(k) /\ task[k].op = "refresh"
    <3> DEFINE a == [app EXCEPT !.terminated = TRUE]
    <3>1. Ends(k, task[k], a, app' = [a EXCEPT !.inFlight = "none"] /\ Returns(k))
      BY <2>2 DEF Refused
    <3>2. /\ a \in AppRow /\ a.screen = app.screen /\ a.latch = app.latch
          /\ a.unlocked = app.unlocked /\ a.choice = app.choice
      BY <1>1 DEF AppRow
    <3>3. CASE app' = [a EXCEPT !.inFlight = "none"] /\ Returns(k)
      <4> HIDE DEF a
      <4> QED
        BY <3>2, <3>3 DEF AppRow
    <3> QED
      BY <2>2, <3>1, <3>3 DEF Ends
  <2>3. CASE Refused(k) /\ task[k].op # "refresh"
    <3> DEFINE r == [task[k] EXCEPT !.op = "ending"]
    <3>1. Ends(k, r, app, UNCHANGED app /\ Returns(k)) /\ r.op # "switch"
      BY <1>1, <2>3 DEF Refused, TaskRow, TaskFields
    <3> HIDE DEF r
    <3>2. \/ app' = app /\ Returns(k)
          \/ app' = Forgets(app) /\ Continues(k, Clearing(k, r))
      BY <3>1 DEF Ends
    <3> QED
      BY <1>1, <3>1, <3>2 DEF r
  <2> QED
    BY <2>1, <2>2, <2>3
<1>3. CASE /\ Returns(k)
           /\ app' \in AppRow /\ app'.screen = app.screen /\ app'.latch = app.latch
           /\ app'.unlocked = app.unlocked /\ app'.choice = app.choice
  <2>1. StateTyped'
    BY <1>1, <1>3 DEF StateTyped
  <2>2. StoreMove(k, IdleTask)
    BY <1>1, <1>3, IdleAtTheStore DEF KeystoreMove, HistoryMove, IdleTask
  <2> QED
    BY <1>1, <1>3, <2>1, <2>2, Ceasing DEF Returns
<1>4. ASSUME NEW a \in {app, [app EXCEPT !.terminated = TRUE]},
             NEW r \in {task[k], [task[k] EXCEPT !.op = "ending"]},
             app' = Forgets(a) /\ Continues(k, Clearing(k, r)) /\ r.op # "switch"
      PROVE  Moves(k)
  <2>1. /\ a \in AppRow /\ a.screen = app.screen /\ a.unlocked = app.unlocked
        /\ a.choice = app.choice
    BY <1>1 DEF AppRow
  <2>2. /\ r \in TaskRow /\ r.behind = task[k].behind
        /\ r.op \in {task[k].op, "ending"}
    BY <1>1 DEF TaskRow, TaskFields, OfRestore
  <2>3. StateTyped'
    BY <1>1, <1>4, <2>1, ForgetsTyped DEF StateTyped
  <2>4. Outside(task[k]) => r.op \notin {"switch", "verify"}
    BY <2>2 DEF Outside
  <2> QED
    BY <1>1, <1>4, <2>1, <2>2, <2>3, <2>4, Ending
<1> QED
  BY <1>2, <1>3, <1>4

\* What was read, or that nothing was, is in hand.
LEMMA ReadingMoves ==
  ASSUME IInv, NEW k \in Tasks, ReadStored(k) \/ RetryAnswered(k)
  PROVE  Moves(k)
<1>1. /\ task[k].at \in {"stored", "lowerRead"} /\ StateTyped /\ app.screen # "off"
      /\ task[k] \in TaskRow /\ keystore' = keystore /\ app' = app /\ past' = past
      /\ flags' = flags \/ (task[k].at = "lowerRead" /\ \E done \in BOOLEAN : flags' = Lowered(done))
  BY Running DEF ReadStored, RetryAnswered, Waits
<1>2. PICK got \in {keystore, NoCredential, "failed"} :
        InHand(k, got) /\ (got \in Credentials => task[k].at = "stored" /\ got = keystore)
  BY Absent DEF ReadStored, RetryAnswered, Waits
<1> DEFINE r == [task[k] EXCEPT !.at = "restored", !.got = got]
<1>3. r \in TaskRow /\ r.at = "restored" /\ r.got = got /\ r.behind = task[k].behind
  BY <1>1 DEF TaskRow, TaskFields, OfRestore, StateTyped, Held
<1>4. Continues(k, r)
  BY <1>2 DEF InHand
<1> HIDE DEF r
<1>5. StateTyped'
  BY <1>1 DEF StateTyped, Lowered
<1>6. StoreMove(k, r)
  BY <1>1, <1>2, <1>3
     DEF StoreMove, KeystoreMove, HistoryMove, RowMove, GivingUp, Pending, Trusting
<1>7. LockQuiet(k, r)
  BY <1>1, <1>2, <1>3 DEF LockQuiet, Outside, OfRestore
<1> QED
  BY <1>1, <1>3, <1>4, <1>5, <1>6, <1>7, MoveOf, LockAlone

LEMMA RetryEraseMoves ==
  ASSUME IInv, NEW k \in Tasks, RetryErase(k)
  PROVE  Moves(k)
<1>1. /\ task[k].at = "erase" /\ StateTyped /\ app.screen # "off"
      /\ task[k] \in TaskRow /\ flags' = flags /\ past' = past
  BY Running DEF RetryErase, Waits
<1>2. CASE /\ keystore' = NoCredential /\ app' = [app EXCEPT !.latch = FALSE]
           /\ Continues(k, [task[k] EXCEPT !.at = "lowerRead"])
  <2> DEFINE r == [task[k] EXCEPT !.at = "lowerRead"]
  <2>1. r \in TaskRow /\ r.at = "lowerRead" /\ r.behind = task[k].behind /\ r.op = "start"
    BY <1>1 DEF TaskRow, TaskFields, OfRestore
  <2>2. /\ app' \in AppRow /\ app'.screen = app.screen /\ app'.unlocked = app.unlocked
        /\ app'.choice = app.choice
    BY <1>1, <1>2 DEF StateTyped, AppRow
  <2> HIDE DEF r
  <2>3. StateTyped'
    BY <1>1, <1>2, <2>2 DEF StateTyped, Held
  <2>4. StoreMove(k, r)
    BY <1>1, <1>2, <2>1
       DEF StoreMove, KeystoreMove, HistoryMove, RowMove, GivingUp, Pending, Trusting
  <2>5. LockQuiet(k, r)
    BY <1>1, <1>2, <2>1, <2>2 DEF LockQuiet, Outside, OfRestore
  <2> QED
    BY <1>1, <1>2, <2>1, <2>2, <2>3, <2>4, <2>5, MoveOf, LockAlone DEF r
<1>3. CASE InHand(k, "failed") /\ keystore' = keystore /\ app' = app
  <2> DEFINE r == [task[k] EXCEPT !.at = "restored", !.got = "failed"]
  <2>1. r \in TaskRow /\ r.at = "restored" /\ r.got \notin Credentials /\ r.behind = task[k].behind
    BY <1>1, Absent DEF TaskRow, TaskFields, OfRestore
  <2>2. Continues(k, r)
    BY <1>3 DEF InHand
  <2> HIDE DEF r
  <2>3. StateTyped'
    BY <1>1, <1>3 DEF StateTyped
  <2>4. StoreMove(k, r)
    BY <1>1, <1>3, <2>1
       DEF StoreMove, KeystoreMove, HistoryMove, RowMove, GivingUp, Pending, Trusting
  <2>5. LockQuiet(k, r)
    BY <1>1, <1>3, <2>1 DEF LockQuiet, Outside, OfRestore
  <2> QED
    BY <1>1, <1>3, <2>1, <2>2, <2>3, <2>4, <2>5, MoveOf, LockAlone
<1> QED
  BY <1>2, <1>3 DEF RetryErase

LEMMA RestoredMoves ==
  ASSUME IInv, NEW k \in Tasks, Restored(k)
  PROVE  Moves(k)
<1>1. /\ task[k].at = "restored" /\ task[k].op = "start" /\ StateTyped /\ app.screen # "off"
      /\ task[k] \in TaskRow /\ keystore' = keystore /\ flags' = flags /\ past' = past
      /\ app \in AppRow /\ ~Outside(task[k])
  BY Running DEF Restored, Waits, StateTyped, TaskRow, OfRestore, Outside
<1> DEFINE a == [app EXCEPT !.memory = IF task[k].got \in Credentials THEN task[k].got ELSE NoCredential]
           r == [task[k] EXCEPT !.got = NoCredential, !.behind = "open"]
           s == [task[k] EXCEPT !.at = "bootstrap", !.got = NoCredential, !.behind = "open"]
<1>2. /\ a \in AppRow /\ a.screen = app.screen /\ a.latch = app.latch
      /\ a.unlocked = app.unlocked /\ a.choice = app.choice
  BY <1>1 DEF AppRow, Held
<1>3. /\ r \in TaskRow /\ r.op = "start" /\ r.behind = "open"
      /\ s \in TaskRow /\ s.op = "start" /\ s.behind = "open" /\ s.at = "bootstrap"
  BY <1>1 DEF TaskRow, TaskFields, OfRestore, Held
<1>4. \/ app' = a /\ Returns(k)
      \/ app' = [a EXCEPT !.screen = "signedOut"] /\ Returns(k)
      \/ app' = [a EXCEPT !.screen = "bootstrap"] /\ Continues(k, s)
      \/ app' = Forgets(a) /\ Continues(k, Clearing(k, r))
  BY DEF Restored, Ends
<1> HIDE DEF a, r, s
<1>5. ASSUME NEW screen \in {app.screen, "signedOut"}, Returns(k),
             app' = a \/ app' = [a EXCEPT !.screen = screen]
      PROVE  Moves(k)
  <2>1. /\ app' \in AppRow /\ app'.screen \in {app.screen, screen} /\ app'.latch = app.latch
        /\ app'.unlocked = app.unlocked /\ app'.choice = app.choice /\ app'.screen # "off"
    BY <1>1, <1>2, <1>5 DEF AppRow
  <2>2. StateTyped'
    BY <1>1, <2>1 DEF StateTyped
  <2>3. StoreMove(k, IdleTask)
    BY <1>1, <2>1, IdleAtTheStore DEF KeystoreMove, HistoryMove, IdleTask
  <2> QED
    BY <1>1, <1>5, <2>1, <2>2, <2>3, Ceasing DEF Returns
<1>6. CASE app' = [a EXCEPT !.screen = "bootstrap"] /\ Continues(k, s)
  <2>1. /\ app' \in AppRow /\ app'.latch = app.latch /\ app'.screen = "bootstrap"
        /\ app'.unlocked = app.unlocked /\ app'.choice = app.choice
    BY <1>2, <1>6 DEF AppRow
  <2>2. StateTyped'
    BY <1>1, <2>1 DEF StateTyped
  <2>3. StoreMove(k, s)
    BY <1>1, <1>3, <2>1, StoreAlone DEF StoreQuiet, GivingUp, Pending, Trusting
  <2>4. LockQuiet(k, s)
    BY <1>1, <1>3, <2>1 DEF LockQuiet
  <2> QED
    BY <1>3, <1>6, <2>1, <2>2, <2>3, <2>4, MoveOf, LockAlone
<1>7. CASE app' = Forgets(a) /\ Continues(k, Clearing(k, r))
  <2>1. StateTyped'
    BY <1>1, <1>2, <1>7, ForgetsTyped DEF StateTyped
  <2> QED
    BY <1>1, <1>2, <1>3, <1>7, <2>1, Ending
<1> QED
  BY <1>4, <1>5, <1>6, <1>7

LEMMA BootstrapAnswersMoves ==
  ASSUME IInv, NEW k \in Tasks, BootstrapAnswers(k)
  PROVE  Moves(k)
<1>1. /\ StateTyped /\ app.screen # "off" /\ app \in AppRow /\ ~Outside(task[k])
      /\ keystore' = keystore /\ flags' = flags /\ past' = past /\ Returns(k)
      /\ task[k].at = "bootstrap"
  BY Running DEF BootstrapAnswers, Waits, StateTyped, OfRestore, Outside
<1>2. PICK screen \in {"inside", "unavailable", "expired"} :
        app' = IF task[k].current THEN [app EXCEPT !.screen = screen] ELSE app
  BY DEF BootstrapAnswers
<1>3. /\ app' \in AppRow /\ app'.latch = app.latch /\ app'.screen # "off"
      /\ app'.unlocked = app.unlocked /\ app'.choice = app.choice
  BY <1>1, <1>2 DEF AppRow
<1>4. StateTyped'
  BY <1>1, <1>3 DEF StateTyped
<1>5. StoreMove(k, IdleTask)
  BY <1>1, <1>3, IdleAtTheStore DEF KeystoreMove, HistoryMove, IdleTask
<1> QED
  BY <1>1, <1>3, <1>4, <1>5, Ceasing DEF Returns

\* What follows SessionManager.adopt.
LEMMA Adoption ==
  ASSUME IInv, NEW k \in Tasks, NEW persisted, Adopted(k, persisted, app),
         task[k].at = "lowerWrite" \/ (task[k].at = "write" /\ ~persisted),
         keystore' = keystore, past' = past, StateTyped,
         flags' = flags \/ (task[k].at = "lowerWrite" /\ \E done \in BOOLEAN : flags' = Lowered(done))
  PROVE  Moves(k)
<1>1. app.screen # "off" /\ task[k] \in TaskRow /\ app \in AppRow
  BY Running DEF StateTyped
<1>2. /\ flags' \in [marker : BOOLEAN, lock : BOOLEAN]
      /\ flags'.marker # flags.marker => task[k].at = "lowerWrite"
      /\ keystore' \in Held /\ past' \in PastRow
  BY DEF StateTyped, Lowered
<1>3. \/ /\ Returns(k)
         /\ app' \in {app, [app EXCEPT !.inFlight = "none"]}
      \/ /\ Restores(k, task[k], app)
         /\ task[k].op = "switch" \/ task[k].at = "lowerWrite"
      \/ /\ app' = Forgets(app) /\ Continues(k, Clearing(k, task[k]))
         /\ task[k].op # "switch"
  BY DEF Adopted, Ends
<1>4. CASE Returns(k) /\ app' \in {app, [app EXCEPT !.inFlight = "none"]}
  <2>1. /\ app' \in AppRow /\ app'.latch = app.latch /\ app'.screen = app.screen
        /\ app'.unlocked = app.unlocked /\ app'.choice = app.choice
    BY <1>1, <1>4 DEF AppRow
  <2>2. StateTyped'
    BY <1>2, <2>1 DEF StateTyped
  <2>3. StoreMove(k, IdleTask)
    BY <1>2, <2>1, IdleAtTheStore DEF KeystoreMove, HistoryMove, IdleTask
  <2> QED
    BY <1>1, <1>4, <2>1, <2>2, <2>3, Ceasing DEF Returns
<1>5. CASE /\ Restores(k, task[k], app)
           /\ task[k].op = "switch" \/ task[k].at = "lowerWrite"
  <2>1. past.let \/ ~Untouched
    BY <1>5 DEF IInv, LockInv, ShutOut, WrittenIsOwn, Outside
  <2>2. past.let \/ (~app.unlocked /\ app.choice # "off")
    BY DEF IInv, LockInv, NeverLetIn
  <2>3. StateTyped'
    BY <1>1, <1>2, <1>5 DEF StateTyped, Restores, AppRow
  <2> QED
    BY <1>1, <1>2, <1>5, <2>1, <2>2, <2>3, Restoration
<1>6. CASE /\ app' = Forgets(app) /\ Continues(k, Clearing(k, task[k]))
           /\ task[k].op # "switch"
  <2>1. StateTyped'
    BY <1>1, <1>2, <1>6, ForgetsTyped
  <2>2. Outside(task[k]) => task[k].op \notin {"switch", "verify"}
    BY DEF Outside
  <2> QED
    BY <1>1, <1>2, <1>6, <2>1, <2>2, Ending
<1> QED
  BY <1>3, <1>4, <1>5, <1>6

LEMMA WriteCredentialMoves ==
  ASSUME IInv, NEW k \in Tasks, WriteCredential(k)
  PROVE  Moves(k)
<1>1. /\ task[k].at = "write" /\ StateTyped /\ app.screen # "off" /\ task[k] \in TaskRow
      /\ flags' = flags
  BY Running DEF WriteCredential, Waits
<1>2. task[k].cred \in Credentials /\ task[k].cred \in past.issued
  BY <1>1 DEF IInv, StoreInv, AllIssued, Pending, StateTyped, PastRow
<1>3. CASE /\ keystore' = task[k].cred /\ app' = [app EXCEPT !.latch = FALSE]
           /\ past' = [past EXCEPT !.own = @ \cup {task[k].cred}, !.abandoned = @ \ {task[k].cred}]
           /\ Continues(k, [task[k] EXCEPT !.at = "lowerWrite"])
  <2> DEFINE r == [task[k] EXCEPT !.at = "lowerWrite"]
  <2>1. r \in TaskRow /\ r.at = "lowerWrite"
    BY <1>1 DEF TaskRow, TaskFields, OfRestore
  <2>2. /\ app' \in AppRow /\ app'.screen = app.screen /\ app'.unlocked = app.unlocked
        /\ app'.choice = app.choice
    BY <1>1, <1>3 DEF StateTyped, AppRow
  <2>3. /\ past' \in PastRow /\ past'.issued = past.issued /\ past'.let = past.let
        /\ past'.own = past.own \cup {task[k].cred}
        /\ past'.abandoned = past.abandoned \ {task[k].cred}
    BY <1>1, <1>2, <1>3 DEF StateTyped, PastRow
  <2> HIDE DEF r
  <2>4. StateTyped'
    BY <1>1, <1>2, <1>3, <2>2, <2>3 DEF StateTyped, Held
  <2>5. StoreMove(k, r)
    BY <1>1, <1>3, <2>1, <2>3
       DEF StoreMove, KeystoreMove, HistoryMove, RowMove, GivingUp, Pending, WritesOwn
  <2>6. LockMove(k, r)
    BY <1>2, <1>3, <2>1, <2>2, <2>3 DEF LockMove, IInv, LockInv, NeverLetIn, Untouched
  <2> QED
    BY <1>1, <1>3, <2>1, <2>2, <2>4, <2>5, <2>6, MoveOf DEF r
<1>4. CASE Adopted(k, FALSE, app) /\ keystore' = keystore /\ past' = past
  BY <1>1, <1>4, Adoption
<1> QED
  BY <1>3, <1>4 DEF WriteCredential

LEMMA ReplacementAnsweredMoves ==
  ASSUME IInv, NEW k \in Tasks, ReplacementAnswered(k)
  PROVE  Moves(k)
<1>1. PICK done \in BOOLEAN : flags' = Lowered(done) /\ Adopted(k, ~flags'.marker, app)
  BY DEF ReplacementAnswered
<1>2. task[k].at = "lowerWrite" /\ keystore' = keystore /\ past' = past /\ StateTyped
  BY DEF ReplacementAnswered, Waits, IInv, ClientTypeOK
<1> QED
  BY <1>1, <1>2, Adoption

LEMMA GivenTyped ==
  ASSUME past \in PastRow, NEW k \in Tasks
  PROVE  /\ Given(k) \in PastRow /\ Given(k).issued = past.issued /\ Given(k).own = past.own
         /\ Given(k).let = past.let
         /\ Given(k).abandoned = past.abandoned \cup ({task[k].held} \cap Credentials)
BY DEF PastRow, Given

LEMMA RaiseMarkerMoves ==
  ASSUME IInv, NEW k \in Tasks, RaiseMarker(k)
  PROVE  Moves(k)
<1>1. /\ task[k].at = "raise" /\ StateTyped /\ app.screen # "off" /\ task[k] \in TaskRow
      /\ keystore' = keystore /\ app' = app
  BY Running DEF RaiseMarker, Waits
<1>2. PICK written \in BOOLEAN :
        /\ flags' = [flags EXCEPT !.marker = @ \/ written]
        /\ past' = IF written THEN Given(k) ELSE past
        /\ Continues(k, [task[k] EXCEPT !.at = "delete", !.raised = written])
  BY DEF RaiseMarker
<1> DEFINE r == [task[k] EXCEPT !.at = "delete", !.raised = written]
<1>3. /\ r \in TaskRow /\ r.at = "delete" /\ r.behind = task[k].behind /\ r.op = task[k].op
      /\ r.cred = task[k].cred /\ r.held = task[k].held
  BY <1>1 DEF TaskRow, TaskFields, OfRestore
<1>4. /\ past' \in PastRow /\ past'.issued = past.issued /\ past'.own = past.own
      /\ past'.let = past.let
      /\ past.abandoned \subseteq past'.abandoned
      /\ past'.abandoned \subseteq past.abandoned \cup {task[k].held}
      /\ past'.abandoned = past.abandoned \/ flags'.marker
  BY <1>1, <1>2, GivenTyped DEF StateTyped
<1>5. /\ flags' \in [marker : BOOLEAN, lock : BOOLEAN]
      /\ flags.marker => flags'.marker
  BY <1>1, <1>2 DEF StateTyped
<1> HIDE DEF r
<1>6. StateTyped'
  BY <1>1, <1>4, <1>5 DEF StateTyped
<1>7. StoreMove(k, r)
  BY <1>1, <1>3, <1>4, <1>5
     DEF StoreMove, KeystoreMove, HistoryMove, RowMove, GivingUp, Pending, Trusting, WritesOwn
<1>8. LockQuiet(k, r)
  BY <1>1, <1>3, <1>4 DEF LockQuiet, Outside, OfRestore
<1> QED
  BY <1>1, <1>2, <1>3, <1>6, <1>7, <1>8, MoveOf, LockAlone DEF r

\* What follows the answer of SecureTokenStore.clear.
LEMMA Clearance ==
  ASSUME IInv, NEW k \in Tasks, NEW outcome, Cleared(k, outcome, app),
         task[k].at \in {"delete", "lowerClear"},
         keystore' = keystore, past' = past, StateTyped,
         flags' = flags \/ (task[k].at = "lowerClear" /\ \E done \in BOOLEAN : flags' = Lowered(done))
  PROVE  Moves(k)
<1>1. app.screen # "off" /\ task[k] \in TaskRow /\ app \in AppRow
  BY Running DEF StateTyped
<1>2. /\ flags' \in [marker : BOOLEAN, lock : BOOLEAN]
      /\ flags.marker /\ ~flags'.marker => task[k].at = "lowerClear"
      /\ keystore' \in Held /\ past' \in PastRow
  BY DEF StateTyped, Lowered
<1> DEFINE rewrites == [task[k] EXCEPT !.at = "write", !.held = NoCredential, !.raised = FALSE]
           wipes    == [task[k] EXCEPT !.at = "wipe", !.held = NoCredential, !.raised = FALSE]
<1>3. /\ rewrites \in TaskRow /\ rewrites.at = "write" /\ rewrites.cred = task[k].cred
      /\ rewrites.op = task[k].op /\ rewrites.behind = task[k].behind
      /\ wipes \in TaskRow /\ wipes.at = "wipe" /\ wipes.op = task[k].op
      /\ wipes.behind = task[k].behind
  <2>1. /\ task[k] \in TaskFields /\ NoCredential \in Held
        /\ "write" \notin OfRestore /\ "wipe" \notin OfRestore
    BY <1>1 DEF TaskRow, OfRestore, Held
  <2>2. /\ rewrites \in TaskFields /\ rewrites.at = "write" /\ rewrites.cred = task[k].cred
        /\ rewrites.op = task[k].op /\ rewrites.behind = task[k].behind
    BY Zenon, <2>1 DEF TaskFields
  <2>3. /\ wipes \in TaskFields /\ wipes.at = "wipe" /\ wipes.op = task[k].op
        /\ wipes.behind = task[k].behind
    BY Zenon, <2>1 DEF TaskFields
  <2> QED
    BY <2>1, <2>2, <2>3 DEF TaskRow
<1>4. /\ app' \in AppRow /\ app'.latch = app.latch /\ app'.unlocked = app.unlocked
      /\ app'.choice = app.choice /\ app'.screen # "off"
      /\ app'.screen = app.screen \/ app'.screen \notin InnerScreens
  <2>1. PICK screen \in {app.screen, "expired", "blocked", "signedOut"}, f \in {app.inFlight, "none"},
             m \in {app.memory, task[k].cred} :
          app' \in {app, [app EXCEPT !.screen = screen], [app EXCEPT !.screen = screen, !.inFlight = f],
                   [app EXCEPT !.screen = screen, !.memory = m]}
    BY DEF Cleared, ForAbandonment
  <2>2. m \in Held
    BY <1>1 DEF TaskRow, TaskFields, AppRow
  <2> QED
    BY <1>1, <2>1, <2>2 DEF AppRow, InnerScreens
<1>5. \/ Continues(k, IdleTask) \/ task' = Superseded(k, IdleTask)
      \/ task[k].op = "switch" /\ task' = Superseded(k, rewrites)
      \/ task[k].op # "switch" /\ Continues(k, wipes)
  BY DEF Cleared, Returns
<1>6. StateTyped'
  BY <1>2, <1>4 DEF StateTyped
<1> HIDE DEF rewrites, wipes
<1>7. CASE Continues(k, IdleTask) \/ task' = Superseded(k, IdleTask)
  <2>1. StoreMove(k, IdleTask)
    BY <1>2, <1>4, IdleAtTheStore DEF KeystoreMove, HistoryMove, IdleTask
  <2> QED
    BY <1>4, <1>6, <1>7, <2>1, Ceasing
<1>8. CASE task[k].op = "switch" /\ task' = Superseded(k, rewrites)
  <2>1. StoreMove(k, rewrites)
    BY <1>2, <1>3, <1>4, <1>8
       DEF StoreMove, KeystoreMove, HistoryMove, RowMove, GivingUp, Pending, Trusting, WritesOwn
  <2>2. LockQuiet(k, rewrites)
    BY <1>3, <1>4, <1>8 DEF LockQuiet, Outside
  <2> QED
    BY <1>3, <1>4, <1>6, <1>8, <2>1, <2>2, MoveOf, LockAlone
<1>9. CASE task[k].op # "switch" /\ Continues(k, wipes)
  <2>1. StoreMove(k, wipes)
    BY <1>2, <1>3, <1>4, <1>9
       DEF StoreMove, KeystoreMove, HistoryMove, RowMove, GivingUp, Pending, Trusting, WritesOwn
  <2>2. LockQuiet(k, wipes)
    BY <1>3, <1>4 DEF LockQuiet, Outside, OfRestore
  <2> QED
    BY <1>3, <1>4, <1>6, <1>9, <2>1, <2>2, MoveOf, LockAlone
<1> QED
  BY <1>5, <1>7, <1>8, <1>9

LEMMA DeleteCredentialMoves ==
  ASSUME IInv, NEW k \in Tasks, DeleteCredential(k)
  PROVE  Moves(k)
<1>1. /\ task[k].at = "delete" /\ StateTyped /\ app.screen # "off" /\ task[k] \in TaskRow
      /\ flags' = flags
  BY Running DEF DeleteCredential, Waits
<1>2. CASE /\ keystore' = NoCredential /\ app' = [app EXCEPT !.latch = FALSE]
           /\ past' = Given(k)
           /\ Continues(k, [task[k] EXCEPT !.at = "lowerClear"])
  <2> DEFINE r == [task[k] EXCEPT !.at = "lowerClear"]
  <2>1. /\ r \in TaskRow /\ r.at = "lowerClear" /\ r.behind = task[k].behind
        /\ r.op = task[k].op /\ r.cred = task[k].cred
    BY <1>1 DEF TaskRow, TaskFields, OfRestore
  <2>2. /\ app' \in AppRow /\ app'.screen = app.screen /\ app'.unlocked = app.unlocked
        /\ app'.choice = app.choice
    BY <1>1, <1>2 DEF StateTyped, AppRow
  <2>3. /\ past' \in PastRow /\ past'.issued = past.issued /\ past'.own = past.own
        /\ past'.let = past.let
        /\ past'.abandoned = past.abandoned \cup ({task[k].held} \cap Credentials)
    BY <1>1, <1>2, GivenTyped DEF StateTyped
  <2> HIDE DEF r
  <2>4. StateTyped'
    BY <1>1, <1>2, <2>2, <2>3 DEF StateTyped, Held
  <2>5. StoreMove(k, r)
    BY <1>1, <1>2, <2>1, <2>3
       DEF StoreMove, KeystoreMove, HistoryMove, RowMove, GivingUp, Pending, WritesOwn
  <2>6. LockQuiet(k, r)
    BY <1>1, <1>2, <2>1, <2>2, <2>3 DEF LockQuiet, Outside, OfRestore
  <2> QED
    BY <1>1, <1>2, <2>1, <2>2, <2>4, <2>5, <2>6, MoveOf, LockAlone DEF r
<1>3. CASE /\ Cleared(k, IF task[k].raised THEN "invalidated" ELSE "lost", app)
           /\ keystore' = keystore /\ past' = past
  BY <1>1, <1>3, Clearance
<1> QED
  BY <1>2, <1>3 DEF DeleteCredential

LEMMA ClearanceAnsweredMoves ==
  ASSUME IInv, NEW k \in Tasks, ClearanceAnswered(k)
  PROVE  Moves(k)
<1>1. /\ task[k].at = "lowerClear" /\ StateTyped /\ keystore' = keystore /\ past' = past
      /\ Cleared(k, "gone", app) /\ \E done \in BOOLEAN : flags' = Lowered(done)
  BY DEF ClearanceAnswered, Waits, IInv, ClientTypeOK
<1> QED
  BY <1>1, Clearance

LEMMA WipeMoves ==
  ASSUME IInv, NEW k \in Tasks, Wipe(k)
  PROVE  Moves(k)
<1>1. /\ task[k].at = "wipe" /\ StateTyped /\ app.screen # "off" /\ Returns(k)
      /\ keystore' \in {keystore, NoCredential} /\ flags' = flags /\ past' = past
      /\ app' = [app EXCEPT !.unlocked = @ /\ task[k].op # "signOut"]
  BY Running DEF Wipe, Waits
<1>2. /\ app' \in AppRow /\ app'.latch = app.latch /\ app'.screen = app.screen
      /\ app'.unlocked => app.unlocked
      /\ app'.choice = app.choice
  BY <1>1 DEF StateTyped, AppRow
<1>3. StateTyped'
  BY <1>1, <1>2 DEF StateTyped, Held
<1>4. StoreMove(k, IdleTask)
  BY <1>1, <1>2, IdleAtTheStore DEF KeystoreMove, HistoryMove, IdleTask
<1> QED
  BY <1>1, <1>2, <1>3, <1>4, Ceasing DEF Returns

-----------------------------------------------------------------------------
(* The steps that are no task's *)

LEMMA SetLockKeeps ==
  ASSUME IInv, SetLock
  PROVE  IInv'
<1>1. StateTyped /\ app.screen # "off" /\ keystore' = keystore /\ task' = task
  BY DEF IInv, ClientTypeOK, SetLock
<1>2. /\ past' \in PastRow /\ past'.issued = past.issued /\ past'.own = past.own
      /\ past'.abandoned = past.abandoned /\ past'.let
  BY <1>1, OneMoreCallTyped DEF SetLock, StateTyped, PastRow
<1>3. PICK enabled \in BOOLEAN, written \in BOOLEAN :
        /\ flags' = IF written THEN [flags EXCEPT !.lock = enabled] ELSE flags
        /\ app' = [app EXCEPT !.unlocked = TRUE,
                              !.choice = IF ~written THEN @ ELSE IF enabled THEN "on" ELSE "off"]
  BY DEF SetLock
<1>4. /\ flags' \in [marker : BOOLEAN, lock : BOOLEAN] /\ flags'.marker = flags.marker
      /\ app' \in AppRow /\ app'.latch = app.latch /\ app'.screen = app.screen
  BY <1>1, <1>3 DEF StateTyped, AppRow
<1>5. ClientTypeOK'
  BY <1>1, <1>2, <1>4 DEF IInv, ClientTypeOK, StateTyped
<1>6. ColdWhenOff'
  BY <1>1, <1>4 DEF ColdWhenOff
<1>7. StoreInv'
  BY <1>1, <1>2, <1>4
     DEF IInv, StoreInv, AllIssued, PendingFresh, TrustIsDue, GivenUpIsBarred, InHandStands, GivenUp
<1>8. LockInv'
  BY <1>1, <1>2, <1>4
     DEF IInv, LockInv, NeverLetIn, ShutOut, WrittenIsOwn, SeesOwn, Untouched
<1> QED
  BY <1>5, <1>6, <1>7, <1>8 DEF IInv

\* With the process goes whatever it was doing; what an erase left on the
\* disk after the marker was raised stays barred by the marker.
LEMMA ProcessDiesKeeps ==
  ASSUME IInv, ProcessDies
  PROVE  IInv'
<1>1. /\ StateTyped /\ keystore' = keystore /\ flags' = flags /\ app' = NoProcess
      /\ task' = [k \in Tasks |-> IdleTask]
  BY DEF IInv, ClientTypeOK, ProcessDies
<1>2. /\ past' \in PastRow /\ past'.issued = past.issued /\ past'.own = {}
      /\ past'.abandoned = past.abandoned /\ ~past'.let
  BY DEF ProcessDies, IInv, ClientTypeOK, StateTyped, PastRow
<1>3. ClientTypeOK'
  BY <1>1, <1>2, Blank DEF ClientTypeOK, StateTyped
<1>4. ColdWhenOff'
  BY <1>1, <1>2 DEF ColdWhenOff
<1>5. \A k \in Tasks : /\ task'[k].at = "idle" /\ task'[k].op = "none"
                       /\ task'[k].behind = "open"
  BY <1>1 DEF IdleTask
<1>6. StoreInv'
  <2>1. \A c : GivenUp(c)' => GivenUp(c) /\ c \in past.abandoned
    BY <1>2, <1>5 DEF GivenUp, GivingUp
  <2>2. GivenUp(keystore)' => keystore \in past.abandoned
    BY <1>1, <1>2, <1>5 DEF GivenUp, GivingUp
  <2> QED
    BY <1>1, <1>2, <1>5, <2>2
       DEF IInv, StoreInv, AllIssued, PendingFresh, TrustIsDue, GivenUpIsBarred, InHandStands,
           Pending, GivingUp, Trusting
<1>7. LockInv'
  <2>1. ~app'.unlocked /\ app'.choice = "unloaded" /\ app'.screen = "off"
    BY <1>1 DEF NoProcess
  <2> QED
    BY <1>5, <2>1
       DEF LockInv, NeverLetIn, ShutOut, WrittenIsOwn, SeesOwn, Outside, OfRestore, InnerScreens
<1> QED
  BY <1>3, <1>4, <1>6, <1>7 DEF IInv

-----------------------------------------------------------------------------
(* The theorems *)

LEMMA InitInv == ClientInit => IInv
<1> SUFFICES ASSUME ClientInit PROVE IInv
  OBVIOUS
<1>1. (CHOOSE c \in Credentials : TRUE) \in Credentials
  BY ClientAssumption
<1>2. keystore \in Held /\ past.issued = {keystore} \cap Credentials
  BY <1>1 DEF ClientInit, Held
<1>3. ClientTypeOK
  <2>1. past \in PastRow
    BY DEF ClientInit, PastRow
  <2>2. flags \in [marker : BOOLEAN, lock : BOOLEAN]
    BY DEF ClientInit
  <2>3. app \in AppRow /\ task \in [Tasks -> TaskRow]
    BY Blank DEF ClientInit
  <2> QED
    BY <1>2, <2>1, <2>2, <2>3 DEF ClientTypeOK, StateTyped
<1>4. ColdWhenOff
  BY DEF ClientInit, ColdWhenOff
<1>5. \A k \in Tasks : /\ task[k].at = "idle" /\ task[k].op = "none"
                       /\ task[k].behind = "open"
  BY DEF ClientInit, IdleTask
<1>6. StoreInv
  BY <1>2, <1>5
     DEF ClientInit, StoreInv, AllIssued, PendingFresh, TrustIsDue, GivenUpIsBarred, InHandStands,
         Pending, GivingUp, GivenUp, Trusting, Held
<1>7. LockInv
  BY <1>5 DEF ClientInit, LockInv, NeverLetIn, ShutOut, WrittenIsOwn, SeesOwn, Outside, OfRestore,
              InnerScreens, NoProcess
<1> QED
  BY <1>3, <1>4, <1>6, <1>7 DEF IInv

LEMMA NextInv ==
  ASSUME IInv, [ClientNext]_clientVars
  PROVE  IInv'
<1>1. ASSUME NEW k \in Tasks,
             \/ Launch(k) \/ Restart(k) \/ ComesBack(k) \/ LoadLock(k) \/ Unlock(k)
             \/ RetryBootstrap(k) \/ Abandon(k) \/ Asks(k) \/ Refresh(k) \/ AgedOut(k)
      PROVE  Moves(k)
  BY <1>1, BeginningsMove, LoadLockMoves, UnlockMoves, RestoresMove, AbandonMoves, AsksMoves
<1>2. ASSUME NEW k \in Tasks,
             \/ Issued(k) \/ Verified(k) \/ Unanswered(k) \/ Refused(k) \/ WipeBegins(k)
             \/ ReadMarker(k) \/ ReadStored(k) \/ RetryErase(k) \/ RetryAnswered(k)
             \/ Restored(k) \/ BootstrapAnswers(k)
      PROVE  Moves(k)
  BY <1>2, IssuedMoves, RestoresMove, NotGrantedMoves, AbandonMoves, ReadMarkerMoves, ReadingMoves,
     RetryEraseMoves, RestoredMoves, BootstrapAnswersMoves
<1>3. ASSUME NEW k \in Tasks,
             \/ WriteCredential(k) \/ ReplacementAnswered(k)
             \/ RaiseMarker(k) \/ DeleteCredential(k) \/ ClearanceAnswered(k) \/ Wipe(k)
      PROVE  Moves(k)
  BY <1>3, WriteCredentialMoves, ReplacementAnsweredMoves, RaiseMarkerMoves, DeleteCredentialMoves,
     ClearanceAnsweredMoves, WipeMoves
<1>4. CASE UNCHANGED clientVars
  BY <1>4
     DEF clientVars, IInv, ClientTypeOK, StateTyped, ColdWhenOff, StoreInv, AllIssued, PendingFresh,
         TrustIsDue, GivenUpIsBarred, InHandStands, GivenUp, LockInv, NeverLetIn, ShutOut,
         WrittenIsOwn, SeesOwn, Untouched
<1> QED
  BY <1>1, <1>2, <1>3, <1>4, MovesKeep, SetLockKeeps, ProcessDiesKeeps DEF ClientNext

\* The state keeps its shape, and a process that does not run holds nothing.
THEOREM ClientTypeCorrect == ClientSpec => [](ClientTypeOK /\ ColdWhenOff)
<1>1. IInv => ClientTypeOK /\ ColdWhenOff
  BY DEF IInv
<1> QED
  BY <1>1, InitInv, NextInv, PTL DEF ClientSpec

\* isDurablyResolved (token_store.dart:94): a credential that was recorded as
\* abandoned or erased is in no reader's hands, whatever the platform refuses
\* and whenever the process dies.
THEOREM Abandonment == ClientSpec => []AbandonedStaysAbandoned
<1>1. IInv => AbandonedStaysAbandoned
  BY DEF IInv, StoreInv, InHandStands, GivenUp, AbandonedStaysAbandoned, Waits, ClientTypeOK,
         StateTyped, PastRow
<1> QED
  BY <1>1, InitInv, NextInv, PTL DEF ClientSpec

\* The lock is asked before the keystore is opened
\* (startup_coordinator.dart:12-28): what a process that was never let in has
\* read behind the lock is its own.
THEOREM Locked == ClientSpec => []LockedOpensNothing
<1>1. IInv => LockedOpensNothing
  BY DEF IInv, LockInv, SeesOwn, LockedOpensNothing, Opens, Waits
<1> QED
  BY <1>1, InitInv, NextInv, PTL DEF ClientSpec

\* A credential that is still to be written is on no disk and was not given
\* up: no two answers of the server write the same one (token_store.dart
\* write, session_manager.dart adopt).
THEOREM WritesAreFresh == ClientSpec => []PendingFresh
<1>1. IInv => PendingFresh
  BY DEF IInv, StoreInv
<1> QED
  BY <1>1, InitInv, NextInv, PTL DEF ClientSpec
=============================================================================
