---------------------------- MODULE ConsoleProofs ----------------------------
(***************************************************************************)
(* Console's safety, for any people, invites and roles and an audit log of *)
(* any length.                                                             *)
(***************************************************************************)
EXTENDS Console, TLAPS

USE DEF awaiting

(* A tenant without accounts, tokens and entries is in order. *)
LEMMA ConsoleInitInv == ConsoleInit => ConsoleInv
<1> SUFFICES ASSUME ConsoleInit PROVE ConsoleInv
  OBVIOUS
<1>1. Idle \in Task
  BY ConsoleAssumption DEF Idle, Task
<1>2. ConsoleTypeOK
  BY <1>1, ConsoleAssumption DEF ConsoleInit, ConsoleTypeOK, Idle, Thread
<1>3. AccountsAgree /\ ClaimsCount /\ LoggedOutStaysOut
  BY DEF ConsoleInit, AccountsAgree, ClaimsCount, LoggedOutStaysOut, Idle, Thread
<1>4. LoopKnows /\ PoolKnows /\ WaitingKnow /\ InvitesBurnt /\ RolesAreGranted /\ InviteOnce
  BY ConsoleAssumption
     DEF ConsoleInit, LoopKnows, PoolKnows, WaitingKnow, InvitesBurnt, RolesAreGranted, InviteOnce, Idle, Thread
<1>5. LockHeld /\ ForksNeedTwoWriters
  BY DEF ConsoleInit, LockHeld, ForksNeedTwoWriters, Idle, Thread
<1> QED
  BY <1>2, <1>3, <1>4, <1>5 DEF ConsoleInv

(* One thread's task is replaced by another one of its type. *)
LEMMA TaskSet ==
  ASSUME ConsoleTypeOK, NEW th \in Thread, NEW x \in Task, task' = [task EXCEPT ![th] = x]
  PROVE  /\ task' \in [Thread -> Task]
         /\ task'[th] = x
         /\ \A t \in Thread \ {th} : task'[t] = task[t]
BY DEF ConsoleTypeOK

(* An idle thread's fields, and its type. *)
LEMMA IdleTask ==
  /\ Idle \in Task
  /\ Idle.step = "idle" /\ Idle.claims = {} /\ Idle.last = 0
BY ConsoleAssumption DEF Idle, Task

(* While no thread takes the lock and nothing is appended, the chain stands. *)
LEMMA ChainRests ==
  ASSUME ConsoleInv, log' = log,
         \A u \in Thread : task'[u] = task[u] \/ task'[u].step # "append"
  PROVE  LockHeld' /\ ForksNeedTwoWriters'
BY DEF ConsoleInv, LockHeld, ForksNeedTwoWriters

(* Whoever is still let through was let through before. *)
LEMMA WaitingStays ==
  ASSUME ConsoleInv, role' = role, inviting' \subseteq inviting, streams' \subseteq streams
  PROVE  WaitingKnow'
BY DEF ConsoleInv, WaitingKnow

(* The claims read from a user's row. *)
LEMMA ClaimsRead ==
  ASSUME ConsoleTypeOK, NEW p \in Person, NEW e \in Nat
  PROVE  ClaimsOf(p, e) \in SUBSET Claims
BY DEF ConsoleTypeOK, ClaimsOf, Claims

(* The founder is admitted while there is no account. *)
LEMMA FoundKeeps ==
  ASSUME ConsoleInv, NEW p \in Person, Found(p)
  PROVE  ConsoleInv'
<1> DEFINE x == [Idle EXCEPT !.step = "create", !.who = p, !.role = "manager", !.via = "founder"]
<1>1. ConsoleTypeOK
  BY DEF ConsoleInv
<1>2. x \in Task /\ x.last = 0 /\ task' = [task EXCEPT !["loop"] = x]
  BY <1>1, ConsoleAssumption DEF Found, Admit, Idle, Task, ConsoleTypeOK, Claims
<1>3. /\ task' \in [Thread -> Task] /\ task'["loop"] = x
      /\ \A u \in Thread \ {"loop"} : task'[u] = task[u]
  BY <1>1, <1>2, TaskSet DEF Thread
<1>4. ConsoleTypeOK'
  BY <1>1, <1>2, <1>3, ConsoleAssumption DEF Found, ConsoleTypeOK, Claims
<1>5. AccountsAgree' /\ ClaimsCount' /\ LoggedOutStaysOut'
  BY <1>1, <1>3 DEF Found, Begins, Founding, Admit, Idle, Thread, Claims, ConsoleInv, ConsoleTypeOK,
     AccountsAgree, ClaimsCount, LoggedOutStaysOut, Accepted
<1>6. LoopKnows' /\ PoolKnows' /\ InvitesBurnt' /\ RolesAreGranted' /\ InviteOnce'
  BY <1>1, <1>3, ConsoleAssumption
     DEF Found, Begins, Founding, Admit, Idle, Thread, Claims, ConsoleInv,
     ConsoleTypeOK, AccountsAgree, LoopKnows, PoolKnows, InvitesBurnt, RolesAreGranted, InviteOnce
<1>7. LockHeld' /\ ForksNeedTwoWriters'
  <2>1. log' = log /\ task'["loop"].step # "append"
    BY <1>3 DEF Found, Idle
  <2> QED
    BY <1>3, <2>1, ChainRests DEF Thread
<1>8. WaitingKnow'
  BY WaitingStays DEF Found
<1> QED
  BY <1>4, <1>5, <1>6, <1>7, <1>8 DEF ConsoleInv

(* A login reads its claims from the row as it is. *)
LEMMA LoginKeeps ==
  ASSUME ConsoleInv, NEW p \in Person, Login(p)
  PROVE  ConsoleInv'
<1> DEFINE x == [Idle EXCEPT !.step = "audit", !.claims = ClaimsOf(p, epoch[p])]
<1>1. ConsoleTypeOK
  BY DEF ConsoleInv
<1>2. x \in Task /\ x.last = 0 /\ task' = [task EXCEPT !["loop"] = x]
  BY <1>1, ClaimsRead, ConsoleAssumption DEF Login, Idle, Task, ConsoleTypeOK, Claims
<1>3. /\ task' \in [Thread -> Task] /\ task'["loop"] = x
      /\ \A u \in Thread \ {"loop"} : task'[u] = task[u]
  BY <1>1, <1>2, TaskSet DEF Thread
<1>4. ConsoleTypeOK'
  BY <1>1, <1>2, <1>3, ConsoleAssumption DEF Login, ConsoleTypeOK, Claims
<1>5. AccountsAgree' /\ ClaimsCount' /\ LoggedOutStaysOut'
  BY <1>1, <1>3 DEF Login, Begins, ClaimsOf, Idle, Thread, Claims, ConsoleInv, ConsoleTypeOK,
     AccountsAgree, ClaimsCount, LoggedOutStaysOut, Accepted
<1>6. LoopKnows' /\ PoolKnows' /\ InvitesBurnt' /\ RolesAreGranted' /\ InviteOnce'
  BY <1>1, <1>3, ConsoleAssumption DEF Login, Begins, ClaimsOf, Idle, Thread, Claims, ConsoleInv,
     ConsoleTypeOK, AccountsAgree, LoopKnows, PoolKnows, InvitesBurnt, RolesAreGranted, InviteOnce
<1>7. LockHeld' /\ ForksNeedTwoWriters'
  <2>1. log' = log /\ task'["loop"].step # "append"
    BY <1>3 DEF Login, Idle
  <2> QED
    BY <1>3, <2>1, ChainRests DEF Thread
<1>8. WaitingKnow'
  BY WaitingStays DEF Login
<1> QED
  BY <1>4, <1>5, <1>6, <1>7, <1>8 DEF ConsoleInv

(* An invite that is joined with was open, so nobody has come with it. *)
LEMMA JoinKeeps ==
  ASSUME ConsoleInv, NEW p \in Person, NEW i \in Invite, Join(p, i)
  PROVE  ConsoleInv'
<1> DEFINE x == [Idle EXCEPT !.step = "create", !.who = p, !.role = invite[i].role, !.via = i]
<1>1. ConsoleTypeOK
  BY DEF ConsoleInv
<1>2. x \in Task /\ x.last = 0 /\ task' = [task EXCEPT !["loop"] = x]
  BY <1>1, ConsoleAssumption DEF Join, Admit, Idle, Task, ConsoleTypeOK, Claims
<1>3. /\ task' \in [Thread -> Task] /\ task'["loop"] = x
      /\ \A u \in Thread \ {"loop"} : task'[u] = task[u]
  BY <1>1, <1>2, TaskSet DEF Thread
<1>4. ConsoleTypeOK'
  <2>1. invite' \in [Invite -> [state : {"none", "open", "used"}, role : Role \cup {"none"},
                                by : Person \cup {NoUser}]]
    BY <1>1 DEF Join, ConsoleTypeOK
  <2> QED
    BY <1>1, <1>2, <1>3, <2>1 DEF Join, ConsoleTypeOK
<1>5. AccountsAgree' /\ ClaimsCount' /\ LoggedOutStaysOut'
  BY <1>1, <1>3 DEF Join, Begins, Founding, Admit, Idle, Thread, Claims, ConsoleInv, ConsoleTypeOK,
     AccountsAgree, ClaimsCount, LoggedOutStaysOut, Accepted
<1>6. LoopKnows' /\ PoolKnows' /\ InvitesBurnt' /\ RolesAreGranted' /\ InviteOnce'
  BY <1>1, <1>3, ConsoleAssumption
     DEF Join, Begins, Founding, Admit, Idle, Thread, Claims, ConsoleInv,
     ConsoleTypeOK, AccountsAgree, LoopKnows, PoolKnows, InvitesBurnt, RolesAreGranted, InviteOnce
<1>7. LockHeld' /\ ForksNeedTwoWriters'
  <2>1. log' = log /\ task'["loop"].step # "append"
    BY <1>3 DEF Join, Idle
  <2> QED
    BY <1>3, <2>1, ChainRests DEF Thread
<1>8. WaitingKnow'
  BY WaitingStays DEF Join
<1> QED
  BY <1>4, <1>5, <1>6, <1>7, <1>8 DEF ConsoleInv

(* A logout has a token of an account. *)
LEMMA LogoutKeeps ==
  ASSUME ConsoleInv, NEW t \in tokens, Logout(t)
  PROVE  ConsoleInv'
<1> DEFINE x == [Idle EXCEPT !.step = "bump", !.who = t.user]
<1>1. ConsoleTypeOK
  BY DEF ConsoleInv
<1>2. x \in Task /\ x.last = 0 /\ task' = [task EXCEPT !["pool"] = x]
  BY <1>1, ConsoleAssumption DEF Logout, Idle, Task, ConsoleTypeOK, Claims
<1>3. /\ task' \in [Thread -> Task] /\ task'["pool"] = x
      /\ \A u \in Thread \ {"pool"} : task'[u] = task[u]
  BY <1>1, <1>2, TaskSet DEF Thread
<1>4. ConsoleTypeOK'
  BY <1>1, <1>2, <1>3, ConsoleAssumption DEF Logout, ConsoleTypeOK, Claims
<1>5. AccountsAgree' /\ ClaimsCount' /\ LoggedOutStaysOut'
  BY <1>1, <1>3 DEF Logout, Begins, Accepted, Idle, Thread, Claims, ConsoleInv, ConsoleTypeOK,
     AccountsAgree, ClaimsCount, LoggedOutStaysOut
<1>6. LoopKnows' /\ PoolKnows' /\ InvitesBurnt' /\ RolesAreGranted' /\ InviteOnce'
  BY <1>1, <1>3, ConsoleAssumption DEF Logout, Begins, Accepted, Idle, Thread, Claims, ConsoleInv,
     ConsoleTypeOK, AccountsAgree, LoopKnows, PoolKnows, InvitesBurnt, RolesAreGranted, InviteOnce
<1>7. LockHeld' /\ ForksNeedTwoWriters'
  <2>1. log' = log /\ task'["pool"].step # "append"
    BY <1>3 DEF Logout, Idle
  <2> QED
    BY <1>3, <2>1, ChainRests DEF Thread
<1>8. WaitingKnow'
  BY WaitingStays DEF Logout
<1> QED
  BY <1>4, <1>5, <1>6, <1>7, <1>8 DEF ConsoleInv

(* Whoever is let through to invite may invite now. *)
LEMMA LetInviteKeeps ==
  ASSUME ConsoleInv, NEW t \in tokens, LetInvite(t)
  PROVE  ConsoleInv'
<1>1. WaitingKnow'
  BY DEF LetInvite, ConsoleInv, ConsoleTypeOK, WaitingKnow
<1>2. ConsoleTypeOK'
  BY DEF LetInvite, ConsoleInv, ConsoleTypeOK
<1> QED
  BY <1>1, <1>2 DEF LetInvite, ConsoleInv, AccountsAgree, ClaimsCount, LoopKnows, PoolKnows,
     InvitesBurnt, LockHeld, RolesAreGranted, InviteOnce, LoggedOutStaysOut, ForksNeedTwoWriters,
     Accepted

(* An invite is new and its author was let through. *)
LEMMA MakeInviteKeeps ==
  ASSUME ConsoleInv, NEW t \in inviting, NEW i \in Invite, NEW r \in Role, MakeInvite(t, i, r)
  PROVE  ConsoleInv'
<1> DEFINE x == [Idle EXCEPT !.step = "audit"]
<1>1. ConsoleTypeOK
  BY DEF ConsoleInv
<1>2. x \in Task /\ x.last = 0 /\ task' = [task EXCEPT !["loop"] = x]
  BY <1>1, ConsoleAssumption DEF MakeInvite, Idle, Task, ConsoleTypeOK, Claims
<1>3. /\ task' \in [Thread -> Task] /\ task'["loop"] = x
      /\ \A u \in Thread \ {"loop"} : task'[u] = task[u]
  BY <1>1, <1>2, TaskSet DEF Thread
<1>4. ConsoleTypeOK'
  <2>1. t.user \in Person
    BY DEF ConsoleInv, WaitingKnow, Claims
  <2>2. invite' \in [Invite -> [state : {"none", "open", "used"}, role : Role \cup {"none"},
                                by : Person \cup {NoUser}]]
    BY <1>1, <2>1 DEF MakeInvite, ConsoleTypeOK
  <2> QED
    BY <1>1, <1>2, <1>3, <2>2 DEF MakeInvite, ConsoleTypeOK
<1>5. AccountsAgree' /\ ClaimsCount' /\ LoggedOutStaysOut'
  BY <1>1, <1>3 DEF MakeInvite, Begins, Accepted, Idle, Thread, Claims, ConsoleInv, ConsoleTypeOK,
     AccountsAgree, ClaimsCount, LoggedOutStaysOut
<1>6. LoopKnows' /\ PoolKnows' /\ InvitesBurnt' /\ RolesAreGranted' /\ InviteOnce'
  BY <1>1, <1>3, ConsoleAssumption
     DEF MakeInvite, Begins, Accepted, Idle, Thread, Claims, ConsoleInv,
     ConsoleTypeOK, AccountsAgree, LoopKnows, PoolKnows, InvitesBurnt, RolesAreGranted, InviteOnce,
     WaitingKnow
<1>7. LockHeld' /\ ForksNeedTwoWriters'
  <2>1. log' = log /\ task'["loop"].step # "append"
    BY <1>3 DEF MakeInvite, Idle
  <2> QED
    BY <1>3, <2>1, ChainRests DEF Thread
<1>8. WaitingKnow'
  BY WaitingStays DEF MakeInvite
<1> QED
  BY <1>4, <1>5, <1>6, <1>7, <1>8 DEF ConsoleInv

(* What else the waiting handlers do moves no account, token or thread. *)
LEMMA WaitingKeeps ==
  ASSUME ConsoleInv,
         \/ \E t \in inviting : RefuseInvite(t)
         \/ \E t \in tokens : OpenStream(t)
         \/ \E x \in streams : CloseStream(x)
  PROVE  ConsoleInv'
<1>1. inviting' \subseteq inviting
  BY DEF RefuseInvite, OpenStream, CloseStream
<1>2. UNCHANGED <<tenant, role, epoch, joined, invite, tokens, logouts, task, log>>
  BY DEF RefuseInvite, OpenStream, CloseStream
<1>3. streams' \subseteq [token : Claims, since : Nat]
  <2>1. ASSUME NEW t \in tokens
        PROVE  [token |-> t, since |-> logouts[t.user]] \in [token : Claims, since : Nat]
    BY DEF ConsoleInv, ConsoleTypeOK, Claims
  <2> QED
    BY <2>1 DEF RefuseInvite, OpenStream, CloseStream, ConsoleInv, WaitingKnow
<1>4. ConsoleTypeOK'
  BY <1>2 DEF ConsoleInv, ConsoleTypeOK
<1>5. WaitingKnow'
  BY <1>1, <1>2, <1>3 DEF ConsoleInv, WaitingKnow
<1> QED
  BY <1>2, <1>4, <1>5 DEF ConsoleInv, AccountsAgree, ClaimsCount, LoopKnows, PoolKnows,
     InvitesBurnt, LockHeld, RolesAreGranted, InviteOnce, LoggedOutStaysOut, ForksNeedTwoWriters,
     Accepted

(* The worker begins an entry of its own. *)
LEMMA WorkerAuditsKeeps ==
  ASSUME ConsoleInv, WorkerAudits
  PROVE  ConsoleInv'
<1> DEFINE x == [Idle EXCEPT !.step = "audit"]
<1>1. ConsoleTypeOK
  BY DEF ConsoleInv
<1>2. x \in Task /\ x.last = 0 /\ task' = [task EXCEPT !["work"] = x]
  BY <1>1, ConsoleAssumption DEF WorkerAudits, Idle, Task, ConsoleTypeOK, Claims
<1>3. /\ task' \in [Thread -> Task] /\ task'["work"] = x
      /\ \A u \in Thread \ {"work"} : task'[u] = task[u]
  BY <1>1, <1>2, TaskSet DEF Thread
<1>4. ConsoleTypeOK'
  BY <1>1, <1>2, <1>3, ConsoleAssumption DEF WorkerAudits, ConsoleTypeOK, Claims
<1>5. AccountsAgree' /\ ClaimsCount' /\ LoggedOutStaysOut'
  BY <1>1, <1>3 DEF WorkerAudits, Begins, Idle, Thread, Claims, ConsoleInv, ConsoleTypeOK,
     AccountsAgree, ClaimsCount, LoggedOutStaysOut, Accepted
<1>6. LoopKnows' /\ PoolKnows' /\ InvitesBurnt' /\ RolesAreGranted' /\ InviteOnce'
  BY <1>1, <1>3, ConsoleAssumption DEF WorkerAudits, Begins, Idle, Thread, Claims, ConsoleInv,
     ConsoleTypeOK, AccountsAgree, LoopKnows, PoolKnows, InvitesBurnt, RolesAreGranted, InviteOnce
<1>7. LockHeld' /\ ForksNeedTwoWriters'
  <2>1. log' = log /\ task'["work"].step # "append"
    BY <1>3 DEF WorkerAudits, Idle
  <2> QED
    BY <1>3, <2>1, ChainRests DEF Thread
<1>8. WaitingKnow'
  BY WaitingStays DEF WorkerAudits
<1> QED
  BY <1>4, <1>5, <1>6, <1>7, <1>8 DEF ConsoleInv

(* The account that is created keeps the invariant: it is the one that was admitted. *)
LEMMA CreateUserKeeps ==
  ASSUME ConsoleInv, NEW valid \in BOOLEAN, CreateUser(valid)
  PROVE  ConsoleInv'
<1> DEFINE p == task["loop"].who
           l == task["loop"]
<1>1. /\ ConsoleTypeOK /\ p \in Person /\ l \in Task /\ l.step = "create" /\ l.role \in Role
      /\ l.via \in Invite \cup {"founder"} /\ tenant
  BY DEF CreateUser, ConsoleInv, ConsoleTypeOK, LoopKnows, Thread
<1>2. CASE ~(valid /\ role[p] = "none")
  <2>1. task' = [task EXCEPT !["loop"] = Idle] /\ UNCHANGED <<role, epoch, joined>>
    BY <1>2 DEF CreateUser
  <2>2. /\ task' \in [Thread -> Task] /\ task'["loop"] = Idle
        /\ \A u \in Thread \ {"loop"} : task'[u] = task[u]
    BY <1>1, <2>1, IdleTask, TaskSet DEF Thread
  <2>3. ConsoleTypeOK'
    BY <1>1, <2>1, <2>2, IdleTask DEF CreateUser, ConsoleTypeOK
  <2>4. AccountsAgree' /\ ClaimsCount' /\ LoggedOutStaysOut'
    BY <2>1, <2>2, IdleTask DEF CreateUser, Thread, ConsoleInv, AccountsAgree, ClaimsCount,
       LoggedOutStaysOut, Accepted
  <2>5. LoopKnows' /\ PoolKnows' /\ WaitingKnow' /\ InvitesBurnt' /\ RolesAreGranted' /\ InviteOnce'
    BY <2>1, <2>2, IdleTask DEF CreateUser, Thread, ConsoleInv, LoopKnows, PoolKnows,
       WaitingKnow, InvitesBurnt, RolesAreGranted, InviteOnce
  <2>6. LockHeld' /\ ForksNeedTwoWriters'
    BY <2>2, IdleTask, ChainRests DEF CreateUser
  <2> QED
    BY <2>3, <2>4, <2>5, <2>6 DEF ConsoleInv
<1>3. CASE valid /\ role[p] = "none"
  <2> DEFINE x == [Idle EXCEPT !.step = "audit", !.claims = ClaimsOf(p, 0)]
  <2>1. /\ role' = [role EXCEPT ![p] = l.role]
        /\ epoch' = [epoch EXCEPT ![p] = 0]
        /\ joined' = [joined EXCEPT ![p] = l.via]
        /\ task' = [task EXCEPT !["loop"] = x]
    BY <1>3 DEF CreateUser
  <2>2. x \in Task /\ x.step = "audit" /\ x.claims = ClaimsOf(p, 0) /\ x.last = 0
    BY <1>1, ClaimsRead, ConsoleAssumption DEF Idle, Task
  <2>3. /\ task' \in [Thread -> Task] /\ task'["loop"] = x
        /\ \A u \in Thread \ {"loop"} : task'[u] = task[u]
    BY <1>1, <2>1, <2>2, TaskSet DEF Thread
  <2> HIDE DEF x
  <2>4. /\ role \in [Person -> Role \cup {"none"}] /\ epoch \in [Person -> Nat]
        /\ joined \in [Person -> Invite \cup {"none", "founder"}]
        /\ logouts \in [Person -> Nat] /\ logouts[p] = 0
    BY <1>1, <1>3 DEF ConsoleTypeOK, ConsoleInv, AccountsAgree
  <2>5. ConsoleTypeOK'
    BY <1>1, <2>1, <2>2, <2>3, <2>4 DEF CreateUser, ConsoleTypeOK, Thread
  <2>6. AccountsAgree'
    BY <1>1, <2>1, <2>4, ConsoleAssumption DEF CreateUser, ConsoleInv, AccountsAgree
  <2>7. ClaimsCount'
    <3>1. \A t \in ClaimsOf(p, 0) : t.epoch = t.seen
      BY <2>4 DEF ClaimsOf
    <3>2. /\ ClaimsCount /\ tokens' = tokens
          /\ \A u \in Thread : task'[u].claims = ClaimsOf(p, 0) \/ task'[u].claims = task[u].claims
      BY <2>2, <2>3 DEF CreateUser, ConsoleInv
    <3> QED
      BY <3>1, <3>2 DEF ClaimsCount
  <2>8. LoggedOutStaysOut'
    <3>1. \A t \in tokens : t.epoch = t.seen /\ t.user \in Person
      BY <1>1 DEF ConsoleInv, ClaimsCount, ConsoleTypeOK, Claims
    <3>2. tokens' = tokens /\ logouts' = logouts /\ \A q \in Person : epoch'[q] = logouts[q]
      BY <2>6 DEF CreateUser, AccountsAgree
    <3>3. \A t \in tokens : t.seen \in Nat /\ logouts[t.user] \in Nat
      BY <1>1, <2>4, <3>1 DEF ConsoleTypeOK, Claims
    <3> QED
      BY <3>1, <3>2, <3>3 DEF LoggedOutStaysOut, Accepted
  <2>9. LoopKnows' /\ PoolKnows'
    <3>1. task'["loop"].step # "create" /\ task'["pool"] = task["pool"]
      BY <2>2, <2>3 DEF Thread
    <3>2. PoolKnows'
      BY <1>1, <1>3, <2>1, <2>4, <3>1 DEF ConsoleInv, PoolKnows
    <3> QED
      BY <3>1, <3>2 DEF LoopKnows
  <2>10. /\ \A q \in Person \ {p} : joined'[q] = joined[q] /\ role'[q] = role[q]
         /\ joined'[p] = l.via /\ role'[p] = l.role /\ invite' = invite
    BY <1>1, <2>1, <2>4 DEF CreateUser
  <2>11. /\ l.via # "founder" => /\ invite[l.via].state = "used" /\ l.role = invite[l.via].role
                                 /\ \A q \in Person : joined[q] # l.via
         /\ l.via = "founder" => \A q \in Person : role[q] = "none" /\ joined[q] = "none"
    BY <1>1 DEF ConsoleInv, LoopKnows, AccountsAgree
  <2>12. InvitesBurnt' /\ InviteOnce'
    BY <1>1, <2>10, <2>11, ConsoleAssumption DEF ConsoleInv, InvitesBurnt, InviteOnce
  <2>13. RolesAreGranted'
    <3>1. \A q, r \in Person : joined'[q] = "founder" /\ joined'[r] = "founder" => q = r
      BY <1>1, <2>10, <2>11 DEF ConsoleInv, RolesAreGranted
    <3>2. \A q \in Person : joined'[q] \in Invite => role'[q] = invite'[joined'[q]].role
      BY <1>1, <2>10, <2>11, ConsoleAssumption DEF ConsoleInv, RolesAreGranted
    <3>3. \A i \in Invite : invite'[i].state # "none" =>
            invite'[i].by \in Person /\ role'[invite'[i].by] \in Manager
      BY <1>3, <2>10, ConsoleAssumption DEF ConsoleInv, RolesAreGranted
    <3> QED
      BY <3>1, <3>2, <3>3 DEF RolesAreGranted
  <2>14. LockHeld' /\ ForksNeedTwoWriters'
    BY <2>2, <2>3, ChainRests DEF CreateUser
  <2>15. WaitingKnow'
    <3>1. \A t \in inviting : t.user \in Person /\ role[t.user] \in Manager
      BY DEF ConsoleInv, WaitingKnow, Claims
    <3>2. UNCHANGED awaiting /\ \A t \in inviting : t.user # p
      BY <1>3, <3>1, ConsoleAssumption DEF CreateUser
    <3> QED
      BY <2>10, <3>1, <3>2 DEF ConsoleInv, WaitingKnow
  <2> QED
    BY <2>5, <2>6, <2>7, <2>8, <2>9, <2>12, <2>13, <2>14, <2>15 DEF ConsoleInv
<1> QED
  BY <1>2, <1>3

(* A logout counts up the epoch and the logouts together. *)
LEMMA BumpSessionEpochKeeps ==
  ASSUME ConsoleInv, BumpSessionEpoch
  PROVE  ConsoleInv'
<1> DEFINE p == task["pool"].who
           x == [Idle EXCEPT !.step = "audit"]
<1>1. /\ ConsoleTypeOK /\ p \in Person /\ role[p] # "none"
      /\ task["pool"] \in Task
  BY DEF BumpSessionEpoch, ConsoleInv, PoolKnows, ConsoleTypeOK, Thread
<1>2. /\ x \in Task /\ x.step = "audit" /\ x.claims = {}
      /\ x.last = 0 /\ task' = [task EXCEPT !["pool"] = x]
  BY <1>1, ConsoleAssumption DEF Idle, Task, BumpSessionEpoch
<1>3. /\ task' \in [Thread -> Task] /\ task'["pool"] = x
      /\ \A u \in Thread \ {"pool"} : task'[u] = task[u]
  BY <1>1, <1>2, TaskSet DEF Thread
<1> HIDE DEF x
<1>4. /\ epoch' \in [Person -> Nat] /\ logouts' \in [Person -> Nat]
      /\ \A q \in Person : epoch'[q] = logouts'[q] /\ logouts'[q] >= logouts[q]
      /\ \A q \in Person \ {p} : logouts'[q] = logouts[q]
  <2>1. /\ epoch' = [epoch EXCEPT ![p] = @ + 1] /\ logouts' = [logouts EXCEPT ![p] = @ + 1]
        /\ epoch \in [Person -> Nat] /\ logouts \in [Person -> Nat]
        /\ \A q \in Person : epoch[q] = logouts[q]
    BY <1>1 DEF BumpSessionEpoch, ConsoleInv, ConsoleTypeOK, AccountsAgree
  <2> QED
    BY <1>1, <2>1
<1>5. ConsoleTypeOK'
  <2>1. Len(log) \in Nat
    BY <1>1 DEF ConsoleTypeOK
  <2>2. \A u \in Thread : task'[u].last <= Len(log)
    BY <1>1, <1>2, <1>3, <2>1 DEF ConsoleTypeOK, Thread
  <2>3. UNCHANGED <<tenant, role, joined, invite, tokens, log>>
    BY DEF BumpSessionEpoch
  <2> QED
    BY <1>1, <1>3, <1>4, <2>2, <2>3 DEF ConsoleTypeOK
<1>6. AccountsAgree'
  BY <1>1, <1>4 DEF BumpSessionEpoch, ConsoleInv, AccountsAgree
<1>7. ClaimsCount'
  <2>1. /\ ClaimsCount /\ tokens' = tokens
        /\ \A u \in Thread : task'[u].claims = {} \/ task'[u].claims = task[u].claims
    BY <1>2, <1>3 DEF BumpSessionEpoch, ConsoleInv
  <2> QED
    BY <2>1 DEF ClaimsCount
<1>8. LoggedOutStaysOut'
  <2>1. \A t \in tokens : t.epoch = t.seen /\ t.user \in Person /\ t.seen \in Nat
    BY <1>1 DEF ConsoleInv, ClaimsCount, ConsoleTypeOK, Claims
  <2>2. tokens' = tokens /\ \A q \in Person : logouts'[q] \in Nat
    BY <1>4 DEF BumpSessionEpoch
  <2> QED
    BY <1>4, <2>1, <2>2 DEF LoggedOutStaysOut, Accepted
<1>9. LoopKnows' /\ PoolKnows' /\ InvitesBurnt' /\ RolesAreGranted' /\ InviteOnce'
  BY <1>2, <1>3 DEF BumpSessionEpoch, Thread, ConsoleInv, LoopKnows, PoolKnows, InvitesBurnt,
     RolesAreGranted, InviteOnce
<1>10. LockHeld' /\ ForksNeedTwoWriters'
  BY <1>2, <1>3, ChainRests DEF BumpSessionEpoch
<1>11. WaitingKnow'
  BY WaitingStays DEF BumpSessionEpoch
<1> QED
  BY <1>5, <1>6, <1>7, <1>8, <1>9, <1>10, <1>11 DEF ConsoleInv

(* A thread takes the lock of its process and reads the last entry. *)
LEMMA ReadLastKeeps ==
  ASSUME ConsoleInv, NEW th \in Thread, ReadLast(th)
  PROVE  ConsoleInv'
<1> DEFINE x == [task[th] EXCEPT !.step = "append", !.last = Len(log)]
<1>1. ConsoleTypeOK /\ task[th] \in Task /\ Len(log) \in Nat
  BY DEF ConsoleInv, ConsoleTypeOK
<1>2. /\ x \in Task /\ x.step = "append" /\ x.claims = task[th].claims
      /\ x.last = Len(log) /\ task' = [task EXCEPT ![th] = x]
  BY <1>1 DEF Task, ReadLast
<1>3. /\ task' \in [Thread -> Task] /\ task'[th] = x
      /\ \A u \in Thread \ {th} : task'[u] = task[u]
  BY <1>1, <1>2, TaskSet
<1> HIDE DEF x
<1>4. ConsoleTypeOK'
  BY <1>1, <1>2, <1>3 DEF ReadLast, ConsoleTypeOK
<1>5. AccountsAgree' /\ ClaimsCount' /\ LoggedOutStaysOut'
  BY <1>2, <1>3 DEF ReadLast, ConsoleInv, AccountsAgree, ClaimsCount, LoggedOutStaysOut, Accepted
<1>6. InvitesBurnt' /\ RolesAreGranted' /\ InviteOnce' /\ ForksNeedTwoWriters'
  BY DEF ReadLast, ConsoleInv, InvitesBurnt, RolesAreGranted, InviteOnce, ForksNeedTwoWriters
<1>7. LoopKnows' /\ PoolKnows'
  <2>1. \A u \in Thread : task'[u] = task[u] \/ task'[u].step = "append"
    BY <1>2, <1>3
  <2> QED
    BY <2>1 DEF ReadLast, ConsoleInv, LoopKnows, PoolKnows, Thread
<1>8. LockHeld'
  <2>1. \A u \in Thread : Process(u) = Process(th) => task[u].step # "append"
    BY DEF ReadLast, Unlocked
  <2>2. (task'[th].last + 1)..Len(log') = {}
    BY <1>1, <1>2, <1>3 DEF ReadLast
  <2>3. log' = log /\ LockHeld
    BY DEF ReadLast, ConsoleInv
  <2> QED
    BY <1>3, <2>1, <2>2, <2>3 DEF LockHeld
<1>9. WaitingKnow'
  BY WaitingStays DEF ReadLast
<1> QED
  BY <1>4, <1>5, <1>6, <1>7, <1>8, <1>9 DEF ConsoleInv

(* The entry joins the chain after entries of the other process only. *)
LEMMA AppendEntryKeeps ==
  ASSUME ConsoleInv, NEW th \in Thread, AppendEntry(th)
  PROVE  ConsoleInv'
<1> DEFINE entry == [by |-> Process(th), prev |-> task[th].last]
<1>1. /\ ConsoleTypeOK /\ task[th] \in Task /\ task[th].last <= Len(log) /\ Len(log) \in Nat
      /\ task[th].last \in Nat
  BY DEF ConsoleInv, ConsoleTypeOK, Task
<1>2. task' = [task EXCEPT ![th] = Idle] /\ log' = Append(log, entry)
  BY DEF AppendEntry
<1>3. /\ task' \in [Thread -> Task] /\ task'[th] = Idle
      /\ \A u \in Thread \ {th} : task'[u] = task[u]
  BY <1>1, <1>2, IdleTask, TaskSet
<1>4. /\ entry \in [by : {"gateway", "worker"}, prev : Nat]
      /\ log \in Seq([by : {"gateway", "worker"}, prev : Nat])
  BY <1>1 DEF Process, ConsoleTypeOK
<1>5. /\ log' \in Seq([by : {"gateway", "worker"}, prev : Nat]) /\ Len(log') = Len(log) + 1
      /\ log'[Len(log) + 1] = entry /\ \A n \in 1..Len(log) : log'[n] = log[n]
  BY <1>2, <1>4
<1>6. tokens' \subseteq Claims
  BY <1>1 DEF AppendEntry, ConsoleTypeOK, Task
<1>7. ConsoleTypeOK'
  <2>1. \A u \in Thread : task'[u].last <= Len(log')
    <3>1. \A u \in Thread : task[u].last \in Nat /\ task[u].last <= Len(log)
      BY <1>1 DEF ConsoleTypeOK, Task
    <3>2. \A u \in Thread : task'[u].last = 0 \/ task'[u].last = task[u].last
      BY <1>3, IdleTask
    <3> QED
      BY <1>1, <1>5, <3>1, <3>2
  <2>2. ASSUME NEW n \in 1..Len(log') PROVE log'[n].prev < n
    <3>1. CASE n = Len(log) + 1
      <4>1. log'[n].prev = task[th].last
        BY <1>5, <3>1
      <4> QED
        BY <1>1, <3>1, <4>1
    <3>2. CASE n # Len(log) + 1
      <4>1. n \in 1..Len(log)
        BY <1>1, <1>5, <3>2
      <4> QED
        BY <1>1, <1>5, <4>1 DEF ConsoleTypeOK
    <3> QED
      BY <3>1, <3>2
  <2> QED
    BY <1>1, <1>3, <1>5, <1>6, <2>1, <2>2 DEF AppendEntry, ConsoleTypeOK
<1>8. AccountsAgree' /\ InvitesBurnt' /\ RolesAreGranted' /\ InviteOnce'
  BY DEF AppendEntry, ConsoleInv, AccountsAgree, InvitesBurnt, RolesAreGranted, InviteOnce
<1>9. ClaimsCount'
  BY <1>3, IdleTask DEF AppendEntry, ConsoleInv, ClaimsCount
<1>10. LoggedOutStaysOut'
  <2>1. \A t \in tokens' : t.epoch = t.seen
    BY <1>9 DEF ClaimsCount
  <2>2. \A t \in tokens' : t.user \in Person /\ t.seen \in Nat /\ logouts[t.user] \in Nat
    BY <1>1, <1>6 DEF ConsoleTypeOK, Claims
  <2> QED
    BY <2>1, <2>2 DEF AppendEntry, ConsoleInv, AccountsAgree, LoggedOutStaysOut, Accepted
<1>11. LoopKnows' /\ PoolKnows'
  <2>1. \A u \in Thread : task'[u] = task[u] \/ task'[u].step = "idle"
    BY <1>3, IdleTask
  <2> QED
    BY <2>1 DEF AppendEntry, ConsoleInv, LoopKnows, PoolKnows, Thread
<1>12. LockHeld'
  <2>1. \A u \in Thread : task'[u].step = "append" => u # th /\ task'[u] = task[u]
    BY <1>3, IdleTask
  <2>2. \A u \in Thread : task'[u].step = "append" => Process(u) # Process(th)
    BY <2>1 DEF AppendEntry, ConsoleInv, LockHeld
  <2>3. ASSUME NEW u \in Thread, task'[u].step = "append",
               NEW m \in (task'[u].last + 1)..Len(log')
        PROVE  log'[m].by # Process(u)
    <3>1. task'[u] = task[u] /\ task[u].last \in Nat
      BY <1>1, <2>1, <2>3 DEF ConsoleTypeOK, Task
    <3>2. CASE m = Len(log) + 1
      BY <1>5, <2>2, <2>3, <3>2
    <3>3. CASE m # Len(log) + 1
      <4>1. m \in (task[u].last + 1)..Len(log) /\ m \in 1..Len(log)
        BY <1>1, <1>5, <2>3, <3>1, <3>3
      <4> QED
        BY <1>5, <2>3, <3>1, <4>1 DEF ConsoleInv, LockHeld
    <3> QED
      BY <3>2, <3>3
  <2> QED
    BY <2>1, <2>3 DEF ConsoleInv, LockHeld
<1>13. ForksNeedTwoWriters'
  <2> SUFFICES ASSUME NEW n \in 1..Len(log'), NEW m \in (log'[n].prev + 1)..(n - 1)
               PROVE  log'[m].by # log'[n].by
    BY DEF ForksNeedTwoWriters
  <2>1. CASE n = Len(log) + 1
    <3>1. m \in (task[th].last + 1)..Len(log) /\ m \in 1..Len(log)
      BY <1>1, <1>5, <2>1
    <3>2. log[m].by # Process(th)
      BY <3>1 DEF AppendEntry, ConsoleInv, LockHeld
    <3> QED
      BY <1>5, <2>1, <3>1, <3>2
  <2>2. CASE n # Len(log) + 1
    <3>1. n \in 1..Len(log) /\ log'[n] = log[n] /\ log[n].prev \in Nat
      <4>1. n \in 1..Len(log)
        BY <1>1, <1>5, <2>2
      <4>2. log[n] \in [by : {"gateway", "worker"}, prev : Nat]
        <5> DEFINE Entry == [by : {"gateway", "worker"}, prev : Nat]
        <5>1. log \in Seq(Entry)
          BY <1>4
        <5> HIDE DEF Entry
        <5>2. log[n] \in Entry
          BY <4>1, <5>1
        <5> QED
          BY <5>2 DEF Entry
      <4> QED
        BY <1>5, <4>1, <4>2
    <3>2. m \in (log[n].prev + 1)..(n - 1) /\ m \in 1..Len(log)
      BY <1>1, <3>1
    <3> QED
      BY <1>5, <3>1, <3>2 DEF ConsoleInv, ForksNeedTwoWriters
  <2> QED
    BY <2>1, <2>2
<1>14. WaitingKnow'
  BY WaitingStays DEF AppendEntry
<1> QED
  BY <1>7, <1>8, <1>9, <1>10, <1>11, <1>12, <1>13, <1>14 DEF ConsoleInv

(* A restart drops the gateway's requests, and with them its lock. *)
LEMMA GatewayRestartsKeeps ==
  ASSUME ConsoleInv, GatewayRestarts
  PROVE  ConsoleInv'
<1>1. ConsoleTypeOK
  BY DEF ConsoleInv
<1>2. /\ task' \in [Thread -> Task] /\ task'["loop"] = Idle /\ task'["pool"] = Idle
      /\ task'["work"] = task["work"]
  BY <1>1, IdleTask DEF GatewayRestarts, ConsoleTypeOK, Thread
<1>3. \A u \in Thread : task'[u] = Idle \/ task'[u] = task[u]
  BY <1>2 DEF Thread
<1>4. ConsoleTypeOK'
  <2>0. Len(log) \in Nat
    BY <1>1 DEF ConsoleTypeOK
  <2>1. \A u \in Thread : task'[u].last <= Len(log)
    BY <1>1, <1>3, <2>0, IdleTask DEF ConsoleTypeOK
  <2> QED
    BY <1>1, <1>2, <2>1 DEF GatewayRestarts, ConsoleTypeOK
<1>5. AccountsAgree' /\ LoggedOutStaysOut' /\ InvitesBurnt' /\ RolesAreGranted' /\ InviteOnce'
  BY DEF GatewayRestarts, ConsoleInv, AccountsAgree, LoggedOutStaysOut, Accepted, InvitesBurnt,
     RolesAreGranted, InviteOnce
<1>6. ClaimsCount'
  BY <1>3, IdleTask DEF GatewayRestarts, ConsoleInv, ClaimsCount
<1>7. LoopKnows' /\ PoolKnows'
  BY <1>2, IdleTask DEF LoopKnows, PoolKnows
<1>8. LockHeld' /\ ForksNeedTwoWriters'
  BY <1>3, IdleTask, ChainRests DEF GatewayRestarts
<1>9. WaitingKnow'
  BY WaitingStays DEF GatewayRestarts
<1> QED
  BY <1>4, <1>5, <1>6, <1>7, <1>8, <1>9 DEF ConsoleInv

(* Every step keeps it. *)
LEMMA ConsoleStep == ConsoleInv /\ [ConsoleNext]_consoleVars => ConsoleInv'
<1> SUFFICES ASSUME ConsoleInv, [ConsoleNext]_consoleVars PROVE ConsoleInv'
  OBVIOUS
<1>1. CASE ConsoleNext
  BY <1>1, FoundKeeps, LoginKeeps, JoinKeeps, CreateUserKeeps, LogoutKeeps, LetInviteKeeps,
     MakeInviteKeeps, WaitingKeeps, BumpSessionEpochKeeps, WorkerAuditsKeeps, ReadLastKeeps, AppendEntryKeeps,
     GatewayRestartsKeeps
     DEF ConsoleNext
<1>2. CASE UNCHANGED consoleVars
  BY <1>2 DEF consoleVars, ConsoleInv, ConsoleTypeOK, AccountsAgree, ClaimsCount, LoopKnows,
     PoolKnows, WaitingKnow, InvitesBurnt, LockHeld, RolesAreGranted, InviteOnce,
     LoggedOutStaysOut, ForksNeedTwoWriters, Accepted
<1> QED
  BY <1>1, <1>2

(* What the accounts, the tokens and the threads know holds throughout. *)
THEOREM ConsoleCorrect == ConsoleSpec => []ConsoleInv
BY ConsoleInitInv, ConsoleStep, PTL DEF ConsoleSpec

(* One founder; everybody else has the role an authorised account gave the invite. *)
THEOREM ConsoleRolesAreGranted == ConsoleSpec => []RolesAreGranted
BY ConsoleCorrect, PTL DEF ConsoleInv

(* No invite admits two accounts, through failed sign-ups and restarts. *)
THEOREM ConsoleInviteOnce == ConsoleSpec => []InviteOnce
BY ConsoleCorrect, PTL DEF ConsoleInv

(* No HTTP request accepts a token read before a logout, although the logout runs in the pool
   beside logins (gateway/app.py, _session_claims). *)
THEOREM ConsoleLoggedOutStaysOut == ConsoleSpec => []LoggedOutStaysOut
BY ConsoleCorrect, PTL DEF ConsoleInv

(* The audit chain forks only between the gateway and the worker. *)
THEOREM ConsoleForksNeedTwoWriters == ConsoleSpec => []ForksNeedTwoWriters
BY ConsoleCorrect, PTL DEF ConsoleInv

(* With a single writing process the chain verifies from end to end: every entry is chained to
   the one before it (Store.verify_audit_chain). *)
THEOREM ConsoleOneWriterVerifies ==
  ConsoleSpec => []((\A m, n \in 1..Len(log) : log[m].by = log[n].by) => VerifyAuditChain)
<1>1. ConsoleInv => ((\A m, n \in 1..Len(log) : log[m].by = log[n].by) => VerifyAuditChain)
  <2> SUFFICES ASSUME ConsoleInv, \A m, n \in 1..Len(log) : log[m].by = log[n].by,
                      NEW n \in 1..Len(log)
               PROVE  log[n].prev = n - 1
    BY DEF VerifyAuditChain
  <2>1. /\ log \in Seq([by : {"gateway", "worker"}, prev : Nat])
        /\ \A k \in 1..Len(log) : log[k].prev < k
    BY DEF ConsoleInv, ConsoleTypeOK
  <2>2. log[n] \in [by : {"gateway", "worker"}, prev : Nat]
    <3> DEFINE Entry == [by : {"gateway", "worker"}, prev : Nat]
    <3>1. log \in Seq(Entry) /\ n \in 1..Len(log)
      BY <2>1
    <3> HIDE DEF Entry
    <3>2. log[n] \in Entry
      BY <3>1
    <3> QED
      BY <3>2 DEF Entry
  <2>3. Len(log) \in Nat
    BY <2>1
  <2>4. /\ log[n].prev \in Nat
        /\ log[n].prev < n /\ n \in Nat /\ n <= Len(log) /\ 1 <= n
    BY <2>1, <2>2, <2>3
  <2>5. CASE log[n].prev < n - 1
    <3>1. n - 1 \in (log[n].prev + 1)..(n - 1) /\ n - 1 \in 1..Len(log)
      BY <2>4, <2>5
    <3> QED
      BY <3>1 DEF ConsoleInv, ForksNeedTwoWriters
  <2> QED
    BY <2>4, <2>5
<1> QED
  BY <1>1, ConsoleCorrect, PTL

=============================================================================
