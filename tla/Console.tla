------------------------------ MODULE Console ------------------------------
(***************************************************************************)
(* The accounts of one tenant's console and the audit log they write:      *)
(* sign-up, login, logout, invites and the live stream of                  *)
(* src/voclyp/gateway/app.py over the users, invites and audit_log tables  *)
(* of src/voclyp/store.py.                                                 *)
(*                                                                         *)
(* Three threads write: the gateway's event loop, which runs one async     *)
(* handler at a time, a thread of the gateway's pool, which runs the       *)
(* synchronous logout handler beside it, and the worker, a process of its  *)
(* own whose audit entries join the same chain.  A handler that awaits     *)
(* leaves the loop to others: an invite waits for its body, a live stream  *)
(* for its audio (what it does with it is LiveSession's).  Passwords,      *)
(* signatures and hashes are taken to work: a token is what the gateway    *)
(* signed, an entry's prev_hash is the number of the entry whose hash it   *)
(* holds.  No code changes a user's role, and no token expires here.       *)
(***************************************************************************)
EXTENDS Integers, Sequences, FiniteSets

CONSTANTS
  Person,      \* email addresses
  Invite,      \* invite codes
  Role,        \* USER_ROLES
  Manager,     \* the roles that may invite
  NoUser,      \* no user
  MaxEntries,  \* bound: entries of the audit log
  MaxWaiting   \* bound: handlers that await at a time

ASSUME ConsoleAssumption ==
  /\ MaxEntries \in Nat /\ MaxWaiting \in Nat
  /\ "manager" \in Manager /\ Manager \subseteq Role /\ "none" \notin Role
  /\ {"none", "founder"} \cap Invite = {} /\ NoUser \notin Person

Thread == {"loop", "pool", "work"}
Process(th) == IF th = "work" THEN "worker" ELSE "gateway"

VARIABLES
  tenant,    \* whether the tenant's row exists
  role,      \* users.role, "none" without a user
  epoch,     \* users.session_epoch
  joined,    \* how a user got its role: "founder" or the invite
  invite,    \* the invites table
  tokens,    \* session tokens handed out, with the logouts before their claims were read
  logouts,   \* how often a user has logged out
  task,      \* what each thread is doing
  inviting,  \* tokens that were let through to make an invite, whose body is awaited
  streams,   \* open live streams: the token, and the logouts before it was let through
  log        \* audit_log: the writer and the number of the entry hashed as prev_hash

consoleVars == <<tenant, role, epoch, joined, invite, tokens, logouts, task,
                 inviting, streams, log>>

Idle == [step |-> "idle", who |-> NoUser, role |-> "none", via |-> "none", claims |-> {},
         last |-> 0]
Claims == [user : Person, epoch : Nat, seen : Nat]
Task == [step : {"idle", "create", "bump", "audit", "append"},
         who : Person \cup {NoUser}, role : Role \cup {"none"},
         via : Invite \cup {"none", "founder"}, claims : SUBSET Claims, last : Nat]

ConsoleTypeOK ==
  /\ tenant \in BOOLEAN
  /\ role \in [Person -> Role \cup {"none"}]
  /\ epoch \in [Person -> Nat]
  /\ joined \in [Person -> Invite \cup {"none", "founder"}]
  /\ invite \in [Invite -> [state : {"none", "open", "used"}, role : Role \cup {"none"},
                            by : Person \cup {NoUser}]]
  /\ tokens \subseteq Claims
  /\ logouts \in [Person -> Nat]
  /\ task \in [Thread -> Task]
  /\ \A th \in Thread : task[th].last <= Len(log)
  /\ log \in Seq([by : {"gateway", "worker"}, prev : Nat])
  /\ \A n \in 1..Len(log) : log[n].prev < n

ConsoleInit ==
  /\ tenant \in BOOLEAN          \* new, or seeded by a script
  /\ role = [p \in Person |-> "none"]
  /\ epoch = [p \in Person |-> 0]
  /\ joined = [p \in Person |-> "none"]
  /\ invite = [i \in Invite |-> [state |-> "none", role |-> "none", by |-> NoUser]]
  /\ tokens = {}
  /\ logouts = [p \in Person |-> 0]
  /\ task = [th \in Thread |-> Idle]
  /\ inviting = {} /\ streams = {}
  /\ log = <<>>

\* The bound on the log: a request begins only while its entry still fits.
Begins(th) ==
  /\ task[th] = Idle
  /\ Len(log) + Cardinality({t \in Thread : task[t] # Idle}) < MaxEntries

awaiting == <<inviting, streams>>

-----------------------------------------------------------------------------
(* Sign-up *)

Founding == ~tenant \/ \A p \in Person : role[p] = "none"

Admit(p, r, via) == task' = [task EXCEPT !["loop"] =
                       [Idle EXCEPT !.step = "create", !.who = p, !.role = r, !.via = via]]

\* The first account owns the tenant, whose row it may create.
Found(p) ==
  /\ Begins("loop") /\ Founding
  /\ tenant' = TRUE
  /\ Admit(p, "manager", "founder")
  /\ UNCHANGED <<role, epoch, joined, invite, tokens, logouts, log, awaiting>>

\* Mutant: the code is checked and stays good.
JoinKeeping(p, i) ==
  /\ Begins("loop") /\ ~Founding
  /\ invite[i].state = "open"
  /\ Admit(p, invite[i].role, i)
  /\ UNCHANGED <<tenant, role, epoch, joined, invite, tokens, logouts, log, awaiting>>

\* consume_invite: the code is checked and burnt before the account exists.
Join(p, i) ==
  /\ Begins("loop") /\ ~Founding
  /\ invite[i].state = "open"
  /\ invite' = [invite EXCEPT ![i].state = "used"]
  /\ Admit(p, invite[i].role, i)
  /\ UNCHANGED <<tenant, role, epoch, joined, tokens, logouts, log, awaiting>>

\* The claims of a token, read from the user's row.
ClaimsOf(p, e) == {[user |-> p, epoch |-> e, seen |-> logouts[p]]}

\* create_user raises on a taken email, and on a bad name, email or password.
CreateUser(valid) ==
  LET p == task["loop"].who
  IN /\ task["loop"].step = "create"
     /\ IF valid /\ role[p] = "none"
        THEN /\ role' = [role EXCEPT ![p] = task["loop"].role]
             /\ epoch' = [epoch EXCEPT ![p] = 0]
             /\ joined' = [joined EXCEPT ![p] = task["loop"].via]
             /\ task' = [task EXCEPT !["loop"] =
                           [Idle EXCEPT !.step = "audit", !.claims = ClaimsOf(p, 0)]]
        ELSE task' = [task EXCEPT !["loop"] = Idle] /\ UNCHANGED <<role, epoch, joined>>
     /\ UNCHANGED <<tenant, invite, tokens, logouts, log, awaiting>>

-----------------------------------------------------------------------------
(* Sessions and invites *)

\* With the right password: the row is read, the entry is written, then the token goes out.
Login(p) ==
  /\ Begins("loop") /\ role[p] # "none"
  /\ task' = [task EXCEPT !["loop"] =
                [Idle EXCEPT !.step = "audit", !.claims = ClaimsOf(p, epoch[p])]]
  /\ UNCHANGED <<tenant, role, epoch, joined, invite, tokens, logouts, log, awaiting>>

\* _session_claims: a token counts against the user's row as it is now.
Accepted(t) == role[t.user] # "none" /\ t.epoch = epoch[t.user]

\* A handler that awaits begins.
Awaits == Cardinality(inviting) + Cardinality(streams) < MaxWaiting

\* Mutant: whoever is logged in may invite.
LetInviteAnyone(t) ==
  /\ Awaits
  /\ Accepted(t)
  /\ inviting' = inviting \cup {t}
  /\ UNCHANGED <<tenant, role, epoch, joined, invite, tokens, logouts, task, streams, log>>

\* The token and the role are checked before the handler awaits the body.
LetInvite(t) ==
  /\ Awaits
  /\ Accepted(t) /\ role[t.user] \in Manager
  /\ inviting' = inviting \cup {t}
  /\ UNCHANGED <<tenant, role, epoch, joined, invite, tokens, logouts, task, streams, log>>

\* The body has arrived: whatever became of the token meanwhile, the invite is made.
MakeInvite(t, i, r) ==
  /\ Begins("loop")
  /\ invite[i].state = "none"
  /\ invite' = [invite EXCEPT ![i] = [state |-> "open", role |-> r, by |-> t.user]]
  /\ task' = [task EXCEPT !["loop"] = [Idle EXCEPT !.step = "audit"]]
  /\ inviting' = inviting \ {t}
  /\ UNCHANGED <<tenant, role, epoch, joined, tokens, logouts, streams, log>>

\* No JSON, a role that does not exist, or the caller has gone.
RefuseInvite(t) ==
  /\ inviting' = inviting \ {t}
  /\ UNCHANGED <<tenant, role, epoch, joined, invite, tokens, logouts, task, streams, log>>

\* session_stream lets in whoever has a signed token of a user that exists: it does not
\* ask for the epoch, when it opens or later.
OpenStream(t) ==
  /\ Awaits
  /\ role[t.user] # "none"
  /\ streams' = streams \cup {[token |-> t, since |-> logouts[t.user]]}
  /\ UNCHANGED <<tenant, role, epoch, joined, invite, tokens, logouts, task, inviting, log>>

CloseStream(x) ==
  /\ streams' = streams \ {x}
  /\ UNCHANGED <<tenant, role, epoch, joined, invite, tokens, logouts, task, inviting, log>>

\* The synchronous handler: the token is checked, then the thread pool runs it.
Logout(t) ==
  /\ Begins("pool") /\ Accepted(t)
  /\ task' = [task EXCEPT !["pool"] = [Idle EXCEPT !.step = "bump", !.who = t.user]]
  /\ UNCHANGED <<tenant, role, epoch, joined, invite, tokens, logouts, log, awaiting>>

\* Mutant: the epoch is set, not counted up.
BumpSessionEpochToOne ==
  LET p == task["pool"].who
  IN /\ task["pool"].step = "bump"
     /\ epoch' = [epoch EXCEPT ![p] = 1]
     /\ logouts' = [logouts EXCEPT ![p] = @ + 1]
     /\ task' = [task EXCEPT !["pool"] = [Idle EXCEPT !.step = "audit"]]
     /\ UNCHANGED <<tenant, role, joined, invite, tokens, log, awaiting>>

BumpSessionEpoch ==
  LET p == task["pool"].who
  IN /\ task["pool"].step = "bump"
     /\ epoch' = [epoch EXCEPT ![p] = @ + 1]
     /\ logouts' = [logouts EXCEPT ![p] = @ + 1]
     /\ task' = [task EXCEPT !["pool"] = [Idle EXCEPT !.step = "audit"]]
     /\ UNCHANGED <<tenant, role, joined, invite, tokens, log, awaiting>>

\* The worker records a deletion, an insight or a failure.
WorkerAudits ==
  /\ Begins("work")
  /\ task' = [task EXCEPT !["work"] = [Idle EXCEPT !.step = "audit"]]
  /\ UNCHANGED <<tenant, role, epoch, joined, invite, tokens, logouts, log, awaiting>>

-----------------------------------------------------------------------------
(* audit: the last hash is read, then the entry is inserted, under a lock of the process *)

\* Mutant: the audit log is written without the lock.
UnlockedAlways(th) == task[th].step # "append"

Unlocked(th) == \A t \in Thread : Process(t) = Process(th) => task[t].step # "append"

ReadLast(th) ==
  /\ task[th].step = "audit" /\ Unlocked(th)
  /\ task' = [task EXCEPT ![th].step = "append", ![th].last = Len(log)]
  /\ UNCHANGED <<tenant, role, epoch, joined, invite, tokens, logouts, log, awaiting>>

\* The handler ends with its entry; a sign-up or a login answers with the token.
AppendEntry(th) ==
  /\ task[th].step = "append"
  /\ log' = Append(log, [by |-> Process(th), prev |-> task[th].last])
  /\ tokens' = tokens \cup task[th].claims
  /\ task' = [task EXCEPT ![th] = Idle]
  /\ UNCHANGED <<tenant, role, epoch, joined, invite, logouts, awaiting>>

\* The gateway dies with the requests it was working on; its signing secret is configured
\* or derived from the master key, so the tokens it handed out stay good.
GatewayRestarts ==
  /\ task' = [task EXCEPT !["loop"] = Idle, !["pool"] = Idle]
  /\ inviting' = {} /\ streams' = {}
  /\ UNCHANGED <<tenant, role, epoch, joined, invite, tokens, logouts, log>>

ConsoleNext ==
  \/ \E p \in Person : Found(p) \/ Login(p) \/ \E i \in Invite : Join(p, i)
  \/ \E valid \in BOOLEAN : CreateUser(valid)
  \/ \E t \in tokens : Logout(t) \/ LetInvite(t) \/ OpenStream(t)
  \/ \E t \in inviting : RefuseInvite(t) \/ \E i \in Invite, r \in Role : MakeInvite(t, i, r)
  \/ \E x \in streams : CloseStream(x)
  \/ BumpSessionEpoch
  \/ WorkerAudits
  \/ \E th \in Thread : ReadLast(th) \/ AppendEntry(th)
  \/ GatewayRestarts

ConsoleSpec == ConsoleInit /\ [][ConsoleNext]_consoleVars

-----------------------------------------------------------------------------
(* What the console promises *)

\* Nobody gives a role to himself: at most one account of the tenant founded it, through
\* failed sign-ups and restarts, every other one has the role of the invite it came with,
\* and every invite was issued by an account that may invite.
RolesAreGranted ==
  /\ \A p, q \in Person : joined[p] = "founder" /\ joined[q] = "founder" => p = q
  /\ \A p \in Person : joined[p] \in Invite => role[p] = invite[joined[p]].role
  /\ \A i \in Invite : invite[i].state # "none" =>
       invite[i].by \in Person /\ role[invite[i].by] \in Manager

\* An invite admits one account: the code is burnt before the account is created, so a
\* restart or a failed sign-up can waste it and none can use it twice.
InviteOnce == \A p, q \in Person : joined[p] = joined[q] /\ joined[p] \in Invite => p = q

\* A logout is final for every HTTP request (_session_claims): no token whose claims were
\* read before it is accepted again, those of a login that was answered only after the
\* logout included.  The live stream does not ask, see StreamsRevalidate.
LoggedOutStaysOut == \A t \in tokens : t.seen < logouts[t.user] => ~Accepted(t)

\* SECURITY.md:53-57 "every request re-validates the token against live user state", "logout
\* take[s] effect immediately": no live stream is opened with a token of before a logout.
StreamsRevalidate == \A x \in streams : x.token.seen = x.since

\* The chain as verify_audit_chain recomputes it.
VerifyAuditChain == \A n \in 1..Len(log) : log[n].prev = n - 1

\* The chain forks only between processes: the entries between one and the entry it was
\* chained to are all another process's, whatever the threads of one process do.
ForksNeedTwoWriters ==
  \A n \in 1..Len(log) : \A m \in (log[n].prev + 1)..(n - 1) : log[m].by # log[n].by

-----------------------------------------------------------------------------
(* Why: what the accounts, the tokens and the threads know *)

\* An account has a role from the moment it joined, in a tenant that exists, and has an
\* epoch that counts its logouts.
AccountsAgree ==
  \A p \in Person :
    /\ role[p] # "none" <=> joined[p] # "none"
    /\ role[p] # "none" => tenant
    /\ role[p] = "none" => logouts[p] = 0
    /\ epoch[p] = logouts[p]

\* The claims handed out or about to be were read from an epoch that counted the logouts.
ClaimsCount ==
  \A t \in tokens \cup UNION {task[th].claims : th \in Thread} : t.epoch = t.seen

\* The loop creates an account it has admitted: as the founder while there is none, or with
\* the role of an invite it has burnt for this account alone.
LoopKnows ==
  LET l == task["loop"]
  IN l.step = "create" =>
       /\ l.who \in Person /\ l.role \in Role /\ tenant
       /\ l.via = "founder" => \A p \in Person : role[p] = "none"
       /\ l.via # "founder" => /\ l.via \in Invite /\ invite[l.via].state = "used"
                              /\ l.role = invite[l.via].role
                              /\ \A p \in Person : joined[p] # l.via

\* What the waiting handlers hold: whoever was let through to invite may do so.
WaitingKnow ==
  /\ inviting \subseteq Claims
  /\ streams \subseteq [token : Claims, since : Nat]
  /\ \A t \in inviting : role[t.user] \in Manager

\* The pool bumps the epoch of an account that exists.
PoolKnows == task["pool"].step = "bump" =>
               task["pool"].who \in Person /\ role[task["pool"].who] # "none"

\* An invite that admitted somebody is used up.
InvitesBurnt ==
  /\ \A p \in Person : joined[p] \in Invite => invite[joined[p]].state = "used"
  /\ \A i \in Invite : invite[i].state # "none" => invite[i].role \in Role

\* The lock is a process's own: one thread of it appends, after entries of others only.
LockHeld ==
  /\ \A th, t \in Thread :
       task[th].step = "append" /\ task[t].step = "append" /\ Process(th) = Process(t) => th = t
  /\ \A th \in Thread : task[th].step = "append" =>
       \A m \in (task[th].last + 1)..Len(log) : log[m].by # Process(th)

\* The inductive invariant of the console (proved in ConsoleProofs).
ConsoleInv ==
  /\ ConsoleTypeOK
  /\ AccountsAgree /\ ClaimsCount /\ LoopKnows /\ PoolKnows /\ WaitingKnow /\ InvitesBurnt
  /\ LockHeld
  /\ RolesAreGranted /\ InviteOnce /\ LoggedOutStaysOut /\ ForksNeedTwoWriters

=============================================================================
