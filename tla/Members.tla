------------------------------- MODULE Members -------------------------------
(***************************************************************************)
(* Members and invites of servers: MemberService and its routes, with the  *)
(* transaction of get_session around each request.                         *)
(*                                                                         *)
(* "alive", "member" and "invite" hold the committed rows. A handler is a  *)
(* sequence of statements and other requests run between them; PostgreSQL  *)
(* runs at READ COMMITTED (see Auth). A row that refers to a server keeps  *)
(* that server from being deleted until its transaction ends.              *)
(*                                                                         *)
(* Module Auth shows that an address has one account, so the account       *)
(* stands for its (lower-cased) address here.                              *)
(***************************************************************************)
EXTENDS Naturals, FiniteSets

CONSTANTS
    Servers,    \* ids of rows of "servers"
    Users,      \* accounts
    Admins,     \* the accounts with role "admin"
    Owner,      \* [Servers -> Users]: servers.owner_id, never updated
    Invites,    \* ids of rows of "server_invites", each with its token
    Requests,   \* HTTP requests, each made once
    MaxOpen,    \* bound: requests in progress at the same time
    None        \* SQL NULL, Python None

ASSUME MembersAssumption ==
    /\ Admins \subseteq Users
    /\ Owner \in [Servers -> Users]
    /\ MaxOpen \in Nat

VARIABLES
    alive,      \* servers whose row exists
    member,     \* [Servers -> [Users -> role or None]]
    invite,     \* [Invites -> InviteRow or None]
    req         \* [Requests -> Request]

vars == <<alive, member, invite, req>>

-----------------------------------------------------------------------------
Roles == {"viewer", "operator"}
InviteRow == [srv : Servers, email : Users, role : Roles, expired : BOOLEAN,
              accepted : BOOLEAN, revoked : BOOLEAN]

Ops == {"invite", "accept", "revoke", "remove"}

\* NULL is no row, and no operation.
ASSUME RowAssumption == None \notin InviteRow \cup Ops

Outcomes == {"ok", "refused", "error", "failed"}
Steps == {"find", "insert", "check", "admit", "mark", "revoke", "delete", "commit"}
Request == [op : Ops \cup {None},
            pc : {"new"} \cup Steps \cup Outcomes,
            srv : Servers \cup {None}, user : Users \cup {None},
            role : Roles \cup {None}, inv : Invites \cup {None}]

NoRequest == [op |-> None, pc |-> "new", srv |-> None, user |-> None, role |-> None, inv |-> None]

Init ==
    /\ alive = Servers
    /\ member = [s \in Servers |-> [u \in Users |-> None]]
    /\ invite = [i \in Invites |-> None]
    /\ req = [r \in Requests |-> NoRequest]

-----------------------------------------------------------------------------
CanBegin(r) ==
    /\ req[r].pc = "new"
    /\ Cardinality({q \in Requests : req[q].pc \in Steps}) < MaxOpen

Goto(r, pc) == req' = [req EXCEPT ![r].pc = pc]
NoRows == UNCHANGED <<alive, member, invite>>

\* get_server_role_for: what an account may do on a server.
RoleOf(u, s) ==
    IF s \notin alive THEN None
    ELSE IF u \in Admins \/ Owner[s] = u THEN "owner" ELSE member[s][u]

IsOpen(i) == invite[i] # None /\ ~invite[i].accepted /\ ~invite[i].revoked
OpenFor(s, u) == {i \in Invites : IsOpen(i) /\ invite[i].srv = s /\ invite[i].email = u}

\* Rows that a transaction has written and not committed.
Writes(q, ops, pcs) == req[q].op \in ops /\ req[q].pc \in pcs

\* Mutant: the row stays locked after the transaction.
WritesInviteForEver(q, i) == Writes(q, {"accept", "revoke"}, {"commit", "ok"}) /\ req[q].inv = i

\* Mutant: nobody waits for a row of "server_invites".
WritesInviteNever(q, i) == FALSE

WritesInvite(q, i) == Writes(q, {"accept", "revoke"}, {"commit"}) /\ req[q].inv = i

InsertsInvite(q, s, u) == Writes(q, {"invite"}, {"commit"}) /\ req[q].srv = s /\ req[q].user = u

WritesMember(q, s, u) ==
    /\ Writes(q, {"accept"}, {"mark", "commit"}) \/ Writes(q, {"remove"}, {"commit"})
    /\ req[q].srv = s /\ req[q].user = u

\* Mutant: no foreign key.
RefersToNothing(q, s) == FALSE

\* A row with a foreign key to servers, inserted and not committed.
RefersTo(q, s) ==
    /\ Writes(q, {"invite"}, {"commit"}) \/ Writes(q, {"accept"}, {"mark", "commit"})
    /\ req[q].srv = s

Others(r) == Requests \ {r}

\* The requests whose uncommitted rows the next statement of request r needs:
\* an INSERT waits for the same key, and where a unique index is partial also
\* for the end of the row that is in its way; an UPDATE and a DELETE by
\* primary key wait for the row.
WaitsFor(r) ==
    LET s == req[r].srv
        u == req[r].user
    IN  {q \in Others(r) :
           \/ /\ req[r].pc = "insert"
              /\ InsertsInvite(q, s, u) \/ \E i \in OpenFor(s, u) : WritesInvite(q, i)
           \/ req[r].pc \in {"admit", "delete"} /\ WritesMember(q, s, u)
           \/ req[r].pc \in {"mark", "revoke"} /\ WritesInvite(q, req[r].inv)}

FreshInvites == {i \in Invites : invite[i] = None /\ \A q \in Requests : req[q].inv # i}

-----------------------------------------------------------------------------
(* POST /servers/{id}/members/invite *)

\* The role check, the server, the account of the address and its membership.
InviteRead(r, actor, s, u, role) ==
    /\ CanBegin(r)
    /\ req' = [req EXCEPT ![r] =
         [op |-> "invite", srv |-> s, user |-> u, role |-> role, inv |-> None,
          pc |-> IF RoleOf(actor, s) # "owner" \/ member[s][u] # None \/ Owner[s] = u
                 THEN "refused" ELSE "find"]]
    /\ NoRows

\* find_open: an expired invite counts until it is revoked.
InviteFind(r) ==
    /\ req[r].op = "invite" /\ req[r].pc = "find"
    /\ Goto(r, IF OpenFor(req[r].srv, req[r].user) # {} THEN "refused" ELSE "insert")
    /\ NoRows

\* Mutant: nothing but find_open keeps open invites apart.
InviteInsertUnchecked(r) ==
    /\ req[r].op = "invite" /\ req[r].pc = "insert"
    /\ \E i \in FreshInvites : req' = [req EXCEPT ![r].pc = "commit", ![r].inv = i]
    /\ NoRows

\* The INSERT: the partial unique index makes it wait for transactions that
\* insert an open invite for the address or close the one there is; a second
\* open invite, or a server that is gone, is an IntegrityError (409).
InviteInsert(r) ==
    LET s == req[r].srv
        u == req[r].user
    IN  /\ req[r].op = "invite" /\ req[r].pc = "insert"
        /\ WaitsFor(r) = {}
        /\ \/ /\ OpenFor(s, u) # {} \/ s \notin alive
              /\ Goto(r, "refused")
           \/ /\ OpenFor(s, u) = {} /\ s \in alive
              /\ \E i \in FreshInvites : req' = [req EXCEPT ![r].pc = "commit", ![r].inv = i]
        /\ NoRows

-----------------------------------------------------------------------------
(* POST /invites/{token}/accept. The plain token was shown to the owner when *)
(* the invite was made; anyone who is logged in may send it.                *)

AcceptStart(r, actor, i, pc) ==
    req' = [req EXCEPT ![r] =
        [op |-> "accept", pc |-> pc, user |-> actor, inv |-> i,
         srv |-> IF invite[i] = None THEN None ELSE invite[i].srv,
         role |-> IF invite[i] = None THEN None ELSE invite[i].role]]

\* Mutant: the link is enough, whoever follows it.
AcceptLookupAnyone(r, actor, i) ==
    /\ CanBegin(r)
    /\ AcceptStart(r, actor, i, IF IsOpen(i) /\ ~invite[i].expired THEN "check" ELSE "refused")
    /\ NoRows

\* _lookup_open_invite and the comparison of the addresses.
AcceptLookup(r, actor, i) ==
    /\ CanBegin(r)
    /\ AcceptStart(r, actor, i, IF IsOpen(i) /\ ~invite[i].expired /\ invite[i].email = actor
                                THEN "check" ELSE "refused")
    /\ NoRows

\* The server, its owner and its members.
AcceptCheck(r) ==
    LET s == req[r].srv
        u == req[r].user
    IN  /\ req[r].op = "accept" /\ req[r].pc = "check"
        /\ Goto(r, IF s \notin alive \/ Owner[s] = u \/ member[s][u] # None
                   THEN "refused" ELSE "admit")
        /\ NoRows

\* INSERT INTO server_members waits for a transaction that has written the
\* same key. A key that exists, or a server that is gone, is an
\* IntegrityError that nothing catches (500).
AcceptAdmit(r) ==
    LET s == req[r].srv
        u == req[r].user
    IN  /\ req[r].op = "accept" /\ req[r].pc = "admit"
        /\ WaitsFor(r) = {}
        /\ Goto(r, IF s \notin alive \/ member[s][u] # None THEN "error" ELSE "mark")
        /\ NoRows

\* UPDATE server_invites by primary key, whatever has become of the invite.
AcceptMark(r) ==
    /\ req[r].op = "accept" /\ req[r].pc = "mark"
    /\ WaitsFor(r) = {}
    /\ Goto(r, "commit")
    /\ NoRows

-----------------------------------------------------------------------------
(* DELETE /servers/{id}/invites/{invite_id} *)

RevokeRead(r, actor, s, i) ==
    /\ CanBegin(r)
    /\ req' = [req EXCEPT ![r] =
         [op |-> "revoke", srv |-> s, user |-> None, role |-> None, inv |-> i,
          pc |-> IF RoleOf(actor, s) = "owner" /\ IsOpen(i) /\ invite[i].srv = s
                 THEN "revoke" ELSE "refused"]]
    /\ NoRows

\* UPDATE by primary key; a row that is gone is a StaleDataError (500).
RevokeUpdate(r) ==
    /\ req[r].op = "revoke" /\ req[r].pc = "revoke"
    /\ WaitsFor(r) = {}
    /\ Goto(r, IF invite[req[r].inv] = None THEN "error" ELSE "commit")
    /\ NoRows

-----------------------------------------------------------------------------
(* DELETE /servers/{id}/members/{user_id}: the owner or an admin removes a *)
(* member, a member leaves.                                                *)

RemoveRead(r, actor, s, u) ==
    /\ CanBegin(r)
    /\ req' = [req EXCEPT ![r] =
         [op |-> "remove", srv |-> s, user |-> u, role |-> None, inv |-> None,
          pc |-> IF s \in alive /\ actor \in {u, Owner[s]} \cup Admins
                        /\ Owner[s] # u /\ member[s][u] # None
                 THEN "delete" ELSE "refused"]]
    /\ NoRows

\* DELETE by primary key; no row to delete is only a warning.
RemoveDelete(r) ==
    /\ req[r].op = "remove" /\ req[r].pc = "delete"
    /\ WaitsFor(r) = {}
    /\ Goto(r, IF member[req[r].srv][req[r].user] = None THEN "ok" ELSE "commit")
    /\ NoRows

-----------------------------------------------------------------------------
(* get_session *)

\* invites.accept: the row is marked, so that it admits nobody else.
Used(i) == [invite EXCEPT ![i].accepted = TRUE]

\* The invites after request r is committed.
InvitesAfter(r) ==
    LET i == req[r].inv
    IN  CASE req[r].op = "invite" ->
               [invite EXCEPT ![i] = [srv |-> req[r].srv, email |-> req[r].user,
                                      role |-> req[r].role, expired |-> FALSE,
                                      accepted |-> FALSE, revoked |-> FALSE]]
          [] req[r].op = "accept" -> Used(i)
          [] req[r].op = "revoke" -> [invite EXCEPT ![i].revoked = TRUE]
          [] req[r].op = "remove" -> invite

\* The members after request r is committed.
MembersAfter(r) ==
    CASE req[r].op = "accept" -> [member EXCEPT ![req[r].srv][req[r].user] = req[r].role]
      [] req[r].op = "remove" -> [member EXCEPT ![req[r].srv][req[r].user] = None]
      [] req[r].op \in {"invite", "revoke"} -> member

Commit(r) ==
    /\ req[r].pc = "commit"
    /\ invite' = InvitesAfter(r)
    /\ member' = MembersAfter(r)
    /\ Goto(r, "ok")
    /\ UNCHANGED alive

\* The database refuses the commit.
CommitFails(r) ==
    /\ req[r].pc = "commit"
    /\ Goto(r, "failed")
    /\ NoRows
-----------------------------------------------------------------------------
(* Outside of this component: the clock, and the delete job of the worker, *)
(* whose DELETE FROM servers cascades to members and invites. It waits for *)
(* transactions that hold one of those rows or refer to the server.        *)

Expire(i) ==
    /\ invite[i] # None /\ ~invite[i].expired
    /\ invite' = [invite EXCEPT ![i].expired = TRUE]
    /\ UNCHANGED <<alive, member, req>>

DeleteServer(s) ==
    /\ s \in alive
    /\ \A q \in Requests :
          /\ ~RefersTo(q, s)
          /\ \A u \in Users : ~WritesMember(q, s, u)
          /\ \A i \in Invites : invite[i] # None /\ invite[i].srv = s => ~WritesInvite(q, i)
    /\ alive' = alive \ {s}
    /\ member' = [member EXCEPT ![s] = [u \in Users |-> None]]
    /\ invite' = [i \in Invites |-> IF invite[i] # None /\ invite[i].srv = s THEN None ELSE invite[i]]
    /\ UNCHANGED req

-----------------------------------------------------------------------------
\* Invites that somebody has heard of: the answer leaves before the commit.
Known == {req[q].inv : q \in Requests} \ {None}

Begin(r) ==
    \E actor \in Users :
        \/ \E s \in Servers, u \in Users :
             \/ \E role \in Roles : InviteRead(r, actor, s, u, role)
             \/ RemoveRead(r, actor, s, u)
        \/ \E i \in Known :
             \/ AcceptLookup(r, actor, i)
             \/ \E s \in Servers : RevokeRead(r, actor, s, i)

Proceed(r) ==
    \/ InviteFind(r) \/ InviteInsert(r)
    \/ AcceptCheck(r) \/ AcceptAdmit(r) \/ AcceptMark(r)
    \/ RevokeUpdate(r) \/ RemoveDelete(r)
    \/ Commit(r) \/ CommitFails(r)

Next ==
    \/ \E r \in Requests : Begin(r) \/ Proceed(r)
    \/ \E i \in Invites : Expire(i)
    \/ \E s \in Servers : DeleteServer(s)

Spec == Init /\ [][Next]_vars

-----------------------------------------------------------------------------
TypeOK ==
    /\ alive \subseteq Servers
    /\ member \in [Servers -> [Users -> Roles \cup {None}]]
    /\ invite \in [Invites -> InviteRow \cup {None}]
    /\ req \in [Requests -> Request]

\* An address has at most one open invite to a server, although find_open and
\* the INSERT of invite are two statements.
OneOpenInvite ==
    \A s \in Servers, u \in Users : Cardinality(OpenFor(s, u)) <= 1

\* Whoever is a member was invited: some accepted invite to the server names
\* the address and the role, whatever requests ran at the same time.
MemberWasInvited ==
    \A s \in Servers, u \in Users :
        member[s][u] # None =>
            \E i \in Invites :
                invite[i] # None /\ invite[i].srv = s /\ invite[i].email = u
                    /\ invite[i].role = member[s][u] /\ invite[i].accepted

\* Rows of a server that is gone are gone: no request that read the server
\* before its deletion leaves a member or an invite behind.
RowsBelongToServers ==
    /\ \A s \in Servers, u \in Users : member[s][u] # None => s \in alive
    /\ \A i \in Invites : invite[i] # None => invite[i].srv \in alive

\* However requests wait for each other's rows there is no circle of waits:
\* in every set of requests there is one that waits for none of them.
NoCycle == \A C \in (SUBSET Requests) \ {{}} : \E r \in C : WaitsFor(r) \cap C = {}

\* Requests that hold one row and wait for another never wait for each other,
\* and of those in progress one can always go on. (A request that has run out
\* of ids, which only the bound on Invites makes it do, waits for nobody.)
NoCircularWait ==
    /\ NoCycle
    /\ (\E r \in Requests : req[r].pc \in Steps) /\ FreshInvites # {}
         => \E r \in Requests : req[r].pc \in Steps /\ ENABLED Proceed(r)

-----------------------------------------------------------------------------
(* The inductive invariant of the proofs (module MembersProofs) *)

\* What a request knows of the rows after the statements it has run: a
\* pending invite is new and the only open one; whoever accepts has the row
\* of an invite as long as its server exists; the row to be revoked exists.
RequestOK(r) ==
    LET q == req[r]
    IN  /\ q.pc = "new" => q = NoRequest
        /\ q.pc \in Steps => q.srv \in Servers /\ q.op \in Ops
        /\ q.op = "invite" /\ q.pc \in Steps => q.user \in Users /\ q.role \in Roles
        /\ q.op = "invite" /\ q.pc = "commit" =>
             /\ q.inv \in Invites /\ invite[q.inv] = None
             /\ q.srv \in alive /\ OpenFor(q.srv, q.user) = {}
        /\ q.op = "accept" /\ q.pc \in Steps =>
             /\ q.user \in Users /\ q.role \in Roles /\ q.inv \in Invites
             /\ q.pc \in {"mark", "commit"} => q.srv \in alive
             /\ q.srv \in alive =>
                  /\ invite[q.inv] # None /\ invite[q.inv].srv = q.srv
                  /\ invite[q.inv].email = q.user /\ invite[q.inv].role = q.role
        /\ q.op = "revoke" /\ q.pc \in Steps => q.inv \in Invites
        /\ q.op = "revoke" /\ q.pc = "commit" => invite[q.inv] # None
        /\ q.op = "remove" /\ q.pc \in Steps => q.user \in Users

\* Two pending invites have different rows, and are not for the same address
\* of the same server.
PendingDistinct ==
    \A q, r \in Requests :
        q # r /\ Writes(q, {"invite"}, {"commit"}) /\ Writes(r, {"invite"}, {"commit"}) =>
            /\ req[q].inv # req[r].inv
            /\ req[q].srv = req[r].srv => req[q].user # req[r].user

OpenDistinct ==
    \A i, j \in Invites :
        IsOpen(i) /\ IsOpen(j) /\ invite[i].srv = invite[j].srv
            /\ invite[i].email = invite[j].email => i = j

\* Every request is in order whatever the others did, pending invites do not
\* collide, and the promises about the committed rows hold.
IndInv ==
    /\ TypeOK
    /\ \A r \in Requests : RequestOK(r)
    /\ PendingDistinct
    /\ OpenDistinct
    /\ MemberWasInvited
    /\ RowsBelongToServers
=============================================================================
