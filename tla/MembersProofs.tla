---------------------------- MODULE MembersProofs ----------------------------
(***************************************************************************)
(* Proofs about module Members, for every set of servers, accounts, invite *)
(* ids and requests and every number of requests in progress: IndInv is an *)
(* inductive invariant, and the safety properties follow.                  *)
(***************************************************************************)
EXTENDS Members, FiniteSetTheorems, TLAPS

-----------------------------------------------------------------------------
(* Frames *)

\* A step of request r that touches no row preserves the invariant if the
\* request is in order after it and, should it have a pending invite then, has
\* a row and an address that no other pending invite has.
LEMMA RequestFrame ==
    ASSUME IndInv, NEW r \in Requests, NEW x \in Request,
           req' = [req EXCEPT ![r] = x], NoRows, RequestOK(r)',
           x.op = "invite" /\ x.pc = "commit" =>
                \A q \in Others(r) :
                    /\ req[q].inv # x.inv
                    /\ ~InsertsInvite(q, x.srv, x.user)
    PROVE  IndInv'
<1>1. /\ req \in [Requests -> Request] /\ req' \in [Requests -> Request] /\ req'[r] = x
      /\ \A q \in Requests : q # r => req'[q] = req[q]
      /\ alive' = alive /\ member' = member /\ invite' = invite
  BY DEF IndInv, TypeOK, NoRows
<1>2. ASSUME NEW q \in Requests PROVE RequestOK(q)'
  <2>1. CASE q = r BY <2>1
  <2>2. CASE q # r BY <2>2, <1>1 DEF IndInv, RequestOK, OpenFor, IsOpen
  <2> QED BY <2>1, <2>2
<1>3. PendingDistinct'
  <2> SUFFICES ASSUME NEW q \in Requests, NEW p \in Requests, q # p,
                      req'[q].op = "invite", req'[q].pc = "commit",
                      req'[p].op = "invite", req'[p].pc = "commit"
               PROVE  /\ req'[q].inv # req'[p].inv
                      /\ req'[q].srv = req'[p].srv => req'[q].user # req'[p].user
    BY DEF PendingDistinct, Writes
  <2>1. CASE q # r /\ p # r
    BY <2>1, <1>1 DEF IndInv, PendingDistinct, Writes
  <2>2. CASE q = r
    BY <2>2, <1>1 DEF Others, InsertsInvite, Writes
  <2>3. CASE p = r
    BY <2>3, <1>1 DEF Others, InsertsInvite, Writes
  <2> QED BY <2>1, <2>2, <2>3
<1>4. TypeOK' /\ OpenDistinct' /\ MemberWasInvited' /\ RowsBelongToServers'
  BY <1>1 DEF IndInv, TypeOK, OpenDistinct, IsOpen, MemberWasInvited, RowsBelongToServers
<1> QED BY <1>2, <1>3, <1>4 DEF IndInv

\* Such a step that only moves the request on, to where no invite is pending.
LEMMA GotoFrame ==
    ASSUME IndInv, NEW r \in Requests, NEW pc \in {"new"} \cup Steps \cup Outcomes,
           Goto(r, pc), NoRows, RequestOK(r)',
           req[r].op # "invite" \/ pc # "commit"
    PROVE  IndInv'
<1> DEFINE x == [req[r] EXCEPT !.pc = pc]
<1>1. req[r] \in Request
  BY DEF IndInv, TypeOK
<1>2. x \in Request /\ x.pc = pc /\ x.op = req[r].op
  BY <1>1 DEF Request
<1>3. req' = [req EXCEPT ![r] = x]
  BY DEF Goto
<1> QED BY <1>2, <1>3, RequestFrame

\* What Goto changes of a request.
LEMMA GotoState ==
    ASSUME IndInv, NEW r \in Requests, NEW pc \in {"new"} \cup Steps \cup Outcomes, Goto(r, pc)
    PROVE  /\ req[r] \in Request /\ req'[r] = [req[r] EXCEPT !.pc = pc]
           /\ req'[r].op = req[r].op /\ req'[r].pc = pc
           /\ req'[r].srv = req[r].srv /\ req'[r].user = req[r].user
           /\ req'[r].role = req[r].role /\ req'[r].inv = req[r].inv
  BY DEF IndInv, TypeOK, Goto, Request

-----------------------------------------------------------------------------
(* The first statement of each handler *)

\* invite reads the server and the account.
LEMMA InviteReadStep ==
    ASSUME IndInv, NEW r \in Requests, NEW actor \in Users, NEW s \in Servers,
           NEW u \in Users, NEW role \in Roles, InviteRead(r, actor, s, u, role)
    PROVE  IndInv'
<1>1. PICK pc \in {"refused", "find"} :
        req' = [req EXCEPT ![r] = [op |-> "invite", srv |-> s, user |-> u,
                                   role |-> role, inv |-> None, pc |-> pc]]
  BY DEF InviteRead
<1> DEFINE x == [op |-> "invite", srv |-> s, user |-> u, role |-> role, inv |-> None, pc |-> pc]
<1>2. x \in Request
  BY DEF Request, Ops, Steps, Outcomes
<1>3. NoRows /\ req' = [req EXCEPT ![r] = x] /\ req'[r] = x
  BY <1>1 DEF InviteRead, IndInv, TypeOK
<1>4. RequestOK(r)'
  BY <1>3 DEF RequestOK, Ops, Steps
<1> QED BY <1>2, <1>3, <1>4, RequestFrame

\* accept_invite reads the invite, if there is one.
LEMMA AcceptLookupStep ==
    ASSUME IndInv, NEW r \in Requests, NEW actor \in Users, NEW i \in Invites,
           AcceptLookup(r, actor, i)
    PROVE  IndInv'
<1>1. PICK pc \in {"check", "refused"} :
        /\ AcceptStart(r, actor, i, pc)
        /\ pc = "check" => invite[i] # None /\ invite[i].email = actor
  BY DEF AcceptLookup, IsOpen
<1> DEFINE x == [op |-> "accept", pc |-> pc, user |-> actor, inv |-> i,
                 srv |-> IF invite[i] = None THEN None ELSE invite[i].srv,
                 role |-> IF invite[i] = None THEN None ELSE invite[i].role]
<1>2. invite[i] # None => invite[i] \in InviteRow
  BY DEF IndInv, TypeOK
<1>3. x \in Request
  BY <1>2 DEF Request, Ops, Steps, Outcomes, InviteRow
<1>4. NoRows /\ req' = [req EXCEPT ![r] = x] /\ req'[r] = x
  BY <1>1 DEF AcceptLookup, AcceptStart, IndInv, TypeOK
<1>5. RequestOK(r)'
  BY <1>1, <1>2, <1>4 DEF RequestOK, InviteRow, NoRows, Ops, Steps
<1> QED BY <1>3, <1>4, <1>5, RequestFrame

\* revoke_invite reads the invite.
LEMMA RevokeReadStep ==
    ASSUME IndInv, NEW r \in Requests, NEW actor \in Users, NEW s \in Servers,
           NEW i \in Invites, RevokeRead(r, actor, s, i)
    PROVE  IndInv'
<1>1. PICK pc \in {"revoke", "refused"} :
        req' = [req EXCEPT ![r] = [op |-> "revoke", srv |-> s, user |-> None,
                                   role |-> None, inv |-> i, pc |-> pc]]
  BY DEF RevokeRead
<1> DEFINE x == [op |-> "revoke", srv |-> s, user |-> None, role |-> None, inv |-> i, pc |-> pc]
<1>2. x \in Request
  BY DEF Request, Ops, Steps, Outcomes
<1>3. NoRows /\ req' = [req EXCEPT ![r] = x] /\ req'[r] = x
  BY <1>1 DEF RevokeRead, IndInv, TypeOK
<1>4. RequestOK(r)'
  BY <1>3 DEF RequestOK, Ops, Steps
<1> QED BY <1>2, <1>3, <1>4, RequestFrame

\* remove_member reads the member.
LEMMA RemoveReadStep ==
    ASSUME IndInv, NEW r \in Requests, NEW actor \in Users, NEW s \in Servers,
           NEW u \in Users, RemoveRead(r, actor, s, u)
    PROVE  IndInv'
<1>1. PICK pc \in {"delete", "refused"} :
        req' = [req EXCEPT ![r] = [op |-> "remove", srv |-> s, user |-> u,
                                   role |-> None, inv |-> None, pc |-> pc]]
  BY DEF RemoveRead
<1> DEFINE x == [op |-> "remove", srv |-> s, user |-> u, role |-> None, inv |-> None, pc |-> pc]
<1>2. x \in Request
  BY DEF Request, Ops, Steps, Outcomes
<1>3. NoRows /\ req' = [req EXCEPT ![r] = x] /\ req'[r] = x
  BY <1>1 DEF RemoveRead, IndInv, TypeOK
<1>4. RequestOK(r)'
  BY <1>3 DEF RequestOK, Ops, Steps
<1> QED BY <1>2, <1>3, <1>4, RequestFrame

-----------------------------------------------------------------------------
(* The statements that follow *)

\* find_open moves the request on.
LEMMA InviteFindStep ==
    ASSUME IndInv, NEW r \in Requests, InviteFind(r)
    PROVE  IndInv'
<1>1. PICK pc \in {"refused", "insert"} : Goto(r, pc)
  BY DEF InviteFind
<1>2. RequestOK(r) /\ req[r].op = "invite" /\ req[r].pc = "find" /\ NoRows
  BY DEF IndInv, InviteFind
<1>3. RequestOK(r)'
  BY <1>1, <1>2, GotoState DEF RequestOK, Steps, Outcomes
<1> QED BY <1>1, <1>2, <1>3, GotoFrame DEF Steps, Outcomes

\* The INSERT goes ahead only if the index has no open invite, committed or
\* pending, for the address.
LEMMA InviteInsertStep ==
    ASSUME IndInv, NEW r \in Requests, InviteInsert(r)
    PROVE  IndInv'
<1>1. /\ req[r] \in Request /\ RequestOK(r) /\ NoRows
      /\ req[r].op = "invite" /\ req[r].pc = "insert"
      /\ \A q \in Others(r) : ~InsertsInvite(q, req[r].srv, req[r].user)
  BY DEF IndInv, TypeOK, InviteInsert, WaitsFor
<1>2. ASSUME NEW pc \in {"refused"}, Goto(r, pc) PROVE IndInv'
  <2>1. RequestOK(r)'
    BY <1>1, <1>2, GotoState DEF RequestOK, Steps, Outcomes
  <2> QED BY <1>1, <1>2, <2>1, GotoFrame DEF Steps, Outcomes
<1>3. ASSUME OpenFor(req[r].srv, req[r].user) = {}, req[r].srv \in alive, NEW i \in FreshInvites,
             req' = [req EXCEPT ![r].pc = "commit", ![r].inv = i]
      PROVE  IndInv'
  <2> DEFINE x == [req[r] EXCEPT !.pc = "commit", !.inv = i]
  <2>1. i \in Invites /\ invite[i] = None /\ \A q \in Requests : req[q].inv # i
    BY DEF FreshInvites
  <2>2. /\ x \in Request /\ x.pc = "commit" /\ x.inv = i /\ x.op = "invite"
        /\ x.srv = req[r].srv /\ x.user = req[r].user /\ x.role = req[r].role
    BY <1>1, <2>1 DEF Request, Steps
  <2>3. req' = [req EXCEPT ![r] = x] /\ req'[r] = x
    BY <1>3 DEF IndInv, TypeOK
  <2>4. invite' = invite /\ OpenFor(req'[r].srv, req'[r].user) = {}
    BY <1>1, <1>3, <2>2, <2>3 DEF NoRows
  <2>5. RequestOK(r)'
    <3>1. \A j \in Invites : ~(IsOpen(j)' /\ invite'[j].srv = req'[r].srv /\ invite'[j].email = req'[r].user)
      BY <2>4 DEF OpenFor, IsOpen
    <3>2. OpenFor(req[r].srv, req[r].user)' = {}
      BY <3>1 DEF OpenFor
    <3> QED BY <1>1, <1>3, <2>1, <2>2, <2>3, <2>4, <3>2 DEF RequestOK, Steps, Ops, NoRows
  <2> QED BY <1>1, <2>1, <2>2, <2>3, <2>5, RequestFrame DEF Others
<1> QED BY <1>2, <1>3 DEF InviteInsert

\* accept_invite reads the server and its members.
LEMMA AcceptCheckStep ==
    ASSUME IndInv, NEW r \in Requests, AcceptCheck(r)
    PROVE  IndInv'
<1>1. PICK pc \in {"refused", "admit"} : Goto(r, pc)
  BY DEF AcceptCheck
<1>2. RequestOK(r) /\ req[r].op = "accept" /\ req[r].pc = "check" /\ NoRows
  BY DEF IndInv, AcceptCheck
<1>3. RequestOK(r)'
  BY <1>1, <1>2, GotoState DEF RequestOK, Steps, Outcomes, NoRows
<1> QED BY <1>1, <1>2, <1>3, GotoFrame DEF Steps, Outcomes

\* The INSERT of the member needs the server.
LEMMA AcceptAdmitStep ==
    ASSUME IndInv, NEW r \in Requests, AcceptAdmit(r)
    PROVE  IndInv'
<1>1. PICK pc \in {"error", "mark"} : Goto(r, pc) /\ (pc = "mark" => req[r].srv \in alive)
  BY DEF AcceptAdmit
<1>2. RequestOK(r) /\ req[r].op = "accept" /\ req[r].pc = "admit" /\ NoRows
  BY DEF IndInv, AcceptAdmit
<1>3. RequestOK(r)'
  BY <1>1, <1>2, GotoState DEF RequestOK, Steps, Outcomes, NoRows
<1> QED BY <1>1, <1>2, <1>3, GotoFrame DEF Steps, Outcomes

\* The UPDATE that marks the invite.
LEMMA AcceptMarkStep ==
    ASSUME IndInv, NEW r \in Requests, AcceptMark(r)
    PROVE  IndInv'
<1>1. /\ RequestOK(r) /\ NoRows
      /\ req[r].op = "accept" /\ req[r].pc = "mark"
      /\ \E pc \in {"commit"} : Goto(r, pc)
  BY DEF IndInv, AcceptMark
<1>2. RequestOK(r)'
  BY <1>1, GotoState DEF RequestOK, Steps, Outcomes, NoRows
<1> QED BY <1>1, <1>2, GotoFrame DEF Steps

\* The UPDATE of a revocation needs the row.
LEMMA RevokeUpdateStep ==
    ASSUME IndInv, NEW r \in Requests, RevokeUpdate(r)
    PROVE  IndInv'
<1>1. PICK pc \in {"error", "commit"} :
        Goto(r, pc) /\ (pc = "commit" => invite[req[r].inv] # None)
  BY DEF RevokeUpdate
<1>2. RequestOK(r) /\ req[r].op = "revoke" /\ req[r].pc = "revoke" /\ NoRows
  BY DEF IndInv, RevokeUpdate
<1>3. RequestOK(r)'
  BY <1>1, <1>2, GotoState DEF RequestOK, Steps, Outcomes, NoRows
<1> QED BY <1>1, <1>2, <1>3, GotoFrame DEF Steps, Outcomes

\* The DELETE of a member.
LEMMA RemoveDeleteStep ==
    ASSUME IndInv, NEW r \in Requests, RemoveDelete(r)
    PROVE  IndInv'
<1>1. PICK pc \in {"ok", "commit"} : Goto(r, pc)
  BY DEF RemoveDelete
<1>2. RequestOK(r) /\ req[r].op = "remove" /\ req[r].pc = "delete" /\ NoRows
  BY DEF IndInv, RemoveDelete
<1>3. RequestOK(r)'
  BY <1>1, <1>2, GotoState DEF RequestOK, Steps, Outcomes, NoRows
<1> QED BY <1>1, <1>2, <1>3, GotoFrame DEF Steps, Outcomes

\* A commit that the database refuses leaves no row behind.
LEMMA CommitFailsStep ==
    ASSUME IndInv, NEW r \in Requests, CommitFails(r)
    PROVE  IndInv'
<1>1. RequestOK(r) /\ NoRows /\ \E pc \in {"failed"} : Goto(r, pc)
  BY DEF IndInv, CommitFails
<1>2. RequestOK(r)'
  BY <1>1, GotoState DEF RequestOK, Steps, Outcomes
<1> QED BY <1>1, <1>2, GotoFrame DEF Outcomes

-----------------------------------------------------------------------------
(* The commit and the clock *)

\* A step that only marks invites: each row keeps its server, address and
\* role, an accepted one stays accepted, and none opens.
OnlyMarks ==
    /\ invite' \in [Invites -> InviteRow \cup {None}]
    /\ \A i \in Invites :
        IF invite[i] = None THEN invite'[i] = None
        ELSE /\ invite'[i] # None /\ invite'[i].srv = invite[i].srv
             /\ invite'[i].email = invite[i].email /\ invite'[i].role = invite[i].role
             /\ invite[i].accepted => invite'[i].accepted
             /\ IsOpen(i)' => IsOpen(i)

\* Marks keep requests that do not move in order, and open invites distinct.
LEMMA MarkFrame ==
    ASSUME IndInv, OnlyMarks, alive' = alive
    PROVE  /\ \A q \in Requests : req'[q] = req[q] => RequestOK(q)'
           /\ OpenDistinct'
<1>1. ASSUME NEW s, NEW u, OpenFor(s, u) = {}
      PROVE  OpenFor(s, u)' = {}
  BY <1>1, Zenon DEF OnlyMarks, OpenFor, IsOpen
<1>2. ASSUME NEW q \in Requests, req'[q] = req[q] PROVE RequestOK(q)'
  <2>1. RequestOK(q)
    BY DEF IndInv
  <2>2. OpenFor(req[q].srv, req[q].user) = {} => OpenFor(req[q].srv, req[q].user)' = {}
    BY <1>1, <1>2
  <2>3. \A i \in Invites :
            /\ (invite'[i] = None) <=> (invite[i] = None)
            /\ invite[i] # None => /\ invite'[i].srv = invite[i].srv
                                   /\ invite'[i].email = invite[i].email
                                   /\ invite'[i].role = invite[i].role
    BY DEF OnlyMarks
  <2>4. req[q].op = "accept" /\ req[q].pc \in Steps =>
            /\ req[q].user \in Users /\ req[q].role \in Roles /\ req[q].inv \in Invites
            /\ req[q].pc \in {"mark", "commit"} => req[q].srv \in alive'
            /\ req[q].srv \in alive' =>
                 /\ invite'[req[q].inv] # None /\ invite'[req[q].inv].srv = req[q].srv
                 /\ invite'[req[q].inv].email = req[q].user
                 /\ invite'[req[q].inv].role = req[q].role
    BY <2>1, <2>3 DEF RequestOK
  <2>5. req[q].op = "invite" /\ req[q].pc = "commit" =>
            /\ req[q].inv \in Invites /\ invite'[req[q].inv] = None
            /\ req[q].srv \in alive' /\ OpenFor(req[q].srv, req[q].user)' = {}
    BY <2>1, <2>2, <2>3 DEF RequestOK
  <2>6. req[q].op = "revoke" /\ req[q].pc = "commit" => invite'[req[q].inv] # None
    BY <2>1, <2>3 DEF RequestOK, Steps
  <2> QED BY <1>2, <2>1, <2>4, <2>5, <2>6 DEF RequestOK
<1>3. OpenDistinct'
  BY DEF IndInv, OpenDistinct, OnlyMarks, IsOpen
<1> QED BY <1>2, <1>3

\* A row whose marks alone are changed.
LEMMA MarkRow ==
    ASSUME TypeOK, NEW i \in Invites, invite[i] # None, NEW row \in InviteRow,
           invite' = [invite EXCEPT ![i] = row],
           row.srv = invite[i].srv, row.email = invite[i].email, row.role = invite[i].role,
           invite[i].accepted => row.accepted, invite[i].revoked => row.revoked
    PROVE  OnlyMarks
<1>1. invite \in [Invites -> InviteRow \cup {None}] /\ invite'[i] = row /\ row # None
  BY RowAssumption DEF TypeOK
<1>2. \A j \in Invites : j # i => invite'[j] = invite[j]
  BY <1>1
<1>3. IsOpen(i)' => IsOpen(i)
  BY <1>1 DEF IsOpen
<1>4. invite' \in [Invites -> InviteRow \cup {None}]
  BY <1>1
<1> QED BY <1>1, <1>2, <1>3, <1>4 DEF OnlyMarks, IsOpen

\* What a commit does to the requests.
LEMMA CommitRequests ==
    ASSUME IndInv, NEW r \in Requests, req[r].pc = "commit", Commit(r)
    PROVE  /\ req' \in [Requests -> Request] /\ RequestOK(r)' /\ PendingDistinct'
           /\ \A q \in Requests : q # r => req'[q] = req[q]
           /\ RequestOK(r) /\ req[r] \in Request /\ alive' = alive
<1>1. \E pc \in {"ok"} : Goto(r, pc)
  BY DEF Commit
<1>2. /\ req[r] \in Request /\ req \in [Requests -> Request] /\ RequestOK(r)
      /\ alive' = alive
  BY DEF IndInv, TypeOK, Commit
<1>3. RequestOK(r)'
  BY <1>1, <1>2, GotoState DEF RequestOK, Steps, Outcomes
<1>4. req'[r].pc = "ok" /\ req'[r] \in Request
  BY <1>1, <1>2, GotoState DEF Request, Steps, Outcomes
<1>5. req' \in [Requests -> Request] /\ \A q \in Requests : q # r => req'[q] = req[q]
  BY <1>2, <1>4 DEF Commit, Goto
<1>6. PendingDistinct'
  BY <1>4, <1>5 DEF IndInv, PendingDistinct, Writes
<1> QED BY <1>2, <1>3, <1>5, <1>6

\* The new invite is the only open one of its address, and new.
LEMMA CommitInviteStep ==
    ASSUME IndInv, NEW r \in Requests, Commit(r), req[r].op = "invite"
    PROVE  IndInv'
<1> DEFINE i == req[r].inv
           row == [srv |-> req[r].srv, email |-> req[r].user, role |-> req[r].role,
                   expired |-> FALSE, accepted |-> FALSE, revoked |-> FALSE]
<1>1. /\ req[r].pc = "commit" /\ invite' = [invite EXCEPT ![i] = row] /\ member' = member
  BY DEF Commit, InvitesAfter, MembersAfter
<1>2. /\ req' \in [Requests -> Request] /\ RequestOK(r)' /\ PendingDistinct'
      /\ \A q \in Requests : q # r => req'[q] = req[q]
      /\ RequestOK(r) /\ req[r] \in Request /\ alive' = alive
  BY <1>1, CommitRequests
<1>3. /\ i \in Invites /\ invite[i] = None /\ req[r].srv \in alive
      /\ OpenFor(req[r].srv, req[r].user) = {} /\ row \in InviteRow /\ row # None
  <2>1. /\ i \in Invites /\ invite[i] = None /\ req[r].srv \in alive
        /\ OpenFor(req[r].srv, req[r].user) = {}
        /\ req[r].srv \in Servers /\ req[r].user \in Users /\ req[r].role \in Roles
    BY <1>1, <1>2 DEF RequestOK, Steps
  <2>2. row \in InviteRow
    BY <2>1 DEF InviteRow
  <2> QED BY <2>1, <2>2, RowAssumption
<1>4. /\ invite'[i] = row /\ \A j \in Invites : j # i => invite'[j] = invite[j]
      /\ invite' \in [Invites -> InviteRow \cup {None}]
  BY <1>1, <1>3 DEF IndInv, TypeOK
<1>5. ASSUME NEW q \in Requests PROVE RequestOK(q)'
  <2>1. CASE q = r BY <2>1, <1>2
  <2>2. CASE q # r
    <3>1. req'[q] = req[q] /\ RequestOK(q)
      BY <2>2, <1>2 DEF IndInv
    <3>2. ASSUME req[q].op = "invite", req[q].pc = "commit"
          PROVE  invite'[req[q].inv] = None /\ OpenFor(req[q].srv, req[q].user)' = {}
      <4>1. /\ req[q].inv # i /\ req[q].inv \in Invites /\ invite[req[q].inv] = None
            /\ req[q].srv = req[r].srv => req[q].user # req[r].user
            /\ OpenFor(req[q].srv, req[q].user) = {}
        BY <2>2, <3>1, <3>2, <1>1 DEF IndInv, PendingDistinct, Writes, RequestOK
      <4>2. \A j \in Invites :
                ~(IsOpen(j)' /\ invite'[j].srv = req[q].srv /\ invite'[j].email = req[q].user)
        BY <4>1, <1>4 DEF OpenFor, IsOpen
      <4> QED BY <3>1, <4>1, <4>2, <1>4 DEF OpenFor
    <3>3. ASSUME req[q].op = "revoke", req[q].pc = "commit"
          PROVE  invite'[req[q].inv] # None
      BY <3>1, <3>3, <1>3, <1>4 DEF RequestOK, Steps
    <3>4. ASSUME req[q].op = "accept", req[q].pc \in Steps, req[q].srv \in alive
          PROVE  req[q].inv # i /\ req[q].inv \in Invites
      BY <3>1, <3>4, <1>3 DEF RequestOK
    <3> QED BY <3>1, <3>2, <3>3, <3>4, <1>2, <1>4 DEF RequestOK
  <2> QED BY <2>1, <2>2
<1>6. OpenDistinct'
  <2>1. ASSUME NEW j \in Invites, j # i, IsOpen(j)'
        PROVE  ~(invite'[j].srv = row.srv /\ invite'[j].email = row.email)
    BY <2>1, <1>3, <1>4 DEF OpenFor, IsOpen
  <2> QED BY <2>1, <1>4 DEF IndInv, OpenDistinct, IsOpen
<1>7. MemberWasInvited'
  BY <1>1, <1>3, <1>4 DEF IndInv, MemberWasInvited
<1>8. RowsBelongToServers'
  BY <1>1, <1>2, <1>3, <1>4 DEF IndInv, RowsBelongToServers
<1> QED BY <1>1, <1>2, <1>4, <1>5, <1>6, <1>7, <1>8 DEF IndInv, TypeOK

\* The new member holds the role of the invite that is marked with it.
LEMMA CommitAcceptStep ==
    ASSUME IndInv, NEW r \in Requests, Commit(r), req[r].op = "accept"
    PROVE  IndInv'
<1> DEFINE i == req[r].inv
           row == [invite[i] EXCEPT !.accepted = TRUE]
<1>1. /\ req[r].pc = "commit" /\ invite' = [invite EXCEPT ![i].accepted = TRUE]
      /\ member' = [member EXCEPT ![req[r].srv][req[r].user] = req[r].role]
  BY DEF Commit, InvitesAfter, MembersAfter, Used
<1>2. /\ req' \in [Requests -> Request] /\ RequestOK(r)' /\ PendingDistinct'
      /\ \A q \in Requests : q # r => req'[q] = req[q]
      /\ RequestOK(r) /\ req[r] \in Request /\ alive' = alive
  BY <1>1, CommitRequests
<1>3. /\ i \in Invites /\ req[r].srv \in alive /\ req[r].srv \in Servers
      /\ req[r].user \in Users /\ req[r].role \in Roles
      /\ invite[i] # None /\ invite[i].srv = req[r].srv
      /\ invite[i].email = req[r].user /\ invite[i].role = req[r].role
  BY <1>1, <1>2 DEF RequestOK, Steps
<1>4. invite \in [Invites -> InviteRow \cup {None}] /\ invite[i] \in InviteRow
      /\ member \in [Servers -> [Users -> Roles \cup {None}]]
  BY <1>3 DEF IndInv, TypeOK
<1>5. /\ row \in InviteRow /\ row.srv = invite[i].srv /\ row.email = invite[i].email
      /\ row.role = invite[i].role /\ row.accepted /\ row.revoked = invite[i].revoked
      /\ invite' = [invite EXCEPT ![i] = row]
  BY <1>1, <1>3, <1>4 DEF InviteRow
<1>6. OnlyMarks
  BY <1>3, <1>5, MarkRow DEF IndInv
<1>7. OpenDistinct' /\ \A q \in Requests : RequestOK(q)'
  BY <1>2, <1>6, MarkFrame
<1>8. /\ member' \in [Servers -> [Users -> Roles \cup {None}]]
      /\ member'[req[r].srv][req[r].user] = req[r].role
      /\ \A s \in Servers, u \in Users :
            s # req[r].srv \/ u # req[r].user => member'[s][u] = member[s][u]
  BY <1>1, <1>3, <1>4
<1>9. invite'[i] = row /\ row # None
  BY <1>3, <1>4, <1>5, RowAssumption
<1>10. MemberWasInvited'
  <2> SUFFICES ASSUME NEW s \in Servers, NEW u \in Users, member'[s][u] # None
               PROVE  \E j \in Invites :
                        /\ invite'[j] # None /\ invite'[j].srv = s /\ invite'[j].email = u
                        /\ invite'[j].role = member'[s][u] /\ invite'[j].accepted
    BY DEF MemberWasInvited
  <2>1. CASE s = req[r].srv /\ u = req[r].user
    BY <2>1, <1>3, <1>5, <1>8, <1>9
  <2>2. CASE s # req[r].srv \/ u # req[r].user
    BY <2>2, <1>6, <1>8 DEF IndInv, MemberWasInvited, OnlyMarks
  <2> QED BY <2>1, <2>2
<1>11. RowsBelongToServers'
  BY <1>2, <1>3, <1>6, <1>8 DEF IndInv, RowsBelongToServers, OnlyMarks
<1> QED BY <1>2, <1>6, <1>7, <1>8, <1>10, <1>11 DEF IndInv, TypeOK, OnlyMarks

\* The row that is revoked is there.
LEMMA CommitRevokeStep ==
    ASSUME IndInv, NEW r \in Requests, Commit(r), req[r].op = "revoke"
    PROVE  IndInv'
<1> DEFINE i == req[r].inv
           row == [invite[i] EXCEPT !.revoked = TRUE]
<1>1. /\ req[r].pc = "commit" /\ invite' = [invite EXCEPT ![i].revoked = TRUE]
      /\ member' = member
  BY DEF Commit, InvitesAfter, MembersAfter
<1>2. /\ req' \in [Requests -> Request] /\ RequestOK(r)' /\ PendingDistinct'
      /\ \A q \in Requests : q # r => req'[q] = req[q]
      /\ RequestOK(r) /\ req[r] \in Request /\ alive' = alive
  BY <1>1, CommitRequests
<1>3. i \in Invites /\ invite[i] # None /\ invite[i] \in InviteRow
      /\ invite \in [Invites -> InviteRow \cup {None}]
  BY <1>1, <1>2 DEF RequestOK, Steps, IndInv, TypeOK
<1>4. /\ row \in InviteRow /\ row.srv = invite[i].srv /\ row.email = invite[i].email
      /\ row.role = invite[i].role /\ row.accepted = invite[i].accepted /\ row.revoked
      /\ invite' = [invite EXCEPT ![i] = row]
  BY <1>1, <1>3 DEF InviteRow
<1>5. OnlyMarks
  BY <1>3, <1>4, MarkRow DEF IndInv
<1>6. OpenDistinct' /\ \A q \in Requests : RequestOK(q)'
  BY <1>2, <1>5, MarkFrame
<1>7. MemberWasInvited' /\ RowsBelongToServers'
  BY <1>1, <1>2, <1>5 DEF IndInv, MemberWasInvited, RowsBelongToServers, OnlyMarks
<1> QED BY <1>1, <1>2, <1>5, <1>6, <1>7 DEF IndInv, TypeOK, OnlyMarks

\* A member leaves.
LEMMA CommitRemoveStep ==
    ASSUME IndInv, NEW r \in Requests, Commit(r), req[r].op = "remove"
    PROVE  IndInv'
<1>1. /\ req[r].pc = "commit" /\ invite' = invite
      /\ member' = [member EXCEPT ![req[r].srv][req[r].user] = None]
  BY DEF Commit, InvitesAfter, MembersAfter
<1>2. /\ req' \in [Requests -> Request] /\ RequestOK(r)' /\ PendingDistinct'
      /\ \A q \in Requests : q # r => req'[q] = req[q]
      /\ RequestOK(r) /\ req[r] \in Request /\ alive' = alive
  BY <1>1, CommitRequests
<1>3. req[r].srv \in Servers /\ req[r].user \in Users
  BY <1>1, <1>2 DEF RequestOK, Steps
<1>4. /\ member' \in [Servers -> [Users -> Roles \cup {None}]]
      /\ \A s \in Servers, u \in Users : member'[s][u] # None => member'[s][u] = member[s][u]
  BY <1>1, <1>3 DEF IndInv, TypeOK
<1>5. OnlyMarks
  BY <1>1 DEF IndInv, TypeOK, OnlyMarks, IsOpen
<1>6. OpenDistinct' /\ \A q \in Requests : RequestOK(q)'
  BY <1>2, <1>5, MarkFrame
<1>7. MemberWasInvited' /\ RowsBelongToServers'
  BY <1>1, <1>2, <1>4 DEF IndInv, MemberWasInvited, RowsBelongToServers
<1> QED BY <1>1, <1>2, <1>4, <1>5, <1>6, <1>7 DEF IndInv, TypeOK, OnlyMarks

\* Whatever is committed.
LEMMA CommitStep ==
    ASSUME IndInv, NEW r \in Requests, Commit(r)
    PROVE  IndInv'
<1>1. req[r].op \in Ops
  BY DEF IndInv, RequestOK, Commit, Steps
<1> QED BY <1>1, CommitInviteStep, CommitAcceptStep, CommitRevokeStep, CommitRemoveStep DEF Ops

\* An invite expires.
LEMMA ExpireStep ==
    ASSUME IndInv, NEW i \in Invites, Expire(i)
    PROVE  IndInv'
<1> DEFINE row == [invite[i] EXCEPT !.expired = TRUE]
<1>1. /\ invite[i] # None /\ invite' = [invite EXCEPT ![i].expired = TRUE]
      /\ invite \in [Invites -> InviteRow \cup {None}] /\ invite[i] \in InviteRow
      /\ alive' = alive /\ member' = member /\ req' = req
  BY DEF IndInv, TypeOK, Expire
<1>2. /\ row \in InviteRow /\ row.srv = invite[i].srv /\ row.email = invite[i].email
      /\ row.role = invite[i].role /\ row.accepted = invite[i].accepted
      /\ row.revoked = invite[i].revoked
      /\ invite' = [invite EXCEPT ![i] = row]
  BY <1>1 DEF InviteRow
<1>3. OnlyMarks
  BY <1>1, <1>2, MarkRow DEF IndInv
<1>4. OpenDistinct' /\ \A q \in Requests : RequestOK(q)'
  BY <1>1, <1>3, MarkFrame
<1>5. MemberWasInvited' /\ RowsBelongToServers' /\ PendingDistinct'
  BY <1>1, <1>3 DEF IndInv, MemberWasInvited, RowsBelongToServers, PendingDistinct, Writes, OnlyMarks
<1> QED BY <1>1, <1>3, <1>4, <1>5 DEF IndInv, TypeOK, OnlyMarks

-----------------------------------------------------------------------------
(* The delete job of the worker *)

\* A server goes with its members and its invites, and waits for the requests
\* that have inserted a row of it or marked one.
LEMMA DeleteServerStep ==
    ASSUME IndInv, NEW s \in Servers, DeleteServer(s)
    PROVE  IndInv'
<1>1. /\ alive' = alive \ {s} /\ req' = req
      /\ member' = [member EXCEPT ![s] = [u \in Users |-> None]]
      /\ invite' = [i \in Invites |-> IF invite[i] # None /\ invite[i].srv = s
                                      THEN None ELSE invite[i]]
      /\ \A q \in Requests :
            /\ ~RefersTo(q, s)
            /\ \A i \in Invites : invite[i] # None /\ invite[i].srv = s => ~WritesInvite(q, i)
  BY DEF DeleteServer
<1>2. \A i \in Invites : IF invite[i] # None /\ invite[i].srv = s
                         THEN invite'[i] = None ELSE invite'[i] = invite[i]
  BY <1>1
<1>3. /\ \A u \in Users : member'[s][u] = None
      /\ \A t \in Servers : t # s => member'[t] = member[t]
  BY <1>1 DEF IndInv, TypeOK
<1>4. TypeOK'
  BY <1>1 DEF IndInv, TypeOK
<1>5. ASSUME NEW q \in Requests PROVE RequestOK(q)'
  <2>1. RequestOK(q) /\ req'[q] = req[q]
    BY <1>1 DEF IndInv
  <2>2. ASSUME req[q].op = "invite", req[q].pc = "commit"
        PROVE  /\ req[q].srv \in alive' /\ invite'[req[q].inv] = None
               /\ OpenFor(req[q].srv, req[q].user)' = {}
    <3>1. req[q].srv # s
      BY <2>2, <1>1 DEF RefersTo, Writes
    <3>2. /\ req[q].inv \in Invites /\ invite[req[q].inv] = None /\ req[q].srv \in alive
          /\ OpenFor(req[q].srv, req[q].user) = {}
      BY <2>1, <2>2 DEF RequestOK
    <3>3. \A j \in Invites :
              ~(IsOpen(j)' /\ invite'[j].srv = req[q].srv /\ invite'[j].email = req[q].user)
      BY <3>2, <1>2 DEF OpenFor, IsOpen
    <3> QED BY <2>1, <3>1, <3>2, <3>3, <1>1, <1>2 DEF OpenFor
  <2>3. ASSUME req[q].op = "accept", req[q].pc \in {"mark", "commit"}
        PROVE  req[q].srv # s
    BY <2>3, <1>1 DEF RefersTo, Writes
  <2>4. ASSUME req[q].op = "accept", req[q].pc \in Steps, req[q].srv \in alive'
        PROVE  invite'[req[q].inv] = invite[req[q].inv]
    BY <2>1, <2>4, <1>1, <1>2 DEF RequestOK
  <2>5. ASSUME req[q].op = "revoke", req[q].pc = "commit"
        PROVE  invite'[req[q].inv] = invite[req[q].inv]
    BY <2>1, <2>5, <1>1, <1>2 DEF RequestOK, WritesInvite, Writes, Steps
  <2> QED BY <2>1, <2>2, <2>3, <2>4, <2>5, <1>1 DEF RequestOK
<1>6. PendingDistinct'
  BY <1>1 DEF IndInv, PendingDistinct, Writes
<1>7. OpenDistinct'
  BY <1>2 DEF IndInv, OpenDistinct, IsOpen
<1>8. MemberWasInvited'
  <2> SUFFICES ASSUME NEW t \in Servers, NEW u \in Users, member'[t][u] # None
               PROVE  \E j \in Invites :
                        /\ invite'[j] # None /\ invite'[j].srv = t /\ invite'[j].email = u
                        /\ invite'[j].role = member'[t][u] /\ invite'[j].accepted
    BY DEF MemberWasInvited
  <2>1. t # s /\ member'[t][u] = member[t][u]
    BY <1>3
  <2>2. PICK j \in Invites :
            /\ invite[j] # None /\ invite[j].srv = t /\ invite[j].email = u
            /\ invite[j].role = member[t][u] /\ invite[j].accepted
    BY <2>1 DEF IndInv, MemberWasInvited
  <2> QED BY <2>1, <2>2, <1>2
<1>9. RowsBelongToServers'
  BY <1>1, <1>2, <1>3 DEF IndInv, RowsBelongToServers
<1> QED BY <1>4, <1>5, <1>6, <1>7, <1>8, <1>9 DEF IndInv

-----------------------------------------------------------------------------
(* The invariant *)

\* Servers without members and invites satisfy it.
LEMMA InitIndInv == Init => IndInv
<1> SUFFICES ASSUME Init PROVE IndInv
  OBVIOUS
<1>1. NoRequest \in Request
  BY DEF NoRequest, Request
<1>2. TypeOK
  BY <1>1 DEF Init, TypeOK
<1>3. \A r \in Requests : req[r] = NoRequest
  BY DEF Init
<1>4. \A r \in Requests : RequestOK(r)
  BY <1>3, RowAssumption DEF RequestOK, NoRequest, Ops, Steps
<1>5. PendingDistinct /\ OpenDistinct /\ MemberWasInvited /\ RowsBelongToServers
  BY <1>3 DEF Init, NoRequest, PendingDistinct, Writes, OpenDistinct, IsOpen,
     MemberWasInvited, RowsBelongToServers
<1> QED BY <1>2, <1>4, <1>5 DEF IndInv

\* Every step preserves it.
LEMMA NextIndInv == IndInv /\ [Next]_vars => IndInv'
<1> SUFFICES ASSUME IndInv, [Next]_vars PROVE IndInv'
  OBVIOUS
<1>1. ASSUME NEW r \in Requests, Begin(r) PROVE IndInv'
  <2>1. PICK actor \in Users :
        \/ \E s \in Servers, u \in Users :
             \/ \E role \in Roles : InviteRead(r, actor, s, u, role)
             \/ RemoveRead(r, actor, s, u)
        \/ \E i \in Known :
             \/ AcceptLookup(r, actor, i)
             \/ \E s \in Servers : RevokeRead(r, actor, s, i)
    BY <1>1 DEF Begin
  <2>2. Known \subseteq Invites
    BY DEF Known, IndInv, TypeOK, Request
  <2> QED BY <2>1, <2>2, InviteReadStep, RemoveReadStep, AcceptLookupStep, RevokeReadStep
<1>2. ASSUME NEW r \in Requests, Proceed(r) PROVE IndInv'
  BY <1>2, InviteFindStep, InviteInsertStep, AcceptCheckStep, AcceptAdmitStep, AcceptMarkStep,
     RevokeUpdateStep, RemoveDeleteStep, CommitStep, CommitFailsStep DEF Proceed
<1>3. ASSUME NEW i \in Invites, Expire(i) PROVE IndInv'
  BY <1>3, ExpireStep
<1>4. ASSUME NEW s \in Servers, DeleteServer(s) PROVE IndInv'
  BY <1>4, DeleteServerStep
<1>5. CASE UNCHANGED vars
  BY <1>5 DEF vars, IndInv, TypeOK, RequestOK, PendingDistinct, Writes, OpenDistinct, OpenFor,
     IsOpen, MemberWasInvited, RowsBelongToServers
<1> QED BY <1>1, <1>2, <1>3, <1>4, <1>5 DEF Next

\* Whatever requests overlap, and whenever the server is deleted, rows and
\* requests are in order at all times.
THEOREM MembersInvariant == Spec => []IndInv
  BY InitIndInv, NextIndInv, PTL DEF Spec

\* The rows of "server_members" and "server_invites" are well formed.
THEOREM TypeCorrect == Spec => []TypeOK
<1>1. IndInv => TypeOK
  BY DEF IndInv
<1> QED BY <1>1, MembersInvariant, PTL

\* invite never opens a second invite for an address, although find_open and
\* the INSERT are two statements and any number of owners and admins race.
THEOREM InvitesUnique == Spec => []OneOpenInvite
<1>1. IndInv => OneOpenInvite
  <2> SUFFICES ASSUME IndInv, NEW s \in Servers, NEW u \in Users
               PROVE  Cardinality(OpenFor(s, u)) <= 1
    BY DEF OneOpenInvite
  <2>1. \A i, j \in OpenFor(s, u) : i = j
    BY DEF IndInv, OpenDistinct, OpenFor
  <2>2. CASE OpenFor(s, u) = {}
    BY <2>2, FS_EmptySet
  <2>3. ASSUME NEW i \in OpenFor(s, u) PROVE Cardinality(OpenFor(s, u)) <= 1
    <3>1. OpenFor(s, u) = {i}
      BY <2>1, <2>3
    <3> QED BY <3>1, FS_Singleton
  <2> QED BY <2>2, <2>3
<1> QED BY <1>1, MembersInvariant, PTL

\* accept_invite admits only whom an invite names, with the role it names,
\* however accepts, revocations, removals and the deletion of servers overlap.
THEOREM MembersWereInvited == Spec => []MemberWasInvited
<1>1. IndInv => MemberWasInvited
  BY DEF IndInv
<1> QED BY <1>1, MembersInvariant, PTL

\* No handler that read a server before its deletion leaves a row behind.
THEOREM NoRowOutlivesServer == Spec => []RowsBelongToServers
<1>1. IndInv => RowsBelongToServers
  BY DEF IndInv
<1> QED BY <1>1, MembersInvariant, PTL

-----------------------------------------------------------------------------
(* Waiting. A request holds rows in one order: the row of the member, then *)
(* the invite; and who has written all it will write waits for nobody.     *)
(* That is a matter of the order of statements, whatever the rows hold.    *)

\* The farther a request is, the fewer can keep it waiting.
Rank(r) == CASE req[r].pc = "commit" -> 0
             [] req[r].pc \in {"mark", "revoke"} -> 1
             [] OTHER -> 2

LEMMA WaitsForAhead ==
    ASSUME NEW r \in Requests, NEW q \in WaitsFor(r)
    PROVE  q \in Requests /\ Rank(q) < Rank(r)
<1>1. q \in Requests /\ req[r].pc \in {"insert", "admit", "delete", "mark", "revoke"}
  BY DEF WaitsFor, Others
<1>2. CASE req[r].pc \in {"insert", "mark", "revoke"}
  <2>1. req[q].pc = "commit"
    BY <1>2 DEF WaitsFor, InsertsInvite, WritesInvite, Writes
  <2> QED BY <1>1, <1>2, <2>1 DEF Rank
<1>3. CASE req[r].pc \in {"admit", "delete"}
  <2>1. req[q].pc \in {"mark", "commit"}
    BY <1>3 DEF WaitsFor, WritesMember, Writes
  <2> QED BY <1>1, <1>3, <2>1 DEF Rank
<1> QED BY <1>1, <1>2, <1>3

\* No handlers of members and invites wait for each other in a circle, of
\* whatever length, however many requests are in progress: accept_invite, the
\* only one that holds one row while it waits for another, waits for the row
\* of the invite, and whoever holds that has only to commit.
THEOREM NobodyWaitsInACircle == Spec => []NoCycle
<1>1. NoCycle
  <2> SUFFICES ASSUME NEW C \in (SUBSET Requests) \ {{}}
               PROVE  \E r \in C : WaitsFor(r) \cap C = {}
    BY DEF NoCycle
  <2>1. \A r \in Requests : Rank(r) \in {0, 1, 2}
    BY DEF Rank
  <2>2. PICK r \in C : \A q \in C : Rank(r) <= Rank(q)
    <3>1. CASE \E q \in C : Rank(q) = 0
      BY <2>1, <3>1
    <3>2. CASE (\A q \in C : Rank(q) # 0) /\ \E q \in C : Rank(q) = 1
      BY <2>1, <3>2
    <3>3. CASE \A q \in C : Rank(q) = 2
      BY <3>3
    <3> QED BY <2>1, <3>1, <3>2, <3>3
  <2>3. ASSUME NEW q \in WaitsFor(r), q \in C PROVE FALSE
    BY <2>1, <2>2, <2>3, WaitsForAhead
  <2> QED BY <2>3
<1> QED BY <1>1, PTL
=============================================================================
