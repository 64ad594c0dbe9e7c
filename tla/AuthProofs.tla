------------------------------ MODULE AuthProofs ------------------------------
(***************************************************************************)
(* Proofs about module Auth, for every set of users, addresses, tokens and *)
(* requests and every number of requests in progress: IndInv is an         *)
(* inductive invariant, and the safety properties follow.                  *)
(***************************************************************************)
EXTENDS Auth, FiniteSetTheorems, TLAPS

-----------------------------------------------------------------------------
(* Facts about addresses *)

\* Lower-casing keeps the name, and two addresses agree after it exactly if
\* they have the same name.
LEMMA NormalizedType ==
    ASSUME NEW e \in Emails
    PROVE  Normalized(e) \in Emails /\ Normalized(e).lower /\ Normalized(e).name = e.name
  BY DEF Emails, Normalized

\* Addresses in lower case are equal if they agree after lower-casing.
LEMMA NormalizedSame ==
    ASSUME NEW e \in Emails, NEW f \in Emails, Normalized(e) = Normalized(f), e.lower, f.lower
    PROVE  e = f
  BY DEF Emails, Normalized

-----------------------------------------------------------------------------
(* Frames *)

\* The step of request r leaves the other requests and all rows alone.
OnlyRequest(r) ==
    /\ req' \in [Requests -> Request]
    /\ \A q \in Requests : q # r => req'[q] = req[q]
    /\ UNCHANGED <<users, tokens>>

\* Such a step takes back no end of a login if the request was not answered.
LEMMA EndedKept ==
    ASSUME NEW r \in Requests, OnlyRequest(r), req[r].pc \notin Outcomes, NEW l, Ended(l)
    PROVE  Ended(l)'
<1>1. PICK q \in Requests :
        /\ \/ req[q].op = "logout" /\ req[q].pc = "ok"
           \/ req[q].op = "refresh" /\ req[q].pc = "refused"
        /\ \E t \in req[q].rev : tokens[t].login = l
  BY DEF Ended
<1>2. req'[q] = req[q] /\ tokens' = tokens
  BY <1>1 DEF OnlyRequest, Outcomes
<1> QED BY <1>1, <1>2 DEF Ended

\* A step of one request that touches no row preserves the invariant if the
\* request is in order after it, hands out no token that another one did, and
\* inserts no address that is taken.
LEMMA RequestFrame ==
    ASSUME IndInv, NEW r \in Requests, OnlyRequest(r), req[r].pc \notin Outcomes,
           RequestOK(r)',
           req'[r].new = req[r].new \/ req'[r].new \in FreshTokens,
           req'[r].op = "register" /\ req'[r].pc = "commit" =>
                ByEmail(req'[r].email) = {} /\ ~Inserting(r, req'[r].email)
    PROVE  IndInv'
<1>1. TypeOK'
  BY DEF IndInv, TypeOK, OnlyRequest
<1>2. ASSUME NEW q \in Requests PROVE RequestOK(q)'
  <2>1. CASE q = r BY <2>1
  <2>2. CASE q # r BY <2>2 DEF IndInv, RequestOK, OnlyRequest
  <2> QED BY <2>1, <2>2
<1>3. NewDistinct'
  BY DEF IndInv, NewDistinct, OnlyRequest, FreshTokens
<1>4. EmailsDistinct'
  <2>1. \A e : ByEmail(e)' = ByEmail(e)
    BY DEF ByEmail, OnlyRequest
  <2>2. \A q \in Requests \ {r} : req'[q] = req[q]
    BY DEF OnlyRequest
  <2>3. \A q \in Requests : req'[q].op = "register" /\ req'[q].pc = "commit" =>
            ByEmail(req'[q].email) = {}
    BY <2>2 DEF IndInv, EmailsDistinct
  <2>4. ASSUME NEW q \in Requests, req'[q].op = "register", req'[q].pc = "commit"
        PROVE  ~Inserting(q, req[q].email)'
    BY <2>2, <2>4 DEF IndInv, EmailsDistinct, Inserting
  <2>5. \A u \in Users : users'[u] = users[u]
    BY DEF OnlyRequest
  <2> QED BY <2>1, <2>3, <2>4, <2>5 DEF IndInv, EmailsDistinct
<1>5. OneAccountPerEmail'
  BY DEF IndInv, OneAccountPerEmail, OnlyRequest
<1>6. LoginSurvives'
  BY EndedKept DEF IndInv, LoginSurvives, OnlyRequest
<1> QED BY <1>1, <1>2, <1>3, <1>4, <1>5, <1>6 DEF IndInv

-----------------------------------------------------------------------------
(* The first statement of each handler *)

\* A request that has not begun holds nothing; it may become any request that
\* is in order, has no token or a fresh one, and inserts no account.
LEMMA BeginFrame ==
    ASSUME IndInv, NEW r \in Requests, CanBegin(r), NEW x \in Request,
           req' = [req EXCEPT ![r] = x], UNCHANGED <<users, tokens>>,
           x.new = None \/ x.new \in FreshTokens,
           ~(x.op = "register" /\ x.pc = "commit"),
           RequestOK(r)'
    PROVE  IndInv'
<1>1. req[r] = NoRequest /\ req \in [Requests -> Request]
  BY DEF IndInv, TypeOK, RequestOK, CanBegin
<1>2. OnlyRequest(r) /\ req'[r] = x
  BY <1>1 DEF OnlyRequest
<1>3. req[r].pc \notin Outcomes /\ req[r].new = None
  BY <1>1 DEF NoRequest, Outcomes
<1> QED BY <1>2, <1>3, RequestFrame

\* register looks the address up.
LEMMA RegisterReadStep ==
    ASSUME IndInv, NEW r \in Requests, NEW e \in Emails, RegisterRead(r, e)
    PROVE  IndInv'
<1> DEFINE x == [NoRequest EXCEPT !.op = "register", !.email = Normalized(e),
                     !.pc = IF ByEmail(e) # {} THEN "refused" ELSE "insert"]
<1>1. CanBegin(r) /\ req[r] = NoRequest /\ req \in [Requests -> Request]
  BY DEF IndInv, TypeOK, RequestOK, CanBegin, RegisterRead
<1>2. req' = [req EXCEPT ![r] = x] /\ UNCHANGED <<users, tokens>>
  BY <1>1 DEF RegisterRead
<1>3. x \in Request
  BY NormalizedType DEF NoRequest, Request, Ops, Outcomes, Waiting
<1>4. RequestOK(r)'
  BY <1>1, <1>2, NormalizedType DEF RequestOK, NoRequest
<1> QED BY <1>1, <1>2, <1>3, <1>4, BeginFrame DEF NoRequest

\* login finds no account, a wrong password or a suspended account.
LEMMA LoginRefusedStep ==
    ASSUME IndInv, NEW r \in Requests, LoginRefused(r)
    PROVE  IndInv'
<1> DEFINE x == [NoRequest EXCEPT !.op = "login", !.pc = "refused"]
<1>1. CanBegin(r) /\ req[r] = NoRequest /\ req \in [Requests -> Request]
  BY DEF IndInv, TypeOK, RequestOK, CanBegin, LoginRefused
<1>2. req' = [req EXCEPT ![r] = x] /\ UNCHANGED <<users, tokens>>
  BY <1>1 DEF LoginRefused
<1>3. x \in Request
  BY DEF NoRequest, Request, Ops, Outcomes
<1>4. RequestOK(r)'
  BY <1>1, <1>2 DEF RequestOK, NoRequest
<1> QED BY <1>1, <1>2, <1>3, <1>4, BeginFrame DEF NoRequest

\* login inserts a token that nobody has.
LEMMA LoginAcceptedStep ==
    ASSUME IndInv, NEW r \in Requests, NEW e \in Emails, LoginAccepted(r, e)
    PROVE  IndInv'
<1>1. CanBegin(r) /\ req[r] = NoRequest /\ req \in [Requests -> Request]
  BY DEF IndInv, TypeOK, RequestOK, CanBegin, LoginAccepted
<1>2. PICK u \in ByEmail(e), t \in FreshTokens :
        req' = [req EXCEPT ![r].op = "login", ![r].pc = "commit", ![r].user = u, ![r].new = t]
  BY DEF LoginAccepted
<1> DEFINE x == [NoRequest EXCEPT !.op = "login", !.pc = "commit", !.user = u, !.new = t]
<1>3. u \in Users /\ t \in Tokens /\ tokens[t] = None
  BY DEF ByEmail, FreshTokens
<1>4. req' = [req EXCEPT ![r] = x] /\ UNCHANGED <<users, tokens>>
  BY <1>1, <1>2 DEF LoginAccepted
<1>5. x \in Request
  BY <1>3 DEF NoRequest, Request, Ops
<1>6. RequestOK(r)'
  BY <1>1, <1>3, <1>4 DEF RequestOK, NoRequest
<1> QED BY <1>1, <1>4, <1>5, <1>6, BeginFrame DEF NoRequest

\* refresh reads the row of its cookie and the account of the row.
LEMMA RefreshReadStep ==
    ASSUME IndInv, NEW r \in Requests, NEW t \in Tokens, RefreshRead(r, t)
    PROVE  IndInv'
<1>1. CanBegin(r) /\ req[r] = NoRequest /\ req \in [Requests -> Request]
  BY DEF IndInv, TypeOK, RequestOK, CanBegin, RefreshRead
<1>2. PICK pc \in {"refused", "revokeAll", "revoke"} :
        RefreshStart(r, t, pc) /\ (pc = "revoke" => tokens[t] # None)
  BY DEF RefreshRead
<1> DEFINE u == IF tokens[t] = None THEN None ELSE tokens[t].user
           x == [NoRequest EXCEPT !.op = "refresh", !.tok = t, !.pc = pc, !.user = u]
<1>3. u \in Users \cup {None} /\ (tokens[t] # None => u \in Users)
  BY DEF IndInv, TypeOK, TokenRow
<1>4. req' = [req EXCEPT ![r] = x] /\ UNCHANGED <<users, tokens>>
  BY <1>1, <1>2 DEF RefreshStart, RefreshRead
<1>5. x \in Request
  BY <1>3 DEF NoRequest, Request, Ops, Outcomes, Waiting
<1>6. RequestOK(r)'
  BY <1>1, <1>2, <1>3, <1>4 DEF RequestOK, NoRequest
<1> QED BY <1>1, <1>4, <1>5, <1>6, BeginFrame DEF NoRequest

\* logout reads the row of its cookie.
LEMMA LogoutReadStep ==
    ASSUME IndInv, NEW r \in Requests, NEW t \in Tokens, LogoutRead(r, t)
    PROVE  IndInv'
<1> DEFINE pc == IF tokens[t] # None /\ ~tokens[t].revoked THEN "revoke" ELSE "ok"
           x == [NoRequest EXCEPT !.op = "logout", !.tok = t, !.pc = pc]
<1>1. CanBegin(r) /\ req[r] = NoRequest /\ req \in [Requests -> Request]
  BY DEF IndInv, TypeOK, RequestOK, CanBegin, LogoutRead
<1>2. req' = [req EXCEPT ![r] = x] /\ UNCHANGED <<users, tokens>>
  BY <1>1 DEF LogoutRead
<1>3. x \in Request
  BY DEF NoRequest, Request, Ops, Outcomes, Waiting
<1>4. RequestOK(r)'
  BY <1>1, <1>2 DEF RequestOK, NoRequest
<1> QED BY <1>1, <1>2, <1>3, <1>4, BeginFrame DEF NoRequest
-----------------------------------------------------------------------------
(* The statements that write, and the end of the transaction *)

\* A request that is not answered yet moves to the state x.
LEMMA ProceedFrame ==
    ASSUME IndInv, NEW r \in Requests, NEW x \in Request, req[r].pc \notin Outcomes,
           req' = [req EXCEPT ![r] = x], UNCHANGED <<users, tokens>>,
           x.new = req[r].new \/ x.new \in FreshTokens,
           x.op = "register" /\ x.pc = "commit" => ByEmail(x.email) = {} /\ ~Inserting(r, x.email),
           RequestOK(r)'
    PROVE  IndInv'
<1>1. OnlyRequest(r) /\ req'[r] = x
  BY DEF OnlyRequest, IndInv, TypeOK
<1> QED BY <1>1, RequestFrame

\* The INSERT into "users" goes ahead only if the index has no such address.
LEMMA RegisterInsertStep ==
    ASSUME IndInv, NEW r \in Requests, RegisterInsert(r)
    PROVE  IndInv'
<1>1. /\ req \in [Requests -> Request] /\ req[r] \in Request /\ RequestOK(r)
      /\ req[r].pc = "insert" /\ req[r].op = "register"
      /\ ~Inserting(r, req[r].email) /\ UNCHANGED <<users, tokens>>
  BY DEF IndInv, TypeOK, RequestOK, RegisterInsert
<1>2. CASE ByEmail(req[r].email) # {} /\ req' = [req EXCEPT ![r].pc = "refused"]
  <2> DEFINE x == [req[r] EXCEPT !.pc = "refused"]
  <2>1. x \in Request /\ req' = [req EXCEPT ![r] = x]
    BY <1>1, <1>2 DEF Request, Outcomes
  <2>2. RequestOK(r)'
    BY <1>1, <2>1 DEF RequestOK, Request
  <2> QED BY <1>1, <2>1, <2>2, ProceedFrame DEF Request, Outcomes
<1>3. ASSUME ByEmail(req[r].email) = {}, NEW u \in FreshUsers,
             req' = [req EXCEPT ![r].pc = "commit", ![r].user = u]
      PROVE  IndInv'
  <2> DEFINE x == [req[r] EXCEPT !.pc = "commit", !.user = u]
  <2>1. x \in Request /\ req' = [req EXCEPT ![r] = x] /\ u \in Users
    BY <1>1, <1>3 DEF Request, FreshUsers
  <2>2. RequestOK(r)'
    BY <1>1, <2>1 DEF RequestOK, Request
  <2>3. x.new = req[r].new /\ x.email = req[r].email
    BY <1>1 DEF Request
  <2> QED BY <1>1, <1>3, <2>1, <2>2, <2>3, ProceedFrame DEF Outcomes
<1> QED BY <1>2, <1>3 DEF RegisterInsert

\* refresh revokes the old row and inserts the new one.
LEMMA RefreshRotateStep ==
    ASSUME IndInv, NEW r \in Requests, RefreshRotate(r)
    PROVE  IndInv'
<1>1. /\ req \in [Requests -> Request] /\ req[r] \in Request /\ RequestOK(r)
      /\ req[r].pc = "revoke" /\ req[r].op = "refresh" /\ UNCHANGED <<users, tokens>>
  BY DEF IndInv, TypeOK, RefreshRotate
<1>2. PICK t \in FreshTokens :
        req' = [req EXCEPT ![r].pc = "commit", ![r].rev = {req[r].tok}, ![r].new = t]
  BY DEF RefreshRotate
<1> DEFINE x == [req[r] EXCEPT !.pc = "commit", !.rev = {req[r].tok}, !.new = t]
<1>3. t \in Tokens /\ tokens[t] = None /\ req[r].tok \in Tokens
  BY <1>1 DEF FreshTokens, RequestOK
<1>4. x \in Request /\ req' = [req EXCEPT ![r] = x]
  BY <1>1, <1>2, <1>3 DEF Request
<1>5. RequestOK(r)'
  BY <1>1, <1>3, <1>4 DEF RequestOK, Request
<1>6. x.new = t /\ x.op = "refresh"
  BY <1>1 DEF Request
<1> QED BY <1>1, <1>2, <1>4, <1>5, <1>6, ProceedFrame DEF Outcomes

\* The UPDATE of revoke_all_for_user.
LEMMA RevokeAllStep ==
    ASSUME IndInv, NEW r \in Requests, RevokeAll(r)
    PROVE  IndInv'
<1> DEFINE x == [req[r] EXCEPT !.pc = "rollback", !.rev = Unrevoked(req[r].user)]
<1>1. /\ req \in [Requests -> Request] /\ req[r] \in Request /\ RequestOK(r)
      /\ req[r].pc = "revokeAll" /\ req[r].op = "refresh" /\ UNCHANGED <<users, tokens>>
  BY DEF IndInv, TypeOK, RevokeAll, RequestOK
<1>2. Unrevoked(req[r].user) \in SUBSET Tokens
      /\ \A t \in Unrevoked(req[r].user) : tokens[t] # None
  BY DEF Unrevoked
<1>3. x \in Request /\ req' = [req EXCEPT ![r] = x]
  BY <1>1, <1>2 DEF Request, RevokeAll
<1>4. RequestOK(r)'
  BY <1>1, <1>2, <1>3 DEF RequestOK, Request
<1>5. x.new = req[r].new /\ x.op = "refresh"
  BY <1>1 DEF Request
<1> QED BY <1>1, <1>3, <1>4, <1>5, ProceedFrame DEF Outcomes

\* logout revokes its row.
LEMMA LogoutRevokeStep ==
    ASSUME IndInv, NEW r \in Requests, LogoutRevoke(r)
    PROVE  IndInv'
<1> DEFINE x == [req[r] EXCEPT !.pc = "commit", !.rev = {req[r].tok}]
<1>1. /\ req \in [Requests -> Request] /\ req[r] \in Request /\ RequestOK(r)
      /\ req[r].pc = "revoke" /\ req[r].op = "logout" /\ UNCHANGED <<users, tokens>>
  BY DEF IndInv, TypeOK, LogoutRevoke
<1>2. req[r].tok \in Tokens
  BY <1>1 DEF RequestOK
<1>3. x \in Request /\ req' = [req EXCEPT ![r] = x]
  BY <1>1, <1>2 DEF Request, LogoutRevoke
<1>4. RequestOK(r)'
  BY <1>1, <1>2, <1>3 DEF RequestOK, Request
<1>5. x.new = req[r].new /\ x.op = "logout"
  BY <1>1 DEF Request
<1> QED BY <1>1, <1>3, <1>4, <1>5, ProceedFrame DEF Outcomes

\* A transaction that is not committed leaves no row behind.
LEMMA AbortStep ==
    ASSUME IndInv, NEW r \in Requests, CommitFails(r) \/ Rollback(r)
    PROVE  IndInv'
<1>1. PICK out \in {"failed", "refused"} :
        req' = [req EXCEPT ![r].pc = out] /\ UNCHANGED <<users, tokens>>
  BY DEF CommitFails, Rollback
<1> DEFINE x == [req[r] EXCEPT !.pc = out]
<1>2. /\ req \in [Requests -> Request] /\ req[r] \in Request /\ RequestOK(r)
      /\ req[r].pc \notin Outcomes
  BY DEF IndInv, TypeOK, CommitFails, Rollback, Outcomes
<1>3. x \in Request /\ req' = [req EXCEPT ![r] = x]
  BY <1>1, <1>2 DEF Request, Outcomes
<1>4. RequestOK(r)'
  BY <1>1, <1>2, <1>3 DEF RequestOK, Request
<1>5. x.new = req[r].new /\ x.pc # "commit"
  BY <1>2 DEF Request
<1> QED BY <1>1, <1>2, <1>3, <1>4, <1>5, ProceedFrame
-----------------------------------------------------------------------------
(* The commit *)

\* No committed row of "tokens" is lost or changes its login.
TokensKept ==
    \A t \in Tokens : tokens[t] # None => tokens'[t] # None /\ tokens'[t].login = tokens[t].login

\* What an answered request ended stays ended.
LEMMA EndedForEver ==
    ASSUME IndInv, TokensKept, NEW l, Ended(l),
           \A q \in Requests : req[q].pc \in Outcomes => req'[q] = req[q]
    PROVE  Ended(l)'
<1>1. PICK q \in Requests :
        /\ \/ req[q].op = "logout" /\ req[q].pc = "ok"
           \/ req[q].op = "refresh" /\ req[q].pc = "refused"
        /\ \E t \in req[q].rev : tokens[t].login = l
  BY DEF Ended
<1>2. PICK t \in req[q].rev : tokens[t].login = l
  BY <1>1
<1>3. t \in Tokens /\ tokens[t] # None
  BY DEF IndInv, TypeOK, Request, RequestOK
<1>4. req'[q] = req[q] /\ tokens'[t].login = l
  BY <1>1, <1>2, <1>3 DEF Outcomes, TokensKept
<1> QED BY <1>1, <1>2, <1>4 DEF Ended

\* A committed registration adds an account whose address no row has and no
\* other request is inserting.
LEMMA CommitRegister ==
    ASSUME IndInv, NEW r \in Requests, Commit(r), req[r].op = "register"
    PROVE  /\ users' \in [Users -> UserRow \cup {None}]
           /\ EmailsDistinct' /\ OneAccountPerEmail'
<1> DEFINE e == req[r].email
<1>1. /\ e \in Emails /\ e.lower /\ req[r].user \in Users
      /\ users \in [Users -> UserRow \cup {None}] /\ req[r].pc = "commit"
  BY DEF IndInv, TypeOK, RequestOK, Commit
<1>2. users' = [users EXCEPT ![req[r].user] = [email |-> e, active |-> TRUE]]
  BY DEF Commit
<1>3. users' \in [Users -> UserRow \cup {None}]
  BY <1>1, <1>2 DEF UserRow
<1>4. ByEmail(e) = {} /\ ~Inserting(r, e)
  BY <1>1 DEF IndInv, EmailsDistinct
<1>5. \A v \in Users : users[v] # None => Normalized(users[v].email) # Normalized(e)
  BY <1>4 DEF ByEmail
<1>6. /\ \A v \in Users : v # req[r].user => users'[v] = users[v]
      /\ users'[req[r].user] = [email |-> e, active |-> TRUE]
      /\ [email |-> e, active |-> TRUE] # None
  <2>1. [email |-> e, active |-> TRUE] \in UserRow
    BY <1>1 DEF UserRow
  <2> QED BY <1>1, <1>2, <2>1, RowAssumption
<1>7. OneAccountPerEmail'
  <2> SUFFICES ASSUME NEW u \in Users, NEW v \in Users, users'[u] # None, users'[v] # None,
                      Normalized(users'[u].email) = Normalized(users'[v].email)
               PROVE  u = v
    BY DEF OneAccountPerEmail
  <2>1. CASE u # req[r].user /\ v # req[r].user
    BY <2>1, <1>6 DEF IndInv, OneAccountPerEmail
  <2>2. CASE u = req[r].user /\ v # req[r].user
    BY <2>2, <1>5, <1>6
  <2>3. CASE u # req[r].user /\ v = req[r].user
    BY <2>3, <1>5, <1>6
  <2> QED BY <2>1, <2>2, <2>3
<1>8. EmailsDistinct'
  <2>1. ASSUME NEW u \in Users, users'[u] # None PROVE users'[u].email.lower
    <3>1. CASE u = req[r].user BY <3>1, <1>1, <1>6
    <3>2. CASE u # req[r].user BY <3>2, <2>1, <1>6 DEF IndInv, EmailsDistinct
    <3> QED BY <3>1, <3>2
  <2>2. ASSUME NEW q \in Requests, req'[q].op = "register", req'[q].pc = "commit"
        PROVE  ByEmail(req[q].email)' = {} /\ ~Inserting(q, req[q].email)'
    <3> DEFINE f == req[q].email
    <3>1. q # r /\ req'[q] = req[q] /\ req[q].op = "register" /\ req[q].pc = "commit"
      BY <2>2 DEF IndInv, TypeOK, Request, Commit
    <3>2. ByEmail(f) = {} /\ ~Inserting(q, f) /\ f \in Emails /\ f.lower
      BY <3>1 DEF IndInv, EmailsDistinct, RequestOK
    <3>3. Normalized(f) # Normalized(e)
      BY <3>1, <3>2, <1>1, <1>4, NormalizedSame DEF Inserting
    <3>4. ByEmail(req[q].email)' = {}
      <4> SUFFICES ASSUME NEW u \in Users, users'[u] # None,
                          Normalized(users'[u].email) = Normalized(f)
                   PROVE  FALSE
        BY <3>1 DEF ByEmail
      <4>1. CASE u = req[r].user BY <4>1, <3>3, <1>6
      <4>2. CASE u # req[r].user BY <4>2, <3>2, <1>6 DEF ByEmail
      <4> QED BY <4>1, <4>2
    <3>5. ~Inserting(q, req[q].email)'
      <4>1. \A p \in Requests : p # r => req'[p] = req[p]
        BY DEF Commit, IndInv, TypeOK
      <4>2. req'[r].pc = "ok"
        BY DEF Commit, IndInv, TypeOK, Request
      <4> QED BY <4>1, <4>2, <3>1, <3>2 DEF Inserting
    <3> QED BY <3>4, <3>5
  <2> QED BY <2>1, <2>2 DEF EmailsDistinct
<1> QED BY <1>3, <1>7, <1>8

\* What a commit does to the tokens: it adds the new one, which had no row,
\* and revokes the rows the request wrote.
LEMMA CommitTokens ==
    ASSUME IndInv, NEW r \in Requests, Commit(r)
    PROVE  /\ tokens' \in [Tokens -> TokenRow \cup {None}]
           /\ TokensKept
           /\ req[r].new # None => /\ req[r].new \in Tokens /\ tokens[req[r].new] = None
                                   /\ NewToken(r) \in TokenRow
                                   /\ tokens'[req[r].new] = NewToken(r)
           /\ \A t \in Tokens : t # req[r].new /\ t \notin req[r].rev => tokens'[t] = tokens[t]
<1>1. /\ req[r] \in Request /\ RequestOK(r) /\ req[r].pc = "commit"
      /\ tokens \in [Tokens -> TokenRow \cup {None}]
  BY DEF IndInv, TypeOK, Commit
<1>2. req[r].new # None => req[r].new \in Tokens /\ tokens[req[r].new] = None
  BY <1>1 DEF RequestOK, Request
<1>3. req[r].new # None => NewToken(r) \in TokenRow
  <2> SUFFICES ASSUME req[r].new # None PROVE NewToken(r) \in TokenRow
    OBVIOUS
  <2>1. CASE req[r].op = "login"
    BY <2>1, <1>1 DEF RequestOK, NewToken, TokenRow
  <2>2. CASE req[r].op = "refresh"
    <3>1. tokens[req[r].tok] \in TokenRow /\ req[r].user \in Users
      BY <2>2, <1>1 DEF RequestOK
    <3> QED BY <2>2, <3>1 DEF NewToken, TokenRow
  <2> QED BY <2>1, <2>2, <1>1 DEF RequestOK
<1>4. \A t \in req[r].rev : tokens[t] \in TokenRow
  BY <1>1 DEF RequestOK, Request
<1>5. ASSUME NEW t \in req[r].rev
      PROVE  /\ [tokens[t] EXCEPT !.revoked = TRUE] \in TokenRow
             /\ [tokens[t] EXCEPT !.revoked = TRUE].login = tokens[t].login
  BY <1>4 DEF TokenRow
<1>6. tokens' = [t \in Tokens |->
                    IF t = req[r].new THEN NewToken(r)
                    ELSE IF t \in req[r].rev THEN [tokens[t] EXCEPT !.revoked = TRUE]
                    ELSE tokens[t]]
  BY DEF Commit
<1>7. tokens' \in [Tokens -> TokenRow \cup {None}]
  BY <1>1, <1>3, <1>5, <1>6, AuthAssumption
<1>8. TokensKept
  BY <1>1, <1>2, <1>5, <1>6, RowAssumption, AuthAssumption DEF TokensKept
<1> QED BY <1>2, <1>3, <1>6, <1>7, <1>8

\* After a commit every login that nobody ended has a token that is not
\* revoked: the one that a refresh revoked is replaced in the same step.
LEMMA CommitSurvives ==
    ASSUME IndInv, NEW r \in Requests, Commit(r)
    PROVE  LoginSurvives'
<1> SUFFICES ASSUME NEW l \in Tokens, tokens'[l] # None, tokens'[l].login = l, ~Ended(l)'
             PROVE  \E t \in Tokens : tokens'[t] # None /\ tokens'[t].login = l /\ ~tokens'[t].revoked
  BY DEF LoginSurvives
<1>1. /\ req[r] \in Request /\ RequestOK(r) /\ req[r].pc = "commit"
      /\ tokens \in [Tokens -> TokenRow \cup {None}]
  BY DEF IndInv, TypeOK, Commit
<1>2. ASSUME req[r].new # None
      PROVE  /\ req[r].new \in Tokens /\ tokens'[req[r].new] # None
             /\ ~tokens'[req[r].new].revoked
             /\ req[r].op = "refresh" => tokens'[req[r].new].login = tokens[req[r].tok].login
  <2>1. /\ req[r].new \in Tokens /\ NewToken(r) \in TokenRow
        /\ tokens'[req[r].new] = NewToken(r)
    BY <1>2, CommitTokens
  <2>2. NewToken(r) # None
    BY <2>1, RowAssumption
  <2>3. ~NewToken(r).revoked
    BY DEF NewToken
  <2>4. req[r].op = "refresh" => NewToken(r).login = tokens[req[r].tok].login
    BY DEF NewToken
  <2> QED BY <2>1, <2>2, <2>3, <2>4
<1>3. CASE l = req[r].new
  BY <1>3, <1>2, AuthAssumption
<1>4. CASE l # req[r].new
  <2>1. tokens[l] # None /\ tokens[l].login = l
    BY <1>4, <1>1, CommitTokens DEF TokensKept, RequestOK
  <2>2. ~Ended(l)
    <3>1. \A q \in Requests : req[q].pc \in Outcomes => req'[q] = req[q]
      BY <1>1 DEF Commit, Outcomes, IndInv, TypeOK
    <3> QED BY <3>1, CommitTokens, EndedForEver
  <2>3. PICK t \in Tokens : tokens[t] # None /\ tokens[t].login = l /\ ~tokens[t].revoked
    BY <2>1, <2>2 DEF IndInv, LoginSurvives
  <2>4. t # req[r].new
    BY <2>3, CommitTokens, AuthAssumption
  <2>5. CASE t \notin req[r].rev
    BY <2>3, <2>4, <2>5, CommitTokens
  <2>6. CASE t \in req[r].rev /\ req[r].op = "refresh"
    <3>1. t = req[r].tok /\ req[r].new \in Tokens
      BY <2>6, <1>1 DEF RequestOK
    <3> QED BY <3>1, <2>3, <2>6, <1>2, AuthAssumption
  <2>7. CASE t \in req[r].rev /\ req[r].op = "logout"
    <3>1. req'[r].op = "logout" /\ req'[r].pc = "ok" /\ req'[r].rev = req[r].rev
      BY <2>7, <1>1 DEF Commit, IndInv, TypeOK, Request
    <3>2. tokens'[t].login = l
      BY <2>3, CommitTokens DEF TokensKept
    <3>3. Ended(l)'
      BY <2>7, <3>1, <3>2 DEF Ended
    <3> QED BY <3>3
  <2> QED BY <2>5, <2>6, <2>7, <1>1 DEF RequestOK
<1> QED BY <1>3, <1>4

\* The commit of a request preserves the invariant.
LEMMA CommitStep ==
    ASSUME IndInv, NEW r \in Requests, Commit(r)
    PROVE  IndInv'
<1>1. /\ req \in [Requests -> Request] /\ req[r] \in Request /\ req[r].pc = "commit"
      /\ req' = [req EXCEPT ![r].pc = "ok"]
  BY DEF IndInv, TypeOK, Commit
<1>2. /\ req' \in [Requests -> Request] /\ \A q \in Requests : q # r => req'[q] = req[q]
      /\ req'[r] = [req[r] EXCEPT !.pc = "ok"]
  BY <1>1 DEF Request, Outcomes
<1>3. users' \in [Users -> UserRow \cup {None}] /\ EmailsDistinct' /\ OneAccountPerEmail'
  <2>1. CASE req[r].op = "register" BY <2>1, CommitRegister
  <2>2. CASE req[r].op # "register"
    <3>1. users' = users
      BY <2>2 DEF Commit
    <3>2. ASSUME NEW q \in Requests, req'[q].op = "register", req'[q].pc = "commit"
          PROVE  ByEmail(req[q].email)' = {} /\ ~Inserting(q, req[q].email)'
      <4>1. q # r /\ req'[q] = req[q] /\ req[q].op = "register" /\ req[q].pc = "commit"
        BY <3>2, <1>1, <1>2 DEF Request
      <4>2. ByEmail(req[q].email) = {} /\ ~Inserting(q, req[q].email)
        BY <4>1 DEF IndInv, EmailsDistinct
      <4>3. ByEmail(req[q].email)' = {}
        BY <3>1, <4>1, <4>2 DEF ByEmail
      <4>4. ~Inserting(q, req[q].email)'
        BY <4>1, <4>2, <1>2, <1>1, <2>2 DEF Inserting, Request
      <4> QED BY <4>3, <4>4
    <3> QED BY <3>1, <3>2 DEF IndInv, TypeOK, EmailsDistinct, OneAccountPerEmail
  <2> QED BY <2>1, <2>2
<1>4. ASSUME NEW q \in Requests PROVE RequestOK(q)'
  <2>1. \A t \in req[q].rev : t \in Tokens /\ tokens[t] # None /\ tokens'[t] # None
    BY CommitTokens DEF TokensKept, IndInv, RequestOK, TypeOK, Request
  <2>2. CASE q = r
    BY <2>1, <2>2, <1>1, <1>2 DEF RequestOK, IndInv, Request
  <2>3. CASE q # r
    <3>1. req'[q] = req[q] /\ RequestOK(q) /\ req[q] \in Request
      BY <2>3, <1>1, <1>2 DEF IndInv
    <3>2. req[q].pc = "revoke" => tokens'[req[q].tok] # None
      BY <3>1, CommitTokens DEF RequestOK, TokensKept
    <3>3. req[q].pc = "commit" /\ req[q].new # None => tokens'[req[q].new] = None
      <4> SUFFICES ASSUME req[q].pc = "commit", req[q].new # None
                   PROVE  tokens'[req[q].new] = None
        OBVIOUS
      <4>1. req[q].new \in Tokens /\ tokens[req[q].new] = None /\ req[q].new # req[r].new
        BY <2>3, <3>1 DEF RequestOK, Request, IndInv, NewDistinct
      <4>2. req[q].new \notin req[r].rev
        BY <4>1 DEF IndInv, RequestOK
      <4> QED BY <4>1, <4>2, CommitTokens
    <3> QED BY <2>1, <3>1, <3>2, <3>3 DEF RequestOK
  <2> QED BY <2>2, <2>3
<1>5. NewDistinct'
  <2>1. \A q \in Requests : req'[q].new = req[q].new
    BY <1>1, <1>2 DEF Request
  <2> QED BY <2>1 DEF IndInv, NewDistinct
<1>6. TypeOK'
  BY <1>2, <1>3, CommitTokens DEF TypeOK
<1> QED BY <1>3, <1>4, <1>5, <1>6, CommitSurvives DEF IndInv
-----------------------------------------------------------------------------
(* The world outside *)

\* A token expires: it is not revoked by that, and keeps its login.
LEMMA ExpireStep ==
    ASSUME IndInv, NEW t \in Tokens, Expire(t)
    PROVE  IndInv'
<1>1. /\ tokens \in [Tokens -> TokenRow \cup {None}] /\ tokens[t] \in TokenRow
      /\ tokens' = [tokens EXCEPT ![t].expired = TRUE] /\ UNCHANGED <<users, req>>
  BY DEF IndInv, TypeOK, Expire
<1>2. /\ tokens'[t] \in TokenRow /\ tokens'[t].login = tokens[t].login
      /\ tokens'[t].revoked = tokens[t].revoked
  BY <1>1 DEF TokenRow
<1>3. \A k \in Tokens : k # t => tokens'[k] = tokens[k]
  BY <1>1
<1>4. tokens' \in [Tokens -> TokenRow \cup {None}]
  BY <1>1, <1>2, <1>3
<1>5. \A k \in Tokens : /\ (tokens'[k] = None) <=> (tokens[k] = None)
                        /\ tokens[k] # None => /\ tokens'[k].login = tokens[k].login
                                               /\ tokens'[k].revoked = tokens[k].revoked
  BY <1>1, <1>2, <1>3, RowAssumption
<1>6. TokensKept
  BY <1>5 DEF TokensKept
<1>7. \A r \in Requests : RequestOK(r)'
  <2> SUFFICES ASSUME NEW r \in Requests PROVE RequestOK(r)'
    OBVIOUS
  <2>1. RequestOK(r) /\ req[r] \in Request
    BY DEF IndInv, TypeOK
  <2> QED BY <2>1, <1>1, <1>5 DEF RequestOK, Request
<1>8. LoginSurvives'
  BY <1>1, <1>5, <1>6, EndedForEver DEF IndInv, LoginSurvives
<1>9. NewDistinct' /\ OneAccountPerEmail' /\ EmailsDistinct'
  BY <1>1 DEF IndInv, NewDistinct, OneAccountPerEmail, EmailsDistinct, ByEmail, Inserting
<1> QED BY <1>1, <1>4, <1>7, <1>8, <1>9 DEF IndInv, TypeOK

\* An account is suspended: its address stays taken.
LEMMA DeactivateStep ==
    ASSUME IndInv, NEW u \in Users, Deactivate(u)
    PROVE  IndInv'
<1>1. /\ users \in [Users -> UserRow \cup {None}] /\ users[u] \in UserRow
      /\ users' = [users EXCEPT ![u].active = FALSE] /\ UNCHANGED <<tokens, req>>
  BY DEF IndInv, TypeOK, Deactivate
<1>2. users'[u] \in UserRow /\ users'[u].email = users[u].email
  BY <1>1 DEF UserRow
<1>3. users' \in [Users -> UserRow \cup {None}]
  BY <1>1, <1>2
<1>4. \A v \in Users : /\ (users'[v] = None) <=> (users[v] = None)
                       /\ users[v] # None => users'[v].email = users[v].email
  BY <1>1, <1>2, RowAssumption
<1>5. OneAccountPerEmail'
  BY <1>4 DEF IndInv, OneAccountPerEmail
<1>6. EmailsDistinct'
  <2>1. \A r \in Requests : ByEmail(req[r].email)' = ByEmail(req[r].email)
    BY <1>1, <1>4 DEF ByEmail
  <2>2. \A r \in Requests : Inserting(r, req[r].email)' <=> Inserting(r, req[r].email)
    BY <1>1 DEF Inserting
  <2> QED BY <1>1, <1>4, <2>1, <2>2 DEF IndInv, EmailsDistinct
<1>7. LoginSurvives' /\ NewDistinct' /\ \A r \in Requests : RequestOK(r)'
  BY <1>1 DEF IndInv, LoginSurvives, NewDistinct, RequestOK, Ended
<1> QED BY <1>1, <1>3, <1>5, <1>6, <1>7 DEF IndInv, TypeOK

-----------------------------------------------------------------------------
(* The invariant *)

\* A service without accounts satisfies it.
LEMMA InitIndInv == Init => IndInv
<1> SUFFICES ASSUME Init PROVE IndInv
  OBVIOUS
<1>1. NoRequest \in Request
  BY DEF NoRequest, Request
<1>2. TypeOK
  BY <1>1 DEF Init, TypeOK
<1>3. \A r \in Requests : req[r] = NoRequest
  BY DEF Init
<1>4. \A r \in Requests : RequestOK(r)
  BY <1>3, RowAssumption DEF RequestOK, NoRequest, Ops
<1>5. NewDistinct /\ EmailsDistinct /\ OneAccountPerEmail /\ LoginSurvives
  BY <1>3 DEF Init, NoRequest, NewDistinct, EmailsDistinct, OneAccountPerEmail, LoginSurvives
<1> QED BY <1>2, <1>4, <1>5 DEF IndInv

\* Every step preserves it.
LEMMA NextIndInv == IndInv /\ [Next]_vars => IndInv'
<1> SUFFICES ASSUME IndInv, [Next]_vars PROVE IndInv'
  OBVIOUS
<1>1. ASSUME NEW r \in Requests, NEW e \in Emails, RegisterRead(r, e) \/ LoginAccepted(r, e)
      PROVE  IndInv'
  BY <1>1, RegisterReadStep, LoginAcceptedStep
<1>2. ASSUME NEW r \in Requests, LoginRefused(r) PROVE IndInv'
  BY <1>2, LoginRefusedStep
<1>3. ASSUME NEW r \in Requests, NEW t \in Cookies, RefreshRead(r, t) \/ LogoutRead(r, t)
      PROVE  IndInv'
  <2>1. t \in Tokens
    BY DEF Cookies, IndInv, TypeOK, Request
  <2> QED BY <2>1, <1>3, RefreshReadStep, LogoutReadStep
<1>4. ASSUME NEW r \in Requests, Proceed(r) PROVE IndInv'
  BY <1>4, RegisterInsertStep, RefreshRotateStep, RevokeAllStep, LogoutRevokeStep,
     CommitStep, AbortStep DEF Proceed
<1>5. ASSUME NEW t \in Tokens, Expire(t) PROVE IndInv'
  BY <1>5, ExpireStep
<1>6. ASSUME NEW u \in Users, Deactivate(u) PROVE IndInv'
  BY <1>6, DeactivateStep
<1>7. CASE UNCHANGED vars
  BY <1>7 DEF vars, IndInv, TypeOK, RequestOK, NewDistinct, EmailsDistinct, ByEmail,
     Inserting, OneAccountPerEmail, LoginSurvives, Ended
<1> QED BY <1>1, <1>2, <1>3, <1>4, <1>5, <1>6, <1>7 DEF Next, Begin

\* Whatever requests overlap and whatever commits fail, rows and requests are
\* in order at all times.
THEOREM AuthInvariant == Spec => []IndInv
  BY InitIndInv, NextIndInv, PTL DEF Spec

\* The rows of "users" and "refresh_tokens" are well formed.
THEOREM TypeCorrect == Spec => []TypeOK
<1>1. IndInv => TypeOK
  BY DEF IndInv
<1> QED BY <1>1, AuthInvariant, PTL

\* register never creates two accounts for one address, however many
\* registrations race.
THEOREM UniqueAccounts == Spec => []OneAccountPerEmail
<1>1. IndInv => OneAccountPerEmail
  BY DEF IndInv
<1> QED BY <1>1, AuthInvariant, PTL

\* refresh never loses a login, however many rotations overlap and whichever
\* commits fail.
THEOREM LoginsSurvive == Spec => []LoginSurvives
<1>1. IndInv => LoginSurvives
  BY DEF IndInv
<1> QED BY <1>1, AuthInvariant, PTL

-----------------------------------------------------------------------------
(* How often a token is exchanged *)

\* One request at a time moves, and a new one only if there is room.
LEMMA OneMoves ==
    ASSUME IndInv, [Next]_vars, req' # req
    PROVE  \E r \in Requests :
              /\ \A q \in Requests \ {r} : req'[q] = req[q]
              /\ r \in Open \/ (req[r].pc = "new" /\ Cardinality(Open) < MaxOpen)
<1>1. req \in [Requests -> Request]
  BY DEF IndInv, TypeOK
<1>2. ASSUME NEW r \in Requests, Begin(r)
      PROVE  /\ \A q \in Requests \ {r} : req'[q] = req[q]
             /\ req[r].pc = "new" /\ Cardinality(Open) < MaxOpen
  BY <1>1, <1>2 DEF Begin, RegisterRead, LoginAccepted, LoginRefused, RefreshRead,
                    RefreshStart, LogoutRead, CanBegin
<1>3. ASSUME NEW r \in Requests, Proceed(r)
      PROVE  /\ \A q \in Requests \ {r} : req'[q] = req[q]
             /\ r \in Open
  BY <1>1, <1>3 DEF Proceed, RegisterInsert, RefreshRotate, RevokeAll, LogoutRevoke,
                    Commit, CommitFails, Rollback, Open, Outcomes
<1>4. PICK r \in Requests : Begin(r) \/ Proceed(r)
  BY DEF Next, Expire, Deactivate, vars
<1>5. CASE Begin(r)
  BY <1>2, <1>5
<1>6. CASE Proceed(r)
  BY <1>3, <1>6
<1> QED BY <1>4, <1>5, <1>6

\* Requests that begin do so only while there is room for one more.
LEMMA OpenStep ==
    ASSUME IndInv, [Next]_vars, IsFiniteSet(Requests), Cardinality(Open) <= MaxOpen
    PROVE  IsFiniteSet(Open') /\ Cardinality(Open') <= MaxOpen
<1>1. Open \subseteq Requests /\ Open' \subseteq Requests
  BY DEF Open
<1>2. IsFiniteSet(Open) /\ IsFiniteSet(Open') /\ Cardinality(Open) \in Nat /\ MaxOpen \in Nat
  BY <1>1, FS_Subset, FS_CardinalityType, AuthAssumption
<1>3. CASE req' = req
  BY <1>2, <1>3 DEF Open
<1>4. CASE req' # req
  <2>1. PICK r \in Requests :
          /\ \A q \in Requests \ {r} : req'[q] = req[q]
          /\ r \in Open \/ (req[r].pc = "new" /\ Cardinality(Open) < MaxOpen)
    BY <1>4, OneMoves
  <2>2. Open' \subseteq Open \cup {r}
    BY <2>1 DEF Open
  <2>3. /\ IsFiniteSet(Open \cup {r})
        /\ Cardinality(Open \cup {r}) = IF r \in Open THEN Cardinality(Open) ELSE Cardinality(Open) + 1
    BY <1>2, FS_AddElement
  <2>4. Cardinality(Open \cup {r}) <= MaxOpen
    BY <1>2, <2>1, <2>3
  <2>5. Cardinality(Open') <= Cardinality(Open \cup {r}) /\ Cardinality(Open') \in Nat
    BY <1>2, <2>2, <2>3, FS_Subset, FS_CardinalityType
  <2>6. Cardinality(Open \cup {r}) \in Nat
    BY <2>3, FS_CardinalityType
  <2> QED BY <1>2, <2>4, <2>5, <2>6
<1> QED BY <1>3, <1>4

\* Whoever joins those that exchange a token has just found it not revoked,
\* in a step that writes no row.
LEMMA JoinStep ==
    ASSUME IndInv, [Next]_vars, NEW t \in Tokens,
           NEW r \in Exchanging(t)', r \notin Exchanging(t)
    PROVE  tokens[t] # None /\ ~tokens[t].revoked /\ tokens' = tokens /\ req'[r].pc = "revoke"
<1>1. req \in [Requests -> Request] /\ r \in Requests /\ RequestOK(r)
  BY DEF IndInv, TypeOK, Exchanging
<1>2. req' # req
  BY DEF Exchanging
<1>3. PICK p \in Requests : Begin(p) \/ Proceed(p)
  BY <1>2 DEF Next, Expire, Deactivate, vars
<1>4. p = r
  BY <1>1, <1>3 DEF Exchanging, Begin, RegisterRead, LoginAccepted, LoginRefused, RefreshRead,
     RefreshStart, LogoutRead, Proceed, RegisterInsert, RefreshRotate, RevokeAll, LogoutRevoke,
     Commit, CommitFails, Rollback
<1>5. CASE Proceed(r)
  <2>1. req'[r].op = req[r].op /\ req'[r].tok = req[r].tok
    BY <1>1, <1>5 DEF Proceed, RegisterInsert, RefreshRotate, RevokeAll, LogoutRevoke,
       Commit, CommitFails, Rollback, Request
  <2>2. req[r].op = "refresh" /\ req[r].tok = t /\ req[r].pc \notin {"revoke", "commit", "ok"}
    BY <1>1, <2>1 DEF Exchanging
  <2>3. req[r].pc # "insert"
    BY <1>1, <2>2 DEF RequestOK
  <2>4. req'[r].pc \in {"rollback", "refused"}
    BY <1>1, <1>5, <2>2, <2>3 DEF Proceed, RegisterInsert, RefreshRotate, RevokeAll,
       LogoutRevoke, Commit, CommitFails, Rollback, Request
  <2> QED BY <2>4 DEF Exchanging
<1>6. ASSUME NEW c \in Cookies, RefreshRead(r, c)
      PROVE  /\ tokens[t] # None /\ ~tokens[t].revoked /\ tokens' = tokens
             /\ req'[r].pc = "revoke"
  <2>1. req'[r].tok = t /\ req'[r].pc \in {"revoke", "commit", "ok"}
    BY DEF Exchanging
  <2>2. \A pc : RefreshStart(r, c, pc) => req'[r].tok = c /\ req'[r].pc = pc
    BY <1>1 DEF RefreshStart, Request
  <2> QED BY <1>6, <2>1, <2>2 DEF RefreshRead
<1>7. ASSUME Begin(r), \A c \in Cookies : ~RefreshRead(r, c) PROVE req'[r].op # "refresh"
  <2>1. CASE LoginRefused(r)
    BY <1>1, <2>1 DEF LoginRefused, Request
  <2>2. ASSUME NEW e \in Emails, RegisterRead(r, e) PROVE req'[r].op # "refresh"
    BY <1>1, <2>2 DEF RegisterRead, Request
  <2>3. ASSUME NEW e \in Emails, LoginAccepted(r, e) PROVE req'[r].op # "refresh"
    BY <1>1, <2>3 DEF LoginAccepted, Request
  <2>4. ASSUME NEW c \in Cookies, LogoutRead(r, c) PROVE req'[r].op # "refresh"
    BY <1>1, <2>4 DEF LogoutRead, Request
  <2> QED BY <1>7, <2>1, <2>2, <2>3, <2>4 DEF Begin
<1> QED BY <1>3, <1>4, <1>5, <1>6, <1>7 DEF Exchanging

\* A revoked token stays revoked.
LEMMA RevokedStays ==
    ASSUME IndInv, [Next]_vars, NEW t \in Tokens, tokens[t] # None, tokens[t].revoked
    PROVE  tokens'[t] # None /\ tokens'[t].revoked
<1>1. tokens \in [Tokens -> TokenRow \cup {None}] /\ tokens[t] \in TokenRow
  BY DEF IndInv, TypeOK
<1>2. ASSUME NEW r \in Requests, Commit(r) PROVE tokens'[t] # None /\ tokens'[t].revoked
  <2>1. t # req[r].new
    BY <1>2, AuthAssumption DEF Commit, IndInv, RequestOK
  <2>2. tokens'[t] = IF t \in req[r].rev THEN [tokens[t] EXCEPT !.revoked = TRUE] ELSE tokens[t]
    BY <1>2, <2>1 DEF Commit
  <2>3. tokens'[t] \in TokenRow /\ tokens'[t].revoked
    BY <1>1, <2>2 DEF TokenRow
  <2> QED BY <2>3, RowAssumption
<1>3. ASSUME NEW u \in Tokens, Expire(u) PROVE tokens'[t] # None /\ tokens'[t].revoked
  <2>1. tokens'[t] \in TokenRow /\ tokens'[t].revoked
    BY <1>1, <1>3 DEF Expire, TokenRow
  <2> QED BY <2>1, RowAssumption
<1>4. ASSUME tokens' # tokens
      PROVE  (\E r \in Requests : Commit(r)) \/ (\E u \in Tokens : Expire(u))
  BY <1>4 DEF Next, vars, Begin, RegisterRead, LoginAccepted, LoginRefused, RefreshRead,
     LogoutRead, Proceed, RegisterInsert, RefreshRotate, RevokeAll, LogoutRevoke,
     CommitFails, Rollback, Deactivate
<1> QED BY <1>2, <1>3, <1>4

\* The commit of an exchange revokes the token.
LEMMA DoneStep ==
    ASSUME IndInv, [Next]_vars, NEW t \in Tokens,
           NEW r \in Exchanging(t), req[r].pc # "ok", req'[r].pc = "ok"
    PROVE  tokens'[t] # None /\ tokens'[t].revoked
<1>1. /\ req \in [Requests -> Request] /\ r \in Requests /\ RequestOK(r)
      /\ req[r].op = "refresh" /\ req[r].tok = t /\ req[r].pc \in {"revoke", "commit"}
      /\ tokens \in [Tokens -> TokenRow \cup {None}]
  BY DEF IndInv, TypeOK, Exchanging
<1>2. PICK p \in Requests : Begin(p) \/ Proceed(p)
  BY DEF Next, Expire, Deactivate, vars
<1>3. p = r
  BY <1>1, <1>2 DEF Begin, RegisterRead, LoginAccepted, LoginRefused, RefreshRead,
     RefreshStart, LogoutRead, Proceed, RegisterInsert, RefreshRotate, RevokeAll, LogoutRevoke,
     Commit, CommitFails, Rollback
<1>4. Commit(r)
  <2>1. Proceed(r)
    BY <1>1, <1>2, <1>3 DEF Begin, CanBegin, RegisterRead, LoginAccepted, LoginRefused,
       RefreshRead, LogoutRead
  <2>2. ~RefreshRotate(r) /\ ~CommitFails(r)
    BY <1>1 DEF RefreshRotate, CommitFails, Request
  <2> QED BY <1>1, <2>1, <2>2 DEF Proceed, RegisterInsert, RevokeAll, LogoutRevoke, Rollback
<1>5. tokens[t] # None /\ t # req[r].new /\ t \in req[r].rev
  BY <1>1, <1>4, AuthAssumption DEF RequestOK, Commit
<1>6. tokens'[t] = [tokens[t] EXCEPT !.revoked = TRUE]
  BY <1>4, <1>5 DEF Commit
<1>7. tokens'[t] \in TokenRow /\ tokens'[t].revoked
  BY <1>1, <1>5, <1>6 DEF TokenRow
<1> QED BY <1>7, RowAssumption

\* Those who exchange a token are among the requests in progress until the
\* first of them is done, and none joins them afterwards.
LEMMA FanOutStep ==
    ASSUME IndInv, FanOutInv, [Next]_vars
    PROVE  FanOutInv'
<1> SUFFICES ASSUME IsFiniteSet(Requests), NEW t \in Tokens
             PROVE  /\ Cardinality(Open') <= MaxOpen
                    /\ Cardinality(Exchanging(t)') <= MaxOpen
                    /\ \A r \in Exchanging(t)' :
                         req'[r].pc = "ok" => tokens'[t] # None /\ tokens'[t].revoked
  <2>1. CASE Tokens = {}
    BY <2>1, OpenStep DEF FanOutInv
  <2>2. CASE Tokens # {}
    BY <2>2 DEF FanOutInv
  <2> QED BY <2>1, <2>2
<1>1. IsFiniteSet(Open') /\ Cardinality(Open') <= MaxOpen
  BY OpenStep DEF FanOutInv
<1>2. MaxOpen \in Nat
  BY AuthAssumption
<1>3. ASSUME NEW r \in Exchanging(t)', req'[r].pc = "ok"
      PROVE  tokens'[t] # None /\ tokens'[t].revoked
  <2>1. r \in Exchanging(t)
    BY <1>3, JoinStep
  <2>2. CASE req[r].pc = "ok"
    BY <2>1, <2>2, RevokedStays DEF FanOutInv
  <2>3. CASE req[r].pc # "ok"
    BY <1>3, <2>1, <2>3, DoneStep
  <2> QED BY <2>2, <2>3
<1>4. CASE Exchanging(t)' \subseteq Exchanging(t)
  <2>1. Exchanging(t) \subseteq Requests
    BY DEF Exchanging
  <2>2. IsFiniteSet(Exchanging(t))
    BY <2>1, FS_Subset
  <2>3. /\ Cardinality(Exchanging(t)') <= Cardinality(Exchanging(t))
        /\ Cardinality(Exchanging(t)) \in Nat /\ Cardinality(Exchanging(t)') \in Nat
    BY <1>4, <2>2, FS_Subset, FS_CardinalityType
  <2>4. Cardinality(Exchanging(t)) <= MaxOpen
    BY DEF FanOutInv
  <2> QED BY <1>1, <1>2, <1>3, <2>3, <2>4
<1>5. CASE ~(Exchanging(t)' \subseteq Exchanging(t))
  <2>1. tokens[t] # None /\ ~tokens[t].revoked /\ tokens' = tokens
    BY <1>5, JoinStep
  <2>2. \A r \in Exchanging(t)' : req'[r].pc # "ok"
    BY <1>3, <2>1
  <2>3. Exchanging(t)' \subseteq Open'
    BY <2>2 DEF Exchanging, Open, Outcomes
  <2>4. Cardinality(Exchanging(t)') <= Cardinality(Open')
    BY <1>1, <2>3, FS_Subset
  <2>5. IsFiniteSet(Exchanging(t)')
    BY <1>1, <2>3, FS_Subset
  <2>6. Cardinality(Exchanging(t)') \in Nat /\ Cardinality(Open') \in Nat
    BY <1>1, <2>5, FS_CardinalityType
  <2> QED BY <1>1, <1>2, <1>3, <2>4, <2>6
<1> QED BY <1>4, <1>5

\* Nobody has begun, and nothing is exchanged.
LEMMA InitFanOut == Init => FanOutInv
<1> SUFFICES ASSUME Init PROVE FanOutInv
  OBVIOUS
<1>1. \A r \in Requests : req[r].pc = "new"
  BY DEF Init, NoRequest
<1>2. Open = {} /\ \A t \in Tokens : Exchanging(t) = {}
  BY <1>1 DEF Open, Exchanging
<1> QED BY <1>2, FS_EmptySet, AuthAssumption DEF FanOutInv

\* The requests that exchange a token all found it not revoked before the first
\* of them revoked it.
THEOREM FanOutInvariance == Spec => []FanOutInv
<1>1. IndInv /\ FanOutInv /\ [Next]_vars => FanOutInv'
  BY FanOutStep
<1> QED BY <1>1, InitFanOut, AuthInvariant, PTL DEF Spec

\* A token is exchanged at most once per request in progress: the check of
\* revoked_at and its write are two statements, but nobody who begins after the
\* first exchange gets a pair. (Infinite sets of requests have no cardinality.)
THEOREM FanOutIsBounded ==
    ASSUME IsFiniteSet(Requests) PROVE Spec => []FanOutBounded
<1>1. ASSUME FanOutInv PROVE FanOutBounded
  <2> SUFFICES ASSUME NEW t \in Tokens
               PROVE  Cardinality({r \in Requests : req[r].op = "refresh" /\ req[r].tok = t
                                                     /\ req[r].pc = "ok"}) <= MaxOpen
    BY DEF FanOutBounded
  <2> DEFINE done == {r \in Requests : req[r].op = "refresh" /\ req[r].tok = t
                                        /\ req[r].pc = "ok"}
  <2>1. done \subseteq Exchanging(t) /\ Exchanging(t) \subseteq Requests
    BY DEF Exchanging
  <2>2. IsFiniteSet(Exchanging(t)) /\ Cardinality(Exchanging(t)) <= MaxOpen
    BY <1>1, <2>1, FS_Subset DEF FanOutInv
  <2>3. IsFiniteSet(done) /\ Cardinality(done) <= Cardinality(Exchanging(t))
    BY <2>1, <2>2, FS_Subset
  <2>4. Cardinality(done) \in Nat /\ Cardinality(Exchanging(t)) \in Nat /\ MaxOpen \in Nat
    BY <2>2, <2>3, FS_CardinalityType, AuthAssumption
  <2> QED BY <2>2, <2>3, <2>4
<1> QED BY <1>1, FanOutInvariance, PTL
=============================================================================
