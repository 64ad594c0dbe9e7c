-------------------------------- MODULE Auth --------------------------------
(***************************************************************************)
(* Accounts and refresh tokens: AuthService with the transaction that      *)
(* get_session opens around each request.                                  *)
(*                                                                         *)
(* "users" and "tokens" hold the committed rows. A request is one          *)
(* transaction: req[r] holds what it read and what it wrote. PostgreSQL    *)
(* runs at READ COMMITTED: a SELECT sees the committed rows, an UPDATE     *)
(* waits for a transaction that has written the same row, and an INSERT    *)
(* waits for one that has inserted the same value of a unique index.       *)
(* The answer leaves before the commit (FastAPI leaves the dependency      *)
(* get_session after the response), so a client may hold a cookie whose    *)
(* row is not committed yet, or never will be.                             *)
(***************************************************************************)
EXTENDS Naturals, FiniteSets

CONSTANTS
    Users,      \* ids of rows of "users"
    Names,      \* e-mail addresses up to case
    Tokens,     \* refresh tokens, and the rows that hold their hashes
    Requests,   \* HTTP requests, each made once
    MaxOpen,    \* bound: requests in progress at the same time
    None        \* SQL NULL, Python None

ASSUME AuthAssumption ==
    /\ None \notin Users \cup Tokens
    /\ MaxOpen \in Nat

VARIABLES
    users,      \* [Users -> UserRow or None]
    tokens,     \* [Tokens -> TokenRow or None]
    req         \* [Requests -> Request]

vars == <<users, tokens, req>>

-----------------------------------------------------------------------------
\* An address as typed: "lower" says whether it is in lower case already.
Emails == [name : Names, lower : BOOLEAN]

\* email.strip().lower(), and the lower(email) of the unique index.
Normalized(e) == [name |-> e.name, lower |-> TRUE]

UserRow == [email : Emails, active : BOOLEAN]

\* "login" is history: the token that began the chain of rotations.
TokenRow == [user : Users, expired : BOOLEAN, revoked : BOOLEAN, login : Tokens]

Ops == {"register", "login", "refresh", "logout"}

\* NULL is no row, and no operation.
ASSUME RowAssumption == None \notin UserRow \cup TokenRow \cup Ops

Outcomes == {"ok", "refused", "failed"}
Waiting == {"insert", "revoke", "revokeAll"}
Request == [op : Ops \cup {None},
            pc : {"new", "commit", "rollback"} \cup Waiting \cup Outcomes,
            email : Emails \cup {None},
            user : Users \cup {None},      \* the account read or inserted
            tok : Tokens \cup {None},      \* the cookie gh_refresh
            new : Tokens \cup {None},      \* the token of the pair returned
            rev : SUBSET Tokens]           \* rows whose revoked_at it wrote

NoRequest == [op |-> None, pc |-> "new", email |-> None, user |-> None,
              tok |-> None, new |-> None, rev |-> {}]

Init ==
    /\ users = [u \in Users |-> None]
    /\ tokens = [t \in Tokens |-> None]
    /\ req = [r \in Requests |-> NoRequest]

-----------------------------------------------------------------------------
Open == {r \in Requests : req[r].pc \notin {"new"} \cup Outcomes}
CanBegin(r) == req[r].pc = "new" /\ Cardinality(Open) < MaxOpen

\* secrets.token_urlsafe(32) never repeats.
FreshTokens == {t \in Tokens : tokens[t] = None /\ \A q \in Requests : req[q].new # t}

\* What a client may send: every cookie that an answer has set.
Cookies == {req[q].new : q \in Requests} \ {None}

\* uuid.uuid4(): an id that no row has, committed or not.
FreshUsers == {u \in Users : users[u] = None /\ \A q \in Open : req[q].user # u}

ByEmail(e) == {u \in Users : users[u] # None /\ Normalized(users[u].email) = Normalized(e)}

Unrevoked(u) == {t \in Tokens : tokens[t] # None /\ tokens[t].user = u /\ ~tokens[t].revoked}

\* Rows that another transaction has written and not yet committed.
Locked(r) == UNION {req[q].rev : q \in {p \in Requests \ {r} : req[p].pc \in {"commit", "rollback"}}}

-----------------------------------------------------------------------------
(* POST /auth/register *)

RegisterRead(r, e) ==
    /\ CanBegin(r)
    /\ req' = [req EXCEPT ![r].op = "register", ![r].email = Normalized(e),
                          ![r].pc = IF ByEmail(e) # {} THEN "refused" ELSE "insert"]
    /\ UNCHANGED <<users, tokens>>

Inserting(r, e) == \E q \in Requests \ {r} :
    req[q].op = "register" /\ req[q].pc = "commit" /\ req[q].email = e

\* Mutant: the address is only looked up, no index is unique.
RegisterInsertUnchecked(r) ==
    /\ req[r].pc = "insert"
    /\ \E u \in FreshUsers : req' = [req EXCEPT ![r].pc = "commit", ![r].user = u]
    /\ UNCHANGED <<users, tokens>>

\* The INSERT of users.create: the unique index on lower(email) makes it wait
\* for an uncommitted account of the same address, and fail on a committed
\* one (IntegrityError, raised as EmailAlreadyTaken: the session rolls back).
RegisterInsert(r) ==
    /\ req[r].pc = "insert"
    /\ ~Inserting(r, req[r].email)
    /\ \/ /\ ByEmail(req[r].email) # {}
          /\ req' = [req EXCEPT ![r].pc = "refused"]
       \/ /\ ByEmail(req[r].email) = {}
          /\ \E u \in FreshUsers :
                req' = [req EXCEPT ![r].pc = "commit", ![r].user = u]
    /\ UNCHANGED <<users, tokens>>

-----------------------------------------------------------------------------
(* POST /auth/login *)

\* No account, a wrong password, or an account that is not active.
LoginRefused(r) ==
    /\ CanBegin(r)
    /\ req' = [req EXCEPT ![r].op = "login", ![r].pc = "refused"]
    /\ UNCHANGED <<users, tokens>>

LoginAccepted(r, e) ==
    /\ CanBegin(r)
    /\ \E u \in ByEmail(e), t \in FreshTokens :
          /\ users[u].active
          /\ req' = [req EXCEPT ![r].op = "login", ![r].pc = "commit",
                                ![r].user = u, ![r].new = t]
    /\ UNCHANGED <<users, tokens>>

-----------------------------------------------------------------------------
(* POST /auth/refresh *)

RefreshStart(r, t, pc) ==
    req' = [req EXCEPT ![r].op = "refresh", ![r].tok = t, ![r].pc = pc,
                       ![r].user = IF tokens[t] = None THEN None ELSE tokens[t].user]

\* Mutant: the row is looked up, and its revoked_at ignored.
RefreshReadUnchecked(r, t) ==
    /\ CanBegin(r)
    /\ IF tokens[t] = None \/ tokens[t].expired THEN RefreshStart(r, t, "refused")
       ELSE RefreshStart(r, t, "revoke")
    /\ UNCHANGED <<users, tokens>>

\* The SELECTs of refresh: the row of the cookie, then its account.
RefreshRead(r, t) ==
    /\ CanBegin(r)
    /\ IF tokens[t] = None \/ tokens[t].expired THEN RefreshStart(r, t, "refused")
       ELSE IF tokens[t].revoked THEN RefreshStart(r, t, "revokeAll")
       ELSE IF ~users[tokens[t].user].active THEN RefreshStart(r, t, "refused")
       ELSE RefreshStart(r, t, "revoke")
    /\ UNCHANGED <<users, tokens>>

\* Mutant: the revocation is committed on its own, before the new token.
RefreshRotateInTwo(r) ==
    /\ req[r].op = "refresh" /\ req[r].pc = "revoke"
    /\ req[r].tok \notin Locked(r)
    /\ tokens' = [tokens EXCEPT ![req[r].tok].revoked = TRUE]
    /\ \E t \in FreshTokens :
          req' = [req EXCEPT ![r].pc = "commit", ![r].rev = {req[r].tok}, ![r].new = t]
    /\ UNCHANGED users

\* revoke(row) writes revoked_at by primary key, whatever it holds by now;
\* _issue_pair inserts the next token.
RefreshRotate(r) ==
    /\ req[r].op = "refresh" /\ req[r].pc = "revoke"
    /\ req[r].tok \notin Locked(r)
    /\ \E t \in FreshTokens :
          req' = [req EXCEPT ![r].pc = "commit", ![r].rev = {req[r].tok}, ![r].new = t]
    /\ UNCHANGED <<users, tokens>>

\* revoke_all_for_user, then RefreshInvalid: the exception leaves through
\* get_session, which rolls the UPDATE back.
RevokeAll(r) ==
    /\ req[r].pc = "revokeAll"
    /\ Unrevoked(req[r].user) \cap Locked(r) = {}
    /\ req' = [req EXCEPT ![r].pc = "rollback", ![r].rev = Unrevoked(req[r].user)]
    /\ UNCHANGED <<users, tokens>>

-----------------------------------------------------------------------------
(* POST /auth/logout *)

LogoutRead(r, t) ==
    /\ CanBegin(r)
    /\ req' = [req EXCEPT ![r].op = "logout", ![r].tok = t,
                          ![r].pc = IF tokens[t] # None /\ ~tokens[t].revoked
                                    THEN "revoke" ELSE "ok"]
    /\ UNCHANGED <<users, tokens>>

LogoutRevoke(r) ==
    /\ req[r].op = "logout" /\ req[r].pc = "revoke"
    /\ req[r].tok \notin Locked(r)
    /\ req' = [req EXCEPT ![r].pc = "commit", ![r].rev = {req[r].tok}]
    /\ UNCHANGED <<users, tokens>>

-----------------------------------------------------------------------------
(* get_session *)

NewToken(r) ==
    [user |-> req[r].user, expired |-> FALSE, revoked |-> FALSE,
     login |-> IF req[r].op = "login" THEN req[r].new ELSE tokens[req[r].tok].login]

\* The rows of the request become visible together.
Commit(r) ==
    /\ req[r].pc = "commit"
    /\ users' = IF req[r].op # "register" THEN users
                ELSE [users EXCEPT ![req[r].user] = [email |-> req[r].email, active |-> TRUE]]
    /\ tokens' = [t \in Tokens |->
                    IF t = req[r].new THEN NewToken(r)
                    ELSE IF t \in req[r].rev THEN [tokens[t] EXCEPT !.revoked = TRUE]
                    ELSE tokens[t]]
    /\ req' = [req EXCEPT ![r].pc = "ok"]

\* The database refuses the commit, after the client has its answer.
CommitFails(r) ==
    /\ req[r].pc = "commit"
    /\ req' = [req EXCEPT ![r].pc = "failed"]
    /\ UNCHANGED <<users, tokens>>

Rollback(r) ==
    /\ req[r].pc = "rollback"
    /\ req' = [req EXCEPT ![r].pc = "refused"]
    /\ UNCHANGED <<users, tokens>>

-----------------------------------------------------------------------------
(* The world outside: the clock, and the operator who suspends an account  *)
(* in the database (nothing under src/ writes is_active).                  *)

Expire(t) ==
    /\ tokens[t] # None /\ ~tokens[t].expired
    /\ tokens' = [tokens EXCEPT ![t].expired = TRUE]
    /\ UNCHANGED <<users, req>>

Deactivate(u) ==
    /\ users[u] # None /\ users[u].active
    /\ users' = [users EXCEPT ![u].active = FALSE]
    /\ UNCHANGED <<tokens, req>>

-----------------------------------------------------------------------------
Begin(r) ==
    \/ \E e \in Emails : RegisterRead(r, e) \/ LoginAccepted(r, e)
    \/ LoginRefused(r)
    \/ \E t \in Cookies : RefreshRead(r, t) \/ LogoutRead(r, t)

Proceed(r) ==
    \/ RegisterInsert(r) \/ RefreshRotate(r) \/ RevokeAll(r) \/ LogoutRevoke(r)
    \/ Commit(r) \/ CommitFails(r) \/ Rollback(r)

Next ==
    \/ \E r \in Requests : Begin(r) \/ Proceed(r)
    \/ \E t \in Tokens : Expire(t)
    \/ \E u \in Users : Deactivate(u)

Spec == Init /\ [][Next]_vars

-----------------------------------------------------------------------------
TypeOK ==
    /\ users \in [Users -> UserRow \cup {None}]
    /\ tokens \in [Tokens -> TokenRow \cup {None}]
    /\ req \in [Requests -> Request]

\* Two registrations that both saw the address free, in whatever spelling, do
\* not both create an account: the IntegrityError branch of register closes
\* the gap between its SELECT and its INSERT. (get_by_email would raise on two.)
OneAccountPerEmail ==
    \A u, v \in Users :
        users[u] # None /\ users[v] # None
            /\ Normalized(users[u].email) = Normalized(users[v].email) => u = v

\* A token is exchanged at most once per request in progress: overlapping
\* requests may all have read the row before the first of them revoked it,
\* but nobody who comes later gets a pair for it.
FanOutBounded ==
    \A t \in Tokens :
        Cardinality({r \in Requests : req[r].op = "refresh" /\ req[r].tok = t
                                        /\ req[r].pc = "ok"}) <= MaxOpen

\* Who ended a login: a logout with one of its tokens, or the revocation of
\* all the account's tokens after a reuse.
Ended(l) ==
    \E r \in Requests :
        /\ \/ req[r].op = "logout" /\ req[r].pc = "ok"
           \/ req[r].op = "refresh" /\ req[r].pc = "refused"
        /\ \E t \in req[r].rev : tokens[t].login = l

\* Rotation never loses a login: whatever requests overlap and whatever
\* commits fail, a login that nobody ended still has a token not revoked
\* (refresh revokes the old row and inserts the new one in one transaction).
LoginSurvives ==
    \A l \in Tokens :
        tokens[l] # None /\ tokens[l].login = l /\ ~Ended(l)
            => \E t \in Tokens : tokens[t] # None /\ tokens[t].login = l /\ ~tokens[t].revoked

\* The reuse of a revoked token revokes every token of the account: once the
\* request is answered, the rows its UPDATE matched are revoked.
ReuseRevokesAll ==
    \A r \in Requests :
        req[r].op = "refresh" /\ req[r].pc = "refused" => \A t \in req[r].rev : tokens[t].revoked

-----------------------------------------------------------------------------
(* The inductive invariant of AuthProofs. *)

\* What a request holds at each place of its handler.
RequestOK(r) ==
    /\ req[r].pc = "new" => req[r] = NoRequest
    /\ req[r].pc = "insert" => req[r].op = "register"
    /\ req[r].op = "register" =>
          req[r].email \in Emails /\ req[r].email.lower /\ req[r].new = None /\ req[r].rev = {}
    /\ req[r].op = "register" /\ req[r].pc = "commit" => req[r].user \in Users
    /\ req[r].pc = "revoke" =>
          /\ req[r].op \in {"refresh", "logout"}
          /\ req[r].tok \in Tokens /\ tokens[req[r].tok] # None
          /\ req[r].rev = {} /\ req[r].new = None
    /\ req[r].pc = "revokeAll" => req[r].op = "refresh"
    /\ req[r].op = "refresh" /\ req[r].pc = "revoke" => req[r].user \in Users
    /\ req[r].op = "login" => req[r].rev = {}
    /\ req[r].pc = "commit" =>
          \/ req[r].op = "register"
          \/ req[r].op = "login" /\ req[r].new \in Tokens /\ req[r].user \in Users
          \/ req[r].op = "refresh" /\ req[r].new \in Tokens /\ req[r].user \in Users
                /\ req[r].tok \in Tokens /\ req[r].rev = {req[r].tok}
          \/ req[r].op = "logout" /\ req[r].new = None
                /\ req[r].tok \in Tokens /\ req[r].rev = {req[r].tok}
    /\ \A t \in req[r].rev : tokens[t] # None
    /\ req[r].pc = "commit" /\ req[r].new # None => tokens[req[r].new] = None

\* A token is handed out by one request only.
NewDistinct ==
    \A r, q \in Requests : req[r].new # None /\ req[r].new = req[q].new => r = q

\* The unique index, with the accounts that are inserted and not committed.
EmailsDistinct ==
    /\ \A u \in Users : users[u] # None => users[u].email.lower
    /\ \A r \in Requests : req[r].op = "register" /\ req[r].pc = "commit" =>
          /\ ByEmail(req[r].email) = {}
          /\ ~Inserting(r, req[r].email)

IndInv ==
    /\ TypeOK
    /\ \A r \in Requests : RequestOK(r)
    /\ NewDistinct
    /\ EmailsDistinct
    /\ OneAccountPerEmail
    /\ LoginSurvives

\* Requests that found token t not revoked: they have exchanged it or may yet.
Exchanging(t) ==
    {r \in Requests : req[r].op = "refresh" /\ req[r].tok = t
                        /\ req[r].pc \in {"revoke", "commit", "ok"}}

\* Those who exchange a token are counted as long as they are all in progress;
\* once the first is done the token is revoked and nobody joins them.
FanOutInv ==
    IsFiniteSet(Requests) =>
        /\ Cardinality(Open) <= MaxOpen
        /\ \A t \in Tokens :
            /\ Cardinality(Exchanging(t)) <= MaxOpen
            /\ \A r \in Exchanging(t) :
                req[r].pc = "ok" => tokens[t] # None /\ tokens[t].revoked
=============================================================================
