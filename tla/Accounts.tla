------------------------------- MODULE Accounts -------------------------------
(***************************************************************************)
(* The accounts and the connections they are reached by: signup and        *)
(* password login (src/app/services/auth_service.py), Google sign-in       *)
(* (src/app/services/google_auth_service.py), the health check and, as     *)
(* the slow neighbour of them all, a chat turn.  Every request has a       *)
(* database session that takes a connection of the pool                    *)
(* (src/app/db/session.py) with its first query and returns it with each   *)
(* commit, rollback or its end.  Issuing tokens is one step here; what it  *)
(* does is AuthSessions.                                                   *)
(***************************************************************************)
EXTENDS Naturals, FiniteSets

CONSTANTS
  Emails,    \* e-mail addresses, in lower case
  Unfit,     \* those that EmailStr accepts and the users table does not
  Googles,   \* Google account ids (the claim "sub")
  Requests,  \* requests, one endpoint call each, numbered as they come
  PoolSize,  \* DB_POOL_SIZE + DB_MAX_OVERFLOW
  Env,       \* what may go wrong, a subset of Events
  None       \* SQL NULL, or no row

(* database: a query or a commit fails, the latter with or without having   *)
(* taken effect; pool: a wait for a connection outlasts DB_POOL_TIMEOUT;    *)
(* deactivate: an operator clears is_active in the database.                *)
Events == {"database", "pool", "deactivate"}

ASSUME UnfitAssumption == Unfit \subseteq Emails
ASSUME RequestsAssumption == Requests \subseteq Nat
ASSUME PoolAssumption == PoolSize \in Nat \ {0}
ASSUME EnvAssumption == Env \subseteq Events
ASSUME NoneAssumption == None \notin Googles \cup Emails

Operations == {"signup", "login", "google", "turn", "health"}

(* A row of users.  The e-mail is unique and no code changes it: a row is   *)
(* known by its e-mail.                                                     *)
User == [password : BOOLEAN, google : Googles \cup {None},
         verified : BOOLEAN, active : BOOLEAN]

ASSUME RowAssumption == None \notin User

VARIABLES
  users,    \* the committed rows, by e-mail
  held,     \* the requests whose session holds a connection
  pc,       \* where each request is
  req,      \* its operation, the e-mail and the Google account it comes with
  who,      \* the e-mail of the user it has loaded
  view,     \* that user's row, as loaded, until it is written
  answer,   \* what its client has got
  met,      \* pairs of Google sign-ins that were in progress together (history)
  barred,   \* the users that were inactive when a sign-in came (history)
  faults    \* what has gone wrong for it (history)

history == <<met, barred, faults>>
vars == <<users, held, pc, req, who, view, answer, met, barred, faults>>

NoRequest == [op |-> "none", email |-> None, google |-> None]

Rows == {e \in Emails : users[e] # None}
Linked(g) == {e \in Rows : users[e].google = g}

Init ==
  /\ users = [e \in Emails |-> None]
  /\ held = {}
  /\ pc = [p \in Requests |-> "idle"]
  /\ req = [p \in Requests |-> NoRequest]
  /\ who = [p \in Requests |-> None]
  /\ view = [p \in Requests |-> None]
  /\ answer = [p \in Requests |-> "none"]
  /\ met = {}
  /\ barred = [p \in Requests |-> {}]
  /\ faults = [p \in Requests |-> {}]

InProgress == {p \in Requests : pc[p] \notin {"idle", "ended"}}

-----------------------------------------------------------------------------
(* The connection pool *)

(* Mutant: the limit is off by one. *)
ConnectedBeyond(p) == p \in held \/ Cardinality(held) <= PoolSize

(* A query: by the connection the session holds or by a free one. *)
Connected(p) == p \in held \/ Cardinality(held) < PoolSize

(* After a query, or a refresh, the session keeps its connection; a commit  *)
(* returns it.                                                              *)
Keep(p) == Connected(p) /\ held' = held \cup {p}
Commit(p) == Connected(p) /\ held' = held \ {p}

Goto(p, step) == pc' = [pc EXCEPT ![p] = step] /\ UNCHANGED <<answer, history>>

Ended(p, outcome) ==
  /\ pc' = [pc EXCEPT ![p] = "ended"]
  /\ answer' = [answer EXCEPT ![p] = outcome]
  /\ held' = held \ {p}

End(p, outcome) == Ended(p, outcome) /\ UNCHANGED history

(* The answer to an exception: 500, or 503 of the health check; the Google  *)
(* callback redirects to the same error page whatever happened.             *)
ErrorOf(p) == IF req[p].op = "google" THEN "refused" ELSE "error"

(* BOUND: one request meets a failure. *)
Fails(p, event) ==
  /\ event \in Env
  /\ \A q \in Requests : faults[q] = {}
  /\ faults' = [faults EXCEPT ![p] = @ \cup {event}]
  /\ Ended(p, ErrorOf(p))
  /\ UNCHANGED <<met, barred>>

DatabaseFails(p) == Connected(p) /\ Fails(p, "database")

NeedsDatabase == {"select", "insert", "bySub", "byEmail", "link", "refresh",
                  "issue", "query", "save", "ping"}

(* No connection came free in time. *)
PoolTimeout(p) ==
  /\ pc[p] \in NeedsDatabase
  /\ ~Connected(p)
  /\ Fails(p, "pool")
  /\ UNCHANGED <<users, req, who, view>>

-----------------------------------------------------------------------------
(* The endpoints *)

FirstStep == [signup |-> "select", login |-> "select", google |-> "exchange",
              turn |-> "query", health |-> "ping"]

Start(p) ==
  /\ pc[p] = "idle"
  /\ \A q \in Requests : q < p => pc[q] # "idle"
  /\ \E op \in Operations :
       /\ req' = [req EXCEPT ![p].op = op]
       /\ pc' = [pc EXCEPT ![p] = FirstStep[op]]
       /\ met' = met \cup {{p, q} : q \in {r \in InProgress : op = req[r].op /\ op = "google"}}
       /\ barred' = [barred EXCEPT ![p] =
            {e \in Rows : op \in {"login", "google"} /\ ~users[e].active}]
  /\ UNCHANGED <<users, held, who, view, answer, faults>>

Saw(p, e) == who' = [who EXCEPT ![p] = e] /\ view' = [view EXCEPT ![p] = users[e]]
UnseenBy(p) == UNCHANGED <<who, view>>

Insert(e, row) == users' = [users EXCEPT ![e] = row]

Manual == [password |-> TRUE, google |-> None, verified |-> FALSE, active |-> TRUE]
FromGoogle(g) == [password |-> FALSE, google |-> g, verified |-> TRUE, active |-> TRUE]

(* Whether the constraints of the table admit the row: the format of the    *)
(* e-mail, its uniqueness and that of google_sub.                           *)
Admitted(e, row) ==
  /\ e \notin Unfit
  /\ users[e] = None
  /\ row.google # None => Linked(row.google) = {}

(* Mutant: the handler of SQLAlchemyError comes before its subclass's. *)
InsertUserHandlers(p, e, row) ==
  \/ Admitted(e, row) /\ Insert(e, row) /\ Commit(p) /\ Goto(p, "refresh")
  \/ ~Admitted(e, row) /\ Connected(p) /\ UNCHANGED users /\ End(p, ErrorOf(p))

(* The INSERT with its commit; a violated constraint is an IntegrityError,  *)
(* answered 409.                                                            *)
InsertUser(p, e, row) ==
  \/ Admitted(e, row) /\ Insert(e, row) /\ Commit(p) /\ Goto(p, "refresh")
  \/ ~Admitted(e, row) /\ Connected(p) /\ UNCHANGED users
     /\ End(p, IF req[p].op = "google" THEN "refused" ELSE "conflict")
  \/ (Admitted(e, row) /\ Insert(e, row)) /\ DatabaseFails(p)
  \/ UNCHANGED users /\ DatabaseFails(p)

(* Signup: the e-mail is looked up; the row goes in without a lock on it. *)
Signup(p) ==
  /\ pc[p] = "select" /\ req[p].op = "signup"
  /\ \/ \E e \in Emails :
          /\ req' = [req EXCEPT ![p].email = e]
          /\ \/ users[e] = None /\ Keep(p) /\ Goto(p, "insert")
             \/ users[e] # None /\ Connected(p) /\ End(p, "conflict")
     \/ DatabaseFails(p) /\ UNCHANGED req
  /\ UNCHANGED <<users, who, view>>

SignupInsert(p) ==
  /\ pc[p] = "insert" /\ req[p].op = "signup"
  /\ InsertUser(p, req[p].email, Manual)
  /\ UNCHANGED <<req, who, view>>

(* session.refresh after a commit takes a connection again. *)
Refresh(p) ==
  /\ pc[p] = "refresh"
  /\ \/ Connected(p) /\ req[p].op = "signup" /\ End(p, "created")
     \/ Keep(p) /\ req[p].op = "google" /\ Goto(p, "issue")
     \/ DatabaseFails(p)
  /\ UNCHANGED <<users, req, who, view>>

(* Mutant: a login does not look at is_active. *)
RightPassword(row) == row # None /\ row.password

PasswordAccepted(row) == row # None /\ row.password /\ row.active

(* Login: the password is right or wrong, and verify_password raises on an  *)
(* account that has none.                                                   *)
Login(p) ==
  /\ pc[p] = "select" /\ req[p].op = "login"
  /\ \/ \E e \in Emails :
          /\ req' = [req EXCEPT ![p].email = e]
          /\ who' = [who EXCEPT ![p] = e]
          /\ \/ PasswordAccepted(users[e]) /\ Keep(p) /\ Goto(p, "issue")
             \/ (users[e] # None => users[e].password)
                  /\ Connected(p) /\ End(p, "refused")
             \/ users[e] # None /\ ~users[e].password
                  /\ Connected(p) /\ End(p, "error")
     \/ DatabaseFails(p) /\ UNCHANGED <<req, who>>
  /\ UNCHANGED <<users, view>>

(* issue_token_pair, one step here: AuthSessions has its own. *)
Issue(p) ==
  /\ pc[p] = "issue"
  /\ (Connected(p) /\ End(p, "tokens")) \/ DatabaseFails(p)
  /\ UNCHANGED <<users, req, who, view>>

-----------------------------------------------------------------------------
(* The Google callback *)

(* The checks of the query and the state cookie, the code exchange and the  *)
(* verification of the id token: no connection is held.  A Google account   *)
(* may have any e-mail; it must be verified.                                *)
Exchange(p) ==
  /\ pc[p] = "exchange"
  /\ \/ /\ \E e \in Emails, g \in Googles :
             req' = [req EXCEPT ![p].email = e, ![p].google = g]
        /\ Goto(p, "bySub")
        /\ UNCHANGED held
     \/ End(p, "refused") /\ UNCHANGED req
  /\ UNCHANGED <<users, who, view>>

SelectBySub(p) ==
  /\ pc[p] = "bySub"
  /\ \/ \E e \in Linked(req[p].google) : Keep(p) /\ Saw(p, e) /\ Goto(p, "link")
     \/ Linked(req[p].google) = {} /\ Keep(p) /\ Goto(p, "byEmail") /\ UnseenBy(p)
     \/ DatabaseFails(p) /\ UnseenBy(p)
  /\ UNCHANGED <<users, req>>

SelectByEmail(p) ==
  /\ pc[p] = "byEmail"
  /\ \/ /\ Keep(p)
        /\ Saw(p, req[p].email)
        /\ Goto(p, IF users[req[p].email] = None THEN "insert" ELSE "link")
     \/ DatabaseFails(p) /\ UnseenBy(p)
  /\ UNCHANGED <<users, req>>

GoogleInsert(p) ==
  /\ pc[p] = "insert" /\ req[p].op = "google"
  /\ InsertUser(p, req[p].email, FromGoogle(req[p].google))
  /\ UNCHANGED <<req, who, view>>

(* Mutant: the whole row is written as it was loaded. *)
LinkWholeRow(p) ==
  users' = [users EXCEPT ![who[p]] =
    [view[p] EXCEPT !.google = req[p].google, !.verified = TRUE]]

(* Only the columns that differ from the row as loaded are written. *)
LinkRow(p) ==
  users' = [users EXCEPT
    ![who[p]].google = IF view[p].google = None THEN req[p].google ELSE @,
    ![who[p]].verified = TRUE]

(* Mutant: the user is linked whatever account it has. *)
LinkAnyhow(p) == view[p].active

MayLink(p) == view[p].active /\ view[p].google \in {None, req[p].google}

LinkAdmitted(p) == Linked(req[p].google) \subseteq {who[p]} \/ view[p].google # None

Link(p) ==
  /\ pc[p] = "link"
  /\ \/ ~MayLink(p) /\ End(p, "refused") /\ UNCHANGED users
     \/ MayLink(p) /\ LinkAdmitted(p) /\ LinkRow(p) /\ Commit(p) /\ Goto(p, "refresh")
     \/ MayLink(p) /\ ~LinkAdmitted(p) /\ Connected(p) /\ End(p, "refused") /\ UNCHANGED users
     \/ MayLink(p) /\ LinkAdmitted(p) /\ LinkRow(p) /\ DatabaseFails(p)
     \/ MayLink(p) /\ DatabaseFails(p) /\ UNCHANGED users
  /\ view' = [view EXCEPT ![p] = None]
  /\ UNCHANGED <<req, who>>

-----------------------------------------------------------------------------
(* The neighbours *)

(* A chat turn: the question's commit and refresh leave the session with a  *)
(* connection, which it holds while it waits for OpenAI and Pinecone.       *)
TurnQuery(p) ==
  /\ pc[p] = "query"
  /\ (Keep(p) /\ Goto(p, "wait")) \/ DatabaseFails(p)
  /\ UNCHANGED <<users, req, who, view>>

TurnWait(p) ==
  /\ pc[p] = "wait"
  /\ (Goto(p, "save") /\ UNCHANGED held) \/ End(p, "error")
  /\ UNCHANGED <<users, req, who, view>>

(* Mutant: the answer is stored through a database session of its own. *)
TurnSaveApart(p) ==
  /\ pc[p] = "save"
  /\ Cardinality(held) < PoolSize
  /\ End(p, "done")
  /\ UNCHANGED <<users, req, who, view>>

TurnSave(p) ==
  /\ pc[p] = "save"
  /\ (Connected(p) /\ End(p, "done")) \/ DatabaseFails(p)
  /\ UNCHANGED <<users, req, who, view>>

(* health_check: one connection, straight from the engine. *)
Ping(p) ==
  /\ pc[p] = "ping"
  /\ (Connected(p) /\ End(p, "done")) \/ DatabaseFails(p)
  /\ UNCHANGED <<users, req, who, view>>

(* No code clears is_active: an operator does.  BOUND: for one user. *)
Deactivate(e) ==
  /\ "deactivate" \in Env
  /\ users[e] # None
  /\ \A f \in Rows : users[f].active
  /\ users' = [users EXCEPT ![e].active = FALSE]
  /\ UNCHANGED <<held, pc, req, who, view, answer, history>>

Continue(p) ==
  \/ Signup(p) \/ SignupInsert(p) \/ Login(p) \/ Refresh(p)
  \/ Issue(p) \/ Exchange(p) \/ SelectBySub(p) \/ SelectByEmail(p)
  \/ GoogleInsert(p) \/ Link(p)
  \/ TurnQuery(p) \/ TurnWait(p) \/ TurnSave(p) \/ Ping(p)

Next ==
  \/ \E p \in Requests : Start(p) \/ Continue(p) \/ PoolTimeout(p)
  \/ \E e \in Emails : Deactivate(e)

(* The event loop goes on with every request, and the calls to others have  *)
(* time limits.  The limit on the wait for a connection is not relied on.   *)
Spec == Init /\ [][Next]_vars
FairSpec == Spec /\ \A p \in Requests : WF_vars(Continue(p))

-----------------------------------------------------------------------------
(* Properties *)

(* Every variable keeps its shape, and the pool its limit. *)
TypeOK ==
  /\ users \in [Emails -> User \cup {None}]
  /\ held \in SUBSET Requests /\ Cardinality(held) <= PoolSize
  /\ pc \in [Requests -> NeedsDatabase \cup
              {"idle", "exchange", "wait", "ended"}]
  /\ req \in [Requests -> [op : Operations \cup {"none"},
                           email : Emails \cup {None}, google : Googles \cup {None}]]
  /\ who \in [Requests -> Emails \cup {None}]
  /\ view \in [Requests -> User \cup {None}]
  /\ answer \in [Requests -> {"none", "created", "conflict", "refused", "error",
                              "tokens", "done"}]
  /\ met \in SUBSET SUBSET Requests
  /\ barred \in [Requests -> SUBSET Emails]
  /\ faults \in [Requests -> SUBSET Events]

(* Two sign-ins of one user with different Google accounts overlapped.      *)
Contested(e) ==
  \E p, q \in Requests :
    /\ {p, q} \in met
    /\ who[p] = e /\ who[q] = e
    /\ req[p].google # None /\ req[q].google # None /\ req[p].google # req[q].google

(* Two Google accounts sign in as one user only if two sign-ins as that     *)
(* user with different accounts overlapped: the check of the link and the   *)
(* commit that writes it are not one step, but no later sign-in replaces a  *)
(* link.                                                                    *)
SoleGoogle ==
  \A p, q \in Requests :
    (/\ req[p].op = "google" /\ req[q].op = "google"
     /\ answer[p] = "tokens" /\ answer[q] = "tokens"
     /\ who[p] = who[q] /\ req[p].google # req[q].google)
    => Contested(who[p])

(* Whoever is answered can rely on it: of the signups for an e-mail one at  *)
(* most is told "created"; a conflict is with an account that exists, or    *)
(* the table's pattern refused the e-mail, which the handler cannot tell    *)
(* apart; an error is due to the database or its pool, or it is a password  *)
(* login of an account that only Google created.                            *)
AnswersTrue ==
  \A p \in Requests :
    /\ answer[p] = "created" =>
         /\ users[req[p].email] # None /\ users[req[p].email].password
         /\ \A q \in Requests \ {p} :
              answer[q] = "created" => req[q].email # req[p].email
    /\ answer[p] = "conflict" => users[req[p].email] # None \/ req[p].email \in Unfit
    /\ answer[p] = "error" /\ req[p].op \in {"signup", "login", "health"} =>
         \/ faults[p] # {}
         \/ req[p].op = "login" /\ users[req[p].email].google # None
                                /\ ~users[req[p].email].password

(* A sign-in that comes after a user has been deactivated gets no tokens,   *)
(* by password or through Google, known by e-mail or by account.            *)
InactiveRefused ==
  \A p \in Requests : answer[p] = "tokens" => who[p] \notin barred[p]

(* A row written from what was read earlier takes nothing back: it keeps    *)
(* its password, stays linked and verified once it is, and inactive once    *)
(* it is.                                                                   *)
AccountsKept ==
  [][\A e \in Rows :
       /\ users'[e] # None
       /\ users'[e].password = users[e].password
       /\ users[e].google # None => users'[e].google # None
       /\ users[e].verified => users'[e].verified
       /\ ~users[e].active => ~users'[e].active]_vars

(* Every request is answered: none waits for a connection that only its own *)
(* progress would return, however small the pool.                           *)
RequestsAnswered == InProgress # {} ~> InProgress = {}

=============================================================================
