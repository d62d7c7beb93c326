---------------------------- MODULE AccountsProofs ----------------------------
(***************************************************************************)
(* Theorems about Accounts, for any addresses, Google accounts, requests,  *)
(* pool size and environment: its variables keep their shape, accounts are *)
(* never taken back, answers are true, the inactive are refused, and a     *)
(* link is replaced only while sign-ins overlap.                           *)
(***************************************************************************)
EXTENDS Accounts, FiniteSetTheorems, TLAPS

-----------------------------------------------------------------------------
(* The inductive invariant *)

(* The pool is within its limit; finite, so that it can be counted. *)
HeldOK ==
  /\ held \in SUBSET Requests
  /\ IsFiniteSet(held)
  /\ Cardinality(held) <= PoolSize

(* TypeOK without the pool. *)
ShapeOK ==
  /\ users \in [Emails -> User \cup {None}]
  /\ pc \in [Requests -> NeedsDatabase \cup {"idle", "exchange", "wait", "ended"}]
  /\ req \in [Requests -> [op : Operations \cup {"none"},
                           email : Emails \cup {None}, google : Googles \cup {None}]]
  /\ who \in [Requests -> Emails \cup {None}]
  /\ view \in [Requests -> User \cup {None}]
  /\ answer \in [Requests -> {"none", "created", "conflict", "refused", "error",
                              "tokens", "done"}]
  /\ met \in SUBSET SUBSET Requests
  /\ barred \in [Requests -> SUBSET Emails]
  /\ faults \in [Requests -> SUBSET Events]

(* A request is where its operation can be, and answered at its end only. *)
Placed(p) ==
  /\ pc[p] = "idle" => req[p].op = "none"
  /\ pc[p] = "select" => req[p].op \in {"signup", "login"}
  /\ pc[p] \in {"insert", "refresh"} => req[p].op \in {"signup", "google"}
  /\ pc[p] = "issue" => req[p].op \in {"login", "google"}
  /\ pc[p] \in {"exchange", "bySub", "byEmail", "link"} => req[p].op = "google"
  /\ pc[p] \in {"query", "wait", "save"} => req[p].op = "turn"
  /\ pc[p] = "ping" => req[p].op = "health"
  /\ answer[p] # "none" => pc[p] = "ended"

(* What a request has been given and has loaded by then. *)
Known(p) ==
  /\ pc[p] \in {"idle", "select", "exchange", "bySub", "byEmail"} => who[p] = None
  /\ pc[p] \in {"bySub", "byEmail", "insert"} => req[p].email \in Emails
  /\ pc[p] \in {"bySub", "byEmail", "insert", "link", "refresh", "issue"}
       /\ req[p].op = "google" => req[p].google \in Googles
  /\ pc[p] = "insert" /\ req[p].op = "google" => who[p] = req[p].email
  /\ pc[p] = "link" => who[p] \in Rows /\ view[p] \in User
  /\ pc[p] = "refresh" /\ req[p].op = "google" => who[p] \in Rows
  /\ pc[p] = "issue" => who[p] \in Rows
  /\ answer[p] = "tokens" =>
       /\ req[p].op \in {"login", "google"} /\ who[p] \in Rows
       /\ req[p].op = "google" => req[p].google \in Googles

(* Its signup has been committed. *)
Made(p) == req[p].op = "signup" /\ (pc[p] = "refresh" \/ answer[p] = "created")

(* What its answer claims, and will claim when the row is already committed. *)
Truthful(p) ==
  /\ answer[p] = "created" => req[p].op = "signup"
  /\ Made(p) => req[p].email \in Rows /\ users[req[p].email].password
  /\ answer[p] = "conflict" => /\ req[p].email \in Emails
                               /\ req[p].email \in Rows \/ req[p].email \in Unfit
  /\ answer[p] = "error" /\ req[p].op \in {"signup", "login", "health"} =>
       \/ faults[p] # {}
       \/ /\ req[p].op = "login" /\ req[p].email \in Rows
          /\ users[req[p].email].google # None /\ ~users[req[p].email].password

(* Two committed signups are of different e-mails. *)
Unique == \A p, q \in Requests : p # q /\ Made(p) /\ Made(q) => req[p].email # req[q].email

(* Each user can sign in in some way. *)
Rooted == \A e \in Rows : users[e].password \/ users[e].google # None

(* Whoever was inactive when it came still is, and it cannot get by. *)
Refused(p) ==
  /\ barred[p] \subseteq {e \in Rows : ~users[e].active}
  /\ pc[p] = "link" /\ who[p] \in barred[p] => ~view[p].active
  /\ pc[p] = "refresh" /\ req[p].op = "google" => who[p] \notin barred[p]
  /\ pc[p] = "issue" => who[p] \notin barred[p]
  /\ answer[p] = "tokens" => who[p] \notin barred[p]

(* Two sign-ins in progress have met. *)
Overlapping ==
  \A p, q \in InProgress :
    p # q /\ req[p].op = "google" /\ req[q].op = "google" => {p, q} \in met

(* Requests that loaded the user without a link and have yet to write it. *)
Linking(e) == {p \in Requests : pc[p] = "link" /\ who[p] = e /\ view[p].google = None}

(* A sign-in beyond the writing of the link. *)
Past(p) == req[p].op = "google" /\ pc[p] \in {"refresh", "issue", "ended"}

(* Whoever set the link of a user has met everyone who may replace it. *)
Origin(e) ==
  \E r \in Requests :
    /\ Past(r) /\ who[r] = e /\ req[r].google = users[e].google
    /\ \A q \in Linking(e) : {q, r} \in met

(* Its user is loaded for good, and it has or will get tokens. *)
SignedIn(p) == req[p].op = "google" /\ (pc[p] \in {"refresh", "issue"} \/ answer[p] = "tokens")

(* What it knows of the link is still so, unless the user was contested. *)
Sole(p) ==
  /\ SignedIn(p) => users[who[p]].google = req[p].google \/ Contested(who[p])
  /\ pc[p] = "link" /\ view[p].google # None =>
       users[who[p]].google = view[p].google \/ Contested(who[p])

(* Every link was set by someone. *)
Origins == \A e \in Rows : users[e].google # None => Origin(e)

(* The parts of the invariant, each inductive with those before it. *)
Local == \A p \in Requests : Placed(p) /\ Known(p)
Answers == Unique /\ Rooted /\ \A p \in Requests : Truthful(p)
Inactives == \A p \in Requests : Refused(p)
Links == Overlapping /\ Origins /\ \A p \in Requests : Sole(p)

IInv == HeldOK /\ ShapeOK /\ Local /\ Answers /\ Inactives /\ Links

-----------------------------------------------------------------------------
(* The pool *)

(* Taking a free connection, or giving one back, respects the limit. *)
LEMMA HeldStep ==
  ASSUME NEW p \in Requests, HeldOK,
         held' = held \/ held' = held \ {p} \/ (Connected(p) /\ held' = held \cup {p})
  PROVE  HeldOK'
<1>1. CASE held' = held
  BY <1>1 DEF HeldOK
<1>2. CASE held' = held \ {p}
  <2>1. IsFiniteSet(held) BY DEF HeldOK
  <2>2. Cardinality(held) \in Nat BY <2>1, FS_CardinalityType
  <2>3. IsFiniteSet(held \ {p})
    BY <2>1, FS_Difference
  <2>4. Cardinality(held \ {p}) = IF p \in held THEN Cardinality(held) - 1 ELSE Cardinality(held)
    BY <2>1, FS_RemoveElement
  <2> QED BY <1>2, <2>2, <2>3, <2>4, PoolAssumption DEF HeldOK
<1>3. CASE Connected(p) /\ held' = held \cup {p}
  <2>1. CASE p \in held
    <3>1. held' = held BY <1>3, <2>1
    <3> QED BY <3>1 DEF HeldOK
  <2>2. CASE p \notin held
    <3>1. IsFiniteSet(held') /\ Cardinality(held') = Cardinality(held) + 1
      BY <1>3, <2>2, FS_AddElement DEF HeldOK
    <3>2. Cardinality(held) < PoolSize BY <1>3, <2>2 DEF Connected
    <3> QED BY <1>3, <3>1, <3>2, FS_CardinalityType, PoolAssumption DEF HeldOK
  <2> QED BY <2>1, <2>2
<1> QED BY <1>1, <1>2, <1>3

(* Every step takes at most one connection. *)
LEMMA HeldInductive == HeldOK /\ [Next]_vars => HeldOK'
<1> SUFFICES ASSUME HeldOK, [Next]_vars PROVE HeldOK'
  OBVIOUS
<1>1. CASE UNCHANGED vars
  BY <1>1 DEF vars, HeldOK
<1>2. ASSUME NEW e \in Emails, Deactivate(e) PROVE HeldOK'
  BY <1>2 DEF Deactivate, HeldOK
<1>3. ASSUME NEW p \in Requests, Start(p) \/ Continue(p) \/ PoolTimeout(p) PROVE HeldOK'
  <2>1. held' = held \/ held' = held \ {p} \/ (Connected(p) /\ held' = held \cup {p})
    BY <1>3 DEF Start, Continue, PoolTimeout, Signup, SignupInsert, InsertUser, Login, Refresh,
                Issue, Exchange, SelectBySub, SelectByEmail, GoogleInsert, Link, TurnQuery,
                TurnWait, TurnSave, Ping, Keep, Commit, DatabaseFails, Fails, End, Ended
  <2> QED BY <2>1, HeldStep
<1> QED BY <1>1, <1>2, <1>3 DEF Next

-----------------------------------------------------------------------------
(* The shape of the variables *)

(* The shapes through the steps that actions share. *)
LEMMA EndShape ==
  ASSUME ShapeOK, NEW p \in Requests, NEW outcome, Ended(p, outcome),
         outcome \in {"created", "conflict", "refused", "error", "tokens", "done"}
  PROVE  /\ pc' \in [Requests -> NeedsDatabase \cup {"idle", "exchange", "wait", "ended"}]
         /\ answer' \in [Requests -> {"none", "created", "conflict", "refused", "error",
                                      "tokens", "done"}]
BY DEF ShapeOK, Ended

LEMMA FailShape ==
  ASSUME ShapeOK, NEW p \in Requests, NEW event \in Events, Fails(p, event)
  PROVE  /\ pc' \in [Requests -> NeedsDatabase \cup {"idle", "exchange", "wait", "ended"}]
         /\ answer' \in [Requests -> {"none", "created", "conflict", "refused", "error",
                                      "tokens", "done"}]
         /\ faults' \in [Requests -> SUBSET Events]
         /\ UNCHANGED <<met, barred>>
<1>1. ErrorOf(p) \in {"refused", "error"} BY DEF ErrorOf
<1>2. Ended(p, ErrorOf(p)) BY DEF Fails
<1>3. faults' \in [Requests -> SUBSET Events] BY DEF ShapeOK, Fails
<1> QED BY <1>1, <1>2, <1>3, EndShape DEF Fails

LEMMA InsertShape ==
  ASSUME ShapeOK, NEW p \in Requests, NEW e \in Emails, NEW row \in User, InsertUser(p, e, row),
         UNCHANGED <<req, who, view>>
  PROVE  ShapeOK'
<1>1. "database" \in Events BY DEF Events
<1>2. users' \in [Emails -> User \cup {None}]
  BY DEF InsertUser, Insert, ShapeOK
<1>3. CASE DatabaseFails(p)
  BY <1>1, <1>2, <1>3, FailShape DEF DatabaseFails, ShapeOK
<1>4. CASE Goto(p, "refresh")
  BY <1>2, <1>4 DEF Goto, history, ShapeOK, NeedsDatabase
<1>5. CASE \E outcome \in {"refused", "conflict"} : End(p, outcome)
  BY <1>2, <1>5, EndShape DEF End, history, ShapeOK
<1> QED BY <1>3, <1>4, <1>5 DEF InsertUser

(* Both rows that requests insert are rows. *)
LEMMA RowShapes == Manual \in User /\ \A g \in Googles : FromGoogle(g) \in User
BY DEF Manual, FromGoogle, User

(* A step of one request that leaves the table alone. *)
LEMMA ShapeStep ==
  ASSUME ShapeOK, NEW p \in Requests, UNCHANGED users,
         \/ DatabaseFails(p)
         \/ \E outcome \in {"created", "conflict", "refused", "error", "tokens", "done"} :
              End(p, outcome)
         \/ \E step \in NeedsDatabase \cup {"wait"} : Goto(p, step),
         req' \in [Requests -> [op : Operations \cup {"none"},
                           email : Emails \cup {None}, google : Googles \cup {None}]],
         who' \in [Requests -> Emails \cup {None}],
         view' \in [Requests -> User \cup {None}]
  PROVE  ShapeOK'
<1>1. CASE DatabaseFails(p)
  BY <1>1, FailShape DEF DatabaseFails, ShapeOK, Events
<1>2. CASE \E outcome \in {"created", "conflict", "refused", "error", "tokens", "done"} :
              End(p, outcome)
  BY <1>2, EndShape DEF End, history, ShapeOK
<1>3. CASE \E step \in NeedsDatabase \cup {"wait"} : Goto(p, step)
  BY <1>3 DEF Goto, history, ShapeOK
<1> QED BY <1>1, <1>2, <1>3

(* What requests come with. *)
Inputs == [op : Operations \cup {"none"}, email : Emails \cup {None}, google : Googles \cup {None}]

LEMMA ReqShape ==
  ASSUME ShapeOK, NEW p \in Requests
  PROVE  /\ req \in [Requests -> Inputs]
         /\ \A op \in Operations : [req EXCEPT ![p].op = op] \in [Requests -> Inputs]
         /\ \A e \in Emails : [req EXCEPT ![p].email = e] \in [Requests -> Inputs]
         /\ \A e \in Emails, g \in Googles :
              [req EXCEPT ![p].email = e, ![p].google = g] \in [Requests -> Inputs]
<1>1. req \in [Requests -> Inputs] BY DEF ShapeOK, Inputs
<1>2. \A op \in Operations : [req EXCEPT ![p].op = op] \in [Requests -> Inputs]
  BY <1>1 DEF Inputs
<1>3. \A e \in Emails : [req EXCEPT ![p].email = e] \in [Requests -> Inputs]
  BY <1>1 DEF Inputs
<1>4. \A e \in Emails, g \in Googles :
        [req EXCEPT ![p].email = e, ![p].google = g] \in [Requests -> Inputs]
  BY <1>1 DEF Inputs
<1> QED BY <1>1, <1>2, <1>3, <1>4

LEMMA ShapeOfStart ==
  ASSUME ShapeOK, NEW p \in Requests, Start(p)
  PROVE  ShapeOK'
<1> PICK op \in Operations :
      /\ req' = [req EXCEPT ![p].op = op]
      /\ pc' = [pc EXCEPT ![p] = FirstStep[op]]
      /\ met' = met \cup {{p, q} : q \in {r \in InProgress : op = req[r].op /\ op = "google"}}
      /\ barred' = [barred EXCEPT ![p] =
            {e \in Rows : op \in {"login", "google"} /\ ~users[e].active}]
      /\ UNCHANGED <<users, held, who, view, answer, faults>>
  BY DEF Start
<1>1. FirstStep[op] \in NeedsDatabase \cup {"exchange"}
  BY DEF FirstStep, Operations, NeedsDatabase
<1>2. met' \in SUBSET SUBSET Requests
  BY DEF ShapeOK, InProgress
<1>3. barred' \in [Requests -> SUBSET Emails]
  BY DEF ShapeOK, Rows
<1>4. req' \in [Requests -> Inputs] BY ReqShape
<1> QED BY <1>1, <1>2, <1>3, <1>4 DEF ShapeOK, Inputs

LEMMA ShapeOfContinue ==
  ASSUME ShapeOK, Local, NEW p \in Requests, Continue(p)
  PROVE  ShapeOK'
<1> USE DEF NeedsDatabase
<1>1. CASE Signup(p)
  <2>1. req' \in [Requests -> Inputs]
    BY <1>1, ReqShape DEF Signup
  <2> QED BY <1>1, <2>1, ShapeStep DEF Signup, ShapeOK, Inputs
<1>2. CASE SignupInsert(p)
  BY <1>2, InsertShape, RowShapes DEF SignupInsert, Local, Known
<1>3. CASE Login(p)
  <2>1. req' \in [Requests -> Inputs]
    BY <1>3, ReqShape DEF Login
  <2>2. who' \in [Requests -> Emails \cup {None}]
    BY <1>3 DEF Login, ShapeOK
  <2> QED BY <1>3, <2>1, <2>2, ShapeStep DEF Login, ShapeOK, Inputs
<1>4. CASE Refresh(p)
  BY <1>4, ShapeStep DEF Refresh, ShapeOK
<1>5. CASE Issue(p)
  BY <1>5, ShapeStep DEF Issue, ShapeOK
<1>6. CASE Exchange(p)
  <2>1. req' \in [Requests -> Inputs]
    <3>1. CASE req' = req BY <3>1, ReqShape
    <3>2. ASSUME NEW e \in Emails, NEW g \in Googles,
                 req' = [req EXCEPT ![p].email = e, ![p].google = g]
          PROVE  req' \in [Requests -> Inputs]
      BY <3>2, ReqShape
    <3> QED BY <1>6, <3>1, <3>2 DEF Exchange
  <2> QED BY <1>6, <2>1, ShapeStep DEF Exchange, ShapeOK, Inputs
<1>7. CASE SelectBySub(p)
  <2>1. who' \in [Requests -> Emails \cup {None}] /\ view' \in [Requests -> User \cup {None}]
    BY <1>7 DEF SelectBySub, ShapeOK, Saw, UnseenBy, Linked, Rows
  <2> QED BY <1>7, <2>1, ShapeStep DEF SelectBySub, ShapeOK
<1>8. CASE SelectByEmail(p)
  <2>1. who' \in [Requests -> Emails \cup {None}] /\ view' \in [Requests -> User \cup {None}]
    BY <1>8 DEF SelectByEmail, ShapeOK, Saw, UnseenBy, Local, Known
  <2> QED BY <1>8, <2>1, ShapeStep DEF SelectByEmail, ShapeOK
<1>9. CASE GoogleInsert(p)
  BY <1>9, InsertShape, RowShapes DEF GoogleInsert, Local, Known
<1>10. CASE Link(p)
  <2>1. view' \in [Requests -> User \cup {None}]
    BY <1>10 DEF Link, ShapeOK
  <2>2. CASE UNCHANGED users
    BY <1>10, <2>1, <2>2, ShapeStep DEF Link, ShapeOK
  <2>3. CASE LinkRow(p)
    <3>1. who[p] \in Rows /\ req[p].google \in Googles /\ users[who[p]] \in User
      BY <1>10 DEF Link, Local, Known, Placed, Rows, ShapeOK
    <3>2. users' \in [Emails -> User \cup {None}]
      BY <2>3, <3>1 DEF LinkRow, ShapeOK, User, Rows
    <3>3. CASE Goto(p, "refresh")
      BY <1>10, <2>1, <3>2, <3>3 DEF Goto, history, Link, ShapeOK
    <3>4. CASE DatabaseFails(p)
      BY <1>10, <2>1, <3>2, <3>4, FailShape DEF DatabaseFails, Events, Link, ShapeOK
    <3>5. CASE End(p, "refused")
      BY <1>10, <2>1, <3>2, <3>5, EndShape DEF End, history, Link, ShapeOK
    <3> QED BY <1>10, <3>3, <3>4, <3>5 DEF Link
  <2> QED BY <1>10, <2>2, <2>3 DEF Link
<1>11. CASE TurnQuery(p)
  BY <1>11, ShapeStep DEF TurnQuery, ShapeOK
<1>12. CASE TurnWait(p)
  BY <1>12, ShapeStep DEF TurnWait, ShapeOK
<1>13. CASE TurnSave(p)
  BY <1>13, ShapeStep DEF TurnSave, ShapeOK
<1>14. CASE Ping(p)
  BY <1>14, ShapeStep DEF Ping, ShapeOK
<1> QED BY <1>1, <1>2, <1>3, <1>4, <1>5, <1>6, <1>7, <1>8, <1>9, <1>10, <1>11, <1>12, <1>13,
           <1>14 DEF Continue

(* Every step keeps the shapes. *)
LEMMA ShapeInductive == ShapeOK /\ Local /\ [Next]_vars => ShapeOK'
<1> SUFFICES ASSUME ShapeOK, Local, [Next]_vars PROVE ShapeOK'
  OBVIOUS
<1>1. CASE UNCHANGED vars
  BY <1>1 DEF vars, history, ShapeOK
<1>2. ASSUME NEW e \in Emails, Deactivate(e) PROVE ShapeOK'
  <2>1. users' \in [Emails -> User \cup {None}]
    <3>1. users[e] \in User BY <1>2 DEF Deactivate, ShapeOK
    <3>2. [users[e] EXCEPT !.active = FALSE] \in User BY <3>1 DEF User
    <3> QED BY <1>2, <3>2 DEF Deactivate, ShapeOK
  <2> QED BY <1>2, <2>1 DEF Deactivate, history, ShapeOK
<1>3. ASSUME NEW p \in Requests, PoolTimeout(p) PROVE ShapeOK'
  BY <1>3, FailShape DEF PoolTimeout, ShapeOK, Events
<1> QED BY <1>1, <1>2, <1>3, ShapeOfStart, ShapeOfContinue DEF Next

-----------------------------------------------------------------------------
(* What a step does to the table and to the other requests *)

(* A row that exists is kept, with all that AccountsKept says of it. *)
Keeps ==
  /\ users' \in [Emails -> User \cup {None}]
  /\ \A e \in Rows :
       /\ users'[e] # None
       /\ users'[e].password = users[e].password
       /\ users[e].google # None => users'[e].google # None
       /\ users[e].verified => users'[e].verified
       /\ ~users[e].active => ~users'[e].active

(* What a step writes to the table, by the kinds of writes. *)
LEMMA KeepsNothingWritten == ASSUME ShapeOK, UNCHANGED users PROVE Keeps
BY DEF Keeps, ShapeOK, Rows

LEMMA KeepsInsert ==
  ASSUME ShapeOK, ShapeOK', NEW p \in Requests, NEW e \in Emails, NEW row, InsertUser(p, e, row)
  PROVE  Keeps
<1>1. CASE UNCHANGED users BY <1>1, KeepsNothingWritten
<1>2. CASE Admitted(e, row) /\ Insert(e, row)
  BY <1>2 DEF Admitted, Insert, Keeps, Rows, ShapeOK
<1> QED BY <1>1, <1>2 DEF InsertUser

LEMMA KeepsLink ==
  ASSUME ShapeOK, ShapeOK', Local, NEW p \in Requests, Link(p)
  PROVE  Keeps
<1>1. CASE UNCHANGED users BY <1>1, KeepsNothingWritten
<1>2. CASE LinkRow(p)
  <2>1. who[p] \in Rows /\ req[p].google \in Googles /\ users[who[p]] \in User
    BY <1>2 DEF Link, Local, Known, Placed, Rows, ShapeOK
  <2>2. \A e \in Rows \ {who[p]} : users'[e] = users[e]
    BY <1>2 DEF LinkRow, ShapeOK, Rows
  <2>3. users'[who[p]] = [users[who[p]] EXCEPT
          !.google = IF view[p].google = None THEN req[p].google ELSE @, !.verified = TRUE]
    BY <1>2, <2>1 DEF LinkRow, ShapeOK, Rows
  <2>4. /\ users'[who[p]] \in User
        /\ users'[who[p]].password = users[who[p]].password
        /\ users'[who[p]].active = users[who[p]].active
        /\ users'[who[p]].verified
        /\ users[who[p]].google # None => users'[who[p]].google # None
    BY <2>1, <2>3, NoneAssumption DEF User
  <2> QED BY <2>1, <2>2, <2>4, RowAssumption DEF Keeps, ShapeOK, Rows
<1> QED BY <1>1, <1>2 DEF Link

LEMMA KeepsDeactivate ==
  ASSUME ShapeOK, ShapeOK', NEW e \in Emails, Deactivate(e)
  PROVE  Keeps
<1>1. users[e] \in User BY DEF Deactivate, ShapeOK
<1>2. users'[e] = [users[e] EXCEPT !.active = FALSE]
  BY DEF Deactivate, ShapeOK
<1>3. /\ users'[e] \in User
      /\ users'[e].password = users[e].password
      /\ users'[e].google = users[e].google
      /\ users'[e].verified = users[e].verified
      /\ ~users'[e].active
  BY <1>1, <1>2 DEF User
<1>4. \A f \in Emails \ {e} : users'[f] = users[f] BY DEF Deactivate, ShapeOK
<1> QED BY <1>3, <1>4, RowAssumption DEF Keeps, ShapeOK, Rows

LEMMA KeepsContinue ==
  ASSUME ShapeOK, ShapeOK', Local, NEW p \in Requests, Continue(p)
  PROVE  Keeps
<1>1. CASE SignupInsert(p)
  BY <1>1, KeepsInsert DEF SignupInsert, Local, Known
<1>2. CASE GoogleInsert(p)
  BY <1>2, KeepsInsert DEF GoogleInsert, Local, Known
<1>3. CASE Link(p) BY <1>3, KeepsLink
<1>4. CASE UNCHANGED users BY <1>4, KeepsNothingWritten
<1> QED BY <1>1, <1>2, <1>3, <1>4 DEF Continue, Signup, Login, Refresh, Issue, Exchange,
           SelectBySub, SelectByEmail, TurnQuery, TurnWait, TurnSave, Ping

(* No step takes anything back from a row: the ground of all that follows. *)
LEMMA NextKeeps == ASSUME ShapeOK, ShapeOK', Local, [Next]_vars PROVE Keeps
<1>1. CASE UNCHANGED vars BY <1>1, KeepsNothingWritten DEF vars
<1>2. ASSUME NEW p \in Requests, Start(p) \/ PoolTimeout(p) PROVE Keeps
  BY <1>2, KeepsNothingWritten DEF Start, PoolTimeout
<1> QED BY <1>1, <1>2, KeepsContinue, KeepsDeactivate DEF Next

(* Nothing but the table, met and held changes for request q. *)
Still(q) ==
  /\ pc'[q] = pc[q] /\ req'[q] = req[q] /\ who'[q] = who[q] /\ view'[q] = view[q]
  /\ answer'[q] = answer[q] /\ barred'[q] = barred[q] /\ faults'[q] = faults[q]

(* A step of one request leaves the others where they are. *)
LEMMA OthersStill ==
  ASSUME ShapeOK, NEW p \in Requests, NEW q \in Requests, q # p,
         Start(p) \/ Continue(p) \/ PoolTimeout(p)
  PROVE  Still(q)
<1> USE DEF ShapeOK, Still
<1>1. CASE Start(p)
  BY <1>1 DEF Start
<1>2. CASE PoolTimeout(p)
  BY <1>2 DEF PoolTimeout, Fails, Ended
<1>3. CASE Signup(p) \/ SignupInsert(p) \/ GoogleInsert(p)
  BY <1>3 DEF Signup, SignupInsert, GoogleInsert, InsertUser, DatabaseFails, Fails, End, Ended, Goto, history
<1>4. CASE Login(p) \/ Refresh(p) \/ Issue(p) \/ Exchange(p)
  BY <1>4 DEF Login, Refresh, Issue, Exchange, DatabaseFails, Fails, End, Ended, Goto, history
<1>5. CASE SelectBySub(p) \/ SelectByEmail(p) \/ Link(p)
  BY <1>5 DEF SelectBySub, SelectByEmail, Link, Saw, UnseenBy, DatabaseFails, Fails, End, Ended, Goto, history
<1>6. CASE TurnQuery(p) \/ TurnWait(p) \/ TurnSave(p) \/ Ping(p)
  BY <1>6 DEF TurnQuery, TurnWait, TurnSave, Ping, DatabaseFails, Fails, End, Ended, Goto, history
<1> QED BY <1>1, <1>2, <1>3, <1>4, <1>5, <1>6 DEF Continue

-----------------------------------------------------------------------------
(* Where a request is agrees with what it has *)

LEMMA KeptRows ==
  ASSUME Keeps
  PROVE  /\ Rows \subseteq Rows'
         /\ \A e \in Rows : users'[e].password = users[e].password
BY DEF Keeps, Rows

LEMMA LocalStill ==
  ASSUME Local, Keeps, NEW q \in Requests, Still(q)
  PROVE  Placed(q)' /\ Known(q)'
<1>1. Placed(q) /\ Known(q) BY DEF Local
<1>2. Placed(q)' BY <1>1 DEF Placed, Still
<1>3. Known(q)' BY <1>1, KeptRows DEF Known, Still
<1> QED BY <1>2, <1>3

(* A request that ends without tokens has no obligations left. *)
LEMMA LocalEnded ==
  ASSUME ShapeOK, Local, NEW p \in Requests, NEW outcome, Ended(p, outcome), outcome # "tokens"
  PROVE  Placed(p)' /\ Known(p)'
BY DEF Placed, Known, Ended, ShapeOK

LEMMA LocalFails ==
  ASSUME ShapeOK, Local, NEW p \in Requests, NEW event, Fails(p, event)
  PROVE  Placed(p)' /\ Known(p)'
BY LocalEnded DEF Fails, ErrorOf

LEMMA LocalStart ==
  ASSUME ShapeOK, Local, NEW p \in Requests, Start(p)
  PROVE  Placed(p)' /\ Known(p)'
<1> PICK op \in Operations :
      /\ req' = [req EXCEPT ![p].op = op]
      /\ pc' = [pc EXCEPT ![p] = FirstStep[op]]
  BY DEF Start
<1>1. pc[p] = "idle" /\ who[p] = None /\ answer[p] = "none"
  BY DEF Start, Local, Known, Placed
<1>2. who' = who /\ answer' = answer BY DEF Start
<1>3. req'[p].op = op /\ pc'[p] = FirstStep[op] BY DEF ShapeOK
<1>4. Placed(p)'
  BY <1>1, <1>2, <1>3 DEF Placed, FirstStep, Operations
<1>5. Known(p)'
  BY <1>1, <1>2, <1>3 DEF Known, FirstStep, Operations
<1> QED BY <1>4, <1>5

LEMMA LocalContinue ==
  ASSUME ShapeOK, ShapeOK', Local, Keeps, NEW p \in Requests, Continue(p)
  PROVE  Placed(p)' /\ Known(p)'
<1>1. Placed(p) /\ Known(p) BY DEF Local
<1>2. ASSUME DatabaseFails(p) PROVE Placed(p)' /\ Known(p)'
  BY <1>2, LocalFails DEF DatabaseFails
<1>3. ASSUME NEW outcome, End(p, outcome), outcome # "tokens" PROVE Placed(p)' /\ Known(p)'
  BY <1>3, LocalEnded DEF End
<1>4. CASE Signup(p)
  <2>1. ASSUME NEW e \in Emails, req' = [req EXCEPT ![p].email = e], Goto(p, "insert")
        PROVE  Placed(p)' /\ Known(p)'
    <3>1. req'[p].email = e /\ req'[p].op = "signup" /\ pc'[p] = "insert" /\ answer'[p] = "none"
      BY <1>1, <1>4, <2>1 DEF Goto, Signup, Placed, ShapeOK
    <3> QED BY <3>1 DEF Placed, Known
  <2> QED BY <1>2, <1>3, <1>4, <2>1 DEF Signup
<1>5. CASE SignupInsert(p)
  <2>1. CASE Goto(p, "refresh")
    <3>1. req'[p].op = "signup" /\ pc'[p] = "refresh" /\ answer'[p] = "none"
      BY <1>1, <1>5, <2>1 DEF Goto, SignupInsert, Placed, ShapeOK
    <3> QED BY <3>1 DEF Placed, Known
  <2> QED BY <1>2, <1>3, <1>5, <2>1 DEF SignupInsert, InsertUser
<1>6. CASE Login(p)
  <2>1. ASSUME NEW e \in Emails, req' = [req EXCEPT ![p].email = e], who' = [who EXCEPT ![p] = e],
               PasswordAccepted(users[e]), Goto(p, "issue"), UNCHANGED users
        PROVE  Placed(p)' /\ Known(p)'
    <3>1. req'[p].op = "login" /\ pc'[p] = "issue" /\ answer'[p] = "none" /\ who'[p] = e
      BY <1>1, <1>6, <2>1 DEF Goto, Login, Placed, ShapeOK
    <3>2. e \in Rows' BY <2>1 DEF PasswordAccepted, Rows
    <3> QED BY <3>1, <3>2 DEF Placed, Known
  <2> QED BY <1>2, <1>3, <1>6, <2>1 DEF Login
<1>7. CASE Refresh(p)
  <2>1. CASE Goto(p, "issue") /\ req[p].op = "google"
    <3>1. req'[p] = req[p] /\ pc'[p] = "issue" /\ answer'[p] = "none" /\ who'[p] = who[p]
      BY <1>1, <1>7, <2>1 DEF Goto, Refresh, Placed, ShapeOK
    <3>2. who[p] \in Rows' /\ req[p].google \in Googles
      BY <1>1, <1>7, <2>1, KeptRows DEF Known, Refresh
    <3> QED BY <2>1, <3>1, <3>2 DEF Placed, Known
  <2> QED BY <1>2, <1>3, <1>7, <2>1 DEF Refresh
<1>8. CASE Issue(p)
  <2>1. CASE End(p, "tokens")
    <3>1. req'[p] = req[p] /\ pc'[p] = "ended" /\ answer'[p] = "tokens" /\ who'[p] = who[p]
      BY <1>8, <2>1 DEF End, Ended, Issue, ShapeOK
    <3>2. /\ who[p] \in Rows' /\ req[p].op \in {"login", "google"}
          /\ req[p].op = "google" => req[p].google \in Googles
      BY <1>1, <1>8, KeptRows DEF Known, Placed, Issue
    <3> QED BY <3>1, <3>2 DEF Placed, Known
  <2> QED BY <1>2, <1>8, <2>1 DEF Issue
<1>9. CASE Exchange(p)
  <2>1. ASSUME NEW e \in Emails, NEW g \in Googles,
               req' = [req EXCEPT ![p].email = e, ![p].google = g], Goto(p, "bySub")
        PROVE  Placed(p)' /\ Known(p)'
    <3>1. /\ req'[p].op = "google" /\ req'[p].email = e /\ req'[p].google = g
          /\ pc'[p] = "bySub" /\ answer'[p] = "none" /\ who'[p] = None
      <4>1. req'[p] = [req[p] EXCEPT !.email = e, !.google = g]
        BY <2>1 DEF ShapeOK
      <4>2. req[p].op = "google" /\ answer[p] = "none" /\ who[p] = None
        BY <1>1, <1>9 DEF Exchange, Placed, Known
      <4>3. pc'[p] = "bySub" /\ answer' = answer /\ who' = who
        BY <1>9, <2>1 DEF Goto, Exchange, ShapeOK
      <4>4. req[p] \in Inputs BY ReqShape
      <4> QED BY <4>1, <4>2, <4>3, <4>4 DEF Inputs
    <3> QED BY <3>1 DEF Placed, Known
  <2> QED BY <1>3, <1>9, <2>1 DEF Exchange
<1>10. CASE SelectBySub(p)
  <2> DEFINE Same == req'[p] = req[p] /\ answer'[p] = "none"
  <2>1. ASSUME NEW e \in Linked(req[p].google), Saw(p, e), Goto(p, "link")
        PROVE  Placed(p)' /\ Known(p)'
    <3>1. Same /\ pc'[p] = "link" /\ who'[p] = e /\ view'[p] = users[e]
      BY <1>1, <1>10, <2>1 DEF Goto, Saw, SelectBySub, Placed, ShapeOK
    <3>2. e \in Rows' /\ users[e] \in User
      BY <2>1, KeptRows DEF Linked, Rows, ShapeOK
    <3> QED BY <1>1, <1>10, <3>1, <3>2 DEF Placed, Known, SelectBySub
  <2>2. CASE Goto(p, "byEmail") /\ UnseenBy(p)
    <3>1. Same /\ pc'[p] = "byEmail" /\ who'[p] = who[p]
      BY <1>1, <1>10, <2>2 DEF Goto, UnseenBy, SelectBySub, Placed, ShapeOK
    <3> QED BY <1>1, <1>10, <3>1 DEF Placed, Known, SelectBySub
  <2> QED BY <1>2, <1>10, <2>1, <2>2 DEF SelectBySub
<1>11. CASE SelectByEmail(p)
  <2>1. ASSUME Saw(p, req[p].email), NEW step \in {"insert", "link"}, Goto(p, step),
               step = "link" => users[req[p].email] # None
        PROVE  Placed(p)' /\ Known(p)'
    <3>1. /\ req'[p] = req[p] /\ answer'[p] = "none" /\ pc'[p] = step
          /\ who'[p] = req[p].email /\ view'[p] = users[req[p].email]
      BY <1>1, <1>11, <2>1 DEF Goto, Saw, SelectByEmail, Placed, ShapeOK
    <3>2. req[p].email \in Emails /\ req[p].google \in Googles /\ req[p].op = "google"
      BY <1>1, <1>11 DEF SelectByEmail, Known, Placed
    <3>3. step = "link" => req[p].email \in Rows' /\ users[req[p].email] \in User
      BY <2>1, <3>2, KeptRows DEF Rows, ShapeOK
    <3> QED BY <2>1, <3>1, <3>2, <3>3 DEF Placed, Known
  <2>2. CASE Saw(p, req[p].email)
             /\ Goto(p, IF users[req[p].email] = None THEN "insert" ELSE "link")
    <3>1. CASE users[req[p].email] = None
      <4>1. Goto(p, "insert") BY <2>2, <3>1
      <4> QED BY <2>1, <2>2, <4>1
    <3>2. CASE users[req[p].email] # None
      <4>1. Goto(p, "link") BY <2>2, <3>2
      <4> QED BY <2>1, <2>2, <3>2, <4>1
    <3> QED BY <3>1, <3>2
  <2> QED BY <1>2, <1>11, <2>2 DEF SelectByEmail
<1>12. CASE GoogleInsert(p)
  <2>1. CASE Insert(req[p].email, FromGoogle(req[p].google)) /\ Goto(p, "refresh")
    <3>1. req'[p] = req[p] /\ answer'[p] = "none" /\ pc'[p] = "refresh" /\ who'[p] = who[p]
      BY <1>1, <1>12, <2>1 DEF Goto, GoogleInsert, Placed, ShapeOK
    <3>2. /\ req[p].email \in Emails /\ req[p].google \in Googles
          /\ req[p].op = "google" /\ who[p] = req[p].email
      BY <1>1, <1>12 DEF GoogleInsert, Known
    <3>3. req[p].email \in Rows'
      BY <2>1, <3>2, RowShapes, RowAssumption DEF Insert, Rows, ShapeOK
    <3> QED BY <3>1, <3>2, <3>3 DEF Placed, Known
  <2> QED BY <1>2, <1>3, <1>12, <2>1 DEF GoogleInsert, InsertUser
<1>13. CASE Link(p)
  <2>1. CASE Goto(p, "refresh")
    <3>1. req'[p] = req[p] /\ answer'[p] = "none" /\ pc'[p] = "refresh" /\ who'[p] = who[p]
      BY <1>1, <1>13, <2>1 DEF Goto, Link, Placed, ShapeOK
    <3>2. who[p] \in Rows' /\ req[p].google \in Googles /\ req[p].op = "google"
      BY <1>1, <1>13, KeptRows DEF Link, Known, Placed
    <3> QED BY <3>1, <3>2 DEF Placed, Known
  <2> QED BY <1>2, <1>3, <1>13, <2>1 DEF Link
<1>14. CASE TurnQuery(p) \/ TurnWait(p) \/ TurnSave(p) \/ Ping(p)
  <2>1. ASSUME NEW step \in {"wait", "save"}, Goto(p, step), req[p].op = "turn", UNCHANGED <<req, who>>
        PROVE  Placed(p)' /\ Known(p)'
    <3>1. req'[p].op = "turn" /\ pc'[p] = step /\ answer'[p] = "none"
      BY <1>1, <1>14, <2>1 DEF Goto, Placed, ShapeOK, TurnQuery, TurnWait, TurnSave, Ping
    <3> QED BY <3>1 DEF Placed, Known
  <2> QED BY <1>1, <1>2, <1>3, <1>14, <2>1 DEF TurnQuery, TurnWait, TurnSave, Ping, Placed
<1> QED BY <1>4, <1>5, <1>6, <1>7, <1>8, <1>9, <1>10, <1>11, <1>12, <1>13, <1>14 DEF Continue

(* Every step leaves every request where its operation can be. *)
LEMMA LocalInductive ==
  ASSUME ShapeOK, ShapeOK', Local, [Next]_vars
  PROVE  Local'
<1>1. Keeps BY NextKeeps
<1>2. CASE UNCHANGED vars
  BY <1>2 DEF vars, history, Local, Placed, Known, Rows
<1>3. ASSUME NEW e \in Emails, Deactivate(e) PROVE Local'
  <2>1. \A q \in Requests : Still(q) BY <1>3 DEF Deactivate, history, Still
  <2> QED BY <1>1, <2>1, LocalStill DEF Local
<1>4. ASSUME NEW p \in Requests, Start(p) \/ Continue(p) \/ PoolTimeout(p) PROVE Local'
  <2>1. ASSUME NEW q \in Requests, q # p PROVE Placed(q)' /\ Known(q)'
    BY <1>1, <1>4, <2>1, OthersStill, LocalStill
  <2>2. Placed(p)' /\ Known(p)'
    BY <1>1, <1>4, LocalStart, LocalContinue, LocalFails DEF PoolTimeout
  <2> QED BY <2>1, <2>2 DEF Local
<1> QED BY <1>2, <1>3, <1>4 DEF Next

-----------------------------------------------------------------------------
(* Inactive users *)

LEMMA RefusedStill ==
  ASSUME Inactives, Keeps, NEW q \in Requests, Still(q)
  PROVE  Refused(q)'
BY DEF Inactives, Refused, Keeps, Still, Rows

LEMMA RefusedEnded ==
  ASSUME ShapeOK, Inactives, Keeps, NEW p \in Requests, NEW outcome, Ended(p, outcome),
         outcome # "tokens", barred'[p] = barred[p]
  PROVE  Refused(p)'
BY DEF Inactives, Refused, Keeps, Ended, ShapeOK, Rows

LEMMA RefusedFails ==
  ASSUME ShapeOK, Inactives, Keeps, NEW p \in Requests, NEW event, Fails(p, event)
  PROVE  Refused(p)'
BY RefusedEnded DEF Fails, ErrorOf

LEMMA RefusedStart ==
  ASSUME ShapeOK, Local, Inactives, Keeps, NEW p \in Requests, Start(p)
  PROVE  Refused(p)'
<1> PICK op \in Operations :
      /\ pc' = [pc EXCEPT ![p] = FirstStep[op]]
      /\ barred' = [barred EXCEPT ![p] =
            {e \in Rows : op \in {"login", "google"} /\ ~users[e].active}]
  BY DEF Start
<1>1. answer'[p] = "none" BY DEF Start, Local, Placed, ShapeOK
<1>2. pc'[p] \in {"select", "exchange", "query", "ping"}
  BY DEF ShapeOK, FirstStep, Operations
<1>3. barred'[p] \subseteq {e \in Rows : ~users[e].active} BY DEF ShapeOK
<1>4. {e \in Rows : ~users[e].active} \subseteq {e \in Rows' : ~users'[e].active}
  BY DEF Keeps, Rows
<1> QED BY <1>1, <1>2, <1>3, <1>4 DEF Refused

LEMMA RefusedContinue ==
  ASSUME ShapeOK, ShapeOK', Local, Inactives, Keeps, NEW p \in Requests, Continue(p)
  PROVE  Refused(p)'
<1>1. Placed(p) /\ Known(p) /\ Refused(p) BY DEF Local, Inactives
<1> DEFINE Step == \E step \in NeedsDatabase \cup {"wait"} : Goto(p, step)
<1>2. barred'[p] = barred[p] /\ barred[p] \subseteq {e \in Rows' : ~users'[e].active}
  <2>1. barred'[p] = barred[p]
    BY DEF Continue, Signup, SignupInsert, GoogleInsert, InsertUser, Login, Refresh, Issue,
           Exchange, SelectBySub, SelectByEmail, Link, TurnQuery, TurnWait, TurnSave, Ping,
           DatabaseFails, Fails, End, Goto, history
  <2> QED BY <1>1, <2>1 DEF Refused, Keeps, Rows
<1>3. ASSUME DatabaseFails(p) PROVE Refused(p)'
  BY <1>3, RefusedFails DEF DatabaseFails
<1>4. ASSUME NEW outcome, End(p, outcome), outcome # "tokens" PROVE Refused(p)'
  BY <1>2, <1>4, RefusedEnded DEF End
<1>5. CASE Signup(p) \/ SignupInsert(p) \/ Exchange(p)
           \/ TurnQuery(p) \/ TurnWait(p) \/ TurnSave(p) \/ Ping(p)
  <2>1. ASSUME NEW step \in {"insert", "refresh", "bySub", "wait", "save"}, Goto(p, step),
               step \in {"insert", "refresh"} => req'[p].op = "signup"
        PROVE  Refused(p)'
    <3>1. pc'[p] = step /\ answer'[p] = answer[p] /\ answer[p] = "none"
      BY <1>1, <1>5, <2>1 DEF Goto, Signup, SignupInsert, Exchange, TurnQuery, TurnWait, TurnSave,
           Ping, Placed, ShapeOK
    <3> QED BY <1>2, <2>1, <3>1 DEF Refused
  <2>2. Signup(p) \/ SignupInsert(p) => req'[p].op = "signup"
    BY DEF Signup, SignupInsert, ShapeOK
  <2> QED BY <1>3, <1>4, <1>5, <2>1, <2>2 DEF Signup, SignupInsert, InsertUser, Exchange, TurnQuery,
           TurnWait, TurnSave, Ping
<1>6. CASE Login(p)
  <2>1. ASSUME NEW e \in Emails, who' = [who EXCEPT ![p] = e],
               PasswordAccepted(users[e]), Goto(p, "issue"), UNCHANGED users
        PROVE  Refused(p)'
    <3>1. pc'[p] = "issue" /\ answer'[p] = "none" /\ who'[p] = e
      BY <1>1, <1>6, <2>1 DEF Goto, Login, Placed, ShapeOK
    <3>2. e \notin barred[p] BY <1>1, <2>1 DEF PasswordAccepted, Refused
    <3> QED BY <1>2, <3>1, <3>2 DEF Refused
  <2> QED BY <1>3, <1>4, <1>6, <2>1 DEF Login
<1>7. CASE Refresh(p)
  <2>1. CASE Goto(p, "issue") /\ req[p].op = "google"
    <3>1. pc'[p] = "issue" /\ answer'[p] = "none" /\ who'[p] = who[p]
      BY <1>1, <1>7, <2>1 DEF Goto, Refresh, Placed, ShapeOK
    <3> QED BY <1>1, <1>2, <1>7, <2>1, <3>1 DEF Refused, Refresh
  <2> QED BY <1>3, <1>4, <1>7, <2>1 DEF Refresh
<1>8. CASE Issue(p)
  <2>1. CASE End(p, "tokens")
    <3>1. pc'[p] = "ended" /\ who'[p] = who[p]
      BY <1>8, <2>1 DEF End, Ended, Issue, ShapeOK
    <3> QED BY <1>1, <1>2, <1>8, <3>1 DEF Refused, Issue
  <2> QED BY <1>3, <1>8, <2>1 DEF Issue
<1>9. CASE SelectBySub(p)
  <2>1. ASSUME NEW e \in Linked(req[p].google), Saw(p, e), Goto(p, "link")
        PROVE  Refused(p)'
    <3>1. pc'[p] = "link" /\ answer'[p] = "none" /\ who'[p] = e /\ view'[p] = users[e]
      BY <1>1, <1>9, <2>1 DEF Goto, Saw, SelectBySub, Placed, ShapeOK
    <3> QED BY <1>1, <1>2, <3>1 DEF Refused
  <2>2. CASE Goto(p, "byEmail")
    <3>1. pc'[p] = "byEmail" /\ answer'[p] = "none"
      BY <1>1, <1>9, <2>2 DEF Goto, SelectBySub, Placed, ShapeOK
    <3> QED BY <1>2, <3>1 DEF Refused
  <2> QED BY <1>3, <1>9, <2>1, <2>2 DEF SelectBySub
<1>10. CASE SelectByEmail(p)
  <2>1. ASSUME Saw(p, req[p].email), NEW step \in {"insert", "link"}, Goto(p, step)
        PROVE  Refused(p)'
    <3>1. /\ req'[p] = req[p] /\ answer'[p] = "none" /\ pc'[p] = step
          /\ who'[p] = req[p].email /\ view'[p] = users[req[p].email]
      BY <1>1, <1>10, <2>1 DEF Goto, Saw, SelectByEmail, Placed, ShapeOK
    <3> QED BY <1>1, <1>2, <3>1 DEF Refused
  <2>2. CASE Saw(p, req[p].email)
             /\ Goto(p, IF users[req[p].email] = None THEN "insert" ELSE "link")
    <3>1. CASE users[req[p].email] = None
      <4>1. Goto(p, "insert") BY <2>2, <3>1
      <4> QED BY <2>1, <2>2, <4>1
    <3>2. CASE users[req[p].email] # None
      <4>1. Goto(p, "link") BY <2>2, <3>2
      <4> QED BY <2>1, <2>2, <4>1
    <3> QED BY <3>1, <3>2
  <2> QED BY <1>3, <1>10, <2>2 DEF SelectByEmail
<1>11. CASE GoogleInsert(p)
  <2>1. CASE Admitted(req[p].email, FromGoogle(req[p].google)) /\ Goto(p, "refresh")
    <3>1. req'[p] = req[p] /\ answer'[p] = "none" /\ pc'[p] = "refresh" /\ who'[p] = who[p]
      BY <1>1, <1>11, <2>1 DEF Goto, GoogleInsert, Placed, ShapeOK
    <3>2. who[p] = req[p].email /\ users[who[p]] = None
      BY <1>1, <1>11, <2>1 DEF GoogleInsert, Known, Admitted
    <3>3. who[p] \notin barred[p] BY <1>1, <3>2 DEF Refused, Rows
    <3> QED BY <1>2, <3>1, <3>3 DEF Refused
  <2> QED BY <1>3, <1>4, <1>11, <2>1 DEF GoogleInsert, InsertUser
<1>12. CASE Link(p)
  <2>1. CASE MayLink(p) /\ Goto(p, "refresh")
    <3>1. req'[p] = req[p] /\ answer'[p] = "none" /\ pc'[p] = "refresh" /\ who'[p] = who[p]
      BY <1>1, <1>12, <2>1 DEF Goto, Link, Placed, ShapeOK
    <3>2. who[p] \notin barred[p] BY <1>1, <1>12, <2>1 DEF Refused, MayLink, Link
    <3> QED BY <1>2, <3>1, <3>2 DEF Refused
  <2> QED BY <1>3, <1>4, <1>12, <2>1 DEF Link
<1> QED BY <1>5, <1>6, <1>7, <1>8, <1>9, <1>10, <1>11, <1>12 DEF Continue

(* Every step keeps the inactive out. *)
LEMMA InactivesInductive ==
  ASSUME ShapeOK, ShapeOK', Local, Inactives, [Next]_vars
  PROVE  Inactives'
<1>1. Keeps BY NextKeeps
<1>2. CASE UNCHANGED vars
  BY <1>2 DEF vars, history, Inactives, Refused, Rows
<1>3. ASSUME NEW e \in Emails, Deactivate(e) PROVE Inactives'
  <2>1. \A q \in Requests : Still(q) BY <1>3 DEF Deactivate, history, Still
  <2> QED BY <1>1, <2>1, RefusedStill DEF Inactives
<1>4. ASSUME NEW p \in Requests, Start(p) \/ Continue(p) \/ PoolTimeout(p) PROVE Inactives'
  <2>1. ASSUME NEW q \in Requests, q # p PROVE Refused(q)'
    BY <1>1, <1>4, <2>1, OthersStill, RefusedStill
  <2>2. Refused(p)'
    BY <1>1, <1>4, RefusedStart, RefusedContinue, RefusedFails DEF PoolTimeout
  <2> QED BY <2>1, <2>2 DEF Inactives
<1> QED BY <1>2, <1>3, <1>4 DEF Next

-----------------------------------------------------------------------------
(* Answers *)

(* A signup is committed by the INSERT of its row, and by nothing else. *)
LEMMA MadeStep ==
  ASSUME ShapeOK, Local, Answers, NEW p \in Requests, Start(p) \/ Continue(p) \/ PoolTimeout(p),
         Made(p)'
  PROVE  /\ req'[p] = req[p]
         /\ \/ Made(p)
            \/ /\ req[p].email \in Emails /\ users[req[p].email] = None
               /\ users'[req[p].email] = Manual
<1>1. Placed(p) /\ Known(p) /\ Truthful(p) BY DEF Local, Answers
<1>2. ASSUME NEW event, Fails(p, event) PROVE FALSE
  BY <1>2 DEF Fails, ErrorOf, Ended, ShapeOK, Made
<1>3. ASSUME NEW outcome, outcome # "created", End(p, outcome) PROVE FALSE
  BY <1>3 DEF End, Ended, ShapeOK, Made
<1>4. ASSUME NEW step, step # "refresh", Goto(p, step), pc[p] # "ended" PROVE FALSE
  BY <1>1, <1>4 DEF Goto, ShapeOK, Made, Placed
<1>5. CASE Start(p)
  <2>1. answer'[p] = "none" BY <1>1, <1>5 DEF Start, Placed
  <2>2. pc'[p] # "refresh" BY <1>5 DEF Start, FirstStep, Operations, ShapeOK
  <2> QED BY <2>1, <2>2 DEF Made
<1>6. CASE PoolTimeout(p) BY <1>2, <1>6 DEF PoolTimeout
<1>7. CASE Refresh(p)
  <2>1. CASE End(p, "created")
    <3>1. req' = req /\ pc[p] = "refresh" BY <1>7 DEF Refresh
    <3> QED BY <2>1, <3>1 DEF Made
  <2> QED BY <1>2, <1>4, <1>7, <2>1 DEF Refresh, DatabaseFails
<1>8. CASE SignupInsert(p)
  <2>1. CASE Admitted(req[p].email, Manual) /\ Insert(req[p].email, Manual)
    BY <1>1, <1>8, <2>1 DEF SignupInsert, Admitted, Insert, Known, ShapeOK
  <2>2. CASE End(p, "conflict") BY <1>3, <2>2
  <2> QED BY <1>2, <1>8, <2>1, <2>2 DEF SignupInsert, InsertUser, DatabaseFails
<1>9. CASE GoogleInsert(p)
  <2>1. req'[p].op = "google" BY <1>9 DEF GoogleInsert
  <2> QED BY <2>1 DEF Made
<1>10. CASE Signup(p) \/ Login(p) \/ Issue(p) \/ TurnQuery(p) \/ TurnWait(p) \/ TurnSave(p) \/ Ping(p)
  BY <1>2, <1>3, <1>4, <1>10 DEF Signup, Login, Issue, TurnQuery, TurnWait, TurnSave, Ping, DatabaseFails
<1>11. CASE Exchange(p) \/ SelectBySub(p) \/ SelectByEmail(p) \/ Link(p)
  <2>1. req[p].op = "google" BY <1>1, <1>11 DEF Exchange, SelectBySub, SelectByEmail, Link, Placed
  <2>2. CASE req' = req BY <2>1, <2>2 DEF Made
  <2>3. ASSUME NEW e \in Emails, NEW g \in Googles,
               req' = [req EXCEPT ![p].email = e, ![p].google = g]
        PROVE  FALSE
    <3>1. req \in [Requests -> Inputs] BY ReqShape
    <3>2. req'[p] = [req[p] EXCEPT !.email = e, !.google = g] BY <2>3, <3>1
    <3>3. req[p] \in Inputs BY <3>1
    <3>4. req'[p].op = "google" BY <2>1, <3>2, <3>3 DEF Inputs
    <3> QED BY <3>4 DEF Made
  <2> QED BY <1>11, <2>2, <2>3 DEF Exchange, SelectBySub, SelectByEmail, Link
<1> QED BY <1>5, <1>6, <1>7, <1>8, <1>9, <1>10, <1>11 DEF Continue

LEMMA MadeStill == ASSUME NEW q, Still(q) PROVE Made(q)' <=> Made(q)
BY DEF Still, Made

(* The unique e-mail lets one signup through. *)
LEMMA UniqueInductive ==
  ASSUME ShapeOK, Local, Answers, [Next]_vars
  PROVE  Unique'
<1>1. CASE UNCHANGED vars
  BY <1>1 DEF vars, history, Answers, Unique, Made
<1>2. ASSUME NEW e \in Emails, Deactivate(e) PROVE Unique'
  BY <1>2 DEF Deactivate, history, Answers, Unique, Made
<1>3. ASSUME NEW p \in Requests, Start(p) \/ Continue(p) \/ PoolTimeout(p) PROVE Unique'
  <2>1. \A q \in Requests \ {p} : Still(q) BY <1>3, OthersStill
  <2>2. \A q \in Requests \ {p} : req'[q] = req[q] /\ (Made(q)' <=> Made(q))
    BY <2>1, MadeStill DEF Still
  <2>3. ASSUME NEW q \in Requests \ {p}, Made(q), Made(p)' PROVE req'[p].email # req'[q].email
    <3>1. req[q].email \in Rows BY <2>3 DEF Answers, Truthful
    <3>2. req'[p] = req[p] /\ (Made(p) \/ users[req[p].email] = None)
      BY <1>3, <2>3, MadeStep
    <3> QED BY <2>2, <2>3, <3>1, <3>2 DEF Rows, Answers, Unique
  <2> QED BY <2>2, <2>3 DEF Answers, Unique
<1> QED BY <1>1, <1>2, <1>3 DEF Next

(* A row that was not there is one of the two that requests insert. *)
LEMMA NewRow ==
  ASSUME ShapeOK, Local, NEW e \in Rows' \ Rows, [Next]_vars
  PROVE  users'[e] = Manual \/ \E g \in Googles : users'[e] = FromGoogle(g)
<1>1. e \in Emails /\ users[e] = None /\ users'[e] # None BY DEF Rows
<1>2. ASSUME users' = users PROVE FALSE BY <1>1, <1>2
<1>3. CASE UNCHANGED vars BY <1>2, <1>3 DEF vars
<1>4. ASSUME NEW f \in Emails, Deactivate(f) PROVE FALSE
  <2>1. f # e BY <1>1, <1>4 DEF Deactivate
  <2>2. users'[e] = users[e] BY <1>1, <1>4, <2>1 DEF Deactivate, ShapeOK
  <2> QED BY <1>1, <2>2
<1>5. ASSUME NEW p \in Requests, SignupInsert(p) PROVE users'[e] = Manual
  BY <1>1, <1>2, <1>5 DEF SignupInsert, InsertUser, Insert, ShapeOK
<1>6. ASSUME NEW p \in Requests, GoogleInsert(p) PROVE \E g \in Googles : users'[e] = FromGoogle(g)
  <2>1. req[p].google \in Googles BY <1>6 DEF GoogleInsert, Local, Known
  <2> QED BY <1>1, <1>2, <1>6, <2>1 DEF GoogleInsert, InsertUser, Insert, ShapeOK
<1>7. ASSUME NEW p \in Requests, Link(p) PROVE FALSE
  <2>1. who[p] \in Rows BY <1>7 DEF Link, Local, Known
  <2> QED BY <1>1, <1>2, <1>7, <2>1 DEF Link, LinkRow, ShapeOK, Rows
<1> QED BY <1>2, <1>3, <1>4, <1>5, <1>6, <1>7 DEF Next, Start, Continue, PoolTimeout, Signup, Login,
           Refresh, Issue, Exchange, SelectBySub, SelectByEmail, TurnQuery, TurnWait, TurnSave, Ping

(* No row goes in without a way to sign in, and none loses it. *)
LEMMA RootedInductive ==
  ASSUME ShapeOK, ShapeOK', Local, Answers, [Next]_vars
  PROVE  Rooted'
<1>1. Keeps BY NextKeeps
<1>2. ASSUME NEW e \in Rows PROVE users'[e].password \/ users'[e].google # None
  BY <1>1, <1>2 DEF Keeps, Answers, Rooted
<1>3. ASSUME NEW e \in Rows' \ Rows PROVE users'[e].password \/ users'[e].google # None
  <2>1. users'[e] = Manual \/ \E g \in Googles : users'[e] = FromGoogle(g)
    BY <1>3, NewRow
  <2>2. CASE users'[e] = Manual BY <2>2 DEF Manual
  <2>3. ASSUME NEW g \in Googles, users'[e] = FromGoogle(g) PROVE users'[e].google # None
    BY <2>3, NoneAssumption DEF FromGoogle
  <2> QED BY <2>1, <2>2, <2>3
<1> QED BY <1>2, <1>3 DEF Rooted

LEMMA TruthfulStill ==
  ASSUME Answers, Keeps, NEW q \in Requests, Still(q)
  PROVE  Truthful(q)'
<1>1. Truthful(q) BY DEF Answers
<1>2. Made(q)' <=> Made(q) BY MadeStill
<1>3. \A e \in Rows : /\ e \in Rows' /\ users'[e].password = users[e].password
                      /\ users[e].google # None => users'[e].google # None
  BY DEF Keeps, Rows
<1> QED BY <1>1, <1>2, <1>3 DEF Truthful, Still

LEMMA TruthfulFails ==
  ASSUME ShapeOK, NEW p \in Requests, NEW event, Fails(p, event)
  PROVE  Truthful(p)'
<1>1. pc'[p] = "ended" /\ answer'[p] \in {"refused", "error"} /\ faults'[p] # {}
  BY DEF Fails, Ended, ErrorOf, ShapeOK
<1> QED BY <1>1 DEF Truthful, Made

(* An answer that claims nothing of an account. *)
LEMMA TruthfulEnd ==
  ASSUME ShapeOK, NEW p \in Requests, NEW outcome \in {"refused", "tokens", "done"}, End(p, outcome)
  PROVE  Truthful(p)'
<1>1. pc'[p] = "ended" /\ answer'[p] = outcome BY DEF End, Ended, ShapeOK
<1> QED BY <1>1 DEF Truthful, Made

LEMMA TruthfulConflict ==
  ASSUME ShapeOK, NEW p \in Requests, End(p, "conflict"),
         req'[p].email \in Emails,
         req'[p].email \in Rows' \/ req'[p].email \in Unfit
  PROVE  Truthful(p)'
<1>1. pc'[p] = "ended" /\ answer'[p] = "conflict" BY DEF End, Ended, ShapeOK
<1> QED BY <1>1 DEF Truthful, Made

(* Nor does a request that goes on, unless its row has just been committed. *)
LEMMA TruthfulGoto ==
  ASSUME ShapeOK, Local, NEW p \in Requests, NEW step, Goto(p, step), pc[p] # "ended",
         step = "refresh" /\ req'[p].op = "signup" =>
           req'[p].email \in Rows' /\ users'[req'[p].email].password
  PROVE  Truthful(p)'
<1>1. pc'[p] = step /\ answer'[p] = "none" BY DEF Goto, ShapeOK, Local, Placed
<1> QED BY <1>1 DEF Truthful, Made

LEMMA TruthfulContinue ==
  ASSUME ShapeOK, ShapeOK', Local, Answers, Keeps, NEW p \in Requests, Continue(p)
  PROVE  Truthful(p)'
<1>1. Placed(p) /\ Known(p) /\ Truthful(p) BY DEF Local, Answers
<1>2. ASSUME DatabaseFails(p) PROVE Truthful(p)'
  BY <1>2, TruthfulFails DEF DatabaseFails
<1>3. CASE Signup(p)
  <2>1. ASSUME NEW e \in Emails, req' = [req EXCEPT ![p].email = e],
               users[e] # None, End(p, "conflict"), UNCHANGED users
        PROVE  Truthful(p)'
    <3>1. req'[p].email = e BY <2>1 DEF ShapeOK
    <3>2. e \in Rows' BY <2>1 DEF Rows
    <3> QED BY <2>1, <3>1, <3>2, TruthfulConflict
  <2>2. ASSUME Goto(p, "insert") PROVE Truthful(p)'
    BY <1>3, <2>2, TruthfulGoto DEF Signup
  <2> QED BY <1>2, <1>3, <2>1, <2>2 DEF Signup
<1>4. CASE SignupInsert(p)
  <2>1. req' = req /\ req[p].email \in Emails /\ pc[p] = "insert" /\ req[p].op = "signup"
    BY <1>1, <1>4 DEF SignupInsert, Known
  <2>2. CASE Insert(req[p].email, Manual) /\ Goto(p, "refresh")
    <3>1. users'[req[p].email] = Manual BY <2>1, <2>2 DEF Insert, ShapeOK
    <3>2. req[p].email \in Rows' /\ users'[req[p].email].password
      BY <2>1, <3>1, RowShapes, RowAssumption DEF Rows, Manual
    <3> QED BY <2>1, <2>2, <3>2, TruthfulGoto
  <2>3. CASE ~Admitted(req[p].email, Manual) /\ End(p, "conflict")
    <3>1. req[p].email \in Rows \/ req[p].email \in Unfit
      BY <2>1, <2>3 DEF Admitted, Manual, Rows
    <3> QED BY <2>1, <2>3, <3>1, KeptRows, TruthfulConflict
  <2> QED BY <1>2, <1>4, <2>1, <2>2, <2>3 DEF SignupInsert, InsertUser
<1>5. CASE Login(p)
  <2>1. ASSUME NEW e \in Emails, req' = [req EXCEPT ![p].email = e],
               users[e] # None, ~users[e].password, End(p, "error"), UNCHANGED users
        PROVE  Truthful(p)'
    <3>1. req'[p].email = e /\ req'[p].op = "login"
      BY <1>5, <2>1 DEF ShapeOK, Login
    <3>2. pc'[p] = "ended" /\ answer'[p] = "error" BY <2>1 DEF End, Ended, ShapeOK
    <3>3. e \in Rows BY <2>1 DEF Rows
    <3>4. e \in Rows' /\ users'[e].google # None /\ ~users'[e].password
      BY <2>1, <3>3 DEF Answers, Rooted, Rows
    <3> QED BY <3>1, <3>2, <3>4 DEF Truthful, Made
  <2>2. ASSUME Goto(p, "issue") PROVE Truthful(p)'
    BY <1>5, <2>2, TruthfulGoto DEF Login
  <2>3. ASSUME End(p, "refused") PROVE Truthful(p)'
    BY <2>3, TruthfulEnd
  <2> QED BY <1>2, <1>5, <2>1, <2>2, <2>3 DEF Login
<1>6. CASE Refresh(p)
  <2>1. CASE End(p, "created") /\ req[p].op = "signup"
    <3>1. pc'[p] = "ended" /\ answer'[p] = "created" BY <2>1 DEF End, Ended, ShapeOK
    <3>2. req[p].email \in Rows /\ users[req[p].email].password
      BY <1>1, <1>6, <2>1 DEF Truthful, Made, Refresh
    <3>3. users' = users /\ req' = req BY <1>6 DEF Refresh
    <3> QED BY <2>1, <3>1, <3>2, <3>3 DEF Truthful, Made, Rows
  <2>2. CASE Goto(p, "issue") BY <1>6, <2>2, TruthfulGoto DEF Refresh
  <2> QED BY <1>2, <1>6, <2>1, <2>2 DEF Refresh
<1>7. CASE Issue(p) \/ TurnSave(p) \/ Ping(p)
  BY <1>2, <1>7, TruthfulEnd DEF Issue, TurnSave, Ping
<1>8. CASE Exchange(p)
  <2>1. ASSUME Goto(p, "bySub") PROVE Truthful(p)'
    BY <1>8, <2>1, TruthfulGoto DEF Exchange
  <2> QED BY <1>8, <2>1, TruthfulEnd DEF Exchange
<1>9. CASE SelectBySub(p)
  <2>1. ASSUME NEW step \in {"link", "byEmail"}, Goto(p, step) PROVE Truthful(p)'
    BY <1>9, <2>1, TruthfulGoto DEF SelectBySub
  <2> QED BY <1>2, <1>9, <2>1 DEF SelectBySub
<1>10. CASE SelectByEmail(p)
  <2>1. ASSUME NEW step, step # "refresh", Goto(p, step) PROVE Truthful(p)'
    BY <1>10, <2>1, TruthfulGoto DEF SelectByEmail
  <2>2. (IF users[req[p].email] = None THEN "insert" ELSE "link") # "refresh" OBVIOUS
  <2> QED BY <1>2, <1>10, <2>1, <2>2 DEF SelectByEmail
<1>11. CASE GoogleInsert(p) \/ Link(p)
  <2>1. req' = req /\ req[p].op = "google" /\ pc[p] \in {"insert", "link"}
    BY <1>1, <1>11 DEF GoogleInsert, Link, Placed
  <2>2. ASSUME Goto(p, "refresh") PROVE Truthful(p)' BY <2>1, <2>2, TruthfulGoto
  <2>3. ASSUME End(p, "refused") PROVE Truthful(p)' BY <2>3, TruthfulEnd
  <2> QED BY <1>2, <1>11, <2>1, <2>2, <2>3 DEF GoogleInsert, InsertUser, Link
<1>12. CASE TurnQuery(p) \/ TurnWait(p)
  <2>1. ASSUME NEW step \in {"wait", "save"}, Goto(p, step) PROVE Truthful(p)'
    BY <1>12, <2>1, TruthfulGoto DEF TurnQuery, TurnWait
  <2>2. ASSUME End(p, "error") PROVE Truthful(p)'
    <3>1. pc'[p] = "ended" /\ answer'[p] = "error" BY <2>2 DEF End, Ended, ShapeOK
    <3>2. req'[p].op = "turn" BY <1>1, <1>12 DEF TurnQuery, TurnWait, Placed
    <3> QED BY <3>1, <3>2 DEF Truthful, Made
  <2> QED BY <1>2, <1>12, <2>1, <2>2 DEF TurnQuery, TurnWait
<1> QED BY <1>3, <1>4, <1>5, <1>6, <1>7, <1>8, <1>9, <1>10, <1>11, <1>12 DEF Continue

(* Every step keeps the answers true. *)
LEMMA AnswersInductive ==
  ASSUME ShapeOK, ShapeOK', Local, Answers, [Next]_vars
  PROVE  Answers'
<1>1. Keeps BY NextKeeps
<1>2. Unique' /\ Rooted' BY UniqueInductive, RootedInductive
<1>3. ASSUME \A q \in Requests : Still(q) PROVE Answers'
  BY <1>1, <1>2, <1>3, TruthfulStill DEF Answers
<1>4. CASE UNCHANGED vars
  BY <1>3, <1>4 DEF vars, history, Still
<1>5. ASSUME NEW e \in Emails, Deactivate(e) PROVE Answers'
  BY <1>3, <1>5 DEF Deactivate, history, Still
<1>6. ASSUME NEW p \in Requests, Start(p) \/ Continue(p) \/ PoolTimeout(p) PROVE Answers'
  <2>1. ASSUME NEW q \in Requests, q # p PROVE Truthful(q)'
    BY <1>1, <1>6, <2>1, OthersStill, TruthfulStill
  <2>2. CASE Start(p)
    <3>1. answer'[p] = "none" BY <2>2 DEF Start, Local, Placed
    <3>2. pc'[p] # "refresh" BY <2>2 DEF Start, FirstStep, Operations, ShapeOK
    <3> QED BY <1>2, <2>1, <3>1, <3>2 DEF Answers, Truthful, Made
  <2>3. Truthful(p)'
    BY <1>1, <1>6, <2>2, TruthfulContinue, TruthfulFails DEF PoolTimeout, Answers
  <2> QED BY <1>2, <2>1, <2>3 DEF Answers
<1> QED BY <1>4, <1>5, <1>6 DEF Next

-----------------------------------------------------------------------------
(* Links *)

(* A step of one request records the sign-ins it meets only when it starts. *)
LEMMA MetStep ==
  ASSUME ShapeOK, NEW p \in Requests, Continue(p) \/ PoolTimeout(p)
  PROVE  met' = met /\ p \in InProgress /\ req'[p].op = req[p].op
<1>1. met' = met
  BY DEF Continue, Signup, SignupInsert, GoogleInsert, InsertUser, Login, Refresh, Issue,
         Exchange, SelectBySub, SelectByEmail, Link, TurnQuery, TurnWait, TurnSave, Ping,
         PoolTimeout, DatabaseFails, Fails, End, Goto, history
<1>2. p \in InProgress
  BY DEF Continue, Signup, SignupInsert, GoogleInsert, Login, Refresh, Issue, Exchange,
         SelectBySub, SelectByEmail, Link, TurnQuery, TurnWait, TurnSave, Ping, PoolTimeout,
         NeedsDatabase, InProgress
<1>3. req'[p].op = req[p].op
  <2>0. req \in [Requests -> Inputs] /\ req[p] \in Inputs BY ReqShape
  <2>1. CASE req' = req BY <2>1
  <2>2. ASSUME NEW e, req' = [req EXCEPT ![p].email = e] PROVE req'[p].op = req[p].op
    <3>1. req'[p] = [req[p] EXCEPT !.email = e] BY <2>0, <2>2
    <3> QED BY <2>0, <3>1 DEF Inputs
  <2>3. ASSUME NEW e, NEW g, req' = [req EXCEPT ![p].email = e, ![p].google = g]
        PROVE  req'[p].op = req[p].op
    <3>1. req'[p] = [req[p] EXCEPT !.email = e, !.google = g] BY <2>0, <2>3
    <3> QED BY <2>0, <3>1 DEF Inputs
  <2> QED BY <2>1, <2>2, <2>3 DEF Continue, Signup, SignupInsert, GoogleInsert, Login, Refresh,
         Issue, Exchange, SelectBySub, SelectByEmail, Link, TurnQuery, TurnWait, TurnSave, Ping,
         PoolTimeout
<1> QED BY <1>1, <1>2, <1>3

(* What has met stays met. *)
LEMMA MetGrows == ASSUME ShapeOK, [Next]_vars PROVE met \subseteq met'
<1>1. ASSUME NEW p \in Requests, Start(p) PROVE met \subseteq met' BY <1>1 DEF Start
<1> QED BY <1>1, MetStep DEF Next, Deactivate, history, vars

(* Sign-ins that are both under way have met. *)
LEMMA OverlappingInductive ==
  ASSUME ShapeOK, Overlapping, [Next]_vars
  PROVE  Overlapping'
<1>1. met \subseteq met' BY MetGrows
<1>2. CASE UNCHANGED vars
  BY <1>2 DEF vars, history, Overlapping, InProgress
<1>3. ASSUME NEW e \in Emails, Deactivate(e) PROVE Overlapping'
  BY <1>3 DEF Deactivate, history, Overlapping, InProgress
<1>4. ASSUME NEW p \in Requests, Continue(p) \/ PoolTimeout(p) PROVE Overlapping'
  <2>1. \A q \in Requests \ {p} : Still(q) BY <1>4, OthersStill
  <2>2. InProgress' \subseteq InProgress
    BY <1>4, <2>1, MetStep DEF InProgress, Still
  <2>3. \A q \in Requests : req'[q].op = req[q].op
    BY <1>4, <2>1, MetStep DEF Still
  <2> QED BY <1>1, <2>2, <2>3 DEF Overlapping, InProgress
<1>5. ASSUME NEW p \in Requests, Start(p) PROVE Overlapping'
  <2>1. \A q \in Requests \ {p} : Still(q) BY <1>5, OthersStill
  <2>2. ASSUME NEW q \in InProgress', q # p, req'[p].op = "google", req'[q].op = "google"
        PROVE  {p, q} \in met'
    <3>1. q \in InProgress /\ req[q].op = "google" BY <2>1, <2>2 DEF InProgress, Still
    <3>2. PICK op \in Operations :
            /\ req' = [req EXCEPT ![p].op = op]
            /\ met' = met \cup {{p, r} : r \in {s \in InProgress : op = req[s].op /\ op = "google"}}
      BY <1>5 DEF Start
    <3>3. req \in [Requests -> Inputs] BY ReqShape
    <3>4. req'[p] = [req[p] EXCEPT !.op = op] BY <3>2, <3>3
    <3>5. op = "google" BY <2>2, <3>3, <3>4 DEF Inputs
    <3> QED BY <3>1, <3>2, <3>5
  <2>3. ASSUME NEW q \in InProgress', NEW r \in InProgress', q # p, r # p, q # r,
               req'[q].op = "google", req'[r].op = "google"
        PROVE  {q, r} \in met'
    BY <1>1, <2>1, <2>3 DEF Overlapping, InProgress, Still
  <2>4. \A q : {p, q} = {q, p} OBVIOUS
  <2> QED BY <2>2, <2>3, <2>4 DEF Overlapping
<1> QED BY <1>2, <1>3, <1>4, <1>5 DEF Next

(* A request that has loaded its user keeps it, and what it came with. *)
LEMMA LoadedKept ==
  ASSUME ShapeOK, Local, [Next]_vars, NEW q \in Requests, who[q] # None
  PROVE  who'[q] = who[q] /\ req'[q] = req[q]
<1>1. pc[q] \notin {"idle", "select", "exchange", "bySub", "byEmail"} BY DEF Local, Known
<1>2. CASE UNCHANGED vars BY <1>2 DEF vars
<1>3. ASSUME NEW e \in Emails, Deactivate(e) PROVE who'[q] = who[q] /\ req'[q] = req[q]
  BY <1>3 DEF Deactivate
<1>4. ASSUME NEW p \in Requests, p # q, Start(p) \/ Continue(p) \/ PoolTimeout(p)
      PROVE  who'[q] = who[q] /\ req'[q] = req[q]
  BY <1>4, OthersStill DEF Still
<1>5. ASSUME Start(q) \/ Continue(q) \/ PoolTimeout(q)
      PROVE  who'[q] = who[q] /\ req'[q] = req[q]
  BY <1>1, <1>5 DEF Start, Continue, Signup, SignupInsert, GoogleInsert, Login, Refresh, Issue,
     Exchange, SelectBySub, SelectByEmail, Link, TurnQuery, TurnWait, TurnSave, Ping, PoolTimeout
<1> QED BY <1>2, <1>3, <1>4, <1>5 DEF Next

(* Once contested, always contested. *)
LEMMA ContestedKept ==
  ASSUME ShapeOK, Local, [Next]_vars, NEW e \in Emails, Contested(e)
  PROVE  Contested(e)'
<1> PICK p \in Requests, q \in Requests :
      /\ {p, q} \in met
      /\ who[p] = e /\ who[q] = e
      /\ req[p].google # None /\ req[q].google # None /\ req[p].google # req[q].google
  BY DEF Contested
<1>1. e # None BY NoneAssumption
<1>2. who'[p] = e /\ req'[p] = req[p] /\ who'[q] = e /\ req'[q] = req[q]
  BY <1>1, LoadedKept
<1>3. {p, q} \in met' BY MetGrows
<1> QED BY <1>2, <1>3 DEF Contested

(* Request p gives user e its link, by an INSERT or over a row it has seen without one. *)
Writes(p, e) ==
  /\ req[p].op = "google" /\ req[p].google \in Googles /\ who[p] = e
  /\ users'[e].google = req[p].google
  /\ e \notin Rows \/ p \in Linking(e)
  /\ pc'[p] \in {"refresh", "ended"} /\ req'[p] = req[p] /\ who'[p] = e
  /\ \A q \in Requests \ {p} : Still(q)

LEMMA WritesInsert ==
  ASSUME ShapeOK, Local, NEW p \in Requests, GoogleInsert(p), NEW e \in Rows'
  PROVE  (e \in Rows /\ users'[e].google = users[e].google) \/ Writes(p, e)
<1>1. /\ req[p].op = "google" /\ req[p].google \in Googles
      /\ req[p].email \in Emails /\ who[p] = req[p].email
  BY DEF GoogleInsert, Local, Known
<1>2. CASE UNCHANGED users BY <1>2 DEF Rows
<1>3. CASE Admitted(req[p].email, FromGoogle(req[p].google))
           /\ Insert(req[p].email, FromGoogle(req[p].google))
  <2>1. CASE e # req[p].email
    BY <1>3, <2>1 DEF Insert, Rows, ShapeOK
  <2>2. CASE e = req[p].email
    <3>1. users'[e] = FromGoogle(req[p].google) BY <1>1, <1>3, <2>2 DEF Insert, ShapeOK
    <3>2. e \notin Rows BY <1>3, <2>2 DEF Admitted, Rows
    <3>3. req' = req /\ who' = who BY DEF GoogleInsert
    <3>4. pc'[p] \in {"refresh", "ended"}
      BY DEF GoogleInsert, InsertUser, Goto, DatabaseFails, Fails, End, Ended, ShapeOK
    <3>5. \A q \in Requests \ {p} : Still(q) BY OthersStill DEF Continue
    <3> QED BY <1>1, <2>2, <3>1, <3>2, <3>3, <3>4, <3>5 DEF Writes, FromGoogle
  <2> QED BY <2>1, <2>2
<1> QED BY <1>2, <1>3 DEF GoogleInsert, InsertUser

LEMMA WritesLink ==
  ASSUME ShapeOK, Local, NEW p \in Requests, Link(p), NEW e \in Rows'
  PROVE  (e \in Rows /\ users'[e].google = users[e].google) \/ Writes(p, e)
<1>1. /\ req[p].op = "google" /\ req[p].google \in Googles
      /\ who[p] \in Rows /\ pc[p] = "link" /\ view[p] \in User
  BY DEF Link, Local, Known, Placed
<1>2. CASE UNCHANGED users BY <1>2 DEF Rows
<1>3. CASE LinkRow(p)
  <2>1. CASE e # who[p]
    BY <1>3, <2>1 DEF LinkRow, Rows, ShapeOK
  <2>2. CASE e = who[p]
    <3>1. users[e] \in User BY <1>1, <2>2 DEF Rows, ShapeOK
    <3>2. users'[e] = [users[e] EXCEPT
            !.google = IF view[p].google = None THEN req[p].google ELSE @, !.verified = TRUE]
      BY <1>1, <1>3, <2>2 DEF LinkRow, ShapeOK, Rows
    <3>3. CASE view[p].google # None
      BY <1>1, <2>2, <3>1, <3>2, <3>3 DEF User
    <3>4. CASE view[p].google = None
      <4>1. users'[e].google = req[p].google BY <3>1, <3>2, <3>4 DEF User
      <4>2. p \in Linking(e) BY <1>1, <2>2, <3>4 DEF Linking
      <4>3. req' = req /\ who' = who BY DEF Link
      <4>4. pc'[p] \in {"refresh", "ended"}
        BY DEF Link, Goto, DatabaseFails, Fails, End, Ended, ShapeOK
      <4>5. \A q \in Requests \ {p} : Still(q) BY OthersStill DEF Continue
      <4> QED BY <1>1, <2>2, <4>1, <4>2, <4>3, <4>4, <4>5 DEF Writes
    <3> QED BY <3>3, <3>4
  <2> QED BY <2>1, <2>2
<1> QED BY <1>2, <1>3 DEF Link

(* The link of a user changes only when a Google sign-in writes it. *)
LEMMA LinkWritten ==
  ASSUME ShapeOK, ShapeOK', Local, [Next]_vars, NEW e \in Rows'
  PROVE  \/ e \in Rows /\ users'[e].google = users[e].google
         \/ users'[e].google = None
         \/ \E p \in Requests : Writes(p, e)
<1>1. CASE UNCHANGED users BY <1>1 DEF Rows
<1>2. ASSUME NEW f \in Emails, Deactivate(f)
      PROVE  e \in Rows /\ users'[e].google = users[e].google
  <2>1. CASE e = f
    <3>1. e \in Rows /\ users[e] \in User BY <1>2, <2>1 DEF Deactivate, Rows, ShapeOK
    <3>2. users'[e] = [users[e] EXCEPT !.active = FALSE]
      BY <1>2, <2>1 DEF Deactivate, ShapeOK
    <3> QED BY <3>1, <3>2 DEF User
  <2>2. CASE e # f BY <1>2, <2>2 DEF Deactivate, Rows, ShapeOK
  <2> QED BY <2>1, <2>2
<1>3. ASSUME NEW p \in Requests, SignupInsert(p)
      PROVE  \/ e \in Rows /\ users'[e].google = users[e].google
             \/ users'[e].google = None
  <2>1. req[p].email \in Emails BY <1>3 DEF SignupInsert, Local, Known
  <2>2. CASE Insert(req[p].email, Manual)
    BY <2>1, <2>2 DEF Insert, Manual, Rows, ShapeOK
  <2> QED BY <1>1, <1>3, <2>2 DEF SignupInsert, InsertUser, Rows
<1> QED BY <1>1, <1>2, <1>3, WritesInsert, WritesLink DEF Next, vars, Start, Continue, PoolTimeout,
     Signup, Login, Refresh, Issue, Exchange, SelectBySub, SelectByEmail, TurnQuery, TurnWait,
     TurnSave, Ping

(* A request that comes to wait for its link to be written saw the user as it is. *)
LEMMA NewlyLinking ==
  ASSUME ShapeOK, Local, [Next]_vars, NEW q \in Requests, pc'[q] = "link"
  PROVE  \/ pc[q] = "link" /\ who'[q] = who[q] /\ view'[q] = view[q]
         \/ UNCHANGED users /\ view'[q] = users[who'[q]]
<1>1. CASE Still(q) BY <1>1 DEF Still
<1>2. CASE UNCHANGED vars BY <1>1, <1>2 DEF vars, history, Still
<1>3. ASSUME NEW e \in Emails, Deactivate(e) PROVE Still(q)
  BY <1>3 DEF Deactivate, history, Still
<1>4. ASSUME NEW p \in Requests, p # q, Start(p) \/ Continue(p) \/ PoolTimeout(p) PROVE Still(q)
  BY <1>4, OthersStill
<1>5. ASSUME Start(q) PROVE FALSE
  BY <1>5 DEF Start, FirstStep, Operations, ShapeOK
<1>6. ASSUME NEW event, Fails(q, event) PROVE FALSE
  BY <1>6 DEF Fails, Ended, ShapeOK
<1>7. ASSUME NEW outcome, End(q, outcome) PROVE FALSE
  BY <1>7 DEF End, Ended, ShapeOK
<1>8. ASSUME NEW step, step # "link", Goto(q, step) PROVE FALSE
  BY <1>8 DEF Goto, ShapeOK
<1>9. CASE SelectBySub(q) \/ SelectByEmail(q)
  <2>1. ASSUME NEW e, Saw(q, e), UNCHANGED users
        PROVE  UNCHANGED users /\ view'[q] = users[who'[q]]
    BY <2>1 DEF Saw, ShapeOK
  <2> QED BY <1>6, <1>8, <1>9, <2>1 DEF SelectBySub, SelectByEmail, DatabaseFails
<1>10. CASE Signup(q) \/ SignupInsert(q) \/ GoogleInsert(q)
  BY <1>6, <1>7, <1>8, <1>10 DEF Signup, SignupInsert, GoogleInsert, InsertUser, DatabaseFails
<1>11. CASE Login(q) \/ Refresh(q) \/ Issue(q) \/ Exchange(q) \/ Link(q)
  BY <1>6, <1>7, <1>8, <1>11 DEF Login, Refresh, Issue, Exchange, Link, DatabaseFails
<1>12. CASE TurnQuery(q) \/ TurnWait(q) \/ TurnSave(q) \/ Ping(q)
  BY <1>6, <1>7, <1>8, <1>12 DEF TurnQuery, TurnWait, TurnSave, Ping, DatabaseFails
<1>13. CASE PoolTimeout(q) BY <1>6, <1>13 DEF PoolTimeout
<1>14. CASE Continue(q) BY <1>9, <1>10, <1>11, <1>12, <1>14 DEF Continue
<1> QED BY <1>1, <1>2, <1>3, <1>4, <1>5, <1>13, <1>14 DEF Next

(* A sign-in does not go back. *)
LEMMA PastKept ==
  ASSUME ShapeOK, [Next]_vars, NEW r \in Requests, Past(r), req'[r] = req[r]
  PROVE  Past(r)'
<1>1. CASE Still(r) BY <1>1 DEF Still, Past
<1>2. CASE UNCHANGED vars BY <1>1, <1>2 DEF vars, history, Still
<1>3. ASSUME NEW e \in Emails, Deactivate(e) PROVE Still(r)
  BY <1>3 DEF Deactivate, history, Still
<1>4. ASSUME NEW p \in Requests, p # r, Start(p) \/ Continue(p) \/ PoolTimeout(p) PROVE Still(r)
  BY <1>4, OthersStill
<1>5. ASSUME Start(r) \/ Continue(r) \/ PoolTimeout(r) PROVE Past(r)'
  <2>1. pc[r] \in {"refresh", "issue"} /\ req[r].op = "google" /\ (Refresh(r) \/ Issue(r) \/ PoolTimeout(r))
    BY <1>5 DEF Past, Start, Continue, Signup, SignupInsert, GoogleInsert, Login, Refresh, Issue,
       Exchange, SelectBySub, SelectByEmail, Link, TurnQuery, TurnWait, TurnSave, Ping,
       PoolTimeout, NeedsDatabase
  <2>2. pc'[r] \in {"issue", "ended"}
    BY <2>1 DEF Refresh, Issue, PoolTimeout, Goto, DatabaseFails, Fails, End, Ended, ShapeOK
  <2> QED BY <2>1, <2>2 DEF Past
<1> QED BY <1>1, <1>2, <1>3, <1>4, <1>5 DEF Next

(* Every link keeps the request that set it, which has met all who wait to link. *)
LEMMA OriginsInductive ==
  ASSUME ShapeOK, ShapeOK', Local, Overlapping, Origins, [Next]_vars
  PROVE  Origins'
<1> SUFFICES ASSUME NEW e \in Rows', users'[e].google # None PROVE Origin(e)'
  BY DEF Origins
<1>1. met \subseteq met' BY MetGrows
<1>2. e # None BY NoneAssumption DEF Rows
<1>3. CASE e \in Rows /\ users'[e].google = users[e].google
  <2>1. PICK r \in Requests :
          /\ Past(r) /\ who[r] = e /\ req[r].google = users[e].google
          /\ \A q \in Linking(e) : {q, r} \in met
    BY <1>3 DEF Origins, Origin
  <2>2. who'[r] = e /\ req'[r] = req[r] BY <1>2, <2>1, LoadedKept
  <2>3. Past(r)'
    BY <2>1, <2>2, PastKept
  <2>4. ASSUME NEW q \in Linking(e)' PROVE {q, r} \in met'
    <3>1. pc'[q] = "link" /\ who'[q] = e /\ view'[q].google = None BY <2>4 DEF Linking
    <3>2. q \in Linking(e) BY <1>3, <2>4, <3>1, NewlyLinking DEF Linking
    <3> QED BY <1>1, <2>1, <3>2
  <2> QED BY <1>3, <2>1, <2>2, <2>3, <2>4 DEF Origin
<1>4. ASSUME NEW p \in Requests, Writes(p, e) PROVE Origin(e)'
  <2>1. Past(p)' /\ who'[p] = e /\ req'[p].google = users'[e].google
    BY <1>4 DEF Writes, Past
  <2>2. ASSUME NEW q \in Linking(e)' PROVE {q, p} \in met'
    <3>1. q # p BY <1>4, <2>2 DEF Linking, Writes
    <3>2. q \in Linking(e) BY <1>4, <2>2, <3>1 DEF Linking, Writes, Still
    <3>3. e \in Rows /\ req[q].op = "google" /\ q \in InProgress
      BY <3>2 DEF Linking, Local, Known, Placed, InProgress
    <3>4. p \in InProgress /\ req[p].op = "google"
      BY <1>4, <3>3 DEF Writes, Linking, InProgress
    <3> QED BY <1>1, <3>1, <3>3, <3>4 DEF Overlapping
  <2> QED BY <2>1, <2>2 DEF Origin
<1> QED BY <1>3, <1>4, LinkWritten

(* A link that is replaced was contested. *)
LEMMA LinkReplaced ==
  ASSUME ShapeOK, ShapeOK', Local, Origins, [Next]_vars, NEW e \in Rows, users[e].google # None
  PROVE  users'[e].google = users[e].google \/ Contested(e)
<1>1. e \in Rows' /\ users'[e].google # None
  BY NextKeeps DEF Keeps, Rows
<1>2. ASSUME NEW p \in Requests, Writes(p, e), users'[e].google # users[e].google
      PROVE  Contested(e)
  <2>1. p \in Linking(e) BY <1>2 DEF Writes
  <2>2. PICK r \in Requests :
          /\ who[r] = e /\ req[r].google = users[e].google
          /\ {p, r} \in met
    BY <2>1 DEF Origins, Origin
  <2>3. /\ who[p] = e /\ req[p].google # None /\ req[p].google # req[r].google
        /\ req[r].google # None
    BY <1>2, <2>2, NoneAssumption DEF Writes
  <2> QED BY <2>2, <2>3 DEF Contested
<1> QED BY <1>1, <1>2, LinkWritten

(* The step that takes a request further keeps it true of its user. *)
LEMMA SoleStill ==
  ASSUME ShapeOK, ShapeOK', Local, Links, [Next]_vars, NEW q \in Requests,
         pc[q] \in {"link", "refresh", "issue", "ended"},
         who'[q] = who[q], req'[q] = req[q],
         SignedIn(q)' => SignedIn(q),
         pc'[q] = "link" => pc[q] = "link" /\ view'[q] = view[q]
  PROVE  Sole(q)'
<1>1. Sole(q) BY DEF Links
<1>2. Known(q) /\ Placed(q) BY DEF Local
<1>3. ASSUME NEW e \in Rows, NEW g, g # None, who[q] = e, users[e].google = g \/ Contested(e)
      PROVE  users'[e].google = g \/ Contested(e)'
  <2>1. CASE Contested(e) BY <2>1, ContestedKept DEF Rows
  <2>2. CASE users[e].google = g
    <3>1. users'[e].google = g \/ Contested(e)
      BY <1>3, <2>2, LinkReplaced DEF Links
    <3> QED BY <3>1, ContestedKept DEF Rows
  <2> QED BY <1>3, <2>1, <2>2
<1>4. ASSUME SignedIn(q)'
      PROVE  users'[who'[q]].google = req'[q].google \/ Contested(who[q])'
  <2>1. SignedIn(q) BY <1>4
  <2>2. PICK e \in Rows : who[q] = e BY <1>2, <2>1 DEF SignedIn, Known
  <2>3. req[q].google # None BY <1>2, <2>1, NoneAssumption DEF SignedIn, Known
  <2>4. users[e].google = req[q].google \/ Contested(e) BY <1>1, <2>1, <2>2 DEF Sole
  <2>5. users'[e].google = req[q].google \/ Contested(e)' BY <1>3, <2>2, <2>3, <2>4
  <2> QED BY <2>2, <2>5
<1>5. ASSUME pc'[q] = "link", view'[q].google # None
      PROVE  users'[who'[q]].google = view'[q].google \/ Contested(who[q])'
  <2>1. pc[q] = "link" /\ view[q].google # None /\ view'[q] = view[q] BY <1>5
  <2>2. PICK e \in Rows : who[q] = e BY <1>2, <2>1 DEF Known
  <2>4. users[e].google = view[q].google \/ Contested(e) BY <1>1, <2>1, <2>2 DEF Sole
  <2>5. users'[e].google = view[q].google \/ Contested(e)' BY <1>3, <2>1, <2>2, <2>4
  <2> QED BY <2>1, <2>2, <2>5
<1> QED BY <1>4, <1>5 DEF Sole

LEMMA SoleContinue ==
  ASSUME ShapeOK, ShapeOK', Local, Local', Links, [Next]_vars, NEW p \in Requests, Continue(p)
  PROVE  Sole(p)'
<1>1. Placed(p) /\ Known(p) BY DEF Local
<1>2. ASSUME ~SignedIn(p)', pc'[p] # "link" PROVE Sole(p)'
  BY <1>2 DEF Sole
<1>3. ASSUME NEW outcome, outcome # "tokens", Ended(p, outcome) PROVE Sole(p)'
  <2>1. pc'[p] = "ended" /\ answer'[p] = outcome BY <1>3 DEF Ended, ShapeOK
  <2> QED BY <1>2, <1>3, <2>1 DEF SignedIn
<1>4. ASSUME DatabaseFails(p) PROVE Sole(p)'
  BY <1>3, <1>4 DEF DatabaseFails, Fails, ErrorOf
<1>5. ASSUME NEW outcome, outcome # "tokens", End(p, outcome) PROVE Sole(p)'
  BY <1>3, <1>5 DEF End
<1>6. ASSUME NEW step, Goto(p, step), pc[p] # "ended" PROVE pc'[p] = step /\ answer'[p] = "none"
  BY <1>1, <1>6 DEF Goto, Placed, ShapeOK
<1>7. ASSUME NEW step, step \notin {"link", "refresh", "issue"}, Goto(p, step), pc[p] # "ended"
      PROVE  Sole(p)'
  BY <1>2, <1>6, <1>7 DEF SignedIn
<1>8. CASE Signup(p) \/ SignupInsert(p) \/ Login(p)
  <2>1. req[p].op # "google" /\ pc[p] # "ended" /\ p \in Requests
    BY <1>8 DEF Signup, SignupInsert, Login
  <2>2. req'[p].op # "google" BY <2>1, MetStep
  <2>3. ASSUME NEW step \in {"insert", "refresh", "issue"}, Goto(p, step) PROVE Sole(p)'
    BY <1>2, <1>6, <2>1, <2>2, <2>3 DEF SignedIn
  <2> QED BY <1>4, <1>5, <1>8, <2>3 DEF Signup, SignupInsert, InsertUser, Login
<1>9. CASE Refresh(p)
  <2>1. CASE Goto(p, "issue") /\ req[p].op = "google"
    <3>1. pc'[p] = "issue" /\ answer'[p] = "none" BY <1>6, <1>9, <2>1 DEF Refresh
    <3>2. pc[p] = "refresh" /\ UNCHANGED <<req, who>> BY <1>9 DEF Refresh
    <3> QED BY <2>1, <3>1, <3>2, SoleStill DEF SignedIn
  <2> QED BY <1>4, <1>5, <1>9, <2>1 DEF Refresh
<1>10. CASE Issue(p)
  <2>1. CASE End(p, "tokens")
    <3>1. pc'[p] = "ended" BY <2>1 DEF End, Ended, ShapeOK
    <3>2. pc[p] = "issue" /\ UNCHANGED <<req, who>> BY <1>10 DEF Issue
    <3> QED BY <3>1, <3>2, SoleStill DEF SignedIn
  <2> QED BY <1>4, <1>10, <2>1 DEF Issue
<1>11. CASE Exchange(p)
  BY <1>5, <1>7, <1>11 DEF Exchange
<1>12. CASE SelectBySub(p)
  <2>1. ASSUME NEW e, Saw(p, e), Goto(p, "link") PROVE Sole(p)'
    <3>1. pc'[p] = "link" /\ answer'[p] = "none" BY <1>6, <1>12, <2>1 DEF SelectBySub
    <3>2. view'[p] = users'[who'[p]] BY <1>12, <2>1 DEF SelectBySub, Saw, ShapeOK
    <3> QED BY <3>1, <3>2 DEF Sole, SignedIn
  <2> QED BY <1>4, <1>7, <1>12, <2>1 DEF SelectBySub
<1>13. CASE SelectByEmail(p)
  <2>1. ASSUME Saw(p, req[p].email), NEW step \in {"insert", "link"}, Goto(p, step)
        PROVE  Sole(p)'
    <3>1. pc'[p] = step /\ answer'[p] = "none" BY <1>6, <1>13, <2>1 DEF SelectByEmail
    <3>2. view'[p] = users'[who'[p]] BY <1>13, <2>1 DEF SelectByEmail, Saw, ShapeOK
    <3> QED BY <2>1, <3>1, <3>2 DEF Sole, SignedIn
  <2>2. (IF users[req[p].email] = None THEN "insert" ELSE "link") \in {"insert", "link"}
    OBVIOUS
  <2> QED BY <1>4, <1>13, <2>1, <2>2 DEF SelectByEmail
<1>14. CASE GoogleInsert(p)
  <2>1. CASE Insert(req[p].email, FromGoogle(req[p].google)) /\ Goto(p, "refresh")
    <3>1. pc'[p] = "refresh" BY <1>6, <1>14, <2>1 DEF GoogleInsert
    <3>2. req' = req /\ who' = who /\ who[p] = req[p].email /\ req[p].email \in Emails
      BY <1>1, <1>14 DEF GoogleInsert, Known
    <3>3. users'[who'[p]] = FromGoogle(req'[p].google)
      BY <2>1, <3>2 DEF Insert, ShapeOK
    <3>4. users'[who'[p]].google = req'[p].google BY <3>3 DEF FromGoogle
    <3> QED BY <3>1, <3>4 DEF Sole
  <2> QED BY <1>4, <1>5, <1>14, <2>1 DEF GoogleInsert, InsertUser
<1>15. CASE Link(p)
  <2>1. CASE MayLink(p) /\ LinkRow(p) /\ Goto(p, "refresh")
    <3>1. pc'[p] = "refresh" BY <1>6, <1>15, <2>1 DEF Link
    <3>2. /\ req' = req /\ who' = who /\ who[p] \in Rows /\ pc[p] = "link"
          /\ req[p].google \in Googles
      BY <1>1, <1>15 DEF Link, Known, Placed
    <3>3. PICK e \in Rows : who[p] = e BY <3>2
    <3>4. /\ users[e] \in User
          /\ users'[e] = [users[e] EXCEPT
               !.google = IF view[p].google = None THEN req[p].google ELSE @, !.verified = TRUE]
      BY <2>1, <3>3 DEF LinkRow, ShapeOK, Rows
    <3>5. CASE view[p].google = None
      <4>1. users'[e].google = req[p].google BY <3>4, <3>5 DEF User
      <4> QED BY <3>1, <3>2, <3>3, <4>1 DEF Sole
    <3>6. CASE view[p].google # None
      <4>1. view[p].google = req[p].google BY <2>1, <3>6 DEF MayLink
      <4>2. users'[e].google = users[e].google BY <3>4, <3>6 DEF User
      <4>3. users[e].google = view[p].google \/ Contested(e)
        BY <3>2, <3>3, <3>6 DEF Links, Sole
      <4>4. users'[e].google = req[p].google \/ Contested(e)'
        BY <4>1, <4>2, <4>3, ContestedKept DEF Rows
      <4> QED BY <3>1, <3>2, <3>3, <4>4 DEF Sole
    <3> QED BY <3>5, <3>6
  <2> QED BY <1>4, <1>5, <1>15, <2>1 DEF Link
<1>16. CASE TurnQuery(p) \/ TurnWait(p) \/ TurnSave(p) \/ Ping(p)
  BY <1>4, <1>5, <1>7, <1>16 DEF TurnQuery, TurnWait, TurnSave, Ping
<1> QED BY <1>8, <1>9, <1>10, <1>11, <1>12, <1>13, <1>14, <1>15, <1>16 DEF Continue

(* Every step keeps what sign-ins know of links. *)
LEMMA LinksInductive ==
  ASSUME ShapeOK, ShapeOK', Local, Local', Links, [Next]_vars
  PROVE  Links'
<1>1. Overlapping' /\ Origins' BY OverlappingInductive, OriginsInductive DEF Links
<1>2. ASSUME NEW q \in Requests, Still(q) PROVE Sole(q)'
  <2>1. SignedIn(q)' => SignedIn(q) BY <1>2 DEF SignedIn, Still
  <2>2. CASE pc[q] \in {"link", "refresh", "issue", "ended"}
    BY <1>2, <2>1, <2>2, SoleStill DEF Still
  <2>3. CASE pc[q] \notin {"link", "refresh", "issue", "ended"}
    <3>1. answer[q] = "none" BY <2>3 DEF Local, Placed
    <3> QED BY <1>2, <2>3, <3>1 DEF Sole, SignedIn, Still
  <2> QED BY <2>2, <2>3
<1>3. CASE UNCHANGED vars
  BY <1>1, <1>2, <1>3 DEF vars, history, Still, Links
<1>4. ASSUME NEW e \in Emails, Deactivate(e) PROVE Links'
  BY <1>1, <1>2, <1>4 DEF Deactivate, history, Still, Links
<1>5. ASSUME NEW p \in Requests, Start(p) \/ Continue(p) \/ PoolTimeout(p) PROVE Links'
  <2>1. \A q \in Requests \ {p} : Sole(q)' BY <1>2, <1>5, OthersStill
  <2>2. CASE Start(p)
    <3>1. answer'[p] = "none" BY <2>2 DEF Start, Local, Placed
    <3>2. pc'[p] \notin {"link", "refresh", "issue"}
      BY <2>2 DEF Start, FirstStep, Operations, ShapeOK
    <3> QED BY <1>1, <2>1, <3>1, <3>2 DEF Links, Sole, SignedIn
  <2>3. CASE PoolTimeout(p)
    <3>1. pc'[p] = "ended" /\ answer'[p] \in {"refused", "error"}
      BY <2>3 DEF PoolTimeout, Fails, Ended, ErrorOf, ShapeOK
    <3> QED BY <1>1, <2>1, <3>1 DEF Links, Sole, SignedIn
  <2>4. CASE Continue(p) BY <1>1, <2>1, <2>4, SoleContinue DEF Links
  <2> QED BY <1>5, <2>2, <2>3, <2>4
<1> QED BY <1>3, <1>4, <1>5 DEF Next

-----------------------------------------------------------------------------
(* The theorems *)

(* Before the first request there is no account and nothing is claimed. *)
LEMMA InitIInv == Init => IInv
<1> SUFFICES ASSUME Init PROVE IInv
  OBVIOUS
<1>1. Rows = {} /\ InProgress = {} BY DEF Init, Rows, InProgress
<1>2. HeldOK
  BY FS_EmptySet, PoolAssumption DEF Init, HeldOK
<1>3. ShapeOK
  BY DEF Init, ShapeOK, NoRequest
<1>4. Local
  BY DEF Init, Local, Placed, Known, NoRequest
<1>5. Answers
  BY <1>1 DEF Init, Answers, Unique, Rooted, Truthful, Made, NoRequest
<1>6. Inactives
  BY DEF Init, Inactives, Refused
<1>7. Links
  BY <1>1 DEF Init, Links, Overlapping, Origins, Sole, SignedIn, NoRequest
<1> QED BY <1>2, <1>3, <1>4, <1>5, <1>6, <1>7 DEF IInv

(* Every step of every request keeps the inductive invariant. *)
LEMMA NextIInv == IInv /\ [Next]_vars => IInv'
<1> SUFFICES ASSUME IInv, [Next]_vars PROVE IInv'
  OBVIOUS
<1>1. HeldOK' BY HeldInductive DEF IInv
<1>2. ShapeOK' BY ShapeInductive DEF IInv
<1>3. Local' BY <1>2, LocalInductive DEF IInv
<1>4. Answers' BY <1>2, AnswersInductive DEF IInv
<1>5. Inactives' BY <1>2, InactivesInductive DEF IInv
<1>6. Links' BY <1>2, <1>3, LinksInductive DEF IInv
<1> QED BY <1>1, <1>2, <1>3, <1>4, <1>5, <1>6 DEF IInv

LEMMA SpecIInv == Spec => []IInv
BY InitIInv, NextIInv, PTL DEF Spec

(* Every variable keeps its shape, and however requests come and fail no    *)
(* more connections are held than the pool has (create_async_engine's       *)
(* pool_size and max_overflow, db/session.py).                              *)
THEOREM PoolRespected == Spec => []TypeOK
<1>1. IInv => TypeOK BY DEF IInv, HeldOK, ShapeOK, TypeOK
<1> QED BY <1>1, SpecIInv, PTL

(* What signup, login and the health check answer is true when it is given  *)
(* and stays so: no two signups of one e-mail are both told "created".      *)
THEOREM AnswersStayTrue == Spec => []AnswersTrue
<1>1. IInv => AnswersTrue
  <2> SUFFICES ASSUME IInv, NEW p \in Requests
      PROVE  /\ answer[p] = "created" =>
                  /\ users[req[p].email] # None /\ users[req[p].email].password
                  /\ \A q \in Requests \ {p} :
                       answer[q] = "created" => req[q].email # req[p].email
             /\ answer[p] = "conflict" =>
                  users[req[p].email] # None \/ req[p].email \in Unfit
             /\ answer[p] = "error" /\ req[p].op \in {"signup", "login", "health"} =>
                  \/ faults[p] # {}
                  \/ req[p].op = "login" /\ users[req[p].email].google # None
                                         /\ ~users[req[p].email].password
    BY DEF AnswersTrue
  <2>1. \A q \in Requests : Truthful(q) BY DEF IInv, Answers
  <2>2. \A q \in Requests : answer[q] = "created" => Made(q)
    BY <2>1 DEF Made, Truthful
  <2>3. \A q \in Requests \ {p} : Made(p) /\ Made(q) => req[q].email # req[p].email
    BY DEF IInv, Answers, Unique
  <2>4. Made(p) => users[req[p].email] # None /\ users[req[p].email].password
    BY <2>1 DEF Truthful, Rows
  <2> QED BY <2>1, <2>2, <2>3, <2>4 DEF Truthful, Rows
<1> QED BY <1>1, SpecIInv, PTL

(* Once is_active has been cleared, no sign-in that begins later ends with  *)
(* tokens, whichever way it reaches the user.                               *)
THEOREM InactiveStayOut == Spec => []InactiveRefused
<1>1. IInv => InactiveRefused BY DEF IInv, Inactives, Refused, InactiveRefused
<1> QED BY <1>1, SpecIInv, PTL

(* Two Google accounts get tokens of one user only when two sign-ins as     *)
(* that user overlapped (the check in login_or_create_user and the commit  *)
(* after it are not one step).                                              *)
THEOREM OneGoogleAccount == Spec => []SoleGoogle
<1>1. IInv => SoleGoogle
  <2> SUFFICES ASSUME IInv, NEW p \in Requests, NEW q \in Requests,
                      req[p].op = "google", req[q].op = "google",
                      answer[p] = "tokens", answer[q] = "tokens",
                      who[p] = who[q], req[p].google # req[q].google
               PROVE  Contested(who[p])
    BY DEF SoleGoogle
  <2>1. SignedIn(p) /\ SignedIn(q) BY DEF SignedIn
  <2>2. users[who[p]].google = req[p].google \/ Contested(who[p])
    BY <2>1 DEF IInv, Links, Sole
  <2>3. users[who[p]].google = req[q].google \/ Contested(who[p])
    BY <2>1 DEF IInv, Links, Sole
  <2> QED BY <2>2, <2>3
<1> QED BY <1>1, SpecIInv, PTL

(* No sequence of sign-ups, sign-ins and deactivations takes a password, a  *)
(* link or a verification back, or reactivates a user.                      *)
THEOREM AccountsStay == Spec => AccountsKept
<1>1. IInv /\ IInv' /\ [Next]_vars =>
        [\A e \in Rows :
           /\ users'[e] # None
           /\ users'[e].password = users[e].password
           /\ users[e].google # None => users'[e].google # None
           /\ users[e].verified => users'[e].verified
           /\ ~users[e].active => ~users'[e].active]_vars
  BY NextKeeps DEF IInv, Keeps
<1> QED BY <1>1, SpecIInv, PTL DEF Spec, AccountsKept

-----------------------------------------------------------------------------
(* Progress: how many places a request has at most before it. *)
Ahead(s) ==
  CASE s = "idle" -> 7 [] s = "exchange" -> 6 [] s = "bySub" -> 5
    [] s \in {"byEmail", "select"} -> 4 [] s \in {"insert", "link", "query"} -> 3
    [] s \in {"refresh", "wait"} -> 2 [] s \in {"issue", "save", "ping"} -> 1
    [] s = "ended" -> 0

Places == NeedsDatabase \cup {"idle", "exchange", "wait", "ended"}

(* p goes on, holds no connection at its end, and takes nobody else's.      *)
Advances(p) ==
  \E to \in Places \ {"idle"} :
    /\ pc' = [pc EXCEPT ![p] = to] /\ Ahead(to) < Ahead(pc[p])
    /\ held' \subseteq held \cup {p} /\ (to = "ended" => p \notin held')

LEMMA EndAdvances ==
  ASSUME ShapeOK, NEW p \in Requests, pc[p] \notin {"idle", "ended"}, NEW outcome,
         Ended(p, outcome)
  PROVE  Advances(p)
<1>1. pc[p] \in Places BY DEF ShapeOK, Places
<1>2. Ahead("ended") < Ahead(pc[p]) BY <1>1 DEF Ahead, Places, NeedsDatabase
<1>3. pc' = [pc EXCEPT ![p] = "ended"] /\ held' = held \ {p} BY DEF Ended
<1>4. "ended" \in Places \ {"idle"} BY DEF Places
<1> QED BY <1>2, <1>3, <1>4 DEF Advances

LEMMA ContinueAdvances ==
  ASSUME ShapeOK, NEW p \in Requests, Continue(p) \/ PoolTimeout(p)
  PROVE  Advances(p)
<1>1. ASSUME pc[p] \notin {"idle", "ended"}, NEW outcome, End(p, outcome) PROVE Advances(p)
  BY <1>1, EndAdvances DEF End
<1>2. ASSUME pc[p] \notin {"idle", "ended"}, NEW event, Fails(p, event) PROVE Advances(p)
  BY <1>2, EndAdvances DEF Fails
<1>3. ASSUME pc[p] \notin {"idle", "ended"}, DatabaseFails(p) PROVE Advances(p)
  BY <1>2, <1>3 DEF DatabaseFails
<1>4. ASSUME NEW to \in Places \ {"idle", "ended"}, Goto(p, to), Ahead(to) < Ahead(pc[p]),
             Keep(p) \/ Commit(p) \/ UNCHANGED held
      PROVE  Advances(p)
  BY <1>4 DEF Advances, Goto, Keep, Commit
<1> USE DEF Ahead, Places, NeedsDatabase
<1>5. ASSUME NEW e, NEW row, InsertUser(p, e, row), pc[p] = "insert" PROVE Advances(p)
  BY <1>1, <1>3, <1>4, <1>5 DEF InsertUser
<1>6. CASE Signup(p) BY <1>1, <1>3, <1>4, <1>6 DEF Signup
<1>7. CASE SignupInsert(p) \/ GoogleInsert(p) BY <1>5, <1>7 DEF SignupInsert, GoogleInsert
<1>8. CASE Login(p) BY <1>1, <1>3, <1>4, <1>8 DEF Login
<1>9. CASE Refresh(p) BY <1>1, <1>3, <1>4, <1>9 DEF Refresh
<1>10. CASE Issue(p) BY <1>1, <1>3, <1>10 DEF Issue
<1>11. CASE Exchange(p) BY <1>1, <1>4, <1>11 DEF Exchange
<1>12. CASE SelectBySub(p) BY <1>3, <1>4, <1>12 DEF SelectBySub
<1>13. CASE SelectByEmail(p)
  BY <1>3, <1>4, <1>13 DEF SelectByEmail
<1>14. CASE Link(p) BY <1>1, <1>3, <1>4, <1>14 DEF Link
<1>15. CASE TurnQuery(p) \/ TurnWait(p) \/ TurnSave(p)
  BY <1>1, <1>3, <1>4, <1>15 DEF TurnQuery, TurnWait, TurnSave
<1>16. CASE Ping(p) BY <1>1, <1>3, <1>16 DEF Ping
<1>17. CASE PoolTimeout(p) BY <1>2, <1>17 DEF PoolTimeout
<1> QED BY <1>6, <1>7, <1>8, <1>9, <1>10, <1>11, <1>12, <1>13, <1>14, <1>15, <1>16, <1>17
        DEF Continue

LEMMA StartAdvances ==
  ASSUME ShapeOK, NEW p \in Requests, Start(p)
  PROVE  Advances(p)
<1>1. pc[p] = "idle" /\ UNCHANGED held BY DEF Start
<1>2. PICK op \in Operations : pc' = [pc EXCEPT ![p] = FirstStep[op]] BY DEF Start
<1>3. PICK to \in {"select", "exchange", "query", "ping"} : FirstStep[op] = to
  BY DEF FirstStep, Operations
<1>4. to \in Places \ {"idle", "ended"} BY <1>3 DEF Places, NeedsDatabase
<1>5. Ahead(to) < Ahead("idle") BY <1>3 DEF Ahead
<1> QED BY <1>1, <1>2, <1>3, <1>4, <1>5 DEF Advances

(* A connection is held by requests in progress only. *)
HeldInProgress == held \subseteq InProgress

LEMMA HeldInProgressStep == ShapeOK /\ HeldInProgress /\ [Next]_vars => HeldInProgress'
<1> SUFFICES ASSUME ShapeOK, HeldInProgress, [Next]_vars PROVE HeldInProgress'
  OBVIOUS
<1>1. ASSUME NEW p \in Requests, Advances(p) PROVE HeldInProgress'
  BY <1>1 DEF Advances, HeldInProgress, InProgress, ShapeOK, Places
<1>2. ASSUME NEW p \in Requests, Start(p) PROVE HeldInProgress'
  BY <1>1, <1>2, StartAdvances
<1>3. ASSUME UNCHANGED <<pc, held>> PROVE HeldInProgress'
  BY <1>3 DEF HeldInProgress, InProgress
<1>4. (\E e \in Emails : Deactivate(e)) \/ UNCHANGED vars => UNCHANGED <<pc, held>>
  BY DEF Deactivate, vars
<1> QED BY <1>1, <1>2, <1>3, <1>4, ContinueAdvances DEF Next

LEMMA HeldInProgressAlways == Spec => [](HeldOK /\ ShapeOK /\ HeldInProgress)
<1>1. Init => HeldInProgress BY DEF Init, HeldInProgress
<1>2. IInv => HeldOK /\ ShapeOK BY DEF IInv
<1> QED BY <1>1, <1>2, HeldInProgressStep, SpecIInv, PTL DEF Spec

(* The pool cannot be exhausted by requests that all wait for it, of        *)
(* whatever size it is: connections are held by requests in progress only,  *)
(* and a holder needs no second one, so some request in progress has a      *)
(* connection for its next step or can get one.                             *)
THEOREM PoolFlows == Spec => [](InProgress # {} => \E p \in InProgress : Connected(p))
<1>1. ASSUME HeldOK, HeldInProgress, InProgress # {}
      PROVE  \E p \in InProgress : Connected(p)
  <2>1. CASE held = {}
    <3>1. Cardinality(held) = 0 BY <2>1, FS_EmptySet
    <3> QED BY <1>1, <3>1, PoolAssumption DEF Connected
  <2>2. CASE held # {} BY <1>1, <2>2 DEF HeldInProgress, Connected
  <2> QED BY <2>1, <2>2
<1>2. HeldOK /\ HeldInProgress => (InProgress # {} => \E p \in InProgress : Connected(p))
  BY <1>1
<1> QED BY <1>2, HeldInProgressAlways, PTL

(* No request goes back, whatever the others do: every step of its own,     *)
(* also its timing out, takes it to a later one of at most seven places, so *)
(* with the pool flowing each of any finite number of requests is answered. *)
THEOREM RequestsAdvance ==
  Spec => [][\A p \in Requests :
               /\ Continue(p) \/ PoolTimeout(p) => Ahead(pc[p]') < Ahead(pc[p])
               /\ pc[p]' = pc[p] \/ Ahead(pc[p]') < Ahead(pc[p])]_vars
<1> DEFINE Step == \A p \in Requests :
                     /\ Continue(p) \/ PoolTimeout(p) => Ahead(pc[p]') < Ahead(pc[p])
                     /\ pc[p]' = pc[p] \/ Ahead(pc[p]') < Ahead(pc[p])
<1>1. ASSUME ShapeOK, [Next]_vars PROVE Step \/ UNCHANGED vars
  <2>1. ASSUME NEW p \in Requests, Advances(p)
        PROVE  Ahead(pc[p]') < Ahead(pc[p]) /\ \A q \in Requests \ {p} : pc[q]' = pc[q]
    BY <1>1, <2>1 DEF Advances, ShapeOK
  <2>2. \A p \in Requests : Continue(p) \/ PoolTimeout(p) => Ahead(pc[p]') < Ahead(pc[p])
    BY <1>1, <2>1, ContinueAdvances
  <2>3. ASSUME NEW p \in Requests, Start(p) \/ Continue(p) \/ PoolTimeout(p) PROVE Step
    <3>1. Advances(p) BY <1>1, <2>3, StartAdvances, ContinueAdvances
    <3> QED BY <2>1, <2>2, <3>1
  <2>4. CASE \E e \in Emails : Deactivate(e)
    <3>1. UNCHANGED pc BY <2>4 DEF Deactivate
    <3> QED BY <2>2, <3>1
  <2> QED BY <1>1, <2>3, <2>4 DEF Next
<1>2. ShapeOK /\ [Next]_vars => [Step]_vars BY <1>1
<1> QED BY <1>2, HeldInProgressAlways, PTL DEF Spec

=============================================================================
