------------------------------ MODULE Migrations ------------------------------
(***************************************************************************)
(* The schema revisions in src/alembic/versions and the commands that      *)
(* apply and undo them (src/Makefile, src/alembic/env.py).  A command runs *)
(* its revisions in one transaction of PostgreSQL, whose DDL is            *)
(* transactional: one that fails leaves nothing.  The revisions are kept   *)
(* to what they do to rows that exist: sessions change from a row each to  *)
(* a list per user, users get a Google account and may do without a        *)
(* password, and the times of chats become timezone-aware, by either of    *)
(* two revisions that both follow 92d4c8a1e5bf.                            *)
(***************************************************************************)
EXTENDS Integers, FiniteSets, SequencesExt

CONSTANTS
  Users,     \* users
  Sessions,  \* session ids
  Offset     \* hours by which the server's TimeZone is ahead of UTC

ASSUME OffsetAssumption == Offset \in Int

Initial == "3bd016ede9f5"
Rows == "7a3c2f4b9d11"
Lists == "92d4c8a1e5bf"
Times == "b58c4f7d2e91"
Google == "236ccb85b029"
TimesToo == "c1a2e7b4d9f0"

(* down_revision of each, and an order that respects it. *)
Follows == [r \in {Rows, Lists, Times, Google, TimesToo} |->
              CASE r = Rows -> Initial [] r = Lists -> Rows [] r = Times -> Lists
                [] r = Google -> Times [] r = TimesToo -> Lists]

Order == <<Initial, Rows, Lists, Times, Google, TimesToo>>
Revisions == ToSet(Order)

(* Mutant: any revision can be undone. *)
HeadsAny(set) == set

(* The revisions of a set that none in the set follows. *)
Heads(set) == {r \in set : \A s \in set \cap DOMAIN Follows : Follows[s] # r}

VARIABLES
  applied,  \* the revisions the database has (alembic_version, closed downwards)
  db,       \* its content
  both,     \* both revisions of the chat times have been applied at once (history)
  ran       \* the last command and its outcome (history)

vars == <<applied, db, both, ran>>

Session == [id : Sessions, user : Users, refresh : BOOLEAN]

(* table: the layout of user_auth_sessions; refresh: whether a session has  *)
(* its refresh token; accounts: how each user signs in; aware: the type of  *)
(* the chat columns; times: by how many hours the times of chats are off.   *)
Database == [table : {"absent", "rows", "lists"}, sessions : SUBSET Session,
             accounts : [Users -> {"none", "password", "linked", "google"}],
             aware : BOOLEAN, times : SUBSET {-Offset, 0, Offset}]

Empty == [table |-> "absent", sessions |-> {}, accounts |-> [u \in Users |-> "none"],
          aware |-> FALSE, times |-> {}]

(* An empty database, or one that an earlier version of the program has     *)
(* filled: users with passwords, a session a row, chats with naive times.   *)
Init ==
  /\ \/ applied = {} /\ db = Empty
     \/ /\ applied = {Initial, Rows}
        /\ \E sessions \in SUBSET [id : Sessions, user : Users, refresh : {FALSE}] :
             /\ \A s, t \in sessions : s.id = t.id => s = t
             /\ db = [Empty EXCEPT !.table = "rows", !.sessions = sessions, !.times = {0},
                                   !.accounts = [u \in Users |-> "password"]]
  /\ both = FALSE
  /\ ran = <<"none", "done">>

-----------------------------------------------------------------------------
(* The revisions *)

Shifted(d, hours) == {t + hours : t \in d.times}

(* Mutant: the columns are cast without a time zone. *)
CastTimes(d) == [d EXCEPT !.aware = TRUE, !.times = Shifted(d, -Offset)]

(* USING c AT TIME ZONE 'UTC': a naive time is read as UTC.  If the column  *)
(* is aware already the expression yields a naive time, which is cast back  *)
(* in the time zone of the server.                                          *)
MakeAware(d) ==
  [d EXCEPT !.aware = TRUE,
            !.times = IF d.aware THEN Shifted(d, -Offset) ELSE @]

(* The reverse, and likewise when the column is naive already. *)
MakeNaive(d) ==
  [d EXCEPT !.aware = FALSE,
            !.times = IF d.aware THEN @ ELSE Shifted(d, Offset)]

(* Mutant: a list per user of its latest session only. *)
ListLatest(d) ==
  [d EXCEPT !.table = "lists",
            !.sessions = {CHOOSE s \in @ : s.user = u : u \in {t.user : t \in @}}]

(* INSERT ... SELECT jsonb_agg(...) GROUP BY user: the entries have no      *)
(* refresh token.                                                           *)
ListSessions(d) == [d EXCEPT !.table = "lists"]

(* Undoing it creates the old table under another name and then renames its *)
(* keys, checks and indexes, the longest of which have these many           *)
(* characters.  PostgreSQL cuts an identifier in a statement at             *)
(* MaxIdentifier characters; SQLAlchemy creates a longer name as 55         *)
(* characters, "_" and 4 digits of a hash, so that the statement that       *)
(* renames it does not find it.                                             *)
RenamedLengths == {62, 63, 64, 65, 66}
MaxIdentifier == 63

CanUndoLists == \A n \in RenamedLengths : n <= MaxIdentifier

(* password_hash becomes NOT NULL again, which fails with users that have   *)
(* none; the links are dropped with their column.                           *)
CanDropGoogle(d) == \A u \in Users : d.accounts[u] # "google"

DropGoogle(d) ==
  [d EXCEPT !.accounts = [u \in Users |-> IF @[u] = "linked" THEN "password" ELSE @[u]]]

Upgraded(d, r) ==
  CASE r = Initial -> Empty
    [] r = Rows -> [d EXCEPT !.table = "rows"]
    [] r = Lists -> ListSessions(d)
    [] r \in {Times, TimesToo} -> MakeAware(d)
    [] r = Google -> d

CanUndo(d, r) ==
  /\ r = Google => CanDropGoogle(d)
  /\ r = Lists => CanUndoLists

(* Of the revisions that can be undone. *)
Downgraded(d, r) ==
  CASE r = Initial -> Empty
    [] r = Rows -> [d EXCEPT !.table = "absent", !.sessions = {}]
    [] r \in {Times, TimesToo} -> MakeNaive(d)
    [] r = Google -> DropGoogle(d)

-----------------------------------------------------------------------------
(* The commands *)

(* A revision with those it follows. *)
Needed[r \in Revisions] ==
  {r} \cup (IF r \in DOMAIN Follows THEN Needed[Follows[r]] ELSE {})

Refused(command) == ran' = <<command, "refused">> /\ UNCHANGED <<applied, db, both>>

Moved(command, revisions) ==
  /\ applied' = revisions
  /\ both' = (both \/ {Times, TimesToo} \subseteq revisions)
  /\ ran' = <<command, "done">>

(* The revisions of a set, one after the other in their order. *)
UpgradedBy(d, revisions) ==
  LET after[n \in 0..Len(Order)] ==
        IF n = 0 THEN d
        ELSE IF Order[n] \in revisions THEN Upgraded(after[n - 1], Order[n])
                                       ELSE after[n - 1]
  IN  after[Len(Order)]

ApplyAll(command, revisions) ==
  /\ db' = UpgradedBy(db, revisions \ applied)
  /\ Moved(command, applied \cup revisions)

(* make migrate-up, and every deployment: alembic upgrade head, which wants *)
(* the revisions to have one head.                                          *)
MigrateUp ==
  IF Cardinality(Heads(Revisions)) = 1
  THEN ApplyAll("migrate-up", Revisions)
  ELSE Refused("migrate-up")

(* alembic upgrade with a revision or with "heads". *)
UpgradeTo(r) == r \notin applied /\ ApplyAll("upgrade", Needed[r])
UpgradeHeads == applied # Revisions /\ ApplyAll("upgrade", Revisions)

(* make migrate-down: alembic downgrade -1; of several heads Alembic takes  *)
(* one, with a warning.  A revision that fails is rolled back whole.        *)
MigrateDown ==
  \E r \in Heads(applied) :
    \/ /\ CanUndo(db, r)
       /\ db' = Downgraded(db, r)
       /\ Moved("migrate-down", applied \ {r})
    \/ ~CanUndo(db, r) /\ Refused("migrate-down")

-----------------------------------------------------------------------------
(* The program, which selects the columns of 236ccb85b029 with every user   *)
(* and cannot run without it.                                               *)

Running == Google \in applied

Writes(d) == db' = d /\ ran' = <<"none", "done">> /\ UNCHANGED <<applied, both>>

SignIn(u, s) ==
  /\ Running
  /\ db.accounts[u] # "none"
  /\ \A t \in db.sessions : t.id # s
  /\ Writes([db EXCEPT !.sessions = @ \cup {[id |-> s, user |-> u, refresh |-> TRUE]}])

NewAccount(u) ==
  /\ Running
  /\ \/ db.accounts[u] = "none" /\ Writes([db EXCEPT !.accounts[u] = "password"])
     \/ db.accounts[u] = "none" /\ Writes([db EXCEPT !.accounts[u] = "google"])
     \/ db.accounts[u] = "password" /\ Writes([db EXCEPT !.accounts[u] = "linked"])

(* asyncpg does not put an aware time into a naive column. *)
NewChat ==
  /\ Running
  /\ db.aware
  /\ Writes([db EXCEPT !.times = @ \cup {0}])

Next ==
  \/ MigrateUp \/ UpgradeHeads \/ MigrateDown
  \/ \E r \in Revisions : UpgradeTo(r)
  \/ \E u \in Users : NewAccount(u) \/ \E s \in Sessions : SignIn(u, s)
  \/ NewChat

Spec == Init /\ [][Next]_vars

-----------------------------------------------------------------------------
(* Properties *)

(* Every variable keeps its shape; the revisions applied include what they  *)
(* follow.                                                                  *)
TypeOK ==
  /\ applied \in SUBSET Revisions
  /\ \A r \in applied \cap DOMAIN Follows : Follows[r] \in applied
  /\ db \in Database
  /\ both \in BOOLEAN
  /\ ran \in {"none", "migrate-up", "upgrade", "migrate-down"} \X {"done", "refused"}

CanSignIn(u) ==
  db.accounts[u] \in {"password", "linked"}
    \/ (db.accounts[u] = "google" /\ Google \in applied)

(* Whichever way revisions are applied and undone, nobody who has signed in *)
(* with the program as it is is ever signed out: a session with a refresh   *)
(* token is never dropped, changed or given to another user, since the      *)
(* revision that would drop its token cannot be undone and keeps those      *)
(* before it.  Sessions of the earlier version are kept as long as their    *)
(* table is, and whoever can sign in still can as long as users are.        *)
AccessKept ==
  [][/\ \A s \in db.sessions :
          s.refresh \/ Rows \in applied \cap applied' => s \in db'.sessions
     /\ Initial \in applied /\ Initial \in applied' =>
          \A u \in Users : CanSignIn(u) => CanSignIn(u)']_vars

(* The times of chats stay what they were, and their columns are aware when *)
(* either revision says so, as long as the two revisions have never been    *)
(* applied together: applied together they move the times by the offset of  *)
(* the server's time zone, and undoing one of them undoes the other's type. *)
TimesKept ==
  ~both \/ Offset = 0 =>
    /\ db.times \subseteq {0}
    /\ ~both => (db.aware <=> applied \cap {Times, TimesToo} # {})

(* "Apply the initial schema before running the app against a fresh         *)
(* database: make migrate-up": the command brings the schema up to date.    *)
MigrateUpReachesHead == ran[1] = "migrate-up" => applied = Revisions

=============================================================================
