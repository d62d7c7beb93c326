---------------------------- MODULE AuthSessions ----------------------------
(***************************************************************************)
(* The device sessions of the backend: src/app/services/                   *)
(* auth_session_service.py and the requests that drive it (login, refresh, *)
(* every authenticated request, logout, listing, the purge at startup).    *)
(*                                                                         *)
(* A user's sessions live in ONE database row that holds a JSON list, read *)
(* whole, changed in memory and written back whole, with neither a lock    *)
(* nor a version.  Two Redis caches, keyed by the id (jti) of an access or *)
(* of a refresh token, hold copies.  Every await of the code is a point    *)
(* where another request may run, so each action below is what one request *)
(* does from one await to the next.                                        *)
(***************************************************************************)
EXTENDS Naturals, FiniteSets

CONSTANTS
  Users,      \* user accounts, all active
  Sessions,   \* ids uuid4() may give to sessions
  Pairs,      \* ids of an access/refresh token pair (the two jti's minted together)
  Procs,      \* requests the workers can serve at the same time
  Ops,        \* the requests clients make, a subset of Operations
  Env,        \* what the environment may do, a subset of Events
  NoToken     \* absence of a token

Operations == {"login", "call", "list", "logout", "refresh", "startup"}

(* expire: time passes a token's lifetime; evict: Redis drops a key (its    *)
(* TTL, or the LRU policy); redis: a Redis command fails; database: a       *)
(* commit is refused; unsureCommit: a commit takes effect but its answer is *)
(* lost; crash: the worker stops a request.                                 *)
Events == {"expire", "evict", "redis", "database", "unsureCommit", "crash"}

ASSUME OpsAssumption == Ops \subseteq Operations
ASSUME EnvAssumption == Env \subseteq Events

(* A signed token pair.  The claims of both tokens name the session and the *)
(* user, and their hashes are what a stored entry holds, so that an entry   *)
(* of a row, a cached value and a token a client presents are the same      *)
(* record exactly when every comparison of the code succeeds.               *)
Token == [pair : Pairs, sid : Sessions, user : Users]

Key == [cache : {"access", "refresh"}, pair : Pairs]

ASSUME NoTokenAssumption == NoToken \notin Token /\ NoToken \notin Users

KeysOf(t) == {[cache |-> "access", pair |-> t.pair],
              [cache |-> "refresh", pair |-> t.pair]}

VARIABLES
  rows,          \* rows[u]: the entries of active_sessions in u's row
  present,       \* the users that have a row
  accessCache,   \* Redis, namespace auth:access
  refreshCache,  \* Redis, namespace auth:refresh
  issued,        \* tokens signed so far
  held,          \* tokens a response has given to a client
  life,          \* life[k]: "fresh", access token expired ("stale"), both ("dead")
  loggedOut,     \* sessions whose logout was answered with success
  pc,            \* where each request is
  req,           \* its operation, user and presented token
  new,           \* the token it has minted
  work,          \* the unit of work of its database session
  drops          \* the cache keys it still has to delete

stores == <<rows, present>>
caches == <<accessCache, refreshCache>>
clients == <<issued, held, life, loggedOut>>
vars == <<rows, present, accessCache, refreshCache, issued, held, life,
          loggedOut, pc, req, new, work, drops>>

Steps == {"idle", "purge", "purgeDrop", "purgeCommit", "loginLoad",
          "loginCommit", "reload", "cacheAccess", "cacheRefresh",
          "validateLoad", "validateFill", "touchLoad", "touchCommit",
          "deleteLoad", "deleteCommit", "logoutDrop", "rejectDrop",
          "rotateLoad", "revokeLoad", "rotateCommit", "rotateDrop"}

DropSteps == {"purgeDrop", "logoutDrop", "rejectDrop", "rotateDrop"}

(* The rows a database session will write when it commits: the list each    *)
(* dirty user's row gets (an empty list stands for the deletion of the row),*)
(* and whether the row is inserted rather than updated.                     *)
Work == [dirty : SUBSET Users, list : [Users -> SUBSET Token], insert : BOOLEAN]

Writing(us, lists, ins) ==
  [dirty |-> us, list |-> [u \in Users |-> IF u \in us THEN lists[u] ELSE {}],
   insert |-> ins]

WritingOne(u, list) == Writing({u}, [v \in {u} |-> list], FALSE)

NoWork == Writing({}, [v \in {} |-> {}], FALSE)

NoReq == [op |-> "none", who |-> NoToken, tok |-> NoToken]

Init ==
  /\ rows = [u \in Users |-> {}]
  /\ present = {}
  /\ accessCache = {}
  /\ refreshCache = {}
  /\ issued = {}
  /\ held = {}
  /\ life = [k \in Pairs |-> "fresh"]
  /\ loggedOut = {}
  /\ pc = [p \in Procs |-> "idle"]
  /\ req = [p \in Procs |-> NoReq]
  /\ new = [p \in Procs |-> NoToken]
  /\ work = [p \in Procs |-> NoWork]
  /\ drops = [p \in Procs |-> {}]

-----------------------------------------------------------------------------
(* Building blocks *)

EntriesOf(list, s) == {e \in list : e.sid = s}

Fresh(t) == life[t.pair] = "fresh"
Dead(t) == life[t.pair] = "dead"

(* Mutant: the ids of a new pair may repeat those of an earlier one. *)
SignRepeating(u, s) == {t \in Token : t.user = u /\ t.sid = s}

SignFor(u, s) ==
  {t \in Token : /\ t.user = u
                 /\ t.sid = s
                 /\ \A i \in issued : i.pair # t.pair}

UnusedSessions == {s \in Sessions : \A i \in issued : i.sid # s}

UnusedPairs == {k \in Pairs : \A i \in issued : i.pair # k}

(* uuid4() never runs out of ids and the bounded instance does: BOUND, a    *)
(* request that will mint starts only while there is an id for it and for   *)
(* every request that has still to mint.                                    *)
Minting(ops) == {p \in Procs : req[p].op \in ops /\ new[p] = NoToken}

SessionIdLeft == Cardinality(Minting({"login"})) < Cardinality(UnusedSessions)
PairIdLeft == Cardinality(Minting({"login", "refresh"})) < Cardinality(UnusedPairs)

Goto(p, step) == pc' = [pc EXCEPT ![p] = step]

(* The response is sent and the request's locals are gone. *)
Finish(p) ==
  /\ Goto(p, "idle")
  /\ req' = [req EXCEPT ![p] = NoReq]
  /\ new' = [new EXCEPT ![p] = NoToken]
  /\ work' = [work EXCEPT ![p] = NoWork]
  /\ drops' = [drops EXCEPT ![p] = {}]

(* AsyncSession.commit(): the unit of work is flushed and committed.  An     *)
(* INSERT fails when the row exists by then (IntegrityError), an UPDATE when *)
(* the row is gone (StaleDataError); a DELETE of a row that is gone is only  *)
(* warned about.  All the writes are applied or none.                        *)
CanFlush(w) ==
  IF w.insert THEN w.dirty \cap present = {}
              ELSE \A u \in w.dirty : w.list[u] # {} => u \in present

Flush(w) ==
  /\ rows' = [u \in Users |-> IF u \in w.dirty THEN w.list[u] ELSE rows[u]]
  /\ present' = (present \cup w.dirty) \ {u \in w.dirty : w.list[u] = {}}

CommitSucceeds(w) == CanFlush(w) /\ Flush(w)

CommitFails(w) ==
  \/ (CanFlush(w) => "database" \in Env) /\ UNCHANGED stores
  \/ "unsureCommit" \in Env /\ CommitSucceeds(w)

(* Redis commands: an error is logged and swallowed. *)
CacheSet(cache, t) == {c \in cache : c.pair # t.pair} \cup {t}

SetAccess(t) ==
  /\ \/ accessCache' = CacheSet(accessCache, t)
     \/ "redis" \in Env /\ UNCHANGED accessCache
  /\ UNCHANGED refreshCache

SetRefresh(t) ==
  /\ \/ refreshCache' = CacheSet(refreshCache, t)
     \/ "redis" \in Env /\ UNCHANGED refreshCache
  /\ UNCHANGED accessCache

Delete(key) ==
  \/ /\ accessCache' = IF key.cache = "access"
                       THEN {c \in accessCache : c.pair # key.pair} ELSE accessCache
     /\ refreshCache' = IF key.cache = "refresh"
                        THEN {c \in refreshCache : c.pair # key.pair} ELSE refreshCache
  \/ "redis" \in Env /\ UNCHANGED caches

-----------------------------------------------------------------------------
(* purge_expired_sessions: run by issue_token_pair, list_user_sessions and  *)
(* the lifespan of the application.                                         *)

Expired(list) == {e \in list : Dead(e)}

(* Where a request goes once its purge has committed.  Listing only reads    *)
(* the row after it.                                                        *)
AfterPurge(p) ==
  IF req[p].op = "login"
  THEN /\ Goto(p, "loginLoad")
       /\ work' = [work EXCEPT ![p] = NoWork]
       /\ drops' = [drops EXCEPT ![p] = {}]
       /\ UNCHANGED <<req, new>>
  ELSE Finish(p)

StartPurge(p) ==
  /\ "startup" \in Ops
  /\ pc[p] = "idle"
  /\ Goto(p, "purge")
  /\ req' = [req EXCEPT ![p] = [op |-> "startup", who |-> NoToken, tok |-> NoToken]]
  /\ UNCHANGED <<stores, caches, clients, new, work, drops>>

(* All the rows are read; those with an expired entry become dirty. *)
PurgeLoad(p) ==
  LET stale == {u \in Users : Expired(rows[u]) # {}}
  IN  /\ pc[p] = "purge"
      /\ stale # {}
      /\ Goto(p, "purgeDrop")
      /\ work' = [work EXCEPT ![p] =
                    Writing(stale, [u \in stale |-> rows[u] \ Expired(rows[u])], FALSE)]
      /\ drops' = [drops EXCEPT ![p] =
                    UNION {KeysOf(e) : e \in UNION {Expired(rows[u]) : u \in stale}}]
      /\ UNCHANGED <<stores, caches, clients, req, new>>

PurgeNothing(p) ==
  /\ pc[p] = "purge"
  /\ \A u \in Users : Expired(rows[u]) = {}
  /\ AfterPurge(p)
  /\ UNCHANGED <<stores, caches, clients>>

(* A failed purge returns 0, but its rollback expires every object of the   *)
(* database session: reading user.id afterwards raises (a lazy load outside *)
(* an await), and the login or the listing that called it fails.            *)
PurgeFails(p) ==
  /\ pc[p] = "purge"
  /\ "database" \in Env
  /\ Finish(p)
  /\ UNCHANGED <<stores, caches, clients>>

(* Mutant: a purge whose commit fails is tried again. *)
PurgeCommitRetried(p) ==
  /\ pc[p] = "purgeCommit"
  /\ \/ CommitSucceeds(work[p]) /\ AfterPurge(p)
     \/ CommitFails(work[p]) /\ Goto(p, "purge") /\ UNCHANGED <<req, new, work, drops>>
  /\ UNCHANGED <<caches, clients>>

PurgeCommit(p) ==
  /\ pc[p] = "purgeCommit"
  /\ \/ CommitSucceeds(work[p]) /\ AfterPurge(p)
     \/ CommitFails(work[p]) /\ Finish(p)
  /\ UNCHANGED <<caches, clients>>

-----------------------------------------------------------------------------
(* issue_token_pair: reached from a password or a Google login. *)

StartLogin(p, u) ==
  /\ "login" \in Ops
  /\ SessionIdLeft /\ PairIdLeft
  /\ pc[p] = "idle"
  /\ Goto(p, "purge")
  /\ req' = [req EXCEPT ![p] = [op |-> "login", who |-> u, tok |-> NoToken]]
  /\ UNCHANGED <<stores, caches, clients, new, work, drops>>

(* _get_or_create_user_session_row and _create_session_entry.  The flush of  *)
(* the new row is part of the commit: until then no other request sees the   *)
(* row, and of two inserts of one row the first to commit wins.              *)
LoginLoad(p) ==
  /\ pc[p] = "loginLoad"
  /\ \E s \in UnusedSessions : \E t \in SignFor(req[p].who, s) :
       /\ issued' = issued \cup {t}
       /\ new' = [new EXCEPT ![p] = t]
       /\ work' = [work EXCEPT ![p] =
                     Writing({t.user}, [u \in {t.user} |-> rows[u] \cup {t}],
                             t.user \notin present)]
  /\ Goto(p, "loginCommit")
  /\ UNCHANGED <<stores, caches, held, life, loggedOut, req, drops>>

LoginCommit(p) ==
  /\ pc[p] = "loginCommit"
  /\ \/ /\ CommitSucceeds(work[p])
        /\ Goto(p, "reload")
        /\ work' = [work EXCEPT ![p] = NoWork]
        /\ UNCHANGED <<req, new, drops>>
     \/ CommitFails(work[p]) /\ Finish(p)
  /\ UNCHANGED <<caches, clients>>

(* session.refresh(session_row), after the commit of a login or a rotation: *)
(* it fails when the row is gone by then.                                   *)
Reload(p) ==
  /\ pc[p] = "reload"
  /\ IF req[p].who \in present
     THEN /\ Goto(p, IF req[p].op = "login" THEN "cacheAccess" ELSE "rotateDrop")
          /\ UNCHANGED <<req, new, work, drops>>
     ELSE Finish(p)
  /\ UNCHANGED <<stores, caches, clients>>

CacheAccess(p) ==
  /\ pc[p] = "cacheAccess"
  /\ SetAccess(new[p])
  /\ Goto(p, "cacheRefresh")
  /\ UNCHANGED <<stores, clients, req, new, work, drops>>

(* The last await of a login or a rotation: the response carries the pair. *)
CacheRefresh(p) ==
  /\ pc[p] = "cacheRefresh"
  /\ SetRefresh(new[p])
  /\ held' = held \cup {new[p]}
  /\ Finish(p)
  /\ UNCHANGED <<stores, issued, life, loggedOut>>

-----------------------------------------------------------------------------
(* get_current_auth_context: the bearer token of every protected endpoint.  *)
(* Decoding the JWT is local; it is one action with the Redis read that     *)
(* follows it.                                                              *)

Endpoints == {"call", "list", "logout"}

Presents(p, t, op) ==
  /\ op \in Ops \cap Endpoints
  /\ pc[p] = "idle"
  /\ t \in held
  /\ Fresh(t)

CachedFor(t) == {c \in accessCache : c.pair = t.pair}

(* A cached session is accepted without the database; one that disagrees    *)
(* with the token is deleted and refused.                                   *)
ValidateHit(p, t, op) ==
  /\ Presents(p, t, op)
  /\ CachedFor(t) # {}
  /\ IF t \in accessCache
     THEN Goto(p, "touchLoad") /\ UNCHANGED drops
     ELSE Goto(p, "rejectDrop") /\ drops' = [drops EXCEPT ![p] =
                                               {[cache |-> "access", pair |-> t.pair]}]
  /\ req' = [req EXCEPT ![p] = [op |-> op, who |-> t.user, tok |-> t]]
  /\ UNCHANGED <<stores, caches, clients, new, work>>

ValidateMiss(p, t, op) ==
  /\ Presents(p, t, op)
  /\ CachedFor(t) = {} \/ "redis" \in Env
  /\ Goto(p, "validateLoad")
  /\ req' = [req EXCEPT ![p] = [op |-> op, who |-> t.user, tok |-> t]]
  /\ UNCHANGED <<stores, caches, clients, new, work, drops>>

(* Mutant: the row is read and its entry not compared with the token. *)
ValidateLoadAny(p) ==
  /\ pc[p] = "validateLoad"
  /\ Goto(p, "validateFill")
  /\ UNCHANGED <<stores, caches, clients, req, new, work, drops>>

(* The database fallback: the entry must be there and its access token not  *)
(* have expired meanwhile.                                                  *)
ValidateLoad(p) ==
  LET t == req[p].tok
  IN  /\ pc[p] = "validateLoad"
      /\ \/ /\ t \in rows[t.user] /\ Fresh(t)
            /\ Goto(p, "validateFill")
            /\ UNCHANGED <<req, new, work, drops>>
         \/ /\ t \in rows[t.user] /\ ~Fresh(t)
            /\ Goto(p, "rejectDrop")
            /\ drops' = [drops EXCEPT ![p] = {[cache |-> "access", pair |-> t.pair]}]
            /\ UNCHANGED <<req, new, work>>
         \/ t \notin rows[t.user] /\ Finish(p)
      /\ UNCHANGED <<stores, caches, clients>>

(* Mutant: what is cached does not name the user. *)
ValidateFillAnonymous(p) ==
  /\ pc[p] = "validateFill"
  /\ SetAccess([req[p].tok EXCEPT !.user = NoToken])
  /\ Goto(p, "touchLoad")
  /\ UNCHANGED <<stores, clients, req, new, work, drops>>

ValidateFill(p) ==
  /\ pc[p] = "validateFill"
  /\ SetAccess(req[p].tok)
  /\ Goto(p, "touchLoad")
  /\ UNCHANGED <<stores, clients, req, new, work, drops>>

(* _load_session_row_by_nested_session_id: a scan of every row. *)
RowsHolding(s) == {u \in Users : EntriesOf(rows[u], s) # {}}

(* Where the endpoint goes once the dependency has authenticated it. *)
AfterAuth(p) ==
  IF req[p].op = "call"
  THEN Finish(p)
  ELSE /\ Goto(p, IF req[p].op = "list" THEN "purge" ELSE "deleteLoad")
       /\ work' = [work EXCEPT ![p] = NoWork]
       /\ UNCHANGED <<req, new, drops>>

(* touch_session reads the row, sets last_seen_at in one entry and writes   *)
(* the whole list back.  The timestamps are not modelled; the write is.     *)
TouchLoad(p) ==
  LET s == req[p].tok.sid
  IN  /\ pc[p] = "touchLoad"
      /\ \/ \E u \in RowsHolding(s) :
              /\ work' = [work EXCEPT ![p] = WritingOne(u, rows[u])]
              /\ Goto(p, "touchCommit")
              /\ UNCHANGED <<req, new, drops>>
         \/ RowsHolding(s) = {} /\ AfterAuth(p)
      /\ UNCHANGED <<stores, caches, clients>>

(* A touch that fails is swallowed, but its rollback expires the user       *)
(* object: an endpoint that reads user.id fails.  A logout reads it only    *)
(* after it has deleted the session, so it deletes and answers an error.    *)
AfterLostTouch(p) ==
  IF req[p].op = "logout"
  THEN /\ Goto(p, "deleteLoad")
       /\ req' = [req EXCEPT ![p] = [@ EXCEPT !.op = "lostLogout"]]
       /\ work' = [work EXCEPT ![p] = NoWork]
       /\ UNCHANGED <<new, drops>>
  ELSE Finish(p)

TouchCommit(p) ==
  /\ pc[p] = "touchCommit"
  /\ \/ CommitSucceeds(work[p]) /\ AfterAuth(p)
     \/ CommitFails(work[p]) /\ AfterLostTouch(p)
  /\ UNCHANGED <<caches, clients>>

-----------------------------------------------------------------------------
(* delete_session, called by logout with the session id alone. *)

AfterDelete(p) == IF req[p].op = "logout" THEN "logoutDrop" ELSE "rejectDrop"

(* Mutant: the access key of the session is not deleted. *)
DeleteLoadRefreshOnly(p) ==
  LET t == req[p].tok
  IN  /\ pc[p] = "deleteLoad"
      /\ \E u \in RowsHolding(t.sid) :
           work' = [work EXCEPT ![p] =
                      WritingOne(u, rows[u] \ EntriesOf(rows[u], t.sid))]
      /\ drops' = [drops EXCEPT ![p] = {[cache |-> "refresh", pair |-> t.pair]}]
      /\ Goto(p, "deleteCommit")
      /\ UNCHANGED <<stores, caches, clients, req, new>>

DeleteLoad(p) ==
  LET t == req[p].tok
  IN  /\ pc[p] = "deleteLoad"
      /\ \/ \E u \in RowsHolding(t.sid) : \E e \in EntriesOf(rows[u], t.sid) :
              /\ work' = [work EXCEPT ![p] =
                            WritingOne(u, rows[u] \ EntriesOf(rows[u], t.sid))]
              /\ drops' = [drops EXCEPT ![p] = KeysOf(e)]
              /\ Goto(p, "deleteCommit")
         \/ /\ RowsHolding(t.sid) = {}
            /\ drops' = [drops EXCEPT ![p] = {[cache |-> "access", pair |-> t.pair]}]
            /\ Goto(p, AfterDelete(p))
            /\ UNCHANGED work
      /\ UNCHANGED <<stores, caches, clients, req, new>>

(* Mutant: a revocation is answered as a logout. *)
DeleteCommitLogout(p) ==
  /\ pc[p] = "deleteCommit"
  /\ \/ /\ CommitSucceeds(work[p])
        /\ Goto(p, "logoutDrop")
        /\ work' = [work EXCEPT ![p] = NoWork]
        /\ UNCHANGED <<req, new, drops>>
     \/ CommitFails(work[p]) /\ Finish(p)
  /\ UNCHANGED <<caches, clients>>

DeleteCommit(p) ==
  /\ pc[p] = "deleteCommit"
  /\ \/ /\ CommitSucceeds(work[p])
        /\ Goto(p, AfterDelete(p))
        /\ work' = [work EXCEPT ![p] = NoWork]
        /\ UNCHANGED <<req, new, drops>>
     \/ CommitFails(work[p]) /\ Finish(p)
  /\ UNCHANGED <<caches, clients>>

-----------------------------------------------------------------------------
(* rotate_refresh_token.  The cached refresh session only ever confirms the *)
(* token (CachesSound): its comparison, lines 175-187, never fails, and the *)
(* database decides.                                                        *)

StartRefresh(p, t) ==
  /\ "refresh" \in Ops
  /\ PairIdLeft
  /\ pc[p] = "idle"
  /\ t \in held
  /\ ~Dead(t)
  /\ Goto(p, "rotateLoad")
  /\ req' = [req EXCEPT ![p] = [op |-> "refresh", who |-> t.user, tok |-> t]]
  /\ UNCHANGED <<stores, caches, clients, new, work, drops>>

RotateWriting(p, list(_), keys) ==
  LET t == req[p].tok
  IN  /\ pc[p] = "rotateLoad"
      /\ t \in rows[t.user]
      /\ ~Dead(t)
      /\ \E n \in SignFor(t.user, t.sid) :
           /\ issued' = issued \cup {n}
           /\ new' = [new EXCEPT ![p] = n]
           /\ work' = [work EXCEPT ![p] = WritingOne(t.user, list(n))]
      /\ drops' = [drops EXCEPT ![p] = keys]
      /\ Goto(p, "rotateCommit")
      /\ UNCHANGED <<stores, caches, held, life, loggedOut, req>>

(* Mutant: the new entry is added and the old one kept. *)
RotateAppending(p) ==
  LET t == req[p].tok
      list(n) == rows[t.user] \cup {n}
  IN  RotateWriting(p, list, KeysOf(t))

(* Mutant: the old access key stays in the cache. *)
RotateRefreshOnly(p) ==
  LET t == req[p].tok
      list(n) == (rows[t.user] \ {t}) \cup {n}
  IN  RotateWriting(p, list, {[cache |-> "refresh", pair |-> t.pair]})

(* The presented token is the session's current one and has not expired. *)
Rotate(p) ==
  LET t == req[p].tok
  IN  /\ pc[p] = "rotateLoad"
      /\ t \in rows[t.user]
      /\ ~Dead(t)
      /\ \E n \in SignFor(t.user, t.sid) :
           /\ issued' = issued \cup {n}
           /\ new' = [new EXCEPT ![p] = n]
           /\ work' = [work EXCEPT ![p] =
                         WritingOne(t.user, (rows[t.user] \ {t}) \cup {n})]
      /\ drops' = [drops EXCEPT ![p] = KeysOf(t)]
      /\ Goto(p, "rotateCommit")
      /\ UNCHANGED <<stores, caches, held, life, loggedOut, req>>

(* A superseded token of a session that is still there is taken for a       *)
(* replay, and an expired one is cleared away: the session is deleted.      *)
Revoke(p) ==
  LET t == req[p].tok
  IN  /\ pc[p] = "rotateLoad"
      /\ \E e \in EntriesOf(rows[t.user], t.sid) :
           /\ e = t => Dead(t)
           /\ drops' = [drops EXCEPT ![p] = KeysOf(e)]
           /\ work' = [work EXCEPT ![p] =
                 WritingOne(t.user, rows[t.user] \ EntriesOf(rows[t.user], t.sid))]
      /\ Goto(p, "revokeLoad")
      /\ UNCHANGED <<stores, caches, clients, req, new>>

RotateUnknown(p) ==
  /\ pc[p] = "rotateLoad"
  /\ EntriesOf(rows[req[p].who], req[p].tok.sid) = {}
  /\ Finish(p)
  /\ UNCHANGED <<stores, caches, clients>>

(* delete_session(user_id=...) selects the row again.  The caller still     *)
(* holds the row object, so the identity map answers with the list read     *)
(* before, whatever the row holds by now; only its absence is noticed.      *)
RevokeLoad(p) ==
  /\ pc[p] = "revokeLoad"
  /\ IF req[p].who \in present
     THEN Goto(p, "deleteCommit") /\ UNCHANGED <<work, drops>>
     ELSE /\ Goto(p, "rejectDrop")
          /\ work' = [work EXCEPT ![p] = NoWork]
          /\ drops' = [drops EXCEPT ![p] = {k \in drops[p] : k.cache = "access"}]
  /\ UNCHANGED <<stores, caches, clients, req, new>>

RotateCommit(p) ==
  /\ pc[p] = "rotateCommit"
  /\ \/ /\ CommitSucceeds(work[p])
        /\ Goto(p, "reload")
        /\ work' = [work EXCEPT ![p] = NoWork]
        /\ UNCHANGED <<req, new, drops>>
     \/ CommitFails(work[p]) /\ Finish(p)
  /\ UNCHANGED <<caches, clients>>

-----------------------------------------------------------------------------
(* One DEL command.  The keys of one batch are independent of each other,   *)
(* so any order stands for the code's.                                      *)

AfterDrops(p) ==
  CASE pc[p] = "purgeDrop"  -> Goto(p, "purgeCommit") /\ UNCHANGED <<req, new, work>>
    [] pc[p] = "rotateDrop" -> Goto(p, "cacheAccess") /\ UNCHANGED <<req, new, work>>
    [] pc[p] \in {"logoutDrop", "rejectDrop"} ->
         /\ Goto(p, "idle")
         /\ req' = [req EXCEPT ![p] = NoReq]
         /\ new' = [new EXCEPT ![p] = NoToken]
         /\ work' = [work EXCEPT ![p] = NoWork]

(* The last delete of a logout is its last await: its success is answered. *)
Drop(p, key) ==
  /\ pc[p] \in DropSteps
  /\ key \in drops[p]
  /\ Delete(key)
  /\ drops' = [drops EXCEPT ![p] = @ \ {key}]
  /\ IF drops[p] = {key}
     THEN AfterDrops(p)
     ELSE UNCHANGED <<pc, req, new, work>>
  /\ loggedOut' = IF pc[p] = "logoutDrop" /\ drops[p] = {key}
                  THEN loggedOut \cup {req[p].tok.sid} ELSE loggedOut
  /\ UNCHANGED <<stores, issued, held, life>>

-----------------------------------------------------------------------------
(* The environment *)

(* The worker stops, or a query of the request fails: what is not committed *)
(* is rolled back, what has been written stays.                             *)
Crash(p) ==
  /\ "crash" \in Env
  /\ pc[p] # "idle"
  /\ Finish(p)
  /\ UNCHANGED <<stores, caches, clients>>

(* Access tokens expire before the refresh tokens signed with them, as the  *)
(* default lifetimes (60 minutes and 7 days) make them.                     *)
Expire(t) ==
  /\ "expire" \in Env
  /\ ~Dead(t)
  /\ life' = [life EXCEPT ![t.pair] = IF Fresh(t) THEN "stale" ELSE "dead"]
  /\ UNCHANGED <<stores, caches, issued, held, loggedOut, pc, req, new, work, drops>>

Evict ==
  /\ "evict" \in Env
  /\ \/ \E c \in accessCache : accessCache' = accessCache \ {c} /\ UNCHANGED refreshCache
     \/ \E c \in refreshCache : refreshCache' = refreshCache \ {c} /\ UNCHANGED accessCache
  /\ UNCHANGED <<stores, clients, pc, req, new, work, drops>>

Start(p) ==
  \/ StartPurge(p)
  \/ \E u \in Users : StartLogin(p, u)
  \/ \E t \in held, op \in Endpoints : ValidateHit(p, t, op) \/ ValidateMiss(p, t, op)
  \/ \E t \in held : StartRefresh(p, t)

Continue(p) ==
  \/ PurgeLoad(p) \/ PurgeNothing(p) \/ PurgeFails(p) \/ PurgeCommit(p)
  \/ LoginLoad(p) \/ LoginCommit(p) \/ Reload(p) \/ CacheAccess(p) \/ CacheRefresh(p)
  \/ ValidateLoad(p) \/ ValidateFill(p) \/ TouchLoad(p) \/ TouchCommit(p)
  \/ DeleteLoad(p) \/ DeleteCommit(p)
  \/ Rotate(p) \/ Revoke(p) \/ RotateUnknown(p) \/ RevokeLoad(p) \/ RotateCommit(p)
  \/ \E key \in drops[p] : Drop(p, key)

Next ==
  \/ \E p \in Procs : Start(p) \/ Continue(p) \/ Crash(p)
  \/ \E t \in issued : Expire(t)
  \/ Evict

(* A worker goes on with a request it serves; nobody has to make one. *)
Fairness == \A p \in Procs : WF_vars(Continue(p))

Spec == Init /\ [][Next]_vars
FairSpec == Spec /\ Fairness

-----------------------------------------------------------------------------
(* Properties *)

(* Every variable keeps the shape the code gives it. *)
TypeOK ==
  /\ rows \in [Users -> SUBSET Token]
  /\ present \in SUBSET Users
  /\ accessCache \in SUBSET Token
  /\ refreshCache \in SUBSET Token
  /\ issued \in SUBSET Token
  /\ held \in SUBSET Token
  /\ life \in [Pairs -> {"fresh", "stale", "dead"}]
  /\ loggedOut \in SUBSET Sessions
  /\ pc \in [Procs -> Steps]
  /\ req \in [Procs -> [op : Operations \cup {"none", "lostLogout"},
                        who : Users \cup {NoToken}, tok : Token \cup {NoToken}]]
  /\ new \in [Procs -> Token \cup {NoToken}]
  /\ work \in [Procs -> Work]
  /\ drops \in [Procs -> SUBSET Key]

(* A list holds tokens that were signed for the user it belongs to, and at  *)
(* most one per session.                                                    *)
ListSound(u, list) ==
  /\ list \subseteq {t \in issued : t.user = u}
  /\ \A e, f \in list : e.sid = f.sid => e = f

(* However requests overlap and fail, a row holds only its own user's       *)
(* sessions, one entry for each, and a row that has become empty is gone:   *)
(* the scan by session id (lines 471-496) finds at most one entry, and only *)
(* one refresh token of a session can still be rotated.                     *)
RowsSound ==
  \A u \in Users : /\ ListSound(u, rows[u])
                   /\ u \in present <=> rows[u] # {}

(* A cached value is the token it is keyed by, so the mismatch branches of  *)
(* validation (lines 121-132) and rotation (lines 176-187) are never taken. *)
CachesSound ==
  /\ held \cup accessCache \cup refreshCache \subseteq issued
  /\ \A c, d \in issued : c.pair = d.pair => c = d

(* The operations that come with a token. *)
Bearing == Endpoints \cup {"refresh", "lostLogout"}

(* What a request in flight carries is sound too: each handler runs for the *)
(* operation it belongs to and for a token that was signed, and every list  *)
(* waiting to be written back is one its row could hold.  With the two      *)
(* invariants above this is inductive.                                      *)
RequestSound(p) ==
  /\ pc[p] \in {"validateLoad", "validateFill", "touchLoad", "touchCommit"}
       => req[p].op \in Endpoints
  /\ pc[p] \in {"loginLoad", "loginCommit"} => req[p].op = "login"
  /\ pc[p] = "reload" => req[p].op \in {"login", "refresh"}
  /\ pc[p] = "deleteLoad" => req[p].op \in {"logout", "lostLogout"}
  /\ pc[p] = "logoutDrop" => req[p].op = "logout"
  /\ pc[p] \in {"rotateLoad", "revokeLoad", "rotateCommit", "rotateDrop"}
       => req[p].op = "refresh"
  /\ pc[p] \in {"deleteCommit", "rejectDrop"}
       => req[p].op \in Bearing
  /\ req[p].op \in Bearing
       => req[p].tok \in issued /\ req[p].who = req[p].tok.user
  /\ pc[p] \in {"loginCommit", "rotateCommit", "reload", "rotateDrop",
                "cacheAccess", "cacheRefresh"} => new[p] \in issued
  /\ \A u \in Users : ListSound(u, work[p].list[u])

InFlightSound == \A p \in Procs : RequestSound(p)

(* Session s is in a list request p has read and not yet written back, or   *)
(* is that of the token it has minted or validated and not yet cached.      *)
Carries(p, s) ==
  \/ \E u \in Users : \E t \in work[p].list[u] : t.sid = s
  \/ new[p] # NoToken /\ new[p].sid = s
  \/ pc[p] = "validateFill" /\ req[p].tok.sid = s

Signed(s) == \E t \in issued : t.sid = s

(* No store and no request in flight could still bring session s back. *)
Gone(s) ==
  /\ Signed(s)
  /\ \A u \in Users : \A t \in rows[u] : t.sid # s
  /\ \A t \in accessCache \cup refreshCache : t.sid # s
  /\ \A p \in Procs : ~Carries(p, s)

(* A deleted session can come back, through a list read before the deletion *)
(* or a cache filled after it, but only out of what a request or a cache    *)
(* still carries: once nothing does, no retry, rotation, fill or purge of   *)
(* any later request restores it.                                           *)
GoneForGood == [][\A s \in Sessions : Gone(s) => Gone(s)']_vars

(* The token would pass validate_access_token. *)
Usable(t) == t \in accessCache \/ t \in rows[t.user]

(* "removes the active session from both Redis and the fallback database    *)
(* table so the current bearer token can no longer be used" (logout): after *)
(* its answer no token of the session is accepted.  True while requests do  *)
(* not overlap and Redis answers; refuted when they do.                     *)
LogoutSticks == \A t \in issued : t.sid \in loggedOut => ~Usable(t)

(* "Refresh-token reuse is prevented by rotating the refresh token on every *)
(* successful refresh request" (refresh): one refresh token never has two   *)
(* rotations past their commit.                                             *)
Rotated(p) == req[p].op = "refresh"
              /\ pc[p] \in {"reload", "rotateDrop", "cacheAccess", "cacheRefresh"}

NoDoubleRotation ==
  \A p, q \in Procs : Rotated(p) /\ Rotated(q) /\ req[p].tok = req[q].tok => p = q

(* Every request is answered: no step waits for another request. *)
RequestsFinish == \A p \in Procs : pc[p] # "idle" ~> pc[p] = "idle"

-----------------------------------------------------------------------------
(* Served one at a time, with Redis answering and no worker stopping, the   *)
(* requests implement AuthStore: the rows are the live sessions, whatever   *)
(* the caches keep, lose or are refilled with.                              *)

Admitted == {"touchLoad", "touchCommit", "deleteLoad", "deleteCommit",
             "logoutDrop", "rejectDrop"}

Serving(p) ==
  \/ req[p].op \in Endpoints /\ pc[p] \in Admitted \ {"rejectDrop"}
  \/ req[p].op = "lostLogout" /\ pc[p] \in Admitted
  \/ req[p].op = "refresh"

Store == INSTANCE AuthStore
           WITH live <- UNION {rows[u] : u \in Users},
                dead <- {t \in issued : Dead(t)},
                serving <- {[tok |-> req[p].tok,
                             op |-> IF req[p].op = "lostLogout" THEN "logout"
                                                                ELSE req[p].op] :
                              p \in {q \in Procs : Serving(q)}},
                out <- loggedOut

ImplementsStore == Store!Spec

=============================================================================
