--------------------------- MODULE AuthSerialProofs ---------------------------
(***************************************************************************)
(* Served one at a time, with Redis answering and no worker stopping, the  *)
(* requests keep the promise of a logout and implement AuthStore, for any  *)
(* number of users, sessions and tokens and whatever expires, is evicted   *)
(* or refused by the database.                                             *)
(***************************************************************************)
EXTENDS AuthSessionsProofs

(* One request at a time; a Redis command does what it is asked, a commit   *)
(* that is reported as failed has failed, and a request runs to its end.    *)
(* Each of the four is needed: without it a logged-out token can be used.   *)
Serial ==
  /\ \A p, q \in Procs : p = q
  /\ Env \cap {"redis", "unsureCommit", "crash"} = {}

-----------------------------------------------------------------------------
(* The inductive invariant *)

AccessKey(t) == [cache |-> "access", pair |-> t.pair]

(* A session has one user. *)
Owned == \A i, j \in issued : i.sid = j.sid => i.user = j.user

(* A logged-out session is in no row and no access token of it is cached. *)
OutStays ==
  /\ \A s \in loggedOut : Signed(s)
  /\ \A u \in Users : \A t \in rows[u] : t.sid \notin loggedOut
  /\ \A c \in accessCache : c.sid \notin loggedOut

(* A cached access token is the current one of its session, but for what    *)
(* a request that has committed has still to delete.                        *)
Clearing == {"reload", "rotateDrop", "logoutDrop", "rejectDrop"}

CachedCurrent ==
  \A c \in accessCache :
    \/ c \in rows[c.user]
    \/ \E p \in Procs : pc[p] \in Clearing /\ AccessKey(c) \in drops[p]

(* Where keys wait to be deleted. *)
DropsSound(p) ==
  \/ drops[p] = {}
  \/ pc[p] \in DropSteps \cup {"revokeLoad", "deleteCommit", "rotateCommit"}
  \/ pc[p] = "reload" /\ req[p].op = "refresh"

(* The request came with a token a client holds, for an operation clients   *)
(* make.                                                                    *)
Presented(p) ==
  /\ pc[p] = "idle" => req[p] = NoReq
  /\ pc[p] \in {"purge", "purgeDrop", "purgeCommit"}
       => req[p].op \in {"login", "list", "startup"}
  /\ pc[p] \in {"cacheAccess", "cacheRefresh"} => req[p].op \in {"login", "refresh"}
  /\ pc[p] = "deleteCommit" => req[p].op \in {"logout", "lostLogout", "refresh"}
  /\ req[p].op \in Bearing => req[p].tok \in held
  /\ req[p].op \in Endpoints => req[p].op \in Ops

(* What the request has read is still so, as nobody else has written.       *)
(* A purge leaves out dead sessions only, none of them cached once its keys *)
(* are deleted.                                                             *)
Purging(p) ==
  pc[p] \in {"purgeDrop", "purgeCommit"} =>
    \A u \in work[p].dirty :
      /\ work[p].list[u] \subseteq rows[u]
      /\ \A e \in rows[u] \ work[p].list[u] :
           /\ Dead(e)
           /\ e \in accessCache => AccessKey(e) \in drops[p]

(* A login adds a session that nobody has had. *)
Adding(p) ==
  pc[p] = "loginCommit" =>
    /\ work[p].dirty = {new[p].user}
    /\ work[p].list[new[p].user] = rows[new[p].user] \cup {new[p]}
    /\ \A u \in Users : \A e \in rows[u] : e.sid # new[p].sid
    /\ new[p].sid \notin loggedOut
    /\ \A e \in held : e.sid # new[p].sid
    /\ req[p].who = new[p].user

(* A rotation puts a new token in the place of the presented one. *)
Rotating(p) ==
  LET t == req[p].tok
      n == new[p]
  IN  pc[p] = "rotateCommit" =>
        /\ t \in rows[t.user]
        /\ n.sid = t.sid /\ n.user = t.user /\ n.pair # t.pair /\ n \notin held
        /\ work[p].dirty = {t.user}
        /\ work[p].list[t.user] = (rows[t.user] \ {t}) \cup {n}
        /\ drops[p] = KeysOf(t)

(* A committed token that has not been delivered yet is current. *)
Added(p) ==
  LET n == new[p]
  IN  pc[p] \in {"reload", "rotateDrop", "cacheAccess", "cacheRefresh"} =>
        /\ n \in rows[n.user] /\ n \notin held /\ req[p].who = n.user
        /\ req[p].op = "refresh" => n.sid = req[p].tok.sid

(* A validated token is current, and a touch writes back what is there. *)
Validated(p) ==
  /\ pc[p] = "validateFill" => req[p].tok \in rows[req[p].tok.user]
  /\ pc[p] = "touchCommit" => \A u \in work[p].dirty : work[p].list[u] = rows[u]

(* A deletion takes the one entry of the presented token's session; if that *)
(* entry is the token itself and no logout asked for it, it is dead.        *)
Removing(p) ==
  LET t == req[p].tok
  IN  pc[p] \in {"revokeLoad", "deleteCommit"} =>
        \E e \in rows[t.user] :
          /\ e.sid = t.sid
          /\ req[p].op = "refresh" /\ e = t => Dead(t)
          /\ drops[p] = KeysOf(e)
          /\ work[p].dirty = {t.user}
          /\ work[p].list[t.user] = rows[t.user] \ {e}

Removed(p) ==
  pc[p] = "logoutDrop" => \A u \in Users : \A e \in rows[u] : e.sid # req[p].tok.sid

Placed(p) ==
  /\ DropsSound(p) /\ Presented(p)
  /\ Purging(p) /\ Adding(p) /\ Rotating(p) /\ Added(p)
  /\ Validated(p) /\ Removing(p) /\ Removed(p)

SerialInv == Owned /\ OutStays /\ CachedCurrent /\ \A p \in Procs : Placed(p)

-----------------------------------------------------------------------------
(* Lemmas *)

(* There is one request. *)
LEMMA Alone ==
  ASSUME Serial, NEW p \in Procs, Owned', OutStays', CachedCurrent', Placed(p)'
  PROVE  SerialInv'
<1>1. \A q \in Procs : q = p
  BY DEF Serial
<1>. QED
  BY <1>1 DEF SerialInv

LEMMA SerialInit == Init => SerialInv
<1>. SUFFICES ASSUME Init PROVE SerialInv
  OBVIOUS
<1>1. Owned /\ OutStays /\ CachedCurrent
  BY DEF Init, Owned, OutStays, CachedCurrent
<1>2. ASSUME NEW p \in Procs PROVE Placed(p)
  BY DEF Init, Placed, DropsSound, Presented, Purging, Adding, Rotating, Added, Validated,
         Removing, Removed, NoReq, Bearing, Endpoints
<1>. QED
  BY <1>1, <1>2 DEF SerialInv

(* With nothing left to delete, what is cached is current. *)
LEMMA Current ==
  ASSUME Serial, CachedCurrent, NEW p \in Procs, pc[p] \notin Clearing \/ drops[p] = {}
  PROVE  \A c \in accessCache : c \in rows[c.user]
<1>1. \A q \in Procs : q = p
  BY DEF Serial
<1>. QED
  BY <1>1 DEF CachedCurrent

LEMMA FinishPlaced ==
  ASSUME TypeOK, NEW p \in Procs, Finish(p)
  PROVE  Placed(p)' /\ pc'[p] = "idle" /\ req'[p] = NoReq
<1>1. pc'[p] = "idle" /\ req'[p] = NoReq /\ drops'[p] = {}
  BY DEF Finish, Goto, TypeOK
<1>. QED
  BY <1>1 DEF Placed, DropsSound, Presented, Purging, Adding, Rotating, Added, Validated,
              Removing, Removed, NoReq, Bearing, Endpoints

(* A step that changes no row, adds no token and caches nothing new. *)
LEMMA LocalKept ==
  ASSUME Serial, SerialInv, NEW p \in Procs, pc[p] \notin Clearing \/ drops[p] = {},
         UNCHANGED <<rows, issued, loggedOut>>, accessCache' \subseteq accessCache,
         Placed(p)'
  PROVE  SerialInv'
<1>1. \A c \in accessCache : c \in rows[c.user]
  BY Current DEF SerialInv
<1>2. Owned' /\ OutStays' /\ CachedCurrent'
  BY <1>1 DEF SerialInv, Owned, OutStays, CachedCurrent, Signed
<1>. QED
  BY <1>2, Alone

(* A commit that fails changes nothing. *)
LEMMA FailsClean == ASSUME Serial, NEW w, CommitFails(w) PROVE UNCHANGED stores
BY DEF Serial, CommitFails

(* What a commit makes of the rows. *)
LEMMA CommitWrites ==
  ASSUME TypeOK, NEW p \in Procs, CommitSucceeds(work[p])
  PROVE  /\ work[p].dirty \subseteq Users
         /\ \A u \in Users : rows'[u] = IF u \in work[p].dirty THEN work[p].list[u] ELSE rows[u]
BY DEF CommitSucceeds, Flush, TypeOK, Work

LEMMA WritingOneIs ==
  ASSUME NEW u \in Users, NEW list
  PROVE  WritingOne(u, list).dirty = {u} /\ WritingOne(u, list).list[u] = list
BY DEF WritingOne, Writing

(* A session is in one row only, and there once. *)
LEMMA OneEntry ==
  ASSUME Sound, Owned, NEW i \in issued, i.user \in Users,
         NEW u \in Users, NEW e \in rows[u], e.sid = i.sid
  PROVE  /\ u = i.user /\ e.user = u
         /\ EntriesOf(rows[u], i.sid) = {e}
<1>1. e \in issued /\ e.user = u /\ \A f \in rows[u] : f.sid = e.sid => f = e
  BY DEF Sound, RowsSound, ListSound
<1>. QED
  BY <1>1 DEF Owned, EntriesOf

-----------------------------------------------------------------------------
(* The steps *)

LEMMA SerialStart ==
  ASSUME TypeOK, Sound, Serial, SerialInv, NEW p \in Procs, Start(p)
  PROVE  SerialInv'
<1>1. pc[p] = "idle" /\ UNCHANGED <<stores, caches, clients, new, work>>
  BY DEF Start, StartPurge, StartLogin, ValidateHit, ValidateMiss, StartRefresh, Presents
<1>2. drops[p] = {}
  BY <1>1 DEF SerialInv, Placed, DropsSound, DropSteps
<1>3. \/ /\ pc'[p] = "purge" /\ req'[p].op \in {"startup", "login"}
         /\ drops'[p] = {}
      \/ /\ pc'[p] \in {"touchLoad", "validateLoad", "rejectDrop"}
         /\ req'[p].op \in Endpoints \cap Ops /\ req'[p].tok \in held
         /\ pc'[p] = "rejectDrop" \/ drops'[p] = {}
      \/ /\ pc'[p] = "rotateLoad" /\ req'[p].op = "refresh" /\ req'[p].tok \in held
         /\ drops'[p] = {}
  <2>1. CASE StartPurge(p) \/ \E u \in Users : StartLogin(p, u)
    BY <1>2, <2>1 DEF StartPurge, StartLogin, Goto, TypeOK
  <2>2. ASSUME NEW t \in held, NEW op \in Endpoints, ValidateHit(p, t, op)
        PROVE  /\ pc'[p] \in {"touchLoad", "rejectDrop"}
               /\ req'[p].op \in Endpoints \cap Ops /\ req'[p].tok \in held
               /\ pc'[p] = "rejectDrop" \/ drops'[p] = {}
    BY <1>2, <2>2 DEF ValidateHit, Presents, Goto, TypeOK
  <2>3. ASSUME NEW t \in held, NEW op \in Endpoints, ValidateMiss(p, t, op)
        PROVE  /\ pc'[p] = "validateLoad" /\ drops'[p] = {}
               /\ req'[p].op \in Endpoints \cap Ops /\ req'[p].tok \in held
    BY <1>2, <2>3 DEF ValidateMiss, Presents, Goto, TypeOK
  <2>4. ASSUME NEW t \in held, StartRefresh(p, t)
        PROVE  /\ pc'[p] = "rotateLoad" /\ req'[p].op = "refresh" /\ req'[p].tok \in held
               /\ drops'[p] = {}
    BY <1>2, <2>4 DEF StartRefresh, Goto, TypeOK
  <2>. QED
    BY <2>1, <2>2, <2>3, <2>4 DEF Start
<1>4. Placed(p)'
  BY <1>1, <1>3 DEF Placed, DropsSound, Presented, Purging, Adding, Rotating, Added,
                    Validated, Removing, Removed, Bearing, Endpoints, DropSteps, clients
<1>. QED
  BY <1>1, <1>2, <1>4, LocalKept DEF stores, caches, clients

LEMMA AfterPurgePlaced ==
  ASSUME TypeOK, NEW p \in Procs, AfterPurge(p)
  PROVE  Placed(p)'
<1>1. CASE req[p].op = "login"
  <2>1. pc'[p] = "loginLoad" /\ drops'[p] = {} /\ req'[p].op = "login"
    BY <1>1 DEF AfterPurge, Goto, TypeOK
  <2>. QED
    BY <2>1 DEF Placed, DropsSound, Presented, Purging, Adding, Rotating, Added, Validated,
                Removing, Removed, Bearing, Endpoints
<1>2. CASE req[p].op # "login"
  BY <1>2, FinishPlaced DEF AfterPurge
<1>. QED
  BY <1>1, <1>2

LEMMA SerialPurge ==
  ASSUME TypeOK, Sound, Serial, SerialInv, NEW p \in Procs,
         PurgeLoad(p) \/ PurgeNothing(p) \/ PurgeFails(p) \/ PurgeCommit(p)
  PROVE  SerialInv'
<1>0. pc[p] \in {"purge", "purgeCommit"} /\ drops[p] = {}
  BY DEF PurgeLoad, PurgeNothing, PurgeFails, PurgeCommit, SerialInv, Placed, DropsSound,
         DropSteps
<1>1. CASE PurgeLoad(p)
  <2>. DEFINE stale == {u \in Users : Expired(rows[u]) # {}}
              left == [u \in stale |-> rows[u] \ Expired(rows[u])]
              keys == UNION {KeysOf(e) : e \in UNION {Expired(rows[u]) : u \in stale}}
  <2>1. /\ pc'[p] = "purgeDrop" /\ work'[p] = Writing(stale, left, FALSE) /\ drops'[p] = keys
        /\ UNCHANGED <<stores, caches, clients, req, new>>
    BY <1>1 DEF PurgeLoad, Goto, TypeOK
  <2>2. \A u \in stale : work'[p].list[u] = rows[u] \ Expired(rows[u])
    BY <2>1 DEF Writing
  <2>3. work'[p].dirty = stale
    BY <2>1 DEF Writing
  <2>4. \A u \in stale : \A e \in Expired(rows[u]) : AccessKey(e) \in keys
    BY DEF KeysOf, AccessKey
  <2>. HIDE DEF stale, left, keys
  <2>5. Purging(p)'
    BY <2>1, <2>2, <2>3, <2>4 DEF Purging, Expired, Dead, stores, clients
  <2>6. req[p].op \in {"login", "list", "startup"} /\ req'[p] = req[p]
    BY <1>1, <2>1 DEF PurgeLoad, SerialInv, Placed, Presented
  <2>7. Presented(p)'
    BY <2>1, <2>6 DEF SerialInv, Placed, Presented, Bearing, Endpoints, clients
  <2>8. Placed(p)'
    BY <2>1, <2>5, <2>7 DEF Placed, DropsSound, Adding, Rotating, Added, Validated,
                            Removing, Removed, DropSteps
  <2>. QED
    BY <1>0, <2>1, <2>8, LocalKept DEF stores, caches, clients
<1>2. CASE PurgeNothing(p) \/ PurgeFails(p)
  BY <1>0, <1>2, AfterPurgePlaced, FinishPlaced, LocalKept
     DEF PurgeNothing, PurgeFails, stores, caches, clients
<1>3. CASE PurgeCommit(p)
  <2>1. CASE CommitFails(work[p]) /\ Finish(p)
    BY <1>0, <1>3, <2>1, FailsClean, FinishPlaced, LocalKept
       DEF PurgeCommit, stores, caches, clients
  <2>2. CASE CommitSucceeds(work[p]) /\ AfterPurge(p)
    <3>1. UNCHANGED <<caches, clients>> /\ Placed(p)'
      BY <1>3, <2>2, AfterPurgePlaced DEF PurgeCommit
    <3>2. pc[p] = "purgeCommit" /\ Purging(p)
      BY <1>3 DEF PurgeCommit, SerialInv, Placed
    <3>3. \A u \in Users : /\ rows'[u] \subseteq rows[u]
                           /\ \A e \in rows[u] \ rows'[u] : e \notin accessCache
      BY <1>0, <2>2, <3>2, CommitWrites DEF Purging
    <3>4. \A c \in accessCache : c \in rows[c.user] /\ c.user \in Users
      <4>1. \A c \in accessCache : c.user \in Users
        BY TokenFields DEF TypeOK
      <4>. QED
        BY <1>0, <4>1, Current DEF SerialInv
    <3>5. Owned' /\ OutStays' /\ CachedCurrent'
      BY <3>1, <3>3, <3>4 DEF SerialInv, Owned, OutStays, CachedCurrent, Signed, caches, clients
    <3>. QED
      BY <3>1, <3>5, Alone
  <2>. QED
    BY <1>3, <2>1, <2>2 DEF PurgeCommit
<1>. QED
  BY <1>1, <1>2, <1>3

LEMMA SerialLogin ==
  ASSUME TypeOK, Sound, Serial, SerialInv, NEW p \in Procs, LoginLoad(p) \/ LoginCommit(p)
  PROVE  SerialInv'
<1>0. drops[p] = {} /\ pc[p] \in {"loginLoad", "loginCommit"} /\ req[p].op = "login"
  BY DEF LoginLoad, LoginCommit, SerialInv, Placed, DropsSound, DropSteps, Sound,
         InFlightSound, RequestSound
<1>1. \A c \in accessCache : c \in rows[c.user] /\ c.user \in Users
  <2>1. \A c \in accessCache : c.user \in Users
    BY TokenFields DEF TypeOK
  <2>. QED
    BY <1>0, <2>1, Current DEF SerialInv
<1>2. CASE LoginLoad(p)
  <2>0. PICK s \in UnusedSessions : \E t \in SignFor(req[p].who, s) :
          /\ issued' = issued \cup {t}
          /\ new' = [new EXCEPT ![p] = t]
          /\ work' = [work EXCEPT ![p] =
                        Writing({t.user}, [u \in {t.user} |-> rows[u] \cup {t}],
                                t.user \notin present)]
    BY <1>2 DEF LoginLoad
  <2>1. PICK t \in SignFor(req[p].who, s) :
          /\ issued' = issued \cup {t}
          /\ new' = [new EXCEPT ![p] = t]
          /\ work' = [work EXCEPT ![p] =
                        Writing({t.user}, [u \in {t.user} |-> rows[u] \cup {t}],
                                t.user \notin present)]
    BY <2>0
  <2>2. /\ t \in Token /\ t.user = req[p].who /\ t.sid = s /\ t.user \in Users
        /\ \A i \in issued : i.pair # t.pair /\ i.sid # s
    BY <2>1, TokenFields DEF SignFor, UnusedSessions
  <2>3. /\ pc'[p] = "loginCommit" /\ new'[p] = t /\ req'[p] = req[p] /\ drops'[p] = {}
        /\ work'[p].dirty = {t.user} /\ work'[p].list[t.user] = rows[t.user] \cup {t}
        /\ UNCHANGED <<stores, caches, held, life, loggedOut>>
    BY <1>0, <1>2, <2>1, <2>2 DEF LoginLoad, Goto, TypeOK, Writing
  <2>4. Adding(p)'
    <3>1. \A u \in Users : \A e \in rows[u] : e \in issued
      BY DEF Sound, RowsSound, ListSound
    <3>2. s \notin loggedOut
      BY <2>2 DEF SerialInv, OutStays, Signed
    <3>3. \A e \in held : e.sid # t.sid
      BY <2>2 DEF Sound, CachesSound
    <3>. QED
      BY <2>2, <2>3, <3>1, <3>2, <3>3 DEF Adding, stores
  <2>5. Placed(p)'
    BY <1>0, <2>3, <2>4 DEF Placed, DropsSound, Presented, Purging, Rotating, Added,
                            Validated, Removing, Removed, Bearing, Endpoints
  <2>6. Owned'
    BY <2>1, <2>2 DEF SerialInv, Owned
  <2>7. OutStays' /\ CachedCurrent'
    BY <1>1, <2>1, <2>3 DEF SerialInv, OutStays, CachedCurrent, Signed, stores, caches
  <2>. QED
    BY <2>5, <2>6, <2>7, Alone
<1>3. CASE LoginCommit(p)
  <2>1. CASE CommitFails(work[p]) /\ Finish(p)
    BY <1>0, <1>3, <2>1, FailsClean, FinishPlaced, LocalKept
       DEF LoginCommit, stores, caches, clients
  <2>2. CASE /\ CommitSucceeds(work[p]) /\ Goto(p, "reload")
             /\ UNCHANGED <<req, new, drops>>
    <3>1. /\ pc'[p] = "reload" /\ req'[p] = req[p] /\ new'[p] = new[p] /\ drops'[p] = {}
          /\ UNCHANGED <<caches, clients>>
      BY <1>0, <1>3, <2>2 DEF LoginCommit, Goto, TypeOK
    <3>2. Adding(p) /\ pc[p] = "loginCommit"
      BY <1>3 DEF LoginCommit, SerialInv, Placed
    <3>3. \A u \in Users :
             rows'[u] = IF u = new[p].user THEN rows[u] \cup {new[p]} ELSE rows[u]
      BY <2>2, <3>2, CommitWrites DEF Adding
    <3>4. new[p].user \in Users
      BY <3>2, InFlightTokens, TokenFields DEF Sound
    <3>5. Added(p)'
      BY <1>0, <3>1, <3>2, <3>3, <3>4 DEF Added, Adding, clients
    <3>6. Placed(p)'
      BY <1>0, <3>1, <3>5 DEF Placed, DropsSound, Presented, Purging, Adding, Rotating,
                              Validated, Removing, Removed, Bearing, Endpoints
    <3>7. Owned' /\ OutStays' /\ CachedCurrent'
      BY <1>1, <3>1, <3>2, <3>3 DEF SerialInv, Owned, OutStays, CachedCurrent, Signed,
                                    Adding, caches, clients
    <3>. QED
      BY <3>6, <3>7, Alone
  <2>. QED
    BY <1>3, <2>1, <2>2 DEF LoginCommit
<1>. QED
  BY <1>2, <1>3

(* Where a login and a rotation end alike. *)
LEMMA SerialDeliver ==
  ASSUME TypeOK, Sound, Serial, SerialInv, NEW p \in Procs,
         Reload(p) \/ CacheAccess(p) \/ CacheRefresh(p)
  PROVE  SerialInv'
<1>. DEFINE n == new[p]
<1>1. /\ n \in issued /\ n.user \in Users /\ n \in rows[n.user] /\ n \notin held
      /\ req[p].who = n.user /\ req[p].op \in {"login", "refresh"}
      /\ req[p].op = "refresh" => n.sid = req[p].tok.sid
      /\ pc[p] \in {"reload", "cacheAccess", "cacheRefresh"}
  BY InFlightTokens, TokenFields
     DEF Reload, CacheAccess, CacheRefresh, SerialInv, Placed, Added, Presented, Sound,
         InFlightSound, RequestSound
<1>2. CASE Reload(p)
  <2>1. req[p].who \in present
    BY <1>1 DEF Sound, RowsSound
  <2>2. /\ pc'[p] = IF req[p].op = "login" THEN "cacheAccess" ELSE "rotateDrop"
        /\ UNCHANGED <<req, new, work, drops, stores, caches, clients>>
    BY <1>2, <2>1 DEF Reload, Goto, TypeOK
  <2>3. req[p].op = "login" => drops[p] = {}
    BY <1>2 DEF Reload, SerialInv, Placed, DropsSound, DropSteps
  <2>4. Added(p)'
    BY <1>1, <2>2 DEF Added, stores, clients
  <2>5. Presented(p) /\ pc[p] = "reload"
    BY <1>2 DEF Reload, SerialInv, Placed
  <2>6. Placed(p)'
    BY <1>1, <2>2, <2>3, <2>4, <2>5
       DEF Placed, DropsSound, Presented, Purging, Adding, Rotating, Validated, Removing,
           Removed, Bearing, Endpoints, DropSteps, clients
  <2>7. CachedCurrent'
    <3>1. CASE req[p].op = "login"
      BY <2>2, <2>3, <3>1, Current DEF SerialInv, CachedCurrent, stores, caches
    <3>2. CASE req[p].op # "login"
      <4>1. \A q \in Procs : pc[q] \in Clearing => pc'[q] \in Clearing
        BY <2>2, <3>2 DEF Serial, Clearing
      <4>. QED
        BY <2>2, <4>1 DEF SerialInv, CachedCurrent, stores, caches
    <3>. QED
      BY <3>1, <3>2
  <2>8. Owned' /\ OutStays'
    BY <2>2 DEF SerialInv, Owned, OutStays, Signed, stores, caches, clients
  <2>. QED
    BY <2>6, <2>7, <2>8, Alone
<1>3. CASE CacheAccess(p) \/ CacheRefresh(p)
  <2>1. drops[p] = {} /\ pc[p] \in {"cacheAccess", "cacheRefresh"}
    BY <1>3 DEF CacheAccess, CacheRefresh, SerialInv, Placed, DropsSound, DropSteps
  <2>2. /\ accessCache' \subseteq accessCache \cup {n}
        /\ UNCHANGED <<rows, issued, loggedOut>>
    BY <1>3 DEF CacheAccess, CacheRefresh, SetAccess, SetRefresh, CacheSet, stores, clients
  <2>3. Owned' /\ OutStays' /\ CachedCurrent'
    <3>1. \A c \in accessCache : c \in rows[c.user]
      BY <2>1, Current DEF SerialInv
    <3>. QED
      BY <1>1, <2>2, <3>1 DEF SerialInv, Owned, OutStays, CachedCurrent, Signed
  <2>4. CASE CacheRefresh(p)
    BY <2>3, <2>4, FinishPlaced, Alone DEF CacheRefresh
  <2>5. CASE CacheAccess(p)
    <3>1. /\ pc'[p] = "cacheRefresh" /\ pc[p] = "cacheAccess"
          /\ UNCHANGED <<req, new, work, drops, rows, held>>
      BY <2>5 DEF CacheAccess, Goto, TypeOK, stores, clients
    <3>2. Added(p)' /\ Presented(p)'
      BY <1>1, <3>1 DEF Added, Presented, Bearing, Endpoints, SerialInv, Placed
    <3>3. Placed(p)'
      BY <2>1, <3>1, <3>2 DEF Placed, DropsSound, Purging, Adding, Rotating, Validated,
                              Removing, Removed
    <3>. QED
      BY <2>3, <3>3, Alone
  <2>. QED
    BY <1>3, <2>4, <2>5
<1>. QED
  BY <1>2, <1>3

LEMMA AfterAuthPlaced ==
  ASSUME TypeOK, NEW p \in Procs, req[p].op \in Endpoints \cap Ops, req[p].tok \in held,
         held' = held, drops[p] = {}, AfterAuth(p)
  PROVE  Placed(p)'
<1>1. CASE req[p].op = "call"
  BY <1>1, FinishPlaced DEF AfterAuth
<1>2. CASE req[p].op # "call"
  <2>1. /\ pc'[p] = IF req[p].op = "list" THEN "purge" ELSE "deleteLoad"
        /\ UNCHANGED <<req, new, drops>>
    BY <1>2 DEF AfterAuth, Goto, TypeOK
  <2>. QED
    BY <1>2, <2>1 DEF Placed, DropsSound, Presented, Purging, Adding, Rotating, Added,
                      Validated, Removing, Removed, Bearing, Endpoints
<1>. QED
  BY <1>1, <1>2

LEMMA AfterLostTouchPlaced ==
  ASSUME TypeOK, NEW p \in Procs, req[p].op \in Endpoints \cap Ops, req[p].tok \in held,
         held' = held, drops[p] = {}, AfterLostTouch(p)
  PROVE  Placed(p)'
<1>1. CASE req[p].op # "logout"
  BY <1>1, FinishPlaced DEF AfterLostTouch
<1>2. CASE req[p].op = "logout"
  <2>1. /\ pc'[p] = "deleteLoad" /\ drops'[p] = {}
        /\ req'[p].op = "lostLogout" /\ req'[p].tok = req[p].tok
    BY <1>2 DEF AfterLostTouch, Goto, TypeOK
  <2>. QED
    BY <2>1 DEF Placed, DropsSound, Presented, Purging, Adding, Rotating, Added, Validated,
                Removing, Removed, Bearing, Endpoints
<1>. QED
  BY <1>1, <1>2

LEMMA SerialAuthenticate ==
  ASSUME TypeOK, Sound, Serial, SerialInv, NEW p \in Procs,
         ValidateLoad(p) \/ ValidateFill(p) \/ TouchLoad(p) \/ TouchCommit(p)
  PROVE  SerialInv'
<1>. DEFINE t == req[p].tok
<1>0. /\ pc[p] \in {"validateLoad", "validateFill", "touchLoad", "touchCommit"}
      /\ drops[p] = {} /\ req[p].op \in Endpoints \cap Ops /\ t \in held
      /\ req[p].op \in Bearing
  BY DEF ValidateLoad, ValidateFill, TouchLoad, TouchCommit, SerialInv, Placed, DropsSound,
         DropSteps, Presented, Sound, InFlightSound, RequestSound, Bearing
<1>1. CASE ValidateLoad(p)
  <2>1. CASE Finish(p)
    BY <1>0, <1>1, <2>1, FinishPlaced, LocalKept DEF ValidateLoad, stores, caches, clients
  <2>2. CASE ~Finish(p)
    <3>1. /\ UNCHANGED <<req, new, work, stores, caches, clients>>
          /\ \/ pc'[p] = "validateFill" /\ t \in rows[t.user] /\ drops'[p] = {}
             \/ pc'[p] = "rejectDrop"
      BY <1>0, <1>1, <2>2 DEF ValidateLoad, Goto, TypeOK
    <3>2. Placed(p)'
      BY <1>0, <3>1 DEF Placed, DropsSound, Presented, Purging, Adding, Rotating, Added,
                        Validated, Removing, Removed, Bearing, Endpoints, DropSteps, stores,
                        clients
    <3>. QED
      BY <1>0, <3>1, <3>2, LocalKept DEF stores, caches, clients
  <2>. QED
    BY <2>1, <2>2
<1>2. CASE ValidateFill(p)
  <2>1. /\ accessCache' \subseteq accessCache \cup {t} /\ t \in rows[t.user]
        /\ UNCHANGED <<rows, issued, held, loggedOut, req, new, work, drops>>
        /\ pc'[p] = "touchLoad"
    BY <1>2 DEF ValidateFill, SetAccess, CacheSet, stores, clients, Goto, TypeOK, SerialInv,
                Placed, Validated
  <2>2. Owned' /\ OutStays' /\ CachedCurrent'
    <3>1. \A c \in accessCache : c \in rows[c.user]
      BY <1>0, Current DEF SerialInv
    <3>2. t.user \in Users
      BY <1>0, InFlightTokens, TokenFields DEF Sound
    <3>. QED
      BY <2>1, <3>1, <3>2 DEF SerialInv, Owned, OutStays, CachedCurrent, Signed
  <2>3. Placed(p)'
    BY <1>0, <2>1 DEF Placed, DropsSound, Presented, Purging, Adding, Rotating, Added,
                      Validated, Removing, Removed, Bearing, Endpoints
  <2>. QED
    BY <2>2, <2>3, Alone
<1>3. CASE TouchLoad(p)
  <2>1. Placed(p)'
    <3>1. CASE AfterAuth(p)
      BY <1>0, <1>3, <3>1, AfterAuthPlaced DEF TouchLoad, clients
    <3>2. CASE ~AfterAuth(p)
      <4>1. PICK u \in Users : /\ work' = [work EXCEPT ![p] = WritingOne(u, rows[u])]
                               /\ Goto(p, "touchCommit") /\ UNCHANGED <<req, new, drops>>
        BY <1>3, <3>2 DEF TouchLoad, RowsHolding
      <4>2. /\ pc'[p] = "touchCommit" /\ drops'[p] = {} /\ req'[p] = req[p]
            /\ work'[p] = WritingOne(u, rows[u])
        BY <1>0, <4>1 DEF Goto, TypeOK
      <4>3. \A v \in work'[p].dirty : work'[p].list[v] = rows[v]
        BY <4>2, WritingOneIs
      <4>4. UNCHANGED <<rows, held>>
        BY <1>3 DEF TouchLoad, stores, clients
      <4>. QED
        BY <1>0, <4>2, <4>3, <4>4
           DEF Placed, DropsSound, Presented, Purging, Adding, Rotating, Added, Validated,
               Removing, Removed, Bearing, Endpoints
    <3>. QED
      BY <3>1, <3>2
  <2>. QED
    BY <1>0, <1>3, <2>1, LocalKept DEF TouchLoad, stores, caches, clients
<1>4. CASE TouchCommit(p)
  <2>1. Placed(p)'
    BY <1>0, <1>4, AfterAuthPlaced, AfterLostTouchPlaced DEF TouchCommit, clients
  <2>2. \A u \in Users : rows'[u] = rows[u]
    <3>1. CASE CommitSucceeds(work[p])
      BY <1>4, <3>1, CommitWrites DEF TouchCommit, SerialInv, Placed, Validated
    <3>2. CASE CommitFails(work[p])
      BY <3>2, FailsClean DEF stores
    <3>. QED
      BY <1>4, <3>1, <3>2 DEF TouchCommit
  <2>3. UNCHANGED <<accessCache, issued, loggedOut>>
    BY <1>4 DEF TouchCommit, caches, clients
  <2>4. \A c \in accessCache : c \in rows[c.user] /\ c.user \in Users
    <3>1. \A c \in accessCache : c.user \in Users
      BY TokenFields DEF TypeOK
    <3>. QED
      BY <1>0, <3>1, Current DEF SerialInv
  <2>5. Owned' /\ OutStays' /\ CachedCurrent'
    BY <2>2, <2>3, <2>4 DEF SerialInv, Owned, OutStays, CachedCurrent, Signed
  <2>. QED
    BY <2>1, <2>5, Alone
<1>. QED
  BY <1>1, <1>2, <1>3, <1>4

LEMMA SerialDelete ==
  ASSUME TypeOK, Sound, Serial, SerialInv, NEW p \in Procs, DeleteLoad(p) \/ DeleteCommit(p)
  PROVE  SerialInv'
<1>. DEFINE t == req[p].tok
<1>0. /\ pc[p] \in {"deleteLoad", "deleteCommit"} /\ req[p].op \in Bearing /\ t \in held
      /\ t \in issued /\ t.user \in Users /\ Presented(p)
  BY InFlightTokens
     DEF DeleteLoad, DeleteCommit, SerialInv, Placed, Presented, Sound, InFlightSound,
         RequestSound, Bearing, Endpoints
<1>1. \A c \in accessCache : c \in rows[c.user] /\ c.user \in Users
  <2>1. \A c \in accessCache : c.user \in Users
    BY TokenFields DEF TypeOK
  <2>. QED
    BY <1>0, <2>1, Current DEF SerialInv, Clearing
<1>2. CASE DeleteLoad(p)
  <2>1. UNCHANGED <<stores, caches, clients, req, new>>
    BY <1>2 DEF DeleteLoad
  <2>2. CASE \E u \in RowsHolding(t.sid) : \E e \in EntriesOf(rows[u], t.sid) :
               /\ work' = [work EXCEPT ![p] =
                             WritingOne(u, rows[u] \ EntriesOf(rows[u], t.sid))]
               /\ drops' = [drops EXCEPT ![p] = KeysOf(e)]
               /\ Goto(p, "deleteCommit")
    <3>1. PICK u \in Users : \E e \in rows[u] :
             /\ e.sid = t.sid
             /\ work' = [work EXCEPT ![p] =
                           WritingOne(u, rows[u] \ EntriesOf(rows[u], t.sid))]
             /\ drops' = [drops EXCEPT ![p] = KeysOf(e)]
             /\ Goto(p, "deleteCommit")
      BY <2>2 DEF RowsHolding, EntriesOf
    <3>2. PICK e \in rows[u] :
             /\ e.sid = t.sid
             /\ work' = [work EXCEPT ![p] =
                           WritingOne(u, rows[u] \ EntriesOf(rows[u], t.sid))]
             /\ drops' = [drops EXCEPT ![p] = KeysOf(e)]
             /\ Goto(p, "deleteCommit")
      BY <3>1
    <3>3. u = t.user /\ EntriesOf(rows[u], t.sid) = {e}
      BY <1>0, <3>2, OneEntry DEF SerialInv
    <3>4. /\ pc'[p] = "deleteCommit" /\ drops'[p] = KeysOf(e) /\ req'[p] = req[p]
          /\ work'[p].dirty = {t.user} /\ work'[p].list[t.user] = rows[t.user] \ {e}
      <4>1. /\ pc'[p] = "deleteCommit" /\ drops'[p] = KeysOf(e) /\ req'[p] = req[p]
            /\ work'[p] = WritingOne(u, rows[u] \ EntriesOf(rows[u], t.sid))
        BY <2>1, <3>2 DEF Goto, TypeOK
      <4>2. work'[p] = WritingOne(t.user, rows[t.user] \ {e})
        BY <3>3, <4>1
      <4>. QED
        BY <1>0, <4>1, <4>2 DEF WritingOne, Writing
    <3>5. req[p].op \in {"logout", "lostLogout"}
      BY <1>2 DEF DeleteLoad, Sound, InFlightSound, RequestSound
    <3>6. Removing(p)'
      BY <2>1, <3>2, <3>3, <3>4, <3>5 DEF Removing, stores, clients
    <3>7. Placed(p)'
      BY <1>0, <2>1, <3>4, <3>5, <3>6 DEF Placed, DropsSound, Presented, Purging, Adding, Rotating,
                                    Added, Validated, Removed, Bearing, Endpoints, clients
    <3>. QED
      BY <1>0, <2>1, <3>7, LocalKept DEF stores, caches, clients, Clearing
  <2>3. CASE /\ RowsHolding(t.sid) = {}
             /\ Goto(p, AfterDelete(p))
    <3>1. /\ pc'[p] = AfterDelete(p) /\ req'[p] = req[p]
          /\ \A u \in Users : \A e \in rows[u] : e.sid # t.sid
      BY <2>1, <2>3 DEF Goto, TypeOK, RowsHolding, EntriesOf
    <3>2. Placed(p)'
      BY <1>0, <2>1, <3>1
         DEF Placed, DropsSound, Presented, Purging, Adding, Rotating, Added, Validated,
             Removing, Removed, Bearing, Endpoints, DropSteps, AfterDelete, stores, clients
    <3>. QED
      BY <1>0, <2>1, <3>2, LocalKept DEF stores, caches, clients, Clearing
  <2>. QED
    BY <1>2, <2>2, <2>3 DEF DeleteLoad
<1>3. CASE DeleteCommit(p)
  <2>1. CASE CommitFails(work[p]) /\ Finish(p)
    BY <1>0, <1>3, <2>1, FailsClean, FinishPlaced, LocalKept
       DEF DeleteCommit, stores, caches, clients, Clearing
  <2>2. CASE /\ CommitSucceeds(work[p]) /\ Goto(p, AfterDelete(p))
             /\ UNCHANGED <<req, new, drops>>
    <3>1. /\ pc'[p] = AfterDelete(p) /\ UNCHANGED <<req, new, drops, caches, clients>>
      BY <1>3, <2>2 DEF DeleteCommit, Goto, TypeOK
    <3>2. PICK e \in rows[t.user] :
             /\ e.sid = t.sid
             /\ drops[p] = KeysOf(e)
             /\ work[p].dirty = {t.user}
             /\ work[p].list[t.user] = rows[t.user] \ {e}
      BY <1>3 DEF DeleteCommit, SerialInv, Placed, Removing
    <3>3. \A u \in Users : rows'[u] = IF u = t.user THEN rows[u] \ {e} ELSE rows[u]
      BY <2>2, <3>2, CommitWrites
    <3>4. \A u \in Users : \A f \in rows'[u] : f.sid # t.sid
      <4>1. ASSUME NEW u \in Users, NEW f \in rows[u], f.sid = t.sid
            PROVE  u = t.user /\ f = e
        BY <1>0, <3>2, <4>1, OneEntry DEF SerialInv, EntriesOf
      <4>. QED
        BY <3>3, <4>1
    <3>5. Placed(p)'
      BY <1>0, <3>1, <3>4
         DEF Placed, DropsSound, Presented, Purging, Adding, Rotating, Added, Validated,
             Removing, Removed, Bearing, Endpoints, DropSteps, AfterDelete, clients
    <3>6. CachedCurrent'
      <4>1. AccessKey(e) \in drops'[p] /\ pc'[p] \in Clearing
        BY <3>1, <3>2 DEF AccessKey, KeysOf, AfterDelete, Clearing
      <4>. QED
        BY <1>1, <3>1, <3>3, <4>1 DEF CachedCurrent, caches
    <3>7. Owned' /\ OutStays'
      BY <3>1, <3>3 DEF SerialInv, Owned, OutStays, Signed, caches, clients
    <3>. QED
      BY <3>5, <3>6, <3>7, Alone
  <2>. QED
    BY <1>3, <2>1, <2>2 DEF DeleteCommit
<1>. QED
  BY <1>2, <1>3

LEMMA SerialRotate ==
  ASSUME TypeOK, Sound, Serial, SerialInv, NEW p \in Procs,
         \/ Rotate(p) \/ Revoke(p) \/ RotateUnknown(p)
         \/ RevokeLoad(p) \/ RotateCommit(p)
  PROVE  SerialInv'
<1>. DEFINE t == req[p].tok
<1>0. /\ pc[p] \in {"rotateLoad", "revokeLoad", "rotateCommit"} /\ req[p].op = "refresh"
      /\ t \in held /\ t \in issued /\ t.user \in Users /\ req[p].who = t.user
  BY InFlightTokens
     DEF Rotate, Revoke, RotateUnknown, RevokeLoad, RotateCommit, SerialInv, Placed,
         Presented, Sound, InFlightSound, RequestSound, Bearing, Endpoints
<1>1. \A c \in accessCache : c \in rows[c.user] /\ c.user \in Users
  <2>1. \A c \in accessCache : c.user \in Users
    BY TokenFields DEF TypeOK
  <2>. QED
    BY <1>0, <2>1, Current DEF SerialInv, Clearing
<1>2. CASE Rotate(p)
  <2>1. PICK n \in SignFor(t.user, t.sid) :
          /\ issued' = issued \cup {n}
          /\ new' = [new EXCEPT ![p] = n]
          /\ work' = [work EXCEPT ![p] =
                        WritingOne(t.user, (rows[t.user] \ {t}) \cup {n})]
    BY <1>2 DEF Rotate
  <2>2. n.user = t.user /\ n.sid = t.sid /\ \A i \in issued : i.pair # n.pair
    BY DEF SignFor
  <2>3. /\ pc'[p] = "rotateCommit" /\ new'[p] = n /\ req'[p] = req[p]
        /\ drops'[p] = KeysOf(t) /\ t \in rows[t.user]
        /\ work'[p] = WritingOne(t.user, (rows[t.user] \ {t}) \cup {n})
        /\ UNCHANGED <<stores, caches, held, loggedOut>>
    BY <1>2, <2>1 DEF Rotate, Goto, TypeOK
  <2>4. /\ work'[p].dirty = {t.user}
        /\ work'[p].list[t.user] = (rows[t.user] \ {t}) \cup {n}
    BY <1>0, <2>3 DEF WritingOne, Writing
  <2>5. n \notin held /\ n.pair # t.pair
    BY <1>0, <2>2 DEF Sound, CachesSound
  <2>6. Rotating(p)'
    BY <2>2, <2>3, <2>4, <2>5 DEF Rotating, stores
  <2>7. Placed(p)'
    BY <1>0, <2>3, <2>6 DEF Placed, DropsSound, Presented, Purging, Adding, Added,
                            Validated, Removing, Removed, Bearing, Endpoints
  <2>8. Owned'
    BY <1>0, <2>1, <2>2 DEF SerialInv, Owned
  <2>9. OutStays' /\ CachedCurrent'
    BY <1>1, <2>1, <2>3 DEF SerialInv, OutStays, CachedCurrent, Signed, stores, caches
  <2>. QED
    BY <2>7, <2>8, <2>9, Alone
<1>3. CASE Revoke(p)
  <2>1. PICK e \in rows[t.user] :
          /\ e.sid = t.sid
          /\ e = t => Dead(t)
          /\ drops' = [drops EXCEPT ![p] = KeysOf(e)]
          /\ work' = [work EXCEPT ![p] =
                WritingOne(t.user, rows[t.user] \ EntriesOf(rows[t.user], t.sid))]
    BY <1>3 DEF Revoke, EntriesOf
  <2>2. EntriesOf(rows[t.user], t.sid) = {e}
    BY <1>0, <2>1, OneEntry DEF SerialInv
  <2>3. /\ pc'[p] = "revokeLoad" /\ req'[p] = req[p] /\ drops'[p] = KeysOf(e)
        /\ work'[p] = WritingOne(t.user, rows[t.user] \ {e})
        /\ UNCHANGED <<stores, caches, clients>>
    BY <1>3, <2>1, <2>2 DEF Revoke, Goto, TypeOK
  <2>4. work'[p].dirty = {t.user} /\ work'[p].list[t.user] = rows[t.user] \ {e}
    BY <1>0, <2>3 DEF WritingOne, Writing
  <2>5. Removing(p)'
    BY <1>0, <2>1, <2>3, <2>4 DEF Removing, stores, clients, Dead
  <2>6. Placed(p)'
    BY <1>0, <2>3, <2>5 DEF Placed, DropsSound, Presented, Purging, Adding, Rotating, Added,
                            Validated, Removed, Bearing, Endpoints, clients
  <2>. QED
    BY <1>0, <2>3, <2>6, LocalKept DEF stores, caches, clients, Clearing
<1>4. CASE RotateUnknown(p)
  BY <1>0, <1>4, FinishPlaced, LocalKept DEF RotateUnknown, stores, caches, clients, Clearing
<1>5. CASE RevokeLoad(p)
  <2>1. pc[p] = "revokeLoad" /\ Removing(p)
    BY <1>5 DEF RevokeLoad, SerialInv, Placed
  <2>2. req[p].who \in present
    BY <1>0, <2>1 DEF Removing, Sound, RowsSound
  <2>3. pc'[p] = "deleteCommit" /\ UNCHANGED <<stores, caches, clients, req, new, work, drops>>
    BY <1>5, <2>2 DEF RevokeLoad, Goto, TypeOK
  <2>4. Removing(p)'
    BY <2>1, <2>3 DEF Removing, stores, clients, Dead
  <2>5. Placed(p)'
    BY <1>0, <2>3, <2>4 DEF Placed, DropsSound, Presented, Purging, Adding, Rotating, Added,
                            Validated, Removed, Bearing, Endpoints, clients
  <2>. QED
    BY <1>0, <2>3, <2>5, LocalKept DEF stores, caches, clients, Clearing
<1>6. CASE RotateCommit(p)
  <2>1. CASE CommitFails(work[p]) /\ Finish(p)
    BY <1>0, <1>6, <2>1, FailsClean, FinishPlaced, LocalKept
       DEF RotateCommit, stores, caches, clients, Clearing
  <2>2. CASE /\ CommitSucceeds(work[p]) /\ Goto(p, "reload")
             /\ UNCHANGED <<req, new, drops>>
    <3>. DEFINE n == new[p]
    <3>1. /\ pc'[p] = "reload" /\ UNCHANGED <<req, new, drops, caches, clients>>
      BY <1>6, <2>2 DEF RotateCommit, Goto, TypeOK
    <3>2. /\ t \in rows[t.user]
          /\ n.sid = t.sid /\ n.user = t.user /\ n \notin held
          /\ work[p].dirty = {t.user}
          /\ work[p].list[t.user] = (rows[t.user] \ {t}) \cup {n}
          /\ drops[p] = KeysOf(t)
      BY <1>6 DEF RotateCommit, SerialInv, Placed, Rotating
    <3>3. \A u \in Users :
             rows'[u] = IF u = t.user THEN (rows[u] \ {t}) \cup {n} ELSE rows[u]
      BY <2>2, <3>2, CommitWrites
    <3>4. Added(p)'
      BY <1>0, <3>1, <3>2, <3>3 DEF Added, clients
    <3>5. Placed(p)'
      BY <1>0, <3>1, <3>4 DEF Placed, DropsSound, Presented, Purging, Adding, Rotating,
                              Validated, Removing, Removed, Bearing, Endpoints, clients
    <3>6. CachedCurrent'
      <4>1. AccessKey(t) \in drops'[p] /\ pc'[p] \in Clearing
        BY <3>1, <3>2 DEF AccessKey, KeysOf, Clearing
      <4>. QED
        BY <1>1, <3>1, <3>3, <4>1 DEF CachedCurrent, caches
    <3>7. Owned' /\ OutStays'
      <4>1. n.sid \notin loggedOut
        BY <1>0, <3>2 DEF SerialInv, OutStays
      <4>2. \A u \in Users : \A e \in rows'[u] : e \in rows[u] \/ e = n
        BY <3>3
      <4>. QED
        BY <3>1, <4>1, <4>2 DEF SerialInv, Owned, OutStays, Signed, caches, clients
    <3>. QED
      BY <3>5, <3>6, <3>7, Alone
  <2>. QED
    BY <1>6, <2>1, <2>2 DEF RotateCommit
<1>. QED
  BY <1>2, <1>3, <1>4, <1>5, <1>6

(* A key that Redis is asked to delete is deleted. *)
LEMMA DeleteDrops ==
  ASSUME Serial, NEW key, Delete(key)
  PROVE  /\ accessCache' \subseteq accessCache
         /\ \A c \in accessCache' : AccessKey(c) # key
BY DEF Serial, Delete, AccessKey

LEMMA SerialDrop ==
  ASSUME TypeOK, Sound, Serial, SerialInv, NEW p \in Procs, NEW key \in drops[p], Drop(p, key)
  PROVE  SerialInv'
<1>. DEFINE t == req[p].tok
<1>1. /\ accessCache' \subseteq accessCache /\ \A c \in accessCache' : AccessKey(c) # key
      /\ UNCHANGED <<rows, issued, held, life>>
      /\ drops'[p] = drops[p] \ {key} /\ pc[p] \in DropSteps
  BY DeleteDrops DEF Drop, TypeOK, stores
<1>2. \A q \in Procs : q = p
  BY DEF Serial
<1>3. /\ pc[p] = "rotateDrop" => req[p].op = "refresh"
      /\ pc[p] = "logoutDrop" => req[p].op = "logout" /\ t \in issued
  BY DEF Sound, InFlightSound, RequestSound, Bearing, Endpoints
<1>4. CASE drops[p] # {key}
  <2>1. UNCHANGED <<pc, req, new, work, loggedOut>>
    BY <1>4 DEF Drop
  <2>2. Placed(p)'
    <3>1. Purging(p)'
      BY <1>1, <2>1 DEF SerialInv, Placed, Purging, Dead
    <3>. QED
      BY <1>1, <2>1, <3>1
         DEF SerialInv, Placed, DropsSound, Presented, Adding, Rotating, Added, Validated,
             Removing, Removed, DropSteps
  <2>3. Owned' /\ OutStays' /\ CachedCurrent'
    BY <1>1, <1>2, <2>1 DEF SerialInv, Owned, OutStays, CachedCurrent, Signed
  <2>. QED
    BY <2>2, <2>3, Alone
<1>5. CASE drops[p] = {key}
  <2>1. AfterDrops(p) /\ drops'[p] = {}
    BY <1>1, <1>5 DEF Drop
  <2>2. \/ pc[p] = "purgeDrop" /\ pc'[p] = "purgeCommit" /\ UNCHANGED <<req, new, work>>
        \/ pc[p] = "rotateDrop" /\ pc'[p] = "cacheAccess" /\ UNCHANGED <<req, new, work>>
        \/ pc[p] \in {"logoutDrop", "rejectDrop"} /\ pc'[p] = "idle" /\ req'[p] = NoReq
    BY <1>1, <2>1 DEF AfterDrops, DropSteps, Goto, TypeOK
  <2>3. Placed(p)'
    <3>1. CASE pc[p] = "purgeDrop" /\ pc'[p] = "purgeCommit" /\ UNCHANGED <<req, new, work>>
      <4>1. Purging(p)'
        BY <1>1, <3>1 DEF SerialInv, Placed, Purging, Dead
      <4>. QED
        BY <1>1, <2>1, <3>1, <4>1
           DEF SerialInv, Placed, DropsSound, Presented, Adding, Rotating, Added, Validated,
               Removing, Removed
    <3>2. CASE pc[p] = "rotateDrop" /\ pc'[p] = "cacheAccess" /\ UNCHANGED <<req, new, work>>
      BY <1>1, <1>3, <2>1, <3>2
         DEF SerialInv, Placed, DropsSound, Presented, Purging, Adding, Rotating, Added,
             Validated, Removing, Removed
    <3>3. CASE pc'[p] = "idle" /\ req'[p] = NoReq
      BY <2>1, <3>3
         DEF Placed, DropsSound, Presented, Purging, Adding, Rotating, Added, Validated,
             Removing, Removed, NoReq, Bearing, Endpoints
    <3>. QED
      BY <2>2, <3>1, <3>2, <3>3
  <2>4. \A c \in accessCache' : c \in rows[c.user]
    BY <1>1, <1>2, <1>5 DEF SerialInv, CachedCurrent
  <2>5. Owned' /\ CachedCurrent'
    BY <1>1, <2>4 DEF SerialInv, Owned, CachedCurrent
  <2>6. OutStays'
    <3>1. CASE loggedOut' = loggedOut
      BY <1>1, <3>1 DEF SerialInv, OutStays, Signed
    <3>2. CASE loggedOut' # loggedOut
      <4>1. pc[p] = "logoutDrop" /\ loggedOut' = loggedOut \cup {t.sid}
        BY <3>2 DEF Drop
      <4>2. \A u \in Users : \A e \in rows[u] : e.sid # t.sid
        BY <4>1 DEF SerialInv, Placed, Removed
      <4>3. \A c \in accessCache' : c.user \in Users
        BY <1>1, TokenFields DEF TypeOK
      <4>4. Signed(t.sid)
        BY <1>3, <4>1 DEF Signed
      <4>. QED
        BY <1>1, <2>4, <4>1, <4>2, <4>3, <4>4 DEF SerialInv, OutStays, Signed
    <3>. QED
      BY <3>1, <3>2
  <2>. QED
    BY <2>3, <2>5, <2>6, Alone
<1>. QED
  BY <1>4, <1>5

LEMMA SerialEnvironment ==
  ASSUME TypeOK, Sound, SerialInv, Serial, (\E t \in issued : Expire(t)) \/ Evict \/ UNCHANGED vars
  PROVE  SerialInv'
<1>1. /\ UNCHANGED <<rows, issued, held, loggedOut, pc, req, new, work, drops>>
      /\ accessCache' \subseteq accessCache
  BY DEF Expire, Evict, stores, caches, clients, vars
<1>2. \A e \in Token : Dead(e) => Dead(e)'
  BY TokenFields DEF Expire, Evict, clients, vars, Dead, Fresh, TypeOK
<1>3. ASSUME NEW p \in Procs PROVE Placed(p)'
  <2>1. /\ \A u \in Users : rows[u] \subseteq Token
        /\ work[p].dirty \subseteq Users
    BY DEF TypeOK, Work
  <2>2. Purging(p)'
    BY <1>1, <1>2, <2>1 DEF SerialInv, Placed, Purging
  <2>3. Removing(p)'
    <3>1. pc[p] \in {"revokeLoad", "deleteCommit"} => req[p].tok \in Token
      BY InFlightTokens DEF Sound, InFlightSound, RequestSound, Bearing, Endpoints
    <3>. QED
      BY <1>1, <1>2, <3>1 DEF SerialInv, Placed, Removing
  <2>. QED
    BY <1>1, <2>2, <2>3 DEF SerialInv, Placed, DropsSound, Presented, Adding, Rotating,
                            Added, Validated, Removed
<1>4. Owned' /\ OutStays' /\ CachedCurrent'
  BY <1>1 DEF SerialInv, Owned, OutStays, CachedCurrent, Signed
<1>. QED
  BY <1>3, <1>4 DEF SerialInv

LEMMA SerialStep == TypeOK /\ Sound /\ Serial /\ SerialInv /\ [Next]_vars => SerialInv'
<1>. SUFFICES ASSUME TypeOK, Sound, Serial, SerialInv, [Next]_vars PROVE SerialInv'
  OBVIOUS
<1>1. ASSUME NEW p \in Procs, Continue(p) PROVE SerialInv'
  BY <1>1, SerialPurge, SerialLogin, SerialDeliver, SerialAuthenticate, SerialDelete,
     SerialRotate, SerialDrop DEF Continue
<1>2. ASSUME NEW p \in Procs PROVE ~Crash(p)
  BY DEF Crash, Serial
<1>. QED
  BY <1>1, <1>2, SerialStart, SerialEnvironment DEF Next

LEMMA SerialAlways == ASSUME Serial PROVE Spec => [](TypeOK /\ Sound /\ SerialInv)
<1>1. TypeOK /\ Sound /\ SerialInv /\ [Next]_vars => (TypeOK /\ Sound /\ SerialInv)'
  BY SerialStep, TypeStep, SoundStep DEF Sound
<1>2. Init => TypeOK /\ Sound /\ SerialInv
  BY TypeInit, SoundInit, SerialInit
<1>. QED
  BY <1>1, <1>2, PTL DEF Spec

(* "so the current bearer token can no longer be used" (routes/auth.py:344): *)
(* once a logout is answered with success no token of the session passes     *)
(* validation, neither by the cache nor by the row, whatever the client has  *)
(* refreshed before and whatever the database refuses.                       *)
THEOREM LogoutIsFinal == ASSUME Serial PROVE Spec => []LogoutSticks
<1>1. TypeOK /\ Sound /\ SerialInv => LogoutSticks
  <2>. SUFFICES ASSUME TypeOK, Sound, SerialInv, NEW t \in issued, t.sid \in loggedOut, Usable(t)
                PROVE  FALSE
    BY DEF LogoutSticks
  <2>1. t.user \in Users
    BY TokenFields DEF TypeOK
  <2>. QED
    BY <2>1 DEF SerialInv, OutStays, Usable
<1>. QED
  BY <1>1, SerialAlways, PTL

-----------------------------------------------------------------------------
(* The refinement.  What AuthStore sees of a state: *)

Live == UNION {rows[u] : u \in Users}
Over == {t \in issued : Dead(t)}
Record(p) ==
  [tok |-> req[p].tok, op |-> IF req[p].op = "lostLogout" THEN "logout" ELSE req[p].op]
InService == {Record(p) : p \in {q \in Procs : Serving(q)}}

LEMMA StoreVars ==
  /\ Store!vars = <<Live, held, Over, InService, loggedOut>>
  /\ Store!vars' = <<Live, held, Over, InService, loggedOut>>'
BY DEF Store!vars, Live, Over, InService, Record

(* The actions of AuthStore in these terms. *)
LEMMA StoreLogin ==
  ASSUME NEW t \in Token, t.sid \notin loggedOut, \A e \in Live \cup held : e.sid # t.sid,
         Live' = Live \cup {t}, UNCHANGED <<held, Over, InService, loggedOut>>
  PROVE  Store!Next
<1>1. Store!Login(t)
  BY DEF Store!Login, Live, Over, InService, Record
<1>. QED
  BY <1>1 DEF Store!Next

LEMMA StoreRotate ==
  ASSUME NEW t \in Token, NEW n \in Token, t \in Live,
         [tok |-> t, op |-> "refresh"] \in InService,
         n.sid = t.sid, n.user = t.user, n.pair # t.pair, n \notin held,
         Live' = (Live \ {t}) \cup {n}, UNCHANGED <<held, Over, InService, loggedOut>>
  PROVE  Store!Next
<1>1. Store!Rotate(t, n)
  BY DEF Store!Rotate, Live, Over, InService, Record
<1>. QED
  BY <1>1 DEF Store!Next

LEMMA StoreEndDead ==
  ASSUME NEW ended \in SUBSET Live, ended # {}, ended \subseteq Over,
         Live' = Live \ ended, UNCHANGED <<held, Over, InService, loggedOut>>
  PROVE  Store!Next
<1>1. Store!End(ended)
  BY DEF Store!End, Live, Over, InService, Record
<1>. QED
  BY <1>1 DEF Store!Next, Live

LEMMA StoreEndOne ==
  ASSUME NEW e \in Live, NEW r \in InService, r.tok.sid = e.sid,
         r.op = "logout" \/ (r.op = "refresh" /\ r.tok # e),
         Live' = Live \ {e}, UNCHANGED <<held, Over, InService, loggedOut>>
  PROVE  Store!Next
<1>1. Store!LoggingOut(e) \/ Store!Replayed(e)
  BY DEF Store!LoggingOut, Store!Replayed, InService, Record
<1>2. Store!End({e})
  BY <1>1 DEF Store!End, Live, Over, InService, Record
<1>. QED
  BY <1>2 DEF Store!Next, Live

LEMMA StoreDeliver ==
  ASSUME NEW t \in Token, t \in Live, t \notin held, held' = held \cup {t},
         InService' = {r \in InService : r.op # "refresh" \/ r.tok.sid # t.sid},
         UNCHANGED <<Live, Over, loggedOut>>
  PROVE  Store!Next
<1>1. Store!Deliver(t)
  BY DEF Store!Deliver, Live, Over, InService, Record
<1>. QED
  BY <1>1 DEF Store!Next

LEMMA StoreAdmit ==
  ASSUME NEW t \in Token, NEW op \in Ops, t \in held,
         IF op = "refresh" THEN t \notin Over ELSE t \in Live,
         InService' = InService \cup {[tok |-> t, op |-> op]},
         UNCHANGED <<Live, held, Over, loggedOut>>
  PROVE  Store!Next
<1>1. Store!Admit(t, op)
  BY DEF Store!Admit, Live, Over, InService, Record
<1>. QED
  BY <1>1 DEF Store!Next

LEMMA StoreAnswerLogout ==
  ASSUME NEW r \in InService, r.op = "logout", \A e \in Live : e.sid # r.tok.sid,
         InService' = InService \ {r}, loggedOut' = loggedOut \cup {r.tok.sid},
         UNCHANGED <<Live, held, Over>>
  PROVE  Store!Next
<1>1. Store!Answer(r)
  BY DEF Store!Answer, Live, Over, InService, Record
<1>. QED
  BY <1>1 DEF Store!Next, InService, Record

LEMMA StoreFail ==
  ASSUME NEW r \in InService, InService' = InService \ {r},
         UNCHANGED <<Live, held, Over, loggedOut>>
  PROVE  Store!Next
<1>1. Store!Fail(r)
  BY DEF Store!Fail, Live, Over, InService, Record
<1>. QED
  BY <1>1 DEF Store!Next, InService, Record

LEMMA StoreExpire ==
  ASSUME NEW t \in Token, Over' = Over \cup {t}, UNCHANGED <<Live, held, InService, loggedOut>>
  PROVE  Store!Next
<1>1. Store!Expire(t)
  BY DEF Store!Expire, Live, Over, InService, Record
<1>. QED
  BY <1>1 DEF Store!Next

(* With one request, InService is what it is doing. *)
LEMMA InServiceIs ==
  ASSUME Serial, NEW p \in Procs
  PROVE  /\ InService = IF Serving(p) THEN {Record(p)} ELSE {}
         /\ InService' = IF Serving(p)' THEN {Record(p)'} ELSE {}
<1>1. Procs = {p}
  BY DEF Serial
<1>. QED
  BY <1>1 DEF InService

LEMMA LiveIs ==
  ASSUME TypeOK, Sound, NEW t
  PROVE  /\ t \in Live <=> t \in Token /\ t \in rows[t.user]
         /\ \A u \in Users : t \in rows[u] => t \in Token /\ t.user = u /\ t \in Live
<1>1. \A u \in Users : rows[u] \subseteq Token /\ \A e \in rows[u] : e.user = u
  BY DEF TypeOK, Sound, RowsSound, ListSound
<1>. QED
  BY <1>1, TokenFields DEF Live

(* A commit that writes one row. *)
LEMMA LiveSwap ==
  ASSUME TypeOK, Sound, NEW w \in Users, NEW gone, NEW come, gone \subseteq rows[w],
         \A u \in Users : rows'[u] = IF u = w THEN (rows[w] \ gone) \cup come ELSE rows[u]
  PROVE  Live' = (Live \ gone) \cup come
<1>1. \A u \in Users : u # w => rows[u] \cap gone = {}
  BY DEF Sound, RowsSound, ListSound
<1>2. \A e : e \in Live <=> \E u \in Users : e \in rows[u]
  BY DEF Live
<1>3. \A e : e \in Live' <=> \E u \in Users : e \in rows'[u]
  BY DEF Live
<1>4. ASSUME NEW e PROVE e \in Live' <=> e \in (Live \ gone) \cup come
  BY <1>1, <1>2, <1>3
<1>. QED
  BY <1>4

(* A step that the stores do not show: the request goes on as it was or is  *)
(* no longer served.                                                        *)
LEMMA StoreQuiet ==
  ASSUME Serial, NEW p \in Procs, UNCHANGED <<rows, held, issued, life, loggedOut>>,
         Serving(p)' => Serving(p) /\ Record(p)' = Record(p)
  PROVE  [Store!Next]_Store!vars
<1>1. UNCHANGED <<Live, held, Over, loggedOut>>
  BY DEF Live, Over, Dead
<1>2. CASE InService' = InService
  BY <1>1, <1>2, StoreVars
<1>3. CASE InService' # InService
  <2>1. InService = {Record(p)} /\ InService' = InService \ {Record(p)}
    BY <1>3, InServiceIs
  <2>. QED
    BY <1>1, <2>1, StoreFail
<1>. QED
  BY <1>2, <1>3

LEMMA StoreInit == Init => Store!Init
<1>. SUFFICES ASSUME Init PROVE Store!Init
  OBVIOUS
<1>1. Live = {} /\ Over = {} /\ held = {} /\ loggedOut = {}
  BY DEF Init, Live, Over
<1>2. InService = {}
  BY DEF Init, InService, Serving, NoReq, Endpoints
<1>. QED
  BY <1>1, <1>2 DEF Store!Init, Live, Over, InService, Record

LEMMA StoreStart ==
  ASSUME TypeOK, Sound, Serial, SerialInv, NEW p \in Procs, Start(p)
  PROVE  [Store!Next]_Store!vars
<1>1. /\ pc[p] = "idle" /\ req[p] = NoReq /\ drops[p] = {}
      /\ UNCHANGED <<rows, held, issued, life, loggedOut>>
  BY DEF Start, StartPurge, StartLogin, ValidateHit, ValidateMiss, StartRefresh, Presents,
         SerialInv, Placed, Presented, DropsSound, DropSteps, stores, clients
<1>2. ~Serving(p)
  BY <1>1 DEF Serving, NoReq, Endpoints
<1>3. CASE StartPurge(p) \/ \E u \in Users : StartLogin(p, u)
  <2>1. req'[p].op \in {"startup", "login"}
    BY <1>3 DEF StartPurge, StartLogin, TypeOK
  <2>2. ~Serving(p)'
    BY <2>1 DEF Serving, Endpoints
  <2>. QED
    BY <1>1, <2>2, StoreQuiet
<1>4. ASSUME NEW t \in held, NEW op \in Endpoints, ValidateHit(p, t, op) \/ ValidateMiss(p, t, op)
      PROVE  [Store!Next]_Store!vars
  <2>1. req'[p] = [op |-> op, who |-> t.user, tok |-> t] /\ op \in Ops
    BY <1>4 DEF ValidateHit, ValidateMiss, Presents, TypeOK
  <2>2. CASE pc'[p] = "touchLoad"
    <3>1. t \in accessCache
      BY <1>4, <2>2 DEF ValidateHit, ValidateMiss, Goto, TypeOK
    <3>2. t \in Token /\ t \in Live
      BY <1>1, <3>1, Current, LiveIs DEF SerialInv, TypeOK
    <3>3. Serving(p)' /\ Record(p)' = [tok |-> t, op |-> op]
      BY <2>1, <2>2 DEF Serving, Admitted, Record, Endpoints
    <3>4. InService' = InService \cup {[tok |-> t, op |-> op]}
      BY <1>2, <3>3, InServiceIs
    <3>5. UNCHANGED <<Live, Over>> /\ op # "refresh"
      BY <1>1 DEF Live, Over, Dead, Endpoints
    <3>. QED
      BY <1>1, <2>1, <3>2, <3>4, <3>5, StoreAdmit
  <2>3. CASE pc'[p] # "touchLoad"
    <3>1. pc'[p] \in {"rejectDrop", "validateLoad"}
      BY <1>4, <2>3 DEF ValidateHit, ValidateMiss, Goto, TypeOK
    <3>2. ~Serving(p)'
      BY <2>1, <3>1 DEF Serving, Admitted, Endpoints
    <3>. QED
      BY <1>1, <3>2, StoreQuiet
  <2>. QED
    BY <2>2, <2>3
<1>5. ASSUME NEW t \in held, StartRefresh(p, t)
      PROVE  [Store!Next]_Store!vars
  <2>1. /\ req'[p] = [op |-> "refresh", who |-> t.user, tok |-> t] /\ "refresh" \in Ops
        /\ ~Dead(t)
    BY <1>5 DEF StartRefresh, TypeOK
  <2>2. InService' = InService \cup {[tok |-> t, op |-> "refresh"]}
    BY <1>2, <2>1, InServiceIs DEF Serving, Record
  <2>3. UNCHANGED <<Live, Over>> /\ t \in Token /\ t \notin Over
    BY <1>1, <2>1 DEF Live, Over, Dead, TypeOK
  <2>. QED
    BY <1>1, <2>1, <2>2, <2>3, StoreAdmit
<1>. QED
  BY <1>3, <1>4, <1>5 DEF Start

LEMMA FinishUnserved == ASSUME TypeOK, NEW p \in Procs, Finish(p) PROVE ~Serving(p)'
BY FinishPlaced DEF Serving, NoReq, Endpoints

LEMMA StorePurge ==
  ASSUME TypeOK, Sound, Serial, SerialInv, NEW p \in Procs,
         PurgeLoad(p) \/ PurgeNothing(p) \/ PurgeFails(p) \/ PurgeCommit(p)
  PROVE  [Store!Next]_Store!vars
<1>1. /\ pc[p] \in {"purge", "purgeCommit"} /\ req[p].op \in {"login", "list", "startup"}
      /\ UNCHANGED <<held, issued, life, loggedOut>>
  BY DEF PurgeLoad, PurgeNothing, PurgeFails, PurgeCommit, SerialInv, Placed, Presented, clients
<1>2. ~Serving(p)
  BY <1>1 DEF Serving, Admitted
<1>3. ~Serving(p)'
  <2>1. CASE Finish(p)
    BY <2>1, FinishUnserved
  <2>2. CASE ~Finish(p)
    <3>1. req'[p] = req[p] /\ pc'[p] \in {"purgeDrop", "loginLoad"}
      BY <2>2 DEF PurgeLoad, PurgeNothing, PurgeFails, PurgeCommit, AfterPurge, Goto, TypeOK
    <3>. QED
      BY <1>1, <3>1 DEF Serving, Admitted
  <2>. QED
    BY <2>1, <2>2
<1>4. CASE rows' = rows
  BY <1>1, <1>3, <1>4, StoreQuiet
<1>5. CASE rows' # rows
  <2>1. PurgeCommit(p) /\ CommitSucceeds(work[p])
    BY <1>5, FailsClean DEF PurgeLoad, PurgeNothing, PurgeFails, PurgeCommit, stores
  <2>2. Purging(p) /\ pc[p] = "purgeCommit"
    BY <2>1 DEF PurgeCommit, SerialInv, Placed
  <2>3. \A u \in Users : /\ rows'[u] \subseteq rows[u]
                         /\ \A e \in rows[u] \ rows'[u] : Dead(e)
    BY <2>1, <2>2, CommitWrites DEF Purging
  <2>. DEFINE ended == Live \ Live'
  <2>4. Live' = Live \ ended
    BY <2>3 DEF Live
  <2>5. ended \subseteq Over
    <3>. SUFFICES ASSUME NEW e \in Live, e \notin Live' PROVE e \in Over
      OBVIOUS
    <3>1. PICK u \in Users : e \in rows[u]
      BY DEF Live
    <3>2. e \notin rows'[u]
      BY DEF Live
    <3>. QED
      BY <2>3, <3>1, <3>2 DEF Over, Sound, RowsSound, ListSound
  <2>6. UNCHANGED <<Over, InService>>
    BY <1>1, <1>2, <1>3, InServiceIs DEF Over, Dead
  <2>7. CASE ended = {}
    BY <1>1, <2>4, <2>6, <2>7, StoreVars
  <2>8. CASE ended # {}
    <3>. HIDE DEF ended
    <3>1. ended \in SUBSET Live
      BY DEF ended
    <3>. QED
      BY <1>1, <2>4, <2>5, <2>6, <2>8, <3>1, StoreEndDead
  <2>. QED
    BY <2>7, <2>8
<1>. QED
  BY <1>4, <1>5

(* Signing a token that is dead already is, to the store, its expiry. *)
LEMMA StoreSigned ==
  ASSUME NEW t \in Token, issued' = issued \cup {t},
         UNCHANGED <<rows, held, life, loggedOut, InService>>
  PROVE  [Store!Next]_Store!vars
<1>1. Live' = Live /\ (Over' = Over \/ Over' = Over \cup {t})
  BY DEF Live, Over, Dead
<1>. QED
  BY <1>1, StoreVars, StoreExpire

LEMMA StoreLoggingIn ==
  ASSUME TypeOK, Sound, Serial, SerialInv, NEW p \in Procs, LoginLoad(p) \/ LoginCommit(p)
  PROVE  [Store!Next]_Store!vars
<1>1. pc[p] \in {"loginLoad", "loginCommit"} /\ req[p].op = "login"
  BY DEF LoginLoad, LoginCommit, Sound, InFlightSound, RequestSound
<1>2. ~Serving(p)
  BY <1>1 DEF Serving, Endpoints
<1>3. ~Serving(p)'
  <2>1. CASE Finish(p)
    BY <2>1, FinishUnserved
  <2>2. CASE ~Finish(p)
    <3>1. req' = req
      BY <2>2 DEF LoginLoad, LoginCommit
    <3>. QED
      BY <1>1, <3>1 DEF Serving, Endpoints
  <2>. QED
    BY <2>1, <2>2
<1>4. InService' = InService
  BY <1>2, <1>3, InServiceIs
<1>5. CASE LoginLoad(p)
  <2>1. PICK t \in Token : issued' = issued \cup {t}
    BY <1>5 DEF LoginLoad, SignFor
  <2>2. UNCHANGED <<rows, held, life, loggedOut>>
    BY <1>5 DEF LoginLoad, stores
  <2>. QED
    BY <1>4, <2>1, <2>2, StoreSigned
<1>6. CASE LoginCommit(p)
  <2>. DEFINE n == new[p]
  <2>1. UNCHANGED <<held, issued, life, loggedOut>>
    BY <1>6 DEF LoginCommit, clients
  <2>2. CASE CommitFails(work[p])
    BY <1>3, <2>1, <2>2, FailsClean, StoreQuiet DEF stores
  <2>3. CASE CommitSucceeds(work[p])
    <3>1. /\ work[p].dirty = {n.user}
          /\ work[p].list[n.user] = rows[n.user] \cup {n}
          /\ \A u \in Users : \A e \in rows[u] : e.sid # n.sid
          /\ n.sid \notin loggedOut /\ \A e \in held : e.sid # n.sid
      BY <1>6 DEF LoginCommit, SerialInv, Placed, Adding
    <3>2. n \in Token /\ n.user \in Users
      BY <1>6, InFlightTokens, TokenFields DEF LoginCommit, Sound
    <3>3. \A u \in Users : rows'[u] = IF u = n.user THEN rows[u] \cup {n} ELSE rows[u]
      BY <2>3, <3>1, CommitWrites
    <3>4. Live' = Live \cup {n}
      <4>. HIDE DEF n
      <4>1. \A u \in Users :
              rows'[u] = IF u = n.user THEN (rows[n.user] \ {}) \cup {n} ELSE rows[u]
        BY <3>3
      <4>2. Live' = (Live \ {}) \cup {n}
        BY <3>2, <4>1, LiveSwap
      <4>. QED
        BY <4>2
    <3>5. \A e \in Live \cup held : e.sid # n.sid
      BY <3>1 DEF Live
    <3>6. Over' = Over
      BY <2>1 DEF Over, Dead
    <3>. QED
      BY <1>4, <2>1, <3>1, <3>2, <3>4, <3>5, <3>6, StoreLogin
  <2>. QED
    BY <1>6, <2>2, <2>3 DEF LoginCommit
<1>. QED
  BY <1>5, <1>6

LEMMA StoreDelivering ==
  ASSUME TypeOK, Sound, Serial, SerialInv, NEW p \in Procs,
         Reload(p) \/ CacheAccess(p) \/ CacheRefresh(p)
  PROVE  [Store!Next]_Store!vars
<1>. DEFINE n == new[p]
<1>1. /\ n \in Token /\ n.user \in Users /\ n \in rows[n.user] /\ n \notin held
      /\ req[p].op \in {"login", "refresh"}
      /\ req[p].op = "refresh" => n.sid = req[p].tok.sid
  BY InFlightTokens, TokenFields
     DEF Reload, CacheAccess, CacheRefresh, SerialInv, Placed, Added, Presented, Sound,
         InFlightSound, RequestSound
<1>2. UNCHANGED <<rows, issued, life, loggedOut>>
  BY DEF Reload, CacheAccess, CacheRefresh, stores, clients
<1>3. CASE Reload(p) \/ CacheAccess(p)
  <2>1. Finish(p) \/ req' = req
    BY <1>3 DEF Reload, CacheAccess
  <2>2. Serving(p)' => Serving(p) /\ Record(p)' = Record(p)
    <3>1. CASE Finish(p)
      BY <3>1, FinishUnserved
    <3>2. CASE req' = req
      BY <1>1, <3>2 DEF Serving, Record, Endpoints
    <3>. QED
      BY <2>1, <3>1, <3>2
  <2>3. held' = held
    BY <1>3 DEF Reload, CacheAccess, clients
  <2>. QED
    BY <1>2, <2>2, <2>3, StoreQuiet
<1>4. CASE CacheRefresh(p)
  <2>1. held' = held \cup {n} /\ ~Serving(p)'
    BY <1>4, FinishUnserved DEF CacheRefresh
  <2>2. InService' = {r \in InService : r.op # "refresh" \/ r.tok.sid # n.sid}
    <3>1. InService' = {}
      BY <2>1, InServiceIs
    <3>2. \A r \in InService : r.op = "refresh" /\ r.tok.sid = n.sid
      BY <1>1, InServiceIs DEF Serving, Record, Endpoints
    <3>. QED
      BY <3>1, <3>2
  <2>3. UNCHANGED <<Live, Over>> /\ n \in Live
    BY <1>1, <1>2 DEF Live, Over, Dead
  <2>. QED
    BY <1>1, <1>2, <2>1, <2>2, <2>3, StoreDeliver
<1>. QED
  BY <1>3, <1>4

LEMMA StoreAuthenticate ==
  ASSUME TypeOK, Sound, Serial, SerialInv, NEW p \in Procs,
         ValidateLoad(p) \/ ValidateFill(p) \/ TouchLoad(p) \/ TouchCommit(p)
  PROVE  [Store!Next]_Store!vars
<1>. DEFINE t == req[p].tok
            op == req[p].op
<1>1. /\ pc[p] \in {"validateLoad", "validateFill", "touchLoad", "touchCommit"}
      /\ op \in Endpoints \cap Ops /\ t \in held /\ t \in Token
      /\ UNCHANGED <<held, issued, life, loggedOut>>
  BY InFlightTokens DEF ValidateLoad, ValidateFill, TouchLoad, TouchCommit, SerialInv, Placed,
         Presented, Sound, InFlightSound, RequestSound, Bearing, clients
<1>2. CASE ValidateLoad(p)
  <2>1. rows' = rows
    BY <1>2 DEF ValidateLoad, stores
  <2>2. ~Serving(p)'
    <3>1. CASE Finish(p)
      BY <3>1, FinishUnserved
    <3>2. CASE ~Finish(p)
      <4>1. req' = req /\ pc'[p] \in {"validateFill", "rejectDrop"}
        BY <1>2, <3>2 DEF ValidateLoad, Goto, TypeOK
      <4>. QED
        BY <1>1, <4>1 DEF Serving, Admitted, Endpoints
    <3>. QED
      BY <3>1, <3>2
  <2>. QED
    BY <1>1, <2>1, <2>2, StoreQuiet
<1>3. CASE ValidateFill(p)
  <2>1. rows' = rows /\ req' = req /\ pc'[p] = "touchLoad" /\ pc[p] = "validateFill"
    BY <1>3 DEF ValidateFill, Goto, stores, TypeOK
  <2>2. t \in rows[t.user]
    BY <2>1 DEF SerialInv, Placed, Validated
  <2>3. t \in Live
    BY <1>1, <2>2, LiveIs
  <2>4. ~Serving(p) /\ Serving(p)' /\ Record(p)' = [tok |-> t, op |-> op]
    BY <1>1, <2>1 DEF Serving, Admitted, Record, Endpoints
  <2>5. InService' = InService \cup {[tok |-> t, op |-> op]}
    BY <2>4, InServiceIs
  <2>6. UNCHANGED <<Live, Over>> /\ op # "refresh"
    BY <1>1, <2>1 DEF Live, Over, Dead, Endpoints
  <2>. HIDE DEF t, op
  <2>. QED
    BY <1>1, <2>3, <2>5, <2>6, StoreAdmit
<1>4. CASE TouchLoad(p) \/ TouchCommit(p)
  <2>1. rows' = rows
    <3>1. CASE TouchLoad(p)
      BY <3>1 DEF TouchLoad, stores
    <3>2. CASE TouchCommit(p) /\ CommitFails(work[p])
      BY <3>2, FailsClean DEF stores
    <3>3. CASE TouchCommit(p) /\ CommitSucceeds(work[p])
      <4>1. \A u \in Users : rows'[u] = rows[u]
        BY <3>3, CommitWrites DEF TouchCommit, SerialInv, Placed, Validated
      <4>2. rows' = [u \in Users |-> rows'[u]] /\ rows = [u \in Users |-> rows[u]]
        BY <3>3 DEF CommitSucceeds, Flush, TypeOK
      <4>. QED
        BY <4>1, <4>2
    <3>. QED
      BY <1>4, <3>1, <3>2, <3>3 DEF TouchCommit
  <2>2. Serving(p)
    BY <1>1, <1>4 DEF Serving, Admitted, TouchLoad, TouchCommit
  <2>3. Serving(p)' => Record(p)' = Record(p)
    <3>1. CASE Finish(p)
      BY <3>1, FinishUnserved
    <3>2. CASE req' = req
      BY <3>2 DEF Record
    <3>3. CASE AfterLostTouch(p) /\ op = "logout"
      <4>1. req'[p] = [req[p] EXCEPT !.op = "lostLogout"]
        BY <3>3 DEF AfterLostTouch, TypeOK
      <4>. QED
        BY <1>1, <3>3, <4>1 DEF Record, TypeOK
    <3>. QED
      BY <1>4, <3>1, <3>2, <3>3 DEF TouchLoad, TouchCommit, AfterAuth, AfterLostTouch
  <2>. QED
    BY <1>1, <2>1, <2>2, <2>3, StoreQuiet
<1>. QED
  BY <1>2, <1>3, <1>4

(* The deletion of the one entry of a session, asked for by its request. *)
LEMMA StoreRemove ==
  ASSUME TypeOK, Sound, Serial, SerialInv, NEW p \in Procs, pc[p] = "deleteCommit",
         Serving(p), InService' = InService, CommitSucceeds(work[p]),
         UNCHANGED <<held, issued, life, loggedOut>>
  PROVE  [Store!Next]_Store!vars
<1>. DEFINE t == req[p].tok
<1>1. /\ req[p].op \in {"logout", "lostLogout", "refresh"}
      /\ t \in Token /\ t.user \in Users
  BY InFlightTokens, TokenFields
     DEF SerialInv, Placed, Presented, Sound, InFlightSound, RequestSound, Bearing, Endpoints
<1>2. PICK e \in rows[t.user] :
        /\ e.sid = t.sid
        /\ req[p].op = "refresh" /\ e = t => Dead(t)
        /\ work[p].dirty = {t.user}
        /\ work[p].list[t.user] = rows[t.user] \ {e}
  BY DEF SerialInv, Placed, Removing
<1>. HIDE DEF t
<1>3. \A u \in Users :
        rows'[u] = IF u = t.user THEN (rows[t.user] \ {e}) \cup {} ELSE rows[u]
  BY <1>2, CommitWrites
<1>4. Live' = Live \ {e}
  <2>. DEFINE gone == {e}
              come == {}
  <2>1. gone \subseteq rows[t.user]
    BY <1>2
  <2>2. \A u \in Users :
          rows'[u] = IF u = t.user THEN (rows[t.user] \ gone) \cup come ELSE rows[u]
    BY <1>3
  <2>. HIDE DEF gone, come
  <2>3. Live' = (Live \ gone) \cup come
    BY <1>1, <2>1, <2>2, LiveSwap
  <2>. QED
    BY <2>3 DEF gone, come
<1>5. e \in Live /\ e \in issued
  BY <1>1, <1>2, LiveIs DEF Sound, RowsSound, ListSound
<1>6. Over' = Over
  BY DEF Over, Dead
<1>7. Record(p) \in InService
  BY InServiceIs
<1>8. CASE req[p].op = "refresh" /\ e = t
  <2>1. {e} \subseteq Over
    BY <1>2, <1>5, <1>8 DEF Over
  <2>2. {e} \in SUBSET Live /\ {e} # {}
    BY <1>5
  <2>. QED
    BY <1>4, <1>6, <2>1, <2>2, StoreEndDead
<1>9. CASE ~(req[p].op = "refresh" /\ e = t)
  <2>1. Record(p).tok = t
    BY DEF Record, t
  <2>2. Record(p).op = "logout" \/ (Record(p).op = "refresh" /\ Record(p).tok # e)
    BY <1>1, <1>9, <2>1 DEF Record
  <2>. QED
    BY <1>2, <1>4, <1>5, <1>6, <1>7, <2>1, <2>2, StoreEndOne
<1>. QED
  BY <1>8, <1>9

LEMMA StoreDelete ==
  ASSUME TypeOK, Sound, Serial, SerialInv, NEW p \in Procs, DeleteLoad(p) \/ DeleteCommit(p)
  PROVE  [Store!Next]_Store!vars
<1>1. UNCHANGED <<held, issued, life, loggedOut>>
  BY DEF DeleteLoad, DeleteCommit, clients
<1>2. /\ pc[p] \in {"deleteLoad", "deleteCommit"}
      /\ req[p].op \in {"logout", "lostLogout", "refresh"}
      /\ pc[p] = "deleteLoad" => req[p].op \in {"logout", "lostLogout"}
  BY DEF DeleteLoad, DeleteCommit, SerialInv, Placed, Presented, Sound, InFlightSound, RequestSound
<1>3. Serving(p)
  BY <1>2 DEF Serving, Admitted, Endpoints
<1>4. CASE DeleteLoad(p)
  BY <1>1, <1>3, <1>4, StoreQuiet DEF DeleteLoad, stores, Record
<1>5. CASE DeleteCommit(p) /\ CommitFails(work[p]) /\ Finish(p)
  BY <1>1, <1>5, FinishUnserved, FailsClean, StoreQuiet DEF stores
<1>6. CASE DeleteCommit(p) /\ CommitSucceeds(work[p]) /\ req' = req /\ Goto(p, AfterDelete(p))
  <2>1. pc[p] = "deleteCommit"
    BY <1>6 DEF DeleteCommit
  <2>2. pc'[p] = AfterDelete(p) /\ Record(p)' = Record(p)
    BY <1>6 DEF Goto, TypeOK, Record
  <2>3. Serving(p)'
    BY <1>2, <1>6, <2>2 DEF Serving, Admitted, AfterDelete, Endpoints
  <2>4. InService' = InService
    BY <1>3, <2>2, <2>3, InServiceIs
  <2>. QED
    BY <1>1, <1>3, <1>6, <2>1, <2>4, StoreRemove
<1>. QED
  BY <1>4, <1>5, <1>6 DEF DeleteCommit

LEMMA StoreRotating ==
  ASSUME TypeOK, Sound, Serial, SerialInv, NEW p \in Procs,
         Rotate(p) \/ Revoke(p) \/ RotateUnknown(p) \/ RevokeLoad(p) \/ RotateCommit(p)
  PROVE  [Store!Next]_Store!vars
<1>. DEFINE t == req[p].tok
            n == new[p]
<1>1. UNCHANGED <<held, life, loggedOut>> /\ req[p].op = "refresh"
  BY DEF Rotate, Revoke, RotateUnknown, RevokeLoad, RotateCommit, clients, Sound,
         InFlightSound, RequestSound
<1>2. Serving(p)
  BY <1>1 DEF Serving
<1>3. CASE Rotate(p)
  <2>1. PICK i \in Token : issued' = issued \cup {i}
    BY <1>3 DEF Rotate, SignFor
  <2>2. rows' = rows /\ req' = req
    BY <1>3 DEF Rotate, stores
  <2>3. Serving(p)' /\ Record(p)' = Record(p)
    BY <1>1, <2>2 DEF Serving, Record
  <2>4. InService' = InService
    BY <1>2, <2>3, InServiceIs
  <2>. QED
    BY <1>1, <2>1, <2>2, <2>4, StoreSigned
<1>4. CASE Revoke(p) \/ RotateUnknown(p) \/ RevokeLoad(p)
  <2>1. UNCHANGED <<rows, issued>> /\ (req' = req \/ Finish(p))
    BY <1>4 DEF Revoke, RotateUnknown, RevokeLoad, stores, clients
  <2>2. Serving(p)' => Record(p)' = Record(p)
    BY <2>1, FinishUnserved DEF Record
  <2>. QED
    BY <1>1, <1>2, <2>1, <2>2, StoreQuiet
<1>5. CASE RotateCommit(p) /\ CommitFails(work[p]) /\ Finish(p)
  BY <1>1, <1>5, FinishUnserved, FailsClean, StoreQuiet DEF stores, RotateCommit, clients
<1>6. CASE RotateCommit(p) /\ CommitSucceeds(work[p]) /\ req' = req
  <2>1. /\ t \in rows[t.user]
        /\ n.sid = t.sid /\ n.user = t.user /\ n.pair # t.pair /\ n \notin held
        /\ work[p].dirty = {t.user}
        /\ work[p].list[t.user] = (rows[t.user] \ {t}) \cup {n}
        /\ issued' = issued
    BY <1>6 DEF RotateCommit, SerialInv, Placed, Rotating, clients
  <2>2. t \in Token /\ t.user \in Users /\ n \in Token
    BY <1>1, <1>6, InFlightTokens, TokenFields
       DEF RotateCommit, Sound, InFlightSound, RequestSound, Bearing
  <2>3. InService = {[tok |-> t, op |-> "refresh"]} /\ InService' = InService
    BY <1>1, <1>2, <1>6, InServiceIs DEF Serving, Record
  <2>. HIDE DEF t, n
  <2>4. \A u \in Users : rows'[u] = IF u = t.user THEN (rows[t.user] \ {t}) \cup {n} ELSE rows[u]
    BY <1>6, <2>1, CommitWrites
  <2>5. Live' = (Live \ {t}) \cup {n}
    <3>. DEFINE gone == {t}
                come == {n}
                w == t.user
    <3>1. gone \subseteq rows[w] /\ w \in Users
      BY <2>1, <2>2
    <3>2. \A u \in Users :
            rows'[u] = IF u = w THEN (rows[w] \ gone) \cup come ELSE rows[u]
      BY <2>4
    <3>. HIDE DEF gone, come, w
    <3>3. Live' = (Live \ gone) \cup come
      BY <3>1, <3>2, LiveSwap
    <3>. QED
      BY <3>3 DEF gone, come
  <2>6. t \in Live /\ Over' = Over
    BY <1>1, <2>1, <2>2, LiveIs DEF Over, Dead
  <2>. QED
    BY <1>1, <2>1, <2>2, <2>3, <2>5, <2>6, StoreRotate
<1>. QED
  BY <1>3, <1>4, <1>5, <1>6 DEF RotateCommit

LEMMA StoreDrop ==
  ASSUME TypeOK, Sound, Serial, SerialInv, NEW p \in Procs, NEW key \in drops[p], Drop(p, key)
  PROVE  [Store!Next]_Store!vars
<1>1. UNCHANGED <<rows, held, issued, life>> /\ pc[p] \in DropSteps
  BY DEF Drop, stores
<1>2. CASE pc[p] = "logoutDrop" /\ drops[p] = {key}
  <2>1. /\ loggedOut' = loggedOut \cup {req[p].tok.sid}
        /\ req'[p] = NoReq
        /\ req[p].op = "logout"
    BY <1>2 DEF Drop, AfterDrops, TypeOK, Sound, InFlightSound, RequestSound
  <2>2. Serving(p) /\ ~Serving(p)'
    BY <1>2, <2>1 DEF Serving, Admitted, Endpoints, NoReq
  <2>3. InService = {Record(p)} /\ InService' = InService \ {Record(p)}
    BY <2>2, InServiceIs
  <2>4. Record(p).op = "logout" /\ Record(p).tok = req[p].tok
    BY <2>1 DEF Record
  <2>5. \A e \in Live : e.sid # req[p].tok.sid
    BY <1>2 DEF SerialInv, Placed, Removed, Live
  <2>6. UNCHANGED <<Live, held, Over>>
    BY <1>1 DEF Live, Over, Dead
  <2>. QED
    BY <2>1, <2>3, <2>4, <2>5, <2>6, StoreAnswerLogout
<1>3. CASE ~(pc[p] = "logoutDrop" /\ drops[p] = {key})
  <2>1. loggedOut' = loggedOut
    BY <1>3 DEF Drop
  <2>2. Serving(p)' => Serving(p) /\ Record(p)' = Record(p)
    <3>1. CASE UNCHANGED <<pc, req>>
      BY <3>1 DEF Serving, Record
    <3>2. CASE req'[p] = NoReq
      BY <3>2 DEF Serving, NoReq, Endpoints
    <3>3. CASE UNCHANGED req /\ pc'[p] \in {"purgeCommit", "cacheAccess"}
      BY <3>3 DEF Serving, Record, Admitted
    <3>. QED
      BY <1>1, <3>1, <3>2, <3>3 DEF Drop, AfterDrops, Goto, DropSteps, TypeOK
  <2>. QED
    BY <1>1, <2>1, <2>2, StoreQuiet
<1>. QED
  BY <1>2, <1>3

LEMMA StoreEnvironment ==
  ASSUME TypeOK, Sound, (\E t \in issued : Expire(t)) \/ Evict \/ UNCHANGED vars
  PROVE  [Store!Next]_Store!vars
<1>1. UNCHANGED <<rows, held, issued, loggedOut, pc, req>>
  BY DEF Expire, Evict, vars, stores, clients
<1>2. Live' = Live /\ InService' = InService
  BY <1>1 DEF Live, InService, Serving, Record
<1>3. CASE Evict \/ UNCHANGED vars
  <2>1. Over' = Over
    BY <1>3 DEF Evict, vars, clients, Over, Dead
  <2>. QED
    BY <1>1, <1>2, <2>1, StoreVars
<1>4. ASSUME NEW t \in issued, Expire(t) PROVE [Store!Next]_Store!vars
  <2>1. t \in Token /\ t.pair \in Pairs /\ \A i \in issued : i \in Token /\ i.pair \in Pairs
    BY TokenFields DEF TypeOK
  <2>2. \A i \in issued : i # t => life'[i.pair] = life[i.pair]
    BY <1>4, <2>1 DEF Expire, TypeOK, Sound, CachesSound
  <2>3. life'[t.pair] \in {"stale", "dead"} /\ ~Dead(t)
    BY <1>4, <2>1 DEF Expire, TypeOK
  <2>4. Over' = Over \/ Over' = Over \cup {t}
    BY <1>1, <2>2, <2>3 DEF Over, Dead
  <2>. QED
    BY <1>1, <1>2, <2>1, <2>4, StoreVars, StoreExpire
<1>. QED
  BY <1>3, <1>4

LEMMA StoreNext ==
  TypeOK /\ Sound /\ Serial /\ SerialInv /\ [Next]_vars => [Store!Next]_Store!vars
<1>. SUFFICES ASSUME TypeOK, Sound, Serial, SerialInv, [Next]_vars
              PROVE  [Store!Next]_Store!vars
  OBVIOUS
<1>1. ASSUME NEW p \in Procs, Continue(p) PROVE [Store!Next]_Store!vars
  BY <1>1, StorePurge, StoreLoggingIn, StoreDelivering, StoreAuthenticate, StoreDelete,
     StoreRotating, StoreDrop DEF Continue
<1>2. ASSUME NEW p \in Procs PROVE ~Crash(p)
  BY DEF Crash, Serial
<1>. QED
  BY <1>1, <1>2, StoreStart, StoreEnvironment DEF Next

(* Each request takes effect on the rows in one step, for a reason AuthStore *)
(* allows: a token is admitted only while it is the current one of a live    *)
(* session, only the presented current token rotates, a session ends by a    *)
(* logout, a replay or its expiry, and an answered logout is final.          *)
THEOREM SessionsImplementStore == ASSUME Serial PROVE Spec => ImplementsStore
<1>1. Init => Store!Init
  BY StoreInit
<1>2. TypeOK /\ Sound /\ SerialInv /\ [Next]_vars => [Store!Next]_Store!vars
  BY StoreNext
<1>. QED
  BY <1>1, <1>2, SerialAlways, PTL DEF Spec, ImplementsStore, Store!Spec

(* What the promise that refresh tokens are used once comes to, if requests *)
(* do not overlap: a token a client has that is not current, because it was *)
(* rotated, replayed against, logged out or expired, is never current       *)
(* again.  A rotation takes a current token and leaves it not current, so   *)
(* no token rotates twice.                                                  *)
THEOREM SupersededStayOut ==
  ASSUME Serial
  PROVE  Spec => [][\A t \in held : t \notin Live => t \notin Live']_vars
<1>1. ASSUME [Store!Next]_Store!vars, NEW t \in held, t \notin Live
      PROVE  t \notin Live'
  <2>1. CASE UNCHANGED Store!vars
    BY <1>1, <2>1, StoreVars
  <2>2. ASSUME NEW s \in Token, Store!Login(s) PROVE t \notin Live'
    BY <1>1, <2>2 DEF Store!Login, Live
  <2>3. ASSUME NEW s \in Token, NEW n \in Token, Store!Rotate(s, n) PROVE t \notin Live'
    BY <1>1, <2>3 DEF Store!Rotate, Live
  <2>4. ASSUME NEW ended, Store!End(ended) PROVE t \notin Live'
    BY <1>1, <2>4 DEF Store!End, Live
  <2>5. ASSUME NEW s, Store!Deliver(s) \/ Store!Expire(s) PROVE t \notin Live'
    BY <1>1, <2>5 DEF Store!Deliver, Store!Expire, Live
  <2>6. ASSUME NEW s, NEW op, Store!Admit(s, op) PROVE t \notin Live'
    BY <1>1, <2>6 DEF Store!Admit, Live
  <2>7. ASSUME NEW r, Store!Answer(r) \/ Store!Fail(r) PROVE t \notin Live'
    BY <1>1, <2>7 DEF Store!Answer, Store!Fail, Live
  <2>. QED
    BY <1>1, <2>1, <2>2, <2>3, <2>4, <2>5, <2>6, <2>7 DEF Store!Next
<1>2. TypeOK /\ Sound /\ SerialInv /\ [Next]_vars
        => [\A t \in held : t \notin Live => t \notin Live']_vars
  BY <1>1, StoreNext
<1>. QED
  BY <1>2, SerialAlways, PTL DEF Spec

=============================================================================
