------------------------- MODULE AuthSessionsProofs -------------------------
(* Theorems about AuthSessions, for any number of users, sessions, tokens    *)
(* and overlapping requests and for every choice of Ops and Env.             *)
EXTENDS AuthSessions, FiniteSetTheorems, TLAPS

(* TypeOK in the groups an action keeps or changes together. *)
StoresType == rows \in [Users -> SUBSET Token] /\ present \in SUBSET Users
CachesType == accessCache \in SUBSET Token /\ refreshCache \in SUBSET Token
ClientsType ==
  /\ issued \in SUBSET Token
  /\ held \in SUBSET Token
  /\ life \in [Pairs -> {"fresh", "stale", "dead"}]
  /\ loggedOut \in SUBSET Sessions
Requests == [op : Operations \cup {"none", "lostLogout"}, who : Users \cup {NoToken},
             tok : Token \cup {NoToken}]
LocalsType ==
  /\ pc \in [Procs -> Steps]
  /\ req \in [Procs -> Requests]
  /\ new \in [Procs -> Token \cup {NoToken}]
  /\ work \in [Procs -> Work]
  /\ drops \in [Procs -> SUBSET Key]

LEMMA TypeGroups ==
  /\ TypeOK <=> StoresType /\ CachesType /\ ClientsType /\ LocalsType
  /\ TypeOK' <=> StoresType' /\ CachesType' /\ ClientsType' /\ LocalsType'
BY DEF TypeOK, StoresType, CachesType, ClientsType, LocalsType, Requests

-----------------------------------------------------------------------------
(* Lemmas about the building blocks *)

LEMMA TokenFields ==
  ASSUME NEW t \in Token
  PROVE  t.pair \in Pairs /\ t.sid \in Sessions /\ t.user \in Users
BY DEF Token

LEMMA KeysOfType == ASSUME NEW t \in Token PROVE KeysOf(t) \in SUBSET Key
BY TokenFields DEF KeysOf, Key

LEMMA WritingType ==
  ASSUME NEW us \in SUBSET Users, NEW lists,
         \A u \in us : lists[u] \in SUBSET Token,
         NEW ins \in BOOLEAN
  PROVE  Writing(us, lists, ins) \in Work
BY DEF Writing, Work

LEMMA NoWorkType == NoWork \in Work
BY WritingType DEF NoWork

LEMMA WritingOneType ==
  ASSUME NEW u \in Users, NEW list \in SUBSET Token
  PROVE  WritingOne(u, list) \in Work
BY WritingType DEF WritingOne

LEMMA FlushType ==
  ASSUME NEW w \in Work, StoresType, Flush(w)
  PROVE  StoresType'
BY DEF Flush, Work, StoresType

LEMMA CommitType ==
  ASSUME NEW w \in Work, StoresType, CommitSucceeds(w) \/ CommitFails(w)
  PROVE  StoresType'
BY FlushType DEF CommitSucceeds, CommitFails, stores, StoresType

LEMMA FinishType ==
  ASSUME LocalsType, NEW p \in Procs, Finish(p)
  PROVE  LocalsType'
<1>1. NoReq \in Requests
  BY DEF NoReq, Requests
<1>2. "idle" \in Steps
  BY DEF Steps
<1>. QED
  BY <1>1, <1>2, NoWorkType DEF LocalsType, Finish, Goto

LEMMA AfterPurgeType ==
  ASSUME LocalsType, NEW p \in Procs, AfterPurge(p)
  PROVE  LocalsType'
<1>1. CASE req[p].op = "login"
  <2>1. "loginLoad" \in Steps
    BY DEF Steps
  <2>. QED
    BY <1>1, <2>1, NoWorkType DEF LocalsType, AfterPurge, Goto
<1>2. CASE req[p].op # "login"
  BY <1>2, FinishType DEF AfterPurge
<1>. QED
  BY <1>1, <1>2

LEMMA AfterAuthType ==
  ASSUME LocalsType, NEW p \in Procs, AfterAuth(p)
  PROVE  LocalsType'
<1>1. CASE req[p].op # "call"
  <2>1. {"purge", "deleteLoad"} \subseteq Steps
    BY DEF Steps
  <2>. QED
    BY <1>1, <2>1, NoWorkType DEF LocalsType, AfterAuth, Goto
<1>2. CASE req[p].op = "call"
  BY <1>2, FinishType DEF AfterAuth
<1>. QED
  BY <1>1, <1>2

LEMMA AfterLostTouchType ==
  ASSUME LocalsType, NEW p \in Procs, AfterLostTouch(p)
  PROVE  LocalsType'
<1>1. CASE req[p].op = "logout"
  <2>1. "deleteLoad" \in Steps
    BY DEF Steps
  <2>2. [req[p] EXCEPT !.op = "lostLogout"] \in Requests
    BY DEF LocalsType, Requests
  <2>3. /\ Goto(p, "deleteLoad") /\ work' = [work EXCEPT ![p] = NoWork]
        /\ req' = [req EXCEPT ![p] = [req[p] EXCEPT !.op = "lostLogout"]]
        /\ UNCHANGED <<new, drops>>
    BY <1>1 DEF AfterLostTouch, LocalsType
  <2>. QED
    BY <2>1, <2>2, <2>3, NoWorkType DEF LocalsType, Goto
<1>2. CASE req[p].op # "logout"
  BY <1>2, FinishType DEF AfterLostTouch
<1>. QED
  BY <1>1, <1>2

LEMMA SetAccessType ==
  ASSUME CachesType, NEW t \in Token, SetAccess(t)
  PROVE  CachesType'
BY DEF CachesType, SetAccess, CacheSet

LEMMA SetRefreshType ==
  ASSUME CachesType, NEW t \in Token, SetRefresh(t)
  PROVE  CachesType'
BY DEF CachesType, SetRefresh, CacheSet

LEMMA DeleteType ==
  ASSUME CachesType, NEW key \in Key, Delete(key)
  PROVE  CachesType'
BY DEF CachesType, Delete, caches

(* The request's own variables change together, at p alone. *)
LEMMA LocalsStep ==
  ASSUME LocalsType, NEW p \in Procs,
         NEW step \in Steps, Goto(p, step),
         NEW r \in Requests, req' = [req EXCEPT ![p] = r] \/ UNCHANGED req,
         NEW n \in Token \cup {NoToken}, new' = [new EXCEPT ![p] = n] \/ UNCHANGED new,
         NEW w \in Work, work' = [work EXCEPT ![p] = w] \/ UNCHANGED work,
         NEW d \in SUBSET Key, drops' = [drops EXCEPT ![p] = d] \/ UNCHANGED drops
  PROVE  LocalsType'
BY DEF LocalsType, Goto

-----------------------------------------------------------------------------
(* The types *)

LEMMA TypeInit == Init => TypeOK
<1>. SUFFICES ASSUME Init PROVE TypeOK
  OBVIOUS
<1>1. NoReq \in Requests
  BY DEF NoReq, Requests
<1>2. "idle" \in Steps
  BY DEF Steps
<1>. QED
  BY <1>1, <1>2, NoWorkType DEF Init, TypeOK, Requests

(* What a request presents or has minted is a token. *)
LEMMA InFlightTokens ==
  ASSUME TypeOK, InFlightSound, NEW p \in Procs
  PROVE  /\ req[p].op \in Bearing
              => req[p].tok \in Token /\ req[p].tok \in issued
                 /\ req[p].who = req[p].tok.user /\ req[p].who \in Users
         /\ pc[p] \in {"loginCommit", "rotateCommit", "reload", "rotateDrop",
                       "cacheAccess", "cacheRefresh"}
              => new[p] \in Token /\ new[p] \in issued
BY TokenFields DEF TypeOK, InFlightSound, RequestSound, Bearing, Endpoints

LEMMA TypeStart ==
  ASSUME TypeOK, NEW p \in Procs, Start(p)
  PROVE  TypeOK'
<1>. USE TypeGroups
<1>1. {"purge", "touchLoad", "validateLoad", "rejectDrop", "rotateLoad"} \subseteq Steps
  BY DEF Steps
<1>2. ASSUME NEW t \in held, NEW op \in Endpoints \cup {"refresh"}
      PROVE  [op |-> op, who |-> t.user, tok |-> t] \in Requests
  BY TokenFields DEF ClientsType, Requests, Endpoints, Operations
<1>3. ASSUME NEW t \in held
      PROVE  {[cache |-> "access", pair |-> t.pair]} \in SUBSET Key
  BY TokenFields DEF ClientsType, Key
<1>4. CASE StartPurge(p)
  <2>1. [op |-> "startup", who |-> NoToken, tok |-> NoToken] \in Requests
    BY DEF Requests, Operations
  <2>2. LocalsType'
    BY <1>1, <1>4, <2>1 DEF StartPurge, LocalsType, Goto
  <2>. QED
    BY <1>4, <2>2 DEF StartPurge, stores, caches, clients, StoresType, CachesType,
                      ClientsType
<1>5. ASSUME NEW u \in Users, StartLogin(p, u)
      PROVE  TypeOK'
  <2>1. [op |-> "login", who |-> u, tok |-> NoToken] \in Requests
    BY DEF Requests, Operations
  <2>2. LocalsType'
    BY <1>1, <1>5, <2>1 DEF StartLogin, LocalsType, Goto
  <2>. QED
    BY <1>5, <2>2 DEF StartLogin, stores, caches, clients, StoresType, CachesType,
                      ClientsType
<1>6. ASSUME NEW t \in held, NEW op \in Endpoints,
             ValidateHit(p, t, op) \/ ValidateMiss(p, t, op)
      PROVE  TypeOK'
  <2>1. [op |-> op, who |-> t.user, tok |-> t] \in Requests
    BY <1>2
  <2>2. LocalsType'
    BY <1>1, <1>3, <1>6, <2>1 DEF ValidateHit, ValidateMiss, LocalsType, Goto
  <2>. QED
    BY <1>6, <2>2 DEF ValidateHit, ValidateMiss, stores, caches, clients, StoresType,
                      CachesType, ClientsType
<1>7. ASSUME NEW t \in held, StartRefresh(p, t)
      PROVE  TypeOK'
  <2>1. [op |-> "refresh", who |-> t.user, tok |-> t] \in Requests
    BY <1>2
  <2>2. LocalsType'
    BY <1>1, <1>7, <2>1 DEF StartRefresh, LocalsType, Goto
  <2>. QED
    BY <1>7, <2>2 DEF StartRefresh, stores, caches, clients, StoresType, CachesType,
                      ClientsType
<1>. QED
  BY <1>4, <1>5, <1>6, <1>7 DEF Start

LEMMA TypePurge ==
  ASSUME TypeOK, NEW p \in Procs,
         PurgeLoad(p) \/ PurgeNothing(p) \/ PurgeFails(p) \/ PurgeCommit(p)
  PROVE  TypeOK'
<1>. USE TypeGroups
<1>1. CASE PurgeLoad(p)
  <2>. DEFINE stale == {u \in Users : Expired(rows[u]) # {}}
              lists == [u \in stale |-> rows[u] \ Expired(rows[u])]
              keys == UNION {KeysOf(e) : e \in UNION {Expired(rows[u]) : u \in stale}}
  <2>1. Writing(stale, lists, FALSE) \in Work
    BY WritingType DEF StoresType
  <2>2. keys \in SUBSET Key
    BY KeysOfType DEF StoresType, Expired
  <2>3. "purgeDrop" \in Steps
    BY DEF Steps
  <2>4. /\ Goto(p, "purgeDrop")
        /\ work' = [work EXCEPT ![p] = Writing(stale, lists, FALSE)]
        /\ drops' = [drops EXCEPT ![p] = keys]
        /\ UNCHANGED <<stores, caches, clients, req, new>>
    BY <1>1 DEF PurgeLoad
  <2>. HIDE DEF stale, lists, keys
  <2>5. LocalsType'
    BY <2>1, <2>2, <2>3, <2>4 DEF LocalsType, Goto
  <2>. QED
    BY <2>4, <2>5 DEF stores, caches, clients, StoresType, CachesType, ClientsType
<1>2. CASE PurgeNothing(p)
  BY <1>2, AfterPurgeType DEF PurgeNothing, stores, caches, clients, StoresType,
                              CachesType, ClientsType
<1>3. CASE PurgeCommit(p)
  <2>1. work[p] \in Work
    BY DEF LocalsType
  <2>2. StoresType'
    BY <1>3, <2>1, CommitType DEF PurgeCommit
  <2>. QED
    BY <1>3, <2>2, AfterPurgeType, FinishType DEF PurgeCommit, caches, clients, CachesType,
                                                  ClientsType
<1>4. CASE PurgeFails(p)
  BY <1>4, FinishType DEF PurgeFails, stores, caches, clients, StoresType, CachesType,
                          ClientsType
<1>. QED
  BY <1>1, <1>2, <1>3, <1>4

LEMMA TypeLogin ==
  ASSUME TypeOK, InFlightSound, NEW p \in Procs,
         \/ LoginLoad(p) \/ LoginCommit(p) \/ Reload(p)
         \/ CacheAccess(p) \/ CacheRefresh(p)
  PROVE  TypeOK'
<1>. USE TypeGroups
<1>. {"loginCommit", "reload", "cacheAccess", "rotateDrop", "cacheRefresh"} \subseteq Steps
  BY DEF Steps
<1>1. CASE LoginLoad(p)
  <2>1. PICK t \in Token :
          /\ issued' = issued \cup {t}
          /\ new' = [new EXCEPT ![p] = t]
          /\ work' = [work EXCEPT ![p] =
                        Writing({t.user}, [u \in {t.user} |-> rows[u] \cup {t}],
                                t.user \notin present)]
    BY <1>1 DEF LoginLoad, SignFor
  <2>2. t.user \in Users
    BY TokenFields
  <2>3. Writing({t.user}, [u \in {t.user} |-> rows[u] \cup {t}], t.user \notin present)
          \in Work
    BY <2>2, WritingType DEF StoresType
  <2>4. LocalsType'
    BY <1>1, <2>1, <2>2, <2>3 DEF LoginLoad, LocalsType, Goto
  <2>. QED
    BY <1>1, <2>1, <2>2, <2>4 DEF LoginLoad, stores, caches, StoresType, CachesType,
                                  ClientsType
<1>2. CASE LoginCommit(p)
  <2>1. work[p] \in Work
    BY DEF LocalsType
  <2>2. StoresType'
    BY <1>2, <2>1, CommitType DEF LoginCommit
  <2>3. LocalsType'
    <3>1. CASE Finish(p)
      BY <3>1, FinishType
    <3>2. CASE ~Finish(p)
      BY <1>2, <3>2, NoWorkType DEF LoginCommit, LocalsType, Goto
    <3>. QED
      BY <3>1, <3>2
  <2>. QED
    BY <1>2, <2>2, <2>3 DEF LoginCommit, caches, clients, CachesType, ClientsType
<1>3. CASE Reload(p)
  <2>1. LocalsType'
    <3>1. CASE Finish(p)
      BY <3>1, FinishType
    <3>2. CASE ~Finish(p)
      BY <1>3, <3>2 DEF Reload, LocalsType, Goto
    <3>. QED
      BY <3>1, <3>2
  <2>. QED
    BY <1>3, <2>1 DEF Reload, stores, caches, clients, StoresType, CachesType, ClientsType
<1>4. CASE CacheAccess(p)
  <2>1. CachesType'
    BY <1>4, InFlightTokens, SetAccessType DEF CacheAccess
  <2>2. LocalsType'
    BY <1>4 DEF CacheAccess, LocalsType, Goto
  <2>. QED
    BY <1>4, <2>1, <2>2 DEF CacheAccess, stores, clients, StoresType, ClientsType
<1>5. CASE CacheRefresh(p)
  <2>1. new[p] \in Token
    BY <1>5, InFlightTokens DEF CacheRefresh
  <2>2. CachesType'
    BY <1>5, <2>1, SetRefreshType DEF CacheRefresh
  <2>3. LocalsType'
    BY <1>5, FinishType DEF CacheRefresh
  <2>. QED
    BY <1>5, <2>1, <2>2, <2>3 DEF CacheRefresh, stores, StoresType, ClientsType
<1>. QED
  BY <1>1, <1>2, <1>3, <1>4, <1>5

LEMMA TypeAuthenticate ==
  ASSUME TypeOK, InFlightSound, NEW p \in Procs,
         ValidateLoad(p) \/ ValidateFill(p) \/ TouchLoad(p) \/ TouchCommit(p)
  PROVE  TypeOK'
<1>. USE TypeGroups
<1>. {"validateFill", "rejectDrop", "touchLoad", "touchCommit"} \subseteq Steps
  BY DEF Steps
<1>1. CASE ValidateLoad(p)
  <2>1. req[p].tok \in Token
    BY <1>1, InFlightTokens DEF ValidateLoad, InFlightSound, RequestSound,
                                Bearing, Endpoints
  <2>2. {[cache |-> "access", pair |-> req[p].tok.pair]} \in SUBSET Key
    BY <2>1, TokenFields DEF Key
  <2>3. LocalsType'
    <3>1. CASE Finish(p)
      BY <3>1, FinishType
    <3>2. CASE ~Finish(p)
      BY <1>1, <2>2, <3>2 DEF ValidateLoad, LocalsType, Goto
    <3>. QED
      BY <3>1, <3>2
  <2>. QED
    BY <1>1, <2>3 DEF ValidateLoad, stores, caches, clients, StoresType, CachesType,
                      ClientsType
<1>2. CASE ValidateFill(p)
  <2>1. req[p].tok \in Token
    BY <1>2, InFlightTokens DEF ValidateFill, InFlightSound, RequestSound,
                                Bearing, Endpoints
  <2>2. CachesType'
    BY <1>2, <2>1, SetAccessType DEF ValidateFill
  <2>3. LocalsType'
    BY <1>2 DEF ValidateFill, LocalsType, Goto
  <2>. QED
    BY <1>2, <2>2, <2>3 DEF ValidateFill, stores, clients, StoresType, ClientsType
<1>3. CASE TouchLoad(p)
  <2>1. LocalsType'
    <3>1. CASE AfterAuth(p)
      BY <3>1, AfterAuthType
    <3>2. CASE ~AfterAuth(p)
      <4>1. PICK u \in Users : /\ work' = [work EXCEPT ![p] = WritingOne(u, rows[u])]
                               /\ Goto(p, "touchCommit")
                               /\ UNCHANGED <<req, new, drops>>
        BY <1>3, <3>2 DEF TouchLoad, RowsHolding
      <4>2. WritingOne(u, rows[u]) \in Work
        BY WritingOneType DEF StoresType
      <4>. QED
        BY <4>1, <4>2 DEF LocalsType, Goto
    <3>. QED
      BY <3>1, <3>2
  <2>. QED
    BY <1>3, <2>1 DEF TouchLoad, stores, caches, clients, StoresType, CachesType,
                      ClientsType
<1>4. CASE TouchCommit(p)
  <2>1. work[p] \in Work
    BY DEF LocalsType
  <2>2. StoresType'
    BY <1>4, <2>1, CommitType DEF TouchCommit
  <2>. QED
    BY <1>4, <2>2, AfterAuthType, AfterLostTouchType
       DEF TouchCommit, caches, clients, CachesType, ClientsType
<1>. QED
  BY <1>1, <1>2, <1>3, <1>4

LEMMA TypeDelete ==
  ASSUME TypeOK, InFlightSound, NEW p \in Procs, DeleteLoad(p) \/ DeleteCommit(p)
  PROVE  TypeOK'
<1>. USE TypeGroups
<1>. {"deleteCommit", "logoutDrop", "rejectDrop"} \subseteq Steps
  BY DEF Steps
<1>1. CASE DeleteLoad(p)
  <2>. DEFINE t == req[p].tok
  <2>1. t \in Token
    BY <1>1, InFlightTokens DEF DeleteLoad, InFlightSound, RequestSound, Endpoints,
                                Bearing
  <2>2. CASE RowsHolding(t.sid) = {}
    <3>1. {[cache |-> "access", pair |-> t.pair]} \in SUBSET Key
      BY <2>1, TokenFields DEF Key
    <3>2. LocalsType'
      BY <1>1, <2>2, <3>1 DEF DeleteLoad, AfterDelete, LocalsType, Goto
    <3>. QED
      BY <1>1, <3>2 DEF DeleteLoad, stores, caches, clients, StoresType, CachesType,
                        ClientsType
  <2>3. CASE RowsHolding(t.sid) # {}
    <3>1. PICK u \in Users : \E e \in EntriesOf(rows[u], t.sid) :
            /\ work' = [work EXCEPT ![p] =
                          WritingOne(u, rows[u] \ EntriesOf(rows[u], t.sid))]
            /\ drops' = [drops EXCEPT ![p] = KeysOf(e)]
            /\ Goto(p, "deleteCommit")
      BY <1>1, <2>3 DEF DeleteLoad, RowsHolding
    <3>2. WritingOne(u, rows[u] \ EntriesOf(rows[u], t.sid)) \in Work
      BY WritingOneType DEF StoresType
    <3>3. PICK e \in Token : drops' = [drops EXCEPT ![p] = KeysOf(e)]
      BY <3>1 DEF EntriesOf, StoresType
    <3>4. KeysOf(e) \in SUBSET Key
      BY KeysOfType
    <3>5. LocalsType'
      BY <1>1, <3>1, <3>2, <3>3, <3>4 DEF DeleteLoad, LocalsType, Goto
    <3>. QED
      BY <1>1, <3>5 DEF DeleteLoad, stores, caches, clients, StoresType, CachesType,
                        ClientsType
  <2>. QED
    BY <2>2, <2>3
<1>2. CASE DeleteCommit(p)
  <2>1. work[p] \in Work
    BY DEF LocalsType
  <2>2. StoresType'
    BY <1>2, <2>1, CommitType DEF DeleteCommit
  <2>3. LocalsType'
    <3>1. CASE Finish(p)
      BY <3>1, FinishType
    <3>2. CASE ~Finish(p)
      BY <1>2, <3>2, NoWorkType DEF DeleteCommit, AfterDelete, LocalsType, Goto
    <3>. QED
      BY <3>1, <3>2
  <2>. QED
    BY <1>2, <2>2, <2>3 DEF DeleteCommit, caches, clients, CachesType, ClientsType
<1>. QED
  BY <1>1, <1>2

LEMMA TypeRotate ==
  ASSUME TypeOK, InFlightSound, NEW p \in Procs,
         \/ Rotate(p) \/ Revoke(p) \/ RotateUnknown(p)
         \/ RevokeLoad(p) \/ RotateCommit(p)
  PROVE  TypeOK'
<1>. USE TypeGroups
<1>. {"rotateCommit", "revokeLoad", "deleteCommit", "rejectDrop", "reload"} \subseteq Steps
  BY DEF Steps
<1>. DEFINE t == req[p].tok
<1>0. Rotate(p) \/ Revoke(p) => t \in Token /\ t.user \in Users
  BY InFlightTokens, TokenFields DEF Rotate, Revoke, InFlightSound, RequestSound,
                                     Bearing, Endpoints
<1>1. CASE Rotate(p)
  <2>1. PICK n \in Token :
          /\ issued' = issued \cup {n}
          /\ new' = [new EXCEPT ![p] = n]
          /\ work' = [work EXCEPT ![p] =
                        WritingOne(t.user, (rows[t.user] \ {t}) \cup {n})]
    BY <1>1 DEF Rotate, SignFor
  <2>2. WritingOne(t.user, (rows[t.user] \ {t}) \cup {n}) \in Work
    BY <1>0, <1>1, WritingOneType DEF StoresType
  <2>3. KeysOf(t) \in SUBSET Key
    BY <1>0, <1>1, KeysOfType
  <2>4. LocalsType'
    BY <1>1, <2>1, <2>2, <2>3 DEF Rotate, LocalsType, Goto
  <2>. QED
    BY <1>1, <2>1, <2>4 DEF Rotate, stores, caches, StoresType, CachesType, ClientsType
<1>2. CASE Revoke(p)
  <2>1. PICK e \in Token : drops' = [drops EXCEPT ![p] = KeysOf(e)]
    BY <1>0, <1>2 DEF Revoke, EntriesOf, StoresType
  <2>2. WritingOne(t.user, rows[t.user] \ EntriesOf(rows[t.user], t.sid)) \in Work
    BY <1>0, <1>2, WritingOneType DEF StoresType
  <2>3. work' = [work EXCEPT ![p] =
                   WritingOne(t.user, rows[t.user] \ EntriesOf(rows[t.user], t.sid))]
    BY <1>2 DEF Revoke
  <2>4. LocalsType'
    BY <1>2, <2>1, <2>2, <2>3, KeysOfType DEF Revoke, LocalsType, Goto
  <2>. QED
    BY <1>2, <2>4 DEF Revoke, stores, caches, clients, StoresType, CachesType, ClientsType
<1>3. CASE RotateUnknown(p)
  BY <1>3, FinishType DEF RotateUnknown, stores, caches, clients, StoresType, CachesType,
                          ClientsType
<1>4. CASE RevokeLoad(p)
  <2>1. {k \in drops[p] : k.cache = "access"} \in SUBSET Key
    BY DEF LocalsType
  <2>2. LocalsType'
    BY <1>4, <2>1, NoWorkType DEF RevokeLoad, LocalsType, Goto
  <2>. QED
    BY <1>4, <2>2 DEF RevokeLoad, stores, caches, clients, StoresType, CachesType,
                      ClientsType
<1>5. CASE RotateCommit(p)
  <2>1. work[p] \in Work
    BY DEF LocalsType
  <2>2. StoresType'
    BY <1>5, <2>1, CommitType DEF RotateCommit
  <2>3. LocalsType'
    <3>1. CASE Finish(p)
      BY <3>1, FinishType
    <3>2. CASE ~Finish(p)
      BY <1>5, <3>2, NoWorkType DEF RotateCommit, LocalsType, Goto
    <3>. QED
      BY <3>1, <3>2
  <2>. QED
    BY <1>5, <2>2, <2>3 DEF RotateCommit, caches, clients, CachesType, ClientsType
<1>. QED
  BY <1>1, <1>2, <1>3, <1>4, <1>5

LEMMA TypeDrop ==
  ASSUME TypeOK, InFlightSound, NEW p \in Procs, NEW key \in drops[p], Drop(p, key)
  PROVE  TypeOK'
<1>. USE TypeGroups
<1>1. key \in Key
  BY DEF LocalsType
<1>2. CachesType'
  BY <1>1, DeleteType DEF Drop
<1>3. LocalsType'
  <2>1. {"idle", "purgeCommit", "cacheAccess"} \subseteq Steps
    BY DEF Steps
  <2>2. NoReq \in Requests
    BY DEF NoReq, Requests
  <2>3. drops[p] \ {key} \in SUBSET Key
    BY DEF LocalsType
  <2>4. drops' = [drops EXCEPT ![p] = drops[p] \ {key}]
    BY DEF Drop, LocalsType
  <2>5. CASE drops[p] # {key}
    BY <2>3, <2>4, <2>5 DEF Drop, LocalsType
  <2>6. CASE drops[p] = {key} /\ pc[p] = "purgeDrop"
    BY <2>1, <2>3, <2>4, <2>6 DEF Drop, AfterDrops, LocalsType, Goto
  <2>7. CASE drops[p] = {key} /\ pc[p] = "rotateDrop"
    BY <2>1, <2>3, <2>4, <2>7 DEF Drop, AfterDrops, LocalsType, Goto
  <2>8. CASE drops[p] = {key} /\ pc[p] \in {"logoutDrop", "rejectDrop"}
    BY <2>1, <2>2, <2>3, <2>4, <2>8, NoWorkType DEF Drop, AfterDrops, LocalsType, Goto
  <2>. QED
    BY <2>5, <2>6, <2>7, <2>8 DEF Drop, DropSteps
<1>4. ClientsType'
  <2>1. pc[p] = "logoutDrop" => req[p].tok.sid \in Sessions
    BY InFlightTokens, TokenFields DEF InFlightSound, RequestSound, Endpoints, Bearing
  <2>. QED
    BY <2>1 DEF Drop, ClientsType
<1>. QED
  BY <1>2, <1>3, <1>4 DEF Drop, stores, StoresType

LEMMA TypeStep ==
  ASSUME TypeOK, InFlightSound, [Next]_vars
  PROVE  TypeOK'
<1>. USE TypeGroups
<1>1. ASSUME NEW p \in Procs, Continue(p)
      PROVE  TypeOK'
  BY <1>1, TypePurge, TypeLogin, TypeAuthenticate, TypeDelete, TypeRotate, TypeDrop
     DEF Continue
<1>2. ASSUME NEW p \in Procs, Crash(p)
      PROVE  TypeOK'
  BY <1>2, FinishType DEF Crash, stores, caches, clients, StoresType, CachesType,
                          ClientsType
<1>3. ASSUME NEW t \in issued, Expire(t)
      PROVE  TypeOK'
  BY <1>3, TokenFields DEF Expire, stores, caches, StoresType, CachesType, ClientsType,
                           LocalsType
<1>4. CASE Evict
  BY <1>4 DEF Evict, stores, clients, StoresType, CachesType, ClientsType, LocalsType
<1>5. CASE UNCHANGED vars
  BY <1>5 DEF vars, TypeOK
<1>. QED
  BY <1>1, <1>2, <1>3, <1>4, <1>5, TypeStart DEF Next

-----------------------------------------------------------------------------
(* Soundness of the rows, the caches and what requests carry *)

Others(p) ==
  \A q \in Procs \ {p} : /\ pc'[q] = pc[q] /\ req'[q] = req[q]
                         /\ new'[q] = new[q] /\ work'[q] = work[q]

LEMMA OthersSound ==
  ASSUME InFlightSound, NEW p \in Procs, Others(p), issued \subseteq issued',
         RequestSound(p)'
  PROVE  InFlightSound'
<1>. SUFFICES ASSUME NEW q \in Procs \ {p} PROVE RequestSound(q)'
  BY DEF InFlightSound
<1>1. RequestSound(q)
  BY DEF InFlightSound
<1>. QED
  BY <1>1 DEF Others, RequestSound, ListSound, Bearing, Endpoints

LEMMA FinishSound ==
  ASSUME TypeOK, NEW p \in Procs, Finish(p)
  PROVE  RequestSound(p)' /\ Others(p)
<1>1. /\ pc'[p] = "idle" /\ req'[p] = NoReq /\ new'[p] = NoToken /\ work'[p] = NoWork
      /\ Others(p)
  BY DEF Finish, Goto, TypeOK, Others
<1>. QED
  BY <1>1 DEF RequestSound, NoReq, NoWork, Writing, ListSound, Endpoints, Bearing

LEMMA NoWorkSound == ASSUME NEW u \in Users PROVE ListSound(u, NoWork.list[u])
BY DEF NoWork, Writing, ListSound

LEMMA WritingOneSound ==
  ASSUME NEW v \in Users, NEW l, ListSound(v, l), NEW u \in Users
  PROVE  ListSound(u, WritingOne(v, l).list[u])
BY DEF WritingOne, Writing, ListSound

LEMMA FlushSound ==
  ASSUME TypeOK, RowsSound, NEW p \in Procs, RequestSound(p), UNCHANGED issued,
         Flush(work[p])
  PROVE  RowsSound'
<1>1. /\ work[p].dirty \in SUBSET Users
      /\ work[p].list \in [Users -> SUBSET Token]
  BY DEF TypeOK, Work
<1>. SUFFICES ASSUME NEW u \in Users
              PROVE  ListSound(u, rows[u])' /\ (u \in present <=> rows[u] # {})'
  BY DEF RowsSound
<1>2. CASE u \in work[p].dirty
  BY <1>1, <1>2 DEF Flush, RequestSound, ListSound, Bearing, Endpoints
<1>3. CASE u \notin work[p].dirty
  BY <1>1, <1>3 DEF Flush, RowsSound, ListSound
<1>. QED
  BY <1>2, <1>3

LEMMA CommitSound ==
  ASSUME TypeOK, RowsSound, NEW p \in Procs, RequestSound(p), UNCHANGED issued,
         CommitSucceeds(work[p]) \/ CommitFails(work[p])
  PROVE  RowsSound'
<1>1. CASE Flush(work[p])
  BY <1>1, FlushSound
<1>2. CASE UNCHANGED stores
  BY <1>2 DEF stores, RowsSound, ListSound
<1>. QED
  BY <1>1, <1>2 DEF CommitSucceeds, CommitFails

LEMMA SetAccessSound ==
  ASSUME CachesSound, NEW t \in issued, SetAccess(t), UNCHANGED <<issued, held>>
  PROVE  CachesSound'
BY DEF CachesSound, SetAccess, CacheSet

LEMMA DeleteSound ==
  ASSUME CachesSound, NEW key, Delete(key), UNCHANGED <<issued, held>>
  PROVE  CachesSound'
BY DEF CachesSound, Delete, caches

(* A new signature is unlike every other. *)
LEMMA SignSound ==
  ASSUME CachesSound, NEW u, NEW s, NEW t \in SignFor(u, s), issued' = issued \cup {t},
         UNCHANGED <<held, caches>>
  PROVE  CachesSound'
BY DEF CachesSound, SignFor, caches

LEMMA RowsKept ==
  ASSUME RowsSound, UNCHANGED stores, issued \subseteq issued'
  PROVE  RowsSound'
BY DEF RowsSound, ListSound, stores

LEMMA CachesKept ==
  ASSUME CachesSound, UNCHANGED <<caches, issued, held>>
  PROVE  CachesSound'
BY DEF CachesSound, caches

Sound == RowsSound /\ CachesSound /\ InFlightSound

(* A step that leaves the stores, the caches and the clients alone. *)
LEMMA LocalSound ==
  ASSUME Sound, NEW p \in Procs, Others(p), RequestSound(p)',
         UNCHANGED <<stores, caches, clients>>
  PROVE  Sound'
<1>1. UNCHANGED <<issued, held>>
  BY DEF clients
<1>. QED
  BY <1>1, OthersSound, RowsKept, CachesKept DEF Sound

LEMMA StartSound ==
  ASSUME TypeOK, Sound, NEW p \in Procs, Start(p)
  PROVE  Sound'
<1>. USE DEF Sound
<1>0. \A u \in Users : ListSound(u, work[p].list[u])
  BY DEF InFlightSound, RequestSound, Bearing, Endpoints
<1>1. ASSUME StartPurge(p) \/ \E u \in Users : StartLogin(p, u)
      PROVE  Sound'
  <2>1. /\ pc'[p] = "purge" /\ req'[p].op \in {"startup", "login"}
        /\ UNCHANGED <<stores, caches, clients, work, new>> /\ Others(p)
    BY <1>1 DEF StartPurge, StartLogin, Goto, TypeOK, Others
  <2>2. RequestSound(p)'
    BY <1>0, <2>1 DEF RequestSound, ListSound, clients, Endpoints, Bearing
  <2>. QED
    BY <2>1, <2>2, LocalSound
<1>2. ASSUME NEW t \in held, NEW op \in Endpoints \cup {"refresh"},
             \/ op \in Endpoints /\ (ValidateHit(p, t, op) \/ ValidateMiss(p, t, op))
             \/ op = "refresh" /\ StartRefresh(p, t)
      PROVE  Sound'
  <2>1. /\ \/ op \in Endpoints /\ pc'[p] \in {"touchLoad", "rejectDrop", "validateLoad"}
           \/ op = "refresh" /\ pc'[p] = "rotateLoad"
        /\ req'[p] = [op |-> op, who |-> t.user, tok |-> t]
        /\ UNCHANGED <<stores, caches, clients, work, new>>
        /\ Others(p)
    BY <1>2 DEF ValidateHit, ValidateMiss, StartRefresh, Goto, TypeOK, Others
  <2>2. t \in issued
    BY DEF CachesSound
  <2>3. RequestSound(p)'
    BY <1>0, <2>1, <2>2 DEF RequestSound, ListSound, clients, Endpoints, Bearing
  <2>. QED
    BY <2>1, <2>3, LocalSound
<1>. QED
  BY <1>1, <1>2 DEF Start

LEMMA AfterPurgeSound ==
  ASSUME TypeOK, InFlightSound, NEW p \in Procs, AfterPurge(p), UNCHANGED issued
  PROVE  RequestSound(p)' /\ Others(p)
<1>1. CASE req[p].op = "login"
  <2>1. /\ pc'[p] = "loginLoad" /\ work'[p] = NoWork /\ UNCHANGED <<req, new>>
        /\ Others(p)
    BY <1>1 DEF AfterPurge, Goto, TypeOK, Others
  <2>. QED
    BY <1>1, <2>1, NoWorkSound DEF RequestSound, Endpoints, ListSound, Bearing
<1>2. CASE req[p].op # "login"
  BY <1>2, FinishSound DEF AfterPurge
<1>. QED
  BY <1>1, <1>2

LEMMA AfterAuthSound ==
  ASSUME TypeOK, InFlightSound, NEW p \in Procs, req[p].op \in Endpoints, AfterAuth(p),
         UNCHANGED issued
  PROVE  RequestSound(p)' /\ Others(p)
<1>1. CASE req[p].op # "call"
  <2>1. /\ \/ pc'[p] = "purge"
           \/ pc'[p] = "deleteLoad" /\ req[p].op = "logout"
        /\ work'[p] = NoWork /\ UNCHANGED <<req, new>> /\ Others(p)
    BY <1>1 DEF AfterAuth, Goto, TypeOK, Others, Endpoints
  <2>2. req[p].tok \in issued /\ req[p].who = req[p].tok.user
    BY DEF InFlightSound, RequestSound, Bearing, Endpoints
  <2>. QED
    BY <2>1, <2>2, NoWorkSound DEF RequestSound, ListSound, Bearing, Endpoints
<1>2. CASE req[p].op = "call"
  BY <1>2, FinishSound DEF AfterAuth
<1>. QED
  BY <1>1, <1>2

LEMMA AfterLostTouchSound ==
  ASSUME TypeOK, InFlightSound, NEW p \in Procs, req[p].op \in Endpoints,
         AfterLostTouch(p), UNCHANGED issued
  PROVE  RequestSound(p)' /\ Others(p)
<1>1. CASE req[p].op = "logout"
  <2>1. /\ pc'[p] = "deleteLoad" /\ work'[p] = NoWork /\ UNCHANGED new /\ Others(p)
        /\ req'[p].op = "lostLogout" /\ req'[p].tok = req[p].tok
        /\ req'[p].who = req[p].who
    BY <1>1 DEF AfterLostTouch, Goto, TypeOK, Others
  <2>2. req[p].tok \in issued /\ req[p].who = req[p].tok.user
    BY DEF InFlightSound, RequestSound, Bearing
  <2>. QED
    BY <2>1, <2>2, NoWorkSound DEF RequestSound, ListSound, Bearing, Endpoints
<1>2. CASE req[p].op # "logout"
  BY <1>2, FinishSound DEF AfterLostTouch
<1>. QED
  BY <1>1, <1>2

LEMMA PurgeSound ==
  ASSUME TypeOK, Sound, NEW p \in Procs,
         PurgeLoad(p) \/ PurgeNothing(p) \/ PurgeFails(p) \/ PurgeCommit(p)
  PROVE  Sound'
<1>. USE DEF Sound
<1>0. RequestSound(p)
  BY DEF InFlightSound
<1>1. CASE PurgeLoad(p)
  <2>. DEFINE stale == {u \in Users : Expired(rows[u]) # {}}
              lists == [u \in stale |-> rows[u] \ Expired(rows[u])]
  <2>1. /\ pc'[p] = "purgeDrop" /\ work'[p] = Writing(stale, lists, FALSE)
        /\ UNCHANGED <<stores, caches, clients, req, new>> /\ Others(p)
    BY <1>1 DEF PurgeLoad, Goto, TypeOK, Others
  <2>2. ASSUME NEW u \in Users
        PROVE  ListSound(u, Writing(stale, lists, FALSE).list[u])
    BY DEF Writing, RowsSound, ListSound
  <2>. HIDE DEF stale, lists
  <2>3. (\A u \in Users : ListSound(u, work[p].list[u]))'
    BY <2>1, <2>2 DEF ListSound, clients
  <2>4. RequestSound(p)'
    BY <1>0, <2>1, <2>3 DEF RequestSound, clients, Bearing, Endpoints
  <2>. QED
    BY <2>1, <2>4, LocalSound
<1>2. CASE PurgeNothing(p)
  BY <1>2, AfterPurgeSound, LocalSound DEF PurgeNothing, clients
<1>3. CASE PurgeCommit(p)
  <2>1. UNCHANGED <<caches, issued, held>>
    BY <1>3 DEF PurgeCommit, clients
  <2>2. RowsSound'
    BY <1>0, <1>3, <2>1, CommitSound DEF PurgeCommit
  <2>3. InFlightSound'
    BY <1>3, <2>1, AfterPurgeSound, FinishSound, OthersSound DEF PurgeCommit
  <2>. QED
    BY <2>1, <2>2, <2>3, CachesKept
<1>4. CASE PurgeFails(p)
  BY <1>4, FinishSound, LocalSound DEF PurgeFails
<1>. QED
  BY <1>1, <1>2, <1>3, <1>4

(* A commit followed by the end of the request or by its next step. *)
LEMMA CommitStepSound ==
  ASSUME TypeOK, Sound, NEW p \in Procs, UNCHANGED <<caches, clients>>,
         CommitSucceeds(work[p]) \/ CommitFails(work[p]),
         Others(p), RequestSound(p)'
  PROVE  Sound'
<1>1. UNCHANGED <<issued, held>>
  BY DEF clients
<1>2. RequestSound(p)
  BY DEF Sound, InFlightSound
<1>. QED
  BY <1>1, <1>2, CommitSound, CachesKept, OthersSound DEF Sound

LEMMA LoginSound ==
  ASSUME TypeOK, Sound, NEW p \in Procs,
         \/ LoginLoad(p) \/ LoginCommit(p) \/ Reload(p)
         \/ CacheAccess(p) \/ CacheRefresh(p)
  PROVE  Sound'
<1>. USE DEF Sound
<1>0. RequestSound(p)
  BY DEF InFlightSound
<1>1. CASE LoginLoad(p)
  <2>1. PICK s \in UnusedSessions : \E t \in SignFor(req[p].who, s) :
          /\ issued' = issued \cup {t}
          /\ new' = [new EXCEPT ![p] = t]
          /\ work' = [work EXCEPT ![p] =
                        Writing({t.user}, [u \in {t.user} |-> rows[u] \cup {t}],
                                t.user \notin present)]
    BY <1>1 DEF LoginLoad
  <2>2. PICK t \in SignFor(req[p].who, s) :
          /\ issued' = issued \cup {t}
          /\ new' = [new EXCEPT ![p] = t]
          /\ work' = [work EXCEPT ![p] =
                        Writing({t.user}, [u \in {t.user} |-> rows[u] \cup {t}],
                                t.user \notin present)]
    BY <2>1
  <2>3. /\ pc'[p] = "loginCommit" /\ new'[p] = t /\ UNCHANGED <<stores, caches, held, req>>
        /\ work'[p] = Writing({t.user}, [u \in {t.user} |-> rows[u] \cup {t}],
                              t.user \notin present)
        /\ Others(p)
    BY <1>1, <2>2 DEF LoginLoad, Goto, TypeOK, Others
  <2>4. t.sid = s /\ t \in Token
    BY DEF SignFor
  <2>5. ASSUME NEW u \in Users
        PROVE  ListSound(u, work[p].list[u])'
    <3>1. ListSound(u, rows[u])
      BY DEF RowsSound
    <3>2. \A e \in rows[u] : e.sid # s
      BY <3>1 DEF ListSound, UnusedSessions
    <3>3. work'[p].list[u] = IF u = t.user THEN rows[u] \cup {t} ELSE {}
      BY <2>3 DEF Writing
    <3>4. CASE u = t.user
      <4>1. rows[u] \cup {t} \subseteq {i \in issued' : i.user = u}
        BY <2>2, <3>1, <3>4 DEF ListSound
      <4>2. \A e, f \in rows[u] \cup {t} : e.sid = f.sid => e = f
        BY <2>4, <3>1, <3>2 DEF ListSound
      <4>. QED
        BY <3>3, <3>4, <4>1, <4>2 DEF ListSound
    <3>5. CASE u # t.user
      BY <3>3, <3>5 DEF ListSound
    <3>. QED
      BY <3>4, <3>5
  <2>6. RequestSound(p)'
    BY <1>0, <1>1, <2>2, <2>3, <2>5 DEF LoginLoad, RequestSound, Bearing, Endpoints
  <2>7. issued \subseteq issued'
    BY <2>2
  <2>. QED
    BY <2>2, <2>3, <2>6, <2>7, RowsKept, SignSound, OthersSound
<1>2. CASE LoginCommit(p)
  <2>1. CASE Finish(p)
    BY <1>2, <2>1, FinishSound, CommitStepSound DEF LoginCommit
  <2>2. CASE ~Finish(p)
    <3>1. /\ pc'[p] = "reload" /\ work'[p] = NoWork /\ UNCHANGED <<req, new, issued>>
          /\ Others(p)
      BY <1>2, <2>2 DEF LoginCommit, Goto, TypeOK, Others, clients
    <3>2. RequestSound(p)'
      BY <1>0, <1>2, <3>1, NoWorkSound DEF LoginCommit, RequestSound, ListSound,
                                        Bearing, Endpoints
    <3>. QED
      BY <1>2, <2>2, <3>1, <3>2, CommitStepSound DEF LoginCommit
  <2>. QED
    BY <2>1, <2>2
<1>3. CASE Reload(p)
  <2>1. CASE Finish(p)
    BY <1>3, <2>1, FinishSound, LocalSound DEF Reload
  <2>2. CASE ~Finish(p)
    <3>1. /\ pc'[p] = "cacheAccess" \/ pc'[p] = "rotateDrop"
          /\ pc'[p] = "rotateDrop" <=> req[p].op # "login"
          /\ UNCHANGED <<stores, caches, clients, req, new, work>> /\ Others(p)
      BY <1>3, <2>2 DEF Reload, Goto, TypeOK, Others
    <3>2. RequestSound(p)'
      BY <1>0, <1>3, <3>1 DEF Reload, RequestSound, ListSound, clients, Bearing, Endpoints
    <3>. QED
      BY <3>1, <3>2, LocalSound
  <2>. QED
    BY <2>1, <2>2
<1>4. CASE CacheAccess(p)
  <2>1. /\ pc'[p] = "cacheRefresh" /\ UNCHANGED <<stores, issued, held, req, new, work>>
        /\ Others(p)
    BY <1>4 DEF CacheAccess, Goto, TypeOK, Others, clients
  <2>2. RequestSound(p)' /\ new[p] \in issued
    BY <1>0, <1>4, <2>1 DEF CacheAccess, RequestSound, ListSound, Bearing, Endpoints
  <2>. QED
    BY <1>4, <2>1, <2>2, SetAccessSound, RowsKept, OthersSound DEF CacheAccess
<1>5. CASE CacheRefresh(p)
  <2>1. new[p] \in issued
    BY <1>0, <1>5 DEF CacheRefresh, RequestSound, Bearing, Endpoints
  <2>2. CachesSound'
    BY <1>5, <2>1 DEF CacheRefresh, CachesSound, SetRefresh, CacheSet
  <2>. QED
    BY <1>5, <2>2, FinishSound, RowsKept, OthersSound DEF CacheRefresh
<1>. QED
  BY <1>1, <1>2, <1>3, <1>4, <1>5

LEMMA AuthenticateSound ==
  ASSUME TypeOK, Sound, NEW p \in Procs,
         ValidateLoad(p) \/ ValidateFill(p) \/ TouchLoad(p) \/ TouchCommit(p)
  PROVE  Sound'
<1>. USE DEF Sound
<1>0. RequestSound(p)
  BY DEF InFlightSound
<1>1. CASE ValidateLoad(p)
  <2>1. CASE Finish(p)
    BY <1>1, <2>1, FinishSound, LocalSound DEF ValidateLoad
  <2>2. CASE ~Finish(p)
    <3>1. /\ pc'[p] \in {"validateFill", "rejectDrop"}
          /\ UNCHANGED <<stores, caches, clients, req, new, work>> /\ Others(p)
      BY <1>1, <2>2 DEF ValidateLoad, Goto, TypeOK, Others
    <3>2. RequestSound(p)'
      BY <1>0, <1>1, <3>1 DEF ValidateLoad, RequestSound, ListSound, clients,
                              Bearing, Endpoints
    <3>. QED
      BY <3>1, <3>2, LocalSound
  <2>. QED
    BY <2>1, <2>2
<1>2. CASE ValidateFill(p)
  <2>1. /\ pc'[p] = "touchLoad" /\ UNCHANGED <<stores, issued, held, req, new, work>>
        /\ Others(p)
    BY <1>2 DEF ValidateFill, Goto, TypeOK, Others, clients
  <2>2. RequestSound(p)' /\ req[p].tok \in issued
    BY <1>0, <1>2, <2>1 DEF ValidateFill, RequestSound, ListSound, Bearing, Endpoints
  <2>. QED
    BY <1>2, <2>1, <2>2, SetAccessSound, RowsKept, OthersSound DEF ValidateFill
<1>3. CASE TouchLoad(p)
  <2>1. req[p].op \in Endpoints
    BY <1>0, <1>3 DEF TouchLoad, RequestSound, Bearing, Endpoints
  <2>2. CASE AfterAuth(p)
    BY <1>3, <2>1, <2>2, AfterAuthSound, LocalSound DEF TouchLoad, clients
  <2>3. CASE ~AfterAuth(p)
    <3>1. PICK u \in Users : /\ work' = [work EXCEPT ![p] = WritingOne(u, rows[u])]
                             /\ Goto(p, "touchCommit")
                             /\ UNCHANGED <<req, new, drops>>
      BY <1>3, <2>3 DEF TouchLoad, RowsHolding
    <3>2. /\ pc'[p] = "touchCommit" /\ work'[p] = WritingOne(u, rows[u]) /\ Others(p)
          /\ UNCHANGED <<stores, caches, clients, req, new>>
      BY <1>3, <3>1 DEF TouchLoad, Goto, TypeOK, Others
    <3>3. ListSound(u, rows[u])
      BY DEF RowsSound
    <3>4. RequestSound(p)'
      BY <1>0, <2>1, <3>2, <3>3, WritingOneSound DEF RequestSound, ListSound, clients,
                                        Bearing, Endpoints
    <3>. QED
      BY <3>2, <3>4, LocalSound
  <2>. QED
    BY <2>2, <2>3
<1>4. CASE TouchCommit(p)
  <2>1. req[p].op \in Endpoints
    BY <1>0, <1>4 DEF TouchCommit, RequestSound, Bearing, Endpoints
  <2>. QED
    BY <1>4, <2>1, AfterAuthSound, AfterLostTouchSound, CommitStepSound DEF TouchCommit, clients
<1>. QED
  BY <1>1, <1>2, <1>3, <1>4

(* Taking entries out of a list keeps it sound. *)
LEMMA RemoveSound ==
  ASSUME RowsSound, NEW v \in Users, NEW gone, NEW u \in Users
  PROVE  ListSound(u, WritingOne(v, rows[v] \ gone).list[u])
<1>1. ListSound(v, rows[v] \ gone)
  BY DEF RowsSound, ListSound
<1>. QED
  BY <1>1, WritingOneSound

LEMMA DeleteStepSound ==
  ASSUME TypeOK, Sound, NEW p \in Procs, DeleteLoad(p) \/ DeleteCommit(p)
  PROVE  Sound'
<1>. USE DEF Sound
<1>0. RequestSound(p)
  BY DEF InFlightSound
<1>1. CASE DeleteLoad(p)
  <2>1. /\ pc'[p] \in {"deleteCommit", "logoutDrop", "rejectDrop"} /\ Others(p)
        /\ pc'[p] = "logoutDrop" => req[p].op = "logout"
        /\ UNCHANGED <<stores, caches, clients, req, new>>
        /\ \/ work'[p] = work[p]
           \/ \E u \in Users :
                work'[p] = WritingOne(u, rows[u] \ EntriesOf(rows[u], req[p].tok.sid))
    BY <1>1 DEF DeleteLoad, AfterDelete, RowsHolding, Goto, TypeOK, Others
  <2>2. \A u \in Users : ListSound(u, work'[p].list[u])
    BY <1>0, <2>1, RemoveSound DEF RequestSound, Bearing, Endpoints
  <2>3. RequestSound(p)'
    BY <1>0, <1>1, <2>1, <2>2 DEF DeleteLoad, RequestSound, ListSound, clients, Endpoints,
                                  Bearing
  <2>. QED
    BY <2>1, <2>3, LocalSound
<1>2. CASE DeleteCommit(p)
  <2>1. CASE Finish(p)
    BY <1>2, <2>1, FinishSound, CommitStepSound DEF DeleteCommit
  <2>2. CASE ~Finish(p)
    <3>1. /\ \/ pc'[p] = "logoutDrop" /\ req[p].op = "logout"
             \/ pc'[p] = "rejectDrop"
          /\ work'[p] = NoWork /\ UNCHANGED <<req, new, issued>> /\ Others(p)
      BY <1>2, <2>2 DEF DeleteCommit, AfterDelete, Goto, TypeOK, Others, clients
    <3>2. RequestSound(p)'
      BY <1>0, <1>2, <3>1, NoWorkSound DEF DeleteCommit, RequestSound, ListSound,
                                        Bearing, Endpoints
    <3>. QED
      BY <1>2, <2>2, <3>1, <3>2, CommitStepSound DEF DeleteCommit
  <2>. QED
    BY <2>1, <2>2
<1>. QED
  BY <1>1, <1>2

LEMMA RotateSound ==
  ASSUME TypeOK, Sound, NEW p \in Procs,
         \/ Rotate(p) \/ Revoke(p) \/ RotateUnknown(p)
         \/ RevokeLoad(p) \/ RotateCommit(p)
  PROVE  Sound'
<1>. USE DEF Sound
<1>. DEFINE t == req[p].tok
<1>0. RequestSound(p)
  BY DEF InFlightSound
<1>1. CASE Rotate(p)
  <2>1. PICK n \in SignFor(t.user, t.sid) :
          /\ issued' = issued \cup {n}
          /\ new' = [new EXCEPT ![p] = n]
          /\ work' = [work EXCEPT ![p] =
                        WritingOne(t.user, (rows[t.user] \ {t}) \cup {n})]
    BY <1>1 DEF Rotate
  <2>2. /\ pc'[p] = "rotateCommit" /\ new'[p] = n /\ Others(p)
        /\ UNCHANGED <<stores, caches, held, req>>
        /\ work'[p] = WritingOne(t.user, (rows[t.user] \ {t}) \cup {n})
    BY <1>1, <2>1 DEF Rotate, Goto, TypeOK, Others
  <2>3. n.user = t.user /\ n.sid = t.sid
    BY DEF SignFor
  <2>4. t \in rows[t.user] /\ t.user \in Users
    BY <1>0, <1>1, InFlightTokens DEF Rotate, RequestSound, Bearing, Endpoints
  <2>. DEFINE list == (rows[t.user] \ {t}) \cup {n}
  <2>5. ListSound(t.user, rows[t.user])
    BY <2>4 DEF RowsSound
  <2>6. /\ list \subseteq {i \in issued' : i.user = t.user}
        /\ \A e, f \in list : e.sid = f.sid => e = f
    BY <2>1, <2>3, <2>4, <2>5 DEF ListSound
  <2>7. ASSUME NEW u \in Users
        PROVE  ListSound(u, work[p].list[u])'
    BY <2>2, <2>6 DEF WritingOne, Writing, ListSound
  <2>8. RequestSound(p)'
    BY <1>0, <1>1, <2>1, <2>2, <2>7 DEF Rotate, RequestSound, Bearing, Endpoints
  <2>9. issued \subseteq issued'
    BY <2>1
  <2>. QED
    BY <2>1, <2>2, <2>8, <2>9, RowsKept, SignSound, OthersSound
<1>2. CASE Revoke(p)
  <2>1. /\ pc'[p] = "revokeLoad" /\ Others(p) /\ UNCHANGED <<stores, caches, clients, req, new>>
        /\ work'[p] = WritingOne(t.user, rows[t.user] \ EntriesOf(rows[t.user], t.sid))
    BY <1>2 DEF Revoke, Goto, TypeOK, Others
  <2>2. t.user \in Users
    BY <1>0, <1>2, InFlightTokens DEF Revoke, RequestSound, Bearing, Endpoints
  <2>3. \A u \in Users : ListSound(u, work'[p].list[u])
    BY <2>1, <2>2, RemoveSound
  <2>4. RequestSound(p)'
    BY <1>0, <1>2, <2>1, <2>3 DEF Revoke, RequestSound, ListSound, clients,
                                  Bearing, Endpoints
  <2>. QED
    BY <2>1, <2>4, LocalSound
<1>3. CASE RotateUnknown(p)
  BY <1>3, FinishSound, LocalSound DEF RotateUnknown
<1>4. CASE RevokeLoad(p)
  <2>1. /\ pc'[p] \in {"deleteCommit", "rejectDrop"} /\ Others(p)
        /\ UNCHANGED <<stores, caches, clients, req, new>>
        /\ work'[p] = work[p] \/ work'[p] = NoWork
    BY <1>4 DEF RevokeLoad, Goto, TypeOK, Others
  <2>2. \A u \in Users : ListSound(u, work'[p].list[u])
    BY <1>0, <2>1, NoWorkSound DEF RequestSound, Bearing, Endpoints
  <2>3. RequestSound(p)'
    BY <1>0, <1>4, <2>1, <2>2 DEF RevokeLoad, RequestSound, ListSound, clients,
                                  Bearing, Endpoints
  <2>. QED
    BY <2>1, <2>3, LocalSound
<1>5. CASE RotateCommit(p)
  <2>1. CASE Finish(p)
    BY <1>5, <2>1, FinishSound, CommitStepSound DEF RotateCommit
  <2>2. CASE ~Finish(p)
    <3>1. /\ pc'[p] = "reload" /\ work'[p] = NoWork /\ UNCHANGED <<req, new, issued>>
          /\ Others(p)
      BY <1>5, <2>2 DEF RotateCommit, Goto, TypeOK, Others, clients
    <3>2. RequestSound(p)'
      BY <1>0, <1>5, <3>1, NoWorkSound DEF RotateCommit, RequestSound, ListSound,
                                        Bearing, Endpoints
    <3>. QED
      BY <1>5, <2>2, <3>1, <3>2, CommitStepSound DEF RotateCommit
  <2>. QED
    BY <2>1, <2>2
<1>. QED
  BY <1>1, <1>2, <1>3, <1>4, <1>5

LEMMA DropSound ==
  ASSUME TypeOK, Sound, NEW p \in Procs, NEW key \in drops[p], Drop(p, key)
  PROVE  Sound'
<1>. USE DEF Sound
<1>0. RequestSound(p)
  BY DEF InFlightSound
<1>1. UNCHANGED <<stores, issued, held>>
  BY DEF Drop
<1>2. CachesSound'
  BY <1>1, DeleteSound DEF Drop
<1>3. RequestSound(p)' /\ Others(p)
  <2>1. CASE drops[p] # {key}
    BY <1>0, <1>1, <2>1 DEF Drop, RequestSound, ListSound, Others, Bearing, Endpoints
  <2>2. CASE drops[p] = {key} /\ pc[p] \in {"purgeDrop", "rotateDrop"}
    <3>1. /\ \/ pc[p] = "purgeDrop" /\ pc'[p] = "purgeCommit"
             \/ pc[p] = "rotateDrop" /\ pc'[p] = "cacheAccess"
          /\ UNCHANGED <<req, new, work>> /\ Others(p)
      BY <2>2 DEF Drop, AfterDrops, Goto, TypeOK, Others
    <3>. QED
      BY <1>0, <1>1, <3>1 DEF RequestSound, ListSound, Bearing, Endpoints
  <2>3. CASE drops[p] = {key} /\ pc[p] \in {"logoutDrop", "rejectDrop"}
    <3>1. /\ pc'[p] = "idle" /\ req'[p] = NoReq /\ work'[p] = NoWork /\ Others(p)
      BY <2>3 DEF Drop, AfterDrops, Goto, TypeOK, Others
    <3>. QED
      BY <3>1 DEF RequestSound, NoReq, NoWork, Writing, ListSound, Endpoints, Bearing
  <2>. QED
    BY <2>1, <2>2, <2>3 DEF Drop, DropSteps
<1>. QED
  BY <1>1, <1>2, <1>3, RowsKept, OthersSound

LEMMA SoundStep ==
  ASSUME TypeOK, Sound, [Next]_vars
  PROVE  Sound'
<1>1. ASSUME NEW p \in Procs, Continue(p)
      PROVE  Sound'
  BY <1>1, PurgeSound, LoginSound, AuthenticateSound, DeleteStepSound, RotateSound,
     DropSound DEF Continue
<1>2. ASSUME NEW p \in Procs, Crash(p)
      PROVE  Sound'
  BY <1>2, FinishSound, LocalSound DEF Crash
<1>3. CASE \E t \in issued : Expire(t)
  BY <1>3 DEF Expire, stores, caches, Sound, RowsSound, CachesSound, InFlightSound,
              RequestSound, ListSound, Bearing, Endpoints
<1>4. CASE Evict
  BY <1>4 DEF Evict, stores, clients, Sound, RowsSound, CachesSound, InFlightSound,
              RequestSound, ListSound, Bearing, Endpoints
<1>5. CASE UNCHANGED vars
  BY <1>5 DEF vars, Sound, RowsSound, CachesSound, InFlightSound, RequestSound, ListSound,
              Bearing, Endpoints
<1>. QED
  BY <1>1, <1>2, <1>3, <1>4, <1>5, StartSound DEF Next

LEMMA SoundInit == Init => Sound
BY NoWorkSound DEF Init, Sound, RowsSound, CachesSound, InFlightSound, RequestSound,
                   ListSound, NoReq, Endpoints, Bearing

(* Whatever clients ask for, however requests overlap, whatever fails: the   *)
(* rows, the caches and the requests in flight stay well formed and sound.   *)
THEOREM Soundness == Spec => [](TypeOK /\ RowsSound /\ CachesSound /\ InFlightSound)
<1>1. Init => TypeOK /\ Sound
  BY TypeInit, SoundInit
<1>2. TypeOK /\ Sound /\ [Next]_vars => (TypeOK /\ Sound)'
  BY TypeStep, SoundStep DEF Sound
<1>3. TypeOK /\ Sound => TypeOK /\ RowsSound /\ CachesSound /\ InFlightSound
  BY DEF Sound
<1>. QED
  BY <1>1, <1>2, <1>3, PTL DEF Spec

(* Every variable keeps its type. *)
THEOREM TypeCorrect == Spec => []TypeOK
BY Soundness, PTL

(* A row never holds another user's session, nor one session twice, and     *)
(* never stays behind empty.                                                *)
THEOREM RowsCorrect == Spec => []RowsSound
BY Soundness, PTL

(* The mismatch branches of validation and rotation are unreachable. *)
THEOREM CachesCorrect == Spec => []CachesSound
BY Soundness, PTL

(* No request ever acts for a token that was not signed, nor writes back a  *)
(* list its row could not hold.                                             *)
THEOREM InFlightCorrect == Spec => []InFlightSound
BY Soundness, PTL

-----------------------------------------------------------------------------
(* A session that has left every store and every request stays away *)

LEMMA NoWorkClean == ASSUME NEW u \in Users PROVE NoWork.list[u] = {}
BY DEF NoWork, Writing

(* A step of p that adds nothing about s leaves s gone. *)
LEMMA GoneKept ==
  ASSUME NEW p \in Procs, NEW s, Gone(s), issued \subseteq issued', Others(p),
         \A u \in Users : rows'[u] \in {rows[u], work[p].list[u]},
         \A t \in (accessCache' \cup refreshCache') \ (accessCache \cup refreshCache) :
            t.sid # s,
         ~Carries(p, s)'
  PROVE  Gone(s)'
<1>1. \A u \in Users : \A t \in rows'[u] : t.sid # s
  BY DEF Gone, Carries
<1>2. \A q \in Procs : ~Carries(q, s)'
  BY DEF Gone, Carries, Others
<1>. QED
  BY <1>1, <1>2 DEF Gone, Signed

LEMMA CommitRows ==
  ASSUME TypeOK, NEW p \in Procs, CommitSucceeds(work[p]) \/ CommitFails(work[p])
  PROVE  \A u \in Users : rows'[u] \in {rows[u], work[p].list[u]}
BY DEF CommitSucceeds, CommitFails, Flush, stores

LEMMA FinishClean ==
  ASSUME TypeOK, NEW p \in Procs, NEW s, Finish(p)
  PROVE  ~Carries(p, s)' /\ Others(p)
<1>1. pc'[p] = "idle" /\ new'[p] = NoToken /\ work'[p] = NoWork
  BY DEF Finish, Goto, TypeOK
<1>. QED
  BY <1>1, NoWorkClean, FinishSound DEF Carries

(* A step that changes no store and no cache and carries nothing new. *)
LEMMA GoneLocal ==
  ASSUME NEW p \in Procs, NEW s, Gone(s), UNCHANGED <<stores, caches, clients>>,
         Others(p), ~Carries(p, s)'
  PROVE  Gone(s)'
BY GoneKept DEF stores, caches, clients

LEMMA StartGone ==
  ASSUME TypeOK, NEW s, Gone(s), NEW p \in Procs, Start(p)
  PROVE  Gone(s)'
<1>1. /\ UNCHANGED <<stores, caches, clients, new, work>> /\ Others(p)
      /\ pc'[p] # "validateFill"
  BY DEF Start, StartPurge, StartLogin, ValidateHit, ValidateMiss, StartRefresh, Goto,
         TypeOK, Others
<1>2. ~Carries(p, s)'
  BY <1>1 DEF Gone, Carries
<1>. QED
  BY <1>1, <1>2, GoneLocal

LEMMA CleanKept ==
  ASSUME NEW p \in Procs, NEW s, Gone(s),
         \A u \in Users : \A t \in work'[p].list[u] :
           t \in work[p].list[u] \/ t \in rows[u] \/ t.sid # s,
         new'[p] = new[p] \/ new'[p].sid # s,
         pc'[p] = "validateFill" => req'[p].tok.sid # s
  PROVE  ~Carries(p, s)'
BY DEF Gone, Carries

LEMMA AfterPurgeClean ==
  ASSUME TypeOK, NEW p \in Procs, NEW s, Gone(s), AfterPurge(p)
  PROVE  ~Carries(p, s)' /\ Others(p)
<1>1. CASE req[p].op = "login"
  <2>1. /\ pc'[p] = "loginLoad" /\ work'[p] = NoWork /\ new'[p] = new[p] /\ Others(p)
    BY <1>1 DEF AfterPurge, Goto, TypeOK, Others
  <2>. QED
    BY <2>1, NoWorkClean, CleanKept
<1>2. CASE req[p].op # "login"
  BY <1>2, FinishClean DEF AfterPurge
<1>. QED
  BY <1>1, <1>2

LEMMA AfterAuthClean ==
  ASSUME TypeOK, NEW p \in Procs, NEW s, Gone(s), AfterAuth(p)
  PROVE  ~Carries(p, s)' /\ Others(p)
<1>1. CASE req[p].op # "call"
  <2>1. /\ pc'[p] # "validateFill" /\ work'[p] = NoWork /\ new'[p] = new[p] /\ Others(p)
    BY <1>1 DEF AfterAuth, Goto, TypeOK, Others
  <2>. QED
    BY <2>1, NoWorkClean, CleanKept
<1>2. CASE req[p].op = "call"
  BY <1>2, FinishClean DEF AfterAuth
<1>. QED
  BY <1>1, <1>2

LEMMA AfterLostTouchClean ==
  ASSUME TypeOK, NEW p \in Procs, NEW s, Gone(s), AfterLostTouch(p)
  PROVE  ~Carries(p, s)' /\ Others(p)
<1>1. CASE req[p].op = "logout"
  <2>1. /\ pc'[p] = "deleteLoad" /\ work'[p] = NoWork /\ new'[p] = new[p] /\ Others(p)
    BY <1>1 DEF AfterLostTouch, Goto, TypeOK, Others
  <2>. QED
    BY <2>1, NoWorkClean, CleanKept
<1>2. CASE req[p].op # "logout"
  BY <1>2, FinishClean DEF AfterLostTouch
<1>. QED
  BY <1>1, <1>2

LEMMA PurgeGone ==
  ASSUME TypeOK, NEW s, Gone(s), NEW p \in Procs,
         PurgeLoad(p) \/ PurgeNothing(p) \/ PurgeFails(p) \/ PurgeCommit(p)
  PROVE  Gone(s)'
<1>1. CASE PurgeLoad(p)
  <2>. DEFINE stale == {u \in Users : Expired(rows[u]) # {}}
              lists == [u \in stale |-> rows[u] \ Expired(rows[u])]
  <2>1. /\ pc'[p] = "purgeDrop" /\ work'[p] = Writing(stale, lists, FALSE)
        /\ UNCHANGED <<stores, caches, clients, req, new>> /\ Others(p)
    BY <1>1 DEF PurgeLoad, Goto, TypeOK, Others
  <2>2. \A u \in Users : Writing(stale, lists, FALSE).list[u] \subseteq rows[u]
    BY DEF Writing
  <2>. HIDE DEF stale, lists
  <2>3. ~Carries(p, s)'
    BY <2>1, <2>2, CleanKept
  <2>. QED
    BY <2>1, <2>3, GoneLocal
<1>2. CASE PurgeNothing(p)
  BY <1>2, AfterPurgeClean, GoneLocal DEF PurgeNothing
<1>3. CASE PurgeCommit(p)
  <2>1. UNCHANGED <<caches, clients>> /\ ~Carries(p, s)' /\ Others(p)
    BY <1>3, AfterPurgeClean, FinishClean DEF PurgeCommit
  <2>. QED
    BY <1>3, <2>1, CommitRows, GoneKept DEF PurgeCommit, caches, clients
<1>4. CASE PurgeFails(p)
  BY <1>4, FinishClean, GoneLocal DEF PurgeFails
<1>. QED
  BY <1>1, <1>2, <1>3, <1>4

LEMMA AuthenticateGone ==
  ASSUME TypeOK, Sound, NEW s, Gone(s), NEW p \in Procs,
         ValidateLoad(p) \/ ValidateFill(p) \/ TouchLoad(p) \/ TouchCommit(p)
  PROVE  Gone(s)'
<1>1. CASE ValidateLoad(p)
  <2>1. CASE Finish(p)
    BY <1>1, <2>1, FinishClean, GoneLocal DEF ValidateLoad
  <2>2. CASE ~Finish(p)
    <3>1. /\ UNCHANGED <<stores, caches, clients, req, new, work>> /\ Others(p)
          /\ req[p].tok \in rows[req[p].tok.user]
      BY <1>1, <2>2 DEF ValidateLoad, Goto, TypeOK, Others
    <3>2. req[p].tok.user \in Users
      BY <1>1, InFlightTokens DEF Sound, InFlightSound, RequestSound, ValidateLoad,
                                  Bearing, Endpoints
    <3>3. ~Carries(p, s)'
      BY <3>1, <3>2, CleanKept DEF Gone
    <3>. QED
      BY <3>1, <3>3, GoneLocal
  <2>. QED
    BY <2>1, <2>2
<1>2. CASE ValidateFill(p)
  <2>1. /\ pc'[p] = "touchLoad" /\ UNCHANGED <<stores, issued, req, new, work>>
        /\ Others(p)
    BY <1>2 DEF ValidateFill, Goto, TypeOK, Others, clients
  <2>2. ~Carries(p, s)'
    BY <2>1, CleanKept
  <2>3. req[p].tok.sid # s
    BY <1>2 DEF ValidateFill, Gone, Carries
  <2>. QED
    BY <1>2, <2>1, <2>2, <2>3, GoneKept DEF ValidateFill, SetAccess, CacheSet, stores
<1>3. CASE TouchLoad(p)
  <2>1. CASE AfterAuth(p)
    BY <1>3, <2>1, AfterAuthClean, GoneLocal DEF TouchLoad
  <2>2. CASE ~AfterAuth(p)
    <3>1. PICK u \in Users : /\ work' = [work EXCEPT ![p] = WritingOne(u, rows[u])]
                             /\ Goto(p, "touchCommit")
                             /\ UNCHANGED <<req, new, drops>>
      BY <1>3, <2>2 DEF TouchLoad, RowsHolding
    <3>2. /\ pc'[p] = "touchCommit" /\ work'[p] = WritingOne(u, rows[u]) /\ Others(p)
          /\ UNCHANGED <<stores, caches, clients, req, new>>
      BY <1>3, <3>1 DEF TouchLoad, Goto, TypeOK, Others
    <3>3. \A v \in Users : WritingOne(u, rows[u]).list[v] \subseteq rows[v]
      BY DEF WritingOne, Writing
    <3>4. ~Carries(p, s)'
      BY <3>2, <3>3, CleanKept
    <3>. QED
      BY <3>2, <3>4, GoneLocal
  <2>. QED
    BY <2>1, <2>2
<1>4. CASE TouchCommit(p)
  <2>1. UNCHANGED <<caches, clients>> /\ ~Carries(p, s)' /\ Others(p)
    BY <1>4, AfterAuthClean, AfterLostTouchClean DEF TouchCommit
  <2>. QED
    BY <1>4, <2>1, CommitRows, GoneKept DEF TouchCommit, caches, clients
<1>. QED
  BY <1>1, <1>2, <1>3, <1>4

LEMMA LoginGone ==
  ASSUME TypeOK, NEW s, Gone(s), Sound, NEW p \in Procs,
         \/ LoginLoad(p) \/ LoginCommit(p) \/ Reload(p)
         \/ CacheAccess(p) \/ CacheRefresh(p)
  PROVE  Gone(s)'
<1>1. CASE LoginLoad(p)
  <2>1. PICK r \in UnusedSessions : \E t \in SignFor(req[p].who, r) :
          /\ issued' = issued \cup {t}
          /\ new' = [new EXCEPT ![p] = t]
          /\ work' = [work EXCEPT ![p] =
                        Writing({t.user}, [u \in {t.user} |-> rows[u] \cup {t}],
                                t.user \notin present)]
    BY <1>1 DEF LoginLoad
  <2>2. PICK t \in SignFor(req[p].who, r) :
          /\ issued' = issued \cup {t}
          /\ new' = [new EXCEPT ![p] = t]
          /\ work' = [work EXCEPT ![p] =
                        Writing({t.user}, [u \in {t.user} |-> rows[u] \cup {t}],
                                t.user \notin present)]
    BY <2>1
  <2>3. /\ pc'[p] = "loginCommit" /\ new'[p] = t /\ Others(p)
        /\ UNCHANGED <<stores, caches>>
        /\ work'[p] = Writing({t.user}, [u \in {t.user} |-> rows[u] \cup {t}],
                              t.user \notin present)
    BY <1>1, <2>2 DEF LoginLoad, Goto, TypeOK, Others
  <2>4. t.sid # s
    BY DEF SignFor, UnusedSessions, Gone, Signed
  <2>5. \A u \in Users : \A i \in work'[p].list[u] : i \in rows[u] \/ i = t
    BY <2>3 DEF Writing
  <2>6. ~Carries(p, s)'
    BY <2>3, <2>4, <2>5, CleanKept
  <2>. QED
    BY <2>2, <2>3, <2>6, GoneKept DEF stores, caches
<1>2. CASE LoginCommit(p)
  <2>1. /\ UNCHANGED <<caches, clients>> /\ Others(p)
        /\ \/ Finish(p)
           \/ pc'[p] = "reload" /\ work'[p] = NoWork /\ new'[p] = new[p]
    BY <1>2, FinishClean DEF LoginCommit, Goto, TypeOK, Others
  <2>2. ~Carries(p, s)'
    BY <2>1, FinishClean, CleanKept, NoWorkClean
  <2>. QED
    BY <1>2, <2>1, <2>2, CommitRows, GoneKept DEF LoginCommit, caches, clients
<1>3. CASE Reload(p)
  <2>1. /\ UNCHANGED <<stores, caches, clients>> /\ Others(p)
        /\ \/ Finish(p)
           \/ pc'[p] # "validateFill" /\ UNCHANGED <<work, new>>
    BY <1>3, FinishClean DEF Reload, Goto, TypeOK, Others
  <2>2. ~Carries(p, s)'
    BY <2>1, FinishClean, CleanKept
  <2>. QED
    BY <2>1, <2>2, GoneLocal
<1>4. CASE CacheAccess(p)
  <2>1. /\ pc'[p] = "cacheRefresh" /\ UNCHANGED <<stores, clients, new, work>>
        /\ Others(p)
    BY <1>4 DEF CacheAccess, Goto, TypeOK, Others
  <2>2. ~Carries(p, s)'
    BY <2>1, CleanKept
  <2>3. new[p].sid # s
    BY <1>4, InFlightTokens, NoTokenAssumption DEF CacheAccess, Gone, Carries, Sound
  <2>. QED
    BY <1>4, <2>1, <2>2, <2>3, GoneKept DEF CacheAccess, SetAccess, CacheSet, stores, clients
<1>5. CASE CacheRefresh(p)
  <2>1. UNCHANGED <<stores, issued>> /\ ~Carries(p, s)' /\ Others(p)
    BY <1>5, FinishClean DEF CacheRefresh
  <2>2. new[p].sid # s
    BY <1>5, InFlightTokens, NoTokenAssumption DEF CacheRefresh, Gone, Carries, Sound
  <2>. QED
    BY <1>5, <2>1, <2>2, GoneKept DEF CacheRefresh, SetRefresh, CacheSet, stores
<1>. QED
  BY <1>1, <1>2, <1>3, <1>4, <1>5

LEMMA DeleteGone ==
  ASSUME TypeOK, NEW s, Gone(s), NEW p \in Procs, DeleteLoad(p) \/ DeleteCommit(p)
  PROVE  Gone(s)'
<1>1. CASE DeleteLoad(p)
  <2>1. /\ pc'[p] # "validateFill" /\ Others(p)
        /\ UNCHANGED <<stores, caches, clients, new>>
        /\ \/ work'[p] = work[p]
           \/ \E u \in Users :
                work'[p] = WritingOne(u, rows[u] \ EntriesOf(rows[u], req[p].tok.sid))
    BY <1>1 DEF DeleteLoad, AfterDelete, RowsHolding, Goto, TypeOK, Others
  <2>2. ASSUME NEW u \in Users,
               work'[p] = WritingOne(u, rows[u] \ EntriesOf(rows[u], req[p].tok.sid))
        PROVE  \A v \in Users : work'[p].list[v] \subseteq rows[v]
    <3>1. work'[p].list = [v \in Users |->
             IF v \in {u} THEN [x \in {u} |-> rows[u] \ EntriesOf(rows[u], req[p].tok.sid)][v]
                          ELSE {}]
      BY <2>2 DEF WritingOne, Writing
    <3>. QED
      BY <3>1
  <2>3. ~Carries(p, s)'
    BY <2>1, <2>2, CleanKept
  <2>. QED
    BY <2>1, <2>3, GoneLocal
<1>2. CASE DeleteCommit(p)
  <2>1. /\ UNCHANGED <<caches, clients>> /\ Others(p)
        /\ \/ Finish(p)
           \/ pc'[p] # "validateFill" /\ work'[p] = NoWork /\ new'[p] = new[p]
    BY <1>2, FinishClean DEF DeleteCommit, AfterDelete, Goto, TypeOK, Others
  <2>2. ~Carries(p, s)'
    BY <2>1, FinishClean, CleanKept, NoWorkClean
  <2>. QED
    BY <1>2, <2>1, <2>2, CommitRows, GoneKept DEF DeleteCommit, caches, clients
<1>. QED
  BY <1>1, <1>2

LEMMA RotateGone ==
  ASSUME TypeOK, Sound, NEW s, Gone(s), NEW p \in Procs,
         \/ Rotate(p) \/ Revoke(p) \/ RotateUnknown(p)
         \/ RevokeLoad(p) \/ RotateCommit(p)
  PROVE  Gone(s)'
<1>. DEFINE t == req[p].tok
<1>0. Rotate(p) \/ Revoke(p) => t.user \in Users
  BY InFlightTokens DEF Rotate, Revoke, Sound, InFlightSound, RequestSound,
                        Bearing, Endpoints
<1>1. CASE Rotate(p)
  <2>1. PICK n \in SignFor(t.user, t.sid) :
          /\ issued' = issued \cup {n}
          /\ new' = [new EXCEPT ![p] = n]
          /\ work' = [work EXCEPT ![p] =
                        WritingOne(t.user, (rows[t.user] \ {t}) \cup {n})]
    BY <1>1 DEF Rotate
  <2>2. /\ pc'[p] = "rotateCommit" /\ new'[p] = n /\ Others(p)
        /\ UNCHANGED <<stores, caches>>
        /\ work'[p] = WritingOne(t.user, (rows[t.user] \ {t}) \cup {n})
    BY <1>1, <2>1 DEF Rotate, Goto, TypeOK, Others
  <2>3. n.sid # s
    BY <1>0, <1>1 DEF Rotate, SignFor, Gone
  <2>4. \A u \in Users : \A i \in work'[p].list[u] : i \in rows[u] \/ i = n
    BY <2>2 DEF WritingOne, Writing
  <2>5. ~Carries(p, s)'
    BY <2>2, <2>3, <2>4, CleanKept
  <2>. QED
    BY <2>1, <2>2, <2>5, GoneKept DEF stores, caches
<1>2. CASE Revoke(p)
  <2>1. /\ pc'[p] = "revokeLoad" /\ Others(p) /\ UNCHANGED <<stores, caches, clients, new>>
        /\ work'[p] = WritingOne(t.user, rows[t.user] \ EntriesOf(rows[t.user], t.sid))
    BY <1>2 DEF Revoke, Goto, TypeOK, Others
  <2>2. \A u \in Users : work'[p].list[u] \subseteq rows[u]
    BY <2>1 DEF WritingOne, Writing
  <2>3. ~Carries(p, s)'
    BY <2>1, <2>2, CleanKept
  <2>. QED
    BY <2>1, <2>3, GoneLocal
<1>3. CASE RotateUnknown(p)
  BY <1>3, FinishClean, GoneLocal DEF RotateUnknown
<1>4. CASE RevokeLoad(p)
  <2>1. /\ pc'[p] # "validateFill" /\ Others(p) /\ UNCHANGED <<stores, caches, clients, new>>
        /\ work'[p] = work[p] \/ work'[p] = NoWork
    BY <1>4 DEF RevokeLoad, Goto, TypeOK, Others
  <2>2. ~Carries(p, s)'
    BY <2>1, NoWorkClean, CleanKept
  <2>. QED
    BY <2>1, <2>2, GoneLocal
<1>5. CASE RotateCommit(p)
  <2>1. /\ UNCHANGED <<caches, clients>> /\ Others(p)
        /\ \/ Finish(p)
           \/ pc'[p] = "reload" /\ work'[p] = NoWork /\ new'[p] = new[p]
    BY <1>5, FinishClean DEF RotateCommit, Goto, TypeOK, Others
  <2>2. ~Carries(p, s)'
    BY <2>1, FinishClean, CleanKept, NoWorkClean
  <2>. QED
    BY <1>5, <2>1, <2>2, CommitRows, GoneKept DEF RotateCommit, caches, clients
<1>. QED
  BY <1>1, <1>2, <1>3, <1>4, <1>5

LEMMA DropGone ==
  ASSUME TypeOK, NEW s, Gone(s), NEW p \in Procs, NEW key \in drops[p], Drop(p, key)
  PROVE  Gone(s)'
<1>1. UNCHANGED <<stores, issued>>
  BY DEF Drop
<1>2. accessCache' \subseteq accessCache /\ refreshCache' \subseteq refreshCache
  BY DEF Drop, Delete, caches
<1>3. /\ Others(p) /\ pc'[p] # "validateFill"
      /\ work'[p] = work[p] \/ work'[p] = NoWork
      /\ new'[p] = new[p] \/ new'[p] = NoToken
  BY DEF Drop, AfterDrops, Goto, TypeOK, Others, DropSteps
<1>4. ~Carries(p, s)'
  BY <1>3, NoWorkClean DEF Gone, Carries
<1>. QED
  BY <1>1, <1>2, <1>3, <1>4, GoneKept DEF stores

LEMMA GoneStep ==
  ASSUME TypeOK, Sound, [Next]_vars, NEW s, Gone(s)
  PROVE  Gone(s)'
<1>1. ASSUME NEW p \in Procs, Continue(p)
      PROVE  Gone(s)'
  BY <1>1, PurgeGone, LoginGone, AuthenticateGone, DeleteGone, RotateGone, DropGone
     DEF Continue
<1>2. ASSUME NEW p \in Procs, Crash(p)
      PROVE  Gone(s)'
  BY <1>2, FinishClean, GoneLocal DEF Crash
<1>3. CASE \E t \in issued : Expire(t)
  BY <1>3 DEF Expire, stores, caches, Gone, Signed, Carries
<1>4. CASE Evict
  BY <1>4 DEF Evict, stores, clients, Gone, Signed, Carries
<1>5. CASE UNCHANGED vars
  BY <1>5 DEF vars, Gone, Signed, Carries
<1>. QED
  BY <1>1, <1>2, <1>3, <1>4, <1>5, StartGone DEF Next

(* Once no store and no request in flight knows a session, it never comes    *)
(* back: what resurrects a logged-out session is always a request that was   *)
(* under way, never a later one.                                             *)
THEOREM NoResurrection == Spec => GoneForGood
<1>1. TypeOK /\ Sound /\ [Next]_vars => [\A s \in Sessions : Gone(s) => Gone(s)']_vars
  BY GoneStep
<1>2. Spec => [](TypeOK /\ Sound)
  BY Soundness, PTL DEF Sound
<1>. QED
  BY <1>1, <1>2, PTL DEF Spec, GoneForGood

-----------------------------------------------------------------------------
(* Progress: how many places a request has at most before it. *)
Ahead(s) ==
  CASE s = "idle" -> 0 [] s \in {"logoutDrop", "rejectDrop", "cacheRefresh"} -> 1
    [] s \in {"deleteCommit", "cacheAccess"} -> 2
    [] s \in {"deleteLoad", "revokeLoad", "rotateDrop"} -> 3
    [] s = "reload" -> 4 [] s \in {"loginCommit", "rotateCommit"} -> 5
    [] s \in {"loginLoad", "rotateLoad"} -> 6 [] s = "purgeCommit" -> 7
    [] s = "purgeDrop" -> 8 [] s = "purge" -> 9 [] s = "touchCommit" -> 10
    [] s = "touchLoad" -> 11 [] s = "validateFill" -> 12 [] s = "validateLoad" -> 13

(* It gets to a later place, or deletes one of the keys it has to.          *)
Onward(p) ==
  \/ Ahead(pc[p]') < Ahead(pc[p])
  \/ pc[p]' = pc[p] /\ \E key \in drops[p] : drops[p]' = drops[p] \ {key}

(* At the places from which it is going to delete keys, it has some.        *)
Ready(p) ==
  /\ IsFiniteSet(drops[p])
  /\ \/ pc[p] \in DropSteps \cup {"deleteCommit", "revokeLoad", "rotateCommit"}
     \/ pc[p] = "reload" /\ req[p].op = "refresh"
     => drops[p] # {}
  /\ pc[p] = "revokeLoad" => \E key \in drops[p] : key.cache = "access"

DropsInv == IsFiniteSet(issued) /\ \A p \in Procs : Ready(p)

LEMMA KeysReady ==
  ASSUME NEW t PROVE IsFiniteSet(KeysOf(t)) /\ \E key \in KeysOf(t) : key.cache = "access"
<1> DEFINE a == [cache |-> "access", pair |-> t.pair]
           r == [cache |-> "refresh", pair |-> t.pair]
<1>1. KeysOf(t) = {a} \cup {r} /\ a.cache = "access" BY DEF KeysOf
<1> HIDE DEF a, r
<1>2. IsFiniteSet({a} \cup {r}) BY FS_Singleton, FS_Union
<1> QED BY <1>1, <1>2

LEMMA OneKeyReady == \A key : IsFiniteSet({key}) /\ {key} # {}
BY FS_Singleton

LEMMA FinishOnward ==
  ASSUME TypeOK, NEW p \in Procs, Finish(p)
  PROVE  Ready(p)' /\ (pc[p] # "idle" => Onward(p))
<1>1. pc'[p] = "idle" /\ drops'[p] = {} BY DEF Finish, Goto, TypeOK
<1>2. Ready(p)' BY <1>1, FS_EmptySet DEF Ready, DropSteps
<1> QED BY <1>1, <1>2 DEF Onward, Ahead, TypeOK, Steps

LEMMA PurgeOnward ==
  ASSUME TypeOK, Sound, DropsInv, NEW p \in Procs,
         PurgeLoad(p) \/ PurgeNothing(p) \/ PurgeFails(p) \/ PurgeCommit(p)
  PROVE  Ready(p)' /\ Onward(p)
<1>1. CASE PurgeLoad(p)
  <2> DEFINE stale == {u \in Users : Expired(rows[u]) # {}}
             gone == UNION {Expired(rows[u]) : u \in stale}
             keys == UNION {KeysOf(e) : e \in gone}
  <2>1. pc[p] = "purge" /\ pc'[p] = "purgeDrop" /\ drops'[p] = keys /\ stale # {}
    BY <1>1 DEF PurgeLoad, Goto, TypeOK
  <2>2. IsFiniteSet(gone)
    <3>1. gone \subseteq issued BY DEF Sound, RowsSound, ListSound, Expired
    <3> QED BY <3>1, FS_Subset DEF DropsInv
  <2>3. IsFiniteSet(keys)
    <3> DEFINE S == {KeysOf(e) : e \in gone}
    <3>1. IsFiniteSet(S)
      <4> DEFINE f == [e \in gone |-> KeysOf(e)]
      <4> HIDE DEF gone
      <4>1. f \in Surjection(gone, S) BY DEF Surjection
      <4> QED BY <2>2, <4>1, FS_Surjection
    <3>2. \A s \in S : IsFiniteSet(s) BY KeysReady
    <3> HIDE DEF S
    <3>3. IsFiniteSet(UNION S) BY <3>1, <3>2, FS_UNION
    <3> QED BY <3>3 DEF S
  <2>4. keys # {}
    <3>1. PICK u \in stale : \E e \in Expired(rows[u]) : TRUE BY <2>1
    <3>2. PICK e \in Expired(rows[u]) : TRUE BY <3>1
    <3>3. e \in gone BY <3>1, <3>2
    <3> HIDE DEF gone
    <3> QED BY <3>3, KeysReady
  <2> HIDE DEF keys
  <2> QED BY <2>1, <2>3, <2>4 DEF Ready, Onward, Ahead
<1>2. ASSUME AfterPurge(p), pc[p] \in {"purge", "purgeCommit"} PROVE Ready(p)' /\ Onward(p)
  <2>1. CASE Finish(p) BY <1>2, <2>1, FinishOnward
  <2>2. CASE ~Finish(p)
    <3>1. pc'[p] = "loginLoad" /\ drops'[p] = {} BY <1>2, <2>2 DEF AfterPurge, Goto, TypeOK
    <3> QED BY <1>2, <3>1, FS_EmptySet DEF Ready, Onward, Ahead, DropSteps
  <2> QED BY <2>1, <2>2
<1>3. CASE PurgeNothing(p) BY <1>2, <1>3 DEF PurgeNothing
<1>4. CASE PurgeFails(p) BY <1>4, FinishOnward DEF PurgeFails
<1>5. CASE PurgeCommit(p) BY <1>2, <1>5, FinishOnward DEF PurgeCommit
<1> QED BY <1>1, <1>3, <1>4, <1>5

LEMMA LoginOnward ==
  ASSUME TypeOK, Sound, DropsInv, NEW p \in Procs,
         \/ LoginLoad(p) \/ LoginCommit(p) \/ Reload(p) \/ CacheAccess(p) \/ CacheRefresh(p)
  PROVE  Ready(p)' /\ Onward(p)
<1> USE DEF Ready, Onward, Ahead, DropSteps
<1>0. Ready(p) /\ RequestSound(p) BY DEF DropsInv, Sound, InFlightSound
<1>1. CASE LoginLoad(p)
  <2>1. /\ pc[p] = "loginLoad" /\ pc'[p] = "loginCommit" /\ drops'[p] = drops[p]
    BY <1>1 DEF LoginLoad, Goto, TypeOK
  <2> QED BY <1>0, <2>1
<1>2. CASE LoginCommit(p)
  <2>1. CASE Finish(p) BY <1>2, <2>1, FinishOnward DEF LoginCommit
  <2>2. CASE ~Finish(p)
    <3>1. /\ pc[p] = "loginCommit" /\ pc'[p] = "reload" /\ drops'[p] = drops[p]
          /\ req'[p] = req[p]
      BY <1>2, <2>2 DEF LoginCommit, Goto, TypeOK
    <3>2. req[p].op = "login" BY <1>0, <3>1 DEF RequestSound
    <3> QED BY <1>0, <3>1, <3>2
  <2> QED BY <2>1, <2>2
<1>3. CASE Reload(p)
  <2>1. CASE Finish(p) BY <1>3, <2>1, FinishOnward DEF Reload
  <2>2. CASE ~Finish(p)
    <3>1. /\ pc[p] = "reload" /\ drops'[p] = drops[p] /\ req'[p] = req[p]
          /\ pc'[p] = IF req[p].op = "login" THEN "cacheAccess" ELSE "rotateDrop"
      BY <1>3, <2>2 DEF Reload, Goto, TypeOK
    <3>2. req[p].op \in {"login", "refresh"} BY <1>0, <3>1 DEF RequestSound
    <3> QED BY <1>0, <3>1, <3>2
  <2> QED BY <2>1, <2>2
<1>4. CASE CacheAccess(p)
  <2>1. pc[p] = "cacheAccess" /\ pc'[p] = "cacheRefresh" /\ drops'[p] = drops[p]
    BY <1>4 DEF CacheAccess, Goto, TypeOK
  <2> QED BY <1>0, <2>1
<1>5. CASE CacheRefresh(p) BY <1>5, FinishOnward DEF CacheRefresh
<1> QED BY <1>1, <1>2, <1>3, <1>4, <1>5

LEMMA AuthenticateOnward ==
  ASSUME TypeOK, Sound, DropsInv, NEW p \in Procs,
         ValidateLoad(p) \/ ValidateFill(p) \/ TouchLoad(p) \/ TouchCommit(p)
  PROVE  Ready(p)' /\ Onward(p)
<1> USE DEF Ready, Onward, Ahead, DropSteps
<1>0. Ready(p) /\ RequestSound(p) BY DEF DropsInv, Sound, InFlightSound
<1>1. ASSUME Finish(p), pc[p] # "idle" PROVE Ready(p)' /\ Onward(p) BY <1>1, FinishOnward
<1>2. CASE ValidateLoad(p) /\ ~Finish(p)
  <2>1. /\ pc[p] = "validateLoad"
        /\ \/ pc'[p] = "validateFill" /\ drops'[p] = drops[p]
           \/ pc'[p] = "rejectDrop" /\ \E key : drops'[p] = {key}
    BY <1>2 DEF ValidateLoad, Goto, TypeOK
  <2> QED BY <1>0, <2>1, OneKeyReady
<1>3. CASE ValidateFill(p)
  <2>1. pc[p] = "validateFill" /\ pc'[p] = "touchLoad" /\ drops'[p] = drops[p]
    BY <1>3 DEF ValidateFill, Goto, TypeOK
  <2> QED BY <1>0, <2>1
<1>4. ASSUME AfterAuth(p) \/ AfterLostTouch(p), pc[p] \in {"touchLoad", "touchCommit"}
      PROVE  Ready(p)' /\ Onward(p)
  <2>1. CASE Finish(p) BY <1>1, <1>4, <2>1
  <2>2. CASE ~Finish(p)
    <3>1. pc'[p] \in {"purge", "deleteLoad"} /\ drops'[p] = drops[p]
      BY <1>4, <2>2 DEF AfterAuth, AfterLostTouch, Goto, TypeOK
    <3> QED BY <1>0, <1>4, <3>1
  <2> QED BY <2>1, <2>2
<1>5. CASE TouchLoad(p)
  <2>1. CASE AfterAuth(p) BY <1>4, <1>5, <2>1 DEF TouchLoad
  <2>2. CASE ~AfterAuth(p)
    <3>1. pc[p] = "touchLoad" /\ pc'[p] = "touchCommit" /\ drops'[p] = drops[p]
      BY <1>5, <2>2 DEF TouchLoad, Goto, TypeOK
    <3> QED BY <1>0, <3>1
  <2> QED BY <2>1, <2>2
<1>6. CASE TouchCommit(p) BY <1>4, <1>6 DEF TouchCommit
<1> QED BY <1>1, <1>2, <1>3, <1>5, <1>6 DEF ValidateLoad

LEMMA DeleteOnward ==
  ASSUME TypeOK, Sound, DropsInv, NEW p \in Procs, DeleteLoad(p) \/ DeleteCommit(p)
  PROVE  Ready(p)' /\ Onward(p)
<1> USE DEF Ready, Onward, Ahead, DropSteps
<1>0. Ready(p) /\ RequestSound(p) BY DEF DropsInv, Sound, InFlightSound
<1>1. AfterDelete(p) \in {"logoutDrop", "rejectDrop"} BY DEF AfterDelete
<1>2. CASE DeleteLoad(p)
  <2>1. pc[p] = "deleteLoad" BY <1>2 DEF DeleteLoad
  <2>2. ASSUME NEW e, drops' = [drops EXCEPT ![p] = KeysOf(e)], Goto(p, "deleteCommit")
        PROVE  Ready(p)' /\ Onward(p)
    <3>1. pc'[p] = "deleteCommit" /\ drops'[p] = KeysOf(e) BY <2>2 DEF Goto, TypeOK
    <3> QED BY <2>1, <3>1, KeysReady
  <2>3. ASSUME NEW key, drops' = [drops EXCEPT ![p] = {key}], Goto(p, AfterDelete(p))
        PROVE  Ready(p)' /\ Onward(p)
    <3>1. pc'[p] = AfterDelete(p) BY <2>3 DEF Goto, TypeOK
    <3> DEFINE one == {key}
    <3>2. drops'[p] = one BY <2>3 DEF TypeOK
    <3>3. IsFiniteSet(one) /\ one # {} BY OneKeyReady
    <3> HIDE DEF one
    <3> QED BY <1>1, <2>1, <3>1, <3>2, <3>3
  <2> QED BY <1>2, <2>2, <2>3 DEF DeleteLoad
<1>3. CASE DeleteCommit(p)
  <2>1. CASE Finish(p) BY <1>3, <2>1, FinishOnward DEF DeleteCommit
  <2>2. CASE ~Finish(p)
    <3>1. pc[p] = "deleteCommit" /\ pc'[p] = AfterDelete(p) /\ drops'[p] = drops[p]
      BY <1>3, <2>2 DEF DeleteCommit, Goto, TypeOK
    <3> QED BY <1>0, <1>1, <3>1
  <2> QED BY <2>1, <2>2
<1> QED BY <1>2, <1>3

LEMMA RotateOnward ==
  ASSUME TypeOK, Sound, DropsInv, NEW p \in Procs,
         Rotate(p) \/ Revoke(p) \/ RotateUnknown(p) \/ RevokeLoad(p) \/ RotateCommit(p)
  PROVE  Ready(p)' /\ Onward(p)
<1> USE DEF Ready, Onward, Ahead, DropSteps
<1>0. Ready(p) /\ RequestSound(p) BY DEF DropsInv, Sound, InFlightSound
<1>1. CASE Rotate(p) \/ Revoke(p)
  <2>1. pc[p] = "rotateLoad" /\ pc'[p] \in {"rotateCommit", "revokeLoad"}
        /\ \E e : drops'[p] = KeysOf(e)
    BY <1>1 DEF Rotate, Revoke, Goto, TypeOK
  <2> QED BY <2>1, KeysReady
<1>2. CASE RotateUnknown(p) BY <1>2, FinishOnward DEF RotateUnknown
<1>3. CASE RevokeLoad(p)
  <2> DEFINE left == {k \in drops[p] : k.cache = "access"}
  <2>1. /\ pc[p] = "revokeLoad"
        /\ \/ pc'[p] = "deleteCommit" /\ drops'[p] = drops[p]
           \/ pc'[p] = "rejectDrop" /\ drops'[p] = left
    BY <1>3 DEF RevokeLoad, Goto, TypeOK
  <2>2. left # {} /\ left \subseteq drops[p] /\ drops[p] # {} BY <1>0, <2>1
  <2> HIDE DEF left
  <2>3. IsFiniteSet(left) BY <1>0, <2>2, FS_Subset
  <2> QED BY <1>0, <2>1, <2>2, <2>3
<1>4. CASE RotateCommit(p)
  <2>1. CASE Finish(p) BY <1>4, <2>1, FinishOnward DEF RotateCommit
  <2>2. CASE ~Finish(p)
    <3>1. pc[p] = "rotateCommit" /\ pc'[p] = "reload" /\ drops'[p] = drops[p]
      BY <1>4, <2>2 DEF RotateCommit, Goto, TypeOK
    <3> QED BY <1>0, <3>1
  <2> QED BY <2>1, <2>2
<1> QED BY <1>1, <1>2, <1>3, <1>4

LEMMA DropOnward ==
  ASSUME TypeOK, DropsInv, NEW p \in Procs, NEW key \in drops[p], Drop(p, key)
  PROVE  Ready(p)' /\ Onward(p)
<1> DEFINE left == drops[p] \ {key}
<1>1. pc[p] \in DropSteps /\ drops'[p] = left BY DEF Drop, TypeOK
<1>2. IsFiniteSet(left) BY FS_Subset DEF DropsInv, Ready
<1>3. CASE left = {}
  <2>1. AfterDrops(p) BY <1>3 DEF Drop
  <2>2. \/ pc[p] = "purgeDrop" /\ pc'[p] = "purgeCommit"
        \/ pc[p] = "rotateDrop" /\ pc'[p] = "cacheAccess"
        \/ pc[p] \in {"logoutDrop", "rejectDrop"} /\ pc'[p] = "idle"
    BY <1>1, <2>1 DEF AfterDrops, DropSteps, Goto, TypeOK
  <2> HIDE DEF left
  <2> QED BY <1>1, <1>2, <2>2 DEF Ready, Onward, Ahead, DropSteps
<1>4. CASE left # {}
  <2>1. pc'[p] = pc[p] BY <1>4 DEF Drop
  <2>2. Onward(p) BY <1>1, <2>1 DEF Onward
  <2> HIDE DEF left
  <2>3. Ready(p)' BY <1>1, <1>2, <1>4, <2>1 DEF Ready, DropSteps
  <2> QED BY <2>2, <2>3
<1> QED BY <1>3, <1>4

LEMMA StartReady ==
  ASSUME TypeOK, DropsInv, NEW p \in Procs, Start(p)
  PROVE  Ready(p)'
<1>1. Ready(p) BY DEF DropsInv
<1>2. ASSUME UNCHANGED drops, NEW to \in {"purge", "validateLoad", "touchLoad", "rotateLoad"},
             Goto(p, to)
      PROVE  Ready(p)'
  <2>1. pc'[p] = to /\ drops'[p] = drops[p] BY <1>2 DEF Goto, TypeOK
  <2> QED BY <1>1, <1>2, <2>1 DEF Ready, DropSteps
<1>3. ASSUME NEW key, drops' = [drops EXCEPT ![p] = {key}], Goto(p, "rejectDrop")
      PROVE  Ready(p)'
  <2>1. pc'[p] = "rejectDrop" /\ drops'[p] = {key} BY <1>3 DEF Goto, TypeOK
  <2> QED BY <2>1, OneKeyReady DEF Ready, DropSteps
<1>4. CASE StartPurge(p) \/ (\E u \in Users : StartLogin(p, u)) \/ \E t \in held : StartRefresh(p, t)
  BY <1>2, <1>4 DEF StartPurge, StartLogin, StartRefresh
<1>5. ASSUME NEW t \in held, NEW op \in Endpoints, ValidateHit(p, t, op) PROVE Ready(p)'
  BY <1>2, <1>3, <1>5 DEF ValidateHit
<1>6. ASSUME NEW t \in held, NEW op \in Endpoints, ValidateMiss(p, t, op) PROVE Ready(p)'
  BY <1>2, <1>6 DEF ValidateMiss
<1> QED BY <1>4, <1>5, <1>6 DEF Start

LEMMA DropsFrame ==
  ASSUME TypeOK, NEW p \in Procs, Start(p) \/ Continue(p) \/ Crash(p),
         NEW q \in Procs, q # p
  PROVE  pc'[q] = pc[q] /\ req'[q] = req[q] /\ drops'[q] = drops[q]
<1> USE DEF Goto, Finish, TypeOK
<1>1. CASE Start(p)
  BY <1>1 DEF Start, StartPurge, StartLogin, ValidateHit, ValidateMiss, StartRefresh
<1>2. CASE PurgeLoad(p) \/ PurgeNothing(p) \/ PurgeFails(p) \/ PurgeCommit(p)
  BY <1>2 DEF PurgeLoad, PurgeNothing, PurgeFails, PurgeCommit, AfterPurge
<1>3. CASE \/ LoginLoad(p) \/ LoginCommit(p) \/ Reload(p) \/ CacheAccess(p) \/ CacheRefresh(p)
  BY <1>3 DEF LoginLoad, LoginCommit, Reload, CacheAccess, CacheRefresh
<1>4. CASE ValidateLoad(p) \/ ValidateFill(p) \/ TouchLoad(p) \/ TouchCommit(p)
  BY <1>4 DEF ValidateLoad, ValidateFill, TouchLoad, TouchCommit, AfterAuth, AfterLostTouch
<1>5. CASE DeleteLoad(p) \/ DeleteCommit(p) BY <1>5 DEF DeleteLoad, DeleteCommit
<1>6. CASE Rotate(p) \/ Revoke(p) \/ RotateUnknown(p) \/ RevokeLoad(p) \/ RotateCommit(p)
  BY <1>6 DEF Rotate, Revoke, RotateUnknown, RevokeLoad, RotateCommit
<1>7. ASSUME NEW key \in drops[p], Drop(p, key)
      PROVE  pc'[q] = pc[q] /\ req'[q] = req[q] /\ drops'[q] = drops[q]
  BY <1>7 DEF Drop, AfterDrops, DropSteps
<1>8. CASE Crash(p) BY <1>8 DEF Crash
<1> QED BY <1>1, <1>2, <1>3, <1>4, <1>5, <1>6, <1>7, <1>8 DEF Continue

(* Only a login and a rotation sign a token, one each. *)
LEMMA IssuedFinite ==
  ASSUME IsFiniteSet(issued), NEW p \in Procs, Start(p) \/ Continue(p) \/ Crash(p)
  PROVE  IsFiniteSet(issued')
<1>1. ASSUME NEW t, issued' = issued \cup {t} PROVE IsFiniteSet(issued')
  BY <1>1, FS_AddElement
<1>2. CASE LoginLoad(p) BY <1>1, <1>2 DEF LoginLoad
<1>3. CASE Rotate(p) BY <1>1, <1>3 DEF Rotate
<1>4. CASE ~(LoginLoad(p) \/ Rotate(p))
  <2>1. issued' = issued
    BY <1>4 DEF clients, Start, StartPurge, StartLogin, ValidateHit, ValidateMiss, StartRefresh,
                Continue, PurgeLoad, PurgeNothing, PurgeFails, PurgeCommit, LoginCommit, Reload,
                CacheAccess, CacheRefresh, ValidateLoad, ValidateFill, TouchLoad, TouchCommit,
                DeleteLoad, DeleteCommit, Revoke, RotateUnknown, RevokeLoad, RotateCommit,
                Drop, Crash
  <2> QED BY <2>1
<1> QED BY <1>2, <1>3, <1>4

LEMMA OwnOnward ==
  ASSUME TypeOK, Sound, DropsInv, NEW p \in Procs, Continue(p)
  PROVE  Ready(p)' /\ Onward(p)
BY PurgeOnward, LoginOnward, AuthenticateOnward, DeleteOnward, RotateOnward, DropOnward
   DEF Continue

LEMMA DropsStep == TypeOK /\ Sound /\ DropsInv /\ [Next]_vars => DropsInv'
<1> SUFFICES ASSUME TypeOK, Sound, DropsInv, [Next]_vars PROVE DropsInv'
  OBVIOUS
<1>1. IsFiniteSet(issued) /\ \A q \in Procs : Ready(q) BY DEF DropsInv
<1>2. ASSUME NEW p \in Procs, Start(p) \/ Continue(p) \/ Crash(p) PROVE DropsInv'
  <2>1. Ready(p)' BY <1>2, StartReady, OwnOnward, FinishOnward DEF Crash
  <2>2. ASSUME NEW q \in Procs, q # p PROVE Ready(q)'
    BY <1>1, <1>2, <2>2, DropsFrame DEF Ready
  <2>3. IsFiniteSet(issued') BY <1>1, <1>2, IssuedFinite
  <2> QED BY <2>1, <2>2, <2>3 DEF DropsInv
<1>3. ASSUME UNCHANGED <<issued, pc, req, drops>> PROVE DropsInv'
  BY <1>1, <1>3 DEF DropsInv, Ready
<1>4. (\E t \in issued : Expire(t)) \/ Evict \/ UNCHANGED vars
        => UNCHANGED <<issued, pc, req, drops>>
  BY DEF Expire, Evict, clients, vars
<1> QED BY <1>2, <1>3, <1>4 DEF Next

LEMMA DropsAlways == Spec => [](TypeOK /\ Sound /\ DropsInv)
<1>1. Init => DropsInv
  BY FS_EmptySet DEF Init, DropsInv, Ready, DropSteps, NoReq
<1>2. Spec => [](TypeOK /\ Sound) BY Soundness, PTL DEF Sound
<1> QED BY <1>1, <1>2, DropsStep, PTL DEF Spec

(* A request that still has keys to delete never runs out of them early:    *)
(* nothing waits in a batch of deletions with nothing to delete, and a      *)
(* purge, whatever it has found in all the rows, has finitely many.         *)
THEOREM DropsEnd ==
  Spec => [](\A p \in Procs : /\ IsFiniteSet(drops[p])
                              /\ pc[p] \in DropSteps => drops[p] # {})
<1>1. DropsInv => \A p \in Procs : /\ IsFiniteSet(drops[p])
                                   /\ pc[p] \in DropSteps => drops[p] # {}
  BY DEF DropsInv, Ready
<1> QED BY <1>1, DropsAlways, PTL

(* No request goes back: its own steps bring it onward, through at most     *)
(* thirteen places and the deletions above, and no other request, purge,    *)
(* expiry or eviction moves it at all.  A request that is not kept waiting  *)
(* is answered.                                                             *)
THEOREM RequestsAdvance ==
  Spec => [][\A p \in Procs :
               /\ Continue(p) => Onward(p)
               /\ \/ Onward(p) \/ pc[p] = "idle"
                  \/ pc[p]' = pc[p] /\ drops[p]' = drops[p]]_vars
<1> DEFINE Step == \A p \in Procs :
                     /\ Continue(p) => Onward(p)
                     /\ \/ Onward(p) \/ pc[p] = "idle"
                        \/ pc[p]' = pc[p] /\ drops[p]' = drops[p]
<1>1. ASSUME TypeOK, Sound, DropsInv, [Next]_vars PROVE Step \/ UNCHANGED vars
  <2>1. \A p \in Procs : Continue(p) => Onward(p) BY <1>1, OwnOnward
  <2>2. ASSUME NEW p \in Procs, Start(p) \/ Continue(p) \/ Crash(p) PROVE Step
    <3>1. Onward(p) \/ pc[p] = "idle"
      <4>1. CASE Start(p)
        BY <4>1 DEF Start, StartPurge, StartLogin, ValidateHit, ValidateMiss, StartRefresh,
                    Presents
      <4>2. CASE Crash(p) BY <1>1, <4>2, FinishOnward DEF Crash
      <4> QED BY <2>1, <2>2, <4>1, <4>2
    <3>2. \A q \in Procs \ {p} : pc[q]' = pc[q] /\ drops[q]' = drops[q]
      BY <1>1, <2>2, DropsFrame
    <3> QED BY <2>1, <3>1, <3>2
  <2>3. CASE (\E t \in issued : Expire(t)) \/ Evict
    <3>1. UNCHANGED <<pc, drops>> BY <2>3 DEF Expire, Evict
    <3> QED BY <2>1, <3>1
  <2> QED BY <1>1, <2>2, <2>3 DEF Next
<1>2. TypeOK /\ Sound /\ DropsInv /\ [Next]_vars => [Step]_vars BY <1>1
<1> QED BY <1>2, DropsAlways, PTL DEF Spec

=============================================================================
