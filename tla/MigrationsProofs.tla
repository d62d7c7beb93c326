--------------------------- MODULE MigrationsProofs ---------------------------
(***************************************************************************)
(* What the schema revisions keep of the rows that exist, for any users,   *)
(* sessions and time zone of the server, in whichever order they are       *)
(* applied and undone.                                                     *)
(***************************************************************************)
EXTENDS Migrations, FiniteSetTheorems, TLAPS

-----------------------------------------------------------------------------
(* The graph of the revisions *)

LEMMA Names ==
  /\ Initial \notin {Rows, Lists, Times, Google, TimesToo}
  /\ Rows \notin {Lists, Times, Google, TimesToo}
  /\ Lists \notin {Times, Google, TimesToo}
  /\ Times \notin {Google, TimesToo}
  /\ Google # TimesToo
BY DEF Initial, Rows, Lists, Times, Google, TimesToo

LEMMA OrderIs ==
  /\ Len(Order) = 6
  /\ Order[1] = Initial /\ Order[2] = Rows /\ Order[3] = Lists
  /\ Order[4] = Times /\ Order[5] = Google /\ Order[6] = TimesToo
BY DEF Order

LEMMA RevisionsAre == Revisions = {Initial, Rows, Lists, Times, Google, TimesToo}
<1>1. DOMAIN Order = 1..6 BY DEF Order
<1>2. \A i \in 1..6 : i = 1 \/ i = 2 \/ i = 3 \/ i = 4 \/ i = 5 \/ i = 6 OBVIOUS
<1> QED BY <1>1, <1>2, OrderIs DEF Revisions, ToSet

LEMMA FollowsAre ==
  /\ DOMAIN Follows = {Rows, Lists, Times, Google, TimesToo}
  /\ Follows[Rows] = Initial /\ Follows[Lists] = Rows /\ Follows[Times] = Lists
  /\ Follows[Google] = Times /\ Follows[TimesToo] = Lists
BY Names DEF Follows

(* A set of revisions with all that they follow. *)
Closed(set) == \A r \in set \cap DOMAIN Follows : Follows[r] \in set

(* The recursion of Needed ends: every chain leads to the first revision. *)
LEMMA NeededIs ==
  \A r \in Revisions :
    Needed[r] = {r} \cup (IF r \in DOMAIN Follows THEN Needed[Follows[r]] ELSE {})
<1> DEFINE F(f) == [r \in Revisions |->
                      {r} \cup (IF r \in DOMAIN Follows THEN f[Follows[r]] ELSE {})]
           g == [r \in Revisions |->
                   IF r = Initial THEN {Initial}
                   ELSE IF r = Rows THEN {Rows, Initial}
                   ELSE IF r = Lists THEN {Lists, Rows, Initial}
                   ELSE IF r = Times THEN {Times, Lists, Rows, Initial}
                   ELSE IF r = Google THEN {Google, Times, Lists, Rows, Initial}
                   ELSE {TimesToo, Lists, Rows, Initial}]
<1>1. /\ g[Initial] = {Initial}
      /\ g[Rows] = {Rows, Initial}
      /\ g[Lists] = {Lists, Rows, Initial}
      /\ g[Times] = {Times, Lists, Rows, Initial}
      /\ g[Google] = {Google, Times, Lists, Rows, Initial}
      /\ g[TimesToo] = {TimesToo, Lists, Rows, Initial}
      /\ g = [r \in Revisions |-> g[r]]
  BY Names, RevisionsAre
<1> HIDE DEF g
<1>2. \A r \in Revisions : g[r] = F(g)[r]
  <2> TAKE r \in Revisions
  <2>1. CASE r = Initial BY <1>1, <2>1, Names, FollowsAre
  <2>2. CASE r = Rows BY <1>1, <2>2, FollowsAre
  <2>3. CASE r = Lists BY <1>1, <2>3, FollowsAre
  <2>4. CASE r = Times BY <1>1, <2>4, FollowsAre
  <2>5. CASE r = Google BY <1>1, <2>5, FollowsAre
  <2>6. CASE r = TimesToo BY <1>1, <2>6, FollowsAre
  <2> QED BY <2>1, <2>2, <2>3, <2>4, <2>5, <2>6, RevisionsAre
<1>3. g = F(g) BY <1>1, <1>2
<1>4. Needed = CHOOSE f : f = F(f) BY DEF Needed
<1>5. Needed = F(Needed) BY <1>3, <1>4
<1> QED BY <1>5

LEMMA NeededClosed ==
  ASSUME NEW r \in Revisions PROVE Needed[r] \subseteq Revisions /\ Closed(Needed[r])
<1>1. Needed[Initial] = {Initial} BY NeededIs, RevisionsAre, FollowsAre, Names
<1>2. Needed[Rows] = {Rows, Initial} BY <1>1, NeededIs, RevisionsAre, FollowsAre
<1>3. Needed[Lists] = {Lists, Rows, Initial} BY <1>2, NeededIs, RevisionsAre, FollowsAre
<1>4. Needed[Times] = {Times, Lists, Rows, Initial}
  BY <1>3, NeededIs, RevisionsAre, FollowsAre
<1>5. Needed[Google] = {Google, Times, Lists, Rows, Initial}
  BY <1>4, NeededIs, RevisionsAre, FollowsAre
<1>6. Needed[TimesToo] = {TimesToo, Lists, Rows, Initial}
  BY <1>3, NeededIs, RevisionsAre, FollowsAre
<1>7. r \in {Initial, Rows, Lists, Times, Google, TimesToo} BY RevisionsAre
<1> QED BY <1>1, <1>2, <1>3, <1>4, <1>5, <1>6, <1>7, RevisionsAre, FollowsAre, Names DEF Closed

LEMMA RevisionsClosed == Closed(Revisions)
BY RevisionsAre, FollowsAre DEF Closed

(* Without the first revision a closed set has none. *)
LEMMA ClosedEmpty ==
  ASSUME NEW set \in SUBSET Revisions, Closed(set), Initial \notin set
  PROVE  set = {}
<1>1. Rows \notin set BY FollowsAre DEF Closed
<1>2. Lists \notin set BY <1>1, FollowsAre DEF Closed
<1>3. Times \notin set /\ TimesToo \notin set BY <1>2, FollowsAre DEF Closed
<1>4. Google \notin set BY <1>3, FollowsAre DEF Closed
<1> QED BY <1>1, <1>2, <1>3, <1>4, RevisionsAre

-----------------------------------------------------------------------------
(* An upgrade, revision by revision *)

Step(d, r, revisions) == IF r \in revisions THEN Upgraded(d, r) ELSE d

LEMMA UpgradeIs ==
  ASSUME NEW d, NEW revisions
  PROVE  \E d1, d2, d3, d4, d5 :
           /\ d1 = Step(d, Initial, revisions) /\ d2 = Step(d1, Rows, revisions)
           /\ d3 = Step(d2, Lists, revisions) /\ d4 = Step(d3, Times, revisions)
           /\ d5 = Step(d4, Google, revisions)
           /\ UpgradedBy(d, revisions) = Step(d5, TimesToo, revisions)
<1> DEFINE F(f) == [n \in 0..Len(Order) |->
                      IF n = 0 THEN d
                      ELSE IF Order[n] \in revisions THEN Upgraded(f[n - 1], Order[n])
                                                     ELSE f[n - 1]]
           d1 == Step(d, Initial, revisions)
           d2 == Step(d1, Rows, revisions)
           d3 == Step(d2, Lists, revisions)
           d4 == Step(d3, Times, revisions)
           d5 == Step(d4, Google, revisions)
           d6 == Step(d5, TimesToo, revisions)
<1>1. /\ d1 = Step(d, Order[1], revisions) /\ d2 = Step(d1, Order[2], revisions)
      /\ d3 = Step(d2, Order[3], revisions) /\ d4 = Step(d3, Order[4], revisions)
      /\ d5 = Step(d4, Order[5], revisions) /\ d6 = Step(d5, Order[6], revisions)
  BY OrderIs
<1> HIDE DEF d1, d2, d3, d4, d5, d6
<1> DEFINE g == [n \in 0..6 |-> IF n = 0 THEN d ELSE IF n = 1 THEN d1 ELSE IF n = 2 THEN d2
                                ELSE IF n = 3 THEN d3 ELSE IF n = 4 THEN d4
                                ELSE IF n = 5 THEN d5 ELSE d6]
<1>2. /\ g[0] = d /\ g[1] = d1 /\ g[2] = d2 /\ g[3] = d3 /\ g[4] = d4 /\ g[5] = d5 /\ g[6] = d6
      /\ g = [n \in 0..6 |-> g[n]]
  OBVIOUS
<1> HIDE DEF g
<1>3. \A n \in 0..6 : g[n] = F(g)[n]
  <2> TAKE n \in 0..6
  <2>1. CASE n = 0 BY <1>2, <2>1, OrderIs
  <2>2. CASE n = 1 BY <1>1, <1>2, <2>2, OrderIs DEF Step
  <2>3. CASE n = 2 BY <1>1, <1>2, <2>3, OrderIs DEF Step
  <2>4. CASE n = 3 BY <1>1, <1>2, <2>4, OrderIs DEF Step
  <2>5. CASE n = 4 BY <1>1, <1>2, <2>5, OrderIs DEF Step
  <2>6. CASE n = 5 BY <1>1, <1>2, <2>6, OrderIs DEF Step
  <2>7. CASE n = 6 BY <1>1, <1>2, <2>7, OrderIs DEF Step
  <2> QED BY <2>1, <2>2, <2>3, <2>4, <2>5, <2>6, <2>7
<1>4. g = F(g) BY <1>2, <1>3, OrderIs
<1> DEFINE after == CHOOSE f : f = F(f)
<1>5. UpgradedBy(d, revisions) = after[6] BY OrderIs DEF UpgradedBy
<1>6. after = F(after) BY <1>4
<1> HIDE DEF after
<1>7. after[0] = d BY <1>6, OrderIs
<1>8. after[1] = d1 BY <1>1, <1>6, <1>7, OrderIs DEF Step
<1>9. after[2] = d2 BY <1>1, <1>6, <1>8, OrderIs DEF Step
<1>10. after[3] = d3 BY <1>1, <1>6, <1>9, OrderIs DEF Step
<1>11. after[4] = d4 BY <1>1, <1>6, <1>10, OrderIs DEF Step
<1>12. after[5] = d5 BY <1>1, <1>6, <1>11, OrderIs DEF Step
<1>13. after[6] = d6 BY <1>1, <1>6, <1>12, OrderIs DEF Step
<1> QED BY <1>5, <1>13 DEF d1, d2, d3, d4, d5, d6

-----------------------------------------------------------------------------
(* The inductive invariant *)

(* The revisions that make the times of chats aware. *)
Both == {Times, TimesToo}

(* By how much times may be off, once both revisions may have been applied: *)
(* the second one of the two to be applied takes the offset from the aware  *)
(* times it finds, and the last one to be undone adds it to the naive ones. *)
TimesGood(d, set) ==
  /\ set \cap Both = {} => ~d.aware /\ d.times \subseteq {0, Offset}
  /\ Both \subseteq set => d.aware /\ d.times \subseteq {-Offset, 0}
  /\ set \cap Both # {} /\ ~ (Both \subseteq set) =>
       d.times \subseteq (IF d.aware THEN {0, Offset} ELSE {-Offset, 0})

(* Nothing is off as long as they have never been applied together. *)
TimesClean(d, set) ==
  ~ (Both \subseteq set) => d.times \subseteq {0} /\ (d.aware <=> set \cap Both # {})

(* Sessions with refresh tokens are those of the list per user. *)
TokensGood(d, set) == \A s \in d.sessions : s.refresh => Lists \in set

MigrationsInv ==
  /\ TypeOK
  /\ TimesGood(db, applied)
  /\ Both \subseteq applied => both
  /\ ~both => TimesClean(db, applied)
  /\ TokensGood(db, applied)

LEMMA EmptyGood ==
  Empty \in Database /\ TimesGood(Empty, {}) /\ TimesClean(Empty, {}) /\ Empty.sessions = {}
<1>1. Empty.times = {} /\ Empty.aware = FALSE /\ Empty.sessions = {} BY DEF Empty
<1>2. Empty \in Database BY DEF Empty, Database
<1>3. {} \cap Both = {} /\ ~ (Both \subseteq {}) BY DEF Both
<1> QED BY <1>1, <1>2, <1>3 DEF TimesGood, TimesClean

LEMMA ShiftedIs ==
  ASSUME NEW d \in Database
  PROVE  /\ d.times \subseteq {0, Offset} => Shifted(d, -Offset) \subseteq {-Offset, 0}
         /\ d.times \subseteq {-Offset, 0} => Shifted(d, Offset) \subseteq {0, Offset}
<1>1. \A t \in d.times : t \in Int BY OffsetAssumption DEF Database
<1> QED BY <1>1, OffsetAssumption DEF Shifted

LEMMA MakeAwareIs ==
  ASSUME NEW d \in Database
  PROVE  /\ MakeAware(d).table = d.table /\ MakeAware(d).sessions = d.sessions
         /\ MakeAware(d).accounts = d.accounts /\ MakeAware(d).aware = TRUE
         /\ MakeAware(d).times = IF d.aware THEN Shifted(d, -Offset) ELSE d.times
         /\ MakeAware(d).times \subseteq {-Offset, 0, Offset} => MakeAware(d) \in Database
BY DEF MakeAware, Database

(* One revision keeps sessions and accounts, unless it is the first. *)
LEMMA UpgradedKeeps ==
  ASSUME NEW d \in Database, NEW r \in Revisions, r # Initial
  PROVE  /\ Upgraded(d, r).sessions = d.sessions
         /\ Upgraded(d, r).accounts = d.accounts
         /\ r \notin Both => Upgraded(d, r).aware = d.aware /\ Upgraded(d, r).times = d.times
         /\ r \in Both => /\ Upgraded(d, r).aware
                          /\ Upgraded(d, r).times = IF d.aware THEN Shifted(d, -Offset)
                                                               ELSE d.times
<1>1. r \in {Rows, Lists, Times, Google, TimesToo} BY RevisionsAre
<1>2. CASE r = Rows
  <2>1. Upgraded(d, r) = [d EXCEPT !.table = "rows"] BY <1>2, Names DEF Upgraded
  <2> QED BY <1>2, <2>1, Names DEF Database, Both
<1>3. CASE r = Lists
  <2>1. Upgraded(d, r) = [d EXCEPT !.table = "lists"]
    BY <1>3, Names DEF Upgraded, ListSessions
  <2> QED BY <1>3, <2>1, Names DEF Database, Both
<1>4. CASE r = Google
  <2>1. Upgraded(d, r) = d BY <1>4, Names DEF Upgraded
  <2> QED BY <1>4, <2>1, Names DEF Both
<1>5. CASE r \in Both
  <2>1. Upgraded(d, r) = MakeAware(d) BY <1>5, Names DEF Upgraded, Both
  <2> QED BY <1>5, <2>1, MakeAwareIs
<1> QED BY <1>1, <1>2, <1>3, <1>4, <1>5 DEF Both

LEMMA UpgradedTyped ==
  ASSUME NEW d \in Database, NEW r \in Revisions,
         Upgraded(d, r).times \subseteq {-Offset, 0, Offset}
  PROVE  Upgraded(d, r) \in Database
<1>1. r \in {Initial, Rows, Lists, Times, Google, TimesToo} BY RevisionsAre
<1>2. CASE r = Initial BY <1>2, Names, EmptyGood DEF Upgraded
<1>3. CASE r = Rows
  <2>1. Upgraded(d, r) = [d EXCEPT !.table = "rows"] BY <1>3, Names DEF Upgraded
  <2> QED BY <2>1 DEF Database
<1>4. CASE r = Lists
  <2>1. Upgraded(d, r) = [d EXCEPT !.table = "lists"]
    BY <1>4, Names DEF Upgraded, ListSessions
  <2> QED BY <2>1 DEF Database
<1>5. CASE r = Google BY <1>5, Names DEF Upgraded
<1>6. CASE r \in Both
  <2>1. Upgraded(d, r) = MakeAware(d) BY <1>6, Names DEF Upgraded, Both
  <2> QED BY <2>1, MakeAwareIs
<1> QED BY <1>1, <1>2, <1>3, <1>4, <1>5, <1>6 DEF Both

(* A revision that is applied to a database without it keeps what is known  *)
(* of the times. *)
LEMMA UpgradedGood ==
  ASSUME NEW d \in Database, NEW r \in Revisions, NEW set \in SUBSET Revisions,
         TimesGood(d, set), r \notin set, r = Initial => set = {}
  PROVE  /\ Upgraded(d, r) \in Database
         /\ TimesGood(Upgraded(d, r), set \cup {r})
         /\ TimesClean(d, set) => TimesClean(Upgraded(d, r), set \cup {r})
<1>1. CASE r = Initial
  <2>1. Upgraded(d, r) = Empty BY <1>1, Names DEF Upgraded
  <2>2. (set \cup {r}) \cap Both = {} /\ ~ (Both \subseteq set \cup {r}) /\ {} \cap Both = {}
    BY <1>1, Names DEF Both
  <2>3. ~Empty.aware /\ Empty.times = {} BY DEF Empty
  <2> QED BY <2>1, <2>2, <2>3, EmptyGood DEF TimesGood, TimesClean
<1>2. CASE r # Initial /\ r \notin Both
  <2>1. (set \cup {r}) \cap Both = set \cap Both /\ (Both \subseteq set \cup {r} <=> Both \subseteq set)
    BY <1>2 DEF Both
  <2>2. Upgraded(d, r).aware = d.aware /\ Upgraded(d, r).times = d.times BY <1>2, UpgradedKeeps
  <2>3. d.times \subseteq {-Offset, 0, Offset} BY DEF Database
  <2> QED BY <2>1, <2>2, <2>3, UpgradedTyped DEF TimesGood, TimesClean
<1>3. CASE r \in Both
  <2> DEFINE e == Upgraded(d, r)
  <2>1. e.aware /\ e.times = IF d.aware THEN Shifted(d, -Offset) ELSE d.times
    BY <1>3, Names, UpgradedKeeps DEF Both
  <2>2. (set \cup {r}) \cap Both # {} /\ ~ (Both \subseteq set)
    BY <1>3
  <2>3. CASE set \cap Both = {}
    <3>1. ~ (Both \subseteq set \cup {r})
      BY <1>3, <2>3, Names DEF Both
    <3>2. ~d.aware /\ d.times \subseteq {0, Offset} BY <2>3 DEF TimesGood
    <3>3. e \in Database BY <2>1, <3>2, UpgradedTyped
    <3> HIDE DEF e
    <3> QED BY <2>1, <2>2, <2>3, <3>1, <3>2, <3>3 DEF TimesGood, TimesClean, e
  <2>4. CASE set \cap Both # {}
    <3>1. Both \subseteq set \cup {r}
      BY <1>3, <2>4 DEF Both
    <3>2. d.times \subseteq (IF d.aware THEN {0, Offset} ELSE {-Offset, 0})
      BY <2>2, <2>4 DEF TimesGood
    <3>3. e.times \subseteq {-Offset, 0} BY <2>1, <3>2, ShiftedIs
    <3>4. e \in Database BY <3>3, UpgradedTyped
    <3> HIDE DEF e
    <3> QED BY <2>1, <2>2, <3>1, <3>3, <3>4 DEF TimesGood, TimesClean, e
  <2> QED BY <2>3, <2>4
<1> QED BY <1>1, <1>2, <1>3

(* The same of one revision of an upgrade. *)
LEMMA StepGood ==
  ASSUME NEW d \in Database, NEW r \in Revisions, NEW set \in SUBSET Revisions, NEW revisions,
         TimesGood(d, set), r \in revisions => r \notin set,
         r = Initial /\ r \in revisions => set = {}
  PROVE  /\ Step(d, r, revisions) \in Database
         /\ TimesGood(Step(d, r, revisions), set \cup ({r} \cap revisions))
         /\ TimesClean(d, set) => TimesClean(Step(d, r, revisions), set \cup ({r} \cap revisions))
         /\ Step(d, r, revisions).sessions \subseteq d.sessions
         /\ r # Initial \/ r \notin revisions =>
              /\ Step(d, r, revisions).sessions = d.sessions
              /\ Step(d, r, revisions).accounts = d.accounts
<1>1. CASE r \in revisions
  <2>1. set \cup ({r} \cap revisions) = set \cup {r} /\ Step(d, r, revisions) = Upgraded(d, r)
    BY <1>1 DEF Step
  <2>2. Upgraded(d, r).sessions \subseteq d.sessions
    <3>1. r = Initial => Upgraded(d, r) = Empty BY Names DEF Upgraded
    <3> QED BY <3>1, EmptyGood, UpgradedKeeps
  <2> QED BY <1>1, <2>1, <2>2, UpgradedGood, UpgradedKeeps
<1>2. CASE r \notin revisions
  <2>1. set \cup ({r} \cap revisions) = set /\ Step(d, r, revisions) = d
    BY <1>2 DEF Step
  <2> QED BY <2>1
<1> QED BY <1>1, <1>2

(* And of the whole upgrade, which keeps sessions and accounts unless it    *)
(* begins with the first revision.                                          *)
LEMMA UpgradeGood ==
  ASSUME NEW d \in Database, NEW set \in SUBSET Revisions, Closed(set),
         NEW revisions \in SUBSET Revisions, revisions \cap set = {}, TimesGood(d, set)
  PROVE  /\ UpgradedBy(d, revisions) \in Database
         /\ TimesGood(UpgradedBy(d, revisions), set \cup revisions)
         /\ TimesClean(d, set) => TimesClean(UpgradedBy(d, revisions), set \cup revisions)
         /\ UpgradedBy(d, revisions).sessions \subseteq d.sessions
         /\ Initial \notin revisions =>
              /\ UpgradedBy(d, revisions).sessions = d.sessions
              /\ UpgradedBy(d, revisions).accounts = d.accounts
<1>1. PICK d1, d2, d3, d4, d5 :
           /\ d1 = Step(d, Initial, revisions) /\ d2 = Step(d1, Rows, revisions)
           /\ d3 = Step(d2, Lists, revisions) /\ d4 = Step(d3, Times, revisions)
           /\ d5 = Step(d4, Google, revisions)
           /\ UpgradedBy(d, revisions) = Step(d5, TimesToo, revisions)
  BY UpgradeIs
<1> DEFINE s1 == set \cup ({Initial} \cap revisions)
           s2 == s1 \cup ({Rows} \cap revisions)
           s3 == s2 \cup ({Lists} \cap revisions)
           s4 == s3 \cup ({Times} \cap revisions)
           s5 == s4 \cup ({Google} \cap revisions)
           s6 == s5 \cup ({TimesToo} \cap revisions)
           Good(e, s) == /\ e \in Database /\ TimesGood(e, s)
                         /\ TimesClean(d, set) => TimesClean(e, s)
                         /\ e.sessions \subseteq d.sessions
                         /\ Initial \notin revisions =>
                              e.sessions = d.sessions /\ e.accounts = d.accounts
<1>2. /\ Initial \in Revisions /\ Rows \in Revisions /\ Lists \in Revisions
      /\ Times \in Revisions /\ Google \in Revisions /\ TimesToo \in Revisions
  BY RevisionsAre
<1>3. /\ s1 \in SUBSET Revisions /\ s2 \in SUBSET Revisions /\ s3 \in SUBSET Revisions
      /\ s4 \in SUBSET Revisions /\ s5 \in SUBSET Revisions
  OBVIOUS
<1>4. s6 = set \cup revisions BY RevisionsAre
<1>5. Initial \in revisions => set = {} BY ClosedEmpty
<1>6. /\ Rows \in revisions => Rows \notin s1
      /\ Lists \in revisions => Lists \notin s2
      /\ Times \in revisions => Times \notin s3
      /\ Google \in revisions => Google \notin s4
      /\ TimesToo \in revisions => TimesToo \notin s5
  BY Names
<1>7. Good(d1, s1) BY <1>1, <1>2, <1>5, StepGood
<1> HIDE DEF s1
<1>8. Good(d2, s2)
  <2>1. /\ d2 = Step(d1, Rows, revisions) /\ Rows \in Revisions /\ Rows # Initial
        /\ s1 \in SUBSET Revisions /\ (Rows \in revisions => Rows \notin s1)
    BY <1>1, <1>2, <1>3, <1>6, Names
  <2> QED BY <1>7, <2>1, StepGood
<1> HIDE DEF s2
<1>9. Good(d3, s3)
  <2>1. /\ d3 = Step(d2, Lists, revisions) /\ Lists \in Revisions /\ Lists # Initial
        /\ s2 \in SUBSET Revisions /\ (Lists \in revisions => Lists \notin s2)
    BY <1>1, <1>2, <1>3, <1>6, Names
  <2> QED BY <1>8, <2>1, StepGood
<1> HIDE DEF s3
<1>10. Good(d4, s4)
  <2>1. /\ d4 = Step(d3, Times, revisions) /\ Times \in Revisions /\ Times # Initial
        /\ s3 \in SUBSET Revisions /\ (Times \in revisions => Times \notin s3)
    BY <1>1, <1>2, <1>3, <1>6, Names
  <2> QED BY <1>9, <2>1, StepGood
<1> HIDE DEF s4
<1>11. Good(d5, s5)
  <2>1. /\ d5 = Step(d4, Google, revisions) /\ Google \in Revisions /\ Google # Initial
        /\ s4 \in SUBSET Revisions /\ (Google \in revisions => Google \notin s4)
    BY <1>1, <1>2, <1>3, <1>6, Names
  <2> QED BY <1>10, <2>1, StepGood
<1> HIDE DEF s5
<1>12. Good(UpgradedBy(d, revisions), s6)
  <2>1. /\ UpgradedBy(d, revisions) = Step(d5, TimesToo, revisions)
        /\ TimesToo \in Revisions /\ TimesToo # Initial
        /\ s5 \in SUBSET Revisions /\ (TimesToo \in revisions => TimesToo \notin s5)
    BY <1>1, <1>2, <1>3, <1>6, Names
  <2> QED BY <1>11, <2>1, StepGood
<1> HIDE DEF s6
<1> QED BY <1>4, <1>12

-----------------------------------------------------------------------------
(* A downgrade *)

LEMMA MakeNaiveIs ==
  ASSUME NEW d \in Database
  PROVE  /\ MakeNaive(d).table = d.table /\ MakeNaive(d).sessions = d.sessions
         /\ MakeNaive(d).accounts = d.accounts /\ MakeNaive(d).aware = FALSE
         /\ MakeNaive(d).times = IF d.aware THEN d.times ELSE Shifted(d, Offset)
         /\ MakeNaive(d).times \subseteq {-Offset, 0, Offset} => MakeNaive(d) \in Database
BY DEF MakeNaive, Database

(* Some of the names that undoing 92d4c8a1e5bf renames are too long. *)
LEMMA CannotUndoLists == ~CanUndoLists
<1>1. 64 \in RenamedLengths /\ ~ (64 <= MaxIdentifier) BY DEF RenamedLengths, MaxIdentifier
<1> QED BY <1>1 DEF CanUndoLists

(* What undoing each revision does. *)
LEMMA DowngradedKeeps ==
  ASSUME NEW d \in Database, NEW r \in Revisions, r # Initial, CanUndo(d, r)
  PROVE  LET e == Downgraded(d, r)
         IN  /\ e.times \subseteq {-Offset, 0, Offset} => e \in Database
             /\ r \notin Both => e.aware = d.aware /\ e.times = d.times
             /\ r \in Both => /\ e.aware = FALSE
                              /\ e.times = IF d.aware THEN d.times ELSE Shifted(d, Offset)
             /\ r # Google => e.accounts = d.accounts
             /\ \A u \in Users :
                  d.accounts[u] \in {"password", "linked"} => e.accounts[u] \in {"password", "linked"}
             /\ r = Google => \A u \in Users : d.accounts[u] # "google"
             /\ r # Rows => e.sessions = d.sessions
             /\ r = Rows => e.sessions = {}
             /\ r # Lists
<1> DEFINE e == Downgraded(d, r)
<1>0. r # Lists /\ (r = Google => CanDropGoogle(d)) BY CannotUndoLists DEF CanUndo
<1>1. r \in {Rows, Times, Google, TimesToo} BY <1>0, RevisionsAre
<1>2. CASE r = Rows
  <2>1. e = [d EXCEPT !.table = "absent", !.sessions = {}] BY <1>2, Names DEF Downgraded
  <2>2. /\ e.aware = d.aware /\ e.times = d.times /\ e.accounts = d.accounts /\ e \in Database
        /\ e.sessions = {}
        /\ r \notin Both /\ r # Google
    BY <1>2, <2>1, Names DEF Database, Both
  <2> HIDE DEF e
  <2> QED BY <1>0, <1>2, <2>2 DEF e
<1>3. CASE r = Google
  <2>1. e = [d EXCEPT !.accounts =
               [u \in Users |-> IF d.accounts[u] = "linked" THEN "password" ELSE d.accounts[u]]]
    BY <1>3, Names DEF Downgraded, DropGoogle
  <2>2. /\ e.aware = d.aware /\ e.times = d.times /\ e.sessions = d.sessions /\ e \in Database
        /\ \A u \in Users :
             e.accounts[u] = IF d.accounts[u] = "linked" THEN "password" ELSE d.accounts[u]
        /\ r \notin Both
    BY <1>3, <2>1, Names DEF Database, Both
  <2>3. \A u \in Users : d.accounts[u] # "google" BY <1>0, <1>3 DEF CanDropGoogle
  <2> HIDE DEF e
  <2> QED BY <1>0, <1>3, <2>2, <2>3, Names DEF e
<1>4. CASE r \in Both
  <2>1. e = MakeNaive(d) BY <1>4, Names DEF Downgraded, Both
  <2>2. r # Google /\ r # Rows BY <1>4, Names DEF Both
  <2> HIDE DEF e
  <2> QED BY <1>0, <1>4, <2>1, <2>2, MakeNaiveIs DEF e
<1> QED BY <1>1, <1>2, <1>3, <1>4 DEF Both

(* A head is followed by none of the revisions that are applied, so what is *)
(* left without it is closed, and the first one is undone last.             *)
LEMMA HeadUndone ==
  ASSUME NEW set \in SUBSET Revisions, Closed(set), NEW r \in Heads(set)
  PROVE  r \in set /\ Closed(set \ {r}) /\ (r = Initial => set = {Initial})
<1>1. r \in set /\ \A s \in set \cap DOMAIN Follows : Follows[s] # r BY DEF Heads
<1>2. Closed(set \ {r}) BY <1>1 DEF Closed
<1>3. ASSUME r = Initial PROVE set = {Initial}
  <2>1. set \ {Initial} = {} BY <1>2, <1>3, ClosedEmpty
  <2> QED BY <1>1, <1>3, <2>1
<1> QED BY <1>1, <1>2, <1>3

LEMMA DowngradeGood ==
  ASSUME NEW d \in Database, NEW set \in SUBSET Revisions, Closed(set), NEW r \in Heads(set),
         TimesGood(d, set), CanUndo(d, r)
  PROVE  /\ Downgraded(d, r) \in Database
         /\ TimesGood(Downgraded(d, r), set \ {r})
         /\ TimesClean(d, set) /\ ~ (Both \subseteq set) => TimesClean(Downgraded(d, r), set \ {r})
<1>1. r \in set /\ r \in Revisions /\ (r = Initial => set = {Initial}) BY HeadUndone
<1>2. CASE r = Initial
  <2>1. Downgraded(d, r) = Empty /\ set \ {r} = {} BY <1>1, <1>2, Names DEF Downgraded
  <2> QED BY <2>1, EmptyGood
<1>3. CASE r # Initial /\ r \notin Both
  <2>1. (set \ {r}) \cap Both = set \cap Both /\ (Both \subseteq set \ {r} <=> Both \subseteq set)
    BY <1>3
  <2>2. Downgraded(d, r).aware = d.aware /\ Downgraded(d, r).times = d.times
    BY <1>1, <1>3, DowngradedKeeps
  <2>3. d.times \subseteq {-Offset, 0, Offset} BY DEF Database
  <2>4. Downgraded(d, r) \in Database BY <1>1, <1>3, <2>2, <2>3, DowngradedKeeps
  <2> QED BY <2>1, <2>2, <2>4 DEF TimesGood, TimesClean
<1>4. CASE r \in Both
  <2> DEFINE e == Downgraded(d, r)
  <2>1. e.aware = FALSE /\ e.times = IF d.aware THEN d.times ELSE Shifted(d, Offset)
    BY <1>1, <1>4, Names, DowngradedKeeps DEF Both
  <2>2. e.times \subseteq {-Offset, 0, Offset} => e \in Database
    BY <1>1, <1>4, Names, DowngradedKeeps DEF Both
  <2> HIDE DEF e
  <2>3. ~ (Both \subseteq set \ {r}) /\ set \cap Both # {} BY <1>1, <1>4
  <2>4. CASE Both \subseteq set
    <3>1. (set \ {r}) \cap Both # {} BY <1>4, <2>4, Names DEF Both
    <3>2. d.aware /\ d.times \subseteq {-Offset, 0} BY <2>4 DEF TimesGood
    <3> QED BY <2>1, <2>2, <2>3, <2>4, <3>1, <3>2 DEF TimesGood, e
  <2>5. CASE ~ (Both \subseteq set)
    <3>1. (set \ {r}) \cap Both = {} BY <1>1, <1>4, <2>5 DEF Both
    <3>2. d.times \subseteq (IF d.aware THEN {0, Offset} ELSE {-Offset, 0})
      BY <2>3, <2>5 DEF TimesGood
    <3>3. e.times \subseteq {0, Offset} BY <2>1, <3>2, ShiftedIs
    <3>4. TimesGood(e, set \ {r}) /\ e \in Database
      BY <2>1, <2>2, <2>3, <3>1, <3>3 DEF TimesGood
    <3>5. TimesClean(d, set) => d.aware /\ d.times \subseteq {0}
      BY <2>3, <2>5 DEF TimesClean
    <3>6. TimesClean(d, set) => TimesClean(e, set \ {r}) BY <2>1, <3>1, <3>5 DEF TimesClean
    <3> QED BY <3>4, <3>6 DEF e
  <2> QED BY <2>4, <2>5
<1> QED BY <1>2, <1>3, <1>4

(* Tokens are left only to sessions of the list. *)
LEMMA DowngradeTokens ==
  ASSUME NEW d \in Database, NEW set \in SUBSET Revisions, NEW r \in Revisions,
         CanUndo(d, r), TokensGood(d, set)
  PROVE  TokensGood(Downgraded(d, r), set \ {r})
<1>1. CASE r = Initial
  <2>1. Downgraded(d, r) = Empty BY <1>1, Names DEF Downgraded
  <2> QED BY <2>1, EmptyGood DEF TokensGood
<1>2. CASE r # Initial
  <2> DEFINE e == Downgraded(d, r)
  <2>1. r # Lists /\ e.sessions \subseteq d.sessions BY <1>2, DowngradedKeeps
  <2> HIDE DEF e
  <2>2. TokensGood(e, set \ {r}) BY <2>1 DEF TokensGood
  <2> QED BY <2>2 DEF e
<1> QED BY <1>1, <1>2

-----------------------------------------------------------------------------
(* The steps *)

LEMMA MigrationsInit == Init => MigrationsInv
<1> SUFFICES ASSUME Init PROVE MigrationsInv
  OBVIOUS
<1>1. both = FALSE /\ ran = <<"none", "done">> BY DEF Init
<1>2. CASE applied = {} /\ db = Empty
  <2>1. ~ (Both \subseteq applied) BY <1>2 DEF Both
  <2> QED BY <1>1, <1>2, <2>1, EmptyGood DEF MigrationsInv, TypeOK, TokensGood
<1>3. CASE applied # {}
  <2>1. PICK sessions \in SUBSET [id : Sessions, user : Users, refresh : {FALSE}] :
          /\ applied = {Initial, Rows}
          /\ db = [Empty EXCEPT !.table = "rows", !.sessions = sessions, !.times = {0},
                                !.accounts = [u \in Users |-> "password"]]
    BY <1>3 DEF Init
  <2>2. sessions \in SUBSET Session BY DEF Session
  <2>3. /\ db.table = "rows" /\ db.sessions = sessions /\ db.times = {0} /\ db.aware = FALSE
        /\ db.accounts = [u \in Users |-> "password"]
    BY <2>1 DEF Empty
  <2>4. db \in Database BY <2>1, <2>2 DEF Empty, Database
  <2>5. applied \cap Both = {} /\ ~ (Both \subseteq applied) BY <2>1, Names DEF Both
  <2>6. applied \in SUBSET Revisions /\ \A r \in applied \cap DOMAIN Follows : Follows[r] \in applied
    BY <2>1, Names, RevisionsAre, FollowsAre
  <2>7. TimesGood(db, applied) /\ TimesClean(db, applied)
    BY <2>3, <2>5 DEF TimesGood, TimesClean
  <2>8. TokensGood(db, applied) BY <2>3 DEF TokensGood
  <2> QED BY <1>1, <2>4, <2>5, <2>6, <2>7, <2>8 DEF MigrationsInv, TypeOK
<1> QED BY <1>2, <1>3 DEF Init

(* A command that is refused changes nothing but the history. *)
LEMMA RefusedKept ==
  ASSUME MigrationsInv, NEW command \in {"migrate-up", "upgrade", "migrate-down"},
         Refused(command), db' = db
  PROVE  MigrationsInv'
BY DEF MigrationsInv, TypeOK, Refused, TimesGood, TimesClean, TokensGood

LEMMA ApplyKept ==
  ASSUME MigrationsInv, NEW command \in {"migrate-up", "upgrade"},
         NEW revisions \in SUBSET Revisions, Closed(revisions), ApplyAll(command, revisions)
  PROVE  MigrationsInv'
<1> DEFINE fresh == revisions \ applied
           next == applied \cup revisions
<1>1. /\ db' = UpgradedBy(db, fresh) /\ applied' = next
      /\ both' = (both \/ Both \subseteq next)
      /\ ran' = <<command, "done">>
  BY DEF ApplyAll, Moved, Both
<1>2. /\ db \in Database /\ applied \in SUBSET Revisions /\ Closed(applied)
      /\ TimesGood(db, applied) /\ both \in BOOLEAN
      /\ ~both => TimesClean(db, applied)
  BY DEF MigrationsInv, TypeOK, Closed
<1>3. fresh \in SUBSET Revisions /\ fresh \cap applied = {} /\ applied \cup fresh = next
  BY <1>2
<1>4. next \in SUBSET Revisions /\ Closed(next) BY <1>2 DEF Closed
<1> HIDE DEF fresh, next
<1>5. /\ UpgradedBy(db, fresh) \in Database
      /\ TimesGood(UpgradedBy(db, fresh), applied \cup fresh)
      /\ TimesClean(db, applied) => TimesClean(UpgradedBy(db, fresh), applied \cup fresh)
      /\ UpgradedBy(db, fresh).sessions \subseteq db.sessions
  <2>1. UpgradedBy(db, fresh).sessions \subseteq db.sessions
    BY <1>2, <1>3, UpgradeGood
  <2> QED BY <1>2, <1>3, <2>1, UpgradeGood
<1>6. TimesGood(db, applied)'
  BY <1>1, <1>3, <1>5 DEF TimesGood
<1>7. ~both' => TimesClean(db, applied)'
  BY <1>1, <1>2, <1>3, <1>5 DEF TimesClean
<1>8. TypeOK' BY <1>1, <1>2, <1>4, <1>5 DEF TypeOK, Closed
<1>9. TokensGood(db, applied)'
  BY <1>1, <1>5 DEF MigrationsInv, TokensGood, next
<1> QED BY <1>1, <1>6, <1>7, <1>8, <1>9 DEF MigrationsInv

LEMMA DownKept == ASSUME MigrationsInv, MigrateDown PROVE MigrationsInv'
<1>1. PICK r \in Heads(applied) :
        \/ /\ CanUndo(db, r)
           /\ db' = Downgraded(db, r)
           /\ Moved("migrate-down", applied \ {r})
        \/ ~CanUndo(db, r) /\ Refused("migrate-down")
  BY DEF MigrateDown
<1>2. CASE Refused("migrate-down")
  BY <1>2, RefusedKept DEF Refused
<1>3. CASE /\ CanUndo(db, r)
           /\ db' = Downgraded(db, r)
           /\ Moved("migrate-down", applied \ {r})
  <2> DEFINE next == applied \ {r}
  <2>1. /\ db \in Database /\ applied \in SUBSET Revisions /\ Closed(applied)
        /\ TimesGood(db, applied) /\ both \in BOOLEAN
        /\ ~both => TimesClean(db, applied) /\ ~ (Both \subseteq applied)
        /\ TokensGood(db, applied)
    BY DEF MigrationsInv, TypeOK, Closed
  <2>2. Closed(next) /\ next \in SUBSET Revisions BY <2>1, HeadUndone
  <2>3. /\ Downgraded(db, r) \in Database
        /\ TimesGood(Downgraded(db, r), next)
        /\ TimesClean(db, applied) /\ ~ (Both \subseteq applied) =>
             TimesClean(Downgraded(db, r), next)
        /\ TokensGood(Downgraded(db, r), next)
    <3>1. r \in Revisions BY <2>1 DEF Heads
    <3>2. TokensGood(Downgraded(db, r), next) BY <1>3, <2>1, <3>1, DowngradeTokens
    <3> QED BY <1>3, <2>1, <3>2, DowngradeGood
  <2> HIDE DEF next
  <2>4. applied' = next /\ both' = (both \/ Both \subseteq next) /\ ran' = <<"migrate-down", "done">>
    BY <1>3 DEF Moved, Both, next
  <2>5. TimesGood(db, applied)' BY <1>3, <2>3, <2>4 DEF TimesGood
  <2>6. ~both' => TimesClean(db, applied)' BY <1>3, <2>1, <2>3, <2>4 DEF TimesClean
  <2>7. TypeOK' BY <1>3, <2>1, <2>2, <2>3, <2>4 DEF TypeOK, Closed
  <2>8. TokensGood(db, applied)' BY <1>3, <2>3, <2>4 DEF TokensGood
  <2> QED BY <2>4, <2>5, <2>6, <2>7, <2>8 DEF MigrationsInv
<1> QED BY <1>1, <1>2, <1>3

(* The program writes rows of the shape that is there, and chats only into  *)
(* aware columns.                                                           *)
LEMMA WritesKept ==
  ASSUME MigrationsInv, NEW d \in Database, Writes(d), d.aware = db.aware,
         d.times = db.times \/ (db.aware /\ d.times = db.times \cup {0}),
         d.sessions = db.sessions \/ Running
  PROVE  MigrationsInv'
<1>1. db' = d /\ ran' = <<"none", "done">> /\ applied' = applied /\ both' = both BY DEF Writes
<1>2. TimesGood(d, applied) BY DEF MigrationsInv, TimesGood
<1>3. ~both => TimesClean(d, applied) BY DEF MigrationsInv, TimesClean
<1>4. TimesGood(db, applied)' BY <1>1, <1>2 DEF TimesGood
<1>5. ~both' => TimesClean(db, applied)' BY <1>1, <1>3 DEF TimesClean
<1>6. TokensGood(db, applied)'
  <2>1. Running => Lists \in applied BY FollowsAre DEF Running, MigrationsInv, TypeOK
  <2> QED BY <1>1, <2>1 DEF MigrationsInv, TokensGood
<1> QED BY <1>1, <1>4, <1>5, <1>6 DEF MigrationsInv, TypeOK

LEMMA ProgramKept ==
  ASSUME MigrationsInv,
         \/ \E u \in Users : NewAccount(u) \/ \E s \in Sessions : SignIn(u, s)
         \/ NewChat
  PROVE  MigrationsInv'
<1>1. db \in Database BY DEF MigrationsInv, TypeOK
<1>2. ASSUME NEW u \in Users, NEW s \in Sessions, SignIn(u, s) PROVE MigrationsInv'
  <2> DEFINE new == [id |-> s, user |-> u, refresh |-> TRUE]
             d == [db EXCEPT !.sessions = @ \cup {new}]
  <2>1. new \in Session BY DEF Session
  <2>2. d \in Database /\ d.aware = db.aware /\ d.times = db.times BY <1>1, <2>1 DEF Database
  <2>3. Writes(d) /\ Running BY <1>2 DEF SignIn
  <2> HIDE DEF d
  <2> QED BY <2>2, <2>3, WritesKept
<1>3. ASSUME NEW u \in Users, NEW how \in {"password", "google", "linked"},
             Writes([db EXCEPT !.accounts[u] = how])
      PROVE  MigrationsInv'
  <2> DEFINE d == [db EXCEPT !.accounts[u] = how]
  <2>1. d \in Database /\ d.aware = db.aware /\ d.times = db.times /\ d.sessions = db.sessions
    BY <1>1 DEF Database
  <2>2. Writes(d) BY <1>3
  <2> HIDE DEF d
  <2> QED BY <2>1, <2>2, WritesKept
<1>4. CASE NewChat
  <2> DEFINE d == [db EXCEPT !.times = @ \cup {0}]
  <2>1. /\ d \in Database /\ d.aware = db.aware /\ d.times = db.times \cup {0}
        /\ d.sessions = db.sessions
    BY <1>1 DEF Database
  <2>2. Writes(d) /\ db.aware BY <1>4 DEF NewChat
  <2> HIDE DEF d
  <2> QED BY <2>1, <2>2, WritesKept
<1> QED BY <1>2, <1>3, <1>4 DEF NewAccount

LEMMA MigrationsStep == MigrationsInv /\ [Next]_vars => MigrationsInv'
<1> SUFFICES ASSUME MigrationsInv, [Next]_vars PROVE MigrationsInv'
  OBVIOUS
<1>1. CASE MigrateUp
  <2>1. CASE ApplyAll("migrate-up", Revisions) BY <2>1, RevisionsClosed, ApplyKept
  <2>2. CASE Refused("migrate-up") BY <2>2, RefusedKept DEF Refused
  <2> QED BY <1>1, <2>1, <2>2 DEF MigrateUp
<1>2. CASE UpgradeHeads BY <1>2, RevisionsClosed, ApplyKept DEF UpgradeHeads
<1>3. ASSUME NEW r \in Revisions, UpgradeTo(r) PROVE MigrationsInv'
  BY <1>3, NeededClosed, ApplyKept DEF UpgradeTo
<1>4. CASE UNCHANGED vars
  BY <1>4 DEF vars, MigrationsInv, TypeOK, TimesGood, TimesClean, TokensGood
<1> QED BY <1>1, <1>2, <1>3, <1>4, DownKept, ProgramKept DEF Next

LEMMA MigrationsAlways == Spec => []MigrationsInv
BY MigrationsInit, MigrationsStep, PTL DEF Spec

-----------------------------------------------------------------------------
(* Every variable keeps its shape and the revisions applied always include  *)
(* what they follow, for any users, sessions and offset.                    *)
THEOREM MigrationsTyped == Spec => []TypeOK
<1>1. MigrationsInv => TypeOK BY DEF MigrationsInv
<1> QED BY <1>1, MigrationsAlways, PTL

(* The times of chats stay what they were as long as the two revisions that *)
(* make them aware have never been applied together, or the time zone of    *)
(* the server is UTC.                                                       *)
THEOREM ChatTimesKept == Spec => []TimesKept
<1>1. MigrationsInv => TimesKept
  <2> SUFFICES ASSUME MigrationsInv, ~both \/ Offset = 0
      PROVE  db.times \subseteq {0} /\ (~both => (db.aware <=> applied \cap Both # {}))
    BY DEF TimesKept, Both
  <2>1. CASE ~both
    <3>1. ~ (Both \subseteq applied) /\ TimesClean(db, applied) BY <2>1 DEF MigrationsInv
    <3> QED BY <2>1, <3>1 DEF TimesClean
  <2>2. CASE both
    <3>1. Offset = 0 /\ {0, Offset} = {0} /\ {-Offset, 0} = {0} BY <2>2
    <3>2. TimesGood(db, applied) BY DEF MigrationsInv
    <3>3. db.times \subseteq {0} BY <3>1, <3>2 DEF TimesGood
    <3> QED BY <2>2, <3>3
  <2> QED BY <2>1, <2>2
<1> QED BY <1>1, MigrationsAlways, PTL

-----------------------------------------------------------------------------
(* What a step keeps for the users *)

SessionsKept ==
  \A s \in db.sessions : s.refresh \/ Rows \in applied \cap applied' => s \in db'.sessions

AccountsKept ==
  Initial \in applied /\ Initial \in applied' =>
    \A u \in Users : CanSignIn(u) => CanSignIn(u)'

(* An upgrade does not apply the first revision again, the only one that    *)
(* empties tables.                                                          *)
LEMMA ApplyAccess ==
  ASSUME MigrationsInv, NEW command, NEW revisions \in SUBSET Revisions,
         ApplyAll(command, revisions)
  PROVE  SessionsKept /\ AccountsKept
<1> DEFINE fresh == revisions \ applied
<1>1. db' = UpgradedBy(db, fresh) /\ applied' = applied \cup revisions
  BY DEF ApplyAll, Moved
<1>2. /\ db \in Database /\ applied \in SUBSET Revisions /\ Closed(applied)
      /\ TimesGood(db, applied)
      /\ fresh \in SUBSET Revisions /\ fresh \cap applied = {}
  BY DEF MigrationsInv, TypeOK, Closed
<1>3. Initial \in applied => Initial \notin fresh OBVIOUS
<1> HIDE DEF fresh
<1>4. Initial \in applied => db'.sessions = db.sessions /\ db'.accounts = db.accounts
  BY <1>1, <1>2, <1>3, UpgradeGood
<1>5. Rows \in applied => Initial \in applied BY <1>2, FollowsAre DEF Closed
<1>6. SessionsKept
  <2>1. Lists \in applied => Rows \in applied BY <1>2, FollowsAre DEF Closed
  <2>2. TokensGood(db, applied) BY DEF MigrationsInv
  <2> QED BY <1>4, <1>5, <2>1, <2>2 DEF SessionsKept, TokensGood
<1>7. AccountsKept BY <1>1, <1>4 DEF AccountsKept, CanSignIn
<1> QED BY <1>6, <1>7

(* Undoing Google's columns waits until nobody depends on them. *)
LEMMA DownAccess == ASSUME MigrationsInv, MigrateDown PROVE SessionsKept /\ AccountsKept
<1>1. PICK r \in Heads(applied) :
        \/ /\ CanUndo(db, r)
           /\ db' = Downgraded(db, r)
           /\ Moved("migrate-down", applied \ {r})
        \/ ~CanUndo(db, r) /\ Refused("migrate-down")
  BY DEF MigrateDown
<1>2. CASE Refused("migrate-down") /\ db' = db
  BY <1>2 DEF Refused, SessionsKept, AccountsKept, CanSignIn
<1>3. CASE /\ CanUndo(db, r)
           /\ db' = Downgraded(db, r)
           /\ Moved("migrate-down", applied \ {r})
  <2>1. db \in Database /\ r \in applied /\ r \in Revisions /\ applied' = applied \ {r}
    BY <1>3 DEF MigrationsInv, TypeOK, Heads, Moved
  <2>2. CASE r = Initial
    <3>1. applied = {Initial}
      BY <2>2, HeadUndone DEF MigrationsInv, TypeOK, Closed
    <3>2. \A s \in db.sessions : ~s.refresh
      BY <3>1, Names, <2>1 DEF MigrationsInv, TokensGood, Database, Session
    <3> QED BY <2>1, <2>2, <3>1, <3>2, Names DEF SessionsKept, AccountsKept
  <2>3. CASE r # Initial
    <3> DEFINE e == Downgraded(db, r)
    <3>1. /\ r # Google => e.accounts = db.accounts
          /\ \A u \in Users :
               db.accounts[u] \in {"password", "linked"} => e.accounts[u] \in {"password", "linked"}
          /\ r = Google => \A u \in Users : db.accounts[u] # "google"
          /\ r # Rows => e.sessions = db.sessions
      BY <1>3, <2>1, <2>3, DowngradedKeeps
    <3>2. db' = e BY <1>3
    <3> HIDE DEF e
    <3>3. SessionsKept
      <4>1. r = Rows => Lists \notin applied
        BY FollowsAre DEF Heads
      <4>2. r = Rows => \A s \in db.sessions : ~s.refresh
        BY <2>1, <4>1 DEF MigrationsInv, TokensGood, Database, Session
      <4> QED BY <2>1, <3>1, <3>2, <4>2 DEF SessionsKept
    <3>4. AccountsKept BY <2>1, <3>1, <3>2 DEF AccountsKept, CanSignIn
    <3> QED BY <3>3, <3>4
  <2> QED BY <2>2, <2>3
<1> QED BY <1>1, <1>2, <1>3 DEF Refused

LEMMA AccessStep == MigrationsInv /\ [Next]_vars => SessionsKept /\ AccountsKept
<1> SUFFICES ASSUME MigrationsInv, [Next]_vars PROVE SessionsKept /\ AccountsKept
  OBVIOUS
<1>1. db \in Database BY DEF MigrationsInv, TypeOK
<1>2. ASSUME UNCHANGED <<db, applied>> PROVE SessionsKept /\ AccountsKept
  BY <1>2 DEF SessionsKept, AccountsKept, CanSignIn
<1>3. CASE MigrateUp
  BY <1>2, <1>3, ApplyAccess DEF MigrateUp, Refused
<1>4. CASE UpgradeHeads BY <1>4, ApplyAccess DEF UpgradeHeads
<1>5. ASSUME NEW r \in Revisions, UpgradeTo(r) PROVE SessionsKept /\ AccountsKept
  BY <1>5, NeededClosed, ApplyAccess DEF UpgradeTo
<1>6. ASSUME NEW u \in Users, NEW s \in Sessions, SignIn(u, s)
      PROVE  SessionsKept /\ AccountsKept
  <2>1. /\ applied' = applied /\ db'.accounts = db.accounts
        /\ db'.sessions = db.sessions \cup {[id |-> s, user |-> u, refresh |-> TRUE]}
    BY <1>1, <1>6 DEF SignIn, Writes, Database
  <2> QED BY <2>1 DEF SessionsKept, AccountsKept, CanSignIn
<1>7. ASSUME NEW u \in Users, NewAccount(u)
      PROVE  SessionsKept /\ AccountsKept
  <2>1. PICK how \in {"password", "google", "linked"} :
          Writes([db EXCEPT !.accounts[u] = how])
    BY <1>7 DEF NewAccount
  <2>2. /\ applied' = applied /\ Google \in applied' /\ db'.sessions = db.sessions
        /\ \A v \in Users : db'.accounts[v] = IF v = u THEN how ELSE db.accounts[v]
    BY <1>1, <1>7, <2>1 DEF NewAccount, Running, Writes, Database
  <2> QED BY <2>2 DEF SessionsKept, AccountsKept, CanSignIn
<1>8. CASE NewChat
  <2>1. applied' = applied /\ db'.accounts = db.accounts /\ db'.sessions = db.sessions
    BY <1>1, <1>8 DEF NewChat, Writes, Database
  <2> QED BY <2>1 DEF SessionsKept, AccountsKept, CanSignIn
<1>9. CASE UNCHANGED vars BY <1>2, <1>9 DEF vars
<1> QED BY <1>3, <1>4, <1>5, <1>6, <1>7, <1>8, <1>9, DownAccess DEF Next

(* Whichever way revisions are applied and undone, no session with a        *)
(* refresh token is ever lost, those of the earlier version are kept with   *)
(* their table, and everyone who can sign in still can while users are.     *)
THEOREM NobodyLockedOut == Spec => AccessKept
<1>1. MigrationsInv /\ [Next]_vars =>
        [/\ \A s \in db.sessions :
              s.refresh \/ Rows \in applied \cap applied' => s \in db'.sessions
         /\ Initial \in applied /\ Initial \in applied' =>
              \A u \in Users : CanSignIn(u) => CanSignIn(u)']_vars
  BY AccessStep DEF SessionsKept, AccountsKept
<1> QED BY <1>1, MigrationsAlways, PTL DEF Spec, AccessKept

ListsKept == Lists \in applied => Lists \in applied'

(* Once 92d4c8a1e5bf is applied it stays: neither "make migrate-down" nor   *)
(* anything else takes it back, whatever the data.                          *)
THEOREM ListsForGood == Spec => [][ListsKept]_vars
<1>1. ASSUME MigrationsInv, [Next]_vars, Lists \in applied PROVE Lists \in applied'
  <2>1. CASE applied' = applied BY <1>1, <2>1
  <2>2. CASE MigrateUp BY <1>1, <2>2 DEF MigrateUp, ApplyAll, Moved, Refused
  <2>3. CASE UpgradeHeads BY <1>1, <2>3 DEF UpgradeHeads, ApplyAll, Moved
  <2>4. ASSUME NEW r \in Revisions, UpgradeTo(r) PROVE Lists \in applied'
    BY <1>1, <2>4 DEF UpgradeTo, ApplyAll, Moved
  <2>5. CASE MigrateDown
    <3>1. PICK r \in Heads(applied) :
            \/ CanUndo(db, r) /\ Moved("migrate-down", applied \ {r})
            \/ Refused("migrate-down")
      BY <2>5 DEF MigrateDown
    <3>2. CanUndo(db, r) => r # Lists BY CannotUndoLists DEF CanUndo
    <3> QED BY <1>1, <3>1, <3>2 DEF Moved, Refused
  <2>6. CASE NewChat \/ \E u \in Users : NewAccount(u) \/ \E s \in Sessions : SignIn(u, s)
    BY <2>1, <2>6 DEF NewChat, NewAccount, SignIn, Writes
  <2> QED BY <1>1, <2>1, <2>2, <2>3, <2>4, <2>5, <2>6 DEF Next, vars
<1>2. MigrationsInv /\ [Next]_vars => [ListsKept]_vars
  BY <1>1 DEF ListsKept
<1> QED BY <1>2, MigrationsAlways, PTL DEF Spec

-----------------------------------------------------------------------------
(* The command of the Makefile *)

LEMMA TwoHeads == Cardinality(Heads(Revisions)) = 2
<1> DEFINE one == {Google}
           two == one \cup {TimesToo}
<1>1. Heads(Revisions) = two
  <2> SUFFICES ASSUME NEW r \in Revisions
               PROVE  (\A s \in Revisions \cap DOMAIN Follows : Follows[s] # r)
                        <=> r \in {Google, TimesToo}
    BY RevisionsAre DEF Heads
  <2>1. Revisions \cap DOMAIN Follows = {Rows, Lists, Times, Google, TimesToo}
    BY RevisionsAre, FollowsAre
  <2>2. (\A s \in Revisions \cap DOMAIN Follows : Follows[s] # r)
          <=> r \notin {Initial, Rows, Lists, Times}
    BY <2>1, FollowsAre
  <2> QED BY <2>2, RevisionsAre, Names
<1>2. IsFiniteSet(one) /\ Cardinality(one) = 1 BY FS_Singleton
<1>3. TimesToo \notin one BY Names
<1> HIDE DEF one
<1>4. Cardinality(two) = 2 BY <1>2, <1>3, FS_AddElement
<1> QED BY <1>1, <1>4

UpRefused == ran[1] = "migrate-up" => ran[2] = "refused"

LEMMA OtherCommand ==
  ASSUME NEW command, command # "migrate-up", NEW outcome, ran' = <<command, outcome>>
  PROVE  UpRefused'
BY DEF UpRefused

(* "make migrate-up" is refused whatever the database has: two revisions    *)
(* have no successor.                                                       *)
THEOREM MigrateUpRefused == Spec => []UpRefused
<1>1. Init => UpRefused
  <2>1. Init => ran = <<"none", "done">> BY DEF Init
  <2> QED BY <2>1 DEF UpRefused
<1>2. ASSUME UpRefused, [Next]_vars PROVE UpRefused'
  <2>1. CASE MigrateUp
    <3>1. ran' = <<"migrate-up", "refused">> BY <2>1, TwoHeads DEF MigrateUp, Refused
    <3> QED BY <3>1 DEF UpRefused
  <2>2. CASE UNCHANGED vars BY <1>2, <2>2 DEF vars, UpRefused
  <2>3. CASE UpgradeHeads \/ \E r \in Revisions : UpgradeTo(r)
    BY <2>3, OtherCommand DEF UpgradeHeads, UpgradeTo, ApplyAll, Moved
  <2>4. CASE MigrateDown BY <2>4, OtherCommand DEF MigrateDown, Moved, Refused
  <2>5. ASSUME NEW d, Writes(d) PROVE UpRefused' BY <2>5, OtherCommand DEF Writes
  <2>6. CASE NewChat \/ \E u \in Users : NewAccount(u) \/ \E s \in Sessions : SignIn(u, s)
    BY <2>5, <2>6 DEF NewChat, NewAccount, SignIn
  <2> QED BY <1>2, <2>1, <2>2, <2>3, <2>4, <2>6 DEF Next
<1> QED BY <1>1, <1>2, PTL DEF Spec

(* The two commands of the Makefile, and the program. *)
MakeStep ==
  \/ MigrateUp \/ MigrateDown \/ NewChat
  \/ \E u \in Users : NewAccount(u) \/ \E s \in Sessions : SignIn(u, s)

(* Who migrates with the two commands of the Makefile only, from nothing or *)
(* from a database of an earlier version, never gets the program to run:    *)
(* 236ccb85b029, whose columns every query of users selects, is never       *)
(* applied.                                                                 *)
THEOREM MakeAloneNeverServes == Init /\ [][MakeStep]_vars => []~Running
<1>1. Init => ~Running BY Names DEF Init, Running
<1>2. ASSUME ~Running, [MakeStep]_vars PROVE ~Running'
  <2>1. CASE MigrateUp BY <1>2, <2>1, TwoHeads DEF MigrateUp, Refused, Running
  <2>2. CASE MigrateDown BY <1>2, <2>2 DEF MigrateDown, Moved, Refused, Running
  <2>3. CASE UNCHANGED vars BY <1>2, <2>3 DEF vars, Running
  <2>4. CASE NewChat \/ \E u \in Users : NewAccount(u) \/ \E s \in Sessions : SignIn(u, s)
    BY <1>2, <2>4 DEF NewChat, NewAccount, SignIn
  <2> QED BY <1>2, <2>1, <2>2, <2>3, <2>4 DEF MakeStep
<1> QED BY <1>1, <1>2, PTL

=============================================================================
