--------------------------- MODULE AccountsProofs ---------------------------
(***************************************************************************)
(* What Accounts keeps true for every number of accounts, addresses and    *)
(* threads and every bound: types, who owns an address, which link is      *)
(* live, whose address is proven, that an administrator remains, whose     *)
(* sessions are revoked, and how far the limits on what an account may ask *)
(* for can be passed.                                                      *)
(***************************************************************************)
EXTENDS Accounts, TLAPS, FiniteSetTheorems

(***************************************************************************)
(* The invariant: types, and what a handler holds.                         *)
(***************************************************************************)
\* What a handler holds between two of its queries.
Promised == [step : {"taken"}, user : User, email : Address, next : {"issue"}]
            \cup [step : {"issue"}, user : User, email : Address]
Simple == [step : {"in flight", "insert", "count", "promote", "demote", "sweep", "revoke"},
           user : User]
Mailing == [step : {"issue", "vouch", "vouched"}, user : User, email : Address]
Changing == [step : {"taken", "address"}, user : User, email : Address, next : {"issue", "vouch"}]
Opening == [step : {"link", "confirm"}, user : User, email : Address, n : 1..MaxLinks]
SigningIn == [step : {"session"}, user : User, password : Nat, next : {Idle} \cup Promised]
Queueing == [step : {"queue"}, user : User, left : Nat \ {0}]
Hitting == [step : {"hit"}, limiter : Limiters, user : User, next : {Idle} \cup Promised]
Handler == {Idle} \cup Simple \cup Mailing \cup Changing \cup Opening \cup SigningIn \cup Queueing
           \cup Hitting

\* Whoever a handler is about is registered, and its password only grows.
HeldOK(h, rows) ==
    /\ h \in Handler
    /\ h # Idle => rows[h.user].role # "none"
    /\ h.step \in {"hit", "session"} /\ h.next # Idle => h.next.user = h.user
    /\ h.step = "session" => h.password <= rows[h.user].password

HandlersOK == at \in [Thread -> Handler] /\ \A t \in Thread : HeldOK(at[t], users)

\* Links are numbered as they are issued, to accounts that are registered.
Numbered ==
    /\ \A l \in issued : users[l.user].role # "none"
    /\ IsFiniteSet(issued) /\ Cardinality(issued) <= MaxLinks
    /\ \A l \in issued : l.n <= Cardinality(issued)

HistoryTypeOK == crossed \in [addresses : SUBSET User, passwords : SUBSET User, demotions : BOOLEAN]

\* The counters, and an account that is not registered has none of its own.
Count == [pending : Nat, judging : Nat]
LimitsOK ==
    /\ hits \in [Limiters -> [User -> Nat]]
    /\ flight \in [Origins -> [User -> Count]] /\ graded \in [User -> Nat]
    /\ \A u \in User : users[u].role = "none" => InFlight(u) = 0 /\ graded[u] = 0

TypeInv == TypeOK /\ HandlersOK /\ HistoryTypeOK /\ Numbered

USE DEF db, limits, history, vars

LEMMA InitTypeInv == Init => TypeInv
<1> SUFFICES ASSUME Init PROVE TypeInv
  OBVIOUS
<1>1. PICK n \in [Waiting -> 1..Cardinality(Waiting)] :
         /\ \A u, v \in Waiting : n[u] = n[v] => u = v
         /\ links = {[n |-> n[u], user |-> u, email |-> FirstUsers[u].email, used |-> FALSE] :
                        u \in Waiting}
  BY DEF Init
<1> DEFINE L(u) == [n |-> n[u], user |-> u, email |-> FirstUsers[u].email, used |-> FALSE]
<1>2. IsFiniteSet(Waiting) /\ Cardinality(Waiting) \in Nat
  BY BoundAssumption, FS_Subset, FS_CardinalityType DEF Waiting
<1>3. IsFiniteSet(links) /\ Cardinality(links) = Cardinality(Waiting)
  <2> DEFINE f == [u \in Waiting |-> L(u)]
  <2>1. f \in Bijection(Waiting, links)
    BY <1>1 DEF Bijection, Injection, Surjection, IsInjective
  <2>2. QED
    BY <1>2, <2>1, FS_Bijection DEF ExistsBijection
<1>4. \A u \in Waiting : L(u) \in Link
  <2> TAKE u \in Waiting
  <2>1. n[u] \in 1..MaxLinks
    BY <1>2, BoundAssumption
  <2>2. u \in User /\ FirstUsers[u].email \in Address
    BY FirstUsersAssumption DEF Waiting, Rows
  <2>3. QED
    BY <2>1, <2>2 DEF Link
<1>5. TypeOK
  <2>1. links \subseteq Link /\ issued \subseteq Link
    <3>1. issued = links
      BY DEF Init
    <3>2. \A l \in links : \E u \in Waiting : l = L(u)
      BY <1>1
    <3> HIDE DEF L
    <3>3. QED
      BY <1>4, <3>1, <3>2
  <2>2. \A s \in sessions : /\ s.user \in User /\ s.password \in 0..users[s.user].password
                            /\ users[s.user].role # "none"
    <3>1. /\ sessions = {[user |-> u, password |-> FirstUsers[u].password] :
                         u \in {v \in User : FirstUsers[v].role # "none"}}
          /\ users = FirstUsers
      BY DEF Init
    <3>2. \A u \in User : FirstUsers[u].password \in Nat
      BY FirstUsersAssumption DEF Rows
    <3>3. QED
      BY <3>1, <3>2
  <2>3. \A l \in links : users[l.user].role # "none"
    BY <1>1 DEF Init, Waiting
  <2>4. \A u \in User : InFlight(u) = 0 /\ graded[u] = 0
    BY DEF Init, InFlight, Submitted, Origins
  <2>5. /\ hits \in [Limiters -> [User -> Nat]] /\ graded \in [User -> Nat]
        /\ flight \in [Origins -> [User -> [pending : Nat, judging : Nat]]]
    BY DEF Init
  <2>6. users \in [User -> Rows] /\ requests = 0 /\ \A t \in Thread : at[t].step = "idle"
    BY FirstUsersAssumption DEF Init, Idle
  <2>7. \A u \in User : users[u].role = "none" =>
           ~SignedIn(u) /\ InFlight(u) = 0 /\ graded[u] = 0 /\ \A l \in links : l.user # u
    BY <2>2, <2>3, <2>4 DEF SignedIn
  <2>8. (\A t \in Thread : at[t].step \in Steps) /\ requests \in 0..MaxRequests
    <3>1. MaxRequests \in Nat
      BY BoundAssumption
    <3>2. requests \in 0..MaxRequests
      BY <2>6, <3>1
    <3>3. \A t \in Thread : at[t].step \in Steps
      BY <2>6 DEF Steps
    <3>4. QED
      BY <3>2, <3>3
  <2>9. QED
    BY <2>1, <2>2, <2>5, <2>6, <2>7, <2>8 DEF TypeOK
<1>6. HandlersOK
  BY DEF Init, HandlersOK, HeldOK, Handler, Idle
<1>7. Numbered
  <2>1. /\ issued = links /\ users = FirstUsers
        /\ \A l \in links : l.n \in 1..Cardinality(Waiting) /\ FirstUsers[l.user].role # "none"
    BY <1>1, <1>2 DEF Init, Waiting
  <2>2. QED
    BY <1>2, <1>3, <2>1, BoundAssumption DEF Numbered
<1>8. QED
  BY <1>5, <1>6, <1>7 DEF TypeInv, HistoryTypeOK, Init

(***************************************************************************)
(* What a handler holds, by its step.                                      *)
(***************************************************************************)
LEMMA ShapeByStep ==
    ASSUME NEW h \in Handler
    PROVE  \/ h = Idle /\ h.step = "idle"
           \/ h \in Simple /\ h.step \in {"in flight", "insert", "count", "promote", "demote",
                                          "sweep", "revoke"}
           \/ h \in Mailing /\ h.step \in {"issue", "vouch", "vouched"}
           \/ h \in Changing /\ h.step \in {"taken", "address"}
           \/ h \in Opening /\ h.step \in {"link", "confirm"}
           \/ h \in SigningIn /\ h.step = "session"
           \/ h \in Queueing /\ h.step = "queue"
           \/ h \in Hitting /\ h.step = "hit"
<1>1. h \in Simple => h.step \in {"in flight", "insert", "count", "promote", "demote", "sweep", "revoke"}
  BY DEF Simple
<1>2. h \in Mailing => h.step \in {"issue", "vouch", "vouched"}
  BY DEF Mailing
<1>3. h \in Changing => h.step \in {"taken", "address"}
  BY DEF Changing
<1>4. h \in Opening => h.step \in {"link", "confirm"}
  BY DEF Opening
<1>5. h \in SigningIn => h.step = "session"
  BY DEF SigningIn
<1>6. h \in Hitting => h.step = "hit"
  BY DEF Hitting
<1>7. h \in Queueing => h.step = "queue"
  BY DEF Queueing
<1>8. Idle.step = "idle"
  BY DEF Idle
<1>9. QED
  BY <1>1, <1>2, <1>3, <1>4, <1>5, <1>6, <1>7, <1>8 DEF Handler

LEMMA Shapes ==
    ASSUME NEW h \in Handler
    PROVE  /\ h.step \in Steps
           /\ (h.step = "idle" <=> h = Idle)
           /\ h # Idle => h.user \in User
<1>0. Idle.step = "idle"
  BY DEF Idle
<1>1. h.step \in Steps /\ (h.step = "idle" <=> h = Idle)
  <2>1. h.step \in Steps
    BY ShapeByStep DEF Steps
  <2>2. h.step = "idle" => h = Idle
    BY ShapeByStep
  <2>3. QED
    BY <1>0, <2>1, <2>2
<1>2. /\ h \in Simple => h.user \in User
      /\ h \in Mailing => h.user \in User
      /\ h \in Changing => h.user \in User
      /\ h \in Opening => h.user \in User
      /\ h \in SigningIn => h.user \in User
      /\ h \in Queueing => h.user \in User
      /\ h \in Hitting => h.user \in User
  BY DEF Simple, Mailing, Changing, Opening, SigningIn, Queueing, Hitting
<1>3. QED
  BY <1>1, <1>2, ShapeByStep

LEMMA SimpleStep == ASSUME NEW h \in Simple PROVE h # Idle /\ h.step \notin {"hit", "session"}
<1>1. h.step \in {"in flight", "insert", "count", "promote", "demote", "sweep", "revoke"}
  BY DEF Simple
<1>2. Idle.step = "idle"
  BY DEF Idle
<1>3. QED
  BY <1>1, <1>2

LEMMA HitShape == ASSUME NEW h \in Handler, h.step = "hit" PROVE h \in Hitting
BY ShapeByStep

LEMMA SessionShape == ASSUME NEW h \in Handler, h.step = "session" PROVE h \in SigningIn
BY ShapeByStep

LEMMA QueueShape == ASSUME NEW h \in Handler, h.step = "queue" PROVE h \in Queueing
BY ShapeByStep

LEMMA ChangeShape ==
    ASSUME NEW h \in Handler, h.step \in {"taken", "address"} PROVE h \in Changing
BY ShapeByStep

LEMMA OpenShape ==
    ASSUME NEW h \in Handler, h.step \in {"link", "confirm"} PROVE h \in Opening
BY ShapeByStep

LEMMA MailShape ==
    ASSUME NEW h \in Handler, h.step \in {"issue", "vouch", "vouched"} PROVE h \in Mailing
BY ShapeByStep

LEMMA SimpleShape ==
    ASSUME NEW h \in Handler,
           h.step \in {"in flight", "insert", "count", "promote", "demote", "sweep", "revoke"}
    PROVE  h \in Simple
BY ShapeByStep

\* Accounts are not unregistered, and passwords only grow.
Grows == /\ users' \in [User -> Rows]
         /\ \A u \in User : users[u].role # "none" =>
                users'[u].role # "none" /\ users[u].password <= users'[u].password

LEMMA Lifts == ASSUME TypeInv, Grows, NEW h, HeldOK(h, users) PROVE HeldOK(h, users')
<1>1. h \in Handler /\ (h # Idle => h.user \in User)
  BY Shapes DEF HeldOK
<1>2. h # Idle => users'[h.user].role # "none"
  BY <1>1 DEF HeldOK, Grows
<1>3. ASSUME h.step = "session" PROVE h.password <= users'[h.user].password
  <2> DEFINE u == h.user
  <2>1. h # Idle /\ h.password \in Nat
    BY <1>1, <1>3, SessionShape DEF Idle, SigningIn
  <2>2. u \in User /\ users[u].password \in Nat /\ users'[u].password \in Nat
    BY <1>1, <2>1 DEF TypeInv, TypeOK, Rows, Grows
  <2>3. h.password <= users[u].password /\ users[u].password <= users'[u].password
    BY <1>3, <2>1, <2>2 DEF HeldOK, Grows
  <2>4. QED
    BY <2>1, <2>2, <2>3
<1>4. QED
  BY <1>1, <1>2, <1>3 DEF HeldOK

\* The other handlers hold what they held.
LEMMA GoesOn ==
    ASSUME TypeInv, Grows, NEW t \in Thread, NEW h, HeldOK(h, users'), Goes(t, h)
    PROVE  HandlersOK'
<1>1. at' \in [Thread -> Handler]
  BY DEF TypeInv, HandlersOK, HeldOK, Goes
<1>2. \A s \in Thread : HeldOK(at[s], users')
  BY Lifts DEF TypeInv, HandlersOK
<1>3. \A s \in Thread : HeldOK(at'[s], users')
  BY <1>2 DEF TypeInv, HandlersOK, Goes
<1>4. QED
  BY <1>1, <1>3 DEF HandlersOK

LEMMA IdleHeldNext == HeldOK(Idle, users')
BY DEF HeldOK, Handler, Idle

\* A row that does not change grows.
LEMMA SameRow ==
    ASSUME TypeInv, NEW u \in User PROVE users[u].password <= users[u].password
BY DEF TypeInv, TypeOK, Rows

\* The other threads hold what they held.
LEMMA Others ==
    ASSUME TypeInv, NEW t \in Thread, NEW h, Goes(t, h)
    PROVE  at'[t] = h /\ \A s \in Thread \ {t} : at'[s] = at[s]
BY DEF TypeInv, HandlersOK, Goes

LEMMA StillHeld == ASSUME TypeInv, Grows, UNCHANGED at PROVE HandlersOK'
BY Lifts DEF TypeInv, HandlersOK

LEMMA SameUsers == ASSUME TypeInv, UNCHANGED users PROVE Grows
BY DEF TypeInv, TypeOK, Rows, Grows

\* An action keeps the invariant when its handler goes on to something it may hold, rows stay
\* rows, and what is new in the tables belongs to who is registered.
LEMMA Preserved ==
    ASSUME TypeInv, Grows, HandlersOK', HistoryTypeOK', Numbered',
           links' \subseteq Link, \A l \in links' : users'[l.user].role # "none",
           issued' \subseteq Link,
           \A s \in sessions' : /\ s.user \in User /\ s.password \in 0..users'[s.user].password
                                /\ users'[s.user].role # "none",
           LimitsOK', requests' \in 0..MaxRequests
    PROVE  TypeInv'
<1>1. \A s \in Thread : at'[s].step \in Steps
  BY Shapes DEF HandlersOK, HeldOK
<1>2. \A u \in User : users'[u].role = "none" =>
          ~SignedIn(u)' /\ InFlight(u)' = 0 /\ graded'[u] = 0 /\ \A l \in links' : l.user # u
  BY DEF SignedIn, LimitsOK
<1>3. TypeOK'
  BY <1>1, <1>2 DEF TypeOK, Grows, LimitsOK, Count
<1>4. QED
  BY <1>3 DEF TypeInv

LEMMA LimitsTyped == ASSUME TypeInv PROVE LimitsOK
BY DEF TypeInv, TypeOK, LimitsOK, Count

LEMMA SameLimits == ASSUME TypeInv, Grows, UNCHANGED limits PROVE LimitsOK'
<1>1. \A u \in User : InFlight(u)' = InFlight(u)
  BY DEF InFlight, Submitted
<1>2. LimitsOK
  BY LimitsTyped
<1>3. QED
  BY <1>1, <1>2 DEF LimitsOK, Grows

LEMMA LinksOwned == ASSUME TypeInv PROVE \A l \in links : users[l.user].role # "none"
<1>1. \A l \in links : l.user \in User
  BY DEF TypeInv, TypeOK, Link
<1>2. QED
  BY <1>1 DEF TypeInv, TypeOK

LEMMA SignedInRegistered ==
    ASSUME TypeInv, NEW u \in User, SignedIn(u) PROVE users[u].role # "none"
BY DEF TypeInv, TypeOK

\* A step that writes no limits and issues no link.
LEMMA Writes ==
    ASSUME TypeInv, Grows, HandlersOK', HistoryTypeOK', UNCHANGED <<issued, limits>>,
           links' \subseteq Link, \A l \in links' : users'[l.user].role # "none",
           \A s \in sessions' : /\ s.user \in User /\ s.password \in 0..users'[s.user].password
                                /\ users'[s.user].role # "none",
           requests' \in 0..MaxRequests
    PROVE  TypeInv'
<1>1. \A l \in issued : users'[l.user].role # "none"
  <2>1. \A l \in issued : l.user \in User
    BY DEF TypeInv, TypeOK, Link
  <2>2. QED
    BY <2>1 DEF TypeInv, Numbered, Grows
<1>2. Numbered'
  BY <1>1 DEF TypeInv, Numbered
<1>3. LimitsOK'
  BY SameLimits
<1>4. issued' \subseteq Link
  BY DEF TypeInv, TypeOK
<1>5. QED
  BY <1>2, <1>3, <1>4, Preserved

LEMMA SessionsOwned ==
    ASSUME TypeInv, Grows
    PROVE  \A s \in sessions : /\ s.user \in User /\ s.password \in 0..users'[s.user].password
                               /\ users'[s.user].role # "none"
<1> SUFFICES ASSUME NEW s \in sessions
             PROVE  /\ s.user \in User /\ s.password \in 0..users'[s.user].password
                    /\ users'[s.user].role # "none"
  OBVIOUS
<1>1. /\ s.user \in User /\ s.password \in 0..users[s.user].password
      /\ users[s.user].role # "none"
  BY DEF TypeInv, TypeOK, SignedIn
<1>2. users[s.user].password \in Nat /\ users'[s.user].password \in Nat
  BY <1>1 DEF TypeInv, TypeOK, Rows, Grows
<1>3. QED
  BY <1>1, <1>2 DEF Grows

LEMMA LinksStillOwned ==
    ASSUME TypeInv, Grows
    PROVE  links \subseteq Link /\ \A l \in links : users'[l.user].role # "none"
<1>1. links \subseteq Link /\ \A l \in links : l.user \in User
  BY DEF TypeInv, TypeOK, Link
<1>2. QED
  BY <1>1, LinksOwned DEF Grows

\* A handler that only reads.
LEMMA Quiet ==
    ASSUME TypeInv, NEW t \in Thread, NEW h, HeldOK(h, users), Goes(t, h),
           UNCHANGED <<db, limits>>, requests' \in 0..MaxRequests, HistoryTypeOK'
    PROVE  TypeInv'
<1>1. Grows /\ HeldOK(h, users')
  BY SameUsers
<1>2. HandlersOK'
  BY <1>1, GoesOn
<1>3. QED
  BY <1>1, <1>2, SessionsOwned, LinksStillOwned, Writes

LEMMA TakesRequest ==
    ASSUME TypeInv, NEW t, NEW h, Takes(t, h)
    PROVE  requests' \in 0..MaxRequests /\ Goes(t, h) /\ at[t] = Idle
BY BoundAssumption DEF TypeInv, TypeOK, Takes, Free

(***************************************************************************)
(* Every action keeps the invariant: the handlers that only read.          *)
(***************************************************************************)
LEMMA SubmitTypeInv ==
    ASSUME TypeInv, NEW t \in Thread, NEW u \in User, Submit(t, u) PROVE TypeInv'
<1>1. Takes(t, [step |-> "in flight", user |-> u]) /\ UNCHANGED <<db, limits, history>>
  BY DEF Submit
<1>2. HeldOK([step |-> "in flight", user |-> u], users)
  BY SignedInRegistered DEF Submit, RequireUser, HeldOK, Handler, Simple
<1>3. QED
  BY <1>1, <1>2, TakesRequest, Quiet DEF TypeInv, HistoryTypeOK

LEMMA ResendTypeInv ==
    ASSUME TypeInv, NEW t \in Thread, NEW u \in User, Resend(t, u) PROVE TypeInv'
<1> DEFINE n == [step |-> "issue", user |-> u, email |-> users[u].email]
           h == [step |-> "hit", limiter |-> "verify", user |-> u, next |-> n]
<1>1. Takes(t, h) /\ UNCHANGED <<db, limits, history>>
  BY DEF Resend
<1>2. users[u].email \in Address
  BY DEF Resend, TypeInv, TypeOK, Rows
<1>3. n \in Promised
  BY <1>2 DEF Promised
<1>4. h \in Hitting
  BY <1>3 DEF Hitting, Limiters
<1>5. HeldOK(h, users)
  BY <1>4, SignedInRegistered DEF Resend, HeldOK, Handler
<1>6. QED
  BY <1>1, <1>5, TakesRequest, Quiet DEF TypeInv, HistoryTypeOK

LEMMA SetEmailTypeInv ==
    ASSUME TypeInv, NEW t \in Thread, NEW u \in User, NEW a \in Address, SetEmail(t, u, a)
    PROVE  TypeInv'
<1> DEFINE n == [step |-> "taken", user |-> u, email |-> a, next |-> "issue"]
           h == [step |-> "hit", limiter |-> "verify", user |-> u, next |-> n]
<1>1. Takes(t, h) /\ UNCHANGED <<db, limits, history>>
  BY DEF SetEmail
<1>2. n \in Promised
  BY DEF Promised
<1>3. h \in Hitting
  BY <1>2 DEF Hitting, Limiters
<1>4. HeldOK(h, users)
  BY <1>3, SignedInRegistered DEF SetEmail, HeldOK, Handler
<1>5. QED
  BY <1>1, <1>4, TakesRequest, Quiet DEF TypeInv, HistoryTypeOK

LEMMA VouchTypeInv ==
    ASSUME TypeInv, NEW t \in Thread, NEW u \in User, NEW a \in Address \cup {NoAddress},
           Vouch(t, u, a)
    PROVE  TypeInv'
<1>1. PICK h \in Mailing \cup Changing : /\ Takes(t, h) /\ h.user = u
                                         /\ h.step \in {"vouch", "taken"}
  <2>1. CASE a = NoAddress
    <3>1. users[u].email \in Address
      BY <2>1 DEF Vouch, TypeInv, TypeOK, Rows
    <3>2. [step |-> "vouch", user |-> u, email |-> users[u].email] \in Mailing
      BY <3>1 DEF Mailing
    <3>3. QED
      BY <2>1, <3>2 DEF Vouch
  <2>2. CASE a # NoAddress
    <3>1. [step |-> "taken", user |-> u, email |-> a, next |-> "vouch"] \in Changing
      BY <2>2 DEF Changing
    <3>2. QED
      BY <2>2, <3>1 DEF Vouch
  <2>3. QED
    BY <2>1, <2>2
<1>2. HeldOK(h, users)
  BY <1>1 DEF Vouch, HeldOK, Handler
<1>3. UNCHANGED <<db, limits, history>>
  BY DEF Vouch
<1>4. QED
  BY <1>1, <1>2, <1>3, TakesRequest, Quiet DEF TypeInv, HistoryTypeOK

LEMMA VerifyTypeInv ==
    ASSUME TypeInv, NEW t \in Thread, NEW link \in issued, Verify(t, link) PROVE TypeInv'
<1> DEFINE h == [step |-> "link", user |-> link.user, email |-> link.email, n |-> link.n]
<1>1. Takes(t, h) /\ UNCHANGED <<db, limits, history>>
  BY DEF Verify
<1>2. link \in Link /\ users[link.user].role # "none"
  BY DEF TypeInv, TypeOK, Numbered
<1>3. h \in Opening
  BY <1>2 DEF Opening, Link
<1>4. HeldOK(h, users)
  BY <1>2, <1>3 DEF HeldOK, Handler
<1>5. QED
  BY <1>1, <1>4, TakesRequest, Quiet DEF TypeInv, HistoryTypeOK

LEMMA SetRoleTypeInv ==
    ASSUME TypeInv, NEW t \in Thread, NEW by \in User, NEW u \in User,
           NEW role \in {"user", "admin"}, SetRole(t, by, u, role)
    PROVE  TypeInv'
<1> DEFINE h == [step |-> IF role = "admin" THEN "promote"
                          ELSE IF users[u].role = "admin" THEN "count" ELSE "demote", user |-> u]
<1>1. Takes(t, h) /\ h \in Simple
  BY DEF SetRole, Simple
<1>2. HeldOK(h, users)
  BY <1>1, SimpleStep DEF HeldOK, Handler, SetRole
<1>3. UNCHANGED <<db, limits>> /\ HistoryTypeOK'
  BY DEF SetRole, TypeInv, HistoryTypeOK
<1>4. QED
  BY <1>1, <1>2, <1>3, TakesRequest, Quiet

LEMMA LoginTypeInv ==
    ASSUME TypeInv, NEW t \in Thread, NEW u \in User, Login(t, u) PROVE TypeInv'
<1> DEFINE h == [step |-> "session", user |-> u, password |-> users[u].password, next |-> Idle]
<1>1. Takes(t, h) /\ UNCHANGED <<db, limits, history>>
  BY DEF Login
<1>2. users[u].password \in Nat
  BY DEF TypeInv, TypeOK, Rows
<1>3. HeldOK(h, users)
  BY <1>2 DEF HeldOK, Handler, SigningIn, Login
<1>4. QED
  BY <1>1, <1>3, TakesRequest, Quiet DEF TypeInv, HistoryTypeOK

\* What a step may assume of the handler that takes it.
LEMMA Holding ==
    ASSUME TypeInv, NEW t \in Thread, at[t].step # "idle"
    PROVE  /\ at[t] \in Handler /\ at[t] # Idle
           /\ at[t].user \in User /\ users[at[t].user].role # "none"
<1>1. at[t] \in Handler /\ HeldOK(at[t], users)
  BY DEF TypeInv, HandlersOK
<1>2. QED
  BY <1>1, Shapes DEF HeldOK

LEMMA IdleHeld == HeldOK(Idle, users)
BY DEF HeldOK, Handler, Idle

LEMMA CountInFlightTypeInv ==
    ASSUME TypeInv, NEW t \in Thread, CountInFlight(t) PROVE TypeInv'
<1> DEFINE h == [step |-> "insert", user |-> at[t].user]
<1>1. h \in Simple /\ users[at[t].user].role # "none"
  BY Holding DEF CountInFlight, At, Simple
<1>2. HeldOK(h, users)
  BY <1>1, SimpleStep DEF HeldOK, Handler
<1>3. Goes(t, Idle) \/ Goes(t, h)
  BY DEF CountInFlight
<1>4. UNCHANGED <<db, limits, requests, history>>
  BY DEF CountInFlight
<1>5. QED
  BY <1>2, <1>3, <1>4, IdleHeld, Quiet DEF TypeInv, TypeOK, HistoryTypeOK

LEMMA AskTakenTypeInv ==
    ASSUME TypeInv, NEW t \in Thread, AskTaken(t) PROVE TypeInv'
<1> DEFINE h == [at[t] EXCEPT !.step = "address"]
<1>1. at[t] \in Changing /\ users[at[t].user].role # "none"
  BY Holding, ChangeShape DEF AskTaken, At
<1>2. h \in Changing /\ h.user = at[t].user /\ h.step = "address"
  BY <1>1 DEF Changing
<1>3. HeldOK(h, users)
  BY <1>1, <1>2 DEF HeldOK, Handler
<1>4. Goes(t, Idle) \/ Goes(t, h)
  BY DEF AskTaken
<1>5. UNCHANGED <<db, limits, requests, history>>
  BY DEF AskTaken
<1>6. QED
  BY <1>3, <1>4, <1>5, IdleHeld, Quiet DEF TypeInv, TypeOK, HistoryTypeOK

LEMMA CheckLinkTypeInv ==
    ASSUME TypeInv, NEW t \in Thread, CheckLink(t) PROVE TypeInv'
<1> DEFINE h == [at[t] EXCEPT !.step = "confirm"]
<1>1. at[t] \in Opening /\ users[at[t].user].role # "none"
  BY Holding, OpenShape DEF CheckLink, At
<1>2. h \in Opening /\ h.user = at[t].user /\ h.step = "confirm"
  BY <1>1 DEF Opening
<1>3. HeldOK(h, users)
  BY <1>1, <1>2 DEF HeldOK, Handler
<1>4. Goes(t, Idle) \/ Goes(t, h)
  BY DEF CheckLink
<1>5. UNCHANGED <<db, limits, requests, history>>
  BY DEF CheckLink
<1>6. QED
  BY <1>3, <1>4, <1>5, IdleHeld, Quiet DEF TypeInv, TypeOK, HistoryTypeOK

LEMMA VouchTakenTypeInv ==
    ASSUME TypeInv, NEW t \in Thread, VouchTaken(t) PROVE TypeInv'
<1> DEFINE h == [at[t] EXCEPT !.step = "vouched"]
<1>1. at[t] \in Mailing /\ users[at[t].user].role # "none"
  BY Holding, MailShape DEF VouchTaken, At
<1>2. h \in Mailing /\ h.user = at[t].user /\ h.step = "vouched"
  BY <1>1 DEF Mailing
<1>3. HeldOK(h, users)
  BY <1>1, <1>2 DEF HeldOK, Handler
<1>4. Goes(t, Idle) \/ Goes(t, h)
  BY DEF VouchTaken
<1>5. UNCHANGED <<db, limits, requests, history>>
  BY DEF VouchTaken
<1>6. QED
  BY <1>3, <1>4, <1>5, IdleHeld, Quiet DEF TypeInv, TypeOK, HistoryTypeOK

LEMMA CountAdminsTypeInv ==
    ASSUME TypeInv, NEW t \in Thread, CountAdmins(t) PROVE TypeInv'
<1> DEFINE h == [at[t] EXCEPT !.step = "demote"]
<1>1. at[t] \in Simple /\ users[at[t].user].role # "none"
  BY Holding, SimpleShape DEF CountAdmins, At
<1>2. h \in Simple /\ h.user = at[t].user
  BY <1>1 DEF Simple
<1>3. HeldOK(h, users)
  BY <1>1, <1>2, SimpleStep DEF HeldOK, Handler
<1>4. Goes(t, Idle) \/ Goes(t, h)
  BY DEF CountAdmins
<1>5. UNCHANGED <<db, limits, requests, history>>
  BY DEF CountAdmins
<1>6. QED
  BY <1>3, <1>4, <1>5, IdleHeld, Quiet DEF TypeInv, TypeOK, HistoryTypeOK

(***************************************************************************)
(* Every action keeps the invariant: limits.                               *)
(***************************************************************************)
\* The tables stay as they are.
LEMMA Counters ==
    ASSUME TypeInv, HandlersOK', UNCHANGED <<db, history>>, LimitsOK', requests' \in 0..MaxRequests
    PROVE  TypeInv'
<1>1. Numbered' /\ HistoryTypeOK' /\ Grows
  BY SameUsers DEF TypeInv, Numbered, HistoryTypeOK
<1>2. issued' \subseteq Link
  BY DEF TypeInv, TypeOK
<1>3. QED
  BY <1>1, <1>2, SessionsOwned, LinksStillOwned, Preserved

\* What comes after a hit, or a session, may be held.
LEMMA NextHeld ==
    ASSUME TypeInv, NEW t \in Thread, at[t].step \in {"hit", "session"}
    PROVE  HeldOK(at[t].next, users)
<1>1. at[t] \in Hitting \cup SigningIn /\ users[at[t].user].role # "none"
  BY Holding, HitShape, SessionShape
<1>2. CASE at[t].next = Idle
  BY <1>2, IdleHeld
<1>3. CASE at[t].next # Idle
  <2>1. at[t].next \in Promised
    BY <1>1, <1>3 DEF Hitting, SigningIn
  <2>2. at[t].next.user = at[t].user
    BY <1>3 DEF TypeInv, HandlersOK, HeldOK
  <2>3. at[t].next \in Mailing \cup Changing /\ at[t].next.step \in {"taken", "issue"}
    BY <2>1 DEF Promised, Mailing, Changing
  <2>4. QED
    BY <1>1, <2>2, <2>3 DEF HeldOK, Handler
<1>4. QED
  BY <1>2, <1>3

LEMMA CountsTypeInv ==
    ASSUME TypeInv, NEW t \in Thread, Counts(t) PROVE TypeInv'
<1>1. at[t] \in Hitting /\ at[t].user \in User /\ users[at[t].user].role # "none"
  BY Holding, HitShape DEF Counts, At
<1>2. HeldOK(at[t].next, users)
  BY NextHeld DEF Counts, At
<1>3. hits' \in [Limiters -> [User -> Nat]]
  BY <1>1 DEF Counts, TypeInv, TypeOK, Hitting
<1>4. Goes(t, at[t].next) /\ UNCHANGED <<db, flight, graded, requests, history>>
  BY DEF Counts
<1>5. LimitsOK'
  <2>1. \A u \in User : InFlight(u)' = InFlight(u)
    BY <1>4 DEF InFlight, Submitted
  <2>2. QED
    BY <1>3, <1>4, <2>1, LimitsTyped DEF LimitsOK
<1>6. requests' \in 0..MaxRequests
  BY <1>4 DEF TypeInv, TypeOK
<1>7. QED
  BY <1>2, <1>4, <1>5, <1>6, GoesOn, SameUsers, Counters

\* What a step does to the submissions of one account.
Written(o, u, c) == flight' = [flight EXCEPT ![o][u] = c]

LEMMA FlightWritten ==
    ASSUME TypeInv, NEW o \in Origins, NEW u \in User, NEW c \in Count, Written(o, u, c)
    PROVE  /\ flight' \in [Origins -> [User -> Count]] /\ flight'[o][u] = c
           /\ \A p \in Origins, v \in User : <<p, v>> # <<o, u>> => flight'[p][v] = flight[p][v]
           /\ \A v \in User \ {u} : InFlight(v)' = InFlight(v) /\ Submitted(v)' = Submitted(v)
<1>1. flight \in [Origins -> [User -> Count]]
  BY LimitsTyped DEF LimitsOK
<1>2. /\ flight' \in [Origins -> [User -> Count]] /\ flight'[o][u] = c
      /\ \A p \in Origins, v \in User : <<p, v>> # <<o, u>> => flight'[p][v] = flight[p][v]
  BY <1>1 DEF Written
<1>3. \A v \in User \ {u} : /\ flight'["submit"][v] = flight["submit"][v]
                            /\ flight'["other"][v] = flight["other"][v]
  BY <1>2 DEF Origins
<1>4. QED
  BY <1>2, <1>3 DEF InFlight, Submitted

\* The account it writes for is registered.
LEMMA WrittenLimits ==
    ASSUME TypeInv, NEW o \in Origins, NEW u \in User, NEW c \in Count, Written(o, u, c),
           users[u].role # "none", UNCHANGED <<users, hits>>, graded' \in [User -> Nat],
           \A v \in User \ {u} : graded'[v] = graded[v]
    PROVE  LimitsOK'
<1>1. flight' \in [Origins -> [User -> Count]] /\ \A v \in User \ {u} : InFlight(v)' = InFlight(v)
  BY FlightWritten
<1>2. QED
  BY <1>1, LimitsTyped DEF LimitsOK

LEMMA Tallied ==
    ASSUME TypeInv, NEW o \in Origins, NEW u \in User
    PROVE  /\ flight[o][u] \in Count /\ flight[o][u].pending \in Nat /\ flight[o][u].judging \in Nat
           /\ graded[u] \in Nat /\ Submitted(u) \in Nat /\ InFlight(u) \in Nat
           /\ Submitted(u) <= InFlight(u)
           /\ flight[o][u].pending > 0 \/ flight[o][u].judging > 0 \/ graded[u] > 0 =>
                 users[u].role # "none"
<1>1. LimitsOK
  BY LimitsTyped
<1>2. /\ flight[o][u] \in Count /\ flight[o][u].pending \in Nat /\ flight[o][u].judging \in Nat
      /\ graded[u] \in Nat
  BY <1>1 DEF LimitsOK, Count
<1>3. /\ flight["submit"][u].pending \in Nat /\ flight["submit"][u].judging \in Nat
      /\ flight["other"][u].pending \in Nat /\ flight["other"][u].judging \in Nat
  BY <1>1 DEF LimitsOK, Count, Origins
<1>4. Submitted(u) \in Nat /\ InFlight(u) \in Nat /\ Submitted(u) <= InFlight(u)
  BY <1>3 DEF Submitted, InFlight
<1>5. flight[o][u].pending + flight[o][u].judging <= InFlight(u)
  BY <1>3 DEF Submitted, InFlight, Origins
<1>6. users[u].role = "none" => InFlight(u) = 0 /\ graded[u] = 0
  BY <1>1 DEF LimitsOK
<1>7. QED
  BY <1>2, <1>4, <1>5, <1>6

LEMMA InsertTypeInv ==
    ASSUME TypeInv, NEW t \in Thread, Insert(t) PROVE TypeInv'
<1> DEFINE h == [step |-> "hit", limiter |-> "submit", user |-> at[t].user, next |-> Idle]
           u == at[t].user
           c == [flight["submit"][u] EXCEPT !.pending = @ + 1]
<1>1. u \in User /\ users[u].role # "none"
  BY Holding DEF Insert, At
<1>2. h \in Hitting
  BY <1>1 DEF Hitting, Limiters
<1>3. HeldOK(h, users)
  BY <1>1, <1>2 DEF HeldOK, Handler
<1>4. "submit" \in Origins
  BY DEF Origins
<1>5. c \in Count
  BY <1>1, <1>4, Tallied DEF Count
<1>6. Goes(t, h) /\ UNCHANGED <<db, hits, graded, requests, history>> /\ Written("submit", u, c)
  BY DEF Insert, Written
<1>7. graded' \in [User -> Nat] /\ requests' \in 0..MaxRequests
  BY <1>6 DEF TypeInv, TypeOK
<1> HIDE DEF c, u
<1>8. LimitsOK'
  BY <1>1, <1>4, <1>5, <1>6, <1>7, WrittenLimits
<1>9. QED
  BY <1>3, <1>6, <1>7, <1>8, GoesOn, SameUsers, Counters

LEMMA BulkSubmitTypeInv ==
    ASSUME TypeInv, NEW t \in Thread, NEW u \in User, NEW n \in 1..MaxBulkFiles, BulkSubmit(t, u, n)
    PROVE  TypeInv'
<1> DEFINE h == [step |-> "queue", user |-> u, left |-> n]
<1>1. Takes(t, h) /\ UNCHANGED <<db, limits, history>>
  BY DEF BulkSubmit
<1>2. n \in Nat \ {0}
  BY LimitAssumption
<1>3. HeldOK(h, users)
  BY <1>2, SignedInRegistered
     DEF BulkSubmit, RequireAdmin, RequireUser, HeldOK, Handler, Queueing
<1>4. QED
  BY <1>1, <1>3, TakesRequest, Quiet DEF TypeInv, HistoryTypeOK

LEMMA QueueSourceTypeInv ==
    ASSUME TypeInv, NEW t \in Thread, QueueSource(t) PROVE TypeInv'
<1> DEFINE h == IF at[t].left = 1 THEN Idle ELSE [at[t] EXCEPT !.left = @ - 1]
           u == at[t].user
           c == [flight["other"][u] EXCEPT !.pending = @ + 1]
<1>1. at[t] \in Queueing /\ u \in User /\ users[u].role # "none"
  BY Holding, QueueShape DEF QueueSource, At
<1>2. HeldOK(h, users)
  <2>1. CASE at[t].left = 1
    BY <2>1, IdleHeld
  <2>2. CASE at[t].left # 1
    <3>1. at[t].left - 1 \in Nat \ {0}
      BY <1>1, <2>2 DEF Queueing
    <3>2. h \in Queueing /\ h.user = u /\ h.step = "queue"
      BY <1>1, <2>2, <3>1 DEF Queueing
    <3>3. QED
      BY <1>1, <3>2 DEF HeldOK, Handler
  <2>3. QED
    BY <2>1, <2>2
<1>3. "other" \in Origins
  BY DEF Origins
<1>4. c \in Count
  BY <1>1, <1>3, Tallied DEF Count
<1>5. Goes(t, h) /\ UNCHANGED <<db, hits, graded, requests, history>> /\ Written("other", u, c)
  BY DEF QueueSource, Written
<1>6. graded' \in [User -> Nat] /\ requests' \in 0..MaxRequests
  BY <1>5 DEF TypeInv, TypeOK
<1> HIDE DEF c, u, h
<1>7. LimitsOK'
  BY <1>1, <1>3, <1>4, <1>5, <1>6, WrittenLimits
<1>8. QED
  BY <1>2, <1>5, <1>6, <1>7, GoesOn, SameUsers, Counters

LEMMA RejudgeTypeInv ==
    ASSUME TypeInv, NEW t \in Thread, NEW by \in User, NEW u \in User, Rejudge(t, by, u)
    PROVE  TypeInv'
<1>1. Takes(t, Idle) /\ UNCHANGED <<db, hits, history>>
  BY DEF Rejudge
<1>2. LimitsOK'
  <2>1. CASE /\ graded[u] > 0 /\ graded' = [graded EXCEPT ![u] = @ - 1]
             /\ flight' = [flight EXCEPT !["other"][u].pending = @ + 1]
    <3> DEFINE c == [flight["other"][u] EXCEPT !.pending = @ + 1]
    <3>1. "other" \in Origins
      BY DEF Origins
    <3>2. c \in Count /\ Written("other", u, c) /\ users[u].role # "none"
      BY <2>1, <3>1, Tallied DEF Count, Written
    <3>3. graded[u] \in Nat /\ graded \in [User -> Nat]
      BY DEF TypeInv, TypeOK
    <3>4. graded' \in [User -> Nat] /\ \A v \in User \ {u} : graded'[v] = graded[v]
      BY <2>1, <3>3
    <3> HIDE DEF c
    <3>5. QED
      BY <1>1, <3>1, <3>2, <3>4, WrittenLimits
  <2>2. ASSUME NEW o \in Origins, flight[o][u].judging > 0, UNCHANGED graded,
               flight' = [flight EXCEPT ![o][u] = [pending |-> @.pending + 1,
                                                   judging |-> @.judging - 1]]
        PROVE  LimitsOK'
    <3> DEFINE c == [pending |-> flight[o][u].pending + 1, judging |-> flight[o][u].judging - 1]
    <3>1. c \in Count /\ Written(o, u, c) /\ users[u].role # "none"
      BY <2>2, Tallied DEF Count, Written
    <3>2. graded' \in [User -> Nat] /\ \A v \in User \ {u} : graded'[v] = graded[v]
      BY <2>2 DEF TypeInv, TypeOK
    <3> HIDE DEF c
    <3>3. QED
      BY <1>1, <3>1, <3>2, WrittenLimits
  <2>3. QED
    BY <2>1, <2>2 DEF Rejudge
<1>3. HandlersOK' /\ requests' \in 0..MaxRequests
  BY <1>1, SameUsers, TakesRequest, IdleHeldNext, GoesOn
<1>4. QED
  BY <1>1, <1>2, <1>3, Counters

\* Everything an account has in flight, or graded, is PENDING then.
LEMMA AllSentBack ==
    ASSUME TypeInv, NEW t \in Thread, RejudgeAll(t)
    PROVE  /\ flight' \in [Origins -> [User -> Count]] /\ graded' \in [User -> Nat]
           /\ \A u \in User : Submitted(u)' = Submitted(u)
           /\ \A u \in User : InFlight(u)' = InFlight(u) + graded[u] /\ graded'[u] = 0
<1>1. /\ flight' = [o \in Origins |-> [u \in User |->
                     [pending |-> flight[o][u].pending + flight[o][u].judging
                                  + (IF o = "other" THEN graded[u] ELSE 0),
                      judging |-> 0]]]
      /\ graded' = [u \in User |-> 0]
  BY DEF RejudgeAll
<1>2. \A o \in Origins, u \in User :
         /\ flight[o][u].pending \in Nat /\ flight[o][u].judging \in Nat /\ graded[u] \in Nat
  BY Tallied
<1>3. flight' \in [Origins -> [User -> Count]]
  BY <1>1, <1>2 DEF Count
<1>4. ASSUME NEW u \in User
      PROVE  /\ Submitted(u)' = Submitted(u) /\ InFlight(u)' = InFlight(u) + graded[u]
             /\ graded'[u] = 0
  <2>1. /\ flight'["submit"][u].pending = flight["submit"][u].pending + flight["submit"][u].judging + 0
        /\ flight'["submit"][u].judging = 0
        /\ flight'["other"][u].pending
             = flight["other"][u].pending + flight["other"][u].judging + graded[u]
        /\ flight'["other"][u].judging = 0
    BY <1>1 DEF Origins
  <2>2. /\ flight["submit"][u].pending \in Nat /\ flight["submit"][u].judging \in Nat
        /\ flight["other"][u].pending \in Nat /\ flight["other"][u].judging \in Nat
        /\ graded[u] \in Nat
    BY <1>2 DEF Origins
  <2>3. QED
    BY <1>1, <2>1, <2>2 DEF Submitted, InFlight
<1>5. graded' \in [User -> Nat]
  BY <1>1
<1>6. QED
  BY <1>3, <1>4, <1>5

LEMMA RejudgeAllTypeInv ==
    ASSUME TypeInv, NEW t \in Thread, RejudgeAll(t) PROVE TypeInv'
<1>1. Takes(t, Idle) /\ UNCHANGED <<db, hits, history>>
  BY DEF RejudgeAll
<1>2. LimitsOK'
  BY <1>1, AllSentBack, LimitsTyped DEF LimitsOK
<1>3. HandlersOK' /\ requests' \in 0..MaxRequests
  BY <1>1, SameUsers, TakesRequest, IdleHeldNext, GoesOn
<1>4. QED
  BY <1>1, <1>2, <1>3, Counters

LEMMA SlidesTypeInv ==
    ASSUME TypeInv, NEW k \in Limiters, NEW u \in User, Slides(k, u) PROVE TypeInv'
<1>1. hits[k][u] \in Nat /\ hits[k][u] > 0
  BY DEF Slides, TypeInv, TypeOK
<1>2. hits[k][u] - 1 \in Nat
  BY <1>1
<1>3. hits' \in [Limiters -> [User -> Nat]]
  BY <1>2 DEF Slides, TypeInv, TypeOK
<1>4. UNCHANGED <<db, flight, graded, at, requests, history>>
  BY DEF Slides
<1>5. LimitsOK'
  <2>1. \A v \in User : InFlight(v)' = InFlight(v)
    BY <1>4 DEF InFlight, Submitted
  <2>2. QED
    BY <1>3, <1>4, <2>1, LimitsTyped DEF LimitsOK
<1>6. requests' \in 0..MaxRequests
  BY <1>4 DEF TypeInv, TypeOK
<1>7. QED
  BY <1>4, <1>5, <1>6, StillHeld, SameUsers, Counters

LEMMA ClaimedTypeInv ==
    ASSUME TypeInv, NEW o \in Origins, NEW u \in User, Claimed(o, u) PROVE TypeInv'
<1> DEFINE c == [pending |-> flight[o][u].pending - 1, judging |-> flight[o][u].judging + 1]
<1>1. c \in Count /\ Written(o, u, c) /\ users[u].role # "none"
  BY Tallied DEF Claimed, Count, Written
<1>2. UNCHANGED <<db, hits, graded, at, requests, history>>
  BY DEF Claimed
<1>3. graded' \in [User -> Nat] /\ requests' \in 0..MaxRequests
  BY <1>2 DEF TypeInv, TypeOK
<1> HIDE DEF c
<1>4. LimitsOK'
  BY <1>1, <1>2, <1>3, WrittenLimits
<1>5. QED
  BY <1>2, <1>3, <1>4, StillHeld, SameUsers, Counters

\* What a verdict leaves in flight of what the account had there.
LEMMA GradedCount ==
    ASSUME TypeInv, NEW o \in Origins, NEW u \in User, Graded(o, u)
    PROVE  /\ users[u].role # "none"
           /\ \E c \in Count : /\ Written(o, u, c)
                               /\ c.pending <= flight[o][u].pending
                               /\ c.judging <= flight[o][u].judging
<1>1. flight[o][u] \in Count /\ flight[o][u].pending \in Nat /\ flight[o][u].judging \in Nat
  BY Tallied
<1>2. CASE flight[o][u].pending > 0 /\ flight' = [flight EXCEPT ![o][u].pending = @ - 1]
  <2> DEFINE c == [flight[o][u] EXCEPT !.pending = @ - 1]
  <2>1. /\ c \in Count /\ Written(o, u, c) /\ c.pending <= flight[o][u].pending
        /\ c.judging <= flight[o][u].judging
    BY <1>1, <1>2 DEF Count, Written
  <2> HIDE DEF c
  <2>2. QED
    BY <1>2, <2>1, Tallied
<1>3. CASE flight[o][u].judging > 0 /\ flight' = [flight EXCEPT ![o][u].judging = @ - 1]
  <2> DEFINE c == [flight[o][u] EXCEPT !.judging = @ - 1]
  <2>1. /\ c \in Count /\ Written(o, u, c) /\ c.pending <= flight[o][u].pending
        /\ c.judging <= flight[o][u].judging
    BY <1>1, <1>3 DEF Count, Written
  <2> HIDE DEF c
  <2>2. QED
    BY <1>3, <2>1, Tallied
<1>4. QED
  BY <1>2, <1>3 DEF Graded

LEMMA GradedTypeInv ==
    ASSUME TypeInv, NEW o \in Origins, NEW u \in User, Graded(o, u) PROVE TypeInv'
<1>1. PICK c \in Count : Written(o, u, c)
  BY GradedCount
<1>2. UNCHANGED <<db, hits, at, requests, history>> /\ users[u].role # "none"
  BY GradedCount DEF Graded
<1>3. graded \in [User -> Nat] /\ graded' = [graded EXCEPT ![u] = @ + 1]
  BY DEF Graded, TypeInv, TypeOK
<1>4. /\ graded' \in [User -> Nat] /\ requests' \in 0..MaxRequests
      /\ \A v \in User \ {u} : graded'[v] = graded[v]
  BY <1>2, <1>3 DEF TypeInv, TypeOK
<1>5. LimitsOK'
  BY <1>1, <1>2, <1>4, WrittenLimits
<1>6. QED
  BY <1>2, <1>4, <1>5, StillHeld, SameUsers, Counters

(***************************************************************************)
(* Every action keeps the invariant: the writes.                           *)
(***************************************************************************)
LEMMA RegisterTypeInv ==
    ASSUME TypeInv, NEW t \in Thread, NEW u \in User, NEW a \in Address, Register(t, u, a)
    PROVE  TypeInv'
<1> DEFINE n == [step |-> "issue", user |-> u, email |-> a]
           h == [step |-> "session", user |-> u, password |-> 0, next |-> n]
           row == [role |-> "user", email |-> a, verified |-> FALSE, password |-> 0]
<1>1. /\ users[u].role = "none" /\ users' = [users EXCEPT ![u] = row]
      /\ Takes(t, h) /\ UNCHANGED <<links, issued, sessions, limits, history>>
  BY DEF Register
<1>2. row \in Rows
  BY DEF Rows, Roles
<1>3. users' \in [User -> Rows] /\ users'[u] = row /\ \A v \in User \ {u} : users'[v] = users[v]
  BY <1>1, <1>2 DEF TypeInv, TypeOK
<1>4. Grows
  BY <1>1, <1>3, SameRow DEF Grows
<1>5. HeldOK(h, users')
  <2>1. n \in Promised
    BY DEF Promised
  <2>2. h \in SigningIn
    BY <2>1 DEF SigningIn
  <2>3. QED
    BY <1>3, <2>2 DEF HeldOK, Handler
<1>6. HandlersOK' /\ requests' \in 0..MaxRequests
  BY <1>1, <1>4, <1>5, TakesRequest, GoesOn
<1>7. QED
  BY <1>1, <1>4, <1>6, SessionsOwned, LinksStillOwned, Writes DEF TypeInv, HistoryTypeOK

LEMMA AddUserTypeInv ==
    ASSUME TypeInv, NEW t \in Thread, NEW u \in User, NEW a \in Address \cup {NoAddress},
           NEW role \in {"user", "admin"}, AddUser(t, u, a, role)
    PROVE  TypeInv'
<1> DEFINE row == [role |-> role, email |-> a, verified |-> a # NoAddress, password |-> 0]
<1>1. /\ users[u].role = "none" /\ users' = [users EXCEPT ![u] = row]
      /\ Takes(t, Idle) /\ UNCHANGED <<links, issued, sessions, limits, crossed>>
  BY DEF AddUser
<1>2. row \in Rows
  BY DEF Rows, Roles
<1>3. users' \in [User -> Rows] /\ users'[u] = row /\ \A v \in User \ {u} : users'[v] = users[v]
  BY <1>1, <1>2 DEF TypeInv, TypeOK
<1>4. Grows
  BY <1>1, <1>3, SameRow DEF Grows
<1>5. HandlersOK' /\ requests' \in 0..MaxRequests
  BY <1>1, <1>4, IdleHeldNext, TakesRequest, GoesOn
<1>6. QED
  BY <1>1, <1>4, <1>5, SessionsOwned, LinksStillOwned, Writes DEF TypeInv, HistoryTypeOK

LEMMA WriteAddressTypeInv ==
    ASSUME TypeInv, NEW t \in Thread, WriteAddress(t) PROVE TypeInv'
<1> DEFINE u == at[t].user
           h == [step |-> at[t].next, user |-> u, email |-> at[t].email]
<1>1. at[t] \in Changing /\ u \in User /\ users[u].role # "none"
  BY Holding, ChangeShape DEF WriteAddress, At
<1>2. /\ users' = AddressSet(u, at[t].email) /\ links' = {l \in links : l.user # u}
      /\ Goes(t, h) /\ UNCHANGED <<issued, sessions, limits, requests, proven>>
  BY DEF WriteAddress
<1>3. at[t].email \in Address
  BY <1>1 DEF Changing
<1>4. Grows
  <2>1. users' \in [User -> Rows]
    <3> DEFINE moved == [users[u] EXCEPT !.email = at[t].email]
               row == [moved EXCEPT !.verified = FALSE]
    <3>1. users[u] \in Rows
      BY <1>1 DEF TypeInv, TypeOK
    <3>2. moved \in Rows
      BY <1>3, <3>1 DEF Rows
    <3>3. row \in Rows
      BY <3>2 DEF Rows
    <3>4. users' = [users EXCEPT ![u] = row]
      BY <1>1, <1>2 DEF TypeInv, TypeOK, AddressSet, Rows
    <3> HIDE DEF row
    <3>5. QED
      BY <1>1, <3>3, <3>4 DEF TypeInv, TypeOK
  <2>2. \A v \in User : users'[v].role = users[v].role /\ users'[v].password = users[v].password
    BY <1>1, <1>2 DEF TypeInv, TypeOK, AddressSet, Rows
  <2>3. QED
    BY <2>1, <2>2, SameRow DEF Grows
<1>5. h \in Mailing /\ h.step \in {"issue", "vouch"}
  BY <1>1, <1>3 DEF Changing, Mailing
<1>6. HeldOK(h, users')
  BY <1>1, <1>4, <1>5 DEF HeldOK, Handler, Grows
<1>7. HandlersOK' /\ requests' \in 0..MaxRequests
  BY <1>2, <1>4, <1>6, GoesOn DEF TypeInv, TypeOK
<1>8. HistoryTypeOK'
  BY <1>1 DEF WriteAddress, TypeInv, HistoryTypeOK
<1>9. links' \subseteq Link /\ \A l \in links' : users'[l.user].role # "none"
  BY <1>2, <1>4, LinksStillOwned
<1>10. QED
  BY <1>2, <1>4, <1>7, <1>8, <1>9, SessionsOwned, Writes

LEMMA IssueLinkTypeInv ==
    ASSUME TypeInv, NEW t \in Thread, IssueLink(t) PROVE TypeInv'
<1> DEFINE u == at[t].user
           link == [n |-> Cardinality(issued) + 1, user |-> u, email |-> at[t].email, used |-> FALSE]
<1>1. at[t] \in Mailing /\ u \in User /\ users[u].role # "none"
  BY Holding, MailShape DEF IssueLink, At
<1>2. /\ Cardinality(issued) < MaxLinks /\ links' = LinksWithNew(u, link)
      /\ issued' = issued \cup {link} /\ Goes(t, Idle)
      /\ UNCHANGED <<users, sessions, limits, requests, history>>
  BY DEF IssueLink
<1>3. IsFiniteSet(issued) /\ Cardinality(issued) \in Nat /\ \A l \in issued : l.n <= Cardinality(issued)
  BY FS_CardinalityType DEF TypeInv, Numbered
<1>4. link \in Link
  BY <1>1, <1>2, <1>3, BoundAssumption DEF Mailing, Link
<1>5. Grows /\ HandlersOK' /\ requests' \in 0..MaxRequests /\ HistoryTypeOK'
  BY <1>2, SameUsers, IdleHeldNext, GoesOn DEF TypeInv, TypeOK, HistoryTypeOK
<1>6. Numbered'
  <2>1. link \notin issued
    BY <1>3
  <2>2. IsFiniteSet(issued') /\ Cardinality(issued') = Cardinality(issued) + 1
    BY <1>2, <1>3, <2>1, FS_AddElement
  <2>3. \A l \in issued' : users'[l.user].role # "none"
    BY <1>1, <1>2 DEF TypeInv, Numbered
  <2>4. \A l \in issued' : l.n <= Cardinality(issued')
    <3>1. \A l \in issued : l.n \in Int
      BY DEF TypeInv, TypeOK, Link
    <3>2. QED
      BY <1>2, <1>3, <2>2, <3>1
  <2>5. Cardinality(issued') <= MaxLinks
    BY <1>2, <1>3, <2>2, BoundAssumption
  <2>6. QED
    BY <2>2, <2>3, <2>4, <2>5 DEF Numbered
<1>7. links' \subseteq Link /\ issued' \subseteq Link
  BY <1>2, <1>4, LinksStillOwned DEF LinksWithNew, TypeInv, TypeOK
<1>8. \A l \in links' : users'[l.user].role # "none"
  BY <1>1, <1>2, LinksOwned DEF LinksWithNew
<1>9. LimitsOK'
  BY <1>2, <1>5, SameLimits
<1>10. \A s \in sessions' : /\ s.user \in User /\ s.password \in 0..users'[s.user].password
                            /\ users'[s.user].role # "none"
  BY <1>2, <1>5, SessionsOwned
<1> HIDE DEF u, link
<1>11. QED
  BY <1>5, <1>6, <1>7, <1>8, <1>9, <1>10, Preserved

\* A confirmation changes nothing that the types depend on.
LEMMA ConfirmGrows ==
    ASSUME TypeInv, NEW u \in User, users' = [users EXCEPT ![u].verified = TRUE] PROVE Grows
<1>1. users' \in [User -> Rows]
  BY DEF TypeInv, TypeOK, Rows
<1>2. \A v \in User : users'[v].role = users[v].role /\ users'[v].password = users[v].password
  BY DEF TypeInv, TypeOK, Rows
<1>3. QED
  BY <1>1, <1>2, SameRow DEF Grows

LEMMA ConfirmTypeInv ==
    ASSUME TypeInv, NEW t \in Thread, Confirm(t) PROVE TypeInv'
<1> DEFINE u == at[t].user
           h == [step |-> "session", user |-> u, password |-> users[u].password, next |-> Idle]
<1>1. at[t] \in Opening /\ u \in User /\ users[u].role # "none"
  BY Holding, OpenShape DEF Confirm, At
<1>2. UNCHANGED <<issued, sessions, limits, requests, crossed>>
  BY DEF Confirm
<1>3. requests' \in 0..MaxRequests /\ HistoryTypeOK'
  BY <1>2 DEF TypeInv, TypeOK, HistoryTypeOK
<1>4. CASE IndexAllows(u)
  <2>1. /\ users' = [users EXCEPT ![u].verified = TRUE]
        /\ links' = {[l EXCEPT !.used = @ \/ l.n = at[t].n] : l \in links}
        /\ Goes(t, h) \/ Goes(t, Idle)
    BY <1>4 DEF Confirm
  <2>2. Grows
    BY <1>1, <2>1, ConfirmGrows
  <2>3. HeldOK(h, users')
    <3>1. /\ users[u].password \in Nat /\ users'[u].password = users[u].password
          /\ users'[u].role # "none"
      BY <1>1, <2>1 DEF TypeInv, TypeOK, Rows
    <3>2. h \in SigningIn /\ h.user = u /\ h.password = users[u].password /\ h.next = Idle
      BY <1>1, <3>1 DEF SigningIn
    <3> HIDE DEF h
    <3>3. h \in Handler
      BY <3>2 DEF Handler
    <3> HIDE DEF u
    <3>4. QED
      BY <3>1, <3>2, <3>3 DEF HeldOK
  <2>4. HandlersOK'
    <3> HIDE DEF h, u
    <3>1. QED
      BY <2>1, <2>2, <2>3, IdleHeldNext, GoesOn
  <2>5. ASSUME NEW k \in links' PROVE k \in Link /\ users'[k.user].role # "none"
    <3>1. PICK l \in links : k = [l EXCEPT !.used = @ \/ l.n = at[t].n]
      BY <2>1
    <3>2. l \in Link /\ users'[l.user].role # "none"
      BY <2>2, LinksStillOwned
    <3>3. k \in Link /\ k.user = l.user
      BY <3>1, <3>2 DEF Link
    <3>4. QED
      BY <3>2, <3>3
  <2>6. QED
    BY <1>2, <1>3, <2>2, <2>4, <2>5, SessionsOwned, Writes
<1>5. CASE ~IndexAllows(u)
  <2>1. UNCHANGED <<users, links>> /\ Goes(t, Idle)
    BY <1>5 DEF Confirm
  <2>2. QED
    BY <1>2, <1>3, <2>1, IdleHeld, Quiet
<1>6. QED
  BY <1>4, <1>5

LEMMA VouchWritesTypeInv ==
    ASSUME TypeInv, NEW t \in Thread, VouchWrites(t) PROVE TypeInv'
<1> DEFINE u == at[t].user
           h == [step |-> "sweep", user |-> u]
<1>1. u \in User /\ users[u].role # "none"
  BY Holding DEF VouchWrites, At
<1>2. UNCHANGED <<links, issued, sessions, limits, requests, crossed>>
  BY DEF VouchWrites
<1>3. requests' \in 0..MaxRequests /\ HistoryTypeOK'
  BY <1>2 DEF TypeInv, TypeOK, HistoryTypeOK
<1>4. CASE IndexAllows(u)
  <2>1. users' = [users EXCEPT ![u].verified = TRUE] /\ Goes(t, h)
    BY <1>4 DEF VouchWrites
  <2>2. Grows
    BY <1>1, <2>1, ConfirmGrows
  <2>3. h \in Simple
    BY <1>1 DEF Simple
  <2>4. HeldOK(h, users')
    BY <1>1, <2>2, <2>3, SimpleStep DEF HeldOK, Handler, Grows
  <2>5. HandlersOK'
    BY <2>1, <2>2, <2>4, GoesOn
  <2>6. QED
    BY <1>2, <1>3, <2>2, <2>5, SessionsOwned, LinksStillOwned, Writes
<1>5. CASE ~IndexAllows(u)
  <2>1. Goes(t, Idle) /\ UNCHANGED users
    BY <1>5 DEF VouchWrites
  <2>2. QED
    BY <1>2, <1>3, <2>1, IdleHeld, Quiet
<1>6. QED
  BY <1>4, <1>5

LEMMA SweepTypeInv ==
    ASSUME TypeInv, NEW t \in Thread, Sweep(t) PROVE TypeInv'
<1>1. /\ links' \subseteq links /\ Goes(t, Idle)
      /\ UNCHANGED <<users, issued, sessions, limits, requests, history>>
  BY DEF Sweep
<1>2. Grows /\ HandlersOK' /\ requests' \in 0..MaxRequests /\ HistoryTypeOK'
  BY <1>1, SameUsers, IdleHeldNext, GoesOn DEF TypeInv, TypeOK, HistoryTypeOK
<1>3. links' \subseteq Link /\ \A l \in links' : users'[l.user].role # "none"
  BY <1>1, <1>2, LinksStillOwned
<1>4. QED
  BY <1>1, <1>2, <1>3, SessionsOwned, Writes

LEMMA WriteRoleTypeInv ==
    ASSUME TypeInv, NEW t \in Thread, WriteRole(t) PROVE TypeInv'
<1> DEFINE u == at[t].user
           role == IF At(t, "promote") THEN "admin" ELSE "user"
<1>1. u \in User /\ users[u].role # "none"
  BY Holding DEF WriteRole
<1>2. /\ users' = [users EXCEPT ![u].role = role] /\ Goes(t, Idle)
      /\ UNCHANGED <<links, issued, sessions, limits, requests, history>>
  BY DEF WriteRole
<1>3. role \in Roles /\ role # "none"
  BY DEF Roles
<1>4. Grows
  <2>1. users' \in [User -> Rows]
    <3> DEFINE row == [users[u] EXCEPT !.role = role]
    <3>1. users[u] \in Rows
      BY <1>1 DEF TypeInv, TypeOK
    <3> HIDE DEF role
    <3>2. row \in Rows
      BY <1>3, <3>1 DEF Rows
    <3>3. users' = [users EXCEPT ![u] = row]
      BY <1>1, <1>2 DEF TypeInv, TypeOK, Rows
    <3> HIDE DEF row
    <3>4. QED
      BY <1>1, <3>2, <3>3 DEF TypeInv, TypeOK
  <2>2. \A v \in User : /\ users'[v].role = (IF v = u THEN role ELSE users[v].role)
                        /\ users'[v].password = users[v].password
    BY <1>1, <1>2 DEF TypeInv, TypeOK, Rows
  <2>3. QED
    BY <1>3, <2>1, <2>2, SameRow DEF Grows
<1>5. HandlersOK' /\ requests' \in 0..MaxRequests /\ HistoryTypeOK'
  BY <1>2, <1>4, IdleHeldNext, GoesOn DEF TypeInv, TypeOK, HistoryTypeOK
<1>6. QED
  BY <1>2, <1>4, <1>5, SessionsOwned, LinksStillOwned, Writes

LEMMA CreateSessionTypeInv ==
    ASSUME TypeInv, NEW t \in Thread, CreateSession(t) PROVE TypeInv'
<1> DEFINE u == at[t].user
           session == [user |-> u, password |-> at[t].password]
<1>1. at[t] \in SigningIn /\ u \in User /\ users[u].role # "none"
  BY Holding, SessionShape DEF CreateSession, At
<1>2. /\ sessions' = sessions \cup {session} /\ Goes(t, at[t].next)
      /\ UNCHANGED <<users, links, issued, limits, requests, history>>
  BY DEF CreateSession
<1>3. at[t].password \in 0..users[u].password
  <2>1. at[t].password <= users[u].password
    BY DEF CreateSession, At, TypeInv, HandlersOK, HeldOK
  <2>2. at[t].password \in Nat /\ users[u].password \in Nat
    BY <1>1 DEF SigningIn, TypeInv, TypeOK, Rows
  <2>3. QED
    BY <2>1, <2>2
<1>4. Grows /\ HandlersOK' /\ requests' \in 0..MaxRequests /\ HistoryTypeOK'
  <2>1. HeldOK(at[t].next, users')
    BY <1>2, NextHeld DEF CreateSession, At
  <2>2. QED
    BY <1>2, <2>1, SameUsers, GoesOn DEF TypeInv, TypeOK, HistoryTypeOK
<1>5. \A s \in sessions' : /\ s.user \in User /\ s.password \in 0..users'[s.user].password
                           /\ users'[s.user].role # "none"
  BY <1>1, <1>2, <1>3, <1>4, SessionsOwned
<1>6. QED
  BY <1>2, <1>4, <1>5, LinksStillOwned, Writes

LEMMA LogoutTypeInv ==
    ASSUME TypeInv, NEW t \in Thread, NEW s \in sessions, Logout(t, s) PROVE TypeInv'
<1>1. sessions' \subseteq sessions /\ UNCHANGED <<users, links, issued, limits, at, history>>
  BY DEF Logout
<1>2. Grows /\ HandlersOK' /\ HistoryTypeOK'
  BY <1>1, SameUsers, StillHeld DEF TypeInv, HistoryTypeOK
<1>3. requests' \in 0..MaxRequests
  BY BoundAssumption DEF Logout, TypeInv, TypeOK
<1>4. \A r \in sessions' : /\ r.user \in User /\ r.password \in 0..users'[r.user].password
                           /\ users'[r.user].role # "none"
  BY <1>1, <1>2, SessionsOwned
<1>5. QED
  BY <1>1, <1>2, <1>3, <1>4, LinksStillOwned, Writes

LEMMA PasswdTypeInv ==
    ASSUME TypeInv, NEW t \in Thread, NEW u \in User, Passwd(t, u) PROVE TypeInv'
<1> DEFINE h == [step |-> "revoke", user |-> u]
<1>1. /\ users[u].role # "none" /\ users' = [users EXCEPT ![u].password = @ + 1]
      /\ Takes(t, h) /\ UNCHANGED <<links, issued, sessions, limits, proven>>
  BY DEF Passwd
<1>2. Grows
  <2>1. users' \in [User -> Rows]
    <3>1. users[u] \in Rows /\ users[u].password + 1 \in Nat
      BY DEF TypeInv, TypeOK, Rows
    <3>2. [users[u] EXCEPT !.password = @ + 1] \in Rows
      BY <3>1 DEF Rows
    <3>3. QED
      BY <1>1, <3>2 DEF TypeInv, TypeOK
  <2>2. \A v \in User : /\ users'[v].role = users[v].role /\ users[v].password \in Nat
                        /\ users'[v].password = users[v].password + (IF v = u THEN 1 ELSE 0)
    BY <1>1 DEF TypeInv, TypeOK, Rows
  <2>3. \A v \in User : users[v].password <= users'[v].password
    BY <2>2
  <2>4. QED
    BY <2>1, <2>2, <2>3 DEF Grows
<1>3. h \in Simple
  BY DEF Simple
<1>4. HeldOK(h, users')
  BY <1>1, <1>2, <1>3, SimpleStep DEF HeldOK, Handler, Grows
<1>5. HandlersOK' /\ requests' \in 0..MaxRequests
  BY <1>1, <1>2, <1>4, TakesRequest, GoesOn
<1>6. HistoryTypeOK'
  BY DEF Passwd, TypeInv, HistoryTypeOK
<1>7. QED
  BY <1>1, <1>2, <1>5, <1>6, SessionsOwned, LinksStillOwned, Writes

LEMMA RevokeSessionsTypeInv ==
    ASSUME TypeInv, NEW t \in Thread, RevokeSessions(t) PROVE TypeInv'
<1>1. /\ sessions' \subseteq sessions /\ Goes(t, Idle)
      /\ UNCHANGED <<users, links, issued, limits, requests, history>>
  BY DEF RevokeSessions, Revoked
<1>2. Grows /\ HandlersOK' /\ requests' \in 0..MaxRequests /\ HistoryTypeOK'
  BY <1>1, SameUsers, IdleHeldNext, GoesOn DEF TypeInv, TypeOK, HistoryTypeOK
<1>3. \A s \in sessions' : /\ s.user \in User /\ s.password \in 0..users'[s.user].password
                           /\ users'[s.user].role # "none"
  BY <1>1, <1>2, SessionsOwned
<1>4. QED
  BY <1>1, <1>2, <1>3, LinksStillOwned, Writes

LEMMA NextTypeInv == TypeInv /\ [Next]_vars => TypeInv'
<1> SUFFICES ASSUME TypeInv, [Next]_vars PROVE TypeInv'
  OBVIOUS
<1>1. ASSUME NEW t \in Thread, Request(t) PROVE TypeInv'
  <2>1. ASSUME NEW u \in User, Submit(t, u) \/ Resend(t, u) \/ Login(t, u) \/ Passwd(t, u)
        PROVE  TypeInv'
    BY <2>1, SubmitTypeInv, ResendTypeInv, LoginTypeInv, PasswdTypeInv
  <2>2. ASSUME NEW u \in User, NEW a \in Address, Register(t, u, a) \/ SetEmail(t, u, a)
        PROVE  TypeInv'
    BY <2>2, RegisterTypeInv, SetEmailTypeInv
  <2>3. ASSUME NEW u \in User, NEW a \in Address \cup {NoAddress}, Vouch(t, u, a) PROVE TypeInv'
    BY <2>3, VouchTypeInv
  <2>4. ASSUME NEW u \in User, NEW a \in Address \cup {NoAddress},
               NEW role \in {"user", "admin"}, AddUser(t, u, a, role)
        PROVE  TypeInv'
    BY <2>4, AddUserTypeInv
  <2>5. ASSUME NEW link \in issued, Verify(t, link) PROVE TypeInv'
    BY <2>5, VerifyTypeInv
  <2>6. ASSUME NEW by \in User, NEW u \in User, NEW role \in {"user", "admin"},
               SetRole(t, by, u, role)
        PROVE  TypeInv'
    BY <2>6, SetRoleTypeInv
  <2>7. ASSUME NEW s \in sessions, Logout(t, s) PROVE TypeInv'
    BY <2>7, LogoutTypeInv
  <2>8. ASSUME NEW u \in User, NEW n \in 1..MaxBulkFiles, BulkSubmit(t, u, n) PROVE TypeInv'
    BY <2>8, BulkSubmitTypeInv
  <2>9. ASSUME NEW by \in User, NEW u \in User, Rejudge(t, by, u) PROVE TypeInv'
    BY <2>9, RejudgeTypeInv
  <2>10. ASSUME RejudgeAll(t) PROVE TypeInv'
    BY <2>10, RejudgeAllTypeInv
  <2>11. QED
    BY <1>1, <2>1, <2>2, <2>3, <2>4, <2>5, <2>6, <2>7, <2>8, <2>9, <2>10 DEF Request
<1>2. ASSUME NEW t \in Thread, Step(t) PROVE TypeInv'
  BY <1>2, CountsTypeInv, CountInFlightTypeInv, InsertTypeInv, QueueSourceTypeInv, AskTakenTypeInv,
     WriteAddressTypeInv, IssueLinkTypeInv, CheckLinkTypeInv, ConfirmTypeInv, VouchTakenTypeInv,
     VouchWritesTypeInv, SweepTypeInv, CountAdminsTypeInv, WriteRoleTypeInv,
     CreateSessionTypeInv, RevokeSessionsTypeInv DEF Step
<1>3. ASSUME NEW u \in User,
             \/ \E o \in Origins : Claimed(o, u) \/ Graded(o, u)
             \/ \E k \in Limiters : Slides(k, u)
      PROVE  TypeInv'
  BY <1>3, ClaimedTypeInv, GradedTypeInv, SlidesTypeInv
<1>4. ASSUME UNCHANGED vars PROVE TypeInv'
  <2>1. Grows /\ HandlersOK' /\ HistoryTypeOK' /\ requests' \in 0..MaxRequests
    BY <1>4, SameUsers, StillHeld DEF TypeInv, TypeOK, HistoryTypeOK
  <2>2. QED
    BY <1>4, <2>1, SessionsOwned, LinksStillOwned, Writes
<1>5. QED
  BY <1>1, <1>2, <1>3, <1>4 DEF Next

LEMMA Typed == Spec => []TypeInv
BY InitTypeInv, NextTypeInv, PTL DEF Spec

\* Every variable keeps its type, and an account that is not registered has no session, no
\* submission in flight and no link (create_user, create_session, issue_email_token, submit).
THEOREM TypeCorrect == Spec => []TypeOK
<1>1. TypeInv => TypeOK
  BY DEF TypeInv
<1>2. QED
  BY <1>1, Typed, PTL

----------------------------------------------------------------------------
(***************************************************************************)
(* What is written to the tables.                                          *)
(***************************************************************************)
\* The steps that write to the tables; every other one reads, or counts.
Writing ==
    \E t \in Thread :
        \/ \E u \in User, a \in Address : Register(t, u, a)
        \/ \E u \in User, a \in Address \cup {NoAddress}, role \in {"user", "admin"} :
              AddUser(t, u, a, role)
        \/ WriteAddress(t) \/ Confirm(t) \/ VouchWrites(t) \/ WriteRole(t)
        \/ \E u \in User : Passwd(t, u)
        \/ IssueLink(t) \/ Sweep(t) \/ CreateSession(t) \/ RevokeSessions(t)
        \/ \E s \in sessions : Logout(t, s)

LEMMA Kinds == ASSUME [Next]_vars PROVE Writing \/ UNCHANGED db
<1>1. ASSUME NEW t \in Thread, Request(t) PROVE Writing \/ UNCHANGED db
  <2>1. ASSUME NEW u \in User, Submit(t, u) \/ Resend(t, u) \/ Login(t, u) PROVE UNCHANGED db
    BY <2>1 DEF Submit, Resend, Login
  <2>2. ASSUME NEW u \in User, NEW a \in Address, SetEmail(t, u, a) PROVE UNCHANGED db
    BY <2>2 DEF SetEmail
  <2>3. ASSUME NEW u \in User, NEW a \in Address \cup {NoAddress}, Vouch(t, u, a)
        PROVE  UNCHANGED db
    BY <2>3 DEF Vouch
  <2>4. ASSUME NEW link \in issued, Verify(t, link) PROVE UNCHANGED db
    BY <2>4 DEF Verify
  <2>5. ASSUME NEW by \in User, NEW u \in User, NEW role \in {"user", "admin"},
               SetRole(t, by, u, role)
        PROVE  UNCHANGED db
    BY <2>5 DEF SetRole
  <2>7. ASSUME \/ \E u \in User, n \in 1..MaxBulkFiles : BulkSubmit(t, u, n)
               \/ \E by, u \in User : Rejudge(t, by, u)
               \/ RejudgeAll(t)
        PROVE  UNCHANGED db
    BY <2>7 DEF BulkSubmit, Rejudge, RejudgeAll
  <2> HIDE DEF db
  <2>6. QED
    BY <1>1, <2>1, <2>2, <2>3, <2>4, <2>5, <2>7 DEF Request, Writing
<1>2. ASSUME NEW t \in Thread, Step(t) PROVE Writing \/ UNCHANGED db
  <2>1. ASSUME \/ Counts(t) \/ CountInFlight(t) \/ Insert(t) \/ QueueSource(t) \/ AskTaken(t)
               \/ CheckLink(t) \/ VouchTaken(t) \/ CountAdmins(t)
        PROVE  UNCHANGED db
    BY <2>1 DEF Counts, CountInFlight, Insert, QueueSource, AskTaken, CheckLink, VouchTaken,
                CountAdmins
  <2> HIDE DEF db
  <2>2. QED
    BY <1>2, <2>1 DEF Step, Writing
<1>3. ASSUME NEW u \in User,
             \/ \E o \in Origins : Claimed(o, u) \/ Graded(o, u)
             \/ \E k \in Limiters : Slides(k, u)
      PROVE  UNCHANGED db
  BY <1>3 DEF Claimed, Graded, Slides
<1>4. UNCHANGED vars => UNCHANGED db
  OBVIOUS
<1> DEFINE G == Writing \/ UNCHANGED db
<1>5. UNCHANGED db => G
  OBVIOUS
<1>6. ASSUME NEW t \in Thread, Request(t) \/ Step(t) PROVE G
  BY <1>1, <1>2, <1>6
<1> SUFFICES G
  OBVIOUS
<1> HIDE DEF db, G
<1>7. QED
  BY <1>3, <1>4, <1>5, <1>6 DEF Next

(***************************************************************************)
(* Who owns an address.                                                    *)
(***************************************************************************)
SameAddress(v) == users'[v].email = users[v].email /\ users'[v].verified = users[v].verified

\* One account at most has its address, or its confirmation, written in a step, and it is
\* then not confirmed, or the address is nobody else's.
LEMMA AddressWrites ==
    ASSUME TypeInv, [Next]_vars
    PROVE  \/ \A v \in User : SameAddress(v)
           \/ \E u \in User : /\ \A v \in User \ {u} : SameAddress(v)
                              /\ ~users'[u].verified \/ ~Taken(users'[u].email, u)
<1> USE DEF SameAddress
<1>1. users \in [User -> Rows]
  BY DEF TypeInv, TypeOK
<1>2. ASSUME NEW t \in Thread, NEW u \in User, NEW a \in Address, Register(t, u, a)
      PROVE  (\A v \in User \ {u} : SameAddress(v)) /\ ~users'[u].verified
  BY <1>1, <1>2 DEF Register
<1>3. ASSUME NEW t \in Thread, NEW u \in User, NEW a \in Address \cup {NoAddress},
             NEW role \in {"user", "admin"}, AddUser(t, u, a, role)
      PROVE  (\A v \in User \ {u} : SameAddress(v)) /\ ~Taken(users'[u].email, u)
  BY <1>1, <1>3 DEF AddUser
<1>4. ASSUME NEW t \in Thread, WriteAddress(t)
      PROVE  /\ at[t].user \in User /\ ~users'[at[t].user].verified
             /\ \A v \in User \ {at[t].user} : SameAddress(v)
  <2>1. at[t].user \in User
    BY <1>4, Holding DEF WriteAddress, At
  <2>2. QED
    BY <1>1, <1>4, <2>1 DEF WriteAddress, AddressSet, Rows
<1>5. ASSUME NEW t \in Thread, Confirm(t) \/ VouchWrites(t)
      PROVE  /\ at[t].user \in User
             /\ \A v \in User \ {at[t].user} : SameAddress(v)
             /\ SameAddress(at[t].user) \/ ~Taken(users'[at[t].user].email, at[t].user)
  <2>1. at[t].user \in User
    BY <1>5, Holding DEF Confirm, VouchWrites, At
  <2>2. QED
    BY <1>1, <1>5, <2>1 DEF Confirm, VouchWrites, IndexAllows, Rows
<1>6. ASSUME NEW t \in Thread, WriteRole(t) PROVE \A v \in User : SameAddress(v)
  <2>1. at[t].user \in User
    BY <1>6, Holding DEF WriteRole
  <2>2. QED
    BY <1>1, <1>6, <2>1 DEF WriteRole, Rows
<1>7. ASSUME NEW t \in Thread, NEW u \in User, Passwd(t, u) PROVE \A v \in User : SameAddress(v)
  BY <1>1, <1>7 DEF Passwd, Rows
<1>8. ASSUME NEW t \in Thread,
             \/ IssueLink(t) \/ Sweep(t) \/ CreateSession(t) \/ RevokeSessions(t)
             \/ \E s \in sessions : Logout(t, s)
      PROVE  \A v \in User : SameAddress(v)
  BY <1>8 DEF IssueLink, Sweep, CreateSession, RevokeSessions, Logout
<1>9. UNCHANGED db => \A v \in User : SameAddress(v)
  OBVIOUS
<1> DEFINE Same == \A v \in User : SameAddress(v)
           G == \/ Same
                \/ \E u \in User : /\ \A v \in User \ {u} : SameAddress(v)
                                   /\ ~users'[u].verified \/ ~Taken(users'[u].email, u)
<1>10. ASSUME NEW u \in User, \A v \in User \ {u} : SameAddress(v),
              ~users'[u].verified \/ ~Taken(users'[u].email, u) \/ SameAddress(u)
       PROVE  G
  <2> HIDE DEF SameAddress
  <2>1. CASE SameAddress(u)
    BY <1>10, <2>1
  <2>2. CASE ~SameAddress(u)
    BY <1>10, <2>2
  <2>3. QED
    BY <2>1, <2>2
<1>11. Same => G
  OBVIOUS
<1> SUFFICES G
  OBVIOUS
<1> HIDE DEF SameAddress, db, Same, G
<1>12. ASSUME Writing PROVE G
  <2>1. PICK t \in Thread :
        \/ \E u \in User, a \in Address : Register(t, u, a)
        \/ \E u \in User, a \in Address \cup {NoAddress}, role \in {"user", "admin"} :
              AddUser(t, u, a, role)
        \/ WriteAddress(t) \/ Confirm(t) \/ VouchWrites(t) \/ WriteRole(t)
        \/ \E u \in User : Passwd(t, u)
        \/ IssueLink(t) \/ Sweep(t) \/ CreateSession(t) \/ RevokeSessions(t)
        \/ \E s \in sessions : Logout(t, s)
    BY <1>12 DEF Writing
  <2>2. ASSUME NEW u \in User, NEW a \in Address, Register(t, u, a) PROVE G
    BY <1>2, <1>10, <2>2
  <2>3. ASSUME NEW u \in User, NEW a \in Address \cup {NoAddress},
               NEW role \in {"user", "admin"}, AddUser(t, u, a, role)
        PROVE  G
    BY <1>3, <1>10, <2>3
  <2>4. WriteAddress(t) => G
    BY <1>4, <1>10
  <2>5. Confirm(t) \/ VouchWrites(t) => G
    BY <1>5, <1>10
  <2>6. WriteRole(t) \/ (\E u \in User : Passwd(t, u)) => G
    BY <1>6, <1>7, <1>11 DEF Same
  <2>7. \/ IssueLink(t) \/ Sweep(t) \/ CreateSession(t) \/ RevokeSessions(t)
        \/ \E s \in sessions : Logout(t, s)
        => G
    BY <1>8, <1>11 DEF Same
  <2>8. QED
    BY <2>1, <2>2, <2>3, <2>4, <2>5, <2>6, <2>7
<1>13. QED
  BY <1>9, <1>11, <1>12, Kinds DEF Same

LEMMA NextOneOwner == TypeInv /\ OneOwnerPerAddress /\ [Next]_vars => OneOwnerPerAddress'
<1> SUFFICES ASSUME TypeInv, OneOwnerPerAddress, [Next]_vars,
                    NEW u \in User, NEW v \in User, users'[u].verified, users'[v].verified,
                    users'[u].email = users'[v].email, users'[u].email # NoAddress
             PROVE  u = v
  BY DEF OneOwnerPerAddress
<1>1. CASE \A w \in User : SameAddress(w)
  BY <1>1 DEF SameAddress, OneOwnerPerAddress
<1>2. ASSUME NEW x \in User, \A w \in User \ {x} : SameAddress(w),
             ~users'[x].verified \/ ~Taken(users'[x].email, x)
      PROVE  u = v
  BY <1>2 DEF SameAddress, OneOwnerPerAddress, Taken
<1>3. QED
  BY <1>1, <1>2, AddressWrites

\* No two accounts have confirmed the same address, however the confirmations, the changes of
\* address and the accounts the operator adds cross (confirm_email_token, cmd_verify, the
\* unique index of db.py).
THEOREM OneOwner == Spec => []OneOwnerPerAddress
<1>1. Init => OneOwnerPerAddress
  BY FirstUsersAssumption DEF Init, OneOwnerPerAddress
<1>2. QED
  BY <1>1, Typed, NextOneOwner, PTL DEF Spec

(***************************************************************************)
(* Which link is live.                                                     *)
(***************************************************************************)
\* What a step does to the links: it leaves those of before, or fewer, used or not.
Thins ==
    /\ UNCHANGED issued
    /\ \A k \in links' : \E l \in links : k.n = l.n /\ k.user = l.user /\ (l.used => k.used)

LEMMA LinkWrites ==
    ASSUME TypeInv, [Next]_vars PROVE Thins \/ \E t \in Thread : IssueLink(t)
<1>1. ASSUME NEW t \in Thread, Confirm(t) PROVE Thins
  <2>1. links \subseteq Link
    BY DEF TypeInv, TypeOK
  <2>2. CASE UNCHANGED links
    BY <1>1, <2>2 DEF Confirm, Thins
  <2>3. CASE links' = {[l EXCEPT !.used = @ \/ l.n = at[t].n] : l \in links}
    <3>1. ASSUME NEW k \in links'
          PROVE  \E l \in links : k.n = l.n /\ k.user = l.user /\ (l.used => k.used)
      <4>1. PICK l \in links : k = [l EXCEPT !.used = @ \/ l.n = at[t].n]
        BY <2>3
      <4>2. /\ l \in [n : 1..MaxLinks, user : User, email : Address, used : BOOLEAN]
            /\ l.used => l.used \/ l.n = at[t].n
        BY <2>1 DEF Link
      <4> DEFINE used == l.used \/ l.n = at[t].n
      <4>3. k = [l EXCEPT !.used = used]
        BY <4>1
      <4> HIDE DEF used
      <4>4. k.n = l.n /\ k.user = l.user /\ k.used = used
        BY <4>2, <4>3
      <4>5. l.used => k.used
        BY <4>4, Zenon DEF used
      <4>6. QED
        BY <4>1, <4>4, <4>5, Zenon
    <3>2. QED
      BY <1>1, <3>1 DEF Confirm, Thins
  <2>4. QED
    BY <1>1, <2>2, <2>3 DEF Confirm
<1>2. UNCHANGED issued /\ links' \subseteq links => Thins
  BY DEF Thins
<1>3. ASSUME NEW t \in Thread, NEW u \in User, NEW a \in Address \cup {NoAddress},
             Register(t, u, a) \/ \E role \in {"user", "admin"} : AddUser(t, u, a, role)
      PROVE  Thins
  BY <1>2, <1>3 DEF Register, AddUser
<1>4. ASSUME NEW t \in Thread,
             \/ WriteAddress(t) \/ VouchWrites(t) \/ WriteRole(t) \/ (\E u \in User : Passwd(t, u))
      PROVE  Thins
  BY <1>2, <1>4 DEF WriteAddress, VouchWrites, WriteRole, Passwd
<1>5. ASSUME NEW t \in Thread,
             \/ Sweep(t) \/ CreateSession(t) \/ RevokeSessions(t)
             \/ \E s \in sessions : Logout(t, s)
      PROVE  Thins
  BY <1>2, <1>5 DEF Sweep, CreateSession, RevokeSessions, Logout
<1>6. UNCHANGED db => Thins
  BY <1>2
<1> HIDE DEF db
<1>7. QED
  BY <1>1, <1>3, <1>4, <1>5, <1>6, Kinds DEF Writing

LEMMA NextOneLiveLink == TypeInv /\ OneLiveLink /\ [Next]_vars => OneLiveLink'
<1> SUFFICES ASSUME TypeInv, OneLiveLink, [Next]_vars PROVE OneLiveLink'
  OBVIOUS
<1>1. CASE Thins
  <2>1. links \subseteq Link /\ links' \subseteq Link
    BY NextTypeInv DEF TypeInv, TypeOK
  <2>2. ASSUME NEW k \in links', ~k.used, NEW m \in issued', m.user = k.user PROVE m.n <= k.n
    <3>1. PICK l \in links : k.n = l.n /\ k.user = l.user /\ (l.used => k.used)
      BY <1>1 DEF Thins
    <3>2. m \in issued /\ ~l.used
      BY <1>1, <2>2, <3>1 DEF Thins
    <3>3. QED
      BY <2>2, <3>1, <3>2 DEF OneLiveLink
  <2>3. QED
    BY <2>2 DEF OneLiveLink
<1>2. ASSUME NEW t \in Thread, IssueLink(t) PROVE OneLiveLink'
  <2> DEFINE u == at[t].user
             link == [n |-> Cardinality(issued) + 1, user |-> u, email |-> at[t].email,
                      used |-> FALSE]
  <2>1. /\ links' = {l \in links : l.user # u} \cup {link}
        /\ issued' = issued \cup {link}
    BY <1>2 DEF IssueLink, LinksWithNew
  <2>2. /\ Cardinality(issued) \in Nat /\ \A l \in issued : l.n <= Cardinality(issued)
        /\ \A l \in issued : l.n \in Int
    BY FS_CardinalityType DEF TypeInv, TypeOK, Numbered, Link
  <2>3. ASSUME NEW l \in links', ~l.used, NEW m \in issued', m.user = l.user PROVE m.n <= l.n
    <3>1. link.user = u /\ link.n = Cardinality(issued) + 1
      OBVIOUS
    <3> HIDE DEF link, u
    <3>2. CASE l = link
      BY <2>1, <2>2, <3>1, <3>2
    <3>3. CASE l \in links /\ l.user # u
      BY <2>1, <2>3, <3>1, <3>3 DEF OneLiveLink
    <3>4. QED
      BY <2>1, <3>2, <3>3
  <2>4. QED
    BY <2>3 DEF OneLiveLink
<1>3. QED
  BY <1>1, <1>2, LinkWrites

\* An account has one live link at the most, the one that was issued last
\* (issue_email_token), whoever asked for it and whatever became of the earlier ones.
THEOREM OnlyTheLastLinkLives == Spec => []OneLiveLink
<1>1. Init => OneLiveLink
  <2> SUFFICES ASSUME Init, NEW l \in links, NEW m \in links, m.user = l.user PROVE m.n <= l.n
    BY DEF Init, OneLiveLink
  <2>1. Cardinality(Waiting) \in Nat
    BY BoundAssumption, FS_Subset, FS_CardinalityType DEF Waiting
  <2>2. PICK n \in [Waiting -> 1..Cardinality(Waiting)] :
           links = {[n |-> n[u], user |-> u, email |-> FirstUsers[u].email, used |-> FALSE] :
                        u \in Waiting}
    BY DEF Init
  <2>3. \A k \in links : k.user \in Waiting /\ k.n = n[k.user]
    BY <2>2
  <2>4. n[l.user] \in Int
    BY <2>1, <2>3
  <2>5. QED
    BY <2>3, <2>4
<1>2. QED
  BY <1>1, Typed, NextOneLiveLink, PTL DEF Spec

(***************************************************************************)
(* Whose address is proven.                                                *)
(***************************************************************************)
AboutToConfirm == {"confirm", "vouch", "vouched"}

\* Whoever is about to confirm an address has checked the one the account still has, or the
\* change of address is on record.
AddressHeld ==
    \A t \in Thread : at[t].step \in AboutToConfirm =>
        at[t].user \in crossed.addresses \/ at[t].email = users[at[t].user].email

AddressInv == AddressHeld /\ AddressProven

\* Where a handler is about to write what it has checked, or to revoke.
Watched == AboutToConfirm \cup {"count", "demote", "session", "revoke"}

\* A step of a handler that neither comes from there nor goes there, and writes no account.
Quietly(t) ==
    /\ Goes(t, at'[t]) /\ at[t].step # "revoke" /\ at'[t].step \notin Watched
    /\ UNCHANGED <<users, sessions, history>>

Notable(t) ==
    \/ \E u \in User, a \in Address : Register(t, u, a)
    \/ \E u \in User, a \in Address \cup {NoAddress}, role \in {"user", "admin"} :
          AddUser(t, u, a, role)
    \/ \E u \in User, a \in Address \cup {NoAddress} : Vouch(t, u, a)
    \/ \E by, u \in User, role \in {"user", "admin"} : SetRole(t, by, u, role)
    \/ \E u \in User : Login(t, u) \/ Passwd(t, u)
    \/ \E s \in sessions : Logout(t, s)
    \/ WriteAddress(t) \/ CheckLink(t) \/ Confirm(t) \/ VouchTaken(t) \/ VouchWrites(t)
    \/ CountAdmins(t) \/ WriteRole(t) \/ CreateSession(t) \/ RevokeSessions(t)

LEMMA TakesFree == ASSUME NEW t, NEW h, Takes(t, h) PROVE at[t].step # "revoke"
<1>1. at[t] = Idle
  BY DEF Takes, Free
<1>2. QED
  BY <1>1 DEF Idle

LEMMA StepKinds ==
    ASSUME TypeInv, [Next]_vars
    PROVE  \/ UNCHANGED <<at, users, sessions, history>>
           \/ \E t \in Thread : Quietly(t) \/ Notable(t)
<1> DEFINE G == \/ UNCHANGED <<at, users, sessions, history>>
                \/ \E t \in Thread : Quietly(t) \/ Notable(t)
<1>1. SUFFICES G
  OBVIOUS
<1>2. ASSUME NEW t \in Thread, NEW h, Goes(t, h), at[t].step # "revoke", h.step \notin Watched,
             UNCHANGED <<users, sessions, history>>
      PROVE  G
  BY <1>2, Others DEF Quietly
<1>3. \A t \in Thread : Notable(t) => G
  OBVIOUS
<1>4. Idle.step \notin Watched
  BY DEF Idle, Watched, AboutToConfirm
<1> USE DEF Watched, AboutToConfirm
<1>5. \/ \E u \in User, o \in Origins : Claimed(o, u) \/ Graded(o, u)
      \/ \E u \in User, k \in Limiters : Slides(k, u)
      => G
  BY DEF Claimed, Graded, Slides
<1>6. UNCHANGED vars => G
  OBVIOUS
<1> HIDE DEF G
<1>7. ASSUME NEW t \in Thread, Request(t) PROVE G
  <2>1. ASSUME NEW u \in User, Submit(t, u) PROVE G
    <3> DEFINE h == [step |-> "in flight", user |-> u]
    <3>1. Goes(t, h) /\ h.step \notin Watched /\ UNCHANGED <<users, sessions, history>>
      BY <2>1 DEF Submit, Takes
    <3>2. at[t].step # "revoke"
      BY <2>1, TakesFree DEF Submit
    <3> HIDE DEF h
    <3>3. QED
      BY <3>1, <3>2, <1>2
  <2>2. ASSUME NEW u \in User, Resend(t, u) PROVE G
    <3> DEFINE h == [step |-> "hit", limiter |-> "verify", user |-> u,
                     next |-> [step |-> "issue", user |-> u, email |-> users[u].email]]
    <3>1. Goes(t, h) /\ h.step \notin Watched /\ UNCHANGED <<users, sessions, history>>
      BY <2>2 DEF Resend, Takes
    <3>2. at[t].step # "revoke"
      BY <2>2, TakesFree DEF Resend
    <3> HIDE DEF h
    <3>3. QED
      BY <3>1, <3>2, <1>2
  <2>3. ASSUME NEW u \in User, NEW a \in Address, SetEmail(t, u, a) PROVE G
    <3> DEFINE h == [step |-> "hit", limiter |-> "verify", user |-> u,
                     next |-> [step |-> "taken", user |-> u, email |-> a, next |-> "issue"]]
    <3>1. Goes(t, h) /\ h.step \notin Watched /\ UNCHANGED <<users, sessions, history>>
      BY <2>3 DEF SetEmail, Takes
    <3>2. at[t].step # "revoke"
      BY <2>3, TakesFree DEF SetEmail
    <3> HIDE DEF h
    <3>3. QED
      BY <3>1, <3>2, <1>2
  <2>4. ASSUME NEW link \in issued, Verify(t, link) PROVE G
    <3> DEFINE h == [step |-> "link", user |-> link.user, email |-> link.email, n |-> link.n]
    <3>1. Goes(t, h) /\ h.step \notin Watched /\ UNCHANGED <<users, sessions, history>>
      BY <2>4 DEF Verify, Takes
    <3>2. at[t].step # "revoke"
      BY <2>4, TakesFree DEF Verify
    <3> HIDE DEF h
    <3>3. QED
      BY <3>1, <3>2, <1>2
  <2>5. \/ \E u \in User, a \in Address : Register(t, u, a)
        \/ \E u \in User, a \in Address \cup {NoAddress}, role \in {"user", "admin"} :
              AddUser(t, u, a, role)
        \/ \E u \in User, a \in Address \cup {NoAddress} : Vouch(t, u, a)
        \/ \E by, u \in User, role \in {"user", "admin"} : SetRole(t, by, u, role)
        \/ \E u \in User : Login(t, u) \/ Passwd(t, u)
        \/ \E s \in sessions : Logout(t, s)
        => G
    BY <1>3 DEF Notable
  <2>6. ASSUME NEW u \in User, NEW n \in 1..MaxBulkFiles, BulkSubmit(t, u, n) PROVE G
    <3> DEFINE h == [step |-> "queue", user |-> u, left |-> n]
    <3>1. Goes(t, h) /\ h.step \notin Watched /\ UNCHANGED <<users, sessions, history>>
      BY <2>6 DEF BulkSubmit, Takes
    <3>2. at[t].step # "revoke"
      BY <2>6, TakesFree DEF BulkSubmit
    <3> HIDE DEF h
    <3>3. QED
      BY <3>1, <3>2, <1>2
  <2>7. ASSUME (\E by, u \in User : Rejudge(t, by, u)) \/ RejudgeAll(t) PROVE G
    <3>1. Takes(t, Idle) /\ UNCHANGED <<users, sessions, history>>
      BY <2>7 DEF Rejudge, RejudgeAll
    <3>2. QED
      BY <3>1, <1>2, <1>4, TakesFree DEF Takes
  <2>8. QED
    BY <1>7, <2>1, <2>2, <2>3, <2>4, <2>5, <2>6, <2>7 DEF Request
<1>8. ASSUME NEW t \in Thread, Step(t) PROVE G
  <2>1. ASSUME Counts(t) PROVE G
    <3>1. at[t] \in Hitting /\ at[t].step = "hit"
      BY <2>1, Holding, HitShape DEF Counts, At
    <3>2. at[t].next.step \notin Watched
      BY <1>4, <3>1 DEF Hitting, Promised
    <3>3. QED
      BY <1>2, <2>1, <3>1, <3>2 DEF Counts
  <2>2. ASSUME CountInFlight(t) PROVE G
    <3> DEFINE h == [step |-> "insert", user |-> at[t].user]
    <3>1. (Goes(t, Idle) \/ Goes(t, h)) /\ at[t].step # "revoke"
      BY <2>2 DEF CountInFlight, At
    <3>2. h.step \notin Watched /\ UNCHANGED <<users, sessions, history>>
      BY <2>2 DEF CountInFlight
    <3> HIDE DEF h
    <3>3. QED
      BY <3>1, <3>2, <1>2, <1>4
  <2>3. ASSUME Insert(t) PROVE G
    <3> DEFINE h == [step |-> "hit", limiter |-> "submit", user |-> at[t].user, next |-> Idle]
    <3>1. /\ Goes(t, h) /\ h.step \notin Watched /\ at[t].step # "revoke"
          /\ UNCHANGED <<users, sessions, history>>
      BY <2>3 DEF Insert, At
    <3> HIDE DEF h
    <3>2. QED
      BY <3>1, <1>2
  <2>4. ASSUME AskTaken(t) PROVE G
    <3> DEFINE h == [at[t] EXCEPT !.step = "address"]
    <3>1. at[t] \in Changing
      BY <2>4, Holding, ChangeShape DEF AskTaken, At
    <3>2. h.step \notin Watched
      BY <3>1 DEF Changing
    <3>3. /\ Goes(t, Idle) \/ Goes(t, h)
          /\ at[t].step # "revoke" /\ UNCHANGED <<users, sessions, history>>
      BY <2>4 DEF AskTaken, At
    <3> HIDE DEF h
    <3>4. QED
      BY <3>2, <3>3, <1>2, <1>4
  <2>5. ASSUME IssueLink(t) \/ Sweep(t) PROVE G
    <3>1. Goes(t, Idle) /\ at[t].step # "revoke" /\ UNCHANGED <<users, sessions, history>>
      BY <2>5 DEF IssueLink, Sweep, At
    <3>2. QED
      BY <3>1, <1>2, <1>4
  <2>6. \/ WriteAddress(t) \/ CheckLink(t) \/ Confirm(t) \/ VouchTaken(t) \/ VouchWrites(t)
        \/ CountAdmins(t) \/ WriteRole(t) \/ CreateSession(t) \/ RevokeSessions(t)
        => G
    BY <1>3 DEF Notable
  <2>7. ASSUME QueueSource(t) PROVE G
    <3> DEFINE h == [at[t] EXCEPT !.left = @ - 1]
    <3>1. at[t] \in Queueing
      BY <2>7, Holding, QueueShape DEF QueueSource, At
    <3>2. h.step \notin Watched
      BY <3>1 DEF Queueing
    <3>3. /\ Goes(t, Idle) \/ Goes(t, h)
          /\ at[t].step # "revoke" /\ UNCHANGED <<users, sessions, history>>
      BY <2>7 DEF QueueSource, At
    <3> HIDE DEF h
    <3>4. QED
      BY <3>2, <3>3, <1>2, <1>4
  <2>8. QED
    BY <1>8, <2>1, <2>2, <2>3, <2>4, <2>5, <2>6, <2>7 DEF Step
<1>9. QED
  BY <1>5, <1>6, <1>7, <1>8 DEF Next

\* A step keeps the addresses that are held and proven when whoever it sends to confirm has
\* the account's address, and whoever it confirms has it proven.
LEMMA AddressKept ==
    ASSUME TypeInv, AddressInv, NEW t \in Thread, Goes(t, at'[t]),
           \A v \in User : users[v].role # "none" =>
               users'[v].email = users[v].email \/ v \in crossed'.addresses
                   \/ \A s \in Thread \ {t} : at[s].step \in AboutToConfirm => at[s].user # v,
           at'[t].step \in AboutToConfirm =>
               at'[t].user \in crossed'.addresses \/ at'[t].email = users'[at'[t].user].email,
           crossed.addresses \subseteq crossed'.addresses, proven \subseteq proven',
           \A v \in User : SameAddress(v) \/ ~users'[v].verified \/ <<v, users'[v].email>> \in proven'
                              \/ v \in crossed'.addresses
    PROVE  AddressInv'
<1>1. \A s \in Thread \ {t} : at'[s] = at[s]
  BY Others
<1>2. ASSUME NEW s \in Thread \ {t}, at[s].step \in AboutToConfirm
      PROVE  at[s].user \in crossed'.addresses \/ at[s].email = users'[at[s].user].email
  <2>1. at[s].user \in User /\ users[at[s].user].role # "none"
    BY <1>2, Holding DEF AboutToConfirm
  <2>2. QED
    BY <1>2, <2>1 DEF AddressInv, AddressHeld
<1>3. AddressHeld'
  BY <1>1, <1>2 DEF AddressHeld
<1>4. AddressProven'
  BY DEF AddressProven, AddressInv, SameAddress
<1>5. QED
  BY <1>3, <1>4 DEF AddressInv

\* After its session a handler is done, or goes on to issue a link.
LEMMA OpensNext ==
    ASSUME TypeInv, NEW t \in Thread, CreateSession(t)
    PROVE  Goes(t, at'[t]) /\ at'[t].step \in {"idle", "taken", "issue"}
<1>1. at[t] \in SigningIn /\ Goes(t, at[t].next)
  BY Holding, SessionShape DEF CreateSession, At
<1>2. at[t].next.step \in {"idle", "taken", "issue"}
  BY <1>1 DEF SigningIn, Promised, Idle
<1>3. QED
  BY <1>1, <1>2, Others

LEMMA NextAddressInv == TypeInv /\ AddressInv /\ [Next]_vars => AddressInv'
<1> SUFFICES ASSUME TypeInv, AddressInv, [Next]_vars PROVE AddressInv'
  OBVIOUS
<1>1. users \in [User -> Rows] /\ HistoryTypeOK
  BY DEF TypeInv, TypeOK
<1>2. ASSUME UNCHANGED <<at, users, history>> PROVE AddressInv'
  BY <1>2 DEF AddressInv, AddressHeld, AddressProven
<1>3. ASSUME NEW t \in Thread, Goes(t, at'[t]), at'[t].step \notin AboutToConfirm,
              \A v \in User : SameAddress(v), UNCHANGED proven,
              crossed'.addresses = crossed.addresses
       PROVE  AddressInv'
  BY <1>3, AddressKept DEF SameAddress
<1>4. ASSUME NEW t \in Thread, Quietly(t) PROVE AddressInv'
  BY <1>3, <1>4 DEF Quietly, Watched, SameAddress
<1>5. ASSUME NEW t \in Thread, NEW by \in User, NEW u \in User, NEW role \in {"user", "admin"},
              SetRole(t, by, u, role)
       PROVE  AddressInv'
  <2> DEFINE h == [step |-> IF role = "admin" THEN "promote"
                            ELSE IF users[u].role = "admin" THEN "count" ELSE "demote", user |-> u]
  <2>1. Goes(t, h) /\ h.step \notin AboutToConfirm /\ UNCHANGED <<users, proven>>
    BY <1>5 DEF SetRole, Takes, AboutToConfirm
  <2>2. crossed'.addresses = crossed.addresses
    BY <1>1, <1>5 DEF SetRole, HistoryTypeOK
  <2> HIDE DEF h
  <2>3. QED
    BY <2>1, <2>2, <1>3, Others DEF SameAddress
<1>6. ASSUME NEW t \in Thread, NEW u \in User, Login(t, u) \/ Passwd(t, u) PROVE AddressInv'
  <2>1. PICK h : Goes(t, h) /\ h.step \notin AboutToConfirm
    BY <1>6 DEF Login, Passwd, Takes, AboutToConfirm
  <2>2. \A v \in User : SameAddress(v)
    BY <1>1, <1>6 DEF Login, Passwd, Rows, SameAddress
  <2>3. UNCHANGED proven /\ crossed'.addresses = crossed.addresses
    BY <1>1, <1>6 DEF Login, Passwd, HistoryTypeOK
  <2>4. QED
    BY <2>1, <2>2, <2>3, <1>3, Others
<1>7. ASSUME NEW t \in Thread, NEW s \in sessions, Logout(t, s) PROVE AddressInv'
  BY <1>2, <1>7 DEF Logout
<1>8. ASSUME NEW t \in Thread, CountAdmins(t) PROVE AddressInv'
  <2> DEFINE h == [at[t] EXCEPT !.step = "demote"]
  <2>1. at[t] \in Simple
    BY <1>8, Holding, SimpleShape DEF CountAdmins, At
  <2>2. h.step \notin AboutToConfirm
    BY <2>1 DEF Simple, AboutToConfirm
  <2>3. (Goes(t, Idle) \/ Goes(t, h)) /\ UNCHANGED <<users, history>>
    BY <1>8 DEF CountAdmins
  <2> HIDE DEF h
  <2>4. QED
    BY <2>2, <2>3, <1>3, Others DEF AboutToConfirm, Idle, SameAddress
<1>9. ASSUME NEW t \in Thread, WriteRole(t) \/ CreateSession(t) \/ RevokeSessions(t) PROVE AddressInv'
  <2>1. (Goes(t, Idle) \/ CreateSession(t)) /\ UNCHANGED history
    BY <1>9 DEF WriteRole, CreateSession, RevokeSessions
  <2>2. at[t].user \in User
    BY <1>9, Holding DEF WriteRole, CreateSession, RevokeSessions, At
  <2>3. \A v \in User : SameAddress(v)
    BY <1>1, <1>9, <2>2 DEF WriteRole, CreateSession, RevokeSessions, Rows, SameAddress
  <2>4. Goes(t, at'[t]) /\ at'[t].step \notin AboutToConfirm
    BY <2>1, Others, OpensNext DEF AboutToConfirm, Idle
  <2>5. QED
    BY <2>1, <2>3, <2>4, <1>3
<1>10. ASSUME NEW t \in Thread, NEW u \in User, NEW a \in Address, Register(t, u, a)
      PROVE  AddressInv'
  <2>1. PICK h : Goes(t, h) /\ h.step = "session"
    BY <1>10 DEF Register, Takes
  <2>2. Goes(t, at'[t]) /\ at'[t].step \notin AboutToConfirm /\ UNCHANGED history
    BY <1>10, <2>1, Others DEF AboutToConfirm, Register
  <2>3. \A v \in User : /\ SameAddress(v) \/ ~users'[v].verified
                        /\ users[v].role # "none" => users'[v].email = users[v].email
    BY <1>1, <1>10 DEF Register, SameAddress
  <2>4. QED
    BY <2>1, <2>2, <2>3, AddressKept
<1>11. ASSUME NEW t \in Thread, NEW u \in User, NEW a \in Address \cup {NoAddress},
             NEW role \in {"user", "admin"}, AddUser(t, u, a, role)
      PROVE  AddressInv'
  <2>1. /\ Goes(t, Idle) /\ UNCHANGED crossed /\ proven \subseteq proven'
        /\ a # NoAddress => <<u, a>> \in proven'
    BY <1>11 DEF AddUser, Takes
  <2>2. Goes(t, at'[t]) /\ at'[t].step \notin AboutToConfirm
    BY <2>1, Others DEF AboutToConfirm, Idle
  <2>3. \A v \in User : /\ \/ SameAddress(v) \/ ~users'[v].verified
                           \/ <<v, users'[v].email>> \in proven'
                        /\ users[v].role # "none" => users'[v].email = users[v].email
    BY <1>1, <1>11, <2>1 DEF AddUser, SameAddress
  <2>4. QED
    BY <2>1, <2>2, <2>3, AddressKept
<1>12. ASSUME NEW t \in Thread, NEW u \in User, NEW a \in Address \cup {NoAddress}, Vouch(t, u, a)
      PROVE  AddressInv'
  <2>1. UNCHANGED <<users, history>>
    BY <1>12 DEF Vouch
  <2>2. \/ Goes(t, [step |-> "vouch", user |-> u, email |-> users[u].email])
        \/ Goes(t, [step |-> "taken", user |-> u, email |-> a, next |-> "vouch"])
    BY <1>12 DEF Vouch, Takes
  <2>3. /\ Goes(t, at'[t])
        /\ at'[t].step \in AboutToConfirm => at'[t].email = users'[at'[t].user].email
    BY <2>1, <2>2, Others DEF AboutToConfirm
  <2>4. QED
    BY <2>1, <2>3, AddressKept DEF SameAddress
<1>13. ASSUME NEW t \in Thread, WriteAddress(t) PROVE AddressInv'
  <2> DEFINE u == at[t].user
             h == [step |-> at[t].next, user |-> u, email |-> at[t].email]
  <2>1. u \in User /\ at[t].step = "address"
    BY <1>13, Holding DEF WriteAddress, At
  <2>2. /\ users' = [users EXCEPT ![u].email = at[t].email, ![u].verified = FALSE]
        /\ Goes(t, h) /\ UNCHANGED proven
    BY <1>13 DEF WriteAddress, AddressSet
  <2>3. /\ users'[u].email = at[t].email /\ ~users'[u].verified
        /\ \A v \in User \ {u} : SameAddress(v)
    BY <1>1, <2>1, <2>2 DEF Rows, SameAddress
  <2>4. Goes(t, at'[t]) /\ at'[t].email = users'[at'[t].user].email
    <3>1. h.user = u /\ h.email = at[t].email
      OBVIOUS
    <3> HIDE DEF h
    <3>2. at'[t] = h
      BY <2>2, Others
    <3>3. QED
      BY <2>2, <2>3, <3>1, <3>2
  <2>5. /\ crossed.addresses \subseteq crossed'.addresses
        /\ Confirming(u) # {} => u \in crossed'.addresses
    BY <1>1, <1>13 DEF WriteAddress, HistoryTypeOK
  <2>6. \A v \in User : users'[v].email = users[v].email \/ v \in crossed'.addresses
            \/ \A s \in Thread \ {t} : at[s].step \in AboutToConfirm => at[s].user # v
    BY <2>3, <2>5 DEF SameAddress, Confirming, AboutToConfirm
  <2> HIDE DEF u, h
  <2>7. QED
    BY <2>2, <2>3, <2>4, <2>5, <2>6, AddressKept
<1>14. ASSUME NEW t \in Thread, CheckLink(t) PROVE AddressInv'
  <2> DEFINE h == [at[t] EXCEPT !.step = "confirm"]
  <2>1. at[t] \in Opening
    BY <1>14, Holding, OpenShape DEF CheckLink, At
  <2>2. h.user = at[t].user /\ h.email = at[t].email
    BY <2>1 DEF Opening
  <2>3. /\ Goes(t, Idle) \/ (Goes(t, h) /\ users[at[t].user].email = at[t].email)
        /\ UNCHANGED <<users, history>>
    BY <1>14 DEF CheckLink
  <2> HIDE DEF h
  <2>4. /\ Goes(t, at'[t])
        /\ at'[t].step \in AboutToConfirm => at'[t].email = users'[at'[t].user].email
    BY <2>2, <2>3, Others DEF AboutToConfirm, Idle
  <2>5. QED
    BY <2>3, <2>4, AddressKept DEF SameAddress
<1>15. ASSUME NEW t \in Thread, VouchTaken(t) PROVE AddressInv'
  <2> DEFINE h == [at[t] EXCEPT !.step = "vouched"]
  <2>1. at[t] \in Mailing /\ at[t].step = "vouch"
    BY <1>15, Holding, MailShape DEF VouchTaken, At
  <2>2. h.user = at[t].user /\ h.email = at[t].email
    BY <2>1 DEF Mailing
  <2>3. (Goes(t, Idle) \/ Goes(t, h)) /\ UNCHANGED <<users, history>>
    BY <1>15 DEF VouchTaken
  <2> HIDE DEF h
  <2>4. at[t].user \in crossed.addresses \/ at[t].email = users[at[t].user].email
    BY <2>1 DEF AddressInv, AddressHeld, AboutToConfirm
  <2>5. /\ Goes(t, at'[t])
        /\ at'[t].step \in AboutToConfirm =>
               at'[t].user \in crossed'.addresses \/ at'[t].email = users'[at'[t].user].email
    BY <2>2, <2>3, <2>4, Others DEF AboutToConfirm, Idle
  <2>6. QED
    BY <2>3, <2>5, AddressKept DEF SameAddress
<1>16. ASSUME NEW t \in Thread, Confirm(t) \/ VouchWrites(t) PROVE AddressInv'
  <2> DEFINE u == at[t].user
  <2>1. u \in User /\ at[t].step \in AboutToConfirm
    BY <1>16, Holding DEF Confirm, VouchWrites, At, AboutToConfirm
  <2>2. PICK h : Goes(t, h) /\ h.step \in {"idle", "sweep", "session"}
    BY <1>16 DEF Confirm, VouchWrites, Idle
  <2>3. /\ UNCHANGED crossed
        /\ \/ UNCHANGED <<users, proven>>
           \/ /\ users' = [users EXCEPT ![u].verified = TRUE]
              /\ proven' = proven \cup {<<u, at[t].email>>}
    BY <1>16 DEF Confirm, VouchWrites
  <2>4. Goes(t, at'[t]) /\ at'[t].step \notin AboutToConfirm
    BY <2>2, Others DEF AboutToConfirm
  <2>5. u \in crossed.addresses \/ at[t].email = users[u].email
    BY <2>1 DEF AddressInv, AddressHeld
  <2>6. \A v \in User : users'[v].email = users[v].email
    BY <1>1, <2>1, <2>3 DEF Rows
  <2>7. \A v \in User \ {u} : SameAddress(v)
    BY <1>1, <2>1, <2>3 DEF Rows, SameAddress
  <2>8. SameAddress(u) \/ <<u, users'[u].email>> \in proven' \/ u \in crossed'.addresses
    <3>1. CASE UNCHANGED <<users, proven>>
      BY <3>1 DEF SameAddress
    <3>2. CASE proven' = proven \cup {<<u, at[t].email>>}
      BY <2>1, <2>3, <2>5, <2>6, <3>2
    <3>3. QED
      BY <2>3, <3>1, <3>2
  <2> HIDE DEF u
  <2>9. QED
    BY <2>3, <2>4, <2>6, <2>7, <2>8, AddressKept
<1>17. ASSUME NEW t \in Thread, Notable(t) PROVE AddressInv'
  <2> HIDE DEF db
  <2>1. QED
    BY <1>10, <1>11, <1>12, <1>13, <1>14, <1>15, <1>16, <1>17, <1>5, <1>6, <1>7, <1>8, <1>9 DEF Notable
<1>18. QED
  BY <1>2, <1>17, <1>4, StepKinds

\* A confirmed account's address was confirmed by a link that was sent there, or by the
\* operator, unless it was changed between the check and the UPDATE of a confirmation
\* (confirm_email_token, cmd_verify).
THEOREM ConfirmedAddressProven == Spec => []AddressProven
<1>1. Init => AddressInv
  <2>1. ASSUME Init PROVE AddressHeld
    BY <2>1 DEF Init, AddressHeld, AboutToConfirm, Idle
  <2>2. ASSUME Init PROVE AddressProven
    BY <2>2 DEF Init, AddressProven
  <2>3. QED
    BY <2>1, <2>2 DEF AddressInv
<1>2. AddressInv => AddressProven
  BY DEF AddressInv
<1>3. QED
  BY <1>1, <1>2, Typed, NextAddressInv, PTL DEF Spec

(***************************************************************************)
(* That an administrator remains.                                          *)
(***************************************************************************)
Admin(u) == users[u].role = "admin"

\* Unless two demotions were under way at once, one is, and the one that is has counted
\* another administrator when it writes.
AdminInv ==
    ~crossed.demotions =>
        /\ \E u \in User : Admin(u)
        /\ \A s, t \in Thread : Demoting(s) /\ Demoting(t) => s = t
        /\ \A t \in Thread : At(t, "demote") => \E v \in User \ {at[t].user} : Admin(v)

\* A step that takes nobody's role, and starts no demotion.
LEMMA AdminKept ==
    ASSUME TypeInv, AdminInv, NEW t \in Thread, Goes(t, at'[t]),
           at'[t].step \notin {"count", "demote"}, \A v \in User : Admin(v) => Admin(v)',
           crossed'.demotions = crossed.demotions
    PROVE  AdminInv'
BY Others DEF AdminInv, Demoting, At

LEMMA NextAdminInv == TypeInv /\ AdminInv /\ [Next]_vars => AdminInv'
<1> SUFFICES ASSUME TypeInv, AdminInv, [Next]_vars PROVE AdminInv'
  OBVIOUS
<1>1. users \in [User -> Rows] /\ HistoryTypeOK
  BY DEF TypeInv, TypeOK
<1>2. ASSUME UNCHANGED <<at, users, history>> PROVE AdminInv'
  BY <1>2 DEF AdminInv, Demoting, At, Admin
<1>3. ASSUME NEW t \in Thread, NEW h, Goes(t, h), h.step \notin {"count", "demote"},
             \A v \in User : Admin(v) => Admin(v)', crossed'.demotions = crossed.demotions
      PROVE  AdminInv'
  BY <1>3, AdminKept, Others
<1>4. Idle.step \notin {"count", "demote"}
  BY DEF Idle
<1>5. ASSUME NEW t \in Thread, Quietly(t) PROVE AdminInv'
  BY <1>3, <1>5 DEF Quietly, Watched, Admin
<1>6. ASSUME NEW t \in Thread, NEW u \in User, NEW a \in Address, Register(t, u, a)
      PROVE  AdminInv'
  <2>1. \A v \in User : Admin(v) => Admin(v)'
    BY <1>1, <1>6 DEF Register, Admin
  <2>2. PICK h : Goes(t, h) /\ h.step = "session"
    BY <1>6 DEF Register, Takes
  <2>3. UNCHANGED history
    BY <1>6 DEF Register
  <2>4. QED
    BY <2>1, <2>2, <2>3, <1>3
<1>7. ASSUME NEW t \in Thread, NEW u \in User, NEW a \in Address \cup {NoAddress},
             NEW role \in {"user", "admin"}, AddUser(t, u, a, role)
      PROVE  AdminInv'
  <2>1. \A v \in User : Admin(v) => Admin(v)'
    BY <1>1, <1>7 DEF AddUser, Admin
  <2>2. Goes(t, Idle) /\ UNCHANGED crossed
    BY <1>7 DEF AddUser, Takes
  <2>3. QED
    BY <2>1, <2>2, <1>3, <1>4
<1>8. ASSUME NEW t \in Thread, NEW u \in User, NEW a \in Address \cup {NoAddress}, Vouch(t, u, a)
      PROVE  AdminInv'
  <2>1. PICK h : Goes(t, h) /\ h.step \in {"vouch", "taken"}
    BY <1>8 DEF Vouch, Takes
  <2>2. UNCHANGED <<users, history>>
    BY <1>8 DEF Vouch
  <2>3. QED
    BY <2>1, <2>2, <1>3 DEF Admin
<1>9. ASSUME NEW t \in Thread, NEW by \in User, NEW u \in User, NEW role \in {"user", "admin"},
             SetRole(t, by, u, role)
      PROVE  AdminInv'
  <2> DEFINE h == [step |-> IF role = "admin" THEN "promote"
                            ELSE IF users[u].role = "admin" THEN "count" ELSE "demote", user |-> u]
  <2>1. Goes(t, h) /\ UNCHANGED users
    BY <1>9 DEF SetRole, Takes
  <2>2. h.user = u /\ (h.step = "demote" => ~Admin(u)) /\ (role = "admin" => h.step = "promote")
    BY DEF Admin
  <2> HIDE DEF h
  <2>3. Admin(by)
    BY <1>9 DEF SetRole, RequireAdmin, Admin
  <2>4. CASE role = "admin"
    <3>1. crossed' = crossed
      BY <1>9, <2>4 DEF SetRole
    <3>2. QED
      BY <2>1, <2>2, <2>4, <3>1, <1>3 DEF Admin
  <2>5. CASE role = "user" /\ \E s \in Thread : Demoting(s)
    <3>1. crossed'.demotions
      BY <1>1, <1>9, <2>5 DEF SetRole, HistoryTypeOK
    <3>2. QED
      BY <3>1 DEF AdminInv
  <2>6. CASE role = "user" /\ ~\E s \in Thread : Demoting(s)
    <3>1. crossed' = crossed
      BY <1>9, <2>6 DEF SetRole
    <3>2. \A s \in Thread \ {t} : at'[s] = at[s]
      BY <2>1, Others
    <3>3. \A s \in Thread \ {t} : at'[s].step \notin {"count", "demote"}
      BY <2>6, <3>2 DEF Demoting
    <3>4. at'[t].step = "demote" => by \in User \ {at'[t].user} /\ Admin(by)'
      BY <2>1, <2>2, <2>3, Others DEF Admin
    <3>5. (\E v \in User : Admin(v)) => \E v \in User : Admin(v)'
      BY <2>1 DEF Admin
    <3>6. QED
      BY <3>1, <3>3, <3>4, <3>5 DEF AdminInv, Demoting, At
  <2>7. QED
    BY <2>4, <2>5, <2>6
<1>10. ASSUME NEW t \in Thread, NEW u \in User, Login(t, u) \/ Passwd(t, u) PROVE AdminInv'
  <2>1. PICK h : Goes(t, h) /\ h.step \in {"session", "revoke"}
    BY <1>10 DEF Login, Passwd, Takes
  <2>2. crossed'.demotions = crossed.demotions
    BY <1>1, <1>10 DEF Login, Passwd, HistoryTypeOK
  <2>3. \A v \in User : Admin(v) => Admin(v)'
    BY <1>1, <1>10 DEF Login, Passwd, Admin, Rows
  <2>4. QED
    BY <2>1, <2>2, <2>3, <1>3
<1>11. ASSUME NEW t \in Thread, NEW s \in sessions, Logout(t, s) PROVE AdminInv'
  BY <1>2, <1>11 DEF Logout
<1>12. ASSUME NEW t \in Thread, WriteAddress(t) PROVE AdminInv'
  <2>1. at[t] \in Changing /\ at[t].user \in User
    BY <1>12, Holding, ChangeShape DEF WriteAddress, At
  <2>2. PICK h : Goes(t, h) /\ h.step = at[t].next
    BY <1>12 DEF WriteAddress
  <2>3. h.step \notin {"count", "demote"}
    BY <2>1, <2>2 DEF Changing
  <2>4. crossed'.demotions = crossed.demotions
    BY <1>1, <1>12 DEF WriteAddress, HistoryTypeOK
  <2>5. \A v \in User : Admin(v) => Admin(v)'
    BY <1>1, <1>12, <2>1 DEF WriteAddress, AddressSet, Admin, Rows
  <2>6. QED
    BY <2>2, <2>3, <2>4, <2>5, <1>3
<1>13. ASSUME NEW t \in Thread, CheckLink(t) PROVE AdminInv'
  <2> DEFINE h == [at[t] EXCEPT !.step = "confirm"]
  <2>1. at[t] \in Opening
    BY <1>13, Holding, OpenShape DEF CheckLink, At
  <2>2. h.step = "confirm"
    BY <2>1 DEF Opening
  <2>3. (Goes(t, Idle) \/ Goes(t, h)) /\ UNCHANGED <<users, history>>
    BY <1>13 DEF CheckLink
  <2> HIDE DEF h
  <2>4. QED
    BY <2>2, <2>3, <1>3, <1>4 DEF Admin
<1>14. ASSUME NEW t \in Thread, VouchTaken(t) PROVE AdminInv'
  <2> DEFINE h == [at[t] EXCEPT !.step = "vouched"]
  <2>1. at[t] \in Mailing
    BY <1>14, Holding, MailShape DEF VouchTaken, At
  <2>2. h.step = "vouched"
    BY <2>1 DEF Mailing
  <2>3. (Goes(t, Idle) \/ Goes(t, h)) /\ UNCHANGED <<users, history>>
    BY <1>14 DEF VouchTaken
  <2> HIDE DEF h
  <2>4. QED
    BY <2>2, <2>3, <1>3, <1>4 DEF Admin
<1>15. ASSUME NEW t \in Thread, Confirm(t) \/ VouchWrites(t) PROVE AdminInv'
  <2>1. at[t].user \in User
    BY <1>15, Holding DEF Confirm, VouchWrites, At
  <2>2. PICK h : Goes(t, h) /\ h.step \in {"idle", "sweep", "session"}
    BY <1>15 DEF Confirm, VouchWrites, Idle
  <2>3. UNCHANGED crossed
    BY <1>15 DEF Confirm, VouchWrites
  <2>4. \A v \in User : Admin(v) => Admin(v)'
    BY <1>1, <1>15, <2>1 DEF Confirm, VouchWrites, Admin, Rows
  <2>5. QED
    BY <2>2, <2>3, <2>4, <1>3
<1>16. ASSUME NEW t \in Thread, CountAdmins(t) PROVE AdminInv'
  <2> DEFINE h == [at[t] EXCEPT !.step = "demote"]
  <2>1. at[t] \in Simple /\ at[t].step = "count"
    BY <1>16, Holding, SimpleShape DEF CountAdmins, At
  <2>2. h.step = "demote" /\ h.user = at[t].user
    BY <2>1 DEF Simple
  <2>3. /\ Goes(t, Idle) \/ (Goes(t, h) /\ Remaining(at[t].user) # {})
        /\ UNCHANGED <<users, history>>
    BY <1>16 DEF CountAdmins
  <2> HIDE DEF h
  <2>4. CASE Goes(t, Idle)
    BY <2>3, <2>4, <1>3, <1>4 DEF Admin
  <2>5. CASE Goes(t, h) /\ Remaining(at[t].user) # {}
    <3>1. at'[t] = h /\ \A s \in Thread \ {t} : at'[s] = at[s]
      BY <2>5, Others
    <3>2. \A v \in User : Admin(v)' <=> Admin(v)
      BY <2>3 DEF Admin
    <3>3. PICK v \in User \ {at[t].user} : Admin(v)
      BY <2>5 DEF Remaining, Admin
    <3>4. at'[t].user = at[t].user /\ Admin(v)'
      BY <2>2, <3>1, <3>2, <3>3
    <3>5. \A s \in Thread : Demoting(s)' => Demoting(s)
      BY <2>1, <3>1 DEF Demoting
    <3>6. ASSUME ~crossed.demotions, NEW s \in Thread \ {t}, at'[s].step = "demote"
          PROVE  \E w \in User \ {at'[s].user} : Admin(w)'
      BY <3>1, <3>2, <3>6 DEF AdminInv, At
    <3>7. ASSUME ~crossed.demotions, NEW s \in Thread, at'[s].step = "demote"
          PROVE  \E w \in User \ {at'[s].user} : Admin(w)'
      BY <3>3, <3>4, <3>6, <3>7
    <3>8. ~crossed.demotions => /\ \E w \in User : Admin(w)'
                               /\ \A r, s \in Thread : Demoting(r)' /\ Demoting(s)' => r = s
      BY <3>2, <3>5 DEF AdminInv
    <3>9. QED
      BY <2>3, <3>7, <3>8 DEF AdminInv, At
  <2>6. QED
    BY <2>3, <2>4, <2>5
<1>17. ASSUME NEW t \in Thread, WriteRole(t) PROVE AdminInv'
  <2>1. PICK u \in User : u = at[t].user /\ at[t].step \in {"promote", "demote"}
    BY <1>17, Holding DEF WriteRole
  <2>2. Goes(t, Idle) /\ UNCHANGED history
    BY <1>17 DEF WriteRole
  <2>3. /\ \A v \in User \ {u} : Admin(v)' <=> Admin(v)
        /\ at[t].step = "promote" => Admin(u)'
    BY <1>1, <1>17, <2>1 DEF WriteRole, At, Admin, Rows
  <2>4. CASE at[t].step = "promote"
    <3>1. \A v \in User : Admin(v) => Admin(v)'
      BY <2>3, <2>4
    <3>2. QED
      BY <2>2, <3>1, <1>3, <1>4
  <2>5. CASE at[t].step = "demote" /\ ~crossed.demotions
    <3>1. PICK v \in User \ {u} : Admin(v)
      BY <2>1, <2>5 DEF AdminInv, At
    <3>2. Admin(v)'
      BY <2>3, <3>1
    <3>3. \A s \in Thread \ {t} : ~Demoting(s)
      BY <2>5 DEF AdminInv, Demoting
    <3>4. \A s \in Thread : at'[s].step \notin {"count", "demote"}
      BY <2>2, <3>3, Others, <1>4 DEF Demoting
    <3>5. QED
      BY <3>2, <3>4 DEF AdminInv, Demoting, At
  <2>6. CASE crossed.demotions
    BY <2>2, <2>6 DEF AdminInv
  <2>7. QED
    BY <2>1, <2>4, <2>5, <2>6
<1>18. ASSUME NEW t \in Thread, CreateSession(t) \/ RevokeSessions(t) PROVE AdminInv'
  <2>1. (Goes(t, Idle) \/ CreateSession(t)) /\ UNCHANGED <<users, history>>
    BY <1>18 DEF CreateSession, RevokeSessions
  <2>2. Goes(t, at'[t]) /\ at'[t].step \notin {"count", "demote"}
    BY <2>1, <1>4, Others, OpensNext
  <2>3. QED
    BY <2>1, <2>2, AdminKept DEF Admin
<1>19. ASSUME NEW t \in Thread, Notable(t) PROVE AdminInv'
  BY <1>6, <1>7, <1>8, <1>9, <1>10, <1>11, <1>12, <1>13, <1>14, <1>15, <1>16, <1>17, <1>18, <1>19
     DEF Notable
<1>20. QED
  BY <1>2, <1>5, <1>19, StepKinds

\* As long as no two demotions were under way at once, somebody is an administrator (set_role
\* refuses to take the role from the only one).
THEOREM SomebodyAdministers == Spec => []AdminRemains
<1>1. Init => AdminInv
  BY FirstUsersAssumption DEF Init, AdminInv, Admin, Demoting, At, Idle
<1>2. AdminInv => AdminRemains
  BY DEF AdminInv, AdminRemains, Admin
<1>3. QED
  BY <1>1, <1>2, Typed, NextAdminInv, PTL DEF Spec

(***************************************************************************)
(* Whose sessions are revoked.                                             *)
(***************************************************************************)
\* Who is about to open a session was let in while the password was the one that counts, or
\* its change is on record.
PasswordHeld ==
    \A t \in Thread : At(t, "session") =>
        at[t].password = users[at[t].user].password \/ at[t].user \in crossed.passwords

PasswordInv == PasswordHeld /\ OldPasswordGone

Revoking(u) == \E t \in Thread : At(t, "revoke") /\ at[t].user = u

\* A step keeps it when the passwords of who is registered stay, and a session that is new is
\* opened with the password that counts.
LEMMA PasswordKept ==
    ASSUME TypeInv, PasswordInv, NEW t \in Thread, Goes(t, at'[t]), at[t].step # "revoke",
           \A v \in User : users[v].role # "none" => users'[v].password = users[v].password,
           at'[t].step = "session" => at'[t].password = users'[at'[t].user].password,
           crossed'.passwords = crossed.passwords,
           \A s \in sessions' \ sessions :
               s.password = users'[s.user].password \/ s.user \in crossed.passwords
    PROVE  PasswordInv'
<1>1. \A s \in Thread \ {t} : at'[s] = at[s]
  BY Others
<1>2. ASSUME NEW s \in Thread \ {t}, at[s].step = "session"
      PROVE  at[s].password = users'[at[s].user].password \/ at[s].user \in crossed.passwords
  <2>1. at[s].user \in User /\ users[at[s].user].role # "none"
    BY <1>2, Holding
  <2>2. QED
    BY <1>2, <2>1 DEF PasswordInv, PasswordHeld, At
<1>3. PasswordHeld'
  BY <1>1, <1>2 DEF PasswordHeld, At
<1>4. \A u \in User : Revoking(u) => Revoking(u)'
  BY <1>1 DEF Revoking, At
<1>5. ASSUME NEW s \in sessions
      PROVE  s.password = users'[s.user].password \/ s.user \in crossed.passwords \/ Revoking(s.user)'
  <2>1. s.user \in User /\ users[s.user].role # "none"
    BY DEF TypeInv, TypeOK, SignedIn
  <2>2. QED
    BY <1>4, <2>1 DEF PasswordInv, OldPasswordGone, Revoking
<1>6. OldPasswordGone'
  BY <1>5 DEF OldPasswordGone, Revoking
<1>7. QED
  BY <1>3, <1>6 DEF PasswordInv

LEMMA NextPasswordInv == TypeInv /\ PasswordInv /\ [Next]_vars => PasswordInv'
<1> SUFFICES ASSUME TypeInv, PasswordInv, [Next]_vars PROVE PasswordInv'
  OBVIOUS
<1>1. users \in [User -> Rows] /\ HistoryTypeOK
  BY DEF TypeInv, TypeOK
<1>2. ASSUME UNCHANGED <<at, users, history>>, sessions' \subseteq sessions PROVE PasswordInv'
  <2>1. PasswordHeld'
    BY <1>2 DEF PasswordInv, PasswordHeld, At
  <2>2. OldPasswordGone'
    BY <1>2 DEF PasswordInv, OldPasswordGone, At
  <2>3. QED
    BY <2>1, <2>2 DEF PasswordInv
<1>3. ASSUME NEW t \in Thread, NEW h, Goes(t, h), at[t].step # "revoke", h.step # "session",
             \A v \in User : users[v].role # "none" => users'[v].password = users[v].password,
             crossed'.passwords = crossed.passwords, UNCHANGED sessions
      PROVE  PasswordInv'
  BY <1>3, PasswordKept, Others
<1>4. Idle.step # "session"
  BY DEF Idle
<1>5. ASSUME NEW t \in Thread, Quietly(t) PROVE PasswordInv'
  BY <1>3, <1>5 DEF Quietly, Watched
<1>6. ASSUME NEW t \in Thread, NEW u \in User, NEW a \in Address, Register(t, u, a)
      PROVE  PasswordInv'
  <2>1. PICK h : Takes(t, h) /\ h.step = "session" /\ h.user = u /\ h.password = 0
    BY <1>6 DEF Register
  <2>2. Goes(t, at'[t]) /\ at'[t] = h /\ at[t].step # "revoke"
    BY <2>1, Others, TakesFree DEF Takes
  <2>3. /\ \A v \in User : users[v].role # "none" => users'[v].password = users[v].password
        /\ users'[u].password = 0
    BY <1>1, <1>6 DEF Register
  <2>4. UNCHANGED <<crossed, sessions>>
    BY <1>6 DEF Register
  <2>5. QED
    BY <2>1, <2>2, <2>3, <2>4, PasswordKept
<1>7. ASSUME NEW t \in Thread, NEW u \in User, NEW a \in Address \cup {NoAddress},
             NEW role \in {"user", "admin"}, AddUser(t, u, a, role)
      PROVE  PasswordInv'
  <2>1. Goes(t, Idle) /\ at[t].step # "revoke" /\ UNCHANGED <<crossed, sessions>>
    BY <1>7, TakesFree DEF AddUser, Takes
  <2>2. \A v \in User : users[v].role # "none" => users'[v].password = users[v].password
    BY <1>1, <1>7 DEF AddUser
  <2>3. QED
    BY <2>1, <2>2, <1>3, <1>4
<1>8. ASSUME NEW t \in Thread, NEW u \in User, NEW a \in Address \cup {NoAddress}, Vouch(t, u, a)
      PROVE  PasswordInv'
  <2>1. PICK h : Takes(t, h) /\ h.step \in {"vouch", "taken"}
    BY <1>8 DEF Vouch
  <2>2. Goes(t, h) /\ at[t].step # "revoke" /\ UNCHANGED <<users, sessions, crossed>>
    BY <1>8, <2>1, TakesFree DEF Vouch, Takes
  <2>3. QED
    BY <2>1, <2>2, <1>3
<1>9. ASSUME NEW t \in Thread, NEW by \in User, NEW u \in User, NEW role \in {"user", "admin"},
             SetRole(t, by, u, role)
      PROVE  PasswordInv'
  <2>1. PICK h : Takes(t, h) /\ h.step \in {"promote", "count", "demote"}
    BY <1>9 DEF SetRole
  <2>2. Goes(t, h) /\ at[t].step # "revoke" /\ UNCHANGED <<users, sessions>>
    BY <1>9, <2>1, TakesFree DEF SetRole, Takes
  <2>3. crossed'.passwords = crossed.passwords
    BY <1>1, <1>9 DEF SetRole, HistoryTypeOK
  <2>4. QED
    BY <2>1, <2>2, <2>3, <1>3
<1>10. ASSUME NEW t \in Thread, NEW u \in User, Login(t, u) PROVE PasswordInv'
  <2> DEFINE h == [step |-> "session", user |-> u, password |-> users[u].password, next |-> Idle]
  <2>1. Takes(t, h) /\ UNCHANGED <<users, sessions, crossed>>
    BY <1>10 DEF Login
  <2>2. h.password = users[h.user].password
    OBVIOUS
  <2> HIDE DEF h
  <2>3. Goes(t, h) /\ at[t].step # "revoke" /\ at'[t] = h
    BY <2>1, TakesFree, Others DEF Takes
  <2>4. at'[t].password = users'[at'[t].user].password
    BY <2>1, <2>2, <2>3
  <2>5. QED
    BY <2>1, <2>3, <2>4, PasswordKept
<1>11. ASSUME NEW t \in Thread, NEW u \in User, Passwd(t, u) PROVE PasswordInv'
  <2> DEFINE h == [step |-> "revoke", user |-> u]
  <2>1. /\ Takes(t, h) /\ Goes(t, h) /\ UNCHANGED sessions
        /\ users' = [users EXCEPT ![u].password = @ + 1]
    BY <1>11 DEF Passwd, Takes
  <2>2. \A v \in User \ {u} : users'[v].password = users[v].password
    BY <1>1, <2>1 DEF Rows
  <2>3. /\ crossed.passwords \subseteq crossed'.passwords
        /\ (\E s \in Thread : At(s, "session") /\ at[s].user = u) => u \in crossed'.passwords
    BY <1>1, <1>11 DEF Passwd, HistoryTypeOK
  <2>4. at'[t] = h /\ \A s \in Thread \ {t} : at'[s] = at[s]
    BY <2>1, Others
  <2>5. at'[t].step = "revoke" /\ at'[t].user = u /\ at[t].step # "revoke"
    BY <2>1, <2>4, TakesFree
  <2>6. ASSUME NEW s \in Thread \ {t}, at[s].step = "session"
        PROVE  at[s].password = users'[at[s].user].password \/ at[s].user \in crossed'.passwords
    <3>1. at[s].user \in User
      BY <2>6, Holding
    <3>2. QED
      BY <2>2, <2>3, <2>6, <3>1 DEF PasswordInv, PasswordHeld, At
  <2>7. PasswordHeld'
    BY <2>4, <2>5, <2>6 DEF PasswordHeld, At
  <2>8. ASSUME NEW s \in sessions
        PROVE  s.password = users'[s.user].password \/ s.user \in crossed'.passwords \/ Revoking(s.user)'
    <3>1. s.user \in User
      BY DEF TypeInv, TypeOK
    <3>2. CASE s.user = u
      BY <2>5, <3>2 DEF Revoking, At
    <3>3. CASE s.user # u
      <4>1. Revoking(s.user) => Revoking(s.user)'
        BY <2>4, <2>5 DEF Revoking, At
      <4>2. users'[s.user].password = users[s.user].password
        BY <2>2, <3>1, <3>3
      <4>3. QED
        BY <2>3, <4>1, <4>2 DEF PasswordInv, OldPasswordGone, Revoking
    <3>4. QED
      BY <3>2, <3>3
  <2>9. OldPasswordGone'
    BY <2>1, <2>8 DEF OldPasswordGone, Revoking
  <2>10. QED
    BY <2>7, <2>9 DEF PasswordInv
<1>12. ASSUME NEW t \in Thread, NEW s \in sessions, Logout(t, s) PROVE PasswordInv'
  BY <1>2, <1>12 DEF Logout
<1>13. ASSUME NEW t \in Thread, WriteAddress(t) PROVE PasswordInv'
  <2>1. at[t] \in Changing /\ at[t].user \in User /\ at[t].step # "revoke"
    BY <1>13, Holding, ChangeShape DEF WriteAddress, At
  <2>2. PICK h : Goes(t, h) /\ h.step = at[t].next
    BY <1>13 DEF WriteAddress
  <2>3. h.step # "session"
    BY <2>1, <2>2 DEF Changing
  <2>4. crossed'.passwords = crossed.passwords /\ UNCHANGED sessions
    BY <1>1, <1>13 DEF WriteAddress, HistoryTypeOK
  <2>5. \A v \in User : users'[v].password = users[v].password
    BY <1>1, <1>13, <2>1 DEF WriteAddress, AddressSet, Rows
  <2>6. QED
    BY <2>1, <2>2, <2>3, <2>4, <2>5, <1>3
<1>14. ASSUME NEW t \in Thread, CheckLink(t) \/ VouchTaken(t) \/ CountAdmins(t) PROVE PasswordInv'
  <2>1. PICK step \in {"confirm", "vouched", "demote"} :
           Goes(t, Idle) \/ Goes(t, [at[t] EXCEPT !.step = step])
    BY <1>14 DEF CheckLink, VouchTaken, CountAdmins
  <2>2. at[t] \in Opening \cup Mailing \cup Simple /\ at[t].step # "revoke"
    BY <1>14, Holding, OpenShape, MailShape, SimpleShape DEF CheckLink, VouchTaken, CountAdmins, At
  <2>3. [at[t] EXCEPT !.step = step].step # "session"
    BY <2>2 DEF Opening, Mailing, Simple
  <2>4. UNCHANGED <<users, sessions, crossed>>
    BY <1>14 DEF CheckLink, VouchTaken, CountAdmins
  <2>5. QED
    BY <2>1, <2>2, <2>3, <2>4, <1>3, <1>4
<1>15. ASSUME NEW t \in Thread, Confirm(t) \/ VouchWrites(t) PROVE PasswordInv'
  <2>1. at[t].user \in User /\ at[t].step # "revoke"
    BY <1>15, Holding DEF Confirm, VouchWrites, At
  <2>2. PICK h : /\ Goes(t, h) /\ h.step \in {"idle", "sweep", "session"}
                 /\ h.step = "session" => h.user = at[t].user /\ h.password = users[h.user].password
    BY <1>15 DEF Confirm, VouchWrites, Idle
  <2>3. UNCHANGED <<crossed, sessions>>
    BY <1>15 DEF Confirm, VouchWrites
  <2>4. \A v \in User : users'[v].password = users[v].password
    BY <1>1, <1>15, <2>1 DEF Confirm, VouchWrites, Rows
  <2>5. Goes(t, at'[t]) /\ at'[t] = h
    BY <2>2, Others
  <2>6. at'[t].step = "session" => at'[t].password = users'[at'[t].user].password
    BY <2>1, <2>2, <2>4, <2>5
  <2>7. QED
    BY <2>1, <2>3, <2>4, <2>5, <2>6, PasswordKept
<1>16. ASSUME NEW t \in Thread, WriteRole(t) PROVE PasswordInv'
  <2>1. at[t].user \in User /\ at[t].step # "revoke"
    BY <1>16, Holding DEF WriteRole
  <2>2. Goes(t, Idle) /\ UNCHANGED <<crossed, sessions>>
    BY <1>16 DEF WriteRole
  <2>3. \A v \in User : users'[v].password = users[v].password
    BY <1>1, <1>16, <2>1 DEF WriteRole, Rows
  <2>4. QED
    BY <2>1, <2>2, <2>3, <1>3, <1>4
<1>17. ASSUME NEW t \in Thread, CreateSession(t) PROVE PasswordInv'
  <2>1. at[t].step = "session" /\ UNCHANGED <<users, crossed>>
    BY <1>17 DEF CreateSession, At
  <2>2. \A s \in sessions' \ sessions : s.password = users'[s.user].password \/ s.user \in crossed.passwords
    BY <1>17, <2>1 DEF CreateSession, PasswordInv, PasswordHeld, At
  <2>3. Goes(t, at'[t]) /\ at'[t].step # "session"
    BY <1>17, OpensNext
  <2>4. QED
    BY <2>1, <2>2, <2>3, PasswordKept
<1>18. ASSUME NEW t \in Thread, RevokeSessions(t) PROVE PasswordInv'
  <2>1. Goes(t, Idle) /\ UNCHANGED <<users, crossed>>
    BY <1>18 DEF RevokeSessions
  <2>2. sessions' = {s \in sessions : s.user # at[t].user}
    BY <1>18 DEF RevokeSessions, Revoked
  <2>3. at'[t] = Idle /\ \A s \in Thread \ {t} : at'[s] = at[s]
    BY <2>1, Others
  <2>4. PasswordHeld'
    BY <2>1, <2>3, <1>4 DEF PasswordInv, PasswordHeld, At
  <2>5. ASSUME NEW s \in sessions'
        PROVE  s.password = users'[s.user].password \/ s.user \in crossed'.passwords \/ Revoking(s.user)'
    <3>1. s \in sessions /\ s.user # at[t].user
      BY <2>2
    <3>2. Revoking(s.user) => \E r \in Thread \ {t} : At(r, "revoke") /\ at[r].user = s.user
      BY <3>1 DEF Revoking
    <3>3. Revoking(s.user) => \E r \in Thread : at'[r].step = "revoke" /\ at'[r].user = s.user
      BY <2>3, <3>2 DEF At
    <3>4. QED
      BY <2>1, <3>1, <3>3 DEF PasswordInv, OldPasswordGone, Revoking, At
  <2>6. OldPasswordGone'
    BY <2>5 DEF OldPasswordGone, Revoking
  <2>7. QED
    BY <2>4, <2>6 DEF PasswordInv
<1>19. ASSUME NEW t \in Thread, Notable(t) PROVE PasswordInv'
  BY <1>6, <1>7, <1>8, <1>9, <1>10, <1>11, <1>12, <1>13, <1>14, <1>15, <1>16, <1>17, <1>18, <1>19
     DEF Notable
<1>20. QED
  BY <1>2, <1>5, <1>19, StepKinds

\* No session opened before a change of password is left when the change is over, unless a
\* sign-in, a registration or a confirmation had let the user in before it and creates the
\* session afterwards (cmd_passwd; login, register, verify).
THEOREM OldSessionsRevoked == Spec => []OldPasswordGone
<1>1. Init => PasswordInv
  <2>1. ASSUME Init PROVE PasswordHeld
    BY <2>1 DEF Init, PasswordHeld, At, Idle
  <2>2. ASSUME Init PROVE OldPasswordGone
    BY <2>2 DEF Init, OldPasswordGone
  <2>3. QED
    BY <2>1, <2>2 DEF PasswordInv
<1>2. PasswordInv => OldPasswordGone
  BY DEF PasswordInv
<1>3. QED
  BY <1>1, <1>2, Typed, NextPasswordInv, PTL DEF Spec

-----------------------------------------------------------------------------
(* Limits: what is checked before it is counted is passed by as many       *)
(* threads as check before the first is counted.                           *)

\* The handlers that will insert a submission of u, and those whose hit is still to come.
Inserting(u) == {t \in Thread : At(t, "insert") /\ at[t].user = u}
Admitted == {"in flight", "insert", "hit"}
Due(k, u) ==
    {t \in Thread : /\ at[t].step \in Admitted /\ at[t].user = u
                    /\ k = IF At(t, "hit") THEN at[t].limiter ELSE "submit"}

AdmissionInv ==
    \A u \in User :
        /\ Submitted(u) + Cardinality(Inserting(u)) <= MaxInFlight + Cardinality(Thread) - 1
        /\ \A k \in Limiters :
              hits[k][u] + Cardinality(Due(k, u)) <= Limit[k] + Cardinality(Thread) - 1

LEMMA SomeThreads ==
    ASSUME NEW S, S \subseteq Thread
    PROVE  /\ IsFiniteSet(S) /\ Cardinality(S) \in Nat /\ Cardinality(Thread) \in Nat
           /\ Cardinality(S) <= Cardinality(Thread)
           /\ \A T \in SUBSET S : Cardinality(T) \in Nat /\ Cardinality(T) <= Cardinality(S)
BY BoundAssumption, FS_Subset, FS_CardinalityType

LEMMA OneLess ==
    ASSUME NEW S, S \subseteq Thread, NEW t \in S
    PROVE  Cardinality(S \ {t}) = Cardinality(S) - 1
BY SomeThreads, FS_RemoveElement

LEMMA NumbersTyped ==
    ASSUME TypeInv
    PROVE  /\ MaxInFlight \in Nat \ {0} /\ \A k \in Limiters : Limit[k] \in Nat \ {0}
           /\ \A u \in User : Submitted(u) \in Nat /\ \A k \in Limiters : hits[k][u] \in Nat
           /\ \A u \in User : Inserting(u) \subseteq Thread /\ \A k \in Limiters : Due(k, u) \subseteq Thread
<1>1. "submit" \in Origins
  BY DEF Origins
<1>2. \A u \in User : Submitted(u) \in Nat
  BY <1>1, Tallied
<1>3. QED
  BY <1>2, LimitAssumption DEF TypeInv, TypeOK, Inserting, Due

LEMMA IdleNotAdmitted == Idle.step \notin Admitted
BY DEF Idle, Admitted

\* What submit let in, and the hits, are no more than before.
NoMore == UNCHANGED hits /\ \A u \in User : Submitted(u)' <= Submitted(u)

\* The steps that neither count, nor go where something is counted.
Uncounted(t) == Goes(t, at'[t]) /\ at'[t].step \notin Admitted /\ NoMore

LEMMA SameNoMore == ASSUME TypeInv, UNCHANGED limits PROVE NoMore
<1>1. \A u \in User : Submitted(u)' = Submitted(u) /\ Submitted(u) \in Nat
  BY NumbersTyped DEF Submitted
<1>2. QED
  BY <1>1 DEF NoMore

\* A write for what was queued in bulk or sent back, or one that leaves the account as much.
LEMMA WrittenNoMore ==
    ASSUME TypeInv, NEW o \in Origins, NEW u \in User, NEW c \in Count, Written(o, u, c),
           UNCHANGED hits,
           o = "other" \/ c.pending + c.judging <= flight[o][u].pending + flight[o][u].judging
    PROVE  NoMore
<1>1. \A v \in User \ {u} : Submitted(v)' = Submitted(v)
  BY FlightWritten
<1>2. Submitted(u)' <= Submitted(u)
  <2>1. CASE o = "other"
    <3>1. flight'["submit"][u] = flight["submit"][u]
      BY <2>1, FlightWritten DEF Origins
    <3>2. QED
      BY <3>1, NumbersTyped DEF Submitted
  <2>2. CASE o = "submit"
    <3>1. flight'["submit"][u] = c
      BY <2>2, FlightWritten
    <3>2. QED
      BY <2>2, <3>1 DEF Submitted
  <2>3. QED
    BY <2>1, <2>2 DEF Origins
<1>3. \A v \in User : Submitted(v)' <= Submitted(v)
  BY <1>1, <1>2, NumbersTyped
<1>4. QED
  BY <1>3 DEF NoMore

LEMMA ClaimedNoMore ==
    ASSUME TypeInv, NEW o \in Origins, NEW u \in User, Claimed(o, u) \/ Graded(o, u) PROVE NoMore
<1>1. flight[o][u].pending \in Nat /\ flight[o][u].judging \in Nat
  BY Tallied
<1>2. CASE Claimed(o, u)
  <2> DEFINE c == [pending |-> flight[o][u].pending - 1, judging |-> flight[o][u].judging + 1]
  <2>1. c \in Count /\ Written(o, u, c) /\ UNCHANGED hits
    BY <1>1, <1>2 DEF Claimed, Count, Written
  <2>2. c.pending + c.judging = flight[o][u].pending + flight[o][u].judging
    BY <1>1
  <2> HIDE DEF c
  <2>3. c.pending + c.judging <= flight[o][u].pending + flight[o][u].judging
    BY <1>1, <2>2
  <2>4. QED
    BY <2>1, <2>3, WrittenNoMore
<1>3. CASE Graded(o, u)
  <2>1. PICK c \in Count : /\ Written(o, u, c)
                           /\ c.pending <= flight[o][u].pending
                           /\ c.judging <= flight[o][u].judging
    BY <1>3, GradedCount
  <2>2. c.pending \in Nat /\ c.judging \in Nat
    BY DEF Count
  <2>3. c.pending + c.judging <= flight[o][u].pending + flight[o][u].judging
    BY <1>1, <2>1, <2>2
  <2>4. QED
    BY <1>3, <2>1, <2>3, WrittenNoMore DEF Graded
<1>4. QED
  BY <1>2, <1>3

LEMMA QueuedNoMore == ASSUME TypeInv, NEW t \in Thread, QueueSource(t) PROVE NoMore
<1> DEFINE u == at[t].user
           c == [flight["other"][u] EXCEPT !.pending = @ + 1]
<1>1. u \in User /\ "other" \in Origins
  BY Holding DEF QueueSource, At, Origins
<1>2. c \in Count /\ Written("other", u, c) /\ UNCHANGED hits
  BY <1>1, Tallied DEF QueueSource, Count, Written
<1> HIDE DEF c, u
<1>3. QED
  BY <1>1, <1>2, WrittenNoMore

LEMMA RejudgedNoMore ==
    ASSUME TypeInv, NEW t \in Thread, NEW by \in User, NEW u \in User, Rejudge(t, by, u) PROVE NoMore
<1>1. CASE flight' = [flight EXCEPT !["other"][u].pending = @ + 1]
  <2> DEFINE c == [flight["other"][u] EXCEPT !.pending = @ + 1]
  <2>1. "other" \in Origins
    BY DEF Origins
  <2>2. c \in Count /\ Written("other", u, c) /\ UNCHANGED hits
    BY <1>1, <2>1, Tallied DEF Rejudge, Count, Written
  <2> HIDE DEF c
  <2>3. QED
    BY <2>1, <2>2, WrittenNoMore
<1>2. ASSUME NEW o \in Origins, flight[o][u].judging > 0,
             flight' = [flight EXCEPT ![o][u] = [pending |-> @.pending + 1,
                                                 judging |-> @.judging - 1]]
      PROVE  NoMore
  <2> DEFINE c == [pending |-> flight[o][u].pending + 1, judging |-> flight[o][u].judging - 1]
  <2>1. flight[o][u].pending \in Nat /\ flight[o][u].judging \in Nat
    BY Tallied
  <2>2. c \in Count /\ Written(o, u, c) /\ UNCHANGED hits
    BY <1>2, <2>1 DEF Rejudge, Count, Written
  <2>3. c.pending + c.judging <= flight[o][u].pending + flight[o][u].judging
    BY <2>1
  <2> HIDE DEF c
  <2>4. QED
    BY <2>2, <2>3, WrittenNoMore
<1>3. QED
  BY <1>1, <1>2 DEF Rejudge

LEMMA LimitKinds ==
    ASSUME TypeInv, [Next]_vars
    PROVE  \/ UNCHANGED <<at, limits>>
           \/ \E t \in Thread :
                 \/ Uncounted(t) \/ Counts(t) \/ CountInFlight(t) \/ Insert(t)
                 \/ \E u \in User : Submit(t, u) \/ Resend(t, u) \/ \E a \in Address : SetEmail(t, u, a)
           \/ \E u \in User, o \in Origins : Claimed(o, u) \/ Graded(o, u)
           \/ \E u \in User, k \in Limiters : Slides(k, u)
<1> DEFINE Counting(t) ==
             \/ Uncounted(t) \/ Counts(t) \/ CountInFlight(t) \/ Insert(t)
             \/ \E u \in User : Submit(t, u) \/ Resend(t, u) \/ \E a \in Address : SetEmail(t, u, a)
           G == \/ UNCHANGED <<at, limits>>
                \/ \E t \in Thread : Counting(t)
                \/ \E u \in User, o \in Origins : Claimed(o, u) \/ Graded(o, u)
                \/ \E u \in User, k \in Limiters : Slides(k, u)
<1>1. SUFFICES G
  OBVIOUS
<1>2. ASSUME NEW t \in Thread, Counting(t) PROVE G
  BY <1>2
<1>3. ASSUME NEW t \in Thread, NEW h, Goes(t, h), h.step \notin Admitted, UNCHANGED limits PROVE G
  BY <1>2, <1>3, Others, SameNoMore DEF Uncounted
<1>4. UNCHANGED <<at, limits>> => G
  OBVIOUS
<1>5. \/ \E u \in User, o \in Origins : Claimed(o, u) \/ Graded(o, u)
      \/ \E u \in User, k \in Limiters : Slides(k, u)
      => G
  OBVIOUS
<1> HIDE DEF G
<1>6. ASSUME NEW t \in Thread, Request(t) PROVE G
  <2>1. ASSUME NEW u \in User, Login(t, u) \/ Passwd(t, u) PROVE G
    <3>1. PICK h : Goes(t, h) /\ h.step \in {"session", "revoke"}
      BY <2>1 DEF Login, Passwd, Takes
    <3>2. UNCHANGED limits
      BY <2>1 DEF Login, Passwd
    <3>3. QED
      BY <3>1, <3>2, <1>3 DEF Admitted
  <2>2. ASSUME NEW u \in User, NEW a \in Address, Register(t, u, a) PROVE G
    <3>1. PICK h : Goes(t, h) /\ h.step = "session"
      BY <2>2 DEF Register, Takes
    <3>2. UNCHANGED limits
      BY <2>2 DEF Register
    <3>3. QED
      BY <3>1, <3>2, <1>3 DEF Admitted
  <2>3. ASSUME NEW u \in User, NEW a \in Address \cup {NoAddress}, Vouch(t, u, a) PROVE G
    <3>1. PICK h : Goes(t, h) /\ h.step \in {"vouch", "taken"}
      BY <2>3 DEF Vouch, Takes
    <3>2. UNCHANGED limits
      BY <2>3 DEF Vouch
    <3>3. QED
      BY <3>1, <3>2, <1>3 DEF Admitted
  <2>4. ASSUME NEW u \in User, NEW a \in Address \cup {NoAddress},
               NEW role \in {"user", "admin"}, AddUser(t, u, a, role)
        PROVE  G
    BY <2>4, <1>3 DEF AddUser, Takes, Idle, Admitted
  <2>5. ASSUME NEW link \in issued, Verify(t, link) PROVE G
    <3>1. PICK h : Goes(t, h) /\ h.step = "link"
      BY <2>5 DEF Verify, Takes
    <3>2. UNCHANGED limits
      BY <2>5 DEF Verify
    <3>3. QED
      BY <3>1, <3>2, <1>3 DEF Admitted
  <2>6. ASSUME NEW by \in User, NEW u \in User, NEW role \in {"user", "admin"},
               SetRole(t, by, u, role)
        PROVE  G
    <3>1. PICK h : Goes(t, h) /\ h.step \in {"promote", "count", "demote"}
      BY <2>6 DEF SetRole, Takes
    <3>2. UNCHANGED limits
      BY <2>6 DEF SetRole
    <3>3. QED
      BY <3>1, <3>2, <1>3 DEF Admitted
  <2>7. ASSUME NEW s \in sessions, Logout(t, s) PROVE G
    BY <2>7, <1>4 DEF Logout
  <2>8. ASSUME NEW u \in User, Submit(t, u) \/ Resend(t, u) \/ \E a \in Address : SetEmail(t, u, a)
        PROVE  G
    BY <2>8, <1>2
  <2>9. ASSUME NEW u \in User, NEW n \in 1..MaxBulkFiles, BulkSubmit(t, u, n) PROVE G
    <3>1. PICK h : Goes(t, h) /\ h.step = "queue"
      BY <2>9 DEF BulkSubmit, Takes
    <3>2. UNCHANGED limits
      BY <2>9 DEF BulkSubmit
    <3>3. QED
      BY <3>1, <3>2, <1>3 DEF Admitted
  <2>10. ASSUME (\E by, u \in User : Rejudge(t, by, u)) \/ RejudgeAll(t) PROVE G
    <3>1. Goes(t, Idle)
      BY <2>10 DEF Rejudge, RejudgeAll, Takes
    <3>2. NoMore
      <4>1. CASE RejudgeAll(t)
        <5>1. UNCHANGED hits /\ \A u \in User : Submitted(u)' = Submitted(u)
          BY <4>1, AllSentBack DEF RejudgeAll
        <5>2. QED
          BY <5>1, NumbersTyped DEF NoMore
      <4>2. QED
        BY <2>10, <4>1, RejudgedNoMore
    <3>3. Goes(t, at'[t]) /\ at'[t].step \notin Admitted
      BY <3>1, Others, IdleNotAdmitted
    <3>4. QED
      BY <3>2, <3>3, <1>2 DEF Uncounted
  <2>11. QED
    BY <1>6, <2>1, <2>2, <2>3, <2>4, <2>5, <2>6, <2>7, <2>8, <2>9, <2>10 DEF Request
<1>7. ASSUME NEW t \in Thread, Step(t) PROVE G
  <2>1. Idle.step \notin Admitted
    BY DEF Idle, Admitted
  <2>2. ASSUME AskTaken(t) \/ CheckLink(t) \/ VouchTaken(t) \/ CountAdmins(t) PROVE G
    <3>1. PICK step \in {"address", "confirm", "vouched", "demote"} :
             Goes(t, Idle) \/ Goes(t, [at[t] EXCEPT !.step = step])
      BY <2>2 DEF AskTaken, CheckLink, VouchTaken, CountAdmins
    <3>2. at[t] \in Changing \cup Opening \cup Mailing \cup Simple
      BY <2>2, Holding, ChangeShape, OpenShape, MailShape, SimpleShape
         DEF AskTaken, CheckLink, VouchTaken, CountAdmins, At
    <3>3. [at[t] EXCEPT !.step = step].step \notin Admitted
      BY <3>2 DEF Changing, Opening, Mailing, Simple, Admitted
    <3>4. UNCHANGED limits
      BY <2>2 DEF AskTaken, CheckLink, VouchTaken, CountAdmins
    <3>5. QED
      BY <2>1, <3>1, <3>3, <3>4, <1>3
  <2>3. ASSUME WriteAddress(t) PROVE G
    <3>1. at[t] \in Changing
      BY <2>3, Holding, ChangeShape DEF WriteAddress, At
    <3>2. PICK h : Goes(t, h) /\ h.step = at[t].next
      BY <2>3 DEF WriteAddress
    <3>3. UNCHANGED limits
      BY <2>3 DEF WriteAddress
    <3>4. QED
      BY <3>1, <3>2, <3>3, <1>3 DEF Changing, Admitted
  <2>4. ASSUME Confirm(t) \/ VouchWrites(t) PROVE G
    <3>1. PICK h : Goes(t, h) /\ h.step \in {"idle", "sweep", "session"}
      BY <2>4 DEF Confirm, VouchWrites, Idle
    <3>2. UNCHANGED limits
      BY <2>4 DEF Confirm, VouchWrites
    <3>3. QED
      BY <3>1, <3>2, <1>3 DEF Admitted
  <2>5. ASSUME IssueLink(t) \/ Sweep(t) \/ WriteRole(t) \/ RevokeSessions(t) PROVE G
    <3>1. Goes(t, Idle) /\ UNCHANGED limits
      BY <2>5 DEF IssueLink, Sweep, WriteRole, RevokeSessions
    <3>2. QED
      BY <2>1, <3>1, <1>3
  <2>6. Counts(t) \/ CountInFlight(t) \/ Insert(t) => G
    BY <1>2
  <2>7. ASSUME CreateSession(t) PROVE G
    <3>1. Goes(t, at'[t]) /\ at'[t].step \notin Admitted /\ UNCHANGED limits
      BY <2>7, OpensNext DEF CreateSession, Admitted
    <3>2. QED
      BY <3>1, <1>3
  <2>8. ASSUME QueueSource(t) PROVE G
    <3> DEFINE h == [at[t] EXCEPT !.left = @ - 1]
    <3>1. at[t] \in Queueing
      BY <2>8, Holding, QueueShape DEF QueueSource, At
    <3>2. h.step \notin Admitted
      BY <3>1 DEF Queueing, Admitted
    <3>3. Goes(t, Idle) \/ Goes(t, h)
      BY <2>8 DEF QueueSource
    <3> HIDE DEF h
    <3>4. Goes(t, at'[t]) /\ at'[t].step \notin Admitted
      BY <2>1, <3>2, <3>3, Others
    <3>5. QED
      BY <2>8, <3>4, <1>2, QueuedNoMore DEF Uncounted
  <2>9. QED
    BY <1>7, <2>2, <2>3, <2>4, <2>5, <2>6, <2>7, <2>8 DEF Step
<1>8. UNCHANGED vars => G
  BY <1>4
<1>9. QED
  BY <1>5, <1>6, <1>7, <1>8 DEF Next

\* The bound is kept when no more is counted and to come than before, or when what was
\* checked was below the limit.
LEMMA AdmissionKept ==
    ASSUME TypeInv, AdmissionInv,
           \A u \in User :
              /\ \/ Submitted(u)' <= Submitted(u) /\ Inserting(u)' \subseteq Inserting(u)
                 \/ Submitted(u)' < MaxInFlight
                 \/ Submitted(u)' = Submitted(u) + 1
                    /\ \E t \in Inserting(u) : Inserting(u)' \subseteq Inserting(u) \ {t}
              /\ \A k \in Limiters :
                 \/ hits'[k][u] <= hits[k][u] /\ Due(k, u)' \subseteq Due(k, u)
                 \/ hits'[k][u] < Limit[k]
                 \/ hits'[k][u] = hits[k][u] + 1
                    /\ \E t \in Due(k, u) : Due(k, u)' \subseteq Due(k, u) \ {t},
           TypeInv'
    PROVE  AdmissionInv'
<1> SUFFICES ASSUME NEW u \in User
             PROVE  /\ Submitted(u)' + Cardinality(Inserting(u)') <= MaxInFlight + Cardinality(Thread) - 1
                    /\ \A k \in Limiters :
                          hits'[k][u] + Cardinality(Due(k, u)') <= Limit[k] + Cardinality(Thread) - 1
  BY DEF AdmissionInv
<1>1. Inserting(u)' \subseteq Thread /\ \A k \in Limiters : Due(k, u)' \subseteq Thread
  BY DEF Inserting, Due
<1>2. Submitted(u)' \in Nat /\ \A k \in Limiters : hits'[k][u] \in Nat
  <2>1. \A v \in User : Submitted(v)' \in Nat /\ \A k \in Limiters : hits'[k][v] \in Nat
    BY DEF TypeInv, TypeOK, Submitted, Origins
  <2>2. QED
    BY <2>1
<1>3. \* either count, with those that are still to come
      ASSUME NEW n \in Nat, NEW m \in Nat, NEW S \in SUBSET Thread, NEW T \in SUBSET Thread,
             NEW max \in Nat, n + Cardinality(S) <= max + Cardinality(Thread) - 1,
             \/ m <= n /\ T \subseteq S
             \/ m < max
             \/ m = n + 1 /\ \E t \in S : T \subseteq S \ {t}
      PROVE  m + Cardinality(T) <= max + Cardinality(Thread) - 1
  <2>1. /\ Cardinality(S) \in Nat /\ Cardinality(T) \in Nat /\ Cardinality(Thread) \in Nat
        /\ Cardinality(T) <= Cardinality(Thread)
    BY SomeThreads
  <2>2. CASE m <= n /\ T \subseteq S
    <3>1. Cardinality(T) <= Cardinality(S)
      BY <2>2, SomeThreads
    <3>2. QED
      BY <1>3, <2>1, <2>2, <3>1
  <2>3. CASE m < max
    BY <2>1, <2>3
  <2>4. ASSUME m = n + 1, NEW t \in S, T \subseteq S \ {t}
        PROVE  m + Cardinality(T) <= max + Cardinality(Thread) - 1
    <3>1. Cardinality(S \ {t}) = Cardinality(S) - 1
      BY OneLess
    <3>2. Cardinality(T) <= Cardinality(S \ {t})
      BY <2>4, SomeThreads
    <3>3. QED
      BY <1>3, <2>1, <2>4, <3>1, <3>2
  <2>5. QED
    BY <1>3, <2>2, <2>3, <2>4
<1>4. Submitted(u)' + Cardinality(Inserting(u)') <= MaxInFlight + Cardinality(Thread) - 1
  BY <1>1, <1>2, <1>3, NumbersTyped DEF AdmissionInv
<1>5. ASSUME NEW k \in Limiters
      PROVE  hits'[k][u] + Cardinality(Due(k, u)') <= Limit[k] + Cardinality(Thread) - 1
  BY <1>1, <1>2, <1>3, NumbersTyped DEF AdmissionInv
<1>6. QED
  BY <1>4, <1>5

LEMMA NextAdmissionInv == TypeInv /\ AdmissionInv /\ [Next]_vars => AdmissionInv'
<1> SUFFICES ASSUME TypeInv, AdmissionInv, [Next]_vars PROVE AdmissionInv'
  OBVIOUS
<1>1. TypeInv'
  BY NextTypeInv
<1>2. /\ \A u \in User : Submitted(u) \in Nat
      /\ \A k \in Limiters, u \in User : hits[k][u] \in Nat
      /\ hits \in [Limiters -> [User -> Nat]]
  BY NumbersTyped DEF TypeInv, TypeOK
<1> DEFINE InFlightOK(u) ==
             \/ Submitted(u)' <= Submitted(u) /\ Inserting(u)' \subseteq Inserting(u)
             \/ Submitted(u)' < MaxInFlight
             \/ Submitted(u)' = Submitted(u) + 1
                /\ \E t \in Inserting(u) : Inserting(u)' \subseteq Inserting(u) \ {t}
           HitsOK(k, u) ==
             \/ hits'[k][u] <= hits[k][u] /\ Due(k, u)' \subseteq Due(k, u)
             \/ hits'[k][u] < Limit[k]
             \/ hits'[k][u] = hits[k][u] + 1
                /\ \E t \in Due(k, u) : Due(k, u)' \subseteq Due(k, u) \ {t}
<1>3. SUFFICES \A u \in User : InFlightOK(u) /\ \A k \in Limiters : HitsOK(k, u)
  BY <1>1, AdmissionKept
<1>4. ASSUME UNCHANGED flight, NEW u \in User PROVE Submitted(u)' <= Submitted(u)
  BY <1>2, <1>4 DEF Submitted
<1>5. ASSUME UNCHANGED hits, NEW k \in Limiters, NEW u \in User PROVE hits'[k][u] <= hits[k][u]
  BY <1>2, <1>5
<1>6. ASSUME UNCHANGED at, NEW k \in Limiters, NEW u \in User
      PROVE  Inserting(u)' \subseteq Inserting(u) /\ Due(k, u)' \subseteq Due(k, u)
  BY <1>6 DEF Inserting, Due, At
<1> "verify" \in Limiters
  BY DEF Limiters
<1>7. ASSUME NEW t \in Thread, \A s \in Thread \ {t} : at'[s] = at[s], at'[t].step # "insert",
             NEW u \in User
      PROVE  Inserting(u)' \subseteq Inserting(u) \ {t}
  BY <1>7 DEF Inserting, At
<1>8. ASSUME NEW t \in Thread, \A s \in Thread \ {t} : at'[s] = at[s], at'[t].step \notin Admitted,
             NEW k \in Limiters, NEW u \in User
      PROVE  Due(k, u)' \subseteq Due(k, u) \ {t}
  BY <1>8 DEF Due, At
<1>9. ASSUME UNCHANGED <<at, limits>>, NEW u \in User
      PROVE  InFlightOK(u) /\ \A k \in Limiters : HitsOK(k, u)
  BY <1>4, <1>5, <1>6, <1>9
<1>10. ASSUME NEW t \in Thread, Uncounted(t), NEW u \in User
       PROVE  InFlightOK(u) /\ \A k \in Limiters : HitsOK(k, u)
  <2>1. (\A s \in Thread \ {t} : at'[s] = at[s]) /\ at'[t].step \notin Admitted /\ NoMore
    BY <1>10, Others DEF Uncounted
  <2>2. InFlightOK(u)
    BY <2>1, <1>7 DEF Admitted, NoMore
  <2>3. \A k \in Limiters : HitsOK(k, u)
    BY <2>1, <1>5, <1>8 DEF NoMore
  <2>4. QED
    BY <2>2, <2>3
<1>11. ASSUME NEW t \in Thread, Counts(t), NEW u \in User
       PROVE  InFlightOK(u) /\ \A k \in Limiters : HitsOK(k, u)
  <2>1. at[t] \in Hitting /\ at[t].step = "hit"
    BY <1>11, Holding, HitShape DEF Counts, At
  <2>2. (\A s \in Thread \ {t} : at'[s] = at[s]) /\ at'[t] = at[t].next
    BY <1>11, Others DEF Counts
  <2>3. at'[t].step \notin Admitted
    <3>1. at[t].next = Idle \/ at[t].next.step \in {"taken", "issue"}
      BY <2>1 DEF Hitting, Promised
    <3>2. QED
      BY <2>2, <3>1, IdleNotAdmitted DEF Admitted
  <2>4. UNCHANGED flight /\ hits' = [hits EXCEPT ![at[t].limiter][at[t].user] = @ + 1]
    BY <1>11 DEF Counts
  <2>5. InFlightOK(u)
    BY <2>2, <2>3, <2>4, <1>4, <1>7 DEF Admitted
  <2>6. ASSUME NEW k \in Limiters PROVE HitsOK(k, u)
    <3>1. Due(k, u)' \subseteq Due(k, u) \ {t}
      BY <2>2, <2>3, <1>8
    <3>2. CASE k = at[t].limiter /\ u = at[t].user
      <4>1. t \in Due(k, u)
        BY <2>1, <3>2 DEF Due, At, Admitted
      <4>2. hits'[k][u] = hits[k][u] + 1
        BY <2>4, <3>2, <1>2
      <4>3. QED
        BY <3>1, <4>1, <4>2
    <3>3. CASE ~(k = at[t].limiter /\ u = at[t].user)
      <4>1. hits'[k][u] = hits[k][u]
        BY <2>1, <2>4, <3>3, <1>2 DEF Hitting
      <4>2. QED
        BY <3>1, <4>1, <1>2
    <3>4. QED
      BY <3>2, <3>3
  <2>7. QED
    BY <2>5, <2>6
<1>12. ASSUME NEW t \in Thread, CountInFlight(t), NEW u \in User
       PROVE  InFlightOK(u) /\ \A k \in Limiters : HitsOK(k, u)
  <2> DEFINE h == [step |-> "insert", user |-> at[t].user]
  <2>1. at[t].step = "in flight" /\ UNCHANGED limits
    BY <1>12 DEF CountInFlight, At
  <2>2. \/ Goes(t, Idle)
        \/ Goes(t, h) /\ ~(InFlight(at[t].user) >= MaxInFlight)
    BY <1>12 DEF CountInFlight
  <2>3. CASE Goes(t, Idle)
    <3>1. at'[t] = Idle
      BY <2>3, Others
    <3>2. Uncounted(t)
      BY <2>1, <2>3, <3>1, IdleNotAdmitted, SameNoMore DEF Uncounted
    <3>3. QED
      BY <3>2, <1>10
  <2>4. CASE Goes(t, h) /\ ~(InFlight(at[t].user) >= MaxInFlight)
    <3>1. h.step = "insert" /\ h.user = at[t].user
      OBVIOUS
    <3> HIDE DEF h
    <3>2. (\A s \in Thread \ {t} : at'[s] = at[s]) /\ at'[t] = h
      BY <2>4, Others
    <3>3. \A k \in Limiters : Due(k, u)' \subseteq Due(k, u)
      BY <2>1, <3>1, <3>2 DEF Due, At, Admitted
    <3>4. InFlightOK(u)
      <4>1. Submitted(u)' = Submitted(u)
        BY <2>1 DEF Submitted
      <4>2. CASE u = at[t].user
        <5>0. InFlight(u) \in Nat /\ Submitted(u) \in Nat /\ Submitted(u) <= InFlight(u)
          BY Tallied DEF Origins
        <5>1. Submitted(u) < MaxInFlight
          BY <2>4, <4>2, <5>0, NumbersTyped
        <5>2. QED
          BY <4>1, <5>1
      <4>3. CASE u # at[t].user
        <5>1. Inserting(u)' \subseteq Inserting(u)
          BY <3>1, <3>2, <4>3 DEF Inserting, At
        <5>2. QED
          BY <4>1, <5>1, <1>2
      <4>4. QED
        BY <4>2, <4>3
    <3>5. QED
      BY <2>1, <3>3, <3>4, <1>5
  <2>5. QED
    BY <2>2, <2>3, <2>4
<1>13. ASSUME NEW t \in Thread, Insert(t), NEW u \in User
       PROVE  InFlightOK(u) /\ \A k \in Limiters : HitsOK(k, u)
  <2> DEFINE h == [step |-> "hit", limiter |-> "submit", user |-> at[t].user, next |-> Idle]
  <2>1. PICK v \in User : v = at[t].user /\ at[t].step = "insert"
    BY <1>13, Holding DEF Insert, At
  <2> DEFINE c == [flight["submit"][v] EXCEPT !.pending = @ + 1]
  <2>2. Written("submit", v, c) /\ Goes(t, h) /\ UNCHANGED hits
    BY <1>13, <2>1 DEF Insert, Written
  <2>3. h.step = "hit" /\ h.limiter = "submit" /\ h.user = v
    BY <2>1
  <2> HIDE DEF h
  <2>4. (\A s \in Thread \ {t} : at'[s] = at[s]) /\ at'[t] = h
    BY <2>2, Others
  <2>5. Inserting(u)' \subseteq Inserting(u) \ {t}
    BY <2>3, <2>4, <1>7
  <2>6. Submitted(u)' = IF u = v THEN Submitted(u) + 1 ELSE Submitted(u)
    <3>1. "submit" \in Origins
      BY DEF Origins
    <3>2. /\ flight["submit"][v] \in Count /\ flight["submit"][v].pending \in Nat
          /\ flight["submit"][v].judging \in Nat
      BY <3>1, Tallied
    <3>3. /\ c \in Count /\ c.pending = flight["submit"][v].pending + 1
          /\ c.judging = flight["submit"][v].judging
      BY <3>2 DEF Count
    <3> HIDE DEF c
    <3>4. flight'["submit"][v] = c /\ \A w \in User \ {v} : Submitted(w)' = Submitted(w)
      BY <2>2, <3>1, <3>3, FlightWritten
    <3>5. Submitted(v)' = Submitted(v) + 1
      BY <3>2, <3>3, <3>4 DEF Submitted
    <3>6. QED
      BY <3>4, <3>5
  <2>7. u = v => t \in Inserting(u)
    BY <2>1 DEF Inserting, At
  <2>8. InFlightOK(u)
    BY <2>5, <2>6, <2>7, <1>2
  <2>9. \A k \in Limiters : Due(k, u)' \subseteq Due(k, u)
    <3>1. ASSUME NEW k \in Limiters, NEW s \in Due(k, u)' PROVE s \in Due(k, u)
      <4>1. CASE s = t
        <5>1. k = "submit" /\ u = v
          BY <2>3, <2>4, <3>1, <4>1 DEF Due, At
        <5>2. QED
          BY <2>1, <4>1, <5>1 DEF Due, At, Admitted
      <4>2. CASE s # t
        BY <2>4, <3>1, <4>2 DEF Due, At
      <4>3. QED
        BY <4>1, <4>2
    <3>2. QED
      BY <3>1
  <2>10. QED
    BY <2>2, <2>8, <2>9, <1>5
<1>14. ASSUME NEW t \in Thread, NEW v \in User, NEW u \in User,
              Submit(t, v) \/ Resend(t, v) \/ \E a \in Address : SetEmail(t, v, a)
       PROVE  InFlightOK(u) /\ \A k \in Limiters : HitsOK(k, u)
  <2> DEFINE Admits(l, h) ==
               /\ Goes(t, h) /\ hits[l][v] < Limit[l] /\ h.user = v
               /\ \/ h.step = "in flight" /\ l = "submit"
                  \/ h.step = "hit" /\ h.limiter = l
  <2>1. PICK limiter \in Limiters : \E h : Admits(limiter, h)
    <3>1. ASSUME Submit(t, v) PROVE \E h : Admits("submit", h)
      <4> DEFINE h == [step |-> "in flight", user |-> v]
      <4>1. Admits("submit", h)
        BY <3>1 DEF Submit, Takes, Allows
      <4> HIDE DEF h, Admits
      <4>2. QED
        BY <4>1
    <3>2. ASSUME Resend(t, v) PROVE \E h : Admits("verify", h)
      <4> DEFINE h == [step |-> "hit", limiter |-> "verify", user |-> v,
                       next |-> [step |-> "issue", user |-> v, email |-> users[v].email]]
      <4>1. Admits("verify", h)
        BY <3>2 DEF Resend, Takes, Allows
      <4> HIDE DEF h, Admits
      <4>2. QED
        BY <4>1
    <3>3. ASSUME NEW a \in Address, SetEmail(t, v, a) PROVE \E h : Admits("verify", h)
      <4> DEFINE h == [step |-> "hit", limiter |-> "verify", user |-> v,
                       next |-> [step |-> "taken", user |-> v, email |-> a, next |-> "issue"]]
      <4>1. Admits("verify", h)
        BY <3>3 DEF SetEmail, Takes, Allows
      <4> HIDE DEF h, Admits
      <4>2. QED
        BY <4>1
    <3> HIDE DEF Admits
    <3>4. QED
      BY <1>14, <3>1, <3>2, <3>3 DEF Limiters
  <2>2. UNCHANGED limits
    BY <1>14 DEF Submit, Resend, SetEmail
  <2>3. PICK h : Admits(limiter, h)
    BY <2>1
  <2>4. (\A s \in Thread \ {t} : at'[s] = at[s]) /\ at'[t] = h
    BY <2>3, Others
  <2>5. InFlightOK(u)
    BY <2>2, <2>3, <2>4, <1>4, <1>7
  <2>6. ASSUME NEW k \in Limiters PROVE HitsOK(k, u)
    <3>1. CASE k = limiter /\ u = v
      BY <2>2, <2>3, <3>1
    <3>2. CASE ~(k = limiter /\ u = v)
      <4>1. Due(k, u)' \subseteq Due(k, u)
        BY <2>3, <2>4, <3>2 DEF Due, At, Admitted
      <4>2. QED
        BY <2>2, <4>1, <1>5
    <3>3. QED
      BY <3>1, <3>2
  <2>7. QED
    BY <2>5, <2>6
<1>15. ASSUME NEW v \in User, NEW o \in Origins, Claimed(o, v) \/ Graded(o, v), NEW u \in User
       PROVE  InFlightOK(u) /\ \A k \in Limiters : HitsOK(k, u)
  <2>1. Submitted(u)' <= Submitted(u)
    BY <1>15, ClaimedNoMore DEF NoMore
  <2>2. UNCHANGED <<at, hits>>
    BY <1>15 DEF Claimed, Graded
  <2>3. QED
    BY <2>1, <2>2, <1>5, <1>6 DEF Limiters
<1>16. ASSUME NEW v \in User, NEW l \in Limiters, Slides(l, v), NEW u \in User
       PROVE  InFlightOK(u) /\ \A k \in Limiters : HitsOK(k, u)
  <2>1. \A k \in Limiters : hits'[k][u] <= hits[k][u]
    BY <1>2, <1>16 DEF Slides
  <2>2. UNCHANGED <<at, flight>>
    BY <1>16 DEF Slides
  <2>3. QED
    BY <2>1, <2>2, <1>4, <1>6
<1> HIDE DEF InFlightOK, HitsOK
<1>17. QED
  BY <1>9, <1>10, <1>11, <1>12, <1>13, <1>14, <1>15, <1>16, LimitKinds

\* Of the submissions that submit let in an account never has more in flight, nor more hits in
\* a window, than the limit and one for every other thread, whatever is queued in bulk and
\* sent back meanwhile (submit, RateLimiter; _queue_sources, rejudge).
THEOREM AdmissionHasBound == Spec => []AdmissionBounded
<1>1. Init => AdmissionInv
  <2> SUFFICES ASSUME Init, NEW u \in User
               PROVE  /\ Submitted(u) + Cardinality(Inserting(u)) <= MaxInFlight + Cardinality(Thread) - 1
                      /\ \A k \in Limiters :
                            hits[k][u] + Cardinality(Due(k, u)) <= Limit[k] + Cardinality(Thread) - 1
    BY DEF AdmissionInv
  <2>1. Inserting(u) \subseteq Thread /\ \A k \in Limiters : Due(k, u) \subseteq Thread
    BY DEF Inserting, Due
  <2>2. Submitted(u) = 0 /\ \A k \in Limiters : hits[k][u] = 0
    BY DEF Init, Submitted, Origins
  <2>3. QED
    BY <2>1, <2>2, SomeThreads, LimitAssumption
<1>2. TypeInv /\ AdmissionInv => AdmissionBounded
  <2> SUFFICES ASSUME TypeInv, AdmissionInv, NEW u \in User
               PROVE  /\ Submitted(u) <= MaxInFlight + Cardinality(Thread) - 1
                      /\ \A k \in Limiters : hits[k][u] <= Limit[k] + Cardinality(Thread) - 1
    BY DEF AdmissionBounded
  <2>1. Cardinality(Inserting(u)) \in Nat /\ \A k \in Limiters : Cardinality(Due(k, u)) \in Nat
    BY NumbersTyped, SomeThreads
  <2>2. Cardinality(Thread) \in Nat
    BY SomeThreads
  <2>3. QED
    BY <2>1, <2>2, NumbersTyped DEF AdmissionInv
<1>3. QED
  BY <1>1, <1>2, Typed, NextAdmissionInv, PTL DEF Spec
=============================================================================
