----------------------------- MODULE Accounts -----------------------------
(***************************************************************************)
(* Accounts: e-mail addresses and the links that confirm them, roles,      *)
(* passwords and sessions, and the limits on what an account may ask for.  *)
(* The request handlers run in a pool of threads and the command line in a *)
(* process of its own.  Each of their queries is atomic and so is each     *)
(* transaction, but a handler that reads, decides and then writes is not:  *)
(* a step here is one query or one transaction, and between two steps of a *)
(* handler any other may run.                                              *)
(***************************************************************************)
EXTENDS Integers, FiniteSets

CONSTANTS User, Address, Thread,
          NoAddress,     \* users.email is NULL
          FirstUsers,    \* user -> the row found at first
          MaxRequests,   \* bound: requests
          MaxLinks,      \* bound: links issued
          Limit,         \* limiter -> RateLimiter.limit
          MaxInFlight,   \* MAX_IN_FLIGHT
          MaxBulkFiles   \* MAX_BULK_FILES

Roles == {"none", "user", "admin"}   \* "none": not registered
Limiters == {"verify", "submit"}
Origins == {"submit", "other"}       \* "other": queued in bulk, or graded and then sent back
Rows == [role : Roles, email : Address \cup {NoAddress}, verified : BOOLEAN, password : Nat]

ASSUME FirstUsersAssumption ==
    /\ FirstUsers \in [User -> Rows]
    /\ NoAddress \notin Address
    /\ \E u \in User : FirstUsers[u].role = "admin" /\ FirstUsers[u].verified
    /\ \A u, v \in User : FirstUsers[u].verified /\ FirstUsers[v].verified /\ u # v =>
           FirstUsers[u].email # FirstUsers[v].email \/ FirstUsers[u].email = NoAddress
ASSUME LimitAssumption ==
    /\ Limit \in [Limiters -> Nat \ {0}]
    /\ MaxInFlight \in Nat \ {0} /\ MaxBulkFiles \in Nat \ {0}

VARIABLES users,     \* users: role, email, email_verified, password_hash
          links,     \* email_tokens
          issued,    \* the links issued so far; every one of them has been mailed
          sessions,  \* sessions, each with the password it was opened with
          hits,      \* limiter -> account -> hits inside the window
          flight,    \* origin -> account -> its submissions that are PENDING, and JUDGING
          graded,    \* account -> its submissions that have a verdict
          at,        \* thread -> the step its handler is at, and what it holds
          requests,  \* requests so far
          proven,    \* history: <<account, address>>, confirmed by link or by an operator
          crossed    \* history: what happened while another request was between two steps

vars == <<users, links, issued, sessions, hits, flight, graded, at, requests, proven, crossed>>
db == <<users, links, issued, sessions>>
limits == <<hits, flight, graded>>
history == <<proven, crossed>>

Idle == [step |-> "idle"]
Free(t) == at[t] = Idle
Goes(t, step) == at' = [at EXCEPT ![t] = step]

\* A thread takes a request, and its handler goes to a first step.
Takes(t, step) ==
    /\ Free(t) /\ requests < MaxRequests
    /\ requests' = requests + 1
    /\ Goes(t, step)
At(t, step) == at[t].step = step

SignedIn(u) == \E s \in sessions : s.user = u
RequireUser(u) == SignedIn(u) /\ users[u].verified
RequireAdmin(u) == RequireUser(u) /\ users[u].role = "admin"

\* The query before an address is confirmed: has another account confirmed it?  The
\* administrator of the first start may be confirmed without an address (ensure_admin).
Taken(a, u) == a # NoAddress /\ \E v \in User \ {u} : users[v].email = a /\ users[v].verified

\* Mutant: the column has no unique index over the confirmed addresses.
NoIndex(u) == TRUE

\* idx_users_verified_email: the UPDATE that confirms u's address passes or raises.
IndexAllows(u) == ~Taken(users[u].email, u)

\* RateLimiter.check
Allows(k, u) == hits[k][u] < Limit[k]

\* Mutant: only what no worker has claimed counts as in flight.
InFlightPending(u) == flight["submit"][u].pending + flight["other"][u].pending

\* Those of an account that submit let in and nobody has sent back since they were graded.
Submitted(u) == flight["submit"][u].pending + flight["submit"][u].judging

InFlight(u) == Submitted(u) + flight["other"][u].pending + flight["other"][u].judging

(***************************************************************************)
(* The start: some accounts, one of them waiting for its confirmation      *)
(***************************************************************************)
Waiting == {u \in User : FirstUsers[u].role # "none" /\ ~FirstUsers[u].verified
                         /\ FirstUsers[u].email # NoAddress}
ASSUME BoundAssumption ==
    /\ IsFiniteSet(User) /\ IsFiniteSet(Thread)
    /\ MaxRequests \in Nat /\ MaxLinks \in Nat /\ Cardinality(Waiting) <= MaxLinks

Init ==
    /\ users = FirstUsers
    /\ \E n \in [Waiting -> 1..Cardinality(Waiting)] :
          /\ \A u, v \in Waiting : n[u] = n[v] => u = v
          /\ links = {[n |-> n[u], user |-> u, email |-> FirstUsers[u].email, used |-> FALSE] :
                         u \in Waiting}
    /\ issued = links
    /\ sessions = {[user |-> u, password |-> FirstUsers[u].password] :
                      u \in {v \in User : FirstUsers[v].role # "none"}}
    /\ hits = [k \in Limiters |-> [u \in User |-> 0]]
    /\ flight = [o \in Origins |-> [u \in User |-> [pending |-> 0, judging |-> 0]]]
    /\ graded = [u \in User |-> 0]
    /\ at = [t \in Thread |-> Idle]
    /\ requests = 0
    /\ proven = {<<u, FirstUsers[u].email>> : u \in {v \in User : FirstUsers[v].verified}}
    /\ crossed = [addresses |-> {}, passwords |-> {}, demotions |-> FALSE]

(***************************************************************************)
(* Limits                                                                  *)
(***************************************************************************)
\* RateLimiter.hit, a call of its own after check; then the handler goes on.
Counts(t) ==
    /\ At(t, "hit")
    /\ hits' = [hits EXCEPT ![at[t].limiter][at[t].user] = @ + 1]
    /\ Goes(t, at[t].next)
    /\ UNCHANGED <<db, flight, graded, requests, history>>

\* Mutant: the oldest hit is dropped when there is none.
SlidesAnyway(k, u) ==
    /\ hits' = [hits EXCEPT ![k][u] = @ - 1]
    /\ UNCHANGED <<db, flight, graded, at, requests, history>>

\* The window slides past the oldest hit (_prune).
Slides(k, u) ==
    /\ hits[k][u] > 0
    /\ hits' = [hits EXCEPT ![k][u] = @ - 1]
    /\ UNCHANGED <<db, flight, graded, at, requests, history>>

\* submit: the limiter, then the submissions in flight, then the INSERT, then hit.
Submit(t, u) ==
    /\ RequireUser(u) /\ Allows("submit", u)
    /\ Takes(t, [step |-> "in flight", user |-> u])
    /\ UNCHANGED <<db, limits, history>>

CountInFlight(t) ==
    /\ At(t, "in flight")
    /\ Goes(t, IF InFlight(at[t].user) >= MaxInFlight THEN Idle
               ELSE [step |-> "insert", user |-> at[t].user])
    /\ UNCHANGED <<db, limits, requests, history>>

Insert(t) ==
    /\ At(t, "insert")
    /\ flight' = [flight EXCEPT !["submit"][at[t].user].pending = @ + 1]
    /\ Goes(t, [step |-> "hit", limiter |-> "submit", user |-> at[t].user, next |-> Idle])
    /\ UNCHANGED <<db, hits, graded, requests, history>>

\* bulk_submit and express_create, exempt from both limits: an archive of n sources, one
\* archive at a time (the two routes are coroutines, and wait for nothing in between) ...
BulkSubmit(t, u, n) ==
    /\ RequireAdmin(u) /\ \A s \in Thread : ~At(s, "queue")
    /\ Takes(t, [step |-> "queue", user |-> u, left |-> n])
    /\ UNCHANGED <<db, limits, history>>

\* ... of which _queue_sources inserts one row after the other.
QueueSource(t) ==
    /\ At(t, "queue")
    /\ flight' = [flight EXCEPT !["other"][at[t].user].pending = @ + 1]
    /\ Goes(t, IF at[t].left = 1 THEN Idle ELSE [at[t] EXCEPT !.left = @ - 1])
    /\ UNCHANGED <<db, hits, graded, requests, history>>

\* rejudge: one submission, whatever its verdict, is PENDING again, ...
Rejudge(t, by, u) ==
    /\ RequireAdmin(by)
    /\ Takes(t, Idle)
    /\ \/ /\ graded[u] > 0
          /\ graded' = [graded EXCEPT ![u] = @ - 1]
          /\ flight' = [flight EXCEPT !["other"][u].pending = @ + 1]
       \/ \E o \in Origins :
             /\ flight[o][u].judging > 0
             /\ flight' = [flight EXCEPT ![o][u] = [pending |-> @.pending + 1,
                                                    judging |-> @.judging - 1]]
             /\ UNCHANGED graded
    /\ UNCHANGED <<db, hits, history>>

\* ... or every submission is, in one UPDATE (rejudge with a problem, cmd_rejudge): the model
\* has one problem.
RejudgeAll(t) ==
    /\ Takes(t, Idle)
    /\ flight' = [o \in Origins |-> [u \in User |->
                    [pending |-> flight[o][u].pending + flight[o][u].judging
                                 + (IF o = "other" THEN graded[u] ELSE 0),
                     judging |-> 0]]]
    /\ graded' = [u \in User |-> 0]
    /\ UNCHANGED <<db, hits, history>>

\* A worker claims a submission of the account, ...
Claimed(o, u) ==
    /\ flight[o][u].pending > 0
    /\ flight' = [flight EXCEPT ![o][u] = [pending |-> @.pending - 1, judging |-> @.judging + 1]]
    /\ UNCHANGED <<db, hits, graded, at, requests, history>>

\* ... and one gets its verdict: from its run, or, still PENDING, from whoever aborts it or
\* from a run that was under way when it was sent back.
Graded(o, u) ==
    /\ \/ /\ flight[o][u].pending > 0
          /\ flight' = [flight EXCEPT ![o][u].pending = @ - 1]
       \/ /\ flight[o][u].judging > 0
          /\ flight' = [flight EXCEPT ![o][u].judging = @ - 1]
    /\ graded' = [graded EXCEPT ![u] = @ + 1]
    /\ UNCHANGED <<db, hits, at, requests, history>>

(***************************************************************************)
(* Addresses                                                               *)
(***************************************************************************)
\* register: create_user inserts the row; then come its session and the link.
Register(t, u, a) ==
    /\ users[u].role = "none"
    /\ users' = [users EXCEPT ![u] = [role |-> "user", email |-> a, verified |-> FALSE,
                                      password |-> 0]]
    /\ Takes(t, [step |-> "session", user |-> u, password |-> 0,
                 next |-> [step |-> "issue", user |-> u, email |-> a]])
    /\ UNCHANGED <<links, issued, sessions, limits, history>>

\* cmd_adduser: an account made by who has the shell is confirmed in the INSERT, which the
\* index may refuse; made without an address, it is not.
AddUser(t, u, a, role) ==
    /\ users[u].role = "none" /\ ~Taken(a, u)
    /\ users' = [users EXCEPT ![u] = [role |-> role, email |-> a, verified |-> a # NoAddress,
                                      password |-> 0]]
    /\ proven' = IF a = NoAddress THEN proven ELSE proven \cup {<<u, a>>}
    /\ Takes(t, Idle)
    /\ UNCHANGED <<links, issued, sessions, limits, crossed>>

\* set_email: refused to an account that is confirmed, by the row its session gave.
SetEmail(t, u, a) ==
    /\ SignedIn(u) /\ ~users[u].verified /\ Allows("verify", u)
    /\ Takes(t, [step |-> "hit", limiter |-> "verify", user |-> u,
                 next |-> [step |-> "taken", user |-> u, email |-> a, next |-> "issue"]])
    /\ UNCHANGED <<db, limits, history>>

\* resend_verification, to the address the session's row has.
Resend(t, u) ==
    /\ SignedIn(u) /\ ~users[u].verified /\ users[u].email # NoAddress /\ Allows("verify", u)
    /\ Takes(t, [step |-> "hit", limiter |-> "verify", user |-> u,
                 next |-> [step |-> "issue", user |-> u, email |-> users[u].email]])
    /\ UNCHANGED <<db, limits, history>>

\* cmd_verify, for the address the account has or, with --email, for another.
Vouch(t, u, a) ==
    /\ users[u].role # "none"
    /\ IF a = NoAddress
       THEN /\ users[u].email # NoAddress
            /\ Takes(t, [step |-> "vouch", user |-> u, email |-> users[u].email])
       ELSE Takes(t, [step |-> "taken", user |-> u, email |-> a, next |-> "vouch"])
    /\ UNCHANGED <<db, limits, history>>

\* auth.set_email asks whether the address is confirmed by another account, ...
AskTaken(t) ==
    /\ At(t, "taken")
    /\ Goes(t, IF Taken(at[t].email, at[t].user) THEN Idle ELSE [at[t] EXCEPT !.step = "address"])
    /\ UNCHANGED <<db, limits, requests, history>>

\* Threads that are about to confirm u's address, by a link or by hand.
Confirming(u) == {t \in Thread : at[t].step \in {"confirm", "vouch", "vouched"} /\ at[t].user = u}

\* Mutant: a new address leaves the account as confirmed as it was.
AddressKeepsFlag(u, a) == [users EXCEPT ![u].email = a]

AddressSet(u, a) == [users EXCEPT ![u].email = a, ![u].verified = FALSE]

\* ... and then sets it in a transaction that drops the links in flight.
WriteAddress(t) ==
    LET u == at[t].user
    IN  /\ At(t, "address")
        /\ users' = AddressSet(u, at[t].email)
        /\ links' = {l \in links : l.user # u}
        /\ crossed' = IF Confirming(u) = {} THEN crossed
                      ELSE [crossed EXCEPT !.addresses = @ \cup {u}]
        /\ Goes(t, [step |-> at[t].next, user |-> u, email |-> at[t].email])
        /\ UNCHANGED <<issued, sessions, limits, requests, proven>>

\* Mutant: a new link leaves the earlier ones as they are.
LinksAndNew(u, link) == links \cup {link}

LinksWithNew(u, link) == {l \in links : l.user # u} \cup {link}

\* issue_email_token, and the mail.
IssueLink(t) ==
    LET u == at[t].user
        link == [n |-> Cardinality(issued) + 1, user |-> u, email |-> at[t].email, used |-> FALSE]
    IN  /\ At(t, "issue") /\ Cardinality(issued) < MaxLinks
        /\ links' = LinksWithNew(u, link)
        /\ issued' = issued \cup {link}
        /\ Goes(t, Idle)
        /\ UNCHANGED <<users, sessions, limits, requests, history>>

\* verify, by whoever reads the mail: the link is looked up, ...
Verify(t, link) ==
    /\ \E l \in links : l.n = link.n /\ ~l.used
    /\ Takes(t, [step |-> "link", user |-> link.user, email |-> link.email, n |-> link.n])
    /\ UNCHANGED <<db, limits, history>>

\* ... then its account, whose address must still be the link's and nobody else's, ...
CheckLink(t) ==
    LET u == at[t].user
    IN  /\ At(t, "link")
        /\ Goes(t, IF users[u].email # at[t].email \/ Taken(at[t].email, u) THEN Idle
                   ELSE [at[t] EXCEPT !.step = "confirm"])
        /\ UNCHANGED <<db, limits, requests, history>>

\* ... and a transaction confirms whatever address the account has by now; then comes a
\* session, unless it is the account's own browser that opens the link.  The index refuses it
\* if another account has confirmed that address: nothing is written.
Confirm(t) ==
    LET u == at[t].user
    IN  /\ At(t, "confirm")
        /\ IF IndexAllows(u)
           THEN /\ users' = [users EXCEPT ![u].verified = TRUE]
                /\ links' = {[l EXCEPT !.used = @ \/ l.n = at[t].n] : l \in links}
                /\ proven' = proven \cup {<<u, at[t].email>>}
                /\ \/ Goes(t, [step |-> "session", user |-> u, password |-> users[u].password,
                                next |-> Idle])
                   \/ SignedIn(u) /\ Goes(t, Idle)
           ELSE Goes(t, Idle) /\ UNCHANGED <<users, links, proven>>
        /\ UNCHANGED <<issued, sessions, limits, requests, crossed>>

\* cmd_verify goes on: is the address taken, then the UPDATE, then the links.
VouchTaken(t) ==
    /\ At(t, "vouch")
    /\ Goes(t, IF Taken(at[t].email, at[t].user) THEN Idle ELSE [at[t] EXCEPT !.step = "vouched"])
    /\ UNCHANGED <<db, limits, requests, history>>

VouchWrites(t) ==
    LET u == at[t].user
    IN  /\ At(t, "vouched")
        /\ IF IndexAllows(u)
           THEN /\ users' = [users EXCEPT ![u].verified = TRUE]
                /\ proven' = proven \cup {<<u, at[t].email>>}
                /\ Goes(t, [step |-> "sweep", user |-> u])
           ELSE Goes(t, Idle) /\ UNCHANGED <<users, proven>>
        /\ UNCHANGED <<links, issued, sessions, limits, requests, crossed>>

Sweep(t) ==
    /\ At(t, "sweep")
    /\ links' = {l \in links : l.user # at[t].user}
    /\ Goes(t, Idle)
    /\ UNCHANGED <<users, issued, sessions, limits, requests, history>>

(***************************************************************************)
(* Roles                                                                   *)
(***************************************************************************)
Demoting(t) == at[t].step \in {"count", "demote"}

\* set_role, sent by a confirmed administrator.
SetRole(t, by, u, role) ==
    /\ RequireAdmin(by) /\ users[u].role # "none"
    /\ Takes(t, [step |-> IF role = "admin" THEN "promote"
                          ELSE IF users[u].role = "admin" THEN "count" ELSE "demote", user |-> u])
    /\ crossed' = IF role = "user" /\ (\E s \in Thread : Demoting(s))
                  THEN [crossed EXCEPT !.demotions = TRUE] ELSE crossed
    /\ UNCHANGED <<db, limits, proven>>

\* Mutant: the administrator to be demoted is counted too.
Remaining1(u) == {v \in User : users[v].role = "admin"}

\* The other administrators, confirmed or not.
Remaining(u) == {v \in User \ {u} : users[v].role = "admin"}

CountAdmins(t) ==
    /\ At(t, "count")
    /\ Goes(t, IF Remaining(at[t].user) = {} THEN Idle ELSE [at[t] EXCEPT !.step = "demote"])
    /\ UNCHANGED <<db, limits, requests, history>>

WriteRole(t) ==
    /\ at[t].step \in {"promote", "demote"}
    /\ users' = [users EXCEPT ![at[t].user].role = IF At(t, "promote") THEN "admin" ELSE "user"]
    /\ Goes(t, Idle)
    /\ UNCHANGED <<links, issued, sessions, limits, requests, history>>

(***************************************************************************)
(* Passwords and sessions                                                  *)
(***************************************************************************)
\* login: authenticate reads the hash and compares it; then comes the session.
Login(t, u) ==
    /\ users[u].role # "none"
    /\ Takes(t, [step |-> "session", user |-> u, password |-> users[u].password, next |-> Idle])
    /\ UNCHANGED <<db, limits, history>>

\* create_session, a statement of its own after whatever let the user in.
CreateSession(t) ==
    /\ At(t, "session")
    /\ sessions' = sessions \cup {[user |-> at[t].user, password |-> at[t].password]}
    /\ Goes(t, at[t].next)
    /\ UNCHANGED <<users, links, issued, limits, requests, history>>

Logout(t, s) ==
    /\ Free(t) /\ requests < MaxRequests
    /\ requests' = requests + 1
    /\ sessions' = sessions \ {s}
    /\ UNCHANGED <<users, links, issued, limits, at, history>>

\* cmd_passwd: the hash, then the sessions.
Passwd(t, u) ==
    /\ users[u].role # "none"
    /\ users' = [users EXCEPT ![u].password = @ + 1]
    /\ Takes(t, [step |-> "revoke", user |-> u])
    /\ crossed' = IF \E s \in Thread : At(s, "session") /\ at[s].user = u
                  THEN [crossed EXCEPT !.passwords = @ \cup {u}] ELSE crossed
    /\ UNCHANGED <<links, issued, sessions, limits, proven>>

\* Mutant: no session is revoked.
RevokesNothing(u) == sessions

Revoked(u) == {s \in sessions : s.user # u}

RevokeSessions(t) ==
    /\ At(t, "revoke")
    /\ sessions' = Revoked(at[t].user)
    /\ Goes(t, Idle)
    /\ UNCHANGED <<users, links, issued, limits, requests, history>>

Request(t) ==
    \/ \E u \in User : Submit(t, u) \/ Resend(t, u) \/ Login(t, u) \/ Passwd(t, u)
    \/ \E u \in User, a \in Address : Register(t, u, a) \/ SetEmail(t, u, a)
    \/ \E u \in User, a \in Address \cup {NoAddress} : Vouch(t, u, a)
    \/ \E u \in User, a \in Address \cup {NoAddress}, role \in {"user", "admin"} :
          AddUser(t, u, a, role)
    \/ \E u \in User, n \in 1..MaxBulkFiles : BulkSubmit(t, u, n)
    \/ \E by, u \in User : Rejudge(t, by, u)
    \/ RejudgeAll(t)
    \/ \E link \in issued : Verify(t, link)
    \/ \E by, u \in User, role \in {"user", "admin"} : SetRole(t, by, u, role)
    \/ \E s \in sessions : Logout(t, s)

Step(t) ==
    \/ Counts(t) \/ CountInFlight(t) \/ Insert(t) \/ QueueSource(t)
    \/ AskTaken(t) \/ WriteAddress(t) \/ IssueLink(t)
    \/ CheckLink(t) \/ Confirm(t) \/ VouchTaken(t) \/ VouchWrites(t) \/ Sweep(t)
    \/ CountAdmins(t) \/ WriteRole(t) \/ CreateSession(t) \/ RevokeSessions(t)

Next ==
    \/ \E t \in Thread : Request(t) \/ Step(t)
    \/ \E u \in User, o \in Origins : Claimed(o, u) \/ Graded(o, u)
    \/ \E u \in User, k \in Limiters : Slides(k, u)

Spec == Init /\ [][Next]_vars

(***************************************************************************)
(* Properties                                                              *)
(***************************************************************************)
Link == [n : 1..MaxLinks, user : User, email : Address, used : BOOLEAN]
Steps == {"idle", "hit", "in flight", "insert", "queue", "issue", "taken", "address", "link", "confirm",
          "vouch", "vouched", "sweep", "count", "promote", "demote", "session", "revoke"}

\* Every variable keeps its type, and an account that is nobody's owns nothing.
TypeOK ==
    /\ users \in [User -> Rows]
    /\ links \subseteq Link /\ issued \subseteq Link
    /\ \A s \in sessions : s.user \in User /\ s.password \in 0..users[s.user].password
    /\ hits \in [Limiters -> [User -> Nat]]
    /\ flight \in [Origins -> [User -> [pending : Nat, judging : Nat]]]
    /\ graded \in [User -> Nat]
    /\ \A t \in Thread : at[t].step \in Steps
    /\ requests \in 0..MaxRequests
    /\ \A u \in User : users[u].role = "none" =>
           ~SignedIn(u) /\ InFlight(u) = 0 /\ graded[u] = 0 /\ \A l \in links : l.user # u

\* No two accounts have confirmed the same address, however their confirmations cross: the
\* question whether it is taken comes before the UPDATE, and it is the index that decides
\* (confirm_email_token, cmd_verify, db.py).
OneOwnerPerAddress ==
    \A u, v \in User :
        users[u].verified /\ users[v].verified /\ users[u].email = users[v].email
            /\ users[u].email # NoAddress => u = v

\* An account has one live link at the most, the one that was issued last
\* (issue_email_token: "one live link per account"), whether it was the sign-up, a new
\* address or a request to resend that issued it.
OneLiveLink ==
    \A l \in links : ~l.used => \A m \in issued : m.user = l.user => m.n <= l.n

\* A confirmed account's address has been confirmed: somebody opened a link that was sent
\* there, or an operator vouched for it (confirm_email_token: a link for an address that
\* was changed since confirms nothing).  Left is the account whose address was changed
\* while a confirmation was between its check and its UPDATE.
AddressProven ==
    \A u \in User : users[u].verified /\ u \notin crossed.addresses =>
        <<u, users[u].email>> \in proven

\* Somebody has the role of administrator (set_role refuses to demote the only one), unless
\* two demotions were under way at once: both count before either writes.
AdminRemains == crossed.demotions \/ \E u \in User : users[u].role = "admin"

\* After a change of password no session opened before it is left (cmd_passwd: "existing
\* sessions were revoked"), unless a request had let the user in when it was changed, and
\* creates the session afterwards: a sign-in that had compared the old hash, a registration
\* that had inserted the account, a link that had confirmed its address.
OldPasswordGone ==
    \A s \in sessions :
        \/ s.password = users[s.user].password
        \/ s.user \in crossed.passwords
        \/ \E t \in Thread : At(t, "revoke") /\ at[t].user = s.user

\* What is checked before it is counted can be passed by every thread at once, and by no
\* more: of the submissions that submit let in, and nobody sent back after their verdict, an
\* account never has more in flight, nor more hits in a window, than the limit and one for
\* every other thread (submit, RateLimiter).  What is queued in bulk or sent back comes on
\* top of them, and counts against the next submission.
AdmissionBounded ==
    \A u \in User :
        /\ Submitted(u) <= MaxInFlight + Cardinality(Thread) - 1
        /\ \A k \in Limiters : hits[k][u] <= Limit[k] + Cardinality(Thread) - 1
=============================================================================
