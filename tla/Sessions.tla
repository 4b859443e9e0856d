------------------------------ MODULE Sessions ------------------------------
(***************************************************************************)
(* Sessions and impersonation: internal/api/auth_common.go, the            *)
(* middlewares of handler.go and the statements of internal/database they  *)
(* make.  A request is validated by four statements, one after the other,  *)
(* while others log out, stop an impersonation or delete the user, and     *)
(* while time goes on.  Nothing of this is in memory: a panel that stops   *)
(* only ends the requests under way.                                       *)
(***************************************************************************)
EXTENDS Naturals, FiniteSets

CONSTANTS
    Users, Admins,       \* user names, and those with is_admin
    Tokens,              \* what generateToken draws
    Requests,            \* requests served at the same time
    None,
    SessionExpiry,       \* life of a session, of an impersonation
    ImpersonationExpiry,
    End                  \* bound on the clock

ASSUME ConstantsAssumption ==
    /\ Admins \subseteq Users
    /\ None \notin Users \cup Tokens
    /\ SessionExpiry \in Nat /\ ImpersonationExpiry \in Nat /\ End \in Nat

VARIABLES
    now,
    users,            \* rows of users: none, active or suspended
    sessions,         \* rows of sessions, by token
    impersonations,   \* rows of impersonation_sessions, by token
    audit,            \* rows of impersonation_audit_logs
    drawn,            \* tokens drawn so far
    req               \* the requests under way

vars == <<now, users, sessions, impersonations, audit, drawn, req>>

Session == [user : Users, expires : Nat]
Impersonation == [admin : Users, target : Users, expires : Nat]
ASSUME NoneAssumption == None \notin Session \cup Impersonation

Entry == [token : Tokens, action : {"start", "stop"}, admin : Users, target : Users]

Idle == [stage |-> "idle"]

\* What a request knows between two statements.  by: who impersonates the user it acts
\* for, by what GetImpersonationSession has answered.
Request ==
    {Idle}
    \cup [stage : {"login"}, user : Users]
    \cup [stage : {"session", "user", "cleaned"}, token : Tokens, user : Users]
    \cup [stage : {"acting"}, token : Tokens, user : Users, by : Users \cup {None}]
    \cup [stage : {"starting"}, admin : Users, target : Users]
    \cup [stage : {"stopping"}, token : Tokens, admin : Users, target : Users]

\* With what the schema and the transactions keep together: a session has its user,
\* an impersonation its session, for the same user and as long.
TypeOK ==
    /\ now \in Nat
    /\ users \in [Users -> {"none", "active", "suspended"}]
    /\ sessions \in [Tokens -> Session \cup {None}]
    /\ impersonations \in [Tokens -> Impersonation \cup {None}]
    /\ audit \subseteq Entry
    /\ drawn \subseteq Tokens
    /\ req \in [Requests -> Request]
    /\ \A t \in Tokens :
         /\ sessions[t] # None => t \in drawn /\ users[sessions[t].user] # "none"
         /\ impersonations[t] # None =>
              sessions[t] = [user |-> impersonations[t].target, expires |-> impersonations[t].expires]

Init ==
    /\ now = 0
    /\ users \in [Users -> {"none", "active"}]
    /\ sessions = [t \in Tokens |-> None]
    /\ impersonations = [t \in Tokens |-> None]
    /\ audit = {}
    /\ drawn = {}
    /\ req = [r \in Requests |-> Idle]

\* The WHERE clauses of GetSession, GetImpersonationSession and
\* CleanExpiredImpersonationSessions.
Live(row) == row # None /\ row.expires > now
Expired(row) == row # None /\ row.expires < now

Becomes(r, record) == req' = [req EXCEPT ![r] = record]

\* DELETE FROM sessions, and what refers to a session goes with it.
DropSessions(S) ==
    /\ sessions' = [t \in Tokens |-> IF t \in S THEN None ELSE sessions[t]]
    /\ impersonations' = [t \in Tokens |-> IF t \in S THEN None ELSE impersonations[t]]
-----------------------------------------------------------------------------
(***************************************************************************)
(* Login and Logout.  PAM has accepted the password.                       *)
(***************************************************************************)
EnsureUser(r, u) ==
    /\ req[r] = Idle
    /\ users' = IF users[u] = "none" THEN [users EXCEPT ![u] = "active"] ELSE users
    /\ Becomes(r, [stage |-> "login", user |-> u])
    /\ UNCHANGED <<now, sessions, impersonations, audit, drawn>>

\* The foreign key refuses the session of a user that has been deleted since.
CreateSession(r, t) ==
    /\ req[r].stage = "login"
    /\ t \notin drawn
    /\ users[req[r].user] # "none"
    /\ sessions' = [sessions EXCEPT ![t] = [user |-> req[r].user, expires |-> now + SessionExpiry]]
    /\ drawn' = drawn \cup {t}
    /\ Becomes(r, Idle)
    /\ UNCHANGED <<now, users, impersonations, audit>>

Logout(t) ==
    /\ sessions[t] # None
    /\ DropSessions({t})
    /\ UNCHANGED <<now, users, audit, drawn, req>>
-----------------------------------------------------------------------------
(***************************************************************************)
(* ValidateToken.                                                          *)
(***************************************************************************)
GetSession(r, t) ==
    /\ req[r] = Idle
    /\ Live(sessions[t])
    /\ Becomes(r, [stage |-> "session", token |-> t, user |-> sessions[t].user])
    /\ UNCHANGED <<now, users, sessions, impersonations, audit, drawn>>

GetUser(r) ==
    /\ req[r].stage = "session"
    /\ users[req[r].user] # "none"
    /\ Becomes(r, [req[r] EXCEPT !.stage = "user"])
    /\ UNCHANGED <<now, users, sessions, impersonations, audit, drawn>>

\* Mutant: an impersonation is cleaned up as soon as it is about to end.
CleanExpiredEarly(r) ==
    /\ req[r].stage = "user"
    /\ impersonations' = [t \in Tokens |->
         IF impersonations[t] # None /\ impersonations[t].expires <= now + 1
           THEN None ELSE impersonations[t]]
    /\ Becomes(r, [req[r] EXCEPT !.stage = "cleaned"])
    /\ UNCHANGED <<now, users, sessions, audit, drawn>>

CleanExpired(r) ==
    /\ req[r].stage = "user"
    /\ impersonations' = [t \in Tokens |->
         IF Expired(impersonations[t]) THEN None ELSE impersonations[t]]
    /\ Becomes(r, [req[r] EXCEPT !.stage = "cleaned"])
    /\ UNCHANGED <<now, users, sessions, audit, drawn>>

\* No row is no impersonation.
GetImpersonation(r) ==
    /\ req[r].stage = "cleaned"
    /\ LET row == impersonations[req[r].token] IN
       Becomes(r, [stage |-> "acting", token |-> req[r].token, user |-> req[r].user,
                   by |-> IF Live(row) THEN row.admin ELSE None])
    /\ UNCHANGED <<now, users, sessions, impersonations, audit, drawn>>

\* A request ends: with its answer, with an error, or with the panel.
Finish(r) ==
    /\ req[r] # Idle
    /\ Becomes(r, Idle)
    /\ UNCHANGED <<now, users, sessions, impersonations, audit, drawn>>
-----------------------------------------------------------------------------
(***************************************************************************)
(* What a request does once it is validated.  AdminMiddleware lets an      *)
(* admin through that nobody impersonates.                                 *)
(***************************************************************************)
MayAdminister(r) == req[r].stage = "acting" /\ req[r].user \in Admins /\ req[r].by = None

\* StartImpersonation, up to the check of the admin's password.
CheckImpersonation(r, target) ==
    /\ MayAdminister(r)
    /\ target \notin Admins
    /\ users[req[r].user] = "active" /\ users[target] = "active"
    /\ Becomes(r, [stage |-> "starting", admin |-> req[r].user, target |-> target])
    /\ UNCHANGED <<now, users, sessions, impersonations, audit, drawn>>

\* Mutant: the session of an impersonation lasts as long as any other.
StartImpersonationLong(r, t) ==
    LET admin == req[r].admin  target == req[r].target IN
    /\ req[r].stage = "starting"
    /\ t \notin drawn
    /\ users[target] # "none"
    /\ sessions' = [sessions EXCEPT ![t] = [user |-> target, expires |-> now + SessionExpiry]]
    /\ impersonations' = [impersonations EXCEPT ![t] =
         [admin |-> admin, target |-> target, expires |-> now + ImpersonationExpiry]]
    /\ audit' = audit \cup {[token |-> t, action |-> "start", admin |-> admin, target |-> target]}
    /\ drawn' = drawn \cup {t}
    /\ Becomes(r, Idle)
    /\ UNCHANGED <<now, users>>

\* Mutant: no entry is written.
StartImpersonationUnlogged(r, t) ==
    LET admin == req[r].admin  target == req[r].target IN
    /\ req[r].stage = "starting"
    /\ t \notin drawn
    /\ users[target] # "none"
    /\ sessions' = [sessions EXCEPT ![t] = [user |-> target, expires |-> now + ImpersonationExpiry]]
    /\ impersonations' = [impersonations EXCEPT ![t] =
         [admin |-> admin, target |-> target, expires |-> now + ImpersonationExpiry]]
    /\ drawn' = drawn \cup {t}
    /\ Becomes(r, Idle)
    /\ UNCHANGED <<now, users, audit>>

\* The transaction: session, impersonation and entry.
StartImpersonation(r, t) ==
    LET admin == req[r].admin  target == req[r].target IN
    /\ req[r].stage = "starting"
    /\ t \notin drawn
    /\ users[target] # "none"
    /\ sessions' = [sessions EXCEPT ![t] = [user |-> target, expires |-> now + ImpersonationExpiry]]
    /\ impersonations' = [impersonations EXCEPT ![t] =
         [admin |-> admin, target |-> target, expires |-> now + ImpersonationExpiry]]
    /\ audit' = audit \cup {[token |-> t, action |-> "start", admin |-> admin, target |-> target]}
    /\ drawn' = drawn \cup {t}
    /\ Becomes(r, Idle)
    /\ UNCHANGED <<now, users>>

\* StopImpersonation reads the impersonation of its token.
FindImpersonation(r) ==
    /\ req[r].stage = "acting"
    /\ LET t == req[r].token  row == impersonations[t] IN
       /\ Live(row)
       /\ row.target = req[r].user
       /\ Becomes(r, [stage |-> "stopping", token |-> t, admin |-> row.admin, target |-> row.target])
    /\ UNCHANGED <<now, users, sessions, impersonations, audit, drawn>>

\* Mutant: only the row of the impersonation is deleted.
StopImpersonationKeepsSession(r) ==
    LET q == req[r] IN
    /\ q.stage = "stopping"
    /\ impersonations' = [impersonations EXCEPT ![q.token] = None]
    /\ audit' = audit \cup
         {[token |-> q.token, action |-> "stop", admin |-> q.admin, target |-> q.target]}
    /\ Becomes(r, Idle)
    /\ UNCHANGED <<now, users, sessions, drawn>>

\* The transaction; that the rows are still there is not asked.
StopImpersonation(r) ==
    LET q == req[r] IN
    /\ q.stage = "stopping"
    /\ DropSessions({q.token})
    /\ audit' = audit \cup
         {[token |-> q.token, action |-> "stop", admin |-> q.admin, target |-> q.target]}
    /\ Becomes(r, Idle)
    /\ UNCHANGED <<now, users, drawn>>

\* SetUserSuspended, after ToggleSuspension has read the row: sessions stay.
SetUserSuspended(r, u, status) ==
    /\ MayAdminister(r)
    /\ users[u] # "none"
    /\ users' = [users EXCEPT ![u] = status]
    /\ UNCHANGED <<now, sessions, impersonations, audit, drawn, req>>

\* The statement of UserService.Delete, and the sessions that go with the row.
DeleteUser(r, u) ==
    /\ MayAdminister(r)
    /\ users[u] # "none"
    /\ users' = [users EXCEPT ![u] = "none"]
    /\ DropSessions({t \in Tokens : sessions[t] # None /\ sessions[t].user = u})
    /\ UNCHANGED <<now, audit, drawn, req>>
-----------------------------------------------------------------------------
Tick ==
    /\ now < End
    /\ now' = now + 1
    /\ UNCHANGED <<users, sessions, impersonations, audit, drawn, req>>

Next ==
    \/ \E r \in Requests :
         \/ \E t \in Tokens : CreateSession(r, t) \/ GetSession(r, t) \/ StartImpersonation(r, t)
         \/ \E u \in Users :
              \/ EnsureUser(r, u) \/ CheckImpersonation(r, u) \/ DeleteUser(r, u)
              \/ \E status \in {"active", "suspended"} : SetUserSuspended(r, u, status)
         \/ GetUser(r) \/ CleanExpired(r) \/ GetImpersonation(r) \/ Finish(r)
         \/ FindImpersonation(r) \/ StopImpersonation(r)
    \/ \E t \in Tokens : Logout(t)
    \/ Tick

Spec == Init /\ [][Next]_vars
-----------------------------------------------------------------------------
(***************************************************************************)
(* Properties.                                                             *)
(***************************************************************************)
Logged(t, action) == \E e \in audit : e.token = t /\ e.action = action

\* It is known who makes a request, however its four statements fall between those of
\* others.  Whoever acts for somebody else is in the audit log as the admin that started
\* it, for the user acted for; and a request with the token of an impersonation passes for
\* the user's own only when the session has been deleted or has expired.
ActorsAreKnown ==
    \A r \in Requests : req[r].stage = "acting" =>
        IF req[r].by # None
          THEN [token |-> req[r].token, action |-> "start",
                admin |-> req[r].by, target |-> req[r].user] \in audit
          ELSE Logged(req[r].token, "start") => ~Live(sessions[req[r].token])

\* An impersonation the audit log calls stopped has no session left, and was started;
\* also when it has been stopped twice, or its user been deleted and logged in again.
StoppedIsOver ==
    \A t \in Tokens : Logged(t, "stop") => Logged(t, "start") /\ sessions[t] = None
=============================================================================
