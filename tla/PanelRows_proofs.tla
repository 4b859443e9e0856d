---------------------------- MODULE PanelRows_proofs ----------------------------
(***************************************************************************)
(* Proofs about the two parts of the panel that change a few rows in       *)
(* handlers of several steps: Sessions, for any users, tokens, requests    *)
(* and life spans, then CronSync, for any jobs, commands and requests.     *)
(***************************************************************************)
EXTENDS Sessions, CronSync, TLAPS

StartEntry(t, admin, target) ==
    [token |-> t, action |-> "start", admin |-> admin, target |-> target]

\* The log: about tokens that have been drawn, with an entry for each impersonation.
Audited ==
    /\ \A e \in audit : e.token \in drawn
    /\ \A t \in Tokens : impersonations[t] # None =>
         StartEntry(t, impersonations[t].admin, impersonations[t].target) \in audit

\* The session of an impersonation outlives the row about it only when it has expired.
Followed ==
    \A t \in Tokens : (Logged(t, "start") /\ sessions[t] # None) =>
        impersonations[t] # None \/ sessions[t].expires < now

\* What a request knows is true, or its session is gone.
Sound(r) ==
    LET q == req[r] IN
    /\ q.stage \in {"session", "user", "cleaned", "acting"} => q.token \in drawn
    /\ (q.stage \in {"session", "user", "cleaned"} /\ sessions[q.token] # None) =>
         sessions[q.token].user = q.user
    /\ q.stage = "acting" =>
         IF q.by # None THEN StartEntry(q.token, q.by, q.user) \in audit
         ELSE Logged(q.token, "start") => ~Live(sessions[q.token])
    /\ q.stage = "stopping" => StartEntry(q.token, q.admin, q.target) \in audit

IInv ==
    /\ TypeOK
    /\ Audited
    /\ Followed
    /\ StoppedIsOver
    /\ \A r \in Requests : Sound(r)
-----------------------------------------------------------------------------
LEMMA InitIInv == Init => IInv
<1> SUFFICES ASSUME Init PROVE IInv
  OBVIOUS
<1> USE DEF Init
<1>1. TypeOK
  BY DEF TypeOK, Request, Idle
<1>2. Audited /\ Followed /\ StoppedIsOver
  BY DEF Audited, Followed, StoppedIsOver, Logged
<1>3. \A r \in Requests : Sound(r)
  BY DEF Sound, Idle
<1>4. QED
  BY <1>1, <1>2, <1>3 DEF IInv

\* What the stages of a request say of its record.
LEMMA Stages ==
    ASSUME TypeOK, NEW r \in Requests
    PROVE  /\ req[r] = Idle <=> req[r].stage = "idle"
           /\ req[r].stage = "login" => req[r].user \in Users
           /\ req[r].stage \in {"session", "user", "cleaned"} =>
                req[r] \in [stage : {"session", "user", "cleaned"}, token : Tokens, user : Users]
           /\ req[r].stage \in {"session", "user", "cleaned", "acting"} =>
                req[r].token \in Tokens /\ req[r].user \in Users
           /\ req[r].stage = "acting" => req[r].by \in Users \cup {None}
           /\ req[r].stage = "starting" => req[r].admin \in Users /\ req[r].target \in Users
           /\ req[r].stage = "stopping" =>
                req[r].token \in Tokens /\ req[r].admin \in Users /\ req[r].target \in Users
  BY DEF TypeOK, Request, Idle

\* The rows of an impersonation are records, and never None.
LEMMA Rows ==
    ASSUME TypeOK, NEW t \in Tokens
    PROVE  /\ sessions[t] # None => sessions[t].user \in Users /\ sessions[t].expires \in Nat
           /\ impersonations[t] # None =>
                /\ impersonations[t].admin \in Users
                /\ impersonations[t].target \in Users
                /\ impersonations[t].expires \in Nat
                /\ sessions[t] # None
                /\ sessions[t].user = impersonations[t].target
                /\ sessions[t].expires = impersonations[t].expires
<1>1. sessions[t] # None => sessions[t] \in Session
  BY DEF TypeOK
<1>2. impersonations[t] # None => impersonations[t] \in Impersonation
  BY DEF TypeOK
<1>3. impersonations[t] # None =>
        sessions[t] = [user |-> impersonations[t].target, expires |-> impersonations[t].expires]
  BY DEF TypeOK
<1>4. impersonations[t] # None => sessions[t] \in Session
  BY <1>2, <1>3 DEF Impersonation, Session
<1>5. QED
  BY <1>1, <1>2, <1>3, <1>4, NoneAssumption DEF Impersonation, Session
-----------------------------------------------------------------------------
(***************************************************************************)
(* Types.                                                                  *)
(***************************************************************************)
\* A change of req alone, to a request of the right type.
LEMMA ReqTyped ==
    ASSUME TypeOK, NEW r \in Requests, NEW record \in Request, Becomes(r, record)
    PROVE  req' \in [Requests -> Request]
  BY DEF TypeOK, Becomes

LEMMA DropTyped ==
    ASSUME TypeOK, NEW S \in SUBSET Tokens, DropSessions(S)
    PROVE  /\ sessions' \in [Tokens -> Session \cup {None}]
           /\ impersonations' \in [Tokens -> Impersonation \cup {None}]
           /\ \A t \in Tokens : sessions'[t] = (IF t \in S THEN None ELSE sessions[t])
           /\ \A t \in Tokens :
                impersonations'[t] = (IF t \in S THEN None ELSE impersonations[t])
  BY DEF TypeOK, DropSessions
-----------------------------------------------------------------------------
(***************************************************************************)
(* What a step by one request leaves of the knowledge of the others.       *)
(***************************************************************************)
\* Sessions go and none comes back; the log grows by tokens drawn anew, or by stops.
Decays ==
    /\ now' \in Nat /\ now' >= now
    /\ audit \subseteq audit'
    /\ drawn \subseteq drawn'
    /\ \A t \in drawn : sessions'[t] \in {sessions[t], None}
    /\ \A t \in drawn : Logged(t, "start")' => Logged(t, "start")

LEMMA SoundKept ==
    ASSUME TypeOK, Decays, NEW r \in Requests, Sound(r), req'[r] = req[r]
    PROVE  Sound(r)'
<1> DEFINE q == req[r]
<1>1. CASE q.stage \in {"session", "user", "cleaned"}
  <2>1. q.token \in drawn /\ sessions'[q.token] \in {sessions[q.token], None}
    BY <1>1 DEF Sound, Decays
  <2>2. QED
    BY <1>1, <2>1 DEF Sound, Decays
<1>2. CASE q.stage = "acting"
  <2>1. q.token \in drawn /\ sessions'[q.token] \in {sessions[q.token], None} /\ q.token \in Tokens
    BY <1>2, Stages DEF Sound, Decays
  <2>2. ~Live(sessions[q.token]) => ~Live(sessions[q.token])'
    BY <2>1, Rows DEF Live, Decays, TypeOK
  <2>3. Logged(q.token, "start")' => Logged(q.token, "start")
    BY <2>1 DEF Decays
  <2>4. QED
    BY <1>2, <2>1, <2>2, <2>3 DEF Sound, Decays
<1>3. CASE q.stage = "stopping"
  BY <1>3 DEF Sound, Decays
<1>4. QED
  BY <1>1, <1>2, <1>3 DEF Sound

Rest == UNCHANGED <<now, users, sessions, impersonations, audit, drawn>>

\* A step that only lets a request learn something.
LEMMA Learns ==
    ASSUME IInv, Rest, NEW r \in Requests, NEW record \in Request, Becomes(r, record),
           Sound(r)'
    PROVE  IInv'
<1> USE DEF IInv
<1>1. TypeOK'
  BY ReqTyped DEF TypeOK, Rest
<1>2. Audited' /\ Followed' /\ StoppedIsOver'
  BY DEF Rest, Audited, Followed, StoppedIsOver, Logged
<1>3. Decays
  BY DEF Decays, Rest, TypeOK, Logged
<1>4. \A p \in Requests : Sound(p)'
  <2> TAKE p \in Requests
  <2>1. CASE p = r
    BY <2>1
  <2>2. CASE p # r
    BY <2>2, <1>3, SoundKept DEF Becomes, TypeOK
  <2>3. QED
    BY <2>1, <2>2
<1>5. QED
  BY <1>1, <1>2, <1>4
-----------------------------------------------------------------------------
(***************************************************************************)
(* The steps by which a request learns something, one by one.              *)
(***************************************************************************)
LEMMA GetSessionKeeps ==
    ASSUME IInv, NEW r \in Requests, NEW t \in Tokens, GetSession(r, t) PROVE IInv'
<1> DEFINE record == [stage |-> "session", token |-> t, user |-> sessions[t].user]
<1>1. TypeOK /\ sessions[t] # None /\ Becomes(r, record) /\ Rest
  BY DEF IInv, GetSession, Live, Rest
<1>2. record \in Request
  BY <1>1, Rows DEF Request
<1>3. t \in drawn
  BY <1>1 DEF TypeOK
<1>4. req'[r] = record
  BY <1>1 DEF Becomes, TypeOK
<1>5. Sound(r)'
  BY <1>1, <1>3, <1>4 DEF Sound, Rest
<1>6. QED
  BY <1>1, <1>2, <1>5, Learns

\* GetUser: the next stage, and nothing else.
LEMMA GetUserKeeps ==
    ASSUME IInv, NEW r \in Requests, GetUser(r) PROVE IInv'
<1> DEFINE record == [req[r] EXCEPT !.stage = "user"]
<1>1. TypeOK /\ req[r].stage = "session" /\ Becomes(r, record) /\ Rest /\ Sound(r)
  BY DEF IInv, GetUser, Rest
<1>2. record = [stage |-> "user", token |-> req[r].token, user |-> req[r].user]
  BY <1>1, Stages
<1>3. record \in Request
  BY <1>1, <1>2, Stages DEF Request
<1>4. req'[r] = record
  BY <1>1 DEF Becomes, TypeOK
<1>5. Sound(r)'
  BY <1>1, <1>2, <1>4 DEF Sound, Rest
<1>6. QED
  BY <1>1, <1>3, <1>5, Learns

\* Where a request becomes one that acts: the row it finds is that of its session, and
\* no row means that the session is over.
LEMMA GetImpersonationKeeps ==
    ASSUME IInv, NEW r \in Requests, GetImpersonation(r) PROVE IInv'
<1> DEFINE q == req[r]
           row == impersonations[q.token]
           record == [stage |-> "acting", token |-> q.token, user |-> q.user,
                      by |-> IF Live(row) THEN row.admin ELSE None]
<1>1. /\ TypeOK /\ Audited /\ Followed /\ Sound(r)
      /\ q.stage = "cleaned" /\ Becomes(r, record) /\ Rest
  BY DEF IInv, GetImpersonation, Rest
<1>2. q.token \in Tokens /\ q.user \in Users
  BY <1>1, Stages
<1>3. Live(row) => row.admin \in Users
  BY <1>1, <1>2, Rows DEF Live
<1>4. record \in Request
  BY <1>2, <1>3 DEF Request
<1>5. req'[r] = record
  BY <1>1 DEF Becomes, TypeOK
<1>6. q.token \in drawn
  BY <1>1 DEF Sound
<1>7. CASE Live(row)
  <2>1. row.target = q.user
    BY <1>1, <1>2, <1>7, Rows DEF Live, Sound
  <2>2. StartEntry(q.token, row.admin, q.user) \in audit
    BY <1>1, <1>2, <1>7, <2>1 DEF Live, Audited
  <2>3. row.admin # None
    BY <1>3, <1>7, ConstantsAssumption
  <2>4. Sound(r)'
    BY <1>1, <1>5, <1>6, <1>7, <2>2, <2>3 DEF Sound, Rest, StartEntry
  <2>5. QED
    BY <1>1, <1>4, <2>4, Learns
<1>8. CASE ~Live(row)
  <2>1. ASSUME Logged(q.token, "start") PROVE ~Live(sessions[q.token])
    BY <1>1, <1>2, <1>8, <2>1, Rows DEF Live, Followed, TypeOK
  <2>2. Sound(r)'
    BY <1>1, <1>5, <1>6, <1>8, <2>1 DEF Sound, Rest, Logged, Live
  <2>3. QED
    BY <1>1, <1>4, <2>2, Learns
<1>9. QED
  BY <1>7, <1>8

LEMMA FinishKeeps ==
    ASSUME IInv, NEW r \in Requests, Finish(r) PROVE IInv'
<1>1. TypeOK /\ Becomes(r, Idle) /\ Rest
  BY DEF IInv, Finish, Rest
<1>2. Idle \in Request
  BY DEF Request
<1>3. Sound(r)'
  BY <1>1 DEF Sound, Becomes, TypeOK, Idle
<1>4. QED
  BY <1>1, <1>2, <1>3, Learns

LEMMA CheckImpersonationKeeps ==
    ASSUME IInv, NEW r \in Requests, NEW target \in Users, CheckImpersonation(r, target)
    PROVE IInv'
<1> DEFINE record == [stage |-> "starting", admin |-> req[r].user, target |-> target]
<1>1. TypeOK /\ req[r].stage = "acting" /\ Becomes(r, record) /\ Rest
  BY DEF IInv, CheckImpersonation, MayAdminister, Rest
<1>2. record \in Request
  BY <1>1, Stages DEF Request
<1>3. Sound(r)'
  BY <1>1 DEF Sound, Becomes, TypeOK
<1>4. QED
  BY <1>1, <1>2, <1>3, Learns

LEMMA FindImpersonationKeeps ==
    ASSUME IInv, NEW r \in Requests, FindImpersonation(r) PROVE IInv'
<1> DEFINE t == req[r].token
           row == impersonations[t]
           record == [stage |-> "stopping", token |-> t, admin |-> row.admin,
                      target |-> row.target]
<1>1. TypeOK /\ Audited /\ req[r].stage = "acting" /\ row # None /\ Becomes(r, record) /\ Rest
  BY DEF IInv, FindImpersonation, Live, Rest
<1>2. t \in Tokens
  BY <1>1, Stages
<1>3. record \in Request
  BY <1>1, <1>2, Rows DEF Request
<1>4. StartEntry(t, row.admin, row.target) \in audit
  BY <1>1, <1>2 DEF Audited
<1>5. Sound(r)'
  BY <1>1, <1>4 DEF Sound, Becomes, TypeOK, Rest, StartEntry
<1>6. QED
  BY <1>1, <1>3, <1>5, Learns
-----------------------------------------------------------------------------
(***************************************************************************)
(* The steps that write.                                                   *)
(***************************************************************************)
LEMMA OthersSound ==
    ASSUME IInv, Decays, NEW r \in Requests, NEW record, Becomes(r, record), Sound(r)'
    PROVE  \A p \in Requests : Sound(p)'
<1> TAKE p \in Requests
<1>1. CASE p = r
  BY <1>1
<1>2. CASE p # r
  BY <1>2, SoundKept DEF Becomes, TypeOK, IInv
<1>3. QED
  BY <1>1, <1>2

LEMMA AllSound ==
    ASSUME IInv, Decays, UNCHANGED req PROVE \A p \in Requests : Sound(p)'
  BY SoundKept DEF IInv

\* An expired row goes; its session has expired with it.
LEMMA CleanExpiredKeeps ==
    ASSUME IInv, NEW r \in Requests, CleanExpired(r) PROVE IInv'
<1> DEFINE record == [req[r] EXCEPT !.stage = "cleaned"]
<1>1. /\ TypeOK /\ Audited /\ Followed /\ StoppedIsOver /\ Sound(r)
      /\ req[r].stage = "user" /\ Becomes(r, record)
      /\ UNCHANGED <<now, users, sessions, audit, drawn>>
  BY DEF IInv, CleanExpired
<1>2. \A t \in Tokens :
        impersonations'[t] = IF Expired(impersonations[t]) THEN None ELSE impersonations[t]
  BY <1>1 DEF CleanExpired
<1>3. record = [stage |-> "cleaned", token |-> req[r].token, user |-> req[r].user]
  BY <1>1, Stages
<1>4. record \in Request
  BY <1>1, <1>3, Stages DEF Request
<1>5. impersonations' \in [Tokens -> Impersonation \cup {None}]
  BY <1>1 DEF CleanExpired, TypeOK
<1>6. TypeOK'
  <2>1. req' \in [Requests -> Request]
    BY <1>1, <1>4, ReqTyped
  <2>2. QED
    BY <1>1, <1>2, <1>5, <2>1 DEF TypeOK
<1>7. Audited'
  BY <1>1, <1>2 DEF Audited
<1>8. Followed'
  <2> SUFFICES ASSUME NEW t \in Tokens, Logged(t, "start"), sessions[t] # None
               PROVE  impersonations'[t] # None \/ sessions[t].expires < now
    BY <1>1 DEF Followed, Logged
  <2>1. CASE Expired(impersonations[t])
    BY <1>1, <2>1, Rows DEF Expired
  <2>2. CASE ~Expired(impersonations[t])
    BY <1>1, <1>2, <2>2 DEF Followed
  <2>3. QED
    BY <2>1, <2>2
<1>9. StoppedIsOver'
  BY <1>1 DEF StoppedIsOver, Logged
<1>10. Decays
  BY <1>1 DEF Decays, TypeOK, Logged
<1>11. Sound(r)'
  BY <1>1, <1>3 DEF Sound, Becomes, TypeOK
<1>12. QED
  BY <1>1, <1>6, <1>7, <1>8, <1>9, <1>10, <1>11, OthersSound DEF IInv

LEMMA EnsureUserKeeps ==
    ASSUME IInv, NEW r \in Requests, NEW u \in Users, EnsureUser(r, u) PROVE IInv'
<1> DEFINE record == [stage |-> "login", user |-> u]
<1>1. /\ TypeOK /\ Becomes(r, record)
      /\ UNCHANGED <<now, sessions, impersonations, audit, drawn>>
      /\ users' = IF users[u] = "none" THEN [users EXCEPT ![u] = "active"] ELSE users
  BY DEF IInv, EnsureUser
<1>2. record \in Request
  BY DEF Request
<1>3. TypeOK'
  <2>1. req' \in [Requests -> Request]
    BY <1>1, <1>2, ReqTyped
  <2>2. /\ users' \in [Users -> {"none", "active", "suspended"}]
        /\ \A v \in Users : users[v] # "none" => users'[v] # "none"
    BY <1>1 DEF TypeOK
  <2>3. \A t \in Tokens : sessions[t] # None => sessions[t].user \in Users
    BY <1>1, Rows
  <2>4. QED
    BY <1>1, <2>1, <2>2, <2>3 DEF TypeOK
<1>4. Audited' /\ Followed' /\ StoppedIsOver'
  BY <1>1 DEF IInv, Audited, Followed, StoppedIsOver, Logged
<1>5. Decays
  BY <1>1 DEF Decays, TypeOK, Logged
<1>6. Sound(r)'
  BY <1>1 DEF Sound, Becomes, TypeOK
<1>7. QED
  BY <1>1, <1>3, <1>4, <1>5, <1>6, OthersSound DEF IInv

\* The token is new, so that nothing is known about it.
LEMMA CreateSessionKeeps ==
    ASSUME IInv, NEW r \in Requests, NEW t \in Tokens, CreateSession(r, t) PROVE IInv'
<1> DEFINE row == [user |-> req[r].user, expires |-> now + SessionExpiry]
<1>1. /\ TypeOK /\ Audited /\ Followed /\ StoppedIsOver
      /\ req[r].stage = "login" /\ t \notin drawn /\ users[req[r].user] # "none"
      /\ sessions' = [sessions EXCEPT ![t] = row]
      /\ drawn' = drawn \cup {t}
      /\ Becomes(r, Idle)
      /\ UNCHANGED <<now, users, impersonations, audit>>
  BY DEF IInv, CreateSession
<1>2. row \in Session
  <2>1. now + SessionExpiry \in Nat
    BY <1>1, ConstantsAssumption DEF TypeOK
  <2>2. QED
    BY <1>1, <2>1, Stages DEF Session
<1>3. sessions'[t] = row /\ \A o \in Tokens \ {t} : sessions'[o] = sessions[o]
  BY <1>1 DEF TypeOK
<1>4. sessions[t] = None /\ impersonations[t] = None
  BY <1>1, Rows DEF TypeOK
<1>5. TypeOK'
  <2>1. req' \in [Requests -> Request]
    BY <1>1, ReqTyped DEF Request
  <2>2. sessions' \in [Tokens -> Session \cup {None}]
    BY <1>1, <1>2 DEF TypeOK
  <2>3. \A o \in Tokens : sessions'[o] # None => o \in drawn' /\ users[sessions'[o].user] # "none"
    BY <1>1, <1>3 DEF TypeOK
  <2>4. \A o \in Tokens : impersonations[o] # None =>
          sessions'[o] = [user |-> impersonations[o].target, expires |-> impersonations[o].expires]
    BY <1>1, <1>3, <1>4 DEF TypeOK
  <2>5. QED
    BY <1>1, <2>1, <2>2, <2>3, <2>4 DEF TypeOK
<1>6. ~Logged(t, "start") /\ ~Logged(t, "stop")
  BY <1>1 DEF Audited, Logged
<1>7. Audited' /\ Followed' /\ StoppedIsOver'
  BY <1>1, <1>3, <1>6 DEF Audited, Followed, StoppedIsOver, Logged
<1>8. Decays
  BY <1>1, <1>3 DEF Decays, TypeOK, Logged
<1>9. Sound(r)'
  BY <1>1 DEF Sound, Becomes, TypeOK, Idle
<1>10. QED
  BY <1>1, <1>5, <1>7, <1>8, <1>9, OthersSound DEF IInv

\* Session, row and entry about a new token, in one transaction.
LEMMA StartImpersonationKeeps ==
    ASSUME IInv, NEW r \in Requests, NEW t \in Tokens, StartImpersonation(r, t) PROVE IInv'
<1> DEFINE admin == req[r].admin
           target == req[r].target
           row == [user |-> target, expires |-> now + ImpersonationExpiry]
           imp == [admin |-> admin, target |-> target, expires |-> now + ImpersonationExpiry]
           entry == [token |-> t, action |-> "start", admin |-> admin, target |-> target]
<1>1. /\ TypeOK /\ Audited /\ Followed /\ StoppedIsOver
      /\ req[r].stage = "starting" /\ t \notin drawn /\ users[target] # "none"
      /\ sessions' = [sessions EXCEPT ![t] = row]
      /\ impersonations' = [impersonations EXCEPT ![t] = imp]
      /\ audit' = audit \cup {entry}
      /\ drawn' = drawn \cup {t}
      /\ Becomes(r, Idle)
      /\ UNCHANGED <<now, users>>
  BY DEF IInv, StartImpersonation
<1>2. admin \in Users /\ target \in Users
  BY <1>1, Stages
<1>3. now + ImpersonationExpiry \in Nat
  BY <1>1, ConstantsAssumption DEF TypeOK
<1>4. row \in Session /\ imp \in Impersonation /\ entry \in Entry
  BY <1>2, <1>3 DEF Session, Impersonation, Entry
<1>5. /\ sessions'[t] = row /\ impersonations'[t] = imp
      /\ \A o \in Tokens \ {t} :
           sessions'[o] = sessions[o] /\ impersonations'[o] = impersonations[o]
  BY <1>1 DEF TypeOK
<1>6. TypeOK'
  <2>1. req' \in [Requests -> Request]
    BY <1>1, ReqTyped DEF Request
  <2>2. /\ sessions' \in [Tokens -> Session \cup {None}]
        /\ impersonations' \in [Tokens -> Impersonation \cup {None}]
        /\ audit' \subseteq Entry /\ drawn' \subseteq Tokens
    BY <1>1, <1>4 DEF TypeOK
  <2>3. \A o \in Tokens : sessions'[o] # None => o \in drawn' /\ users[sessions'[o].user] # "none"
    BY <1>1, <1>5 DEF TypeOK
  <2>4. \A o \in Tokens : impersonations'[o] # None =>
          sessions'[o] = [user |-> impersonations'[o].target, expires |-> impersonations'[o].expires]
    BY <1>1, <1>5 DEF TypeOK
  <2>5. QED
    BY <1>1, <2>1, <2>2, <2>3, <2>4 DEF TypeOK
<1>7. ~Logged(t, "start") /\ ~Logged(t, "stop")
  BY <1>1 DEF Audited, Logged
<1>8. \A o \in Tokens \ {t} : Logged(o, "start")' => Logged(o, "start")
  BY <1>1 DEF Logged
<1>9. \A o \in Tokens : Logged(o, "stop")' => Logged(o, "stop")
  BY <1>1 DEF Logged
<1>10. Audited'
  BY <1>1, <1>5 DEF Audited, StartEntry
<1>11. Followed'
  BY <1>1, <1>4, <1>5, <1>8, NoneAssumption DEF Followed
<1>12. StoppedIsOver'
  BY <1>1, <1>5, <1>7, <1>9 DEF StoppedIsOver, Logged
<1>13. Decays
  BY <1>1, <1>5, <1>8 DEF Decays, TypeOK
<1>14. Sound(r)'
  BY <1>1 DEF Sound, Becomes, TypeOK, Idle
<1>15. QED
  BY <1>1, <1>6, <1>10, <1>11, <1>12, <1>13, <1>14, OthersSound DEF IInv

\* Sessions go, with the rows that refer to them; what is logged beside is that
\* impersonations among them have stopped.
Drops(S) ==
    /\ DropSessions(S)
    /\ UNCHANGED <<now, drawn>>
    /\ users' \in [Users -> {"none", "active", "suspended"}]
    /\ \A t \in Tokens \ S : sessions[t] # None => users'[sessions[t].user] # "none"
    /\ audit' \subseteq Entry /\ audit \subseteq audit'
    /\ \A e \in audit' \ audit :
         e.action = "stop" /\ e.token \in S /\ Logged(e.token, "start")
    /\ req' \in [Requests -> Request]
    /\ \A p \in Requests : req'[p] \in {req[p], Idle}

LEMMA DropKeeps ==
    ASSUME IInv, NEW S \in SUBSET Tokens, Drops(S) PROVE IInv'
<1> USE DEF Drops
<1>1. /\ TypeOK /\ Audited /\ Followed /\ StoppedIsOver
      /\ \A p \in Requests : Sound(p)
  BY DEF IInv
<1>2. /\ sessions' \in [Tokens -> Session \cup {None}]
      /\ impersonations' \in [Tokens -> Impersonation \cup {None}]
      /\ \A t \in Tokens : sessions'[t] = (IF t \in S THEN None ELSE sessions[t])
      /\ \A t \in Tokens : impersonations'[t] = (IF t \in S THEN None ELSE impersonations[t])
  BY <1>1, DropTyped
<1>3. TypeOK'
  BY <1>1, <1>2 DEF TypeOK
<1>4. \A t \in Tokens : Logged(t, "start")' => Logged(t, "start")
  BY DEF Logged
<1>5. \A t \in Tokens : Logged(t, "start") => Logged(t, "start")'
  BY DEF Logged
<1>6. Audited'
  <2>1. \A e \in audit' : e.token \in drawn'
    BY <1>1 DEF Audited, Logged
  <2>2. \A t \in Tokens : impersonations'[t] # None =>
          StartEntry(t, impersonations'[t].admin, impersonations'[t].target) \in audit'
    BY <1>1, <1>2 DEF Audited
  <2>3. QED
    BY <2>1, <2>2 DEF Audited
<1>7. Followed'
  BY <1>1, <1>2, <1>4 DEF Followed
<1>8. StoppedIsOver'
  <2> SUFFICES ASSUME NEW t \in Tokens, Logged(t, "stop")'
               PROVE  Logged(t, "start")' /\ sessions'[t] = None
    BY DEF StoppedIsOver
  <2>1. CASE Logged(t, "stop")
    BY <1>1, <1>2, <1>5, <2>1 DEF StoppedIsOver
  <2>2. CASE ~Logged(t, "stop")
    <3>1. PICK e \in audit' \ audit : e.token = t
      BY <2>2 DEF Logged
    <3>2. QED
      BY <1>2, <1>5, <3>1
  <2>3. QED
    BY <2>1, <2>2
<1>9. Decays
  BY <1>1, <1>2, <1>4 DEF Decays, TypeOK
<1>10. \A p \in Requests : Sound(p)'
  <2> TAKE p \in Requests
  <2>1. CASE req'[p] = req[p]
    BY <1>1, <1>9, <2>1, SoundKept
  <2>2. CASE req'[p] = Idle
    BY <2>2 DEF Sound, Idle
  <2>3. QED
    BY <2>1, <2>2
<1>11. QED
  BY <1>3, <1>6, <1>7, <1>8, <1>10 DEF IInv

LEMMA LogoutKeeps ==
    ASSUME IInv, NEW t \in Tokens, Logout(t) PROVE IInv'
<1>1. Drops({t})
  BY DEF IInv, Logout, Drops, TypeOK
<1>2. QED
  BY <1>1, DropKeeps

LEMMA StopImpersonationKeeps ==
    ASSUME IInv, NEW r \in Requests, StopImpersonation(r) PROVE IInv'
<1> DEFINE q == req[r]
           entry == [token |-> q.token, action |-> "stop", admin |-> q.admin, target |-> q.target]
<1>1. /\ TypeOK /\ Sound(r) /\ q.stage = "stopping"
      /\ DropSessions({q.token}) /\ audit' = audit \cup {entry}
      /\ Becomes(r, Idle) /\ UNCHANGED <<now, users, drawn>>
  BY DEF IInv, StopImpersonation
<1>2. q.token \in Tokens /\ q.admin \in Users /\ q.target \in Users
  BY <1>1, Stages
<1>3. entry \in Entry
  BY <1>2 DEF Entry
<1>4. Logged(q.token, "start")
  BY <1>1 DEF Sound, StartEntry, Logged
<1>5. req' \in [Requests -> Request] /\ \A p \in Requests : req'[p] \in {req[p], Idle}
  BY <1>1, ReqTyped DEF Request, Becomes, TypeOK
<1>6. Drops({q.token})
  BY <1>1, <1>3, <1>4, <1>5 DEF Drops, TypeOK
<1>7. QED
  BY <1>2, <1>6, DropKeeps

\* The sessions of the user go with it, so that no session is without its user.
LEMMA DeleteUserKeeps ==
    ASSUME IInv, NEW r \in Requests, NEW u \in Users, DeleteUser(r, u) PROVE IInv'
<1> DEFINE S == {t \in Tokens : sessions[t] # None /\ sessions[t].user = u}
<1>1. /\ TypeOK /\ users' = [users EXCEPT ![u] = "none"]
      /\ DropSessions(S) /\ UNCHANGED <<now, audit, drawn, req>>
  BY DEF IInv, DeleteUser
<1>2. \A t \in Tokens \ S : sessions[t] # None => users'[sessions[t].user] # "none"
  BY <1>1, Rows DEF TypeOK
<1>3. users' \in [Users -> {"none", "active", "suspended"}]
  BY <1>1 DEF TypeOK
<1>4. Drops(S)
  BY <1>1, <1>2, <1>3 DEF Drops, TypeOK
<1>5. QED
  BY <1>4, DropKeeps

LEMMA SetUserSuspendedKeeps ==
    ASSUME IInv, NEW r \in Requests, NEW u \in Users, NEW status \in {"active", "suspended"},
           SetUserSuspended(r, u, status)
    PROVE  IInv'
<1>1. /\ TypeOK /\ users[u] # "none" /\ users' = [users EXCEPT ![u] = status]
      /\ UNCHANGED <<now, sessions, impersonations, audit, drawn, req>>
  BY DEF IInv, SetUserSuspended
<1>2. TypeOK'
  <2>1. /\ users' \in [Users -> {"none", "active", "suspended"}]
        /\ \A v \in Users : users[v] # "none" => users'[v] # "none"
    BY <1>1 DEF TypeOK
  <2>2. \A t \in Tokens : sessions[t] # None => sessions[t].user \in Users
    BY <1>1, Rows
  <2>3. QED
    BY <1>1, <2>1, <2>2 DEF TypeOK
<1>3. Audited' /\ Followed' /\ StoppedIsOver'
  BY <1>1 DEF IInv, Audited, Followed, StoppedIsOver, Logged
<1>4. Decays
  BY <1>1 DEF Decays, TypeOK, Logged
<1>5. QED
  BY <1>1, <1>2, <1>3, <1>4, AllSound DEF IInv

\* Time only makes rows expire.
LEMMA TickKeeps == ASSUME IInv, Tick PROVE IInv'
<1>1. /\ TypeOK /\ now' = now + 1
      /\ UNCHANGED <<users, sessions, impersonations, audit, drawn, req>>
  BY DEF IInv, Tick
<1>2. TypeOK'
  BY <1>1 DEF TypeOK
<1>3. Audited' /\ StoppedIsOver'
  BY <1>1 DEF IInv, Audited, StoppedIsOver, Logged
<1>4. Followed'
  BY <1>1, Rows DEF IInv, Followed, Logged, TypeOK
<1>5. Decays
  BY <1>1 DEF Decays, TypeOK, Logged
<1>6. QED
  BY <1>1, <1>2, <1>3, <1>4, <1>5, AllSound DEF IInv

LEMMA StutterKeeps == ASSUME IInv, UNCHANGED vars PROVE IInv'
<1>1. /\ TypeOK' /\ Audited' /\ Followed' /\ StoppedIsOver'
  BY DEF IInv, vars, TypeOK, Audited, Followed, StoppedIsOver, Logged
<1>2. Decays
  BY DEF IInv, vars, Decays, TypeOK, Logged
<1>3. QED
  BY <1>1, <1>2, AllSound DEF IInv, vars
-----------------------------------------------------------------------------
LEMMA NextIInv == IInv /\ [Next]_vars => IInv'
<1> SUFFICES ASSUME IInv, [Next]_vars PROVE IInv'
  OBVIOUS
<1>1. ASSUME NEW r \in Requests, NEW t \in Tokens,
             CreateSession(r, t) \/ GetSession(r, t) \/ StartImpersonation(r, t)
      PROVE  IInv'
  BY <1>1, CreateSessionKeeps, GetSessionKeeps, StartImpersonationKeeps
<1>2. ASSUME NEW r \in Requests, NEW u \in Users,
             EnsureUser(r, u) \/ CheckImpersonation(r, u) \/ DeleteUser(r, u)
      PROVE  IInv'
  BY <1>2, EnsureUserKeeps, CheckImpersonationKeeps, DeleteUserKeeps
<1>3. ASSUME NEW r \in Requests, NEW u \in Users, NEW status \in {"active", "suspended"},
             SetUserSuspended(r, u, status)
      PROVE  IInv'
  BY <1>3, SetUserSuspendedKeeps
<1>4. ASSUME NEW r \in Requests,
             \/ GetUser(r) \/ CleanExpired(r) \/ GetImpersonation(r) \/ Finish(r)
             \/ FindImpersonation(r) \/ StopImpersonation(r)
      PROVE  IInv'
  BY <1>4, GetUserKeeps, CleanExpiredKeeps, GetImpersonationKeeps, FinishKeeps,
     FindImpersonationKeeps, StopImpersonationKeeps
<1>5. CASE (\E t \in Tokens : Logout(t)) \/ Tick \/ UNCHANGED vars
  BY <1>5, LogoutKeeps, TickKeeps, StutterKeeps
<1>6. QED
  BY <1>1, <1>2, <1>3, <1>4, <1>5 DEF Next

\* The inductive invariant holds in every reachable state.
LEMMA AlwaysIInv == Spec => []IInv
  BY InitIInv, NextIInv, PTL DEF Spec

\* What is sound about a request that acts is what ActorsAreKnown says of it.
LEMMA SoundActors == IInv => ActorsAreKnown
  BY DEF IInv, Sound, ActorsAreKnown, StartEntry

\* The tables keep to their schema: no session without its user, no impersonation
\* without its session, for the same user and as long.
THEOREM TypeCorrect == Spec => []TypeOK
<1>1. IInv => TypeOK
  BY DEF IInv
<1>2. QED
  BY <1>1, AlwaysIInv, PTL

\* However the statements that validate a request fall between the steps of others, a
\* request on behalf of somebody else is known as one, and is in the audit log.
THEOREM ActorsKnown == Spec => []ActorsAreKnown
  BY AlwaysIInv, SoundActors, PTL

\* What the audit log calls stopped has been started and has no session.
THEOREM StoppedOver == Spec => []StoppedIsOver
<1>1. IInv => StoppedIsOver
  BY DEF IInv
<1>2. QED
  BY <1>1, AlwaysIInv, PTL
-----------------------------------------------------------------------------
(***************************************************************************)
(* CronSync.                                                               *)
(***************************************************************************)
\* A request that has been alone so far is the only one under way.
AloneIsAlone ==
    \A r \in CronRequests :
        (cronReq[r] # CronIdle /\ cronReq[r].alone) => \A q \in CronRequests \ {r} : cronReq[q] = CronIdle

\* Nobody changes a row between the reading and the install of such a request.
AloneIsCurrent ==
    \A r \in CronRequests :
        (cronReq[r].stage = "listed" /\ cronReq[r].alone) => cronReq[r].lines = Enabled

\* A request that has written a row and not yet installed the rows.
Pending(r) == cronReq[r].stage \in {"written", "listed"}

Synced ==
    ~dirty => /\ orphans = {}
              /\ (\A r \in CronRequests : ~Pending(r)) => crontab = Enabled

CronIInv ==
    /\ CronTypeOK
    /\ AloneIsAlone
    /\ AloneIsCurrent
    /\ Synced
-----------------------------------------------------------------------------
LEMMA CronInitIInv == CronInit => CronIInv
<1> SUFFICES ASSUME CronInit PROVE CronIInv
  OBVIOUS
<1> USE DEF CronInit
<1>1. DOMAIN rows = {}
  OBVIOUS
<1>2. CronTypeOK
  BY <1>1 DEF CronTypeOK, CronRequest, CronIdle
<1>3. AloneIsAlone /\ AloneIsCurrent
  BY DEF AloneIsAlone, AloneIsCurrent, CronIdle
<1>4. Synced
  BY <1>1 DEF Synced, Enabled
<1>5. QED
  BY <1>2, <1>3, <1>4 DEF CronIInv

\* What the stages of a request say of its record.
LEMMA CronStages ==
    ASSUME CronTypeOK, NEW r \in CronRequests
    PROVE  /\ cronReq[r] = CronIdle <=> cronReq[r].stage = "idle"
           /\ cronReq[r].stage \in {"idle", "found", "written", "listed"}
           /\ cronReq[r] # CronIdle => cronReq[r].alone \in BOOLEAN
           /\ cronReq[r].stage = "found" => cronReq[r].job \in Jobs
           /\ cronReq[r].stage = "listed" => cronReq[r].lines \subseteq Line
  BY DEF CronTypeOK, CronRequest, CronIdle

\* The crontab made of the rows consists of lines.
LEMMA EnabledTyped == ASSUME CronTypeOK PROVE Enabled \subseteq Line
  BY DEF CronTypeOK, Enabled, Line, CronRow

LEMMA WithTyped ==
    ASSUME CronTypeOK, NEW j \in Jobs, NEW row \in CronRow
    PROVE  /\ DOMAIN With(j, row) = DOMAIN rows \cup {j}
           /\ \A i \in DOMAIN With(j, row) : With(j, row)[i] \in CronRow
  BY DEF CronTypeOK, With
-----------------------------------------------------------------------------
(***************************************************************************)
(* How cronReq changes.                                                        *)
(***************************************************************************)
LEMMA Started ==
    ASSUME CronTypeOK, NEW r \in CronRequests, NEW record \in CronRequest, record # CronIdle,
           cronReq[r] = CronIdle, Start(r, record)
    PROVE  /\ cronReq' \in [CronRequests -> CronRequest]
           /\ cronReq'[r] = record
           /\ \A q \in CronRequests \ {r} :
                /\ cronReq'[q] = CronIdle <=> cronReq[q] = CronIdle
                /\ cronReq'[q] # CronIdle => ~cronReq'[q].alone
                /\ cronReq'[q].stage = cronReq[q].stage
<1>1. cronReq \in [CronRequests -> CronRequest]
  BY DEF CronTypeOK
<1>2. cronReq'[r] = record
  BY <1>1 DEF Start
<1>3. ASSUME NEW q \in CronRequests \ {r}
      PROVE  /\ cronReq'[q] \in CronRequest
             /\ cronReq'[q] = CronIdle <=> cronReq[q] = CronIdle
             /\ cronReq'[q] # CronIdle => ~cronReq'[q].alone
             /\ cronReq'[q].stage = cronReq[q].stage
  <2>1. CASE cronReq[q] = CronIdle
    BY <1>1, <2>1 DEF Start, CronRequest
  <2>2. CASE cronReq[q] # CronIdle
    <3>1. cronReq'[q] = [cronReq[q] EXCEPT !.alone = FALSE]
      BY <1>1, <2>2 DEF Start
    <3>2. cronReq[q] \in CronRequest
      BY <1>1
    <3>3. QED
      BY <2>2, <3>1, <3>2 DEF CronRequest, CronIdle
  <2>3. QED
    BY <2>1, <2>2
<1>4. cronReq' \in [CronRequests -> CronRequest]
  <2>1. DOMAIN cronReq' = CronRequests /\ cronReq' = [q \in CronRequests |-> cronReq'[q]]
    BY DEF Start
  <2>2. \A q \in CronRequests : cronReq'[q] \in CronRequest
    BY <1>2, <1>3
  <2>3. QED
    BY <2>1, <2>2
<1>5. QED
  BY <1>2, <1>3, <1>4

LEMMA Moved ==
    ASSUME CronTypeOK, NEW r \in CronRequests, NEW record \in CronRequest, CronBecomes(r, record)
    PROVE  /\ cronReq' \in [CronRequests -> CronRequest]
           /\ cronReq'[r] = record
           /\ \A q \in CronRequests \ {r} : cronReq'[q] = cronReq[q]
  BY DEF CronTypeOK, CronBecomes

\* A request never becomes alone by moving on.
LEMMA AloneKept ==
    ASSUME CronIInv, NEW r \in CronRequests, NEW record \in CronRequest, CronBecomes(r, record),
           cronReq[r] # CronIdle, record # CronIdle => record.alone = cronReq[r].alone
    PROVE  AloneIsAlone'
  BY Moved DEF CronIInv, AloneIsAlone

LEMMA EnabledKept == ASSUME UNCHANGED rows PROVE Enabled' = Enabled
  BY DEF Enabled
-----------------------------------------------------------------------------
(***************************************************************************)
(* The steps of a request.                                                 *)
(***************************************************************************)
\* A request that starts: nothing is written, or it still has to install the rows.
LEMMA StartKeepsIInv ==
    ASSUME CronIInv, NEW r \in CronRequests, NEW record \in CronRequest,
           cronReq[r] = CronIdle, record.stage \in {"found", "written"},
           record.alone = (Busy = {}), Start(r, record),
           UNCHANGED rows \/ record.stage = "written",
           (DOMAIN rows \subseteq created /\ \A j \in DOMAIN rows : rows[j] \in CronRow)',
           created' \subseteq Jobs,
           UNCHANGED <<crontab, orphans, dirty>>
    PROVE  CronIInv'
<1>1. CronTypeOK
  BY DEF CronIInv
<1>2. record # CronIdle
  BY DEF CronIdle
<1>3. /\ cronReq' \in [CronRequests -> CronRequest]
      /\ cronReq'[r] = record
      /\ \A q \in CronRequests \ {r} :
           /\ cronReq'[q] = CronIdle <=> cronReq[q] = CronIdle
           /\ cronReq'[q] # CronIdle => ~cronReq'[q].alone
           /\ cronReq'[q].stage = cronReq[q].stage
  BY <1>1, <1>2, Started
<1>4. CronTypeOK'
  BY <1>1, <1>3 DEF CronTypeOK
<1>5. AloneIsAlone'
  BY <1>3 DEF AloneIsAlone, Busy
<1>6. AloneIsCurrent'
  BY <1>3 DEF AloneIsCurrent, CronIdle
<1>7. Synced'
  <2>1. CASE record.stage = "written"
    BY <1>3, <2>1 DEF CronIInv, Synced, Pending
  <2>2. CASE record.stage = "found"
    <3>1. Enabled' = Enabled
      BY <2>2, EnabledKept
    <3>2. \A q \in CronRequests : Pending(q)' <=> Pending(q)
      BY <1>3, <2>2 DEF Pending, CronIdle
    <3>3. QED
      BY <3>1, <3>2 DEF CronIInv, Synced
  <2>3. QED
    BY <2>1, <2>2
<1>8. QED
  BY <1>4, <1>5, <1>6, <1>7 DEF CronIInv

LEMMA CreateKeepsIInv ==
    ASSUME CronIInv, NEW r \in CronRequests, NEW j \in Jobs, NEW command \in Commands,
           Create(r, j, command)
    PROVE  CronIInv'
<1> DEFINE row == [command |-> command, enabled |-> TRUE]
           record == [stage |-> "written", alone |-> Busy = {}]
<1>1. row \in CronRow /\ record \in CronRequest /\ (Busy = {}) \in BOOLEAN
  BY DEF CronRow, CronRequest
<1>2. CronTypeOK
  BY DEF CronIInv
<1>3. rows' = With(j, row) /\ created' = created \cup {j} /\ Start(r, record) /\ cronReq[r] = CronIdle
  BY DEF Create
<1>4. (DOMAIN rows \subseteq created /\ \A i \in DOMAIN rows : rows[i] \in CronRow)'
  <2>1. /\ DOMAIN With(j, row) = DOMAIN rows \cup {j}
        /\ \A i \in DOMAIN With(j, row) : With(j, row)[i] \in CronRow
    <3> HIDE DEF row
    <3> QED
      BY <1>1, <1>2, WithTyped
  <2>2. DOMAIN rows' \subseteq created'
    BY <1>2, <1>3, <2>1 DEF CronTypeOK
  <2>3. QED
    BY <1>3, <2>1, <2>2
<1>5. created' \subseteq Jobs
  BY <1>2, <1>3 DEF CronTypeOK
<1>6. UNCHANGED <<crontab, orphans, dirty>>
  BY DEF Create
<1>7. QED
  BY <1>1, <1>3, <1>4, <1>5, <1>6, StartKeepsIInv

LEMMA FindKeepsIInv ==
    ASSUME CronIInv, NEW r \in CronRequests, NEW j \in Jobs, Find(r, j)
    PROVE  CronIInv'
<1> DEFINE record == [stage |-> "found", job |-> j, alone |-> Busy = {}]
<1>1. record \in CronRequest
  BY DEF CronRequest
<1>2. (DOMAIN rows \subseteq created /\ \A i \in DOMAIN rows : rows[i] \in CronRow)'
  BY DEF Find, CronIInv, CronTypeOK
<1>3. created' \subseteq Jobs
  BY DEF Find, CronIInv, CronTypeOK
<1>4. QED
  BY <1>1, <1>2, <1>3, StartKeepsIInv DEF Find

\* A request that has found its row writes it, or finds it gone.
LEMMA WriteKeepsIInv ==
    ASSUME CronIInv, NEW r \in CronRequests, cronReq[r].stage = "found", CronBecomes(r, Written(r)),
           (DOMAIN rows \subseteq created /\ \A j \in DOMAIN rows : rows[j] \in CronRow)',
           UNCHANGED <<created, crontab, orphans, dirty>>
    PROVE  CronIInv'
<1>1. CronTypeOK
  BY DEF CronIInv
<1>2. cronReq[r] # CronIdle
  BY <1>1, CronStages
<1>3. Written(r) \in CronRequest /\ Written(r).alone = cronReq[r].alone /\ Written(r).stage = "written"
  BY <1>1, <1>2, CronStages DEF Written, CronRequest
<1>4. /\ cronReq' \in [CronRequests -> CronRequest]
      /\ cronReq'[r] = Written(r)
      /\ \A q \in CronRequests \ {r} : cronReq'[q] = cronReq[q]
  BY <1>1, <1>3, Moved
<1>5. CronTypeOK'
  BY <1>1, <1>4 DEF CronTypeOK
<1>6. AloneIsAlone'
  BY <1>2, <1>3, AloneKept
<1>7. AloneIsCurrent'
  <2> SUFFICES ASSUME NEW q \in CronRequests, cronReq'[q].stage = "listed", cronReq'[q].alone
               PROVE  FALSE
    BY DEF AloneIsCurrent
  <2>1. q # r /\ cronReq[q] = cronReq'[q]
    BY <1>3, <1>4
  <2>2. cronReq[q] # CronIdle
    BY <1>1, <2>1, CronStages
  <2>3. QED
    BY <1>2, <2>1, <2>2 DEF CronIInv, AloneIsAlone
<1>8. Synced'
  BY <1>3, <1>4 DEF CronIInv, Synced, Pending
<1>9. QED
  BY <1>5, <1>6, <1>7, <1>8 DEF CronIInv

LEMMA UpdateKeepsIInv ==
    ASSUME CronIInv, NEW r \in CronRequests, NEW row \in CronRow, Update(r, row)
    PROVE  CronIInv'
<1>1. CronTypeOK /\ cronReq[r].stage = "found"
  BY DEF CronIInv, Update
<1>2. cronReq[r].job \in Jobs
  BY <1>1, CronStages
<1>3. (DOMAIN rows \subseteq created /\ \A j \in DOMAIN rows : rows[j] \in CronRow)'
  <2>1. CASE cronReq[r].job \in DOMAIN rows
    <3>1. rows' = With(cronReq[r].job, row) /\ created' = created
      BY <2>1 DEF Update
    <3>2. /\ DOMAIN rows' = DOMAIN rows \cup {cronReq[r].job}
          /\ \A j \in DOMAIN rows' : rows'[j] \in CronRow
      BY <1>1, <1>2, <3>1, WithTyped
    <3>3. QED
      BY <1>1, <2>1, <3>1, <3>2 DEF CronTypeOK
  <2>2. CASE cronReq[r].job \notin DOMAIN rows
    BY <1>1, <2>2 DEF Update, CronTypeOK
  <2>3. QED
    BY <2>1, <2>2
<1>4. QED
  BY <1>1, <1>3, WriteKeepsIInv DEF Update

LEMMA ToggleKeepsIInv ==
    ASSUME CronIInv, NEW r \in CronRequests, NEW enabled \in BOOLEAN, Toggle(r, enabled)
    PROVE  CronIInv'
<1>1. CronTypeOK /\ cronReq[r].stage = "found"
  BY DEF CronIInv, Toggle
<1>2. (DOMAIN rows \subseteq created /\ \A j \in DOMAIN rows : rows[j] \in CronRow)'
  <2>1. CASE cronReq[r].job \in DOMAIN rows
    <3>1. rows' = [rows EXCEPT ![cronReq[r].job].enabled = enabled] /\ created' = created
      BY <2>1 DEF Toggle
    <3>2. DOMAIN rows' = DOMAIN rows
      BY <3>1
    <3>3. ASSUME NEW j \in DOMAIN rows PROVE rows'[j] \in CronRow
      <4>1. rows[j] \in CronRow
        BY <1>1 DEF CronTypeOK
      <4>2. CASE j = cronReq[r].job
        <5>1. rows'[j] = [rows[j] EXCEPT !.enabled = enabled]
          BY <3>1, <4>2
        <5>2. QED
          BY <4>1, <5>1 DEF CronRow
      <4>3. CASE j # cronReq[r].job
        BY <3>1, <4>1, <4>3
      <4>4. QED
        BY <4>2, <4>3
    <3>4. QED
      BY <1>1, <3>1, <3>2, <3>3 DEF CronTypeOK
  <2>2. CASE cronReq[r].job \notin DOMAIN rows
    BY <1>1, <2>2 DEF Toggle, CronTypeOK
  <2>3. QED
    BY <2>1, <2>2
<1>3. QED
  BY <1>1, <1>2, WriteKeepsIInv DEF Toggle

LEMMA DeleteKeepsIInv ==
    ASSUME CronIInv, NEW r \in CronRequests, Delete(r) PROVE CronIInv'
<1>1. CronTypeOK /\ cronReq[r].stage = "found"
  BY DEF CronIInv, Delete
<1>2. (DOMAIN rows \subseteq created /\ \A j \in DOMAIN rows : rows[j] \in CronRow)'
  BY <1>1 DEF Delete, CronTypeOK
<1>3. QED
  BY <1>1, <1>2, WriteKeepsIInv DEF Delete

\* A request that ends, with or without the rows installed: it is CronIdle, and the rest
\* is either disturbed or as Synced has it.
LEMMA EndKeepsIInv ==
    ASSUME CronIInv, NEW r \in CronRequests, cronReq[r] # CronIdle, CronBecomes(r, CronIdle),
           UNCHANGED <<rows, created>>,
           crontab' \subseteq Line, orphans' \subseteq SUBSET Line, dirty' \in BOOLEAN,
           Synced'
    PROVE  CronIInv'
<1>1. CronTypeOK /\ CronIdle \in CronRequest
  BY DEF CronIInv, CronRequest
<1>2. /\ cronReq' \in [CronRequests -> CronRequest]
      /\ cronReq'[r] = CronIdle
      /\ \A q \in CronRequests \ {r} : cronReq'[q] = cronReq[q]
  BY <1>1, Moved
<1>3. CronTypeOK'
  BY <1>1, <1>2 DEF CronTypeOK
<1>4. AloneIsAlone'
  BY <1>1, AloneKept
<1>5. AloneIsCurrent'
  BY <1>2, EnabledKept DEF CronIInv, AloneIsCurrent, CronIdle
<1>6. QED
  BY <1>3, <1>4, <1>5 DEF CronIInv

\* What is disturbed is synced.
LEMMA DirtySynced == ASSUME dirty' = TRUE PROVE Synced'
  BY DEF Synced

LEMMA AbandonKeepsIInv ==
    ASSUME CronIInv, NEW r \in CronRequests, Abandon(r) PROVE CronIInv'
<1>1. CronTypeOK /\ cronReq[r].stage = "found"
  BY DEF CronIInv, Abandon
<1>2. cronReq[r] # CronIdle
  BY <1>1, CronStages
<1>3. Synced'
  <2>1. /\ cronReq'[r] = CronIdle
        /\ \A q \in CronRequests \ {r} : cronReq'[q] = cronReq[q]
    BY <1>1, Moved DEF Abandon, CronRequest
  <2>2. \A q \in CronRequests : Pending(q)' <=> Pending(q)
    BY <1>1, <2>1 DEF Pending, CronIdle
  <2>3. Enabled' = Enabled
    BY EnabledKept DEF Abandon
  <2>4. QED
    BY <2>2, <2>3 DEF CronIInv, Synced, Abandon
<1>4. QED
  BY <1>1, <1>2, <1>3, EndKeepsIInv DEF Abandon, CronTypeOK

LEMMA ListKeepsIInv ==
    ASSUME CronIInv, NEW r \in CronRequests, List(r) PROVE CronIInv'
<1> DEFINE record == [stage |-> "listed", lines |-> Enabled, alone |-> cronReq[r].alone]
<1>1. CronTypeOK /\ cronReq[r].stage = "written" /\ cronReq[r] # CronIdle
  BY CronStages DEF CronIInv, List
<1>2. record \in CronRequest /\ record.alone = cronReq[r].alone
  BY <1>1, CronStages, EnabledTyped DEF CronRequest
<1>3. /\ cronReq' \in [CronRequests -> CronRequest]
      /\ cronReq'[r] = record
      /\ \A q \in CronRequests \ {r} : cronReq'[q] = cronReq[q]
  BY <1>1, <1>2, Moved DEF List
<1>4. Enabled' = Enabled
  BY EnabledKept DEF List
<1>5. CronTypeOK'
  BY <1>1, <1>3 DEF CronTypeOK, List
<1>6. AloneIsAlone'
  BY <1>1, <1>2, AloneKept DEF List
<1>7. AloneIsCurrent'
  BY <1>3, <1>4 DEF CronIInv, AloneIsCurrent
<1>8. Synced'
  BY <1>3 DEF CronIInv, Synced, Pending, List
<1>9. QED
  BY <1>5, <1>6, <1>7, <1>8 DEF CronIInv

LEMMA ListFailsKeepsIInv ==
    ASSUME CronIInv, NEW r \in CronRequests, ListFails(r) PROVE CronIInv'
<1>1. CronTypeOK /\ cronReq[r] # CronIdle
  BY CronStages DEF CronIInv, ListFails
<1>2. QED
  BY <1>1, DirtySynced, EndKeepsIInv DEF ListFails, CronTypeOK

\* The case that matters: a request that ran by itself installs the rows as they are.
LEMMA InstallKeepsIInv ==
    ASSUME CronIInv, NEW r \in CronRequests, Install(r) PROVE CronIInv'
<1>1. CronTypeOK /\ cronReq[r].stage = "listed" /\ cronReq[r] # CronIdle
  BY CronStages DEF CronIInv, Install
<1>2. cronReq[r].alone \in BOOLEAN /\ cronReq[r].lines \subseteq Line
  BY <1>1, CronStages
<1>3. dirty' \in BOOLEAN
  BY <1>2 DEF Install
<1>4. Synced'
  <2>1. CASE cronReq[r].alone /\ orphans = {}
    <3>1. cronReq[r].lines = Enabled
      BY <1>1, <2>1 DEF CronIInv, AloneIsCurrent
    <3>2. Enabled' = Enabled
      BY EnabledKept DEF Install
    <3>3. crontab' = Enabled' /\ orphans' = {}
      BY <2>1, <3>1, <3>2 DEF Install
    <3>4. QED
      BY <3>3 DEF Synced
  <2>2. CASE ~(cronReq[r].alone /\ orphans = {})
    BY <2>2, DirtySynced DEF Install
  <2>3. QED
    BY <2>1, <2>2
<1>5. QED
  BY <1>1, <1>2, <1>3, <1>4, EndKeepsIInv DEF Install, CronTypeOK

LEMMA InstallFailsKeepsIInv ==
    ASSUME CronIInv, NEW r \in CronRequests, InstallFails(r) PROVE CronIInv'
<1>1. CronTypeOK /\ cronReq[r] # CronIdle /\ cronReq[r].lines \subseteq Line
  BY CronStages DEF CronIInv, InstallFails
<1>2. orphans' \subseteq SUBSET Line
  BY <1>1 DEF InstallFails, CronTypeOK
<1>3. QED
  BY <1>1, <1>2, DirtySynced, EndKeepsIInv DEF InstallFails, CronTypeOK
-----------------------------------------------------------------------------
(***************************************************************************)
(* The agent, the panel, and the invariant.                                *)
(***************************************************************************)
LEMMA InstallLateKeepsIInv ==
    ASSUME CronIInv, NEW lines \in orphans, InstallLate(lines) PROVE CronIInv'
<1>1. CronTypeOK'
  BY DEF CronIInv, CronTypeOK, InstallLate
<1>2. Synced'
  BY DirtySynced DEF InstallLate
<1>3. AloneIsAlone' /\ AloneIsCurrent'
  BY EnabledKept DEF CronIInv, AloneIsAlone, AloneIsCurrent, InstallLate
<1>4. QED
  BY <1>1, <1>2, <1>3 DEF CronIInv

LEMMA RestartKeepsIInv ==
    ASSUME CronIInv, Restart PROVE CronIInv'
<1> DEFINE listed == {cronReq[r].lines : r \in {q \in Busy : cronReq[q].stage = "listed"}}
<1>1. CronTypeOK
  BY DEF CronIInv
<1>2. listed \subseteq SUBSET Line
  BY <1>1, CronStages DEF Busy
<1>3. orphans' \subseteq SUBSET Line
  BY <1>1, <1>2 DEF Restart, CronTypeOK
<1>4. cronReq' \in [CronRequests -> CronRequest] /\ \A r \in CronRequests : cronReq'[r] = CronIdle
  BY DEF Restart, CronRequest
<1>5. CronTypeOK'
  BY <1>1, <1>3, <1>4 DEF Restart, CronTypeOK
<1>6. AloneIsAlone' /\ AloneIsCurrent'
  BY <1>4 DEF AloneIsAlone, AloneIsCurrent, CronIdle
<1>7. Synced'
  BY DirtySynced DEF Restart
<1>8. QED
  BY <1>5, <1>6, <1>7 DEF CronIInv

LEMMA CronNextKeepsIInv == CronIInv /\ [CronNext]_cronVars => CronIInv'
<1> SUFFICES ASSUME CronIInv, [CronNext]_cronVars PROVE CronIInv'
  OBVIOUS
<1>1. CASE UNCHANGED cronVars
  BY <1>1 DEF cronVars, CronIInv, CronTypeOK, AloneIsAlone, AloneIsCurrent, Synced, Pending, Enabled
<1>2. ASSUME NEW r \in CronRequests, NEW j \in Jobs, Find(r, j) PROVE CronIInv'
  BY <1>2, FindKeepsIInv
<1>3. ASSUME NEW r \in CronRequests, NEW j \in Jobs, NEW command \in Commands, Create(r, j, command)
      PROVE  CronIInv'
  BY <1>3, CreateKeepsIInv
<1>4. ASSUME NEW r \in CronRequests, NEW row \in CronRow, Update(r, row) PROVE CronIInv'
  BY <1>4, UpdateKeepsIInv
<1>5. ASSUME NEW r \in CronRequests, NEW enabled \in BOOLEAN, Toggle(r, enabled) PROVE CronIInv'
  BY <1>5, ToggleKeepsIInv
<1>6. ASSUME NEW r \in CronRequests, Abandon(r) \/ Delete(r) \/ List(r) \/ ListFails(r) PROVE CronIInv'
  BY <1>6, AbandonKeepsIInv, DeleteKeepsIInv, ListKeepsIInv, ListFailsKeepsIInv
<1>7. ASSUME NEW r \in CronRequests, Install(r) \/ InstallFails(r) PROVE CronIInv'
  BY <1>7, InstallKeepsIInv, InstallFailsKeepsIInv
<1>8. ASSUME NEW lines \in orphans, InstallLate(lines) PROVE CronIInv'
  BY <1>8, InstallLateKeepsIInv
<1>9. CASE Restart
  BY <1>9, RestartKeepsIInv
<1>10. QED
  BY <1>1, <1>2, <1>3, <1>4, <1>5, <1>6, <1>7, <1>8, <1>9 DEF CronNext

LEMMA CronInvariant == CronSpec => []CronIInv
  BY CronInitIInv, CronNextKeepsIInv, PTL DEF CronSpec
-----------------------------------------------------------------------------
(***************************************************************************)
(* The theorems.                                                           *)
(***************************************************************************)
\* Rows, crontab, requests and left-over installs are of their types in every
\* state that the handlers of cron.go reach.
THEOREM CronTypeCorrect == CronSpec => []CronTypeOK
  BY CronInvariant, PTL DEF CronIInv

\* Once no request is under way, the crontab holds exactly the enabled jobs, if the
\* last request to disturb or repair it ran by itself and succeeded.
THEOREM CrontabSynced == CronSpec => []SyncedUnlessDisturbed
<1>1. CronIInv => SyncedUnlessDisturbed
  BY DEF CronIInv, Synced, SyncedUnlessDisturbed, Pending, Busy, CronIdle
<1>2. QED
  BY <1>1, CronInvariant, PTL

\* A job once deleted has no row ever again, whichever requests had read it before.
THEOREM DeletedNotRevived == CronSpec => DeletedStaysDeleted
<1>1. ASSUME [CronNext]_cronVars, NEW j \in created \ DOMAIN rows PROVE j \notin DOMAIN rows'
  <2>1. CASE UNCHANGED rows
    BY <2>1
  <2>2. ASSUME NEW r \in CronRequests, NEW i \in Jobs, NEW command \in Commands, Create(r, i, command)
        PROVE  j \notin DOMAIN rows'
    BY <2>2 DEF Create, With
  <2>3. ASSUME NEW r \in CronRequests, NEW row \in CronRow, Update(r, row)
        PROVE  j \notin DOMAIN rows'
    BY <2>3 DEF Update, With
  <2>4. ASSUME NEW r \in CronRequests, NEW enabled \in BOOLEAN, Toggle(r, enabled)
        PROVE  j \notin DOMAIN rows'
    BY <2>4 DEF Toggle
  <2>5. ASSUME NEW r \in CronRequests, Delete(r) PROVE j \notin DOMAIN rows'
    BY <2>5 DEF Delete
  <2>6. UNCHANGED rows \/ \E r \in CronRequests :
          \/ \E i \in Jobs, command \in Commands : Create(r, i, command)
          \/ \E row \in CronRow : Update(r, row)
          \/ \E enabled \in BOOLEAN : Toggle(r, enabled)
          \/ Delete(r)
    BY <1>1 DEF CronNext, cronVars, Find, Abandon, List, ListFails, Install, InstallFails,
                InstallLate, Restart
  <2>7. QED
    BY <2>1, <2>2, <2>3, <2>4, <2>5, <2>6
<1>2. [CronNext]_cronVars => [\A j \in created \ DOMAIN rows : j \notin DOMAIN rows']_cronVars
  BY <1>1
<1>3. QED
  BY <1>2, PTL DEF CronSpec, DeletedStaysDeleted
=============================================================================
