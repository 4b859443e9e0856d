--------------------------- MODULE Accounts_proofs ---------------------------
(***************************************************************************)
(* Proofs about Accounts, for any users, databases and keys, requests and  *)
(* calls that are carried out late.                                        *)
(***************************************************************************)
EXTENDS Accounts, TLAPS

\* What StoresAgree asks of an object.
Agree(o) ==
    /\ o \in Users => server[o] \in (IF rows[o] = None THEN {None, Unlimited} ELSE {rows[o]})
    /\ o \notin Users => server[o] = rows[o]

\* Two requests that share an object have both met.
Aloof == \A r, q \in Busy :
    r # q /\ req[r].alone => Scope(req[q].op.on) \cap Scope(req[r].op.on) = {}

\* A key has no second life: its id was drawn by the request that adds it.
Drawn ==
    /\ \A k \in Keys : rows[k] # None => k \in used
    /\ \A r \in Busy : req[r].op.on \in Keys => req[r].op.on \in used /\ req[r].op.kind # "change"

\* Between the call and the statement of a request on o that is alone.
Called(op, missed) ==
    LET o == op.on  v == op.value IN
    /\ op.kind = "create" /\ o \in Users => o \in missed \/ server[o] = v
    /\ op.kind = "create" /\ o \in Databases =>
         o \in torn \/ server[o] = (IF rows[o] = None THEN v ELSE rows[o])
    /\ op.kind = "create" /\ o \in Keys => server[o] = v
    /\ op.kind = "change" /\ o \in Users => server[o] = v
    /\ op.kind = "change" /\ o \in Databases => server[o] = v \/ (server[o] = None /\ o \in torn)
    /\ op.kind = "delete" => o \in missed \/ server[o] = None
    /\ op.kind = "delete" /\ o \in Users =>
         \A p \in Of(o) : server[p] = None \/ p \in torn \ ((Dropped(o) \cup KeysOf(o)) \ missed)

\* A request that nothing has touched finds what it has read, and half of it done.
Half(r) ==
    LET q == req[r]  o == q.op.on IN q # Idle =>
    /\ q.stage = "undo" => o \in Users /\ q.op.kind = "create"
    /\ q.alone =>
       /\ q.same
       /\ o \notin Users => rows[Owner[o]] # None
       /\ q.op.kind = "change" => rows[o] # None
       /\ q.op.kind = "create" /\ o \in Keys => rows[o] = None
       /\ q.stage = "call" => \A p \in Scope(o) \ torn : Agree(p)
       /\ q.stage \in {"row", "undo"} /\ (q.op.kind = "delete" => o \notin Users) =>
            \A p \in Scope(o) \ (torn \cup {o}) : Agree(p)
       /\ q.stage = "row" => q.missed \subseteq torn \cap Scope(o) /\ Called(q.op, q.missed)

Calm == \A o \in Objects \ torn : Touches({o}) = {} => Agree(o)

IInv ==
    /\ TypeOK
    /\ Aloof
    /\ Drawn
    /\ \A r \in Requests : Half(r)
    /\ Calm
-----------------------------------------------------------------------------
(***************************************************************************)
(* Objects, their scopes, and the requests on them.                        *)
(***************************************************************************)
LEMMA Sorts ==
    /\ Users \cap Databases = {} /\ Users \cap Keys = {} /\ Databases \cap Keys = {}
    /\ \A o \in Objects : o \notin Users => o \in Databases \cup Keys
    /\ \A o \in Databases \cup Keys : Owner[o] \in Users
    /\ Users \subseteq Objects /\ Databases \subseteq Objects /\ Keys \subseteq Objects
    /\ Default \in Values /\ None \notin Values /\ None # Unlimited
  BY ConstantsAssumption DEF Objects

Closed(X) == X \subseteq Objects /\ \A p \in X : Scope(p) \subseteq X

LEMMA Scopes ==
    ASSUME NEW o \in Objects
    PROVE  /\ o \in Scope(o) /\ Closed(Scope(o))
           /\ o \notin Users => Scope(o) = {o} /\ o \in Scope(Owner[o])
           /\ o \in Users => Scope(o) = {o} \cup Of(o) /\ KeysOf(o) \subseteq Of(o) /\ Dropped(o) \subseteq Of(o)
           /\ o \in Users => Of(o) \subseteq Databases \cup Keys
  BY Sorts DEF Scope, Closed, Of, KeysOf, Dropped

LEMMA OpTyped ==
    ASSUME NEW op \in Op
    PROVE  op.on \in Objects /\ op.value \in Values /\ op.kind \in {"create", "change", "delete"}
  BY DEF Op

Active ==
    [stage : {"call", "row", "undo"}, op : Op, same : BOOLEAN, alone : BOOLEAN,
     missed : SUBSET Objects]

LEMMA RequestTyped ==
    ASSUME TypeOK, NEW r \in Requests, req[r] # Idle
    PROVE  /\ req[r] \in Active /\ req[r].op \in Op /\ req[r].op.on \in Objects
           /\ req[r].stage \in {"call", "row", "undo"} /\ req[r].op.value \in Values
           /\ r \in Busy
<1>1. req[r] \in Active
  BY DEF TypeOK, Request, Active
<1>2. QED
  BY <1>1, OpTyped DEF Active, Busy

LEMMA ActiveNotIdle == \A q \in Active : q # Idle /\ q \in Request
  BY DEF Active, Idle, Request

LEMMA InitIInv == Init => IInv
<1> SUFFICES ASSUME Init PROVE IInv
  OBVIOUS
<1>1. \A o \in Objects : rows[o] = None /\ server[o] \in {None, Unlimited} /\ (o \notin Users => server[o] = None)
  BY DEF Init
<1>2. TypeOK
  <2>1. server \in [Objects -> Values \cup {None, Unlimited}]
    BY DEF Init
  <2>2. rows \in [Objects -> Values \cup {None, Blank}] /\ \A o \in Databases \cup Keys : rows[o] = None
    BY Sorts DEF Init
  <2>3. req \in [Requests -> Request]
    BY DEF Init, Request
  <2>4. QED
    BY <2>1, <2>2, <2>3 DEF Init, TypeOK
<1>3. Busy = {}
  BY DEF Init, Busy
<1>4. Aloof /\ Drawn
  BY <1>1, <1>3, Sorts DEF Aloof, Drawn
<1>5. \A r \in Requests : Half(r)
  BY DEF Init, Half
<1>6. Calm
  BY <1>1 DEF Calm, Agree
<1>7. QED
  BY <1>2, <1>4, <1>5, <1>6 DEF IInv

-----------------------------------------------------------------------------
(***************************************************************************)
(* A step that changes a closed set of objects only disturbs the requests  *)
(* on them.                                                                *)
(***************************************************************************)
Outside(X) == \A p \in Objects \ X :
    rows'[p] = rows[p] /\ server'[p] = server[p] /\ (p \in torn' <=> p \in torn)

\* A request goes on as it is, and if it is alone it is not on these objects; or it is
\* marked.
Undisturbed(q, X) ==
    \/ req'[q] = req[q] /\ (req[q] # Idle /\ req[q].alone => Scope(req[q].op.on) \cap X = {})
    \/ /\ req[q] # Idle /\ req'[q] # Idle
       /\ req'[q].op = req[q].op /\ req'[q].stage = req[q].stage /\ ~req'[q].alone

LEMMA AgreeKept ==
    ASSUME NEW X, Outside(X), NEW p \in Objects \ X, Agree(p)
    PROVE  Agree(p)'
  BY DEF Outside, Agree

LEMMA CalledKept ==
    ASSUME NEW op \in Op, NEW missed, Called(op, missed),
           \A p \in Scope(op.on) : rows'[p] = rows[p] /\ server'[p] = server[p] /\ (p \in torn' <=> p \in torn)
    PROVE  Called(op, missed)'
<1>1. op.on \in Objects /\ op.on \in Scope(op.on)
  BY OpTyped, Scopes
<1>2. op.on \in Users => Dropped(op.on)' = Dropped(op.on) /\ Of(op.on) \subseteq Scope(op.on)
  BY <1>1, Scopes, Sorts DEF Dropped, Of
<1>3. QED
  BY <1>1, <1>2 DEF Called

LEMMA HalfKept ==
    ASSUME TypeOK, NEW X, Closed(X), Outside(X), NEW q \in Requests, Undisturbed(q, X), Half(q)
    PROVE  Half(q)'
<1>1. CASE req'[q] = Idle
  BY <1>1 DEF Half
<1>2. CASE req'[q] # Idle /\ ~(req[q].alone /\ req'[q].alone)
  BY <1>2 DEF Half, Undisturbed
<1>3. CASE req'[q] # Idle /\ req[q].alone /\ req'[q].alone
  <2>1. req'[q] = req[q] /\ req[q] # Idle /\ Scope(req[q].op.on) \cap X = {}
    BY <1>3 DEF Undisturbed
  <2>2. PICK op \in Op : op = req[q].op
    BY <2>1, RequestTyped
  <2>3. PICK o \in Objects : o = op.on
    BY <2>2, OpTyped
  <2>4. o \in Scope(o) /\ Scope(o) \subseteq Objects \ X
    BY <2>1, <2>2, <2>3, Scopes DEF Closed
  <2>5. \A p \in Scope(o) : /\ p \in Objects \ X
                          /\ rows'[p] = rows[p] /\ server'[p] = server[p] /\ (p \in torn' <=> p \in torn)
    BY <2>4 DEF Outside
  <2>6. o \notin Users => rows'[Owner[o]] = rows[Owner[o]]
    BY <2>3, <2>4, Sorts, Scopes DEF Outside, Closed
  <2>7. \A p \in Scope(o) : Agree(p) => Agree(p)'
    BY <2>5 DEF Agree
  <2>10. PICK missed : missed = req[q].missed
    OBVIOUS
  <2>8. Called(op, missed) => Called(op, missed)'
    BY <2>2, <2>3, <2>5, CalledKept
  <2>12. req'[q].missed = missed
    BY <2>1, <2>10
  <2>11. req[q].stage = "row" => missed \subseteq torn' \cap Scope(o) /\ Called(op, missed)'
    <3>1. req[q].stage = "row" => missed \subseteq torn \cap Scope(o) /\ Called(op, missed)
      BY <1>3, <2>1, <2>2, <2>3, <2>10 DEF Half
    <3>2. QED
      BY <2>5, <2>8, <3>1
  <2>9. QED
    BY <1>3, <2>1, <2>2, <2>3, <2>4, <2>5, <2>6, <2>7, <2>11, <2>12 DEF Half
<1>4. QED
  BY <1>1, <1>2, <1>3

LEMMA OthersAloof ==
    ASSUME IInv, NEW X, NEW r, NEW q \in Requests, q # r, r \in Requests,
           Undisturbed(q, X), Undisturbed(r, X), req'[q] # Idle, req'[r] # Idle, req'[r].alone
    PROVE  Scope(req'[q].op.on) \cap Scope(req'[r].op.on) = {}
  BY DEF IInv, Aloof, Undisturbed, Busy

-----------------------------------------------------------------------------
(***************************************************************************)
(* A request moves on or ends.                                             *)
(***************************************************************************)
LEMMA OnAlone ==
    ASSUME IInv, NEW r \in Requests, req[r] # Idle, NEW q \in Requests, q # r, req[q] # Idle, req[q].alone
    PROVE  Scope(req[q].op.on) \cap Scope(req[r].op.on) = {}
  BY DEF IInv, Aloof, Busy

LEMMA Moved ==
    ASSUME IInv, TypeOK', NEW r \in Requests, req[r] # Idle,
           Outside(Scope(req[r].op.on)), \A q \in Requests \ {r} : Undisturbed(q, Scope(req[r].op.on)),
           UNCHANGED used, \A k \in Keys : rows'[k] # None => k \in used,
           \/ req'[r] = Idle /\ \A o \in Scope(req[r].op.on) \ torn' : Agree(o)'
           \/ /\ req'[r] # Idle /\ req'[r].op = req[r].op /\ (req'[r].alone => req[r].alone)
              /\ Half(r)'
    PROVE  IInv'
<1> DEFINE X == Scope(req[r].op.on)
<1>1. TypeOK /\ req[r].op.on \in Objects /\ Closed(X)
  BY RequestTyped, Scopes DEF IInv
<1>2. PICK S : S = X
  OBVIOUS
<1>3. (\A q \in Requests : Half(q))'
  <2> SUFFICES ASSUME NEW q \in Requests PROVE Half(q)'
    OBVIOUS
  <2>1. CASE q = r
    BY <2>1 DEF Half
  <2>2. CASE q # r
    BY <1>1, <1>2, <2>2, HalfKept DEF IInv
  <2>3. QED
    BY <2>1, <2>2
<1>4. Aloof'
  <2> SUFFICES ASSUME NEW a \in Requests, NEW b \in Requests, a # b, req'[a] # Idle, req'[b] # Idle, req'[a].alone
               PROVE  Scope(req'[b].op.on) \cap Scope(req'[a].op.on) = {}
    BY DEF Aloof, Busy
  <2>1. CASE a # r /\ b # r
    BY <2>1, <1>2, OthersAloof
  <2>2. CASE a = r
    <3>1. req[b] # Idle /\ req'[b].op = req[b].op /\ req[r].alone /\ req'[r].op = req[r].op
      BY <2>2 DEF Undisturbed
    <3>2. QED
      BY <2>2, <3>1, OnAlone
  <2>3. CASE b = r
    <3>1. req[a] # Idle /\ req[a].alone /\ req'[a] = req[a] /\ req'[r].op = req[r].op
      BY <2>3 DEF Undisturbed
    <3>2. QED
      BY <2>3, <3>1, OnAlone
  <2>4. QED
    BY <2>1, <2>2, <2>3
<1>5. Drawn'
  BY DEF IInv, Drawn, Busy, Undisturbed
<1>6. Calm'
  <2> SUFFICES ASSUME NEW o \in Objects, o \notin torn', Touches({o})' = {} PROVE Agree(o)'
    BY DEF Calm
  <2>1. CASE o \in X
    <3>1. CASE req'[r] = Idle
      BY <2>1, <3>1
    <3>2. CASE req'[r] # Idle
      <4>1. r \in Touches({o})'
        BY <2>1, <3>2 DEF Touches, Busy
      <4>2. QED
        BY <4>1
    <3>3. QED
      BY <3>1, <3>2
  <2>2. CASE o \notin X
    <3>1. Touches({o}) = {}
      <4> SUFFICES ASSUME NEW q \in Requests, req[q] # Idle, o \in Scope(req[q].op.on) PROVE FALSE
        BY DEF Touches, Busy
      <4>1. q # r
        BY <2>2
      <4>2. req'[q] # Idle /\ req'[q].op = req[q].op
        BY <4>1 DEF Undisturbed
      <4>3. q \in Touches({o})'
        BY <4>2 DEF Touches, Busy
      <4>4. QED
        BY <4>3
    <3>2. o \notin torn
      BY <2>2 DEF Outside
    <3>3. Agree(o)
      BY <3>1, <3>2 DEF IInv, Calm
    <3>4. QED
      BY <1>2, <2>2, <3>3, AgreeKept
  <2>3. QED
    BY <2>1, <2>2
<1>7. QED
  BY <1>3, <1>4, <1>5, <1>6 DEF IInv

\* Who else is there is alone only elsewhere.
LEMMA OthersThere ==
    ASSUME IInv, NEW r \in Requests, req[r] # Idle, NEW q \in Requests \ {r}, req'[q] = req[q]
    PROVE  Undisturbed(q, Scope(req[r].op.on))
  BY OnAlone DEF Undisturbed

LEMMA StagedRequest ==
    ASSUME IInv, NEW r \in Requests, req[r] # Idle, NEW s \in {"call", "row", "undo"}, ToStage(r, s)
    PROVE  /\ req' \in [Requests -> Request] /\ req'[r] # Idle
           /\ req'[r].op = req[r].op /\ req'[r].stage = s
           /\ (req'[r].same <=> req[r].same) /\ (req'[r].alone <=> req[r].alone)
           /\ \A q \in Requests \ {r} : Undisturbed(q, Scope(req[r].op.on))
<1> DEFINE m == [req[r] EXCEPT !.stage = s]
<1>1. req[r] \in Active /\ req \in [Requests -> Request]
  BY RequestTyped DEF IInv, TypeOK
<1>2. m \in Active /\ m.op = req[r].op /\ m.stage = s
  BY <1>1 DEF Active
<1>3. (m.same <=> req[r].same) /\ (m.alone <=> req[r].alone)
  BY <1>1 DEF Active
<1>4. req' = [req EXCEPT ![r] = m]
  BY DEF ToStage
<1> HIDE DEF m
<1>5. m # Idle /\ m \in Request
  BY <1>2, ActiveNotIdle
<1>6. req' \in [Requests -> Request] /\ req'[r] = m /\ \A q \in Requests \ {r} : req'[q] = req[q]
  BY <1>1, <1>4, <1>5
<1>7. QED
  BY <1>2, <1>3, <1>5, <1>6, OthersThere

LEMMA EndedRequest ==
    ASSUME IInv, NEW r \in Requests, req[r] # Idle, ToIdle(r)
    PROVE  /\ req' \in [Requests -> Request] /\ req'[r] = Idle
           /\ \A q \in Requests \ {r} : Undisturbed(q, Scope(req[r].op.on))
<1>1. req \in [Requests -> Request] /\ Idle \in Request
  BY DEF IInv, TypeOK, Request
<1>2. req' \in [Requests -> Request] /\ req'[r] = Idle /\ \A q \in Requests \ {r} : req'[q] = req[q]
  BY <1>1 DEF ToIdle
<1>3. QED
  BY <1>2, OthersThere

\* What is not torn when a request has ended was not before, or was repaired by a request
\* that was alone.
LEMMA EndTears ==
    ASSUME TypeOK, NEW r \in Requests, req[r] # Idle, NEW repaired,
           repaired \subseteq Scope(req[r].op.on), End(r, repaired)
    PROVE  /\ torn' \subseteq Objects
           /\ \A p \in Objects \ Scope(req[r].op.on) : p \in torn' <=> p \in torn
           /\ \A p \in Scope(req[r].op.on) \ torn' :
                req[r].alone /\ (p \notin torn \/ p \in repaired \ req[r].missed)
  BY RequestTyped, Scopes DEF End, TypeOK, Closed

\* A request may always leave its objects torn.
LEMMA TornEnd ==
    ASSUME IInv, NEW r \in Requests, req[r] # Idle, ToIdle(r), torn' = torn \cup Scope(req[r].op.on),
           \A p \in Objects \ Scope(req[r].op.on) : rows'[p] = rows[p] /\ server'[p] = server[p],
           rows' \in [Objects -> Values \cup {None, Blank}],
           \A o \in Databases \cup Keys : rows'[o] # None => rows'[Owner[o]] # None,
           server' \in [Objects -> Values \cup {None, Unlimited}],
           keyFiles' \subseteq Users, UNCHANGED used, late' \subseteq Late,
           \A k \in Keys : rows'[k] # None => k \in used
    PROVE  IInv'
<1>1. TypeOK /\ req[r].op.on \in Objects /\ Closed(Scope(req[r].op.on))
  BY RequestTyped, Scopes DEF IInv
<1>2. req' \in [Requests -> Request] /\ req'[r] = Idle
      /\ \A q \in Requests \ {r} : Undisturbed(q, Scope(req[r].op.on))
  BY EndedRequest
<1>3. TypeOK'
  BY <1>1, <1>2 DEF TypeOK, Closed
<1>4. Outside(Scope(req[r].op.on))
  BY DEF Outside
<1>5. QED
  BY <1>2, <1>3, <1>4, Moved

\* A request that ends has put right what was not torn, and what it says it has, if it
\* was alone.
LEMMA Ends ==
    ASSUME IInv, NEW r \in Requests, req[r] # Idle, NEW o \in Objects, o = req[r].op.on,
           NEW repaired, repaired \subseteq Scope(o), End(r, repaired),
           req' \in [Requests -> Request], req'[r] = Idle,
           \A q \in Requests \ {r} : Undisturbed(q, Scope(o)),
           \A p \in Objects \ Scope(o) : rows'[p] = rows[p] /\ server'[p] = server[p],
           rows' \in [Objects -> Values \cup {None, Blank}],
           \A p \in Databases \cup Keys : rows'[p] # None => rows'[Owner[p]] # None,
           server' \in [Objects -> Values \cup {None, Unlimited}], keyFiles' \subseteq Users,
           UNCHANGED used, late' \subseteq Late, \A k \in Keys : rows'[k] # None => k \in used,
           req[r].alone =>
             \A p \in Scope(o) : p \notin torn \/ p \in repaired \ req[r].missed => Agree(p)'
    PROVE  IInv'
<1>1. TypeOK /\ o \in Objects
  BY DEF IInv
<1>2. /\ torn' \subseteq Objects
      /\ \A p \in Objects \ Scope(o) : p \in torn' <=> p \in torn
      /\ \A p \in Scope(o) \ torn' :
           req[r].alone /\ (p \notin torn \/ p \in repaired \ req[r].missed)
  BY <1>1, EndTears
<1>3. TypeOK'
  BY <1>1, <1>2 DEF TypeOK
<1>4. Outside(Scope(o))
  BY <1>2 DEF Outside
<1>5. \A p \in Scope(o) \ torn' : Agree(p)'
  BY <1>2
<1>6. QED
  BY <1>3, <1>4, <1>5, Moved

-----------------------------------------------------------------------------
(***************************************************************************)
(* The handlers.                                                           *)
(***************************************************************************)
LEMMA DeletionsStayInScope ==
    ASSUME TypeOK, NEW u \in Users, NEW missed,
           handleDeleteUser(u, missed) \/ handleDeleteUserRefused(u, missed)
    PROVE  /\ server' \in [Objects -> Values \cup {None, Unlimited}] /\ keyFiles' \subseteq Users
           /\ \A p \in Objects \ Scope(u) : server'[p] = server[p]
<1>1. u \in Objects /\ u \in Scope(u) /\ Dropped(u) \subseteq Scope(u) /\ KeysOf(u) \subseteq Scope(u)
  BY Sorts, Scopes
<1>2. server \in [Objects -> Values \cup {None, Unlimited}] /\ keyFiles \subseteq Users
  BY DEF TypeOK
<1>3. CASE handleDeleteUser(u, missed)
  BY <1>1, <1>2, <1>3 DEF handleDeleteUser
<1>4. CASE handleDeleteUserRefused(u, missed)
  BY <1>1, <1>2, <1>4 DEF handleDeleteUserRefused
<1>5. QED
  BY <1>3, <1>4

LEMMA HandlersStayInScope ==
    ASSUME TypeOK, NEW op \in Op, NEW missed, Handle(op, missed) \/ Refuse(op, missed)
    PROVE  /\ server' \in [Objects -> Values \cup {None, Unlimited}] /\ keyFiles' \subseteq Users
           /\ \A p \in Objects \ Scope(op.on) : server'[p] = server[p]
<1> DEFINE o == op.on
           v == op.value
           Fine == /\ server' \in [Objects -> Values \cup {None, Unlimited}] /\ keyFiles' \subseteq Users
                   /\ \A p \in Objects \ Scope(o) : server'[p] = server[p]
<1>1. o \in Objects /\ o \in Scope(o) /\ v \in Values
  BY OpTyped, Scopes
<1>2. server \in [Objects -> Values \cup {None, Unlimited}] /\ keyFiles \subseteq Users
  BY DEF TypeOK
<1>3. ASSUME NEW w \in Values \cup {None, Unlimited}, Put(o, w) PROVE Fine
  BY <1>1, <1>2, <1>3 DEF Put
<1>5. ASSUME o \in Users, handleDeleteUser(o, missed) PROVE Fine
  BY <1>5, DeletionsStayInScope
<1>6. ASSUME o \in Users, handleDeleteUserRefused(o, missed) PROVE Fine
  BY <1>6, DeletionsStayInScope
<1>7. ASSUME o \in Keys, handleAddSSHKey(o, v) PROVE Fine
  BY <1>1, <1>2, <1>7, Sorts DEF handleAddSSHKey
<1>8. ASSUME UNCHANGED <<server, keyFiles>> PROVE Fine
  BY <1>2, <1>8
<1>9. server[o] \in Values \cup {None, Unlimited}
  BY <1>1, <1>2
<1> HIDE DEF Fine
<1>10. ASSUME Handle(op, missed) PROVE Fine
  BY <1>1, <1>3, <1>5, <1>7, <1>8, <1>9, <1>10
     DEF Handle, handleCreateUser, handleUpdateUserLimits, handleCreateDatabase, handleDeleteDatabase,
         handleResetDatabasePassword, handleRemoveSSHKey
<1>11. ASSUME Refuse(op, missed) PROVE Fine
  <2>1. ASSUME handleCreateUser(o, Unlimited, missed) PROVE Fine
    BY <1>3, <2>1 DEF handleCreateUser
  <2>2. QED
    BY <1>6, <1>8, <1>10, <1>11, <2>1 DEF Refuse
<1>12. QED
  BY <1>10, <1>11 DEF Fine

\* What a handler leaves when the request that calls it is alone.
LEMMA HandlersDo ==
    ASSUME TypeOK, NEW op \in Op, NEW missed, Handle(op, missed),
           UNCHANGED rows, torn' = torn \cup missed,
           \A p \in Scope(op.on) \ torn : Agree(p),
           op.kind = "change" => rows[op.on] # None
    PROVE  /\ Called(op, missed)'
           /\ (op.kind = "delete" => op.on \notin Users) =>
                \A p \in Scope(op.on) \ (torn \cup {op.on}) : Agree(p)'
<1>1. PICK o \in Objects : o = op.on
  BY OpTyped
<1>2. PICK v \in Values : v = op.value
  BY OpTyped
<1>3. o \in Scope(o) /\ (o \notin Users => Scope(o) = {o}) /\ server \in [Objects -> Values \cup {None, Unlimited}]
  BY Scopes DEF TypeOK
<1>4. o \in Users => Scope(o) = {o} \cup Of(o) /\ Of(o) \subseteq Databases \cup Keys /\ Of(o) \subseteq Objects
  BY Scopes, Sorts DEF Objects
<1>5. CASE o \in Users /\ op.kind = "create" /\ handleCreateUser(o, v, missed)
  <2>1. (o \in missed \/ server'[o] = v) /\ \A p \in Of(o) : server'[p] = server[p]
    BY <1>3, <1>4, <1>5, Sorts DEF handleCreateUser, Put
  <2>2. \A p \in Scope(o) \ (torn \cup {o}) : Agree(p)'
    BY <1>1, <1>4, <1>5, <2>1 DEF Agree
  <2>3. Called(op, missed)'
    BY <1>1, <1>2, <1>5, <2>1, Sorts DEF Called
  <2>4. QED
    BY <1>1, <2>2, <2>3
<1>6. CASE o \in Users /\ op.kind = "change" /\ handleUpdateUserLimits(o, v)
  <2>1. server'[o] = v /\ \A p \in Of(o) : server'[p] = server[p]
    BY <1>3, <1>4, <1>6, Sorts DEF handleUpdateUserLimits, Put
  <2>2. \A p \in Scope(o) \ (torn \cup {o}) : Agree(p)'
    BY <1>1, <1>4, <1>6, <2>1 DEF Agree
  <2>3. Called(op, missed)'
    BY <1>1, <1>2, <1>6, <2>1, Sorts DEF Called
  <2>4. QED
    BY <1>1, <2>2, <2>3
<1>7. CASE o \in Users /\ op.kind = "delete" /\ handleDeleteUser(o, missed)
  <2>1. server'[o] = None /\ \A p \in Of(o) :
          IF p \in (Dropped(o) \ missed) \cup KeysOf(o) THEN server'[p] = None
          ELSE server'[p] = server[p]
    BY <1>4, <1>7, Sorts DEF handleDeleteUser
  <2>2. \A p \in Of(o) \ (Dropped(o) \cup KeysOf(o)) : p \notin Users /\ rows[p] = None
    BY <1>4, Sorts DEF Dropped, KeysOf, Of
  <2>3. \A p \in Of(o) \ (Dropped(o) \cup KeysOf(o)) : p \notin torn => server[p] = None
    BY <1>1, <1>4, <1>7, <2>2 DEF Agree
  <2>4. Dropped(o)' = Dropped(o)
    BY DEF Dropped
  <2>5. missed \subseteq Dropped(o)
    BY <1>7 DEF handleDeleteUser
  <2>6. \A p \in Of(o) : server'[p] = None \/ p \in torn' \ ((Dropped(o) \cup KeysOf(o)) \ missed)
    <3> SUFFICES ASSUME NEW p \in Of(o)
                 PROVE  server'[p] = None \/ p \in torn' \ ((Dropped(o) \cup KeysOf(o)) \ missed)
      OBVIOUS
    <3>1. CASE p \in missed
      BY <3>1
    <3>2. CASE p \notin missed /\ p \in Dropped(o) \cup KeysOf(o)
      BY <2>1, <3>2
    <3>3. CASE p \notin Dropped(o) \cup KeysOf(o)
      <4>1. server'[p] = server[p]
        BY <2>1, <3>3
      <4>2. QED
        BY <2>3, <3>3, <4>1
    <3>4. QED
      BY <3>1, <3>2, <3>3
  <2>7. Called(op, missed)'
    BY <1>1, <1>7, <2>1, <2>4, <2>6 DEF Called, KeysOf, Of
  <2>8. QED
    BY <1>1, <1>7, <2>7
<1>8. CASE o \in Databases /\ op.kind = "create" /\ handleCreateDatabase(o, v)
  <2>1. server'[o] = IF server[o] = None THEN v ELSE server[o]
    BY <1>3, <1>8 DEF handleCreateDatabase, Put
  <2>2. o \notin torn => server[o] = rows[o]
    BY <1>1, <1>3, <1>8, Sorts DEF Agree
  <2>3. Called(op, missed)'
    BY <1>1, <1>2, <1>8, <2>1, <2>2, Sorts DEF Called
  <2>4. QED
    BY <1>1, <1>3, <1>8, <2>3, Sorts
<1>9. CASE o \in Databases /\ op.kind = "change" /\ handleResetDatabasePassword(o, v)
  <2>1. server'[o] = IF server[o] = None THEN None ELSE v
    BY <1>3, <1>9 DEF handleResetDatabasePassword, Put
  <2>2. o \notin torn => server[o] # None
    BY <1>1, <1>3, <1>9, Sorts DEF Agree
  <2>3. Called(op, missed)'
    BY <1>1, <1>2, <1>9, <2>1, <2>2, Sorts DEF Called
  <2>4. QED
    BY <1>1, <1>3, <1>9, <2>3, Sorts
<1>10. CASE o \in Databases /\ op.kind = "delete" /\ handleDeleteDatabase(o, missed)
  <2>1. o \in missed \/ server'[o] = None
    BY <1>3, <1>10 DEF handleDeleteDatabase, Put
  <2>2. Called(op, missed)'
    BY <1>1, <1>10, <2>1, Sorts DEF Called
  <2>3. QED
    BY <1>1, <1>3, <1>10, <2>2, Sorts
<1>11. CASE o \in Keys /\ op.kind = "create" /\ handleAddSSHKey(o, v)
  <2>1. server'[o] = v
    BY <1>3, <1>11 DEF handleAddSSHKey
  <2>2. Called(op, missed)'
    BY <1>1, <1>2, <1>11, <2>1, Sorts DEF Called
  <2>3. QED
    BY <1>1, <1>3, <1>11, <2>2, Sorts
<1>12. CASE o \in Keys /\ op.kind = "delete" /\ handleRemoveSSHKey(o)
  <2>1. server'[o] = None
    BY <1>3, <1>12 DEF handleRemoveSSHKey, Put
  <2>2. Called(op, missed)'
    BY <1>1, <1>12, <2>1, Sorts DEF Called
  <2>3. QED
    BY <1>1, <1>3, <1>12, <2>2, Sorts
<1>13. QED
  BY <1>1, <1>2, <1>5, <1>6, <1>7, <1>8, <1>9, <1>10, <1>11, <1>12 DEF Handle

-----------------------------------------------------------------------------
(***************************************************************************)
(* The steps of a request.                                                 *)
(***************************************************************************)
LEMMA StageMeansBusy ==
    ASSUME NEW r \in Requests, req[r].stage \in {"call", "row", "undo"}
    PROVE  req[r] # Idle
  BY DEF Idle

\* What TypeOK and Drawn say of rows that stay.
LEMMA RowsStay ==
    ASSUME IInv, UNCHANGED <<rows, used>>
    PROVE  /\ rows' \in [Objects -> Values \cup {None, Blank}]
           /\ \A o \in Databases \cup Keys : rows'[o] # None => rows'[Owner[o]] # None
           /\ \A k \in Keys : rows'[k] # None => k \in used
  BY DEF IInv, TypeOK, Drawn

LEMMA CalledRequest ==
    ASSUME IInv, NEW r \in Requests, req[r] # Idle, NEW missed \in SUBSET Scope(req[r].op.on),
           req' = [req EXCEPT ![r].stage = "row", ![r].missed = missed]
    PROVE  /\ req' \in [Requests -> Request] /\ req'[r] # Idle
           /\ req'[r].op = req[r].op /\ req'[r].stage = "row" /\ req'[r].missed = missed
           /\ (req'[r].same <=> req[r].same) /\ (req'[r].alone <=> req[r].alone)
           /\ \A q \in Requests \ {r} : Undisturbed(q, Scope(req[r].op.on))
<1> DEFINE m == [req[r] EXCEPT !.stage = "row", !.missed = missed]
<1>1. req[r] \in Active /\ req \in [Requests -> Request] /\ missed \in SUBSET Objects
  BY RequestTyped, Scopes DEF IInv, TypeOK, Closed
<1>2. m \in Active /\ m.op = req[r].op /\ m.stage = "row" /\ m.missed = missed
  BY <1>1 DEF Active
<1>3. (m.same <=> req[r].same) /\ (m.alone <=> req[r].alone)
  BY <1>1 DEF Active
<1>4. req' = [req EXCEPT ![r] = m]
  BY <1>1
<1> HIDE DEF m
<1>5. m # Idle /\ m \in Request
  BY <1>2, ActiveNotIdle
<1>6. req' \in [Requests -> Request] /\ req'[r] = m /\ \A q \in Requests \ {r} : req'[q] = req[q]
  BY <1>1, <1>4, <1>5
<1>7. QED
  BY <1>2, <1>3, <1>5, <1>6, OthersThere

LEMMA CallKeeps ==
    ASSUME IInv, NEW r \in Requests, Call(r)
    PROVE  IInv'
<1>1. PICK missed \in SUBSET Scope(req[r].op.on) :
        /\ Handle(req[r].op, missed)
        /\ req' = [req EXCEPT ![r].stage = "row", ![r].missed = missed]
        /\ torn' = torn \cup missed
        /\ req[r].stage = "call" /\ UNCHANGED <<rows, used, late>>
  BY DEF Call
<1>2. TypeOK /\ Half(r) /\ req[r] # Idle
  BY <1>1, StageMeansBusy DEF IInv
<1>3. PICK op \in Op : op = req[r].op
  BY <1>2, RequestTyped
<1>4. PICK o \in Objects : o = op.on
  BY OpTyped
<1>5. /\ req' \in [Requests -> Request] /\ req'[r] # Idle /\ req'[r].op = op /\ req'[r].stage = "row"
      /\ (req'[r].same <=> req[r].same) /\ (req'[r].alone <=> req[r].alone) /\ req'[r].missed = missed
      /\ \A q \in Requests \ {r} : Undisturbed(q, Scope(o))
  BY <1>1, <1>2, <1>3, <1>4, CalledRequest
<1>6. /\ server' \in [Objects -> Values \cup {None, Unlimited}] /\ keyFiles' \subseteq Users
      /\ \A p \in Objects \ Scope(o) : server'[p] = server[p]
  BY <1>1, <1>2, <1>3, <1>4, HandlersStayInScope
<1>7. TypeOK'
  <2>1. torn' \subseteq Objects
    BY <1>1, <1>2, <1>3, <1>4, Scopes DEF TypeOK, Closed
  <2>2. QED
    BY <1>1, <1>2, <1>5, <1>6, <2>1 DEF TypeOK
<1>8. Outside(Scope(o))
  BY <1>1, <1>3, <1>4, <1>6 DEF Outside
<1>9. Half(r)'
  <2>1. CASE ~req[r].alone
    BY <1>5, <2>1 DEF Half
  <2>2. CASE req[r].alone
    <3>1. /\ req[r].same
          /\ o \notin Users => rows[Owner[o]] # None
          /\ op.kind = "change" => rows[o] # None
          /\ op.kind = "create" /\ o \in Keys => rows[o] = None
          /\ \A p \in Scope(o) \ torn : Agree(p)
      BY <1>1, <1>2, <1>3, <1>4, <2>2 DEF Half
    <3>2. /\ Called(op, missed)'
          /\ (op.kind = "delete" => o \notin Users) => \A p \in Scope(o) \ (torn \cup {o}) : Agree(p)'
      BY <1>1, <1>2, <1>3, <1>4, <3>1, HandlersDo
    <3>3. QED
      BY <1>1, <1>4, <1>5, <3>1, <3>2 DEF Half
  <2>3. QED
    BY <2>1, <2>2
<1>10. \A k \in Keys : rows'[k] # None => k \in used
  BY <1>1, RowsStay
<1>11. QED
  BY <1>1, <1>2, <1>3, <1>4, <1>5, <1>7, <1>8, <1>9, <1>10, Moved

LEMMA CallRefusedKeeps ==
    ASSUME IInv, NEW r \in Requests, CallRefused(r)
    PROVE  IInv'
<1>1. req[r].stage = "call" /\ ToIdle(r) /\ UNCHANGED <<rows, used, late>>
  BY DEF CallRefused
<1>2. TypeOK /\ Half(r) /\ req[r] # Idle
  BY <1>1, StageMeansBusy DEF IInv
<1>3. PICK op \in Op : op = req[r].op
  BY <1>2, RequestTyped
<1>4. PICK o \in Objects : o = op.on
  BY OpTyped
<1>5. /\ server' \in [Objects -> Values \cup {None, Unlimited}] /\ keyFiles' \subseteq Users
      /\ \A p \in Objects \ Scope(o) : server'[p] = server[p]
  <2>1. PICK missed : Refuse(op, missed)
    BY <1>3 DEF CallRefused
  <2>2. QED
    BY <1>2, <1>4, <2>1, HandlersStayInScope
<1>6. /\ rows' \in [Objects -> Values \cup {None, Blank}]
      /\ \A p \in Databases \cup Keys : rows'[p] # None => rows'[Owner[p]] # None
      /\ \A k \in Keys : rows'[k] # None => k \in used
  BY <1>1, RowsStay
<1>7. late' \subseteq Late
  BY <1>1, <1>2 DEF TypeOK
<1>8. CASE torn' = torn \cup Scope(o)
  BY <1>1, <1>2, <1>3, <1>4, <1>5, <1>6, <1>7, <1>8, TornEnd
<1>9. CASE End(r, {}) /\ server' = server
  <2>1. /\ req' \in [Requests -> Request] /\ req'[r] = Idle
        /\ \A q \in Requests \ {r} : Undisturbed(q, Scope(o))
    BY <1>1, <1>2, <1>3, <1>4, EndedRequest
  <2>2. req[r].alone => \A p \in Scope(o) : p \notin torn => Agree(p)'
    <3>1. req[r].alone => \A p \in Scope(o) : p \notin torn => Agree(p)
      BY <1>1, <1>2, <1>3, <1>4 DEF Half
    <3>2. QED
      BY <1>1, <1>9, <3>1 DEF Agree
  <2>3. QED
    BY <1>1, <1>2, <1>3, <1>4, <1>5, <1>6, <1>7, <1>9, <2>1, <2>2, Ends
<1>10. QED
  BY <1>3, <1>4, <1>8, <1>9 DEF CallRefused

LEMMA CallFailsKeeps ==
    ASSUME IInv, NEW r \in Requests, CallFails(r)
    PROVE  IInv'
<1>1. req[r].stage \in {"call", "undo"} /\ ToIdle(r) /\ UNCHANGED <<rows, server, keyFiles, used>>
      /\ torn' = torn \cup Scope(req[r].op.on)
  BY DEF CallFails
<1>2. TypeOK /\ req[r] # Idle /\ req[r].op \in Op /\ req[r].op.on \in Objects
  BY <1>1, StageMeansBusy, RequestTyped DEF IInv
<1>3. late' \subseteq Late
  <2>1. PICK op : /\ op = IF req[r].stage = "call" THEN req[r].op
                          ELSE [kind |-> "delete", on |-> req[r].op.on, value |-> Default]
                  /\ late' \subseteq late \cup {[op |-> op, kept |-> {}]}
    BY DEF CallFails
  <2>2. [kind |-> "delete", on |-> req[r].op.on, value |-> Default] \in Op
    BY <1>2, Sorts DEF Op
  <2>3. op \in Op
    BY <1>2, <2>1, <2>2
  <2>4. [op |-> op, kept |-> {}] \in Late
    BY <2>3 DEF Late
  <2>5. QED
    BY <1>2, <2>1, <2>4 DEF TypeOK
<1>4. /\ rows' \in [Objects -> Values \cup {None, Blank}]
      /\ \A p \in Databases \cup Keys : rows'[p] # None => rows'[Owner[p]] # None
      /\ \A k \in Keys : rows'[k] # None => k \in used
  BY <1>1, RowsStay
<1>5. server' \in [Objects -> Values \cup {None, Unlimited}] /\ keyFiles' \subseteq Users
  BY <1>1, <1>2 DEF TypeOK
<1>6. QED
  BY <1>1, <1>2, <1>3, <1>4, <1>5, TornEnd

\* A creation whose row is not there goes on to take the account back.
LEMMA UndoBegins ==
    ASSUME IInv, NEW r \in Requests, req[r].stage = "row", req[r].op.kind = "create", req[r].op.on \in Users,
           ToStage(r, "undo"), UNCHANGED <<rows, server, keyFiles, used, late, torn>>
    PROVE  IInv'
<1>1. TypeOK /\ Half(r) /\ req[r] # Idle
  BY StageMeansBusy DEF IInv
<1>2. PICK op \in Op : op = req[r].op
  BY <1>1, RequestTyped
<1>3. PICK o \in Objects : o = op.on
  BY OpTyped
<1>4. /\ req' \in [Requests -> Request] /\ req'[r] # Idle /\ req'[r].op = op /\ req'[r].stage = "undo"
      /\ (req'[r].same <=> req[r].same) /\ (req'[r].alone <=> req[r].alone)
      /\ \A q \in Requests \ {r} : Undisturbed(q, Scope(o))
  BY <1>1, <1>2, <1>3, StagedRequest
<1>5. TypeOK'
  BY <1>1, <1>4 DEF TypeOK
<1>6. Outside(Scope(o))
  BY DEF Outside
<1>7. \A p \in Objects : Agree(p) => Agree(p)'
  BY DEF Agree
<1>8. Half(r)'
  <2>1. CASE ~req[r].alone
    BY <1>2, <1>3, <1>4, <2>1 DEF Half
  <2>2. CASE req[r].alone
    <3>1. req[r].same /\ \A p \in Scope(o) \ (torn \cup {o}) : Agree(p)
      BY <1>1, <1>2, <1>3, <2>2 DEF Half
    <3>2. \A p \in Scope(o) \ (torn \cup {o}) : Agree(p)'
      BY <1>7, <3>1, Scopes DEF Closed
    <3>3. QED
      BY <1>2, <1>3, <1>4, <3>1, <3>2, Sorts DEF Half
  <2>3. QED
    BY <2>1, <2>2
<1>9. \A k \in Keys : rows'[k] # None => k \in used
  BY RowsStay
<1>10. QED
  BY <1>1, <1>2, <1>3, <1>4, <1>5, <1>6, <1>8, <1>9, Moved

LEMMA RowFailsKeeps ==
    ASSUME IInv, NEW r \in Requests, RowFails(r)
    PROVE  IInv'
<1>1. req[r].stage = "row" /\ UNCHANGED <<rows, server, keyFiles, used, late>>
  BY DEF RowFails
<1>2. TypeOK /\ req[r] # Idle
  BY <1>1, StageMeansBusy DEF IInv
<1>3. CASE req[r].op.kind = "create" /\ req[r].op.on \in Users
  BY <1>1, <1>3, UndoBegins DEF RowFails
<1>4. CASE ~(req[r].op.kind = "create" /\ req[r].op.on \in Users)
  <2>1. /\ rows' \in [Objects -> Values \cup {None, Blank}]
        /\ \A p \in Databases \cup Keys : rows'[p] # None => rows'[Owner[p]] # None
        /\ \A k \in Keys : rows'[k] # None => k \in used
    BY <1>1, RowsStay
  <2>2. server' \in [Objects -> Values \cup {None, Unlimited}] /\ keyFiles' \subseteq Users /\ late' \subseteq Late
    BY <1>1, <1>2 DEF TypeOK
  <2>3. ToIdle(r) /\ torn' = torn \cup Scope(req[r].op.on)
    BY <1>4 DEF RowFails
  <2>4. QED
    BY <1>1, <1>2, <2>1, <2>2, <2>3, TornEnd
<1>5. QED
  BY <1>3, <1>4

LEMMA InsertKeeps ==
    ASSUME IInv, NEW r \in Requests, Insert(r)
    PROVE  IInv'
<1>1. req[r].stage = "row" /\ req[r].op.kind = "create" /\ UNCHANGED <<server, keyFiles, used, late>>
  BY DEF Insert
<1>2. TypeOK /\ Half(r) /\ req[r] # Idle /\ Drawn
  BY <1>1, StageMeansBusy DEF IInv
<1>3. PICK op \in Op : op = req[r].op
  BY <1>2, RequestTyped
<1>4. PICK o \in Objects : o = op.on
  BY OpTyped
<1>5. PICK v \in Values : v = op.value
  BY OpTyped
<1>6. PICK fits \in BOOLEAN : fits <=> rows[o] = None /\ (o \notin Users => rows[Owner[o]] # None)
  OBVIOUS
<1>7. /\ rows' = IF fits THEN [rows EXCEPT ![o] = v] ELSE rows
      /\ IF o \in Users /\ ~fits
           THEN ToStage(r, "undo") /\ UNCHANGED torn
           ELSE ToIdle(r) /\ End(r, IF o \in Users THEN {o} ELSE {})
  BY <1>3, <1>4, <1>5, <1>6 DEF Insert
<1>8. CASE o \in Users /\ ~fits
  <2>1. UNCHANGED rows /\ ToStage(r, "undo") /\ UNCHANGED torn
    BY <1>7, <1>8
  <2>2. QED
    BY <1>1, <1>3, <1>4, <1>8, <2>1, UndoBegins
<1>9. CASE ~(o \in Users /\ ~fits)
  <2> DEFINE repaired == IF o \in Users THEN {o} ELSE {}
  <2>1. ToIdle(r) /\ End(r, repaired)
    BY <1>7, <1>9
  <2>2. repaired \subseteq Scope(o) /\ o \in Scope(o)
    BY Scopes
  <2>3. req' \in [Requests -> Request] /\ req'[r] = Idle /\ \A q \in Requests \ {r} : Undisturbed(q, Scope(o))
    BY <1>2, <1>3, <1>4, <2>1, EndedRequest
  <2>4. rows' \in [Objects -> Values \cup {None, Blank}] /\ (\A p \in Objects \ {o} : rows'[p] = rows[p])
        /\ (fits => rows'[o] = v) /\ (~fits => rows'[o] = rows[o])
    BY <1>2, <1>7 DEF TypeOK
  <2>5. \A p \in Databases \cup Keys : rows'[p] # None => rows'[Owner[p]] # None
    BY <1>2, <1>5, <1>6, <2>4, Sorts DEF TypeOK
  <2>6. \A k \in Keys : rows'[k] # None => k \in used
    BY <1>2, <1>3, <1>4, <2>4, RequestTyped, Sorts DEF Drawn
  <2>7. \A p \in Objects \ Scope(o) : rows'[p] = rows[p] /\ server'[p] = server[p]
    BY <1>1, <2>2, <2>4
  <2>8. req[r].alone =>
          \A p \in Scope(o) : p \notin torn \/ p \in repaired \ req[r].missed => Agree(p)'
    <3> SUFFICES ASSUME req[r].alone, NEW p \in Scope(o), p \notin torn \/ p \in repaired \ req[r].missed
                 PROVE  Agree(p)'
      OBVIOUS
    <3>1. /\ o \notin Users => rows[Owner[o]] # None
          /\ o \in Keys => rows[o] = None
          /\ \A e \in Scope(o) \ (torn \cup {o}) : Agree(e)
          /\ Called(op, req[r].missed) /\ p \notin req[r].missed
      BY <1>1, <1>2, <1>3, <1>4 DEF Half
    <3>2. p \in Objects
      BY Scopes DEF Closed
    <3>3. CASE p # o
      <4>1. Agree(p)
        BY <3>1, <3>3
      <4>2. QED
        BY <1>1, <2>4, <3>2, <3>3, <4>1 DEF Agree
    <3>4. CASE p = o /\ o \in Users
      BY <1>1, <1>3, <1>4, <1>5, <1>9, <2>4, <3>1, <3>4, Sorts DEF Called, Agree
    <3>5. CASE p = o /\ o \in Databases
      <4>1. server[o] = (IF rows[o] = None THEN v ELSE rows[o])
        BY <1>1, <1>3, <1>4, <1>5, <3>1, <3>5, Sorts DEF Called
      <4>2. QED
        BY <1>1, <1>6, <2>4, <3>1, <3>5, <4>1, Sorts DEF Agree
    <3>6. CASE p = o /\ o \in Keys
      BY <1>1, <1>3, <1>4, <1>5, <1>6, <2>4, <3>1, <3>6, Sorts DEF Called, Agree
    <3>7. QED
      BY <3>3, <3>4, <3>5, <3>6, Sorts
  <2>9. server' \in [Objects -> Values \cup {None, Unlimited}] /\ keyFiles' \subseteq Users /\ late' \subseteq Late
    BY <1>1, <1>2 DEF TypeOK
  <2> HIDE DEF repaired
  <2>10. QED
    BY <1>1, <1>2, <1>3, <1>4, <2>1, <2>2, <2>3, <2>4, <2>5, <2>6, <2>7, <2>8, <2>9, Ends
<1>10. QED
  BY <1>8, <1>9

LEMMA InsertBlankKeeps ==
    ASSUME IInv, NEW r \in Requests, InsertBlank(r)
    PROVE  IInv'
<1>1. /\ req[r].stage = "row" /\ ToIdle(r) /\ UNCHANGED <<server, keyFiles, used, late>>
      /\ req[r].op.on \in Databases /\ rows[Owner[req[r].op.on]] # None
      /\ rows' = [rows EXCEPT ![req[r].op.on] = Blank] /\ torn' = torn \cup {req[r].op.on}
  BY DEF InsertBlank
<1>2. TypeOK /\ req[r] # Idle /\ Drawn
  BY <1>1, StageMeansBusy DEF IInv
<1>3. PICK o \in Databases : o = req[r].op.on /\ o \in Objects
  BY <1>1, Sorts
<1>4. Scope(o) = {o}
  BY <1>3, Scopes, Sorts
<1>5. rows' \in [Objects -> Values \cup {None, Blank}] /\ \A p \in Objects \ {o} : rows'[p] = rows[p]
  BY <1>1, <1>2, <1>3 DEF TypeOK
<1>6. \A p \in Databases \cup Keys : rows'[p] # None => rows'[Owner[p]] # None
  <2> SUFFICES ASSUME NEW p \in Databases \cup Keys, rows'[p] # None PROVE rows'[Owner[p]] # None
    OBVIOUS
  <2>1. Owner[p] \in Objects \ {o} /\ p \in Objects
    BY Sorts
  <2>2. rows[Owner[p]] # None
    BY <1>1, <1>2, <1>3, <1>5, <2>1 DEF TypeOK
  <2>3. QED
    BY <1>5, <2>1, <2>2
<1>7. \A k \in Keys : rows'[k] # None => k \in used
  BY <1>2, <1>5, Sorts DEF Drawn
<1>8. server' \in [Objects -> Values \cup {None, Unlimited}] /\ keyFiles' \subseteq Users /\ late' \subseteq Late
  BY <1>1, <1>2 DEF TypeOK
<1>9. QED
  BY <1>1, <1>2, <1>3, <1>4, <1>5, <1>6, <1>7, <1>8, TornEnd

LEMMA ChangeKeeps ==
    ASSUME IInv, NEW r \in Requests, Change(r)
    PROVE  IInv'
<1>1. req[r].stage = "row" /\ req[r].op.kind = "change" /\ UNCHANGED <<server, keyFiles, used, late>> /\ ToIdle(r)
  BY DEF Change
<1>2. TypeOK /\ Half(r) /\ req[r] # Idle /\ Drawn
  BY <1>1, StageMeansBusy DEF IInv
<1>3. PICK op \in Op : op = req[r].op
  BY <1>2, RequestTyped
<1>4. PICK o \in Objects : o = op.on
  BY OpTyped
<1>5. PICK v \in Values : v = op.value
  BY OpTyped
<1>6. PICK fits \in BOOLEAN : fits <=> rows[o] # None /\ (o \in Users \/ req[r].same)
  OBVIOUS
<1> DEFINE repaired == IF server[o] # None THEN {o} ELSE {}
<1>7. rows' = (IF fits THEN [rows EXCEPT ![o] = v] ELSE rows) /\ End(r, repaired)
  BY <1>3, <1>4, <1>5, <1>6 DEF Change
<1>8. repaired \subseteq Scope(o) /\ o \in Scope(o)
  BY Scopes
<1>9. req' \in [Requests -> Request] /\ req'[r] = Idle /\ \A q \in Requests \ {r} : Undisturbed(q, Scope(o))
  BY <1>1, <1>2, <1>3, <1>4, EndedRequest
<1>10. rows' \in [Objects -> Values \cup {None, Blank}] /\ (\A p \in Objects \ {o} : rows'[p] = rows[p])
       /\ (fits => rows'[o] = v) /\ (~fits => rows'[o] = rows[o])
  BY <1>2, <1>7 DEF TypeOK
<1>11. \A p \in Objects : rows'[p] = None <=> rows[p] = None
  BY <1>5, <1>6, <1>10, Sorts
<1>12. \A p \in Databases \cup Keys : rows'[p] # None => rows'[Owner[p]] # None
  BY <1>2, <1>11, Sorts DEF TypeOK
<1>13. \A k \in Keys : rows'[k] # None => k \in used
  BY <1>2, <1>11, Sorts DEF Drawn
<1>14. \A p \in Objects \ Scope(o) : rows'[p] = rows[p] /\ server'[p] = server[p]
  BY <1>1, <1>8, <1>10
<1>15. req[r].alone =>
         \A p \in Scope(o) : p \notin torn \/ p \in repaired \ req[r].missed => Agree(p)'
  <2> SUFFICES ASSUME req[r].alone, NEW p \in Scope(o), p \notin torn \/ p \in repaired \ req[r].missed
               PROVE  Agree(p)'
    OBVIOUS
  <2>1. /\ req[r].same /\ rows[o] # None
        /\ \A e \in Scope(o) \ (torn \cup {o}) : Agree(e)
        /\ Called(op, req[r].missed) /\ p \notin req[r].missed
    BY <1>1, <1>2, <1>3, <1>4 DEF Half
  <2>2. p \in Objects
    BY Scopes DEF Closed
  <2>3. rows'[o] = v
    BY <1>6, <1>10, <2>1
  <2>4. CASE p # o
    <3>1. Agree(p)
      BY <2>1, <2>4
    <3>2. QED
      BY <1>1, <1>10, <2>2, <2>4, <3>1 DEF Agree
  <2>5. CASE p = o /\ o \in Users
    BY <1>1, <1>3, <1>4, <1>5, <2>1, <2>3, <2>5, Sorts DEF Called, Agree
  <2>6. CASE p = o /\ o \in Databases
    BY <1>1, <1>3, <1>4, <1>5, <2>1, <2>3, <2>6, Sorts DEF Called, Agree
  <2>7. o \notin Keys
    BY <1>1, <1>2, <1>3, <1>4, RequestTyped DEF Drawn
  <2>8. QED
    BY <2>4, <2>5, <2>6, <2>7, Sorts
<1>16. server' \in [Objects -> Values \cup {None, Unlimited}] /\ keyFiles' \subseteq Users /\ late' \subseteq Late
  BY <1>1, <1>2 DEF TypeOK
<1> HIDE DEF repaired
<1>17. QED
  BY <1>1, <1>2, <1>3, <1>4, <1>7, <1>8, <1>9, <1>10, <1>12, <1>13, <1>14, <1>15, <1>16, Ends

LEMMA DeleteKeeps ==
    ASSUME IInv, NEW r \in Requests, Delete(r)
    PROVE  IInv'
<1>1. req[r].stage = "row" /\ req[r].op.kind = "delete" /\ UNCHANGED <<server, keyFiles, used, late>>
  BY DEF Delete
<1>2. TypeOK /\ Half(r) /\ req[r] # Idle /\ Drawn
  BY <1>1, StageMeansBusy DEF IInv
<1>3. PICK op \in Op : op = req[r].op
  BY <1>2, RequestTyped
<1>4. PICK o \in Objects : o = op.on
  BY OpTyped
<1>5. PICK erased : erased = IF o \in Users \/ req[r].same THEN Scope(o) ELSE {}
  OBVIOUS
<1> DEFINE repaired == {o} \cup (IF o \in Users THEN Dropped(o) \cup KeysOf(o) ELSE {})
<1>6. Erase(r, erased) /\ End(r, repaired)
  BY <1>3, <1>4, <1>5 DEF Delete
<1>7. repaired \subseteq Scope(o) /\ o \in Scope(o) /\ erased \subseteq Scope(o) /\ Scope(o) \subseteq Objects
  BY <1>5, Scopes DEF Closed
<1>8. /\ rows' = [p \in Objects |-> IF p \in erased THEN None ELSE rows[p]]
      /\ rows' \in [Objects -> Values \cup {None, Blank}]
  BY <1>2, <1>6 DEF Erase, TypeOK
<1>9. \A p \in Databases \cup Keys : rows'[p] # None => rows'[Owner[p]] # None
  <2> SUFFICES ASSUME NEW p \in Databases \cup Keys, rows'[p] # None PROVE rows'[Owner[p]] # None
    OBVIOUS
  <2>1. p \notin erased /\ rows[Owner[p]] # None /\ Owner[p] \in Users /\ Owner[p] \in Objects
    BY <1>2, <1>8, Sorts DEF TypeOK
  <2>2. Owner[p] \notin erased
    <3>1. CASE o \in Users
      BY <1>5, <2>1, <3>1, Scopes, Sorts DEF Of
    <3>2. CASE o \notin Users
      BY <1>5, <2>1, <3>2, Scopes
    <3>3. QED
      BY <3>1, <3>2
  <2>3. QED
    BY <1>8, <2>1, <2>2
<1>10. \A k \in Keys : rows'[k] # None => k \in used
  BY <1>2, <1>8, Sorts DEF Drawn
<1>11. \A p \in Objects \ Scope(o) : rows'[p] = rows[p] /\ server'[p] = server[p]
  BY <1>1, <1>7, <1>8
<1>12. /\ req' \in [Requests -> Request] /\ req'[r] = Idle
       /\ \A q \in Requests \ {r} : Undisturbed(q, Scope(o))
  <2>1. req' = [q \in Requests |->
                 IF q = r THEN Idle
                 ELSE IF q \in Busy /\ req[q].op.on \in erased THEN [req[q] EXCEPT !.same = FALSE]
                 ELSE req[q]]
    BY <1>6 DEF Erase
  <2>2. ASSUME NEW q \in Requests, req[q] # Idle
        PROVE  LET m == [req[q] EXCEPT !.same = FALSE] IN
               m \in Active /\ m.op = req[q].op /\ m.stage = req[q].stage /\ m.alone = req[q].alone
    <3>1. req[q] \in Active
      BY <1>2, <2>2, RequestTyped
    <3>2. QED
      BY <3>1 DEF Active
  <2>3. ASSUME NEW q \in Requests PROVE req'[q] \in Request
    <3>1. CASE q = r
      BY <2>1, <3>1 DEF Request
    <3>2. CASE q # r /\ q \in Busy /\ req[q].op.on \in erased
      BY <2>1, <2>2, <3>2, ActiveNotIdle DEF Busy
    <3>3. CASE q # r /\ ~(q \in Busy /\ req[q].op.on \in erased)
      BY <1>2, <2>1, <3>3 DEF TypeOK
    <3>4. QED
      BY <3>1, <3>2, <3>3
  <2>4. ASSUME NEW q \in Requests, q # r PROVE Undisturbed(q, Scope(o))
    <3>1. CASE q \in Busy /\ req[q].op.on \in erased
      <4>1. req[q] # Idle /\ req[q].op.on \in Scope(req[q].op.on) /\ req[q].op.on \in Scope(o)
        BY <1>2, <1>7, <3>1, RequestTyped, Scopes DEF Busy
      <4>2. ~req[q].alone
        BY <1>2, <1>3, <1>4, <2>4, <4>1, OnAlone
      <4>3. /\ req'[q] \in Active /\ req'[q].op = req[q].op /\ req'[q].stage = req[q].stage
            /\ req'[q].alone = req[q].alone
        BY <2>1, <2>2, <2>4, <3>1, <4>1
      <4>4. QED
        BY <4>1, <4>2, <4>3, ActiveNotIdle DEF Undisturbed
    <3>2. CASE ~(q \in Busy /\ req[q].op.on \in erased)
      <4>1. req'[q] = req[q]
        BY <2>1, <2>4, <3>2
      <4>2. QED
        BY <1>2, <1>3, <1>4, <2>4, <4>1, OthersThere
    <3>3. QED
      BY <3>1, <3>2
  <2>5. QED
    BY <2>1, <2>3, <2>4
<1>13. req[r].alone =>
         \A p \in Scope(o) : p \notin torn \/ p \in repaired \ req[r].missed => Agree(p)'
  <2> SUFFICES ASSUME req[r].alone, NEW p \in Scope(o), p \notin torn \/ p \in repaired \ req[r].missed
               PROVE  Agree(p)'
    OBVIOUS
  <2>1. req[r].same /\ Called(op, req[r].missed) /\ p \notin req[r].missed
    BY <1>1, <1>2, <1>3 DEF Half
  <2>2. p \in Objects /\ rows'[p] = None
    BY <1>5, <1>7, <1>8, <2>1
  <2>3. server[p] = None
    <3>1. CASE p = o
      BY <1>1, <1>3, <1>4, <2>1, <3>1 DEF Called
    <3>2. CASE p # o
      <4>1. o \in Users /\ p \in Of(o)
        BY <3>2, Scopes
      <4>2. server[p] = None \/ p \in torn \ ((Dropped(o) \cup KeysOf(o)) \ req[r].missed)
        BY <1>1, <1>3, <1>4, <2>1, <4>1 DEF Called
      <4>3. QED
        BY <3>2, <4>1, <4>2
    <3>3. QED
      BY <3>1, <3>2
  <2>4. QED
    BY <1>1, <2>2, <2>3 DEF Agree
<1>14. server' \in [Objects -> Values \cup {None, Unlimited}] /\ keyFiles' \subseteq Users /\ late' \subseteq Late
  BY <1>1, <1>2 DEF TypeOK
<1> HIDE DEF repaired
<1>15. QED
  BY <1>1, <1>2, <1>3, <1>4, <1>6, <1>7, <1>8, <1>9, <1>10, <1>11, <1>12, <1>13, <1>14, Ends

LEMMA UndoKeeps ==
    ASSUME IInv, NEW r \in Requests, Undo(r)
    PROVE  IInv'
<1>1. req[r].stage = "undo" /\ UNCHANGED <<rows, used, late>> /\ ToIdle(r)
  BY DEF Undo
<1>2. TypeOK /\ Half(r) /\ req[r] # Idle
  BY <1>1, StageMeansBusy DEF IInv
<1>3. PICK u \in Users : u = req[r].op.on /\ u \in Objects /\ req[r].op.kind = "create"
  BY <1>1, <1>2, Sorts DEF Half
<1>10. PICK missed \in SUBSET Scope(u) :
         \/ handleDeleteUser(u, missed) /\ rows[u] = None /\ End(r, {})
         \/ handleDeleteUser(u, missed) /\ torn' = torn \cup Scope(u)
         \/ handleDeleteUserRefused(u, missed) /\ torn' = torn \cup Scope(u)
  BY <1>3 DEF Undo
<1>4. /\ server' \in [Objects -> Values \cup {None, Unlimited}] /\ keyFiles' \subseteq Users
      /\ \A p \in Objects \ Scope(u) : server'[p] = server[p]
  BY <1>2, <1>3, <1>10, DeletionsStayInScope
<1>5. /\ rows' \in [Objects -> Values \cup {None, Blank}]
      /\ \A p \in Databases \cup Keys : rows'[p] # None => rows'[Owner[p]] # None
      /\ \A k \in Keys : rows'[k] # None => k \in used
  BY <1>1, RowsStay
<1>6. late' \subseteq Late
  BY <1>1, <1>2 DEF TypeOK
<1>7. CASE torn' = torn \cup Scope(u)
  BY <1>1, <1>2, <1>3, <1>4, <1>5, <1>6, <1>7, TornEnd
<1>8. CASE handleDeleteUser(u, missed) /\ rows[u] = None /\ End(r, {})
  <2>1. req' \in [Requests -> Request] /\ req'[r] = Idle /\ \A q \in Requests \ {r} : Undisturbed(q, Scope(u))
    BY <1>1, <1>2, <1>3, EndedRequest
  <2>2. req[r].alone => \A p \in Scope(u) : p \notin torn => Agree(p)'
    <3> SUFFICES ASSUME req[r].alone, NEW p \in Scope(u), p \notin torn PROVE Agree(p)'
      OBVIOUS
    <3>1. \A e \in Scope(u) \ (torn \cup {u}) : Agree(e)
      BY <1>1, <1>2, <1>3 DEF Half
    <3>2. \A e \in Objects : server'[e] = None \/ (e # u /\ server'[e] = server[e])
      BY <1>8 DEF handleDeleteUser
    <3>3. CASE p = u
      BY <1>1, <1>3, <1>8, <3>2, <3>3 DEF Agree
    <3>4. CASE p # u
      <4>1. p \in Of(u) /\ p \in Databases \cup Keys /\ p \in Objects /\ p \notin Users
        BY <1>3, <3>4, Scopes, Sorts
      <4>2. rows[p] = None
        BY <1>2, <1>8, <4>1 DEF TypeOK, Of
      <4>3. server[p] = None
        BY <3>1, <3>4, <4>1, <4>2 DEF Agree
      <4>4. QED
        BY <1>1, <3>2, <4>1, <4>2, <4>3 DEF Agree
    <3>5. QED
      BY <3>3, <3>4
  <2>3. \A p \in Objects \ Scope(u) : rows'[p] = rows[p] /\ server'[p] = server[p]
    BY <1>1, <1>4
  <2>4. QED
    BY <1>1, <1>2, <1>3, <1>4, <1>5, <1>6, <1>8, <2>1, <2>2, <2>3, Ends
<1>9. QED
  BY <1>7, <1>8, <1>10
-----------------------------------------------------------------------------
(***************************************************************************)
(* Steps beside the requests: they mark those on the same objects.         *)
(***************************************************************************)
LEMMA Marked ==
    ASSUME NEW a \in Active
    PROVE  LET m == [a EXCEPT !.alone = FALSE] IN
           m \in Request /\ m # Idle /\ m.op = a.op /\ m.stage = a.stage /\ ~m.alone
<1> DEFINE m == [a EXCEPT !.alone = FALSE]
<1>1. m \in Active /\ m.op = a.op /\ m.stage = a.stage /\ m.alone = FALSE
  BY DEF Active
<1> HIDE DEF m
<1>2. m \in Request /\ m # Idle
  BY <1>1, ActiveNotIdle
<1>3. QED
  BY <1>1, <1>2 DEF m

LEMMA DisturbedRequest ==
    ASSUME IInv, NEW X, NEW R, R = Disturbed(X)
    PROVE  /\ R \in [Requests -> Request]
           /\ \A q \in Requests :
                \/ R[q] = req[q] /\ (req[q] # Idle => Scope(req[q].op.on) \cap X = {})
                \/ /\ req[q] # Idle /\ R[q] # Idle
                   /\ R[q].op = req[q].op /\ R[q].stage = req[q].stage /\ ~R[q].alone
<1>1. TypeOK
  BY DEF IInv
<1>2. ASSUME NEW q \in Requests
      PROVE  /\ R[q] \in Request
             /\ \/ R[q] = req[q] /\ (req[q] # Idle => Scope(req[q].op.on) \cap X = {})
                \/ /\ req[q] # Idle /\ R[q] # Idle
                   /\ R[q].op = req[q].op /\ R[q].stage = req[q].stage /\ ~R[q].alone
  <2>1. CASE q \in Touches(X)
    <3>1. req[q] # Idle
      BY <2>1 DEF Touches, Busy
    <3>2. req[q] \in Active
      BY <1>1, <3>1, RequestTyped
    <3>3. R[q] = [req[q] EXCEPT !.alone = FALSE]
      BY <2>1 DEF Disturbed
    <3>4. QED
      BY <3>1, <3>2, <3>3, Marked
  <2>2. CASE q \notin Touches(X)
    <3>1. R[q] = req[q] /\ req[q] \in Request
      BY <1>1, <2>2 DEF Disturbed, TypeOK
    <3>2. QED
      BY <2>2, <3>1 DEF Touches, Busy
  <2>3. QED
    BY <2>1, <2>2
<1>3. R = [q \in Requests |-> R[q]]
  BY DEF Disturbed
<1>4. QED
  BY <1>2, <1>3

LEMMA Disturbs ==
    ASSUME IInv, TypeOK', NEW X, Closed(X), Outside(X), req' = Disturbed(X), UNCHANGED used,
           \A k \in Keys : rows'[k] # None => k \in used,
           \A o \in X \ torn' : Touches({o}) = {} => Agree(o)'
    PROVE  IInv'
<1>1. TypeOK
  BY DEF IInv
<1>2. \A q \in Requests : Undisturbed(q, X)
  BY DisturbedRequest DEF Undisturbed
<1>3. \A q \in Requests : (req'[q] = Idle <=> req[q] = Idle) /\ (req[q] # Idle => req'[q].op = req[q].op)
  BY <1>2 DEF Undisturbed
<1>4. (\A q \in Requests : Half(q))'
  BY <1>1, <1>2, HalfKept DEF IInv
<1>5. Aloof'
  <2> SUFFICES ASSUME NEW a \in Requests, NEW b \in Requests, a # b, req'[a] # Idle, req'[b] # Idle, req'[a].alone
               PROVE  Scope(req'[b].op.on) \cap Scope(req'[a].op.on) = {}
    BY DEF Aloof, Busy
  <2>1. QED
    BY <1>2, OthersAloof
<1>6. Drawn'
  BY <1>3 DEF IInv, Drawn, Busy
<1>7. Calm'
  <2> SUFFICES ASSUME NEW o \in Objects, o \notin torn', Touches({o})' = {} PROVE Agree(o)'
    BY DEF Calm
  <2>1. Touches({o}) = {}
    BY <1>3 DEF Touches, Busy
  <2>2. CASE o \in X
    BY <2>1, <2>2
  <2>3. CASE o \notin X
    <3>1. Agree(o)
      BY <2>1, <2>3 DEF IInv, Calm, Outside
    <3>2. QED
      BY <2>3, <3>1, AgreeKept
  <2>4. QED
    BY <2>2, <2>3
<1>8. QED
  BY <1>4, <1>5, <1>6, <1>7 DEF IInv

LEMMA LoginKeeps ==
    ASSUME IInv, NEW u \in Users, Login(u)
    PROVE  IInv'
<1>1. /\ rows' = [rows EXCEPT ![u] = Default] /\ req' = Disturbed(Scope(u))
      /\ UNCHANGED <<server, keyFiles, used, late>>
      /\ torn' = IF server[u] = Default /\ u \notin torn THEN torn ELSE torn \cup {u}
  BY DEF Login
<1>2. TypeOK /\ u \in Objects /\ u \in Scope(u) /\ Closed(Scope(u)) /\ Drawn /\ Calm
  BY Sorts, Scopes DEF IInv
<1>3. /\ rows' \in [Objects -> Values \cup {None, Blank}] /\ rows'[u] = Default
      /\ \A p \in Objects \ {u} : rows'[p] = rows[p]
  BY <1>1, <1>2, Sorts DEF TypeOK
<1>4. req' \in [Requests -> Request]
  BY <1>1, DisturbedRequest
<1>5. TypeOK'
  <2>1. \A o \in Databases \cup Keys : rows'[o] # None => rows'[Owner[o]] # None
    BY <1>2, <1>3, Sorts DEF TypeOK
  <2>2. torn' \subseteq Objects
    BY <1>1, <1>2 DEF TypeOK
  <2>3. QED
    BY <1>1, <1>2, <1>3, <1>4, <2>1, <2>2 DEF TypeOK
<1>6. Outside(Scope(u))
  BY <1>1, <1>2, <1>3 DEF Outside
<1>7. \A k \in Keys : rows'[k] # None => k \in used
  BY <1>2, <1>3, Sorts DEF Drawn
<1>8. \A o \in Scope(u) \ torn' : Touches({o}) = {} => Agree(o)'
  <2> SUFFICES ASSUME NEW o \in Scope(u), o \notin torn', Touches({o}) = {} PROVE Agree(o)'
    OBVIOUS
  <2>1. o \in Objects /\ o \notin torn
    BY <1>1, <1>2 DEF Closed
  <2>2. CASE o = u
    BY <1>1, <1>3, <2>2, Sorts DEF Agree
  <2>3. CASE o # u
    BY <1>1, <1>2, <1>3, <2>1, <2>3 DEF Calm, Agree
  <2>4. QED
    BY <2>2, <2>3
<1>9. QED
  BY <1>1, <1>2, <1>5, <1>6, <1>7, <1>8, Disturbs

LEMMA LateRunKeeps ==
    ASSUME IInv, NEW l \in late, LateRun(l)
    PROVE  IInv'
<1>1. TypeOK /\ l \in Late
  BY DEF IInv, TypeOK
<1>2. PICK op \in Op : op = l.op
  BY <1>1 DEF Late
<1>3. PICK o \in Objects : o = op.on
  BY OpTyped
<1>4. LateScope(l.op) = Scope(o)
  BY <1>2, <1>3 DEF LateRun, LateScope
<1>13. PICK missed : Handle(op, missed) \/ Refuse(op, missed)
  BY <1>2 DEF LateRun
<1>5. /\ late' = late \ {l} /\ torn' = torn \cup Scope(o) /\ req' = Disturbed(Scope(o))
      /\ UNCHANGED <<rows, used>>
  BY <1>2, <1>4 DEF LateRun
<1>6. /\ server' \in [Objects -> Values \cup {None, Unlimited}] /\ keyFiles' \subseteq Users
      /\ \A p \in Objects \ Scope(o) : server'[p] = server[p]
  BY <1>1, <1>3, <1>13, HandlersStayInScope
<1>7. Closed(Scope(o))
  BY Scopes
<1>8. req' \in [Requests -> Request]
  BY <1>5, DisturbedRequest
<1>9. TypeOK'
  BY <1>1, <1>5, <1>6, <1>7, <1>8 DEF TypeOK, Closed
<1>10. Outside(Scope(o))
  BY <1>5, <1>6 DEF Outside
<1>11. \A k \in Keys : rows'[k] # None => k \in used
  BY <1>5, RowsStay
<1>12. QED
  BY <1>5, <1>7, <1>9, <1>10, <1>11, Disturbs

LEMMA LateReadKeeps ==
    ASSUME IInv, NEW l \in late, LateRead(l)
    PROVE  IInv'
<1>1. TypeOK /\ l \in Late
  BY DEF IInv, TypeOK
<1>2. PICK S \in SUBSET Keys : late' = (late \ {l}) \cup {[l EXCEPT !.kept = {S}]}
  <2>1. {k \in KeysOf(Owner[l.op.on]) \ {l.op.on} : server[k] # None} \in SUBSET Keys
    BY DEF KeysOf
  <2>2. QED
    BY <2>1 DEF LateRead
<1>3. [l EXCEPT !.kept = {S}] \in Late
  <2>1. l.op.on \in Keys /\ l.op.kind = "delete"
    BY DEF LateRead
  <2>2. QED
    BY <1>1, <2>1 DEF Late
<1>4. UNCHANGED <<rows, server, keyFiles, used, req, torn>>
  BY DEF LateRead
<1>5. TypeOK'
  BY <1>1, <1>2, <1>3, <1>4 DEF TypeOK
<1>6. Aloof' /\ Drawn'
  BY <1>4 DEF IInv, Aloof, Drawn, Busy
<1>7. (\A r \in Requests : Half(r))'
  <2>1. Closed({}) /\ Outside({}) /\ \A r \in Requests : Undisturbed(r, {})
    BY <1>4 DEF Closed, Outside, Undisturbed
  <2>2. QED
    BY <1>1, <2>1, HalfKept DEF IInv
<1>8. Calm'
  BY <1>4 DEF IInv, Calm, Agree, Touches, Busy
<1>9. QED
  BY <1>5, <1>6, <1>7, <1>8 DEF IInv

LEMMA LateWriteKeeps ==
    ASSUME IInv, NEW l \in late, LateWrite(l)
    PROVE  IInv'
<1>1. TypeOK /\ l.op.on \in Keys /\ l.op.kind = "delete"
  BY DEF IInv, TypeOK, Late, LateWrite
<1>2. PICK u \in Users : u = Owner[l.op.on]
  BY <1>1, Sorts
<1>3. LateScope(l.op) = KeysOf(u)
  BY <1>1, <1>2 DEF LateScope
<1>4. /\ server' = [o \in Objects |->
                      IF o \notin KeysOf(u) \/ u \notin keyFiles THEN server[o]
                      ELSE IF \E S \in l.kept : o \in S THEN Default ELSE None]
      /\ late' = late \ {l} /\ torn' = torn \cup KeysOf(u) /\ req' = Disturbed(KeysOf(u))
      /\ UNCHANGED <<rows, keyFiles, used>>
  BY <1>2, <1>3 DEF LateWrite
<1>5. Closed(KeysOf(u))
  BY Sorts, Scopes DEF Closed, KeysOf
<1>6. req' \in [Requests -> Request]
  BY <1>4, DisturbedRequest
<1>7. server' \in [Objects -> Values \cup {None, Unlimited}]
  BY <1>1, <1>4, Sorts DEF TypeOK
<1>8. TypeOK'
  BY <1>1, <1>4, <1>5, <1>6, <1>7 DEF TypeOK, Closed
<1>9. Outside(KeysOf(u))
  BY <1>4 DEF Outside
<1>10. \A k \in Keys : rows'[k] # None => k \in used
  BY <1>4, RowsStay
<1>11. QED
  BY <1>4, <1>5, <1>8, <1>9, <1>10, Disturbs

LEMMA StartKeeps ==
    ASSUME IInv, NEW r \in Requests, NEW op \in Op, Start(r, op)
    PROVE  IInv'
<1>1. PICK o \in Objects : o = op.on
  BY OpTyped
<1> DEFINE X == Scope(o)
           R == Disturbed(X)
<1>2. PICK m : m = [stage |-> "call", op |-> op, same |-> TRUE, alone |-> Touches(X) = {},
                missed |-> {}]
  OBVIOUS
<1>3. /\ m.stage = "call" /\ m.op = op /\ m.same /\ (m.alone <=> Touches(X) = {})
      /\ m \in Request /\ m # Idle
  <2>1. m \in Active /\ m.stage = "call" /\ m.op = op /\ m.same = TRUE
    BY <1>2 DEF Active
  <2>2. m.alone <=> Touches(X) = {}
    BY <1>2
  <2>3. QED
    BY <2>1, <2>2, ActiveNotIdle
<1>4. /\ req[r] = Idle
      /\ o \in Users => (op.kind = "change" => rows[o] # None)
      /\ o \notin Users => rows[Owner[o]] # None /\ (op.kind # "create" => rows[o] # None)
      /\ o \in Keys => op.kind # "change" /\ (op.kind = "create" => o \notin used)
      /\ used' = IF o \in Keys THEN used \cup {o} ELSE used
      /\ req' = [R EXCEPT ![r] = m]
      /\ UNCHANGED <<rows, server, keyFiles, late, torn>>
  BY <1>1, <1>2 DEF Start
<1>5. TypeOK /\ Drawn /\ Calm /\ o \in X /\ Closed(X)
  BY Scopes DEF IInv
<1>6. /\ R \in [Requests -> Request]
      /\ \A q \in Requests :
           \/ R[q] = req[q] /\ (req[q] # Idle => Scope(req[q].op.on) \cap X = {})
           \/ /\ req[q] # Idle /\ R[q] # Idle
              /\ R[q].op = req[q].op /\ R[q].stage = req[q].stage /\ ~R[q].alone
  BY DisturbedRequest
<1> HIDE DEF R
<1>7. req' \in [Requests -> Request] /\ req'[r] = m /\ \A q \in Requests \ {r} : req'[q] = R[q]
  BY <1>3, <1>4, <1>6
<1>8. \A q \in Requests \ {r} :
         /\ Undisturbed(q, X)
         /\ (req'[q] = Idle <=> req[q] = Idle) /\ (req[q] # Idle => req'[q].op = req[q].op)
         /\ req'[q] # Idle /\ req'[q].alone => Scope(req'[q].op.on) \cap X = {}
  BY <1>6, <1>7 DEF Undisturbed
<1>9. TypeOK'
  BY <1>4, <1>5, <1>7 DEF TypeOK
<1>10. Outside(X)
  BY <1>4 DEF Outside
<1>11. \A p \in Objects : Agree(p) => Agree(p)'
  BY <1>4 DEF Agree
<1>12. Half(r)'
  <2>1. CASE ~m.alone
    BY <1>3, <1>7, <2>1 DEF Half
  <2>2. CASE m.alone
    <3>1. \A p \in X \ torn : Agree(p)'
      <4> SUFFICES ASSUME NEW p \in X, p \notin torn PROVE Agree(p)'
        OBVIOUS
      <4>1. p \in Objects
        BY <1>5 DEF Closed
      <4>2. Touches({p}) = {}
        BY <1>3, <2>2 DEF Touches
      <4>3. QED
        BY <1>5, <1>11, <4>1, <4>2 DEF Calm
    <3>2. op.kind = "change" => rows[o] # None
      BY <1>4
    <3>3. op.kind = "create" /\ o \in Keys => rows[o] = None
      BY <1>4, <1>5 DEF Drawn
    <3>4. QED
      BY <1>1, <1>3, <1>4, <1>7, <3>1, <3>2, <3>3 DEF Half
  <2>3. QED
    BY <2>1, <2>2
<1>13. (\A q \in Requests : Half(q))'
  <2> SUFFICES ASSUME NEW q \in Requests PROVE Half(q)'
    OBVIOUS
  <2>1. CASE q = r
    BY <1>12, <2>1 DEF Half
  <2>2. CASE q # r
    BY <1>5, <1>8, <1>10, <2>2, HalfKept DEF IInv
  <2>3. QED
    BY <2>1, <2>2
<1>14. Aloof'
  <2> SUFFICES ASSUME NEW a \in Requests, NEW b \in Requests, a # b, req'[a] # Idle, req'[b] # Idle, req'[a].alone
               PROVE  Scope(req'[b].op.on) \cap Scope(req'[a].op.on) = {}
    BY DEF Aloof, Busy
  <2>1. CASE a # r /\ b # r
    BY <1>8, <2>1, OthersAloof
  <2>2. CASE a = r
    <3>1. req[b] # Idle /\ req'[b].op = req[b].op /\ b \notin Touches(X)
      BY <1>3, <1>7, <1>8, <2>2
    <3>2. QED
      BY <1>1, <1>3, <1>7, <2>2, <3>1 DEF Touches, Busy
  <2>3. CASE b = r
    BY <1>1, <1>3, <1>7, <1>8, <2>3
  <2>4. QED
    BY <2>1, <2>2, <2>3
<1>15. Drawn'
  <2>1. \A k \in Keys : rows'[k] # None => k \in used'
    BY <1>4, <1>5 DEF Drawn
  <2>2. ASSUME NEW q \in Requests, req'[q] # Idle, req'[q].op.on \in Keys
        PROVE  req'[q].op.on \in used' /\ req'[q].op.kind # "change"
    <3>1. CASE q = r
      BY <1>1, <1>3, <1>4, <1>7, <2>2, <3>1
    <3>2. CASE q # r
      BY <1>4, <1>5, <1>8, <2>2, <3>2 DEF Drawn, Busy
    <3>3. QED
      BY <3>1, <3>2
  <2>3. QED
    BY <2>1, <2>2 DEF Drawn, Busy
<1>16. Calm'
  <2> SUFFICES ASSUME NEW p \in Objects, p \notin torn', Touches({p})' = {} PROVE Agree(p)'
    BY DEF Calm
  <2>1. Touches({p}) = {}
    <3> SUFFICES ASSUME NEW q \in Requests, req[q] # Idle, p \in Scope(req[q].op.on) PROVE FALSE
      BY DEF Touches, Busy
    <3>1. req'[q] # Idle /\ req'[q].op = req[q].op
      BY <1>4, <1>8
    <3>2. q \in Touches({p})'
      BY <3>1 DEF Touches, Busy
    <3>3. QED
      BY <3>2
  <2>2. QED
    BY <1>4, <1>5, <1>11, <2>1 DEF Calm
<1>17. QED
  BY <1>9, <1>13, <1>14, <1>15, <1>16 DEF IInv

LEMMA StutterKeeps ==
    ASSUME IInv, UNCHANGED vars
    PROVE  IInv'
<1>1. UNCHANGED <<rows, server, keyFiles, used, req, late, torn>>
  BY DEF vars
<1>2. TypeOK' /\ Aloof' /\ Drawn'
  BY <1>1 DEF IInv, TypeOK, Aloof, Drawn, Busy
<1>3. (\A r \in Requests : Half(r))'
  <2>1. TypeOK /\ Closed({}) /\ Outside({}) /\ \A r \in Requests : Undisturbed(r, {})
    BY <1>1 DEF IInv, Closed, Outside, Undisturbed
  <2>2. QED
    BY <2>1, HalfKept DEF IInv
<1>4. Calm'
  BY <1>1 DEF IInv, Calm, Agree, Touches, Busy
<1>5. QED
  BY <1>2, <1>3, <1>4 DEF IInv

LEMMA NextKeeps ==
    ASSUME IInv, [Next]_vars
    PROVE  IInv'
<1>1. ASSUME NEW r \in Requests, NEW op \in Calls, Start(r, op) PROVE IInv'
  BY <1>1, StartKeeps, ConstantsAssumption
<1>2. ASSUME NEW r \in Requests, Call(r) \/ CallRefused(r) \/ CallFails(r) PROVE IInv'
  BY <1>2, CallKeeps, CallRefusedKeeps, CallFailsKeeps
<1>3. ASSUME NEW r \in Requests, Insert(r) \/ InsertBlank(r) \/ Delete(r) \/ Change(r) \/ RowFails(r) \/ Undo(r)
      PROVE  IInv'
  BY <1>3, InsertKeeps, InsertBlankKeeps, DeleteKeeps, ChangeKeeps, RowFailsKeeps, UndoKeeps
<1>4. ASSUME NEW u \in Users, Login(u) PROVE IInv'
  BY <1>4, LoginKeeps
<1>5. ASSUME NEW l \in late, LateRun(l) \/ LateRead(l) \/ LateWrite(l) PROVE IInv'
  BY <1>5, LateRunKeeps, LateReadKeeps, LateWriteKeeps
<1>6. CASE UNCHANGED vars
  BY <1>6, StutterKeeps
<1>7. QED
  BY <1>1, <1>2, <1>3, <1>4, <1>5, <1>6 DEF Next

LEMMA Inductive == Spec => []IInv
<1>1. Init => IInv
  BY InitIInv
<1>2. IInv /\ [Next]_vars => IInv'
  BY NextKeeps
<1>3. QED
  BY <1>1, <1>2, PTL DEF Spec

-----------------------------------------------------------------------------
(***************************************************************************)
(* The results.                                                            *)
(***************************************************************************)
\* Whatever fails, meets or comes late, a database or key with a row belongs to a user
\* with a row, as the foreign keys of the panel's database have it, and requests and
\* late calls are of the forms the actions expect.
THEOREM TypeCorrect == Spec => []TypeOK
<1>1. IInv => TypeOK
  BY DEF IInv
<1>2. QED
  BY <1>1, Inductive, PTL

\* The panel's rows and the server agree about every object that nothing is under way on
\* and that no request has left to two minds, for any number of users, databases, keys,
\* requests and late calls: users.go, databases.go and ssh.go with the agent's handlers.
THEOREM StoresAreOne == Spec => []StoresAgree
<1>1. IInv => StoresAgree
  <2> SUFFICES ASSUME IInv, NEW o \in Objects, Settled(o) PROVE Agree(o)
    BY Sorts DEF StoresAgree, Agree
  <2>1. QED
    BY DEF IInv, Calm, Settled
<1>2. QED
  BY <1>1, Inductive, PTL
=============================================================================
