---------------------------- MODULE Sites_proofs ----------------------------
(***************************************************************************)
(* Proofs about Sites, for any sites, slugs, settings, number of requests  *)
(* and limit: that Caddy ends up with what the tables say, that a served   *)
(* site has its directory, and that an update takes effect or leaves no    *)
(* trace.                                                                  *)
(***************************************************************************)
EXTENDS Sites, FiniteSetTheorems, TLAPS

UnderWay(ch) == reload[ch] # NoReload

\* A request that has made its change, and is to have Caddy reloaded.
MustReload(r) ==
    req[r].op = "finish" \/ At(r, "update", "reload") \/ At(r, "deluser", "reload")

\* A reload under way belongs to a request that waits for it, and to no other reload.
Owned ==
    \A ch \in Channels : reload[ch] \in Requests =>
        /\ MustReload(reload[ch])
        /\ \A c \in Channels \ {ch} : reload[c] # reload[ch]

\* Who has yet to bring Caddy up to date: the reload under way if it has read the
\* tables as they are, and otherwise a request whose reload is still to begin.
Covered ==
    ~doubtful =>
        /\ \A ch, c \in Channels : UnderWay(ch) /\ UnderWay(c) => ch = c
        /\ (\E ch \in Channels : UnderWay(ch) /\ ch \notin current) =>
              \E r \in Requests : Waits(r)
        /\ "served" \notin current =>
              \/ \E ch \in Channels : UnderWay(ch)
              \/ \E r \in Requests : Waits(r)

\* A creation that has made its directory finds it there, unless it has been torn.
DirectoriesMade ==
    \A r \in Requests : At(r, "create", "directory") => req[r].slug \in dirs \cup torn

\* A live site has its directory, or its own deletion has removed it.
Cleared(r, s) == At(r, "delete", "cleared") /\ req[r].site = s /\ req[r].slug = row[s].slug
HousedAt(s) ==
    s \in Live => row[s].slug \in dirs \cup torn \/ \E r \in Requests : Cleared(r, s)

\* No other request knows of a site that is being created.
NewIsNew ==
    \A r \in Requests : req[r].op = "create" =>
        /\ req[r].site \notin Live
        /\ \A q \in Requests \ {r} : ~Refers(q, req[r].site)

About(r, s) == req[r].op \in {"update", "list"} /\ req[r].site = s

\* What a request about a site has read is what the last one left, and is still in the
\* row when the request has not written yet.
Knows(r, s) ==
    /\ req[r].old = settled[s]
    /\ req[r].stage = "read" => row[s].is = settled[s]

\* As long as requests about a site have not met, there is one at most, which knows the
\* settled settings; and when there is none, the row has them.
FollowedAt(s) ==
    (s \in Live /\ settled[s] # Nothing) =>
        /\ \A r \in Requests : About(r, s) =>
             /\ Knows(r, s)
             /\ \A q \in Requests \ {r} : ~About(q, s)
        /\ (\A r \in Requests : ~About(r, s)) => settled[s] = row[s].is

IInv ==
    /\ TypeOK
    /\ Owned
    /\ Covered
    /\ DirectoriesMade
    /\ \A s \in Sites : HousedAt(s)
    /\ NewIsNew
    /\ \A s \in Sites : FollowedAt(s)
-----------------------------------------------------------------------------
(***************************************************************************)
(* Data.                                                                   *)
(***************************************************************************)
LEMMA RowsAreRows ==
    /\ NoRow \notin Row
    /\ Nothing \notin Settings
  BY DEF NoRow, Row, Nothing, Settings

LEMMA LiveRows ==
    ASSUME TypeOK, NEW s \in Live
    PROVE  s \in Sites /\ row[s] \in Row /\ row[s].slug \in Slugs /\ row[s].is \in Settings
  BY DEF TypeOK, Live, Row

\* What the operation of a request says of its record.
LEMMA Fields ==
    ASSUME TypeOK, NEW r \in Requests
    PROVE  /\ req[r] = Idle <=> req[r].op = "none"
           /\ req[r].op \in {"create", "delete"} => req[r].site \in Sites /\ req[r].slug \in Slugs
           /\ req[r].op \in {"update", "list"} => req[r].site \in Sites /\ req[r].old \in Settings
           /\ req[r].op = "update" => req[r].stage \in {"read", "reload", "failed"}
           /\ At(r, "update", "read") => req[r].new \in Settings
           /\ req[r].op = "list" => req[r].stage = "read"
           /\ req[r].op = "finish" => req[r].stage \in Channels
<1>1. req[r] \in Request
  BY DEF TypeOK
<1>2. QED
  BY <1>1 DEF Request, Idle, At

\* A request that goes to its next stage keeps the rest of its record.
LEMMA Staged ==
    ASSUME TypeOK, NEW r \in Requests, NEW stage
    PROVE  LET m == [req[r] EXCEPT !.stage = stage] IN
           /\ At(r, "create", "read") /\ stage = "directory" =>
                /\ m \in Request /\ m.op = "create" /\ m.stage = stage
                /\ m.site = req[r].site /\ m.slug = req[r].slug
           /\ At(r, "delete", "read") /\ stage = "cleared" =>
                /\ m \in Request /\ m.op = "delete" /\ m.stage = stage
                /\ m.site = req[r].site /\ m.slug = req[r].slug
           /\ At(r, "update", "reload") /\ stage = "failed" =>
                /\ m \in Request /\ m.op = "update" /\ m.stage = stage
                /\ m.site = req[r].site /\ m.old = req[r].old
           /\ At(r, "deluser", "reload") /\ stage = "rows" =>
                m \in Request /\ m.op = "deluser" /\ m.stage = stage
<1> DEFINE m == [req[r] EXCEPT !.stage = stage]
<1>1. req[r] \in Request
  BY DEF TypeOK
<1>2. ASSUME At(r, "create", "read"), stage = "directory"
      PROVE  /\ m \in [op : {"create"}, stage : {"directory"}, site : Sites, slug : Slugs]
             /\ m.site = req[r].site /\ m.slug = req[r].slug
  <2>1. req[r] \in [op : {"create"}, stage : {"read", "directory"}, site : Sites, slug : Slugs]
    BY <1>1, <1>2 DEF Request, At, Idle
  <2>2. QED
    BY <2>1, <1>2
<1>3. ASSUME At(r, "delete", "read"), stage = "cleared"
      PROVE  /\ m \in [op : {"delete"}, stage : {"cleared"}, site : Sites, slug : Slugs]
             /\ m.site = req[r].site /\ m.slug = req[r].slug
  <2>1. req[r] \in [op : {"delete"}, stage : {"read", "cleared"}, site : Sites, slug : Slugs]
    BY <1>1, <1>3 DEF Request, At, Idle
  <2>2. QED
    BY <2>1, <1>3
<1>4. ASSUME At(r, "update", "reload"), stage = "failed"
      PROVE  /\ m \in [op : {"update"}, stage : {"failed"}, site : Sites, old : Settings]
             /\ m.site = req[r].site /\ m.old = req[r].old
  <2>1. req[r] \in [op : {"update"}, stage : {"reload", "failed"}, site : Sites, old : Settings]
    BY <1>1, <1>4 DEF Request, At, Idle
  <2>2. QED
    BY <2>1, <1>4
<1>5. ASSUME At(r, "deluser", "reload"), stage = "rows"
      PROVE  m \in [op : {"deluser"}, stage : {"rows"}]
  <2>1. req[r] \in [op : {"deluser"}, stage : {"reload", "rows"}]
    BY <1>1, <1>5 DEF Request, At, Idle
  <2>2. QED
    BY <2>1, <1>5
<1>6. QED
  BY <1>2, <1>3, <1>4, <1>5 DEF Request

LEMMA FinishTyped ==
    ASSUME NEW ch \in Channels PROVE [op |-> "finish", stage |-> ch] \in Request
  BY DEF Request

LEMMA IdleTyped == Idle \in Request /\ Idle.op = "none"
  BY DEF Request, Idle
-----------------------------------------------------------------------------
LEMMA InitIInv == Init => IInv
<1> SUFFICES ASSUME Init PROVE IInv
  OBVIOUS
<1> USE DEF Init
<1>1. TypeOK
  <2>1. row \in [Sites -> {NoRow} \cup Row]
    <3>1. \A d \in Slugs, v \in Values \ Broken : Default(d, v) \in Row
      BY DEF Default, Row, Settings
    <3>2. QED
      BY <3>1
  <2>2. \A s \in Live : row[s] \in Row
    BY <2>1 DEF Live
  <2>3. dirs \subseteq Slugs
    BY <2>2 DEF Row
  <2>4. settled \in [Sites -> Settings \cup {Nothing}]
    BY <2>2 DEF Row
  <2>5. QED
    BY <2>1, <2>3, <2>4 DEF TypeOK, Request
<1>2. \A r \in Requests, op \in {"create", "delete", "update", "list"} :
        req[r] = Idle /\ req[r].op = "none" /\ req[r].op # op
  BY DEF Idle
<1>3. Owned
  BY RequestsAssumption DEF Owned
<1>4. Covered
  BY DEF Covered, UnderWay
<1>5. DirectoriesMade /\ NewIsNew
  BY <1>2 DEF DirectoriesMade, NewIsNew, At
<1>6. \A s \in Sites : HousedAt(s)
  BY DEF HousedAt
<1>7. \A s \in Sites : FollowedAt(s)
  BY <1>2 DEF FollowedAt, About
<1>8. QED
  BY <1>1, <1>3, <1>4, <1>5, <1>6, <1>7 DEF IInv
-----------------------------------------------------------------------------
(***************************************************************************)
(* A request that takes a step of its own, and what the step keeps.        *)
(***************************************************************************)
Moves(r, m) == m \in Request /\ req' = [req EXCEPT ![r] = m]

LEMMA Moved ==
    ASSUME TypeOK, NEW r \in Requests, NEW m, Moves(r, m)
    PROVE  /\ req' \in [Requests -> Request]
           /\ req'[r] = m
           /\ \A q \in Requests \ {r} : req'[q] = req[q]
  BY DEF TypeOK, Moves

LEMMA OwnedKept ==
    ASSUME TypeOK, Owned, NEW r \in Requests, NEW m, Moves(r, m),
           reload' = reload, ~MustReload(r)
    PROVE  Owned'
<1>1. \A q \in Requests \ {r} : MustReload(q) => MustReload(q)'
  BY Moved DEF MustReload, At
<1>2. QED
  BY <1>1 DEF Owned

\* Those that wait go on waiting, and so does a request that has made its change.
LEMMA CoveredKept ==
    ASSUME TypeOK, Owned, Covered, NEW r \in Requests, NEW m, Moves(r, m),
           reload' = reload, doubtful' = doubtful, ~MustReload(r),
           MustReload(r)' \/ current' = current
    PROVE  Covered'
<1>1. \A q \in Requests : Waits(q) => Waits(q)'
  <2>1. \A q \in Requests : Waits(q) => q # r
    BY DEF Waits, MustReload
  <2>2. QED
    BY <2>1, Moved DEF Waits, At
<1>2. CASE MustReload(r)'
  <2>1. Waits(r)'
    BY <1>2 DEF Owned, MustReload, Waits
  <2>2. QED
    BY <2>1 DEF Covered, UnderWay
<1>3. CASE current' = current
  BY <1>1, <1>3 DEF Covered, UnderWay
<1>4. QED
  BY <1>2, <1>3

LEMMA DirectoriesKept ==
    ASSUME TypeOK, NEW r \in Requests, NEW m, Moves(r, m),
           \A q \in Requests \ {r} :
             At(q, "create", "directory") => req[q].slug \in dirs' \cup torn',
           m.op = "create" /\ m.stage = "directory" => m.slug \in dirs' \cup torn'
    PROVE  DirectoriesMade'
  BY Moved DEF DirectoriesMade, At

LEMMA HousedKept ==
    ASSUME TypeOK, NEW r \in Requests, NEW m, Moves(r, m), ~At(r, "delete", "cleared"),
           NEW s \in Sites, HousedAt(s),
           s \in Live' => s \in Live /\ row'[s].slug = row[s].slug,
           dirs \cup torn \subseteq dirs' \cup torn'
    PROVE  HousedAt(s)'
<1>1. \A q \in Requests : Cleared(q, s) /\ s \in Live' => Cleared(q, s)'
  BY Moved DEF Cleared, At
<1>2. QED
  BY <1>1 DEF HousedAt

LEMMA NewKept ==
    ASSUME TypeOK, NewIsNew, NEW r \in Requests, NEW m, Moves(r, m),
           Live' \subseteq Live,
           m.op = "create" => req[r].op = "create" /\ m.site = req[r].site,
           m.op \in {"delete", "update", "list"} => m.site \in Live \/ Refers(r, m.site)
    PROVE  NewIsNew'
<1> USE Moved DEF Refers, NewIsNew
<1>1. ASSUME NEW q \in Requests, (req[q].op = "create")'
      PROVE  req[q].op = "create" /\ req'[q].site = req[q].site
  BY <1>1
<1>2. ASSUME NEW q \in Requests, (req[q].op = "create")', NEW p \in Requests \ {q}
      PROVE  ~Refers(p, req[q].site)'
  <2>1. CASE p # r
    BY <1>1, <1>2, <2>1
  <2>2. CASE p = r
    BY <1>1, <1>2, <2>2
  <2>3. QED
    BY <2>1, <2>2
<1>3. QED
  BY <1>1, <1>2

\* A step that is not about the settings of site s.
LEMMA FollowedElsewhere ==
    ASSUME TypeOK, NEW r \in Requests, NEW m, Moves(r, m), NEW s \in Sites, FollowedAt(s),
           row'[s] = row[s], settled'[s] = settled[s],
           ~About(r, s), ~(m.op \in {"update", "list"} /\ m.site = s)
    PROVE  FollowedAt(s)'
<1>1. \A q \in Requests : (About(q, s))' <=> About(q, s)
  BY Moved DEF About
<1>2. \A q \in Requests : About(q, s) => (Knows(q, s))' = Knows(q, s)
  BY Moved DEF Knows
<1>3. (s \in Live)' <=> s \in Live
  BY DEF Live
<1>4. QED
  BY <1>1, <1>2, <1>3 DEF FollowedAt

\* The end of a request that has changed nothing.
LEMMA FollowedKept ==
    ASSUME TypeOK, NEW r \in Requests, NEW m, Moves(r, m), NEW s \in Sites, FollowedAt(s),
           row' = row, settled' = settled, m.op \notin {"update", "list"},
           req[r].op \in {"update", "list"} => req[r].stage = "read"
    PROVE  FollowedAt(s)'
<1>1. CASE ~About(r, s)
  BY <1>1, FollowedElsewhere
<1>2. CASE About(r, s)
  <2>1. req[r].stage = "read"
    BY <1>2 DEF About
  <2>2. s \in Live /\ settled[s] # Nothing =>
          /\ row[s].is = settled[s]
          /\ \A q \in Requests : ~(About(q, s))'
    BY <1>2, <2>1, Moved DEF FollowedAt, Knows, About
  <2>3. QED
    BY <2>2 DEF FollowedAt, Live
<1>3. QED
  BY <1>1, <1>2

\* A step that neither writes a row nor settles anything.
LEMMA QuietKeeps ==
    ASSUME IInv, crowded' \in BOOLEAN, NEW r \in Requests, NEW m, Moves(r, m), NewIsNew',
           ~MustReload(r), ~At(r, "delete", "cleared"),
           req[r].op \in {"update", "list"} => req[r].stage = "read",
           m.op \notin {"update", "list"},
           m.op = "create" /\ m.stage = "directory" => m.slug \in dirs' \cup torn',
           UNCHANGED <<row, settled, reload, doubtful>>,
           current' \subseteq current, MustReload(r)' \/ current' = current,
           dirs' \subseteq Slugs, torn' \subseteq Slugs, dirs \cup torn \subseteq dirs' \cup torn'
    PROVE  IInv'
<1> USE DEF IInv
<1>1. TypeOK'
  BY Moved DEF TypeOK
<1>2. Owned' /\ Covered'
  BY OwnedKept, CoveredKept
<1>3. DirectoriesMade'
  BY DirectoriesKept DEF DirectoriesMade
<1>4. \A s \in Sites : HousedAt(s)'
  BY HousedKept DEF Live
<1>5. \A s \in Sites : FollowedAt(s)'
  BY FollowedKept
<1>6. QED
  BY <1>1, <1>2, <1>3, <1>4, <1>5
-----------------------------------------------------------------------------
(***************************************************************************)
(* Creation and deletion.                                                  *)
(***************************************************************************)
LEMMA ReadForCreateKeeps ==
    ASSUME IInv, crowded' \in BOOLEAN, NEW r \in Requests, NEW s \in Sites, NEW slug \in Slugs,
           ReadForCreate(r, s, slug)
    PROVE  IInv'
<1> DEFINE m == [op |-> "create", stage |-> "read", site |-> s, slug |-> slug]
<1>1. m \in Request
  BY DEF Request
<1>2. Moves(r, m) /\ req[r] = Idle /\ req[r].op = "none"
  BY <1>1 DEF ReadForCreate, Begins, Becomes, Moves, Idle
<1>3. UNCHANGED <<row, dirs, current, reload, doubtful, settled, torn>>
  BY DEF ReadForCreate, caddy
<1>4. m.op = "create" /\ m.stage = "read" /\ m.site = s
  OBVIOUS
<1> HIDE DEF m
<1>5. NewIsNew'
  <2>1. NewIsNew /\ TypeOK /\ Unclaimed(s, slug)
    BY DEF IInv, ReadForCreate
  <2>2. ASSUME NEW q \in Requests \ {r}, (req[q].op = "create")'
        PROVE  /\ (req[q].site \notin Live)'
               /\ \A p \in Requests \ {q} : ~Refers(p, req[q].site)'
    <3>1. req'[q] = req[q] /\ req[q].op = "create"
      BY <2>1, <2>2, <1>2, Moved
    <3>2. req[q].site # s
      BY <2>1, <3>1 DEF Unclaimed, Refers
    <3>3. \A p \in Requests \ {q} : ~Refers(p, req[q].site)'
      BY <3>1, <3>2, <2>1, <1>2, <1>4, Moved DEF Refers, NewIsNew
    <3>4. QED
      BY <3>1, <3>3, <2>1, <1>3 DEF NewIsNew, Live
  <2>3. (req[r].site \notin Live)' /\ \A p \in Requests \ {r} : ~Refers(p, req[r].site)'
    BY <2>1, <1>2, <1>3, <1>4, Moved DEF Unclaimed, Refers, Live
  <2>4. QED
    BY <2>2, <2>3 DEF NewIsNew
<1>6. ~MustReload(r) /\ ~At(r, "delete", "cleared")
  BY <1>2 DEF MustReload, At
<1>7. dirs \subseteq Slugs /\ torn \subseteq Slugs
  BY DEF IInv, TypeOK
<1>8. QED
  BY <1>2, <1>3, <1>4, <1>5, <1>6, <1>7, QuietKeeps

LEMMA CreateSiteDirectoryKeeps ==
    ASSUME IInv, crowded' \in BOOLEAN, NEW r \in Requests, CreateSiteDirectory(r) PROVE IInv'
<1>1. TypeOK /\ NewIsNew /\ dirs \subseteq Slugs /\ torn \subseteq Slugs
  BY DEF IInv, TypeOK
<1>2. req[r].op = "create" /\ req[r].stage = "read" /\ req[r].slug \in Slugs
  BY <1>1, Fields DEF CreateSiteDirectory, At
<1>3. UNCHANGED <<row, current, reload, doubtful, settled>>
  BY DEF CreateSiteDirectory, caddy
<1>4. ~MustReload(r) /\ ~At(r, "delete", "cleared")
  BY <1>2 DEF MustReload, At
<1>5. PICK m : /\ Moves(r, m)
               /\ m.op \in {"none", "create"}
               /\ m.op = "create" => m.site = req[r].site /\ m.slug = req[r].slug
               /\ \/ dirs' = dirs \cup {req[r].slug} /\ torn' = torn \ {req[r].slug}
                  \/ m.op = "none" /\ UNCHANGED <<dirs, torn>>
  <2>1. CASE Goes(r, "directory") /\ dirs' = dirs \cup {req[r].slug} /\ torn' = torn \ {req[r].slug}
    <3> DEFINE n == [req[r] EXCEPT !.stage = "directory"]
    <3>1. n \in Request /\ n.op = "create" /\ n.site = req[r].site /\ n.slug = req[r].slug
      BY <1>1, Staged DEF CreateSiteDirectory
    <3>2. Moves(r, n)
      BY <2>1, <3>1 DEF Goes, Becomes, Moves
    <3> HIDE DEF n
    <3>3. QED
      BY <3>1, <3>2, <2>1
  <2>2. CASE Ends(r)
    <3>1. Moves(r, Idle)
      BY <2>2, IdleTyped DEF Ends, Becomes, Moves
    <3>2. QED
      BY <3>1, IdleTyped DEF CreateSiteDirectory
  <2>3. QED
    BY <2>1, <2>2 DEF CreateSiteDirectory
<1>6. NewIsNew'
  BY <1>1, <1>2, <1>3, <1>5, NewKept DEF Live
<1>7. QED
  BY <1>1, <1>2, <1>3, <1>4, <1>5, <1>6, QuietKeeps

\* The row that is inserted has its directory, and nobody else has read it.
LEMMA CreateSiteKeeps ==
    ASSUME IInv, crowded' \in BOOLEAN, NEW r \in Requests,
           NEW v \in Values \ Broken, CreateSite(r, v)
    PROVE  IInv'
<1> USE DEF IInv
<1>1. At(r, "create", "directory") /\ UNCHANGED <<dirs, reload, doubtful, torn>>
  BY DEF CreateSite
<1>2. PICK x, d : x = req[r].site /\ x \in Sites /\ d = req[r].slug /\ d \in Slugs
  BY <1>1, Fields DEF At
<1>3. req[r].op = "create" /\ ~MustReload(r) /\ ~At(r, "delete", "cleared")
  BY <1>1 DEF MustReload, At
<1>4. dirs \subseteq Slugs /\ torn \subseteq Slugs
  BY DEF TypeOK
<1>5. CASE Ends(r) /\ UNCHANGED <<row, settled, current>>
  <2>1. Moves(r, Idle) /\ Idle.op = "none"
    BY <1>5, IdleTyped DEF Ends, Becomes, Moves
  <2>2. NewIsNew'
    BY <2>1, <1>5, NewKept DEF Live
  <2>3. QED
    BY <2>1, <2>2, <1>1, <1>3, <1>4, <1>5, QuietKeeps
<1>6. ASSUME row' = [row EXCEPT ![x] = Default(d, v)],
             settled' = [settled EXCEPT ![x] = Default(d, v).is],
             current' = {}, Finishes(r, "locked")
      PROVE  IInv'
  <2> DEFINE new == Default(d, v)
             m == [op |-> "finish", stage |-> "locked"]
  <2>1. new \in Row /\ new.slug = d /\ new.is \in Settings
    BY <1>2 DEF Default, Row, Settings
  <2>2. Moves(r, m) /\ m.op = "finish"
    BY <1>6, FinishTyped DEF Finishes, Becomes, Moves, Channels
  <2> HIDE DEF new, m
  <2>3. row' = [row EXCEPT ![x] = new] /\ settled' = [settled EXCEPT ![x] = new.is]
    BY <1>6 DEF new
  <2>4. x \notin Live /\ \A q \in Requests \ {r} : ~Refers(q, x)
    BY <1>2, <1>3 DEF NewIsNew
  <2>5. TypeOK'
    BY <2>1, <2>2, <2>3, <1>1, <1>2, <1>6, Moved DEF TypeOK
  <2>6. MustReload(r)'
    BY <2>2, Moved DEF MustReload
  <2>7. Owned' /\ Covered'
    BY <2>2, <2>6, <1>1, <1>3, OwnedKept, CoveredKept
  <2>8. DirectoriesMade'
    BY <2>2, <1>1, DirectoriesKept DEF DirectoriesMade
  <2>9. row'[x] = new /\ settled'[x] = new.is
        /\ \A s \in Sites \ {x} : row'[s] = row[s] /\ settled'[s] = settled[s]
    BY <2>3, <1>2 DEF TypeOK
  <2>10. HousedAt(x)'
    BY <2>1, <2>9, <1>1, <1>2 DEF DirectoriesMade, HousedAt
  <2>11. \A s \in Sites \ {x} : HousedAt(s)'
    BY <2>2, <2>9, <1>1, <1>3, HousedKept DEF Live
  <2>12. NewIsNew'
    <3>1. ASSUME NEW q \in Requests, (req[q].op = "create")'
          PROVE  /\ q # r /\ req[q].op = "create" /\ req'[q] = req[q] /\ req[q].site # x
                 /\ \A p \in Requests \ {q} : ~Refers(p, req[q].site)'
      <4>1. q # r /\ req'[q] = req[q] /\ req[q].op = "create"
        BY <3>1, <2>2, Moved
      <4>2. req[q].site # x
        BY <4>1, <2>4 DEF Refers
      <4>3. QED
        BY <4>1, <4>2, <2>2, Moved DEF NewIsNew, Refers
    <3>2. \A q \in Requests : (req[q].op = "create")' => (req[q].site \notin Live)'
      BY <3>1, <2>9, Fields DEF NewIsNew, Live
    <3>3. QED
      BY <3>1, <3>2 DEF NewIsNew
  <2>13. FollowedAt(x)'
    <3>1. \A q \in Requests : ~About(q, x)'
      BY <2>2, <2>4, Moved DEF About, Refers
    <3>2. QED
      BY <3>1, <2>9 DEF FollowedAt
  <2>14. \A s \in Sites \ {x} : FollowedAt(s)'
    BY <2>2, <2>9, <1>3, FollowedElsewhere DEF About
  <2>15. QED
    BY <2>5, <2>7, <2>8, <2>10, <2>11, <2>12, <2>13, <2>14
<1>7. QED
  BY <1>2, <1>5, <1>6 DEF CreateSite, Touch

LEMMA ReadForDeleteKeeps ==
    ASSUME IInv, crowded' \in BOOLEAN, NEW r \in Requests, NEW s \in Sites,
           ReadForDelete(r, s)
    PROVE  IInv'
<1> DEFINE m == [op |-> "delete", stage |-> "read", site |-> s, slug |-> row[s].slug]
<1>1. TypeOK /\ NewIsNew /\ s \in Live
  BY DEF IInv, ReadForDelete
<1>2. m \in Request
  BY <1>1, LiveRows DEF Request
<1>3. Moves(r, m) /\ req[r].op = "none"
  BY <1>2 DEF ReadForDelete, Begins, Becomes, Moves, Idle
<1>4. UNCHANGED <<row, dirs, current, reload, doubtful, settled, torn>>
  BY DEF ReadForDelete, caddy
<1>5. m.op = "delete" /\ m.site = s
  OBVIOUS
<1> HIDE DEF m
<1>6. NewIsNew'
  BY <1>1, <1>3, <1>4, <1>5, NewKept DEF Live
<1>7. ~MustReload(r) /\ ~At(r, "delete", "cleared") /\ dirs \subseteq Slugs /\ torn \subseteq Slugs
  BY <1>1, <1>3 DEF MustReload, At, TypeOK
<1>8. QED
  BY <1>3, <1>4, <1>5, <1>6, <1>7, QuietKeeps

LEMMA NeededNames ==
    ASSUME TypeOK
    PROVE  /\ \A q \in Requests, S \in SUBSET Live :
                At(q, "create", "directory") => req[q].slug \in Needed(S)
           /\ \A S \in SUBSET Live : \A s \in S : row[s].slug \in Needed(S)
  BY DEF Needed

\* What sites or creations count on is torn when the directory goes; the site that is
\* being deleted is the deletion's own affair.
LEMMA DeleteSiteDirectoryKeeps ==
    ASSUME IInv, crowded' \in BOOLEAN, NEW r \in Requests, DeleteSiteDirectory(r) PROVE IInv'
<1> USE DEF IInv
<1>1. At(r, "delete", "read") /\ UNCHANGED <<row, current, reload, doubtful, settled>>
  BY DEF DeleteSiteDirectory, caddy
<1>2. PICK x, d : x = req[r].site /\ x \in Sites /\ d = req[r].slug /\ d \in Slugs
  BY <1>1, Fields DEF At
<1>3. req[r].op = "delete" /\ ~MustReload(r) /\ ~At(r, "delete", "cleared")
  BY <1>1 DEF MustReload, At
<1>4. dirs \subseteq Slugs /\ torn \subseteq Slugs
  BY DEF TypeOK
<1>5. CASE Ends(r) /\ UNCHANGED <<dirs, torn>>
  <2>1. Moves(r, Idle) /\ Idle.op = "none"
    BY <1>5, IdleTyped DEF Ends, Becomes, Moves
  <2>2. NewIsNew'
    BY <2>1, <1>1, NewKept DEF Live
  <2>3. QED
    BY <2>1, <2>2, <1>1, <1>3, <1>4, <1>5, QuietKeeps
<1>6. ASSUME NEW m, Moves(r, m), dirs' = dirs \ {d},
             \/ /\ m.op = "delete" /\ m.stage = "cleared" /\ m.site = x /\ m.slug = d
                /\ m # Idle
                /\ torn' = torn \cup ({d} \cap Needed(Live \ {x}))
             \/ m.op = "none" /\ torn' = torn \cup ({d} \cap Needed(Live))
      PROVE  IInv'
  <2>1. TypeOK'
    BY <1>1, <1>2, <1>6, Moved DEF TypeOK
  <2>2. Owned' /\ Covered'
    BY <1>1, <1>3, <1>6, OwnedKept, CoveredKept
  <2>3. DirectoriesMade'
    <3>1. ASSUME NEW q \in Requests \ {r}, At(q, "create", "directory")
          PROVE  req[q].slug \in dirs' \cup torn'
      BY <3>1, <1>6, NeededNames DEF DirectoriesMade
    <3>2. QED
      BY <3>1, <1>6, DirectoriesKept
  <2>4. ASSUME NEW s \in Sites, s \in Live
        PROVE  \/ row[s].slug \in dirs' \cup torn'
               \/ \E q \in Requests : (Cleared(q, s))'
    <3>1. CASE row[s].slug = d /\ s = x /\ m.op = "delete"
      <4>1. (Cleared(r, s))'
        BY <3>1, <1>1, <1>2, <1>6, Moved DEF Cleared, At, Idle
      <4>2. QED
        BY <4>1
    <3>2. CASE row[s].slug = d /\ ~(s = x /\ m.op = "delete")
      BY <3>2, <2>4, <1>6, NeededNames
    <3>3. CASE row[s].slug # d /\ row[s].slug \in dirs \cup torn
      BY <3>3, <1>6
    <3>4. ASSUME NEW q \in Requests, Cleared(q, s) PROVE (Cleared(q, s))'
      <4>1. q # r
        BY <3>4, <1>3 DEF Cleared
      <4>2. QED
        BY <3>4, <4>1, <1>1, <1>6, Moved DEF Cleared, At
    <3>5. QED
      BY <3>1, <3>2, <3>3, <3>4, <2>4 DEF HousedAt
  <2>5. \A s \in Sites : HousedAt(s)'
    BY <2>4, <1>1 DEF HousedAt, Live
  <2>6. NewIsNew'
    BY <1>1, <1>2, <1>3, <1>6, NewKept DEF Live, Refers
  <2>7. \A s \in Sites : FollowedAt(s)'
    BY <1>1, <1>3, <1>6, FollowedKept
  <2>8. QED
    BY <2>1, <2>2, <2>3, <2>5, <2>6, <2>7
<1>7. CASE dirs' = dirs \ {d} /\ Goes(r, "cleared")
           /\ torn' = torn \cup ({d} \cap NeededByOthers(x))
  <2> DEFINE m == [req[r] EXCEPT !.stage = "cleared"]
  <2>1. m \in Request /\ m.op = "delete" /\ m.stage = "cleared" /\ m.site = x /\ m.slug = d
    BY <1>1, <1>2, Staged
  <2>2. Moves(r, m)
    BY <2>1, <1>7 DEF Goes, Becomes, Moves
  <2> HIDE DEF m
  <2>3. m # Idle
    BY <2>1, IdleTyped
  <2>4. QED
    BY <2>1, <2>2, <2>3, <1>6, <1>7 DEF NeededByOthers
<1>8. CASE dirs' = dirs \ {d} /\ Ends(r) /\ torn' = torn \cup ({d} \cap Needed(Live))
  <2>1. Moves(r, Idle) /\ Idle.op = "none"
    BY <1>8, IdleTyped DEF Ends, Becomes, Moves
  <2>2. QED
    BY <2>1, <1>6, <1>8
<1>9. QED
  BY <1>2, <1>5, <1>7, <1>8 DEF DeleteSiteDirectory

LEMMA DeleteSiteKeeps ==
    ASSUME IInv, crowded' \in BOOLEAN, NEW r \in Requests, DeleteSite(r) PROVE IInv'
<1> USE DEF IInv
<1>1. At(r, "delete", "cleared") /\ UNCHANGED <<dirs, reload, doubtful>>
  BY DEF DeleteSite
<1>2. PICK x, d : x = req[r].site /\ x \in Sites /\ d = req[r].slug /\ d \in Slugs
  BY <1>1, Fields DEF At
<1>3. req[r].op = "delete" /\ ~MustReload(r)
  BY <1>1 DEF MustReload, At
<1>4. ASSUME row' = [row EXCEPT ![x] = NoRow], settled' = [settled EXCEPT ![x] = Nothing],
             current' \in {{}, current}, Finishes(r, "locked"),
             torn' = torn \cap Needed(Live \ {x})
      PROVE  IInv'
  <2> DEFINE m == [op |-> "finish", stage |-> "locked"]
  <2>1. Moves(r, m) /\ m.op = "finish"
    BY <1>4, FinishTyped DEF Finishes, Becomes, Moves, Channels
  <2> HIDE DEF m
  <2>2. TypeOK'
    BY <2>1, <1>1, <1>2, <1>4, Moved DEF TypeOK
  <2>3. MustReload(r)'
    BY <2>1, Moved DEF MustReload
  <2>4. Owned' /\ Covered'
    BY <2>1, <2>3, <1>1, <1>3, OwnedKept, CoveredKept
  <2>5. DirectoriesMade'
    <3>1. ASSUME NEW q \in Requests \ {r}, At(q, "create", "directory")
          PROVE  req[q].slug \in dirs' \cup torn'
      BY <3>1, <1>1, <1>4, NeededNames DEF DirectoriesMade
    <3>2. QED
      BY <3>1, <2>1, DirectoriesKept
  <2>6. row'[x] = NoRow /\ settled'[x] = Nothing
        /\ \A s \in Sites \ {x} : row'[s] = row[s] /\ settled'[s] = settled[s]
    BY <1>2, <1>4 DEF TypeOK
  <2>7. HousedAt(x)' /\ FollowedAt(x)'
    BY <2>6 DEF HousedAt, FollowedAt, Live
  <2>8. ASSUME NEW s \in Sites \ {x} PROVE HousedAt(s)'
    <3>1. \A q \in Requests : Cleared(q, s) => (Cleared(q, s))'
      BY <2>1, <2>6, <2>8, <1>2, Moved DEF Cleared, At
    <3>2. s \in Live /\ row[s].slug \in torn => row[s].slug \in torn'
      BY <2>8, <1>4, NeededNames
    <3>3. QED
      BY <3>1, <3>2, <2>6, <2>8, <1>1 DEF HousedAt, Live
  <2>9. NewIsNew'
    BY <2>1, <2>6, NewKept DEF Live
  <2>10. \A s \in Sites \ {x} : FollowedAt(s)'
    BY <2>1, <2>6, <1>3, FollowedElsewhere DEF About
  <2>11. QED
    BY <2>2, <2>4, <2>5, <2>7, <2>8, <2>9, <2>10
<1>5. ASSUME Ends(r), UNCHANGED <<row, current, settled>>,
             torn' = torn \cup (({d} \cap Needed(Live)) \ dirs)
      PROVE  IInv'
  <2>1. Moves(r, Idle) /\ Idle.op = "none"
    BY <1>5, IdleTyped DEF Ends, Becomes, Moves
  <2>2. TypeOK'
    BY <2>1, <1>1, <1>2, <1>5, Moved DEF TypeOK
  <2>3. Owned' /\ Covered'
    BY <2>1, <1>1, <1>3, <1>5, OwnedKept, CoveredKept
  <2>4. DirectoriesMade'
    BY <2>1, <1>1, <1>5, DirectoriesKept DEF DirectoriesMade
  <2>5. ASSUME NEW s \in Sites PROVE HousedAt(s)'
    <3>1. \A q \in Requests \ {r} : Cleared(q, s) => (Cleared(q, s))'
      BY <2>1, <1>5, Moved DEF Cleared, At
    <3>2. s \in Live /\ Cleared(r, s) => row[s].slug \in dirs' \cup torn'
      BY <1>1, <1>2, <1>5, NeededNames DEF Cleared
    <3>3. QED
      BY <3>1, <3>2, <1>1, <1>5 DEF HousedAt, Live
  <2>6. NewIsNew'
    BY <2>1, <1>5, NewKept DEF Live
  <2>7. \A s \in Sites : FollowedAt(s)'
    BY <2>1, <1>3, <1>5, FollowedKept
  <2>8. QED
    BY <2>2, <2>3, <2>4, <2>5, <2>6, <2>7
<1>6. QED
  BY <1>2, <1>4, <1>5 DEF DeleteSite, Touch, NeededByOthers
-----------------------------------------------------------------------------
(***************************************************************************)
(* Settings: UpdateSettings, and the HTTPS that List switches on.          *)
(***************************************************************************)
\* A request that has read the settings of a site knows them, or has met another one.
LEMMA ReadSettingsKeeps ==
    ASSUME IInv, crowded' \in BOOLEAN, NEW r \in Requests, NEW s \in Live, NEW m, m \in Request,
           m.op \in {"update", "list"}, m.site = s, m.old = row[s].is, m.stage = "read",
           ReadSettings(r, s, m)
    PROVE  IInv'
<1> USE DEF IInv
<1>1. Moves(r, m) /\ req[r].op = "none" /\ UNCHANGED <<row, dirs, current, reload, doubtful, torn>>
  BY DEF ReadSettings, Begins, Becomes, Moves, Idle, caddy
<1>2. s \in Sites
  BY DEF Live
<1>3. settled' = IF Meets(r, s) THEN [settled EXCEPT ![s] = Nothing] ELSE settled
  BY DEF ReadSettings
<1>4. ~MustReload(r) /\ ~At(r, "delete", "cleared")
  BY <1>1 DEF MustReload, At
<1>5. TypeOK'
  BY <1>1, <1>2, <1>3, Moved DEF TypeOK
<1>6. Owned' /\ Covered'
  BY <1>1, <1>4, OwnedKept, CoveredKept
<1>7. DirectoriesMade'
  BY <1>1, DirectoriesKept DEF DirectoriesMade
<1>8. \A t \in Sites : HousedAt(t)'
  BY <1>1, <1>4, HousedKept DEF Live
<1>9. NewIsNew'
  BY <1>1, NewKept DEF Live
<1>10. \A t \in Sites \ {s} : FollowedAt(t)'
  <2>1. \A t \in Sites \ {s} : settled'[t] = settled[t]
    BY <1>2, <1>3 DEF TypeOK
  <2>2. QED
    BY <2>1, <1>1, FollowedElsewhere DEF About
<1>11. FollowedAt(s)'
  <2>1. CASE Meets(r, s)
    BY <2>1, <1>2, <1>3 DEF FollowedAt, TypeOK
  <2>2. CASE ~Meets(r, s)
    <3>1. \A q \in Requests : ~About(q, s)
      BY <2>2, <1>1 DEF Meets, About
    <3>2. settled[s] # Nothing => settled[s] = row[s].is
      BY <3>1, <1>2 DEF FollowedAt
    <3>3. (About(r, s))' /\ \A q \in Requests \ {r} : ~(About(q, s))'
      BY <3>1, <1>1, Moved DEF About
    <3>4. settled[s] # Nothing => (Knows(r, s))'
      BY <3>2, <2>2, <1>1, <1>3, Moved DEF Knows
    <3>5. QED
      BY <3>3, <3>4, <2>2, <1>3 DEF FollowedAt
  <2>3. QED
    BY <2>1, <2>2
<1>12. QED
  BY <1>5, <1>6, <1>7, <1>8, <1>9, <1>10, <1>11

LEMMA ReadForUpdateKeeps ==
    ASSUME IInv, crowded' \in BOOLEAN, NEW r \in Requests, NEW s \in Sites,
           NEW new \in [https : Asked, rest : Values],
           ReadForUpdate(r, s, new)
    PROVE  IInv'
<1> DEFINE m == [op |-> "update", stage |-> "read", site |-> s, old |-> row[s].is, new |-> new]
<1>1. s \in Live /\ ReadSettings(r, s, m)
  BY DEF ReadForUpdate, ReadSettings
<1>2. row[s].is \in Settings /\ new \in Settings
  BY <1>1, LiveRows, ConstantsAssumption DEF IInv, Settings
<1>3. m \in Request
  BY <1>2 DEF Request
<1>4. m.op = "update" /\ m.site = s /\ m.old = row[s].is /\ m.stage = "read"
  OBVIOUS
<1> HIDE DEF m
<1>5. QED
  BY <1>1, <1>3, <1>4, ReadSettingsKeeps

LEMMA ReadForListKeeps ==
    ASSUME IInv, crowded' \in BOOLEAN, NEW r \in Requests, NEW s \in Sites,
           ReadForList(r, s)
    PROVE  IInv'
<1> DEFINE m == [op |-> "list", stage |-> "read", site |-> s, old |-> row[s].is]
<1>1. s \in Live /\ ReadSettings(r, s, m)
  BY DEF ReadForList
<1>2. row[s].is \in Settings
  BY <1>1, LiveRows DEF IInv
<1>3. m \in Request
  BY <1>2 DEF Request
<1>4. m.op = "list" /\ m.site = s /\ m.old = row[s].is /\ m.stage = "read"
  OBVIOUS
<1> HIDE DEF m
<1>5. QED
  BY <1>1, <1>3, <1>4, ReadSettingsKeeps

LEMMA WithSettings ==
    ASSUME NEW old \in Row, NEW is \in Settings
    PROVE  LET w == [old EXCEPT !.is = is] IN w \in Row /\ w.slug = old.slug /\ w.is = is
  BY DEF Row

\* A request that has written the settings of its site still has Caddy reloaded.
LEMMA SettingsWritten ==
    ASSUME IInv, crowded' \in BOOLEAN, NEW r \in Requests, NEW m, Moves(r, m),
           NEW x \in Live, NEW is \in Settings,
           About(r, x), ~MustReload(r), MustReload(r)',
           m.op \in {"update", "finish"}, m.op = "update" => m.site = x,
           SetSettings(x, is), UNCHANGED <<dirs, torn, reload, doubtful>>,
           settled' \in [Sites -> Settings \cup {Nothing}],
           \A s \in Sites \ {x} : settled'[s] = settled[s],
           FollowedAt(x)'
    PROVE  IInv'
<1> USE DEF IInv
<1>1. x \in Sites /\ row[x] \in Row /\ row[x] # NoRow
  BY LiveRows DEF Live
<1>2. PICK w : w = [row[x] EXCEPT !.is = is] /\ w \in Row /\ w.slug = row[x].slug
  BY <1>1, WithSettings
<1>3. row' = [row EXCEPT ![x] = w] /\ w # NoRow
  BY <1>2, RowsAreRows DEF SetSettings
<1>4. row'[x] = w /\ \A s \in Sites \ {x} : row'[s] = row[s]
  BY <1>1, <1>3 DEF TypeOK
<1>5. Live' = Live
  BY <1>1, <1>3, <1>4 DEF Live
<1>6. TypeOK'
  <2>1. current' \subseteq current
    BY DEF SetSettings, Touch
  <2>2. QED
    BY <2>1, <1>2, <1>3, <1>1, Moved DEF TypeOK
<1>7. Owned' /\ Covered'
  BY OwnedKept, CoveredKept
<1>8. req[r].op \in {"update", "list"} /\ req[r].site = x /\ ~At(r, "delete", "cleared")
  BY DEF About, At
<1>9. DirectoriesMade'
  BY DirectoriesKept DEF DirectoriesMade
<1>10. \A s \in Sites : HousedAt(s)'
  BY <1>2, <1>4, <1>5, <1>8, HousedKept
<1>11. NewIsNew'
  BY <1>5, NewKept
<1>12. \A s \in Sites \ {x} : FollowedAt(s)'
  BY <1>4, <1>8, FollowedElsewhere DEF About
<1>13. QED
  BY <1>6, <1>7, <1>9, <1>10, <1>11, <1>12

\* The end of a request that could not write.
LEMMA FailsKeeps ==
    ASSUME IInv, crowded' \in BOOLEAN, NEW r \in Requests, Fails(r), req[r].stage = "read",
           req[r].op \in {"update", "list"}, UNCHANGED <<dirs, reload, doubtful, settled, torn>>
    PROVE  IInv'
<1>1. TypeOK /\ NewIsNew /\ dirs \subseteq Slugs /\ torn \subseteq Slugs
  BY DEF IInv, TypeOK
<1>2. Moves(r, Idle) /\ Idle.op = "none" /\ UNCHANGED <<row, current>>
  BY IdleTyped DEF Fails, Ends, Becomes, Moves
<1>3. ~MustReload(r) /\ ~At(r, "delete", "cleared")
  BY DEF MustReload, At
<1>4. NewIsNew'
  BY <1>1, <1>2, NewKept DEF Live
<1>5. QED
  BY <1>1, <1>2, <1>3, <1>4, QuietKeeps

LEMMA SettingsOf ==
    ASSUME TypeOK, NEW x \in Live, NEW is \in Settings, SetSettings(x, is)
    PROVE  row'[x].is = is /\ (x \in Live)'
<1>1. x \in Sites /\ row[x] \in Row
  BY LiveRows
<1>2. PICK w : w = [row[x] EXCEPT !.is = is] /\ w \in Row /\ w.is = is
  BY <1>1, WithSettings
<1>3. row' = [row EXCEPT ![x] = w]
  BY <1>2 DEF SetSettings
<1>4. QED
  BY <1>1, <1>2, <1>3, RowsAreRows DEF Live, TypeOK

LEMMA WriteSettingsKeeps ==
    ASSUME IInv, crowded' \in BOOLEAN, NEW r \in Requests, WriteSettings(r) PROVE IInv'
<1>1. TypeOK /\ At(r, "update", "read") /\ UNCHANGED <<dirs, reload, doubtful, settled, torn>>
  BY DEF IInv, WriteSettings
<1>2. PICK x, is, old : /\ x = req[r].site /\ x \in Sites
                        /\ is = req[r].new /\ is \in Settings
                        /\ old = req[r].old /\ old \in Settings
  BY <1>1, Fields DEF At
<1>3. CASE Fails(r)
  BY <1>1, <1>3, FailsKeeps DEF At
<1>4. ASSUME SetSettings(x, is),
             Becomes(r, [op |-> "update", stage |-> "reload", site |-> x, old |-> old])
      PROVE  IInv'
  <2> DEFINE m == [op |-> "update", stage |-> "reload", site |-> x, old |-> old]
  <2>1. m \in Request
    BY <1>2 DEF Request
  <2>2. Moves(r, m) /\ m.op = "update" /\ m.stage = "reload" /\ m.site = x /\ m.old = old
        /\ m # Idle
    BY <2>1, <1>4 DEF Becomes, Moves, Idle
  <2> HIDE DEF m
  <2>3. x \in Live /\ About(r, x) /\ ~MustReload(r)
    BY <1>1, <1>2, <1>4 DEF SetSettings, About, MustReload, At
  <2>4. MustReload(r)'
    BY <2>2, <1>1, Moved DEF MustReload, At
  <2>5. settled[x] # Nothing => /\ old = settled[x]
                                /\ \A q \in Requests \ {r} : ~About(q, x)
    BY <2>3, <1>2 DEF IInv, FollowedAt, Knows
  <2>6. FollowedAt(x)'
    <3>1. (About(r, x))'
      BY <2>2, <1>1, Moved DEF About
    <3>2. settled[x] # Nothing => (Knows(r, x))'
      BY <2>2, <2>5, <1>1, Moved DEF Knows
    <3>3. settled[x] # Nothing => \A q \in Requests \ {r} : ~(About(q, x))'
      BY <2>2, <2>5, <1>1, Moved DEF About
    <3>4. QED
      BY <3>1, <3>2, <3>3, <1>1 DEF FollowedAt
  <2>7. settled' \in [Sites -> Settings \cup {Nothing}]
    BY <1>1 DEF TypeOK
  <2>8. QED
    BY <2>2, <2>3, <2>4, <2>6, <2>7, <1>1, <1>2, <1>4, SettingsWritten
<1>5. QED
  BY <1>2, <1>3, <1>4 DEF WriteSettings

\* The row gets back what the request has read, which is what was settled; when it cannot,
\* nothing is settled any more.
LEMMA RollBackKeeps ==
    ASSUME IInv, crowded' \in BOOLEAN, NEW r \in Requests, RollBack(r) PROVE IInv'
<1>1. TypeOK /\ At(r, "update", "failed") /\ UNCHANGED <<dirs, reload, doubtful, torn>>
  BY DEF IInv, RollBack
<1>2. PICK x, old : /\ x = req[r].site /\ x \in Sites
                    /\ old = req[r].old /\ old \in Settings
  BY <1>1, Fields DEF At
<1>3. About(r, x) /\ ~MustReload(r) /\ ~At(r, "delete", "cleared")
  BY <1>1, <1>2 DEF About, MustReload, At
<1>4. ASSUME Fails(r), settled' = [settled EXCEPT ![x] = Nothing]
      PROVE  IInv'
  <2> USE DEF IInv
  <2>1. Moves(r, Idle) /\ Idle.op = "none" /\ UNCHANGED <<row, current>>
    BY <1>4, IdleTyped DEF Fails, Ends, Becomes, Moves
  <2>2. TypeOK'
    BY <2>1, <1>1, <1>2, <1>4, Moved DEF TypeOK
  <2>3. Owned' /\ Covered'
    BY <2>1, <1>1, <1>3, OwnedKept, CoveredKept
  <2>4. DirectoriesMade'
    BY <2>1, <1>1, DirectoriesKept DEF DirectoriesMade
  <2>5. \A s \in Sites : HousedAt(s)'
    BY <2>1, <1>1, <1>3, HousedKept DEF Live
  <2>6. NewIsNew'
    BY <2>1, NewKept DEF Live
  <2>7. settled'[x] = Nothing /\ \A s \in Sites \ {x} : settled'[s] = settled[s]
    BY <1>1, <1>2, <1>4 DEF TypeOK
  <2>8. FollowedAt(x)'
    BY <2>7 DEF FollowedAt
  <2>9. \A s \in Sites \ {x} : FollowedAt(s)'
    BY <2>1, <2>7, <1>3, FollowedElsewhere DEF About
  <2>10. QED
    BY <2>2, <2>3, <2>4, <2>5, <2>6, <2>8, <2>9
<1>5. ASSUME SetSettings(x, old), Finishes(r, "locked"), UNCHANGED settled
      PROVE  IInv'
  <2> DEFINE m == [op |-> "finish", stage |-> "locked"]
  <2>1. Moves(r, m) /\ m.op = "finish"
    BY <1>5, FinishTyped DEF Finishes, Becomes, Moves, Channels
  <2> HIDE DEF m
  <2>2. x \in Live /\ MustReload(r)'
    BY <2>1, <1>1, <1>5, Moved DEF SetSettings, MustReload
  <2>3. settled[x] # Nothing => /\ old = settled[x]
                                /\ \A q \in Requests \ {r} : ~About(q, x)
    BY <2>2, <1>2, <1>3 DEF IInv, FollowedAt, Knows
  <2>4. FollowedAt(x)'
    <3>1. settled[x] # Nothing => \A q \in Requests : ~(About(q, x))'
      BY <2>1, <2>3, <1>1, Moved DEF About
    <3>2. row'[x].is = old
      BY <2>2, <1>1, <1>2, <1>5, SettingsOf
    <3>3. QED
      BY <3>1, <3>2, <2>3, <1>5 DEF FollowedAt
  <2>5. settled' \in [Sites -> Settings \cup {Nothing}]
    BY <1>1, <1>5 DEF TypeOK
  <2>6. QED
    BY <2>1, <2>2, <2>4, <2>5, <1>1, <1>2, <1>3, <1>5, SettingsWritten
<1>6. QED
  BY <1>2, <1>4, <1>5 DEF RollBack

LEMMA EnableHTTPSKeeps ==
    ASSUME IInv, crowded' \in BOOLEAN, NEW r \in Requests, EnableHTTPS(r) PROVE IInv'
<1>1. TypeOK /\ At(r, "list", "read") /\ UNCHANGED <<dirs, reload, doubtful, torn>>
  BY DEF IInv, EnableHTTPS
<1>2. PICK x, old : /\ x = req[r].site /\ x \in Sites
                    /\ old = req[r].old /\ old \in Settings
  BY <1>1, Fields DEF At
<1>3. About(r, x) /\ ~MustReload(r) /\ ~At(r, "delete", "cleared")
  BY <1>1, <1>2 DEF About, MustReload, At
<1>4. CASE Fails(r) /\ UNCHANGED settled
  BY <1>1, <1>4, FailsKeeps DEF At
<1>5. ASSUME SetSettings(x, [old EXCEPT !.https = TRUE]), Finishes(r, "locked"),
             settled' = IF settled[x] = Nothing THEN settled
                        ELSE [settled EXCEPT ![x].https = TRUE]
      PROVE  IInv'
  <2> DEFINE m == [op |-> "finish", stage |-> "locked"]
  <2>1. Moves(r, m) /\ m.op = "finish"
    BY <1>5, FinishTyped DEF Finishes, Becomes, Moves, Channels
  <2> HIDE DEF m
  <2>2. x \in Live /\ MustReload(r)'
    BY <2>1, <1>1, <1>5, Moved DEF SetSettings, MustReload
  <2>3. PICK is : is = [old EXCEPT !.https = TRUE] /\ is \in Settings
    <3>1. [old EXCEPT !.https = TRUE] \in Settings
      BY <1>2 DEF Settings
    <3>2. QED
      BY <3>1
  <2>4. settled[x] # Nothing => /\ old = settled[x]
                                /\ \A q \in Requests \ {r} : ~About(q, x)
    BY <2>2, <1>2, <1>3 DEF IInv, FollowedAt, Knows
  <2>5. settled' = IF settled[x] = Nothing THEN settled ELSE [settled EXCEPT ![x] = is]
    BY <2>3, <2>4, <1>5
  <2>6. /\ settled' \in [Sites -> Settings \cup {Nothing}]
        /\ \A s \in Sites \ {x} : settled'[s] = settled[s]
        /\ settled[x] = Nothing => settled'[x] = Nothing
        /\ settled[x] # Nothing => settled'[x] = is
    BY <2>3, <2>5, <1>1, <1>2 DEF TypeOK
  <2>7. FollowedAt(x)'
    <3>1. settled[x] # Nothing => \A q \in Requests : ~(About(q, x))'
      BY <2>1, <2>4, <1>1, Moved DEF About
    <3>2. row'[x].is = is
      BY <2>2, <2>3, <1>1, <1>5, SettingsOf
    <3>3. QED
      BY <3>1, <3>2, <2>6 DEF FollowedAt
  <2>8. QED
    BY <2>1, <2>2, <2>3, <2>6, <2>7, <1>1, <1>2, <1>3, <1>5, SettingsWritten
<1>6. QED
  BY <1>2, <1>4, <1>5 DEF EnableHTTPS
-----------------------------------------------------------------------------
(***************************************************************************)
(* Other requests.                                                         *)
(***************************************************************************)
LEMMA WriteAndFinishKeeps ==
    ASSUME IInv, crowded' \in BOOLEAN, NEW r \in Requests, NEW ch \in Channels,
           NEW changed \in BOOLEAN,
           WriteAndFinish(r, ch, changed)
    PROVE  IInv'
<1> DEFINE m == [op |-> "finish", stage |-> ch]
<1>1. TypeOK /\ NewIsNew /\ dirs \subseteq Slugs /\ torn \subseteq Slugs
  BY DEF IInv, TypeOK
<1>2. Moves(r, m) /\ m.op = "finish" /\ req[r].op = "none"
  BY FinishTyped DEF WriteAndFinish, Finishes, Becomes, Moves, Idle
<1> HIDE DEF m
<1>3. UNCHANGED <<row, dirs, reload, doubtful, settled, torn>> /\ current' \subseteq current
  BY DEF WriteAndFinish, Touch
<1>4. ~MustReload(r) /\ ~At(r, "delete", "cleared")
  BY <1>2 DEF MustReload, At
<1>5. MustReload(r)'
  BY <1>1, <1>2, Moved DEF MustReload
<1>6. NewIsNew'
  BY <1>1, <1>2, <1>3, NewKept DEF Live
<1>7. QED
  BY <1>1, <1>2, <1>3, <1>4, <1>5, <1>6, QuietKeeps

LEMMA DeleteUserKeeps ==
    ASSUME IInv, crowded' \in BOOLEAN, NEW r \in Requests, DeleteUser(r) PROVE IInv'
<1> DEFINE m == [op |-> "deluser", stage |-> "reload"]
<1>1. TypeOK /\ NewIsNew /\ dirs \subseteq Slugs /\ torn \subseteq Slugs
  BY DEF IInv, TypeOK
<1>2. Moves(r, m) /\ m.op = "deluser" /\ req[r].op = "none"
  BY DEF DeleteUser, Begins, Becomes, Moves, Idle, Request
<1> HIDE DEF m
<1>3. UNCHANGED <<row, dirs, current, reload, doubtful, settled, torn>>
  BY DEF DeleteUser, caddy
<1>4. ~MustReload(r) /\ ~At(r, "delete", "cleared")
  BY <1>2 DEF MustReload, At
<1>5. NewIsNew'
  BY <1>1, <1>2, <1>3, NewKept DEF Live
<1>6. QED
  BY <1>1, <1>2, <1>3, <1>4, <1>5, QuietKeeps

LEMMA DeleteUserRowsKeeps ==
    ASSUME IInv, crowded' \in BOOLEAN, NEW r \in Requests, DeleteUserRows(r) PROVE IInv'
<1> USE DEF IInv
<1>1. At(r, "deluser", "rows") /\ UNCHANGED <<row, dirs, reload, settled, torn>>
  BY DEF DeleteUserRows
<1>2. Moves(r, Idle) /\ Idle.op = "none"
  BY IdleTyped DEF DeleteUserRows, Ends, Becomes, Moves
<1>3. req[r].op = "deluser" /\ ~MustReload(r) /\ ~At(r, "delete", "cleared")
  BY <1>1 DEF MustReload, At
<1>4. \/ current' = {} /\ doubtful' = TRUE
      \/ UNCHANGED <<current, doubtful>>
  BY DEF DeleteUserRows, Touch
<1>5. TypeOK'
  BY <1>1, <1>2, <1>4, Moved DEF TypeOK
<1>6. Owned'
  BY <1>1, <1>2, <1>3, OwnedKept
<1>7. Covered'
  <2>1. CASE doubtful' = TRUE
    BY <2>1 DEF Covered
  <2>2. CASE UNCHANGED <<current, doubtful>>
    BY <2>2, <1>1, <1>2, <1>3, CoveredKept
  <2>3. QED
    BY <2>1, <2>2, <1>4
<1>8. DirectoriesMade'
  BY <1>1, <1>2, DirectoriesKept DEF DirectoriesMade
<1>9. \A s \in Sites : HousedAt(s)'
  BY <1>1, <1>2, <1>3, HousedKept DEF Live
<1>10. NewIsNew'
  BY <1>1, <1>2, NewKept DEF Live
<1>11. \A s \in Sites : FollowedAt(s)'
  BY <1>1, <1>2, <1>3, FollowedKept
<1>12. QED
  BY <1>5, <1>6, <1>7, <1>8, <1>9, <1>10, <1>11
-----------------------------------------------------------------------------
(***************************************************************************)
(* The reload.                                                             *)
(***************************************************************************)
\* What a request becomes when it hears of its reload: it ends, unless an update has to
\* be rolled back, or a user's rows are still to be deleted.
LEMMA AfterIs ==
    ASSUME TypeOK, NEW r \in Requests, MustReload(r), NEW ok \in BOOLEAN, NEW heard \in BOOLEAN,
           Resume(r, ok, heard)
    PROVE  \E m : /\ Moves(r, m)
                  /\ m.op \in {"none", "deluser", "update"}
                  /\ m.op = "deluser" => m.stage = "rows"
                  /\ m.op = "update" => /\ At(r, "update", "reload") /\ ~ok
                                        /\ m.stage = "failed"
                                        /\ m.site = req[r].site /\ m.old = req[r].old
                  /\ At(r, "update", "reload") /\ ~ok => m.op = "update"
<1>1. CASE At(r, "update", "reload") /\ ~ok
  <2> DEFINE m == [req[r] EXCEPT !.stage = "failed"]
  <2>1. /\ m \in Request /\ m.op = "update" /\ m.stage = "failed"
        /\ m.site = req[r].site /\ m.old = req[r].old
    BY <1>1, Staged
  <2>2. ~At(r, "deluser", "reload")
    BY <1>1 DEF At
  <2>3. After(r, ok, heard) = m
    BY <1>1, <2>2 DEF After
  <2>4. Moves(r, m)
    BY <2>1, <2>3 DEF Resume, Becomes, Moves
  <2> HIDE DEF m
  <2>5. QED
    BY <2>1, <2>4, <1>1
<1>2. CASE At(r, "deluser", "reload") /\ heard
  <2> DEFINE m == [req[r] EXCEPT !.stage = "rows"]
  <2>1. m \in Request /\ m.op = "deluser" /\ m.stage = "rows"
    BY <1>2, Staged
  <2>2. ~At(r, "update", "reload")
    BY <1>2 DEF At
  <2>3. After(r, ok, heard) = m
    BY <1>2, <2>2 DEF After
  <2>4. Moves(r, m)
    BY <2>1, <2>3 DEF Resume, Becomes, Moves
  <2> HIDE DEF m
  <2>5. QED
    BY <2>1, <2>2, <2>4
<1>3. CASE ~(At(r, "update", "reload") /\ ~ok) /\ ~(At(r, "deluser", "reload") /\ heard)
  <2>1. After(r, ok, heard) = Idle
    BY <1>3 DEF After
  <2>2. Moves(r, Idle) /\ Idle.op = "none"
    BY <2>1, IdleTyped DEF Resume, Becomes, Moves
  <2>3. QED
    BY <2>2, <1>3
<1>4. QED
  BY <1>1, <1>2, <1>3

\* A request that hears of its reload: what it settles, and that it leaves the rest alone.
LEMMA ResumeKeeps ==
    ASSUME IInv, NEW r \in Requests, MustReload(r), NEW ok \in BOOLEAN, NEW heard \in BOOLEAN,
           Resume(r, ok, heard), UNCHANGED <<row, dirs, torn>>
    PROVE  /\ req' \in [Requests -> Request]
           /\ settled' \in [Sites -> Settings \cup {Nothing}]
           /\ \A q \in Requests \ {r} : req'[q] = req[q]
           /\ DirectoriesMade'
           /\ \A s \in Sites : HousedAt(s)'
           /\ NewIsNew'
           /\ \A s \in Sites : FollowedAt(s)'
<1> USE DEF IInv
<1>1. PICK m : /\ Moves(r, m)
               /\ m.op \in {"none", "deluser", "update"}
               /\ m.op = "deluser" => m.stage = "rows"
               /\ m.op = "update" => /\ At(r, "update", "reload") /\ ~ok
                                     /\ m.stage = "failed"
                                     /\ m.site = req[r].site /\ m.old = req[r].old
               /\ At(r, "update", "reload") /\ ~ok => m.op = "update"
  BY AfterIs
<1>2. req[r].op \in {"finish", "update", "deluser"} /\ ~At(r, "delete", "cleared")
      /\ (req[r].op = "update" => At(r, "update", "reload"))
  BY DEF MustReload, At
<1>3. DirectoriesMade'
  BY <1>1, DirectoriesKept DEF DirectoriesMade
<1>4. \A s \in Sites : HousedAt(s)'
  BY <1>1, <1>2, HousedKept DEF Live
<1>5. NewIsNew'
  BY <1>1, NewKept DEF Live, Refers, At
<1>6. PICK x : x = req[r].site
  OBVIOUS
<1>7. CASE ok /\ At(r, "update", "reload") /\ x \in Live
  <2>1. settled' = [settled EXCEPT ![x] = IF Meets(r, x) THEN Nothing ELSE row[x].is]
    BY <1>6, <1>7 DEF Resume
  <2>2. x \in Sites /\ row[x].is \in Settings
    BY <1>7, LiveRows
  <2>3. settled' \in [Sites -> Settings \cup {Nothing}]
        /\ settled'[x] = (IF Meets(r, x) THEN Nothing ELSE row[x].is)
        /\ \A s \in Sites \ {x} : settled'[s] = settled[s]
    BY <2>1, <2>2 DEF TypeOK
  <2>4. m.op # "update"
    BY <1>1, <1>7
  <2>5. FollowedAt(x)'
    <3>1. CASE Meets(r, x)
      BY <3>1, <2>3 DEF FollowedAt
    <3>2. CASE ~Meets(r, x)
      <4>1. \A q \in Requests : ~(About(q, x))'
        BY <3>2, <2>4, <1>1, Moved DEF Meets, About
      <4>2. QED
        BY <4>1, <3>2, <2>3 DEF FollowedAt
    <3>3. QED
      BY <3>1, <3>2
  <2>6. \A s \in Sites \ {x} : FollowedAt(s)'
    BY <2>3, <2>4, <1>1, <1>6, FollowedElsewhere DEF About
  <2>7. QED
    BY <2>3, <2>5, <2>6, <1>1, <1>3, <1>4, <1>5, Moved
<1>8. CASE ~(ok /\ At(r, "update", "reload") /\ x \in Live)
  <2>1. settled' = settled
    BY <1>6, <1>8 DEF Resume
  <2>2. ASSUME NEW s \in Sites PROVE FollowedAt(s)'
    <3>1. CASE ~About(r, s)
      <4>1. ~(m.op \in {"update", "list"} /\ m.site = s)
        BY <3>1, <1>1 DEF About, At
      <4>2. QED
        BY <3>1, <4>1, <2>1, <1>1, FollowedElsewhere
    <3>2. CASE About(r, s) /\ s \notin Live
      BY <3>2 DEF FollowedAt, Live
    <3>3. CASE About(r, s) /\ s \in Live
      <4>1. At(r, "update", "reload") /\ ~ok /\ s = x
        BY <3>3, <1>2, <1>6, <1>8 DEF About
      <4>2. m.op = "update" /\ m.stage = "failed" /\ m.site = s /\ m.old = req[r].old
        BY <4>1, <1>1, <1>6
      <4>3. \A q \in Requests : (About(q, s))' <=> About(q, s)
        BY <4>2, <3>3, <1>1, Moved DEF About
      <4>4. Knows(r, s) => (Knows(r, s))'
        BY <4>2, <2>1, <1>1, Moved DEF Knows
      <4>5. QED
        BY <3>3, <4>3, <4>4, <2>1 DEF FollowedAt, Live
    <3>4. QED
      BY <3>1, <3>2, <3>3
  <2>3. QED
    BY <2>1, <2>2, <1>1, <1>3, <1>4, <1>5, Moved DEF TypeOK
<1>9. QED
  BY <1>7, <1>8

\* A reload that begins by itself has read the tables as they are; one that meets
\* another leaves it open which of them is loaded last.
LEMMA GenerateKeeps ==
    ASSUME IInv, crowded' \in BOOLEAN, NEW ch \in Channels, NEW who \in Requests \cup {Nobody},
           who \in Requests => Waits(who), Generate(ch, who)
    PROVE  IInv'
<1> USE DEF IInv
<1>1. /\ reload[ch] = NoReload /\ reload' = [reload EXCEPT ![ch] = who]
      /\ doubtful' = \E c \in Channels : reload[c] # NoReload
      /\ current' = current \cup {ch}
      /\ UNCHANGED <<row, dirs, req, settled, torn>>
  BY DEF Generate
<1>2. reload'[ch] = who /\ \A c \in Channels \ {ch} : reload'[c] = reload[c]
  BY <1>1 DEF TypeOK
<1>3. TypeOK'
  BY <1>1 DEF TypeOK
<1>4. \A q \in Requests : MustReload(q)' = MustReload(q)
  BY <1>1 DEF MustReload, At
<1>5. Owned'
  <2>1. who \in Requests => MustReload(who) /\ \A c \in Channels : reload[c] # who
    BY DEF Waits, MustReload
  <2>2. QED
    BY <2>1, <1>2, <1>4, RequestsAssumption DEF Owned
<1>6. Covered'
  <2>1. ~doubtful' => \A c \in Channels : UnderWay(c)' => c = ch
    BY <1>1, <1>2 DEF UnderWay
  <2>2. UnderWay(ch)' /\ ch \in current'
    BY <1>1, <1>2, RequestsAssumption DEF UnderWay, NoReload, Nobody
  <2>3. QED
    BY <2>1, <2>2 DEF Covered
<1>7. DirectoriesMade' /\ NewIsNew'
  BY <1>1 DEF DirectoriesMade, NewIsNew, At, Refers, Live
<1>8. \A s \in Sites : HousedAt(s)' /\ FollowedAt(s)'
  BY <1>1 DEF HousedAt, FollowedAt, Cleared, At, About, Knows, Live
<1>9. QED
  BY <1>3, <1>5, <1>6, <1>7, <1>8

LEMMA GenerateForKeeps ==
    ASSUME IInv, crowded' \in BOOLEAN, NEW r \in Requests, GenerateFor(r) PROVE IInv'
<1> DEFINE ch == CASE req[r].op = "update" -> "locked"
                   [] req[r].op = "deluser" -> "unlocked"
                   [] OTHER -> req[r].stage
<1>1. Waits(r) /\ Generate(ch, r)
  BY DEF GenerateFor
<1>2. ch \in Channels
  BY <1>1, Fields DEF Waits, At, Channels, IInv
<1> HIDE DEF ch
<1>3. QED
  BY <1>1, <1>2, GenerateKeeps

\* The end of a reload, or of waiting for it, for whoever waited.
LEMMA AnswerKeeps ==
    ASSUME IInv, NEW ch \in Channels, reload[ch] # NoReload,
           NEW ok \in BOOLEAN, NEW heard \in BOOLEAN,
           \/ reload[ch] = Nobody /\ UNCHANGED <<req, settled>>
           \/ reload[ch] \in Requests /\ Resume(reload[ch], ok, heard),
           UNCHANGED <<row, dirs, torn>>,
           \A c \in Channels \ {ch} : reload'[c] = reload[c],
           reload'[ch] \in {NoReload, Nobody},
           reload' \in [Channels -> {NoReload, Nobody} \cup Requests]
    PROVE  /\ req' \in [Requests -> Request]
           /\ settled' \in [Sites -> Settings \cup {Nothing}]
           /\ Owned'
           /\ DirectoriesMade'
           /\ \A s \in Sites : HousedAt(s)'
           /\ NewIsNew'
           /\ \A s \in Sites : FollowedAt(s)'
           /\ \A q \in Requests : Waits(q) => Waits(q)'
<1> USE DEF IInv
<1>1. CASE reload[ch] = Nobody /\ UNCHANGED <<req, settled>>
  <2>1. \A q \in Requests : MustReload(q)' = MustReload(q)
    BY <1>1 DEF MustReload, At
  <2>2. Owned'
    BY <2>1, RequestsAssumption DEF Owned
  <2>3. DirectoriesMade' /\ NewIsNew'
    BY <1>1 DEF DirectoriesMade, NewIsNew, At, Refers, Live
  <2>4. \A s \in Sites : HousedAt(s)' /\ FollowedAt(s)'
    BY <1>1 DEF HousedAt, FollowedAt, Cleared, At, About, Knows, Live
  <2>5. \A q \in Requests : Waits(q) => Waits(q)'
    BY <1>1, RequestsAssumption DEF Waits, At
  <2>6. QED
    BY <2>2, <2>3, <2>4, <2>5, <1>1 DEF TypeOK
<1>2. ASSUME NEW r \in Requests, r = reload[ch], Resume(r, ok, heard)
      PROVE  /\ req' \in [Requests -> Request]
             /\ settled' \in [Sites -> Settings \cup {Nothing}]
             /\ Owned'
             /\ DirectoriesMade'
             /\ \A s \in Sites : HousedAt(s)'
             /\ NewIsNew'
             /\ \A s \in Sites : FollowedAt(s)'
             /\ \A q \in Requests : Waits(q) => Waits(q)'
  <2>1. MustReload(r) /\ \A c \in Channels \ {ch} : reload[c] # r
    BY <1>2 DEF Owned
  <2>2. /\ req' \in [Requests -> Request]
        /\ settled' \in [Sites -> Settings \cup {Nothing}]
        /\ \A q \in Requests \ {r} : req'[q] = req[q]
        /\ DirectoriesMade'
        /\ \A s \in Sites : HousedAt(s)'
        /\ NewIsNew'
        /\ \A s \in Sites : FollowedAt(s)'
    BY <2>1, <1>2, ResumeKeeps
  <2>3. \A q \in Requests \ {r} : MustReload(q) => MustReload(q)'
    BY <2>2 DEF MustReload, At
  <2>4. Owned'
    BY <2>1, <2>3, RequestsAssumption DEF Owned
  <2>5. \A q \in Requests : Waits(q) => q # r
    BY <1>2 DEF Waits
  <2>6. \A q \in Requests : Waits(q) => Waits(q)'
    BY <2>2, <2>5, RequestsAssumption DEF Waits, At
  <2>7. QED
    BY <2>2, <2>4, <2>6
<1>3. QED
  BY <1>1, <1>2

LEMMA LoadKeeps ==
    ASSUME IInv, crowded' \in BOOLEAN, NEW ch \in Channels, Load(ch)
    PROVE  IInv'
<1> USE DEF IInv
<1>1. /\ reload[ch] # NoReload /\ reload' = [reload EXCEPT ![ch] = NoReload]
      /\ current' = (IF ch \in current THEN current \cup {"served"}
                                       ELSE current \ {"served"}) \ {ch}
      /\ UNCHANGED <<row, dirs, torn, doubtful>>
  BY DEF Load
<1>2. /\ reload' \in [Channels -> {NoReload, Nobody} \cup Requests]
      /\ reload'[ch] = NoReload /\ \A c \in Channels \ {ch} : reload'[c] = reload[c]
  BY <1>1 DEF TypeOK
<1>3. \/ reload[ch] = Nobody /\ UNCHANGED <<req, settled>>
      \/ reload[ch] \in Requests /\ Resume(reload[ch], TRUE, TRUE)
  BY <1>1 DEF Load, Answer, TypeOK
<1>4. /\ req' \in [Requests -> Request]
      /\ settled' \in [Sites -> Settings \cup {Nothing}]
      /\ Owned' /\ DirectoriesMade' /\ NewIsNew'
      /\ \A s \in Sites : HousedAt(s)'
      /\ \A s \in Sites : FollowedAt(s)'
      /\ \A q \in Requests : Waits(q) => Waits(q)'
  BY <1>1, <1>2, <1>3, AnswerKeeps
<1>5. TypeOK'
  BY <1>1, <1>2, <1>4 DEF TypeOK
<1>6. Covered'
  <2>1. SUFFICES ASSUME ~doubtful PROVE Covered'
    BY <1>1 DEF Covered
  <2>2. \A c \in Channels : ~UnderWay(c)'
    BY <2>1, <1>1, <1>2 DEF Covered, UnderWay
  <2>3. "served" \notin Channels
    BY DEF Channels
  <2>4. "served" \notin current' => ch \notin current
    BY <2>3, <1>1
  <2>5. QED
    BY <2>1, <2>2, <2>4, <1>1, <1>4 DEF Covered, UnderWay
<1>7. QED
  BY <1>4, <1>5, <1>6

LEMMA LoadFailsKeeps ==
    ASSUME IInv, crowded' \in BOOLEAN, NEW ch \in Channels, LoadFails(ch)
    PROVE  IInv'
<1> USE DEF IInv
<1>1. /\ reload[ch] # NoReload /\ reload' = [reload EXCEPT ![ch] = NoReload]
      /\ current' = current \ {ch} /\ doubtful' = TRUE
      /\ UNCHANGED <<row, dirs, torn>>
  BY DEF LoadFails
<1>2. /\ reload' \in [Channels -> {NoReload, Nobody} \cup Requests]
      /\ reload'[ch] = NoReload /\ \A c \in Channels \ {ch} : reload'[c] = reload[c]
  BY <1>1 DEF TypeOK
<1>3. \/ reload[ch] = Nobody /\ UNCHANGED <<req, settled>>
      \/ reload[ch] \in Requests /\ Resume(reload[ch], FALSE, TRUE)
  BY <1>1 DEF LoadFails, Answer, TypeOK
<1>4. /\ req' \in [Requests -> Request]
      /\ settled' \in [Sites -> Settings \cup {Nothing}]
      /\ Owned' /\ DirectoriesMade' /\ NewIsNew'
      /\ \A s \in Sites : HousedAt(s)'
      /\ \A s \in Sites : FollowedAt(s)'
  BY <1>1, <1>2, <1>3, AnswerKeeps
<1>5. TypeOK' /\ Covered'
  BY <1>1, <1>2, <1>4 DEF TypeOK, Covered
<1>6. QED
  BY <1>4, <1>5

\* Who gives up leaves a reload that has read the tables as before.
LEMMA TimeOutKeeps ==
    ASSUME IInv, crowded' \in BOOLEAN, NEW ch \in Channels, TimeOut(ch)
    PROVE  IInv'
<1> USE DEF IInv
<1>1. /\ reload[ch] \in Requests /\ Resume(reload[ch], FALSE, FALSE)
      /\ reload' = [reload EXCEPT ![ch] = Nobody]
      /\ UNCHANGED <<row, dirs, current, torn, doubtful>>
  BY DEF TimeOut
<1>2. /\ reload' \in [Channels -> {NoReload, Nobody} \cup Requests]
      /\ reload'[ch] = Nobody /\ \A c \in Channels \ {ch} : reload'[c] = reload[c]
  BY <1>1 DEF TypeOK
<1>3. reload[ch] # NoReload
  BY <1>1, RequestsAssumption
<1>4. /\ req' \in [Requests -> Request]
      /\ settled' \in [Sites -> Settings \cup {Nothing}]
      /\ Owned' /\ DirectoriesMade' /\ NewIsNew'
      /\ \A s \in Sites : HousedAt(s)'
      /\ \A s \in Sites : FollowedAt(s)'
      /\ \A q \in Requests : Waits(q) => Waits(q)'
  BY <1>1, <1>2, <1>3, AnswerKeeps
<1>5. TypeOK'
  BY <1>1, <1>2, <1>4 DEF TypeOK
<1>6. Covered'
  <2>1. \A c \in Channels : UnderWay(c)' <=> UnderWay(c)
    BY <1>2, <1>3 DEF UnderWay, Nobody, NoReload
  <2>2. QED
    BY <2>1, <1>1, <1>4 DEF Covered
<1>7. QED
  BY <1>4, <1>5, <1>6

LEMMA NotReloadedKeeps ==
    ASSUME IInv, crowded' \in BOOLEAN, NEW r \in Requests, NotReloaded(r)
    PROVE  IInv'
<1> USE DEF IInv
<1>1. Waits(r) /\ doubtful' = TRUE /\ UNCHANGED <<row, dirs, current, reload, torn>>
  BY DEF NotReloaded
<1>2. MustReload(r) /\ \A c \in Channels : reload[c] # r
  BY <1>1 DEF Waits, MustReload
<1>3. /\ req' \in [Requests -> Request]
      /\ settled' \in [Sites -> Settings \cup {Nothing}]
      /\ \A q \in Requests \ {r} : req'[q] = req[q]
      /\ DirectoriesMade' /\ NewIsNew'
      /\ \A s \in Sites : HousedAt(s)'
      /\ \A s \in Sites : FollowedAt(s)'
  <2>1. PICK heard \in BOOLEAN : Resume(r, FALSE, heard)
    BY DEF NotReloaded
  <2>2. QED
    BY <2>1, <1>1, <1>2, ResumeKeeps
<1>4. \A q \in Requests \ {r} : MustReload(q) => MustReload(q)'
  BY <1>3 DEF MustReload, At
<1>5. Owned'
  BY <1>1, <1>2, <1>4 DEF Owned
<1>6. TypeOK' /\ Covered'
  BY <1>1, <1>3 DEF TypeOK, Covered
<1>7. QED
  BY <1>3, <1>5, <1>6

LEMMA PanelStopsKeeps ==
    ASSUME IInv, crowded' \in BOOLEAN, PanelStops
    PROVE  IInv'
<1> USE DEF IInv
<1>1. /\ req' = [r \in Requests |-> Idle]
      /\ settled' = [s \in Sites |-> Nothing]
      /\ torn' = torn \cup {req[r].slug : r \in {q \in Requests : At(q, "delete", "cleared")}}
      /\ doubtful' = TRUE
      /\ reload' = [ch \in Channels |-> IF reload[ch] = NoReload THEN NoReload ELSE Nobody]
      /\ UNCHANGED <<row, dirs, current>>
  BY DEF PanelStops
<1>2. \A r \in Requests : At(r, "delete", "cleared") => req[r].slug \in Slugs
  BY Fields DEF At
<1>3. TypeOK'
  BY <1>1, <1>2, IdleTyped DEF TypeOK
<1>4. Owned' /\ Covered'
  BY <1>1, RequestsAssumption DEF Owned, Covered
<1>5. \A r \in Requests : req'[r] = Idle /\ req'[r].op = "none"
  BY <1>1, IdleTyped
<1>6. DirectoriesMade' /\ NewIsNew'
  BY <1>5 DEF DirectoriesMade, NewIsNew, At
<1>7. \A s \in Sites : HousedAt(s)'
  BY <1>1 DEF HousedAt, Cleared, Live
<1>8. \A s \in Sites : FollowedAt(s)'
  BY <1>1 DEF FollowedAt
<1>9. QED
  BY <1>3, <1>4, <1>6, <1>7, <1>8

LEMMA StutterKeeps ==
    ASSUME IInv, crowded' \in BOOLEAN, UNCHANGED vars
    PROVE  IInv'
<1> USE DEF IInv, vars, caddy
<1>1. TypeOK'
  BY DEF TypeOK
<1>2. Owned' /\ Covered'
  BY DEF Owned, Covered, MustReload, At, UnderWay, Waits
<1>3. DirectoriesMade' /\ NewIsNew'
  BY DEF DirectoriesMade, NewIsNew, At, Refers, Live
<1>4. \A s \in Sites : HousedAt(s)' /\ FollowedAt(s)'
  BY DEF HousedAt, FollowedAt, Cleared, At, About, Knows, Live
<1>5. QED
  BY <1>1, <1>2, <1>3, <1>4
-----------------------------------------------------------------------------
\* What a step notes of creations that meet.
LEMMA NextNotes ==
    ASSUME TypeOK, [Next]_vars
    PROVE  crowded' \in BOOLEAN /\ (Creators' # {} /\ ~crowded' => ~crowded)
<1> DEFINE Noted == crowded' \in BOOLEAN /\ (Creators' # {} /\ ~crowded' => ~crowded)
<1> SUFFICES Noted
  OBVIOUS
<1>1. ASSUME NEW r, NEW m, Becomes(r, m) PROVE Noted
  BY <1>1 DEF Becomes
<1>2. ASSUME UNCHANGED crowded PROVE Noted
  BY <1>2 DEF TypeOK
<1> HIDE DEF Noted
<1>3. ASSUME NEW r \in Requests, NEW s \in Sites, SiteStep(r, s) PROVE Noted
  BY <1>3, <1>1 DEF SiteStep, ReadForCreate, ReadForDelete, ReadForUpdate, ReadForList,
                    ReadSettings, Begins
<1>4. ASSUME NEW r, Ends(r) \/ (\E stage : Goes(r, stage)) \/ (\E ch : Finishes(r, ch)) PROVE Noted
  BY <1>4, <1>1 DEF Ends, Goes, Finishes
<1>5. ASSUME NEW r, NEW ok, NEW heard, Resume(r, ok, heard) PROVE Noted
  BY <1>5, <1>1 DEF Resume
<1>6. ASSUME NEW r \in Requests, RequestStep(r) PROVE Noted
  <2>1. CASE \/ CreateSiteDirectory(r)
             \/ \E v \in Values \ Broken : CreateSite(r, v)
             \/ DeleteSiteDirectory(r) \/ DeleteSite(r)
    BY <2>1, <1>4 DEF CreateSiteDirectory, CreateSite, DeleteSiteDirectory, DeleteSite
  <2>2. CASE WriteSettings(r) \/ RollBack(r) \/ EnableHTTPS(r)
    BY <2>2, <1>1, <1>4 DEF WriteSettings, RollBack, EnableHTTPS, Fails
  <2>3. CASE ToggleSuspension(r) \/ SetCaddyConfig(r) \/ InstallPHPVersion(r)
    BY <2>3, <1>4 DEF ToggleSuspension, SetCaddyConfig, InstallPHPVersion, WriteAndFinish
  <2>4. CASE DeleteUser(r) \/ DeleteUserRows(r)
    BY <2>4, <1>1, <1>4 DEF DeleteUser, DeleteUserRows, Begins
  <2>5. CASE GenerateFor(r) \/ NotReloaded(r)
    BY <2>5, <1>2, <1>5 DEF GenerateFor, Generate, NotReloaded
  <2>6. QED
    BY <1>6, <2>1, <2>2, <2>3, <2>4, <2>5 DEF RequestStep
<1>7. ASSUME NEW ch \in Channels, GenerateLate(ch) \/ Load(ch) \/ LoadFails(ch) \/ TimeOut(ch)
      PROVE  Noted
  BY <1>7, <1>2, <1>5 DEF GenerateLate, Generate, Load, LoadFails, TimeOut, Answer
<1>8. CASE PanelStops
  <2>1. crowded' = FALSE /\ Creators' = {}
    BY <1>8, IdleTyped DEF PanelStops, Creators
  <2>2. QED
    BY <2>1 DEF Noted
<1>9. CASE UNCHANGED vars
  BY <1>9, <1>2 DEF vars
<1>10. QED
  BY <1>3, <1>6, <1>7, <1>8, <1>9 DEF Next

LEMMA NextIInv == IInv /\ [Next]_vars => IInv'
<1> SUFFICES ASSUME IInv, [Next]_vars PROVE IInv'
  OBVIOUS
<1>0. crowded' \in BOOLEAN
  BY NextNotes DEF IInv
<1> USE <1>0
<1>1. ASSUME NEW r \in Requests, NEW s \in Sites, SiteStep(r, s) PROVE IInv'
  BY <1>1, ReadForCreateKeeps, ReadForDeleteKeeps, ReadForUpdateKeeps, ReadForListKeeps
     DEF SiteStep
<1>2. ASSUME NEW r \in Requests, RequestStep(r) PROVE IInv'
  <2>1. CASE \/ CreateSiteDirectory(r)
             \/ \E v \in Values \ Broken : CreateSite(r, v)
             \/ DeleteSiteDirectory(r) \/ DeleteSite(r)
    BY <2>1, CreateSiteDirectoryKeeps, CreateSiteKeeps, DeleteSiteDirectoryKeeps, DeleteSiteKeeps
  <2>2. CASE WriteSettings(r) \/ RollBack(r) \/ EnableHTTPS(r)
    BY <2>2, WriteSettingsKeeps, RollBackKeeps, EnableHTTPSKeeps
  <2>3. CASE ToggleSuspension(r) \/ SetCaddyConfig(r) \/ InstallPHPVersion(r)
    BY <2>3, WriteAndFinishKeeps
       DEF ToggleSuspension, SetCaddyConfig, InstallPHPVersion, Channels
  <2>4. CASE DeleteUser(r) \/ DeleteUserRows(r)
    BY <2>4, DeleteUserKeeps, DeleteUserRowsKeeps
  <2>5. CASE GenerateFor(r) \/ NotReloaded(r)
    BY <2>5, GenerateForKeeps, NotReloadedKeeps
  <2>6. QED
    BY <1>2, <2>1, <2>2, <2>3, <2>4, <2>5 DEF RequestStep
<1>3. ASSUME NEW ch \in Channels, GenerateLate(ch) PROVE IInv'
  BY <1>3, GenerateKeeps, RequestsAssumption DEF GenerateLate
<1>4. ASSUME NEW ch \in Channels, Load(ch) \/ LoadFails(ch) \/ TimeOut(ch) PROVE IInv'
  BY <1>4, LoadKeeps, LoadFailsKeeps, TimeOutKeeps
<1>5. QED
  BY <1>1, <1>2, <1>3, <1>4, PanelStopsKeeps, StutterKeeps DEF Next

LEMMA AlwaysIInv == Spec => []IInv
  BY InitIInv, NextIInv, PTL DEF Spec
-----------------------------------------------------------------------------
\* Rows, directories, requests and reloads stay what their types say.
THEOREM TypeCorrect == Spec => []TypeOK
<1>1. IInv => TypeOK
  BY DEF IInv
<1>2. QED
  BY <1>1, AlwaysIInv, PTL

\* An update that nobody disturbs takes effect or leaves no trace (UpdateSettings rolls
\* the row back when the reload fails), whatever other sites and requests do.
THEOREM UpdatesAllOrNothing == Spec => []AllOrNothingUnlessDisturbed
<1>1. IInv => AllOrNothingUnlessDisturbed
  <2>1. SUFFICES ASSUME IInv, NEW s \in Live, \A r \in Requests : ~Refers(r, s)
                 PROVE  settled[s] \in {row[s].is, Nothing}
    BY DEF AllOrNothingUnlessDisturbed
  <2>2. \A r \in Requests : ~About(r, s)
    BY <2>1 DEF About, Refers
  <2>3. s \in Sites /\ FollowedAt(s)
    BY <2>1 DEF IInv, Live
  <2>4. QED
    BY <2>1, <2>2, <2>3 DEF FollowedAt
<1>2. QED
  BY <1>1, AlwaysIInv, PTL

\* Once nothing is under way Caddy serves what the tables say, unless its last reload
\* failed or met another: generateCaddyfile reads them after every write.
THEOREM TablesAreServed == Spec => []ServedIsCurrent
<1>1. IInv => ServedIsCurrent
  <2>1. SUFFICES ASSUME IInv, req = [r \in Requests |-> Idle],
                        reload = [ch \in Channels |-> NoReload], ~doubtful
                 PROVE  "served" \in current
    BY DEF ServedIsCurrent
  <2>2. \A ch \in Channels : ~UnderWay(ch)
    BY <2>1 DEF UnderWay
  <2>3. \A r \in Requests : ~Waits(r)
    BY <2>1, IdleTyped DEF Waits, At
  <2>4. QED
    BY <2>1, <2>2, <2>3 DEF IInv, Covered
<1>2. QED
  BY <1>1, AlwaysIInv, PTL

\* A site that is served has its directory: a deletion removes by name, and only the
\* deleted site's own.
THEOREM ServedHaveDirectories == Spec => []SitesHaveDirectories
<1>1. IInv => SitesHaveDirectories
  <2>1. SUFFICES ASSUME IInv, NEW s \in Live
                 PROVE  \/ row[s].slug \in dirs \cup torn
                        \/ \E r \in Requests :
                             At(r, "delete", "cleared") /\ req[r].slug = row[s].slug
    BY DEF SitesHaveDirectories
  <2>2. s \in Sites /\ HousedAt(s)
    BY <2>1 DEF IInv, Live
  <2>3. QED
    BY <2>1, <2>2 DEF HousedAt, Cleared
<1>2. QED
  BY <1>1, AlwaysIInv, PTL
-----------------------------------------------------------------------------
(***************************************************************************)
(* The limit on sites.                                                     *)
(***************************************************************************)
\* What the creations under way can still add to the sites.
Bounded ==
    Creators # {} =>
        /\ Cardinality(Live) + Cardinality(Creators) < MaxSites + Cardinality(Requests)
        /\ ~crowded => Cardinality(Creators) = 1 /\ Cardinality(Live) < MaxSites

LEMMA Finite ==
    /\ IsFiniteSet(Live) /\ IsFiniteSet(Creators)
    /\ Cardinality(Live) \in Nat /\ Cardinality(Creators) \in Nat
    /\ MaxSites \in Nat /\ Cardinality(Requests) \in Nat
    /\ Cardinality(Creators) <= Cardinality(Requests)
<1>1. Live \subseteq Sites /\ Creators \subseteq Requests
  BY DEF Live, Creators
<1>2. QED
  BY <1>1, RequestsAssumption, ConstantsAssumption, FS_Subset, FS_CardinalityType

\* All steps but two leave no more sites and no more creations.
NoMore == Live' \subseteq Live /\ Creators' \subseteq Creators

LEMMA MovesOn ==
    ASSUME TypeOK, NEW r \in Requests, NEW m, Moves(r, m),
           m.op = "create" => req[r].op = "create"
    PROVE  Creators' \subseteq Creators
  BY Moved DEF Creators

LEMMA SitesCounted ==
    ASSUME IInv, NEW r \in Requests, NEW s \in Sites, SiteStep(r, s),
           \A slug \in Slugs : ~ReadForCreate(r, s, slug)
    PROVE  NoMore
<1>1. TypeOK
  BY DEF IInv
<1>2. req[r] = Idle /\ UNCHANGED row
  BY DEF SiteStep, ReadForDelete, ReadForUpdate, ReadForList, ReadSettings, Begins
<1>3. /\ req' \in [Requests -> Request]
      /\ \A q \in Requests \ {r} : req'[q] = req[q]
      /\ req'[r].op \in {"delete", "update", "list"}
  <2>1. CASE ReadForDelete(r, s)
    BY <2>1, <1>1, ReadForDeleteKeeps DEF IInv, TypeOK, ReadForDelete, Begins, Becomes
  <2>2. ASSUME NEW new \in [https : Asked, rest : Values], ReadForUpdate(r, s, new)
        PROVE  /\ req' \in [Requests -> Request]
               /\ \A q \in Requests \ {r} : req'[q] = req[q]
               /\ req'[r].op \in {"delete", "update", "list"}
    BY <2>2, <1>1, ReadForUpdateKeeps
       DEF IInv, TypeOK, ReadForUpdate, ReadSettings, Begins, Becomes
  <2>3. CASE ReadForList(r, s)
    BY <2>3, <1>1, ReadForListKeeps DEF IInv, TypeOK, ReadForList, ReadSettings, Begins, Becomes
  <2>4. QED
    BY <2>1, <2>2, <2>3 DEF SiteStep
<1>4. QED
  BY <1>2, <1>3 DEF NoMore, Creators, Live

LEMMA RowsKept ==
    ASSUME TypeOK, NEW r \in Requests, NEW m, Moves(r, m), m.op # "create",
           \/ UNCHANGED row
           \/ \E s \in Sites, is \in Settings : SetSettings(s, is)
           \/ \E s \in Sites : row' = [row EXCEPT ![s] = NoRow]
    PROVE  NoMore
<1>1. Creators' \subseteq Creators
  BY MovesOn
<1>2. Live' \subseteq Live
  BY DEF Live, TypeOK, SetSettings
<1>3. QED
  BY <1>1, <1>2 DEF NoMore

LEMMA EndsMoves == ASSUME NEW r, Ends(r) PROVE Moves(r, Idle) /\ Idle.op # "create"
  BY IdleTyped DEF Ends, Becomes, Moves

LEMMA FinishesMoves ==
    ASSUME NEW r, NEW ch \in Channels, Finishes(r, ch)
    PROVE  \E m : Moves(r, m) /\ m.op # "create"
<1>1. PICK m : m = [op |-> "finish", stage |-> ch]
  OBVIOUS
<1>2. m \in Request /\ m.op # "create"
  BY <1>1, FinishTyped
<1>3. Moves(r, m)
  BY <1>1, <1>2 DEF Finishes, Becomes, Moves
<1>4. QED
  BY <1>2, <1>3

LEMMA RequestsCounted ==
    ASSUME IInv, NEW r \in Requests, RequestStep(r),
           \A v \in Values \ Broken : ~CreateSite(r, v)
    PROVE  NoMore
<1>1. TypeOK /\ "locked" \in Channels /\ "unlocked" \in Channels
  BY DEF IInv, Channels
<1> USE <1>1
<1>2. CASE CreateSiteDirectory(r)
  <2>1. At(r, "create", "read") /\ UNCHANGED row
    BY <1>2 DEF CreateSiteDirectory
  <2>2. CASE Goes(r, "directory")
    <3>1. PICK m : m = [req[r] EXCEPT !.stage = "directory"]
      OBVIOUS
    <3>2. Moves(r, m)
      BY <2>1, <2>2, <3>1, Staged DEF Goes, Becomes, Moves
    <3>3. QED
      BY <2>1, <3>2, MovesOn DEF NoMore, At, Live
  <2>3. CASE Ends(r)
    BY <2>1, <2>3, EndsMoves, RowsKept
  <2>4. QED
    BY <1>2, <2>2, <2>3 DEF CreateSiteDirectory
<1>3. CASE DeleteSiteDirectory(r)
  <2>1. At(r, "delete", "read") /\ UNCHANGED row
    BY <1>3 DEF DeleteSiteDirectory
  <2>2. CASE Goes(r, "cleared")
    <3>1. PICK m : m = [req[r] EXCEPT !.stage = "cleared"]
      OBVIOUS
    <3>2. Moves(r, m) /\ m.op # "create"
      BY <2>1, <2>2, <3>1, Staged DEF Goes, Becomes, Moves
    <3>3. QED
      BY <2>1, <3>2, RowsKept
  <2>3. CASE Ends(r)
    BY <2>1, <2>3, EndsMoves, RowsKept
  <2>4. QED
    BY <1>3, <2>2, <2>3 DEF DeleteSiteDirectory
<1>4. CASE DeleteSite(r)
  <2>1. At(r, "delete", "cleared") /\ req[r].site \in Sites
    BY <1>4, Fields DEF DeleteSite, At
  <2>2. CASE Finishes(r, "locked") /\ row' = [row EXCEPT ![req[r].site] = NoRow]
    BY <2>1, <2>2, FinishesMoves, RowsKept
  <2>3. CASE Ends(r) /\ UNCHANGED row
    BY <2>3, EndsMoves, RowsKept
  <2>4. QED
    BY <1>4, <2>2, <2>3 DEF DeleteSite
<1>5. CASE WriteSettings(r)
  <2>1. At(r, "update", "read")
    BY <1>5 DEF WriteSettings
  <2>2. PICK x, is, old : /\ x = req[r].site /\ x \in Sites
                          /\ is = req[r].new /\ is \in Settings
                          /\ old = req[r].old /\ old \in Settings
    BY <2>1, Fields DEF At
  <2>3. CASE Fails(r)
    BY <2>3, EndsMoves, RowsKept DEF Fails
  <2>4. CASE SetSettings(x, is)
             /\ Becomes(r, [op |-> "update", stage |-> "reload", site |-> x, old |-> old])
    <3>1. PICK m : m = [op |-> "update", stage |-> "reload", site |-> x, old |-> old]
      OBVIOUS
    <3>2. m \in Request /\ m.op # "create"
      BY <2>2, <3>1 DEF Request
    <3>3. Moves(r, m)
      BY <2>4, <3>1, <3>2 DEF Becomes, Moves
    <3>4. QED
      BY <2>2, <2>4, <3>2, <3>3, RowsKept
  <2>5. QED
    BY <1>5, <2>2, <2>3, <2>4 DEF WriteSettings
<1>6. CASE RollBack(r)
  <2>1. req[r].site \in Sites /\ req[r].old \in Settings
    BY <1>6, Fields DEF RollBack, At
  <2>2. CASE Fails(r)
    BY <2>2, EndsMoves, RowsKept DEF Fails
  <2>3. CASE SetSettings(req[r].site, req[r].old) /\ Finishes(r, "locked")
    BY <2>1, <2>3, FinishesMoves, RowsKept
  <2>4. QED
    BY <1>6, <2>2, <2>3 DEF RollBack
<1>7. CASE EnableHTTPS(r)
  <2>1. PICK x, old : /\ x = req[r].site /\ x \in Sites
                      /\ old = req[r].old /\ old \in Settings
    BY <1>7, Fields DEF EnableHTTPS, At
  <2>2. CASE Fails(r)
    BY <2>2, EndsMoves, RowsKept DEF Fails
  <2>3. CASE SetSettings(x, [old EXCEPT !.https = TRUE]) /\ Finishes(r, "locked")
    <3>1. [old EXCEPT !.https = TRUE] \in Settings
      BY <2>1 DEF Settings
    <3>2. QED
      BY <2>1, <2>3, <3>1, FinishesMoves, RowsKept
  <2>4. QED
    BY <1>7, <2>1, <2>2, <2>3 DEF EnableHTTPS
<1>8. CASE ToggleSuspension(r) \/ SetCaddyConfig(r) \/ InstallPHPVersion(r)
  BY <1>8, FinishesMoves, RowsKept
     DEF ToggleSuspension, SetCaddyConfig, InstallPHPVersion, WriteAndFinish
<1>9. CASE DeleteUser(r)
  <2>1. PICK m : m = [op |-> "deluser", stage |-> "reload"]
    OBVIOUS
  <2>2. m \in Request /\ m.op # "create"
    BY <2>1 DEF Request
  <2>3. Moves(r, m) /\ UNCHANGED row
    BY <1>9, <2>1, <2>2 DEF DeleteUser, Begins, Becomes, Moves
  <2>4. QED
    BY <2>2, <2>3, RowsKept
<1>10. CASE DeleteUserRows(r)
  BY <1>10, EndsMoves, RowsKept DEF DeleteUserRows
<1>11. CASE GenerateFor(r)
  BY <1>11 DEF GenerateFor, Generate, NoMore, Creators, Live
<1>12. CASE NotReloaded(r)
  <2>1. MustReload(r) /\ UNCHANGED row
    BY <1>12 DEF NotReloaded, Waits, MustReload
  <2>2. PICK heard \in BOOLEAN : Resume(r, FALSE, heard)
    BY <1>12 DEF NotReloaded
  <2>3. \E m : Moves(r, m) /\ m.op # "create"
    BY <2>1, <2>2, AfterIs
  <2>4. QED
    BY <2>1, <2>3, RowsKept
<1>13. QED
  BY <1>2, <1>3, <1>4, <1>5, <1>6, <1>7, <1>8, <1>9, <1>10, <1>11, <1>12 DEF RequestStep

LEMMA ReloadsCounted ==
    ASSUME IInv, NEW ch \in Channels,
           GenerateLate(ch) \/ Load(ch) \/ LoadFails(ch) \/ TimeOut(ch)
    PROVE  NoMore
<1>1. TypeOK
  BY DEF IInv
<1>2. CASE UNCHANGED <<row, req>>
  BY <1>2 DEF NoMore, Creators, Live
<1>3. ASSUME NEW ok \in BOOLEAN, NEW heard \in BOOLEAN, reload[ch] \in Requests,
             Resume(reload[ch], ok, heard), UNCHANGED row
      PROVE  NoMore
  <2>1. MustReload(reload[ch])
    BY <1>3 DEF IInv, Owned
  <2>2. \E m : Moves(reload[ch], m) /\ m.op # "create"
    BY <2>1, <1>1, <1>3, AfterIs
  <2>3. QED
    BY <2>2, <1>1, <1>3, RowsKept
<1>4. reload[ch] \in {NoReload, Nobody} \cup Requests
  BY <1>1 DEF TypeOK
<1>5. QED
  BY <1>2, <1>3, <1>4 DEF GenerateLate, Generate, Load, LoadFails, TimeOut, Answer

Excess == IF crowded THEN Cardinality(Requests) - 1 ELSE 0
Grows == Live' \ Live # {} => Cardinality(Live') <= MaxSites + Excess

LEMMA FewerBounded ==
    ASSUME Bounded, NoMore, Creators' # {} /\ ~crowded' => ~crowded
    PROVE  Bounded' /\ Grows
<1>1. IsFiniteSet(Live) /\ IsFiniteSet(Creators)
      /\ Cardinality(Live) \in Nat /\ Cardinality(Creators) \in Nat
      /\ MaxSites \in Nat /\ Cardinality(Requests) \in Nat
  BY Finite
<1>2. PICK L, C : L = Live' /\ C = Creators'
  OBVIOUS
<1>3. /\ Cardinality(L) <= Cardinality(Live) /\ Cardinality(C) <= Cardinality(Creators)
      /\ Cardinality(L) \in Nat /\ Cardinality(C) \in Nat
  BY <1>1, <1>2, FS_Subset, FS_CardinalityType DEF NoMore
<1>4. C # {} => Creators # {} /\ Cardinality(C) # 0
  BY <1>1, <1>2, FS_Subset, FS_EmptySet DEF NoMore
<1>5. C # {} => Cardinality(L) + Cardinality(C) < MaxSites + Cardinality(Requests)
  BY <1>1, <1>3, <1>4 DEF Bounded
<1>6. C # {} /\ ~crowded' => Cardinality(C) = 1 /\ Cardinality(L) < MaxSites
  BY <1>1, <1>2, <1>3, <1>4 DEF Bounded
<1>7. Bounded'
  BY <1>2, <1>5, <1>6 DEF Bounded
<1>8. QED
  BY <1>7 DEF NoMore, Grows

\* A creation is let through while the sites are within the limit; one that meets no
\* other is alone.
LEMMA ReadForCreateBounded ==
    ASSUME IInv, NEW r \in Requests, NEW s \in Sites, NEW slug \in Slugs,
           ReadForCreate(r, s, slug)
    PROVE  Bounded' /\ Grows
<1>1. Live' = Live /\ Cardinality(Live) < MaxSites
  BY DEF ReadForCreate, Live
<1>2. PICK C : C = Creators' /\ C \subseteq Requests
  BY DEF Creators
<1>3. /\ IsFiniteSet(C) /\ Cardinality(C) \in Nat
      /\ Cardinality(C) <= Cardinality(Requests)
      /\ C # {} => Cardinality(C) # 0
  BY <1>2, RequestsAssumption, FS_Subset, FS_CardinalityType, FS_EmptySet
<1>4. C # {} /\ ~crowded' => ~(Cardinality(C) > 1)
  BY <1>2 DEF ReadForCreate, Begins, Becomes
<1>5. C # {} => Cardinality(Live) + Cardinality(C) < MaxSites + Cardinality(Requests)
  BY <1>1, <1>3, Finite
<1>6. C # {} /\ ~crowded' => Cardinality(C) = 1 /\ Cardinality(Live) < MaxSites
  BY <1>1, <1>3, <1>4
<1>7. Bounded'
  BY <1>1, <1>2, <1>5, <1>6 DEF Bounded
<1>8. QED
  BY <1>1, <1>7 DEF Grows

\* An insertion turns a creation into a site.
LEMMA CreateSiteBounded ==
    ASSUME IInv, Bounded, NEW r \in Requests, NEW v \in Values \ Broken, CreateSite(r, v),
           Creators' # {} /\ ~crowded' => ~crowded
    PROVE  Bounded' /\ Grows
<1>1. TypeOK /\ At(r, "create", "directory")
  BY DEF IInv, CreateSite
<1>2. PICK x : x = req[r].site /\ x \in Sites
  BY <1>1, Fields DEF At
<1>3. r \in Creators
  BY <1>1 DEF At, Creators
<1>4. CASE Ends(r) /\ UNCHANGED row
  <2>1. NoMore
    BY <1>1, <1>4, EndsMoves, RowsKept
  <2>2. QED
    BY <2>1, FewerBounded
<1>5. CASE Finishes(r, "locked") /\ row' = [row EXCEPT ![x] = Default(req[r].slug, v)]
  <2>1. PICK m : Moves(r, m) /\ m.op # "create"
    BY <1>5, FinishesMoves DEF Channels
  <2>2. PICK L, C : L = Live' /\ C = Creators'
    OBVIOUS
  <2>3. C = Creators \ {r}
    BY <2>1, <2>2, <1>1, Moved DEF Creators
  <2>4. L \subseteq Live \cup {x}
    BY <2>2, <1>1, <1>5 DEF Live, TypeOK
  <2>5. Cardinality(C) = Cardinality(Creators) - 1 /\ Cardinality(Creators) > 0
    <3>1. PICK B : B = Creators
      OBVIOUS
    <3>2. IsFiniteSet(B) /\ Cardinality(B) \in Nat /\ r \in B /\ C = B \ {r}
      BY <3>1, <2>3, <1>3, Finite
    <3>3. Cardinality(B) # 0
      BY <3>2, FS_EmptySet
    <3>4. Cardinality(B \ {r}) = Cardinality(B) - 1
      BY <3>2, FS_RemoveElement
    <3>5. QED
      BY <3>1, <3>2, <3>3, <3>4
  <2>6. Cardinality(L) <= Cardinality(Live) + 1 /\ Cardinality(L) \in Nat
    <3>1. /\ IsFiniteSet(Live \cup {x})
          /\ Cardinality(Live \cup {x}) = Cardinality(Live)
             \/ Cardinality(Live \cup {x}) = Cardinality(Live) + 1
      BY Finite, FS_AddElement
    <3>2. Cardinality(L) <= Cardinality(Live \cup {x}) /\ IsFiniteSet(L)
      BY <2>4, <3>1, FS_Subset
    <3>3. QED
      BY <3>1, <3>2, Finite, FS_CardinalityType
  <2>7. /\ Cardinality(Live) + Cardinality(Creators) < MaxSites + Cardinality(Requests)
        /\ ~crowded => Cardinality(Creators) = 1 /\ Cardinality(Live) < MaxSites
    BY <1>3 DEF Bounded
  <2>8. Cardinality(L) + Cardinality(C) < MaxSites + Cardinality(Requests)
    BY <2>5, <2>6, <2>7, Finite
  <2>9. C # {} => crowded
    <3>1. ~crowded => Cardinality(C) = 0
      BY <2>5, <2>7
    <3>2. IsFiniteSet(C)
      BY <2>3, Finite, FS_Subset
    <3>3. QED
      BY <3>1, <3>2, FS_EmptySet
  <2>10. Bounded'
    BY <2>2, <2>8, <2>9 DEF Bounded
  <2>11. Cardinality(L) <= MaxSites + Excess
    BY <2>5, <2>6, <2>7, Finite DEF Excess
  <2>12. QED
    BY <2>2, <2>10, <2>11 DEF Grows
<1>6. QED
  BY <1>2, <1>4, <1>5 DEF CreateSite

LEMMA NextBounded == IInv /\ Bounded /\ [Next]_vars => Bounded' /\ Grows
<1> SUFFICES ASSUME IInv, Bounded, [Next]_vars PROVE Bounded' /\ Grows
  OBVIOUS
<1>0. Creators' # {} /\ ~crowded' => ~crowded
  BY NextNotes DEF IInv
<1> USE <1>0
<1>1. CASE NoMore
  BY <1>1, FewerBounded
<1>2. ASSUME NEW r \in Requests, NEW s \in Sites, SiteStep(r, s) PROVE Bounded' /\ Grows
  <2>1. CASE \E slug \in Slugs : ReadForCreate(r, s, slug)
    BY <2>1, ReadForCreateBounded
  <2>2. CASE \A slug \in Slugs : ~ReadForCreate(r, s, slug)
    BY <2>2, <1>1, <1>2, SitesCounted
  <2>3. QED
    BY <2>1, <2>2
<1>3. ASSUME NEW r \in Requests, RequestStep(r) PROVE Bounded' /\ Grows
  <2>1. CASE \E v \in Values \ Broken : CreateSite(r, v)
    BY <2>1, CreateSiteBounded
  <2>2. CASE \A v \in Values \ Broken : ~CreateSite(r, v)
    BY <2>2, <1>1, <1>3, RequestsCounted
  <2>3. QED
    BY <2>1, <2>2
<1>4. CASE PanelStops
  <2>1. \A r \in Requests : req'[r].op = "none"
    BY <1>4, IdleTyped DEF PanelStops
  <2>2. NoMore
    BY <2>1, <1>4 DEF PanelStops, NoMore, Creators, Live
  <2>3. QED
    BY <2>2, <1>1
<1>5. CASE UNCHANGED vars
  <2>1. NoMore
    BY <1>5 DEF vars, NoMore, Creators, Live
  <2>2. QED
    BY <2>1, <1>1
<1>6. QED
  BY <1>1, <1>2, <1>3, <1>4, <1>5, ReloadsCounted DEF Next

\* Create counts the sites and inserts the row much later (sites.go:417, 560): a creation
\* that meets no other keeps the limit, and creations that overlap exceed it by at most
\* as many as can be served beside the one let through.
THEOREM LimitIsKept == Spec => LimitKeptUnlessCrowded
<1>1. Init => Bounded
  BY IdleTyped DEF Init, Bounded, Creators
<1>2. IInv /\ Bounded /\ [Next]_vars =>
        [Live' \ Live # {} =>
            Cardinality(Live') <= MaxSites + (IF crowded THEN Cardinality(Requests) - 1
                                                         ELSE 0)]_vars
  BY NextBounded DEF Grows, Excess
<1>3. QED
  BY <1>1, <1>2, NextBounded, AlwaysIInv, PTL DEF Spec, LimitKeptUnlessCrowded
=============================================================================
