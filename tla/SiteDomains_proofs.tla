-------------------------- MODULE SiteDomains_proofs --------------------------
(***************************************************************************)
(* Proofs about SiteDomains, for any sites, domains, requests and bounds.  *)
(***************************************************************************)
EXTENDS SiteDomains, FiniteSetTheorems, TLAPS

\* A live site has a domain, which the generator falls back to.
MainKnown == \A s \in Live : main[s] \in Domains

\* A site a request is about to insert is not there, nobody else inserts it, and an alias
\* is inserted only for a domain that has one.
Creations ==
    /\ \A r \in Requests : (Creating(r, "free") \/ Creating(r, "checked")) =>
         site[req[r].site] = "unborn"
    /\ \A q, r \in Requests :
         (req[q].op = "create" /\ req[r].op = "create" /\ req[q].site = req[r].site) => q = r
    /\ \A r \in Requests : Creating(r, "primary") => req[r].domain \in Apexes

\* What a request has read: ids are never drawn twice, and a row keeps its site.
Sound(r) ==
    LET q == req[r] IN
    /\ q.op \in {"update", "setPrimary", "deleteDomain"} =>
         /\ q.id <= drawn
         /\ q.id \in DOMAIN rows => rows[q.id].site = q.seen.site
    /\ q.op = "update" => ~(q.seen.primary /\ q.redirect)
    /\ q.op = "deleteDomain" => ~q.seen.primary

\* A site has one primary row from the insert of the first on.
Awaited(s) == \E r \in Requests : Creating(r, "site") /\ req[r].site = s

OnePrimary ==
    \A s \in Live \ (stale \cup spoiled) : Awaited(s) \/ \E i : Primaries(s) = {i}

NoPrimaryRedirect == \A i \in DOMAIN rows : ~(rows[i].primary /\ rows[i].redirect)

\* A request that has written and has yet to reload, or to hear of its reload.
Dirty(r) == req[r].op = "reload" \/ Creating(r, "site") \/ Creating(r, "primary")

\* A reload that a request waits for is of a request that has written, and its only one.
Owned ==
    \A ch \in Channels : reload[ch] \in Requests =>
        /\ req[reload[ch]].op = "reload"
        /\ \A c \in Channels \ {ch} : reload[c] # reload[ch]

\* A request whose reload is still to begin.
WillReload(r) == Waits(r) \/ Creating(r, "site") \/ Creating(r, "primary")

\* Who has yet to bring Caddy up to date: the reload under way if it has read the
\* tables as they are, and otherwise a request whose reload is still to begin.
Covered ==
    ~doubtful =>
        /\ \A ch, c \in Channels : UnderWay(ch) /\ UnderWay(c) => ch = c
        /\ (\E ch \in Channels : UnderWay(ch) /\ ch \notin current) =>
              \E r \in Requests : WillReload(r)
        /\ "served" \notin current =>
              \/ \E ch \in Channels : UnderWay(ch)
              \/ \E r \in Requests : WillReload(r)

IInv ==
    /\ TypeOK
    /\ MainKnown
    /\ Creations
    /\ \A r \in Requests : Sound(r)
    /\ OnePrimary
    /\ NoPrimaryRedirect
    /\ Owned
    /\ Covered
-----------------------------------------------------------------------------
LEMMA InitIInv == Init => IInv
<1> SUFFICES ASSUME Init PROVE IInv
  OBVIOUS
<1> USE DEF Init
<1>1. TypeOK
  <2>1. req \in [Requests -> Request]
    BY DEF Request, Idle
  <2>2. DOMAIN rows = {}
    OBVIOUS
  <2>3. QED
    BY <2>1, <2>2 DEF TypeOK
<1>2. MainKnown /\ OnePrimary
  BY DEF MainKnown, OnePrimary, Live
<1>3. Creations /\ \A r \in Requests : Sound(r)
  BY DEF Creations, Creating, Sound, Idle
<1>4. NoPrimaryRedirect
  BY DEF NoPrimaryRedirect
<1>5. Owned
  BY RequestsAssumption DEF Owned
<1>6. Covered
  BY DEF Covered, UnderWay
<1>7. QED
  BY <1>1, <1>2, <1>3, <1>4, <1>5, <1>6 DEF IInv

\* What the op of a request says of its record.
LEMMA Kinds ==
    ASSUME TypeOK, NEW r \in Requests
    PROVE  /\ req[r].op = "create" =>
                req[r] \in [op : {"create"}, stage : {"free", "checked", "site", "primary"},
                            site : Sites, domain : Domains]
           /\ req[r].op = "add" =>
                req[r] \in [op : {"add"}, site : Sites, domain : Domains, redirect : BOOLEAN]
           /\ req[r].op = "update" =>
                req[r] \in [op : {"update"}, id : Nat, seen : Row, redirect : BOOLEAN]
           /\ req[r].op \in {"setPrimary", "deleteDomain"} =>
                req[r] \in [op : {"setPrimary", "deleteDomain"}, id : Nat, seen : Row]
           /\ req[r].op = "deleteSite" => req[r].site \in Sites
  BY DEF TypeOK, Request, Idle

LEMMA Requesting ==
    /\ Idle \in Request
    /\ [op |-> "reload"] \in Request
  BY DEF Request, Idle

LEMMA ReqTyped ==
    ASSUME TypeOK, NEW r \in Requests, NEW record \in Request, Becomes(r, record)
    PROVE  /\ req' \in [Requests -> Request]
           /\ req'[r] = record
           /\ \A q \in Requests \ {r} : req'[q] = req[q]
  BY DEF TypeOK, Becomes
-----------------------------------------------------------------------------
(***************************************************************************)
(* The requests.                                                           *)
(***************************************************************************)
\* Rows keep their ids and sites, and no old id comes back.
RowsKept ==
    /\ drawn' \in Nat /\ drawn <= drawn'
    /\ \A i \in DOMAIN rows' : i <= drawn => i \in DOMAIN rows /\ rows'[i].site = rows[i].site

LEMMA SoundKept ==
    ASSUME TypeOK, RowsKept, NEW r \in Requests, Sound(r), req'[r] = req[r]
    PROVE  Sound(r)'
<1>1. CASE req[r].op \in {"update", "setPrimary", "deleteDomain"}
  <2>1. req[r].id \in Nat
    BY <1>1, Kinds
  <2>2. QED
    BY <1>1, <2>1 DEF Sound, RowsKept, TypeOK
<1>2. CASE req[r].op \notin {"update", "setPrimary", "deleteDomain"}
  BY <1>2 DEF Sound
<1>3. QED
  BY <1>1, <1>2

\* A request that holds nothing it has read of a row.
Bare == [op : {"create"}, stage : {"free", "checked", "site", "primary"},
         site : Sites, domain : Domains]
        \cup [op : {"add"}, site : Sites, domain : Domains, redirect : BOOLEAN]
        \cup [op : {"deleteSite"}, site : Sites]
        \cup [op : {"reload"}] \cup {Idle}

LEMMA BareIsSound ==
    ASSUME NEW r \in Requests, req'[r] \in Bare PROVE Sound(r)'
<1>1. req'[r].op \notin {"update", "setPrimary", "deleteDomain"}
  BY DEF Bare, Idle
<1>2. QED
  BY <1>1 DEF Sound

LEMMA BareIsRequest == Bare \subseteq Request
  BY DEF Bare, Request

LEMMA AllSound ==
    ASSUME IInv, RowsKept, NEW r \in Requests, NEW record \in Request, Becomes(r, record),
           Sound(r)'
    PROVE  \A q \in Requests : Sound(q)'
<1> TAKE q \in Requests
<1>1. CASE q = r
  BY <1>1
<1>2. CASE q # r
  BY <1>2, ReqTyped, SoundKept DEF IInv
<1>3. QED
  BY <1>1, <1>2

\* A request stops creating, or goes on after the insert of its site.
LEMMA CreationsKept ==
    ASSUME IInv, NEW r \in Requests, NEW record \in Request, Becomes(r, record),
           record.op = "create" => req[r].op = "create" /\ record.site = req[r].site,
           (record.op = "create" /\ record.stage \in {"free", "checked"}) =>
              req[r].stage \in {"free", "checked"},
           (record.op = "create" /\ record.stage = "primary") => record.domain \in Apexes,
           \A s \in Sites : site[s] = "unborn" =>
              site'[s] = "unborn" \/ (Creating(r, "checked") /\ req[r].site = s
                                      /\ record.op = "create" /\ record.stage = "site")
    PROVE  Creations'
<1>1. TypeOK /\ Creations
  BY DEF IInv
<1>2. req'[r] = record /\ \A q \in Requests \ {r} : req'[q] = req[q]
  BY <1>1, ReqTyped
<1>3. ASSUME NEW q \in Requests, (Creating(q, "free") \/ Creating(q, "checked"))'
      PROVE  site'[req'[q].site] = "unborn"
  <2>1. CASE q = r
    <3>1. req[r].site \in Sites /\ site[req[r].site] = "unborn"
      BY <1>1, <1>2, <1>3, <2>1, Kinds DEF Creations, Creating
    <3>2. QED
      BY <1>2, <1>3, <2>1, <3>1 DEF Creating
  <2>2. CASE q # r
    <3>1. req[q].op = "create" /\ req[q].site \in Sites /\ site[req[q].site] = "unborn"
      BY <1>1, <1>2, <1>3, <2>2, Kinds DEF Creations, Creating
    <3>2. ~(req[r].op = "create" /\ req[r].site = req[q].site)
      BY <1>1, <2>2, <3>1 DEF Creations
    <3>3. QED
      BY <1>2, <2>2, <3>1, <3>2 DEF Creating
  <2>3. QED
    BY <2>1, <2>2
<1>4. ASSUME NEW p \in Requests, NEW q \in Requests,
             req'[p].op = "create", req'[q].op = "create", req'[p].site = req'[q].site
      PROVE  p = q
  BY <1>1, <1>2, <1>4 DEF Creations
<1>5. ASSUME NEW q \in Requests, Creating(q, "primary")' PROVE req'[q].domain \in Apexes
  BY <1>1, <1>2, <1>5 DEF Creations, Creating
<1>6. QED
  BY <1>3, <1>4, <1>5 DEF Creations
-----------------------------------------------------------------------------
(***************************************************************************)
(* Steps that only read.                                                   *)
(***************************************************************************)
LEMMA Quiet ==
    ASSUME IInv, UNCHANGED <<tables, caddy, history>>,
           NEW r \in Requests, NEW record \in Request, Becomes(r, record),
           ~Dirty(r), ~Dirty(r)', Sound(r)', Creations'
    PROVE  IInv'
<1> USE DEF tables, caddy, history
<1>1. TypeOK /\ MainKnown /\ OnePrimary /\ NoPrimaryRedirect /\ Owned /\ Covered
  BY DEF IInv
<1>2. req'[r] = record /\ \A q \in Requests \ {r} : req'[q] = req[q]
  BY <1>1, ReqTyped
<1>3. TypeOK'
  BY <1>1, ReqTyped DEF TypeOK
<1>4. MainKnown' /\ NoPrimaryRedirect'
  BY <1>1 DEF MainKnown, NoPrimaryRedirect, Live
<1>5. \A q \in Requests : Sound(q)'
  <2>1. RowsKept
    BY <1>1 DEF RowsKept, TypeOK
  <2>2. QED
    BY <2>1, AllSound
<1>6. OnePrimary'
  <2>1. \A s \in Sites : Awaited(s) => Awaited(s)'
    BY <1>2 DEF Awaited, Creating, Dirty
  <2>2. \A s : Primaries(s)' = Primaries(s)
    BY DEF Primaries, RowsOf
  <2>3. Live' = Live
    BY DEF Live
  <2>4. QED
    BY <1>1, <2>1, <2>2, <2>3 DEF OnePrimary, Live
<1>7. Owned'
  BY <1>1, <1>2 DEF Owned, Dirty
<1>8. Covered'
  <2>1. \A q \in Requests : WillReload(q) => q # r
    BY DEF WillReload, Waits, Dirty
  <2>2. \A q \in Requests : WillReload(q) => WillReload(q)'
    BY <1>2, <2>1 DEF WillReload, Waits, Creating
  <2>3. QED
    BY <1>1, <2>2 DEF Covered, UnderWay
<1>9. QED
  BY <1>3, <1>4, <1>5, <1>6, <1>7, <1>8 DEF IInv

LEMMA CheckDomainKeeps ==
    ASSUME IInv, NEW r \in Requests, NEW s \in Sites, NEW d \in Domains, CheckDomain(r, s, d)
    PROVE  IInv'
<1> DEFINE record == [op |-> "create", stage |-> "free", site |-> s, domain |-> d]
<1>1. /\ TypeOK /\ Creations /\ req[r] = Idle /\ Becomes(r, record)
      /\ UNCHANGED <<tables, caddy, history>>
      /\ site[s] = "unborn" /\ \A q \in Requests : req[q].op = "create" => req[q].site # s
  BY DEF IInv, CheckDomain, Begin
<1>2. record \in Request /\ record \in Bare
  BY DEF Request, Bare
<1>3. req'[r] = record /\ \A q \in Requests \ {r} : req'[q] = req[q]
  BY <1>1, <1>2, ReqTyped
<1>4. Sound(r)'
  BY <1>2, <1>3, BareIsSound
<1>5. Creations'
  <2>1. ASSUME NEW q \in Requests, (Creating(q, "free") \/ Creating(q, "checked"))'
        PROVE  site'[req'[q].site] = "unborn"
    BY <1>1, <1>3, <2>1 DEF Creations, Creating, tables
  <2>2. ASSUME NEW p \in Requests, NEW q \in Requests,
               req'[p].op = "create", req'[q].op = "create", req'[p].site = req'[q].site
        PROVE  p = q
    BY <1>1, <1>3, <2>2 DEF Creations
  <2>3. ASSUME NEW q \in Requests, Creating(q, "primary")' PROVE req'[q].domain \in Apexes
    BY <1>1, <1>3, <2>3 DEF Creations, Creating
  <2>4. QED
    BY <2>1, <2>2, <2>3 DEF Creations
<1>6. ~Dirty(r) /\ ~Dirty(r)'
  BY <1>1, <1>3 DEF Dirty, Creating, Idle
<1>7. QED
  BY <1>1, <1>2, <1>4, <1>5, <1>6, Quiet

LEMMA CheckWwwKeeps ==
    ASSUME IInv, NEW r \in Requests, CheckWww(r) PROVE IInv'
<1>1. /\ TypeOK /\ Creating(r, "free")
      /\ UNCHANGED <<tables, caddy, history>>
  BY DEF IInv, CheckWww
<1>2. PICK record \in {Idle, [req[r] EXCEPT !.stage = "checked"]} : Becomes(r, record)
  BY DEF CheckWww
<1>3. req[r] \in [op : {"create"}, stage : {"free", "checked", "site", "primary"},
                  site : Sites, domain : Domains]
  BY <1>1, Kinds DEF Creating
<1>4. /\ record \in Bare /\ record \in Request
      /\ record.op = "create" => record.site = req[r].site /\ record.stage = "checked"
      /\ record.op \in {"create", "none"}
  BY <1>2, <1>3 DEF Bare, Request, Idle
<1>5. req'[r] = record
  BY <1>1, <1>2, <1>4, ReqTyped
<1>6. Sound(r)'
  BY <1>4, <1>5, BareIsSound
<1>7. Creations'
  BY <1>1, <1>2, <1>4, CreationsKept DEF Creating, tables
<1>8. ~Dirty(r) /\ ~Dirty(r)'
  BY <1>1, <1>4, <1>5 DEF Dirty, Creating
<1>9. QED
  BY <1>1, <1>2, <1>4, <1>6, <1>7, <1>8, Quiet

\* Reading for a change: Begin of a request that creates nothing.
LEMMA BeginKeeps ==
    ASSUME IInv, NEW r \in Requests, NEW record \in Request, Begin(r, record),
           record.op \notin {"create", "reload"}, Sound(r)'
    PROVE  IInv'
<1>1. /\ TypeOK /\ req[r] = Idle /\ Becomes(r, record)
      /\ UNCHANGED <<tables, caddy, history>>
  BY DEF IInv, Begin
<1>2. Creations'
  BY <1>1, CreationsKept DEF tables
<1>3. req'[r] = record
  BY <1>1, ReqTyped
<1>4. ~Dirty(r) /\ ~Dirty(r)'
  BY <1>1, <1>3 DEF Dirty, Creating, Idle
<1>5. QED
  BY <1>1, <1>2, <1>4, Quiet

LEMMA ReadForAddKeeps ==
    ASSUME IInv, NEW r \in Requests, NEW s \in Sites, NEW d \in Domains,
           NEW redirect \in BOOLEAN, ReadForAdd(r, s, d, redirect)
    PROVE  IInv'
<1> DEFINE record == [op |-> "add", site |-> s, domain |-> d, redirect |-> redirect]
<1>1. TypeOK /\ Begin(r, record)
  BY DEF IInv, ReadForAdd
<1>2. record \in Request /\ record \in Bare
  BY DEF Request, Bare
<1>3. Sound(r)'
  BY <1>1, <1>2, ReqTyped, BareIsSound DEF Begin
<1>4. QED
  BY <1>1, <1>2, <1>3, BeginKeeps

\* A row that is there has an id that was drawn.
LEMMA RowTyped ==
    ASSUME TypeOK, NEW i \in DOMAIN rows PROVE rows[i] \in Row /\ i \in Nat /\ i <= drawn
  BY DEF TypeOK

LEMMA ReadForUpdateKeeps ==
    ASSUME IInv, NEW r \in Requests, NEW i \in DOMAIN rows, NEW redirect \in BOOLEAN,
           ReadForUpdate(r, i, redirect)
    PROVE  IInv'
<1> DEFINE record == [op |-> "update", id |-> i, seen |-> rows[i], redirect |-> redirect]
<1>1. TypeOK /\ Begin(r, record) /\ ~(rows[i].primary /\ redirect)
  BY DEF IInv, ReadForUpdate
<1>2. record \in Request
  BY <1>1, RowTyped DEF Request
<1>3. req'[r] = record /\ UNCHANGED <<rows, drawn>>
  BY <1>1, <1>2, ReqTyped DEF Begin, tables
<1>4. Sound(r)'
  BY <1>1, <1>3, RowTyped DEF Sound
<1>5. QED
  BY <1>1, <1>2, <1>4, BeginKeeps

LEMMA ReadForPrimaryKeeps ==
    ASSUME IInv, NEW r \in Requests, NEW i \in DOMAIN rows, ReadForPrimary(r, i) PROVE IInv'
<1> DEFINE record == [op |-> "setPrimary", id |-> i, seen |-> rows[i]]
<1>1. TypeOK /\ Begin(r, record)
  BY DEF IInv, ReadForPrimary
<1>2. record \in Request
  BY <1>1, RowTyped DEF Request
<1>3. req'[r] = record /\ UNCHANGED <<rows, drawn>>
  BY <1>1, <1>2, ReqTyped DEF Begin, tables
<1>4. Sound(r)'
  BY <1>1, <1>3, RowTyped DEF Sound
<1>5. QED
  BY <1>1, <1>2, <1>4, BeginKeeps

LEMMA ReadForDeleteKeeps ==
    ASSUME IInv, NEW r \in Requests, NEW i \in DOMAIN rows, ReadForDelete(r, i) PROVE IInv'
<1> DEFINE record == [op |-> "deleteDomain", id |-> i, seen |-> rows[i]]
<1>1. TypeOK /\ Begin(r, record) /\ ~rows[i].primary
  BY DEF IInv, ReadForDelete
<1>2. record \in Request
  BY <1>1, RowTyped DEF Request
<1>3. req'[r] = record /\ UNCHANGED <<rows, drawn>>
  BY <1>1, <1>2, ReqTyped DEF Begin, tables
<1>4. Sound(r)'
  BY <1>1, <1>3, RowTyped DEF Sound
<1>5. QED
  BY <1>1, <1>2, <1>4, BeginKeeps

LEMMA ReadForDeleteSiteKeeps ==
    ASSUME IInv, NEW r \in Requests, NEW s \in Sites, ReadForDeleteSite(r, s) PROVE IInv'
<1> DEFINE record == [op |-> "deleteSite", site |-> s]
<1>1. TypeOK /\ Begin(r, record)
  BY DEF IInv, ReadForDeleteSite
<1>2. record \in Request /\ record \in Bare
  BY DEF Request, Bare
<1>3. Sound(r)'
  BY <1>1, <1>2, ReqTyped, BareIsSound DEF Begin
<1>4. QED
  BY <1>1, <1>2, <1>3, BeginKeeps

LEMMA AbandonKeeps ==
    ASSUME IInv, NEW r \in Requests, Abandon(r) PROVE IInv'
<1>1. /\ TypeOK /\ Becomes(r, Idle) /\ UNCHANGED <<tables, caddy, history>>
      /\ ~Dirty(r)
  BY DEF IInv, Abandon, Dirty, Creating
<1>2. req'[r] = Idle
  BY <1>1, Requesting, ReqTyped
<1>3. Sound(r)' /\ ~Dirty(r)'
  BY <1>2 DEF Sound, Dirty, Creating, Idle
<1>4. Creations'
  BY <1>1, Requesting, CreationsKept DEF tables, Idle
<1>5. QED
  BY <1>1, <1>3, <1>4, Requesting, Quiet
-----------------------------------------------------------------------------
(***************************************************************************)
(* Steps that write.                                                       *)
(***************************************************************************)
\* After a write the request has yet to reload, which Covered allows for.
LEMMA Written ==
    ASSUME IInv, TypeOK', MainKnown', Creations', \A q \in Requests : Sound(q)', OnePrimary',
           NoPrimaryRedirect', NEW r \in Requests, NEW record \in Request,
           Becomes(r, record), req[r].op # "reload", Dirty(r)', UNCHANGED <<reload, doubtful>>
    PROVE  IInv'
<1>1. TypeOK /\ Owned /\ Covered
  BY DEF IInv
<1>2. req'[r] = record /\ \A q \in Requests \ {r} : req'[q] = req[q]
  BY <1>1, ReqTyped
<1>3. Owned'
  BY <1>1, <1>2 DEF Owned
<1>4. WillReload(r)'
  BY <1>1 DEF Owned, Dirty, WillReload, Waits, Creating
<1>5. Covered'
  BY <1>1, <1>4 DEF Covered, UnderWay
<1>6. QED
  BY <1>3, <1>5 DEF IInv

\* A write that changes nothing of the tables makes no copy of them old.
LEMMA Touched ==
    ASSUME TypeOK, Touch
    PROVE  /\ current' \subseteq Channels \cup {"served"}
           /\ UNCHANGED <<site, main, rows>> => UNCHANGED current
  BY DEF TypeOK, Touch

\* The rows after an insert.
LEMMA Inserted ==
    ASSUME TypeOK, NEW s \in Sites, NEW d \in Domains, NEW primary \in BOOLEAN,
           NEW redirect \in BOOLEAN, Insert(s, d, primary, redirect)
    PROVE  LET i == drawn + 1
               row == [site |-> s, domain |-> d, primary |-> primary, redirect |-> redirect]
           IN  /\ drawn' = i /\ i \in Nat /\ i \notin DOMAIN rows
               /\ DOMAIN rows' = DOMAIN rows \cup {i}
               /\ rows'[i] = row /\ row \in Row
               /\ \A j \in DOMAIN rows : rows'[j] = rows[j]
<1>1. drawn \in Nat /\ DOMAIN rows \subseteq 1..drawn
  BY DEF TypeOK
<1>2. QED
  BY <1>1 DEF Insert, Row

LEMMA InsertTyped ==
    ASSUME TypeOK, NEW s \in Sites, NEW d \in Domains, NEW primary \in BOOLEAN,
           NEW redirect \in BOOLEAN, Insert(s, d, primary, redirect)
    PROVE  /\ drawn' \in Nat /\ DOMAIN rows' \subseteq 1..drawn'
           /\ \A i \in DOMAIN rows' : rows'[i] \in Row
           /\ RowsKept
<1> DEFINE i == drawn + 1
           row == [site |-> s, domain |-> d, primary |-> primary, redirect |-> redirect]
<1>1. /\ drawn' = i /\ i \in Nat /\ i \notin DOMAIN rows
      /\ DOMAIN rows' = DOMAIN rows \cup {i}
      /\ rows'[i] \in Row
      /\ \A j \in DOMAIN rows : rows'[j] = rows[j]
  BY Inserted
<1>2. drawn \in Nat /\ DOMAIN rows \subseteq 1..drawn /\ \A j \in DOMAIN rows : rows[j] \in Row
  BY DEF TypeOK
<1>3. QED
  BY <1>1, <1>2 DEF RowsKept

\* A row that is not primary changes nothing for its site.
LEMMA SecondaryInserted ==
    ASSUME IInv, NEW s \in Sites, NEW d \in Domains, NEW redirect \in BOOLEAN,
           Insert(s, d, FALSE, redirect)
    PROVE  NoPrimaryRedirect' /\ \A t : Primaries(t)' = Primaries(t)
<1> DEFINE i == drawn + 1
           row == [site |-> s, domain |-> d, primary |-> FALSE, redirect |-> redirect]
<1>1. /\ i \notin DOMAIN rows
      /\ DOMAIN rows' = DOMAIN rows \cup {i}
      /\ rows'[i] = row
      /\ \A j \in DOMAIN rows : rows'[j] = rows[j]
  BY Inserted DEF IInv
<1>2. ~rows'[i].primary
  BY <1>1
<1>3. NoPrimaryRedirect
  BY DEF IInv
<1>4. QED
  BY <1>1, <1>2, <1>3 DEF NoPrimaryRedirect, Primaries, RowsOf

\* Sites whose primary rows stay as they are.
LEMMA OnePrimaryKept ==
    ASSUME IInv, NEW r \in Requests, NEW record \in Request, Becomes(r, record),
           ~Creating(r, "site"), Live' \subseteq Live,
           stale \subseteq stale', spoiled \subseteq spoiled',
           \A s \in Live' \ (stale' \cup spoiled') : Primaries(s)' = Primaries(s)
    PROVE  OnePrimary'
<1>1. TypeOK /\ OnePrimary
  BY DEF IInv
<1>2. \A q \in Requests \ {r} : req'[q] = req[q]
  BY <1>1, ReqTyped
<1>3. \A s : Awaited(s) => Awaited(s)'
  BY <1>2 DEF Awaited, Creating
<1>4. QED
  BY <1>1, <1>3 DEF OnePrimary

\* The site is there, and its primary row is awaited.
LEMMA InsertSiteKeeps ==
    ASSUME IInv, NEW r \in Requests, InsertSite(r) PROVE IInv'
<1> DEFINE s == req[r].site
           d == req[r].domain
           record == [req[r] EXCEPT !.stage = "site"]
<1>1. /\ TypeOK /\ MainKnown /\ Creations /\ OnePrimary /\ NoPrimaryRedirect
      /\ Creating(r, "checked") /\ UNCHANGED <<rows, drawn, reload, doubtful, history>> /\ Touch
  BY DEF IInv, InsertSite
<1>2. req[r] \in [op : {"create"}, stage : {"free", "checked", "site", "primary"},
                  site : Sites, domain : Domains]
  BY <1>1, Kinds DEF Creating
<1>3. CASE Becomes(r, Idle) /\ UNCHANGED <<site, main>>
  <2>1. req'[r] = Idle
    BY <1>1, <1>3, Requesting, ReqTyped
  <2>2. Sound(r)' /\ ~Dirty(r) /\ ~Dirty(r)'
    BY <1>1, <2>1 DEF Sound, Dirty, Creating, Idle
  <2>3. Creations'
    BY <1>3, Requesting, CreationsKept DEF Idle
  <2>4. QED
    BY <1>1, <1>3, <2>2, <2>3, Requesting, Touched, Quiet DEF tables, caddy
<1>4. CASE /\ site' = [site EXCEPT ![s] = "live"]
           /\ main' = [main EXCEPT ![s] = d]
           /\ Becomes(r, record)
  <2>1. /\ record \in Bare /\ record \in Request
        /\ record.op = "create" /\ record.site = s /\ record.stage = "site"
    BY <1>2 DEF Bare, Request
  <2>2. req'[r] = record /\ \A q \in Requests \ {r} : req'[q] = req[q]
    BY <1>1, <1>4, <2>1, ReqTyped
  <2>3. TypeOK'
    BY <1>1, <1>2, <1>4, <2>1, ReqTyped, Touched DEF TypeOK, history
  <2>4. MainKnown'
    BY <1>1, <1>2, <1>4 DEF MainKnown, Live, TypeOK
  <2>5. \A q \in Requests : Sound(q)'
    <3>1. RowsKept
      BY <1>1 DEF RowsKept, TypeOK
    <3>2. QED
      BY <1>4, <2>1, <2>2, <3>1, BareIsSound, AllSound
  <2>6. Creations'
    BY <1>1, <1>2, <1>4, <2>1, CreationsKept DEF TypeOK, Creating
  <2>7. OnePrimary'
    <3>1. \A t : t = s => Awaited(t)'
      BY <2>1, <2>2 DEF Awaited, Creating
    <3>2. \A t : Awaited(t) => Awaited(t)'
      BY <1>1, <2>2 DEF Awaited, Creating
    <3>3. \A t : Primaries(t)' = Primaries(t)
      BY <1>1 DEF Primaries, RowsOf
    <3>4. \A t \in Live' : t = s \/ t \in Live
      BY <1>1, <1>4 DEF Live, TypeOK
    <3>5. QED
      BY <1>1, <3>1, <3>2, <3>3, <3>4 DEF OnePrimary, history
  <2>8. NoPrimaryRedirect'
    BY <1>1 DEF NoPrimaryRedirect
  <2>9. Dirty(r)'
    BY <2>1, <2>2 DEF Dirty, Creating
  <2>10. QED
    BY <1>1, <1>4, <2>1, <2>3, <2>4, <2>5, <2>6, <2>7, <2>8, <2>9, Written DEF Creating
<1>5. QED
  BY <1>3, <1>4 DEF InsertSite

\* The first row of a site is its one primary; a site that got none, or had rows by then,
\* is spoiled.
LEMMA InsertPrimaryKeeps ==
    ASSUME IInv, NEW r \in Requests, InsertPrimary(r) PROVE IInv'
<1> DEFINE s == req[r].site
           d == req[r].domain
           record == IF d \in Apexes THEN [req[r] EXCEPT !.stage = "primary"] ELSE [op |-> "reload"]
           inserted == /\ Insert(s, d, TRUE, FALSE)
                       /\ spoiled' = IF RowsOf(s) = {} THEN spoiled ELSE spoiled \cup {s}
           failed == InsertFails /\ spoiled' = spoiled \cup {s}
<1>1. /\ TypeOK /\ MainKnown /\ Creations /\ OnePrimary /\ NoPrimaryRedirect
      /\ Creating(r, "site") /\ Becomes(r, record)
      /\ UNCHANGED <<site, main, reload, doubtful, stale>> /\ Touch
      /\ inserted \/ failed
  BY DEF IInv, InsertPrimary, Committed
<1>2. req[r] \in [op : {"create"}, stage : {"free", "checked", "site", "primary"},
                  site : Sites, domain : Domains]
  BY <1>1, Kinds DEF Creating
<1>3. /\ record \in Bare /\ record \in Request
      /\ record.op = "reload" \/ (record.op = "create" /\ record.site = s /\ record.stage = "primary"
                                  /\ record.domain \in Apexes)
  BY <1>2 DEF Bare, Request
<1>4. req'[r] = record /\ \A q \in Requests \ {r} : req'[q] = req[q]
  BY <1>1, <1>3, ReqTyped
<1>5. /\ drawn' \in Nat /\ DOMAIN rows' \subseteq 1..drawn'
      /\ \A i \in DOMAIN rows' : rows'[i] \in Row
      /\ RowsKept
  <2>1. CASE inserted
    BY <1>1, <1>2, <2>1, InsertTyped
  <2>2. CASE failed
    BY <1>1, <2>2 DEF InsertFails, TypeOK, RowsKept
  <2>3. QED
    BY <1>1, <2>1, <2>2
<1>6. TypeOK'
  <2>1. spoiled' \subseteq Sites
    BY <1>1, <1>2 DEF TypeOK
  <2>2. QED
    BY <1>1, <1>3, <1>5, <2>1, ReqTyped, Touched DEF TypeOK
<1>7. MainKnown'
  BY <1>1 DEF MainKnown, Live
<1>8. \A q \in Requests : Sound(q)'
  BY <1>1, <1>3, <1>4, <1>5, BareIsSound, AllSound
<1>9. Creations'
  BY <1>1, <1>3, CreationsKept DEF Creating
<1>10. \A t \in Sites \ {s} : Awaited(t) => Awaited(t)'
  BY <1>4 DEF Awaited, Creating
<1>11. Live' = Live
  BY <1>1 DEF Live
<1>12. OnePrimary' /\ NoPrimaryRedirect'
  <2>1. CASE inserted
    <3> DEFINE i == drawn + 1
    <3>1. /\ i \notin DOMAIN rows
          /\ DOMAIN rows' = DOMAIN rows \cup {i}
          /\ rows'[i] = [site |-> s, domain |-> d, primary |-> TRUE, redirect |-> FALSE]
          /\ \A j \in DOMAIN rows : rows'[j] = rows[j]
      BY <1>1, <1>2, <2>1, Inserted
    <3>2. rows'[i].primary /\ ~rows'[i].redirect /\ rows'[i].site = s
      BY <3>1
    <3>3. NoPrimaryRedirect'
      BY <1>1, <3>1, <3>2 DEF NoPrimaryRedirect
    <3>4. ASSUME NEW t \in Sites \ {s} PROVE Primaries(t)' = Primaries(t)
      BY <3>1, <3>2 DEF Primaries, RowsOf
    <3>5. \A t : (t = s /\ RowsOf(t) = {}) => Primaries(t)' = {i}
      BY <3>1, <3>2 DEF Primaries, RowsOf
    <3>6. ASSUME NEW t \in Live, t \notin stale', t \notin spoiled'
          PROVE  Awaited(t)' \/ \E k : Primaries(t)' = {k}
      <4>1. CASE t = s
        BY <1>1, <2>1, <3>5, <3>6, <4>1
      <4>2. CASE t # s
        BY <1>1, <1>10, <2>1, <3>4, <3>6, <4>2 DEF OnePrimary, Live
      <4>3. QED
        BY <4>1, <4>2
    <3>7. QED
      BY <1>11, <3>3, <3>6 DEF OnePrimary
  <2>2. CASE failed
    <3>1. \A t : Primaries(t)' = Primaries(t)
      BY <2>2 DEF InsertFails, Primaries, RowsOf
    <3>2. NoPrimaryRedirect'
      BY <1>1, <2>2 DEF InsertFails, NoPrimaryRedirect
    <3>3. ASSUME NEW t \in Live, t \notin stale', t \notin spoiled'
          PROVE  Awaited(t)' \/ \E k : Primaries(t)' = {k}
      BY <1>1, <1>10, <2>2, <3>1, <3>3 DEF OnePrimary, Live
    <3>4. QED
      BY <1>11, <3>2, <3>3 DEF OnePrimary
  <2>3. QED
    BY <1>1, <2>1, <2>2
<1>13. Dirty(r)'
  BY <1>3, <1>4 DEF Dirty, Creating
<1>14. QED
  BY <1>1, <1>3, <1>6, <1>7, <1>8, <1>9, <1>12, <1>13, Written DEF Creating

LEMMA InsertWwwKeeps ==
    ASSUME IInv, NEW r \in Requests, InsertWww(r) PROVE IInv'
<1> DEFINE s == req[r].site
           w == Www[req[r].domain]
           record == [op |-> "reload"]
<1>1. /\ TypeOK /\ MainKnown /\ Creations /\ NoPrimaryRedirect
      /\ Creating(r, "primary") /\ Becomes(r, record)
      /\ UNCHANGED <<site, main, reload, doubtful, history>> /\ Touch
      /\ Insert(s, w, FALSE, TRUE) \/ InsertFails
  BY DEF IInv, InsertWww, Committed
<1>2. s \in Sites
  BY <1>1, Kinds DEF Creating
<1>3. record \in Bare
  BY DEF Bare
<1>4. req'[r] = record
  BY <1>1, Requesting, ReqTyped
<1>5. /\ drawn' \in Nat /\ DOMAIN rows' \subseteq 1..drawn'
      /\ \A i \in DOMAIN rows' : rows'[i] \in Row
      /\ RowsKept
      /\ NoPrimaryRedirect' /\ \A t : Primaries(t)' = Primaries(t)
  <2>1. CASE Insert(s, w, FALSE, TRUE) /\ w \in Domains
    BY <1>1, <1>2, <2>1, InsertTyped, SecondaryInserted
  <2>2. CASE InsertFails
    BY <1>1, <2>2 DEF InsertFails, TypeOK, RowsKept, NoPrimaryRedirect, Primaries, RowsOf
  <2>3. w \in Domains
    BY <1>1, ConstantsAssumption DEF Creations
  <2>4. QED
    BY <1>1, <2>1, <2>2, <2>3
<1>6. TypeOK'
  BY <1>1, <1>5, Requesting, ReqTyped, Touched DEF TypeOK, history
<1>7. MainKnown'
  BY <1>1 DEF MainKnown, Live
<1>8. \A q \in Requests : Sound(q)'
  BY <1>1, <1>3, <1>4, <1>5, Requesting, BareIsSound, AllSound
<1>9. Creations'
  BY <1>1, Requesting, CreationsKept DEF Creating
<1>10. OnePrimary'
  <2>1. ~Creating(r, "site") /\ Live' \subseteq Live
    BY <1>1 DEF Creating, Live
  <2>2. QED
    BY <1>1, <1>5, <2>1, Requesting, OnePrimaryKept DEF history
<1>11. Dirty(r)'
  BY <1>4 DEF Dirty
<1>12. QED
  BY <1>1, <1>5, <1>6, <1>7, <1>8, <1>9, <1>10, <1>11, Requesting, Written DEF Creating

LEMMA AddDomainKeeps ==
    ASSUME IInv, NEW r \in Requests, AddDomain(r) PROVE IInv'
<1> DEFINE q == req[r]
           record == [op |-> "reload"]
<1>1. /\ TypeOK /\ MainKnown /\ Creations /\ NoPrimaryRedirect
      /\ q.op = "add" /\ UNCHANGED <<site, main, reload, doubtful, history>> /\ Touch
  BY DEF IInv, AddDomain
<1>2. q.site \in Sites /\ q.domain \in Domains /\ q.redirect \in BOOLEAN
  BY <1>1, Kinds
<1>3. CASE Insert(q.site, q.domain, FALSE, q.redirect) /\ Becomes(r, record)
  <2>1. req'[r] = record /\ record \in Bare
    BY <1>1, <1>3, Requesting, ReqTyped DEF Bare
  <2>2. /\ drawn' \in Nat /\ DOMAIN rows' \subseteq 1..drawn'
        /\ \A i \in DOMAIN rows' : rows'[i] \in Row
        /\ RowsKept
        /\ NoPrimaryRedirect' /\ \A t : Primaries(t)' = Primaries(t)
    BY <1>1, <1>2, <1>3, InsertTyped, SecondaryInserted
  <2>3. TypeOK'
    BY <1>1, <1>3, <2>2, Requesting, ReqTyped, Touched DEF TypeOK, history
  <2>4. MainKnown'
    BY <1>1 DEF MainKnown, Live
  <2>5. \A p \in Requests : Sound(p)'
    BY <1>3, <2>1, <2>2, Requesting, BareIsSound, AllSound
  <2>6. Creations'
    BY <1>1, <1>3, Requesting, CreationsKept DEF Creating
  <2>7. OnePrimary'
    <3>1. ~Creating(r, "site") /\ Live' \subseteq Live
      BY <1>1 DEF Creating, Live
    <3>2. QED
      BY <1>1, <1>3, <2>2, <3>1, Requesting, OnePrimaryKept DEF history
  <2>8. Dirty(r)'
    BY <2>1 DEF Dirty
  <2>9. QED
    BY <1>1, <1>3, <2>2, <2>3, <2>4, <2>5, <2>6, <2>7, <2>8, Requesting, Written
<1>4. CASE InsertFails /\ Becomes(r, Idle)
  <2>1. req'[r] = Idle
    BY <1>1, <1>4, Requesting, ReqTyped
  <2>2. Sound(r)' /\ ~Dirty(r) /\ ~Dirty(r)'
    BY <1>1, <2>1 DEF Sound, Dirty, Creating, Idle
  <2>3. Creations'
    BY <1>1, <1>4, Requesting, CreationsKept DEF Idle
  <2>4. QED
    BY <1>1, <1>4, <2>2, <2>3, Requesting, Touched, Quiet DEF tables, caddy, InsertFails
<1>5. QED
  BY <1>3, <1>4 DEF AddDomain, Committed
-----------------------------------------------------------------------------
(***************************************************************************)
(* Steps that change or remove rows that are there.                        *)
(***************************************************************************)
LEMMA CommitKeeps ==
    ASSUME IInv, NEW r \in Requests, Committed(r), req[r].op \notin {"create", "reload"},
           site' \in [Sites -> {"unborn", "live", "gone"}],
           main' \in [Sites -> Domains \cup {NoDomain}],
           \A s \in Sites : site[s] = "unborn" => site'[s] = "unborn",
           MainKnown', OnePrimary', NoPrimaryRedirect',
           DOMAIN rows' \subseteq DOMAIN rows,
           \A i \in DOMAIN rows' : rows'[i] \in Row /\ rows'[i].site = rows[i].site,
           UNCHANGED <<drawn, reload, doubtful>>, Touch,
           stale' \subseteq Sites, spoiled' \subseteq Sites
    PROVE  IInv'
<1> DEFINE record == [op |-> "reload"]
<1>1. TypeOK /\ Becomes(r, record)
  BY DEF IInv, Committed
<1>2. req'[r] = record /\ record \in Bare
  BY <1>1, Requesting, ReqTyped DEF Bare
<1>3. RowsKept
  BY <1>1 DEF RowsKept, TypeOK
<1>4. TypeOK'
  BY <1>1, Requesting, ReqTyped, Touched DEF TypeOK
<1>5. \A q \in Requests : Sound(q)'
  BY <1>1, <1>2, <1>3, Requesting, BareIsSound, AllSound
<1>6. Creations'
  BY <1>1, Requesting, CreationsKept DEF Creating
<1>7. Dirty(r)'
  BY <1>2 DEF Dirty
<1>8. QED
  BY <1>1, <1>4, <1>5, <1>6, <1>7, Requesting, Written

LEMMA Flagged ==
    ASSUME NEW row \in Row, NEW primary \in BOOLEAN, NEW redirect \in BOOLEAN
    PROVE  LET new == [row EXCEPT !.primary = primary, !.redirect = redirect]
           IN  /\ new \in Row /\ new.site = row.site
               /\ new.primary = primary /\ new.redirect = redirect
  BY DEF Row

\* A primary row stays primary, and gets no redirect, unless the copy was stale.
LEMMA UpdateDomainKeeps ==
    ASSUME IInv, NEW r \in Requests, UpdateDomain(r) PROVE IInv'
<1> DEFINE q == req[r]
           s == q.seen.site
           new == [rows[q.id] EXCEPT !.primary = q.seen.primary, !.redirect = q.redirect]
<1>1. /\ TypeOK /\ MainKnown /\ NoPrimaryRedirect /\ Sound(r)
      /\ q.op = "update" /\ Committed(r)
      /\ UNCHANGED <<site, main, drawn, reload, doubtful, spoiled>> /\ Touch
      /\ DOMAIN rows' = DOMAIN rows
      /\ \A i \in DOMAIN rows : i # q.id => rows'[i] = rows[i]
      /\ q.id \in DOMAIN rows => rows'[q.id] = new
      /\ stale' = IF Stale(r) THEN stale \cup {s} ELSE stale
  BY DEF IInv, UpdateDomain
<1>2. q.seen \in Row /\ q.redirect \in BOOLEAN /\ s \in Sites
  <2>1. q.seen \in Row /\ q.redirect \in BOOLEAN
    BY <1>1, Kinds
  <2>2. QED
    BY <2>1 DEF Row
<1>3. ASSUME q.id \in DOMAIN rows
      PROVE  LET row == rows'[q.id]
             IN  /\ row \in Row /\ row.site = s /\ rows[q.id].site = s
                 /\ row.primary = q.seen.primary /\ ~(row.primary /\ row.redirect)
  <2>1. rows[q.id] \in Row /\ rows[q.id].site = s /\ ~(q.seen.primary /\ q.redirect)
    BY <1>1, <1>3, RowTyped DEF Sound
  <2>2. q.seen.primary \in BOOLEAN
    BY <1>2 DEF Row
  <2>3. /\ new \in Row /\ new.site = rows[q.id].site
        /\ new.primary = q.seen.primary /\ new.redirect = q.redirect
    <3>1. new \in Row
      BY <1>2, <2>1, <2>2 DEF Row
    <3>2. new.site = rows[q.id].site
      BY <2>1 DEF Row
    <3>3. new.primary = q.seen.primary
      BY <2>1 DEF Row
    <3>4. new.redirect = q.redirect
      BY <2>1 DEF Row
    <3>5. QED
      BY <3>1, <3>2, <3>3, <3>4
  <2>4. rows'[q.id] = new
    BY <1>1, <1>3
  <2> HIDE DEF new
  <2>5. QED
    BY <2>1, <2>3, <2>4
<1> HIDE DEF new
<1>4. \A i \in DOMAIN rows' : rows'[i] \in Row /\ rows'[i].site = rows[i].site
  BY <1>1, <1>3, RowTyped DEF Sound
<1>5. NoPrimaryRedirect'
  BY <1>1, <1>3 DEF NoPrimaryRedirect
<1>6. OnePrimary'
  <2>1. ASSUME NEW t \in Live' \ (stale' \cup spoiled') PROVE Primaries(t)' = Primaries(t)
    <3>1. CASE q.id \in DOMAIN rows /\ t = s
      <4>1. rows[q.id] = q.seen
        BY <1>1, <2>1, <3>1 DEF Stale
      <4>2. QED
        BY <1>1, <1>3, <3>1, <4>1 DEF Primaries, RowsOf
    <3>2. CASE q.id \in DOMAIN rows /\ t # s
      BY <1>1, <1>3, <3>2 DEF Primaries, RowsOf, Sound
    <3>3. CASE q.id \notin DOMAIN rows
      BY <1>1, <3>3 DEF Primaries, RowsOf
    <3>4. QED
      BY <3>1, <3>2, <3>3
  <2>2. [op |-> "reload"] \in Request /\ ~Creating(r, "site") /\ Live' \subseteq Live
    BY <1>1, Requesting DEF Creating, Live
  <2>3. stale \subseteq stale' /\ spoiled \subseteq spoiled' /\ Becomes(r, [op |-> "reload"])
    BY <1>1 DEF Committed
  <2>4. QED
    BY <2>1, <2>2, <2>3, OnePrimaryKept
<1>7. MainKnown'
  BY <1>1 DEF MainKnown, Live
<1>8. stale' \subseteq Sites /\ spoiled' \subseteq Sites
  BY <1>1, <1>2 DEF TypeOK
<1>9. QED
  BY <1>1, <1>4, <1>5, <1>6, <1>7, <1>8, CommitKeeps DEF TypeOK

\* A row that is deleted was not primary when it was read.
LEMMA DeleteDomainKeeps ==
    ASSUME IInv, NEW r \in Requests, DeleteDomain(r) PROVE IInv'
<1> DEFINE q == req[r]
           s == q.seen.site
<1>1. /\ TypeOK /\ MainKnown /\ NoPrimaryRedirect /\ Sound(r)
      /\ q.op = "deleteDomain" /\ Committed(r)
      /\ UNCHANGED <<site, main, drawn, reload, doubtful, spoiled>> /\ Touch
      /\ DOMAIN rows' = DOMAIN rows \ {q.id}
      /\ \A i \in DOMAIN rows' : rows'[i] = rows[i]
      /\ stale' = IF Stale(r) THEN stale \cup {s} ELSE stale
  BY DEF IInv, DeleteDomain, Remove
<1>2. s \in Sites
  <2>1. q.seen \in Row
    BY <1>1, Kinds
  <2>2. QED
    BY <2>1 DEF Row
<1>3. \A i \in DOMAIN rows' : rows'[i] \in Row /\ rows'[i].site = rows[i].site
  BY <1>1, RowTyped
<1>4. NoPrimaryRedirect'
  BY <1>1 DEF NoPrimaryRedirect
<1>5. OnePrimary'
  <2>1. ASSUME NEW t \in Live' \ (stale' \cup spoiled') PROVE Primaries(t)' = Primaries(t)
    <3>1. CASE q.id \in DOMAIN rows /\ t = s
      <4>1. rows[q.id] = q.seen /\ ~q.seen.primary
        BY <1>1, <2>1, <3>1 DEF Stale, Sound
      <4>2. QED
        BY <1>1, <4>1 DEF Primaries, RowsOf
    <3>2. CASE q.id \in DOMAIN rows /\ t # s
      BY <1>1, <3>2 DEF Primaries, RowsOf, Sound
    <3>3. CASE q.id \notin DOMAIN rows
      BY <1>1, <3>3 DEF Primaries, RowsOf
    <3>4. QED
      BY <3>1, <3>2, <3>3
  <2>2. [op |-> "reload"] \in Request /\ ~Creating(r, "site") /\ Live' \subseteq Live
    BY <1>1, Requesting DEF Creating, Live
  <2>3. stale \subseteq stale' /\ spoiled \subseteq spoiled' /\ Becomes(r, [op |-> "reload"])
    BY <1>1 DEF Committed
  <2>4. QED
    BY <2>1, <2>2, <2>3, OnePrimaryKept
<1>6. MainKnown'
  BY <1>1 DEF MainKnown, Live
<1>7. stale' \subseteq Sites /\ spoiled' \subseteq Sites
  BY <1>1, <1>2 DEF TypeOK
<1>8. QED
  BY <1>1, <1>3, <1>4, <1>5, <1>6, <1>7, CommitKeeps DEF TypeOK

\* Whatever the site had, it has one primary row now, unless the row has gone.
LEMMA SetPrimaryDomainKeeps ==
    ASSUME IInv, NEW r \in Requests, SetPrimaryDomain(r) PROVE IInv'
<1> DEFINE q == req[r]
           s == q.seen.site
           new == [rows[q.id] EXCEPT !.primary = TRUE, !.redirect = FALSE]
<1>1. /\ TypeOK /\ MainKnown /\ OnePrimary /\ NoPrimaryRedirect /\ Sound(r)
      /\ q.op = "setPrimary" /\ Committed(r)
      /\ UNCHANGED <<site, main, drawn, reload, doubtful>> /\ Touch
      /\ DOMAIN rows' = DOMAIN rows
      /\ q.id \in DOMAIN rows => rows'[q.id] = new
      /\ \A i \in DOMAIN rows : i # q.id =>
           rows'[i] = IF i \in RowsOf(s) THEN [rows[i] EXCEPT !.primary = FALSE] ELSE rows[i]
      /\ IF q.id \in DOMAIN rows
           THEN stale' = stale \ {s} /\ spoiled' = spoiled \ {s}
           ELSE stale' = stale \cup {s} /\ UNCHANGED spoiled
  BY DEF IInv, SetPrimaryDomain
<1>2. s \in Sites
  <2>1. q.seen \in Row
    BY <1>1, Kinds
  <2>2. QED
    BY <2>1 DEF Row
<1>3. ASSUME q.id \in DOMAIN rows
      PROVE  LET row == rows'[q.id]
             IN  /\ row \in Row /\ row.site = s /\ rows[q.id].site = s
                 /\ row.primary /\ ~row.redirect
  <2>1. rows[q.id] \in Row /\ rows[q.id].site = s
    BY <1>1, <1>3, RowTyped DEF Sound
  <2>2. /\ new \in Row /\ new.site = rows[q.id].site
        /\ new.primary = TRUE /\ new.redirect = FALSE
    BY <2>1, Flagged
  <2>3. rows'[q.id] = new
    BY <1>1, <1>3
  <2> HIDE DEF new
  <2>4. QED
    BY <2>1, <2>2, <2>3
<1>4. ASSUME NEW i \in DOMAIN rows, i # q.id
      PROVE  /\ rows'[i] \in Row /\ rows'[i].site = rows[i].site
             /\ rows'[i].redirect = rows[i].redirect
             /\ rows'[i].primary = (rows[i].primary /\ rows[i].site # s)
  <2>1. rows[i] \in Row
    BY <1>1, RowTyped
  <2>2. CASE i \in RowsOf(s)
    BY <1>1, <1>4, <2>1, <2>2 DEF RowsOf, Row
  <2>3. CASE i \notin RowsOf(s)
    BY <1>1, <1>4, <2>1, <2>3 DEF RowsOf, Row
  <2>4. QED
    BY <2>2, <2>3
<1> HIDE DEF new
<1>5. \A i \in DOMAIN rows' : rows'[i] \in Row /\ rows'[i].site = rows[i].site
  BY <1>1, <1>3, <1>4
<1>6. NoPrimaryRedirect'
  BY <1>1, <1>3, <1>4 DEF NoPrimaryRedirect
<1>7. OnePrimary'
  <2>1. ASSUME NEW t \in Sites \ {s} PROVE Primaries(t)' = Primaries(t)
    BY <1>1, <1>3, <1>4 DEF Primaries, RowsOf
  <2>2. \A t : (t = s /\ q.id \in DOMAIN rows) => Primaries(t)' = {q.id}
    BY <1>1, <1>3, <1>4 DEF Primaries, RowsOf
  <2>3. \A t : Awaited(t) => Awaited(t)'
    BY <1>1, Requesting, ReqTyped DEF Awaited, Creating, Committed
  <2>4. ASSUME NEW t \in Live, t \notin stale', t \notin spoiled'
        PROVE  Awaited(t)' \/ \E k : Primaries(t)' = {k}
    <3>1. CASE t = s
      BY <1>1, <2>2, <2>4, <3>1
    <3>2. CASE t # s
      <4>1. t \in Sites /\ t \notin stale /\ t \notin spoiled
        BY <1>1, <2>4, <3>2 DEF Live
      <4>2. Awaited(t) \/ \E k : Primaries(t) = {k}
        BY <1>1, <4>1 DEF OnePrimary
      <4>3. QED
        BY <2>1, <2>3, <3>2, <4>1, <4>2
    <3>3. QED
      BY <3>1, <3>2
  <2>5. Live' = Live
    BY <1>1 DEF Live
  <2>6. QED
    BY <2>4, <2>5 DEF OnePrimary
<1>8. MainKnown'
  BY <1>1 DEF MainKnown, Live
<1>9. stale' \subseteq Sites /\ spoiled' \subseteq Sites
  BY <1>1, <1>2 DEF TypeOK
<1>10. QED
  BY <1>1, <1>5, <1>6, <1>7, <1>8, <1>9, CommitKeeps DEF TypeOK

LEMMA DeleteSiteKeeps ==
    ASSUME IInv, NEW r \in Requests, DeleteSite(r) PROVE IInv'
<1> DEFINE s == req[r].site
<1>1. /\ TypeOK /\ MainKnown /\ NoPrimaryRedirect
      /\ req[r].op = "deleteSite" /\ Committed(r)
      /\ site' = [site EXCEPT ![s] = IF @ = "live" THEN "gone" ELSE @]
      /\ main' = [main EXCEPT ![s] = NoDomain]
      /\ UNCHANGED <<drawn, reload, doubtful, stale, spoiled>> /\ Touch
      /\ DOMAIN rows' = DOMAIN rows \ RowsOf(s)
      /\ \A i \in DOMAIN rows' : rows'[i] = rows[i]
  BY DEF IInv, DeleteSite, Remove, history
<1>2. s \in Sites
  BY <1>1, Kinds
<1>3. /\ site' \in [Sites -> {"unborn", "live", "gone"}]
      /\ main' \in [Sites -> Domains \cup {NoDomain}]
      /\ \A t \in Sites : site[t] = "unborn" => site'[t] = "unborn"
  BY <1>1, <1>2 DEF TypeOK
<1>4. Live' = Live \ {s}
  BY <1>1, <1>2 DEF Live, TypeOK
<1>5. MainKnown'
  BY <1>1, <1>4 DEF MainKnown, Live, TypeOK
<1>6. \A i \in DOMAIN rows' : rows'[i] \in Row /\ rows'[i].site = rows[i].site
  BY <1>1, RowTyped
<1>7. NoPrimaryRedirect'
  BY <1>1 DEF NoPrimaryRedirect
<1>8. OnePrimary'
  <2>1. ASSUME NEW t \in Live' \ (stale' \cup spoiled') PROVE Primaries(t)' = Primaries(t)
    BY <1>1, <1>4 DEF Primaries, RowsOf
  <2>2. [op |-> "reload"] \in Request /\ ~Creating(r, "site") /\ Becomes(r, [op |-> "reload"])
    BY <1>1, Requesting DEF Creating, Committed
  <2>3. QED
    BY <1>1, <1>4, <2>1, <2>2, OnePrimaryKept
<1>9. QED
  BY <1>1, <1>3, <1>5, <1>6, <1>7, <1>8, CommitKeeps DEF TypeOK
-----------------------------------------------------------------------------
(***************************************************************************)
(* Reloads, deletions of users, and stops.                                 *)
(***************************************************************************)
\* Steps that leave the tables alone, and end nothing but the wait for a reload.
LEMMA Elsewhere ==
    ASSUME IInv, UNCHANGED <<tables, history>>, req' \in [Requests -> Request],
           \A q \in Requests :
             req'[q] = req[q] \/ (req[q].op = "reload" /\ req'[q] = Idle)
    PROVE  /\ MainKnown' /\ Creations' /\ OnePrimary' /\ NoPrimaryRedirect'
           /\ \A q \in Requests : Sound(q)'
<1> USE DEF tables, history
<1>1. TypeOK /\ MainKnown /\ Creations /\ OnePrimary /\ NoPrimaryRedirect
      /\ \A q \in Requests : Sound(q)
  BY DEF IInv
<1>2. \A q \in Requests : req[q].op = "create" \/ req'[q].op = "create" => req'[q] = req[q]
  BY DEF Idle
<1>3. MainKnown' /\ NoPrimaryRedirect'
  BY <1>1 DEF MainKnown, NoPrimaryRedirect, Live
<1>4. Creations'
  BY <1>1, <1>2 DEF Creations, Creating
<1>5. OnePrimary'
  <2>1. \A s : Awaited(s) => Awaited(s)'
    BY <1>2 DEF Awaited, Creating
  <2>2. \A s : Primaries(s)' = Primaries(s)
    BY DEF Primaries, RowsOf
  <2>3. Live' = Live
    BY DEF Live
  <2>4. QED
    BY <1>1, <2>1, <2>2, <2>3 DEF OnePrimary
<1>6. ASSUME NEW q \in Requests PROVE Sound(q)'
  <2>1. RowsKept
    BY <1>1 DEF RowsKept, TypeOK
  <2>2. CASE req'[q] = req[q]
    BY <1>1, <2>1, <2>2, SoundKept
  <2>3. CASE req'[q] = Idle
    BY <2>3 DEF Sound, Idle
  <2>4. QED
    BY <2>2, <2>3
<1>7. QED
  BY <1>3, <1>4, <1>5, <1>6

\* A reload that begins by itself has read the tables as they are; one that meets
\* another leaves it open which of them is loaded last.
LEMMA GenerateKeeps ==
    ASSUME IInv, NEW ch \in Channels, NEW who \in Requests \cup {Nobody},
           who \in Requests => Waits(who), Generate(ch, who)
    PROVE  IInv'
<1>1. /\ TypeOK /\ Owned /\ Covered
      /\ reload[ch] = NoReload /\ reload' = [reload EXCEPT ![ch] = who]
      /\ UNCHANGED <<tables, req, history>>
  BY DEF IInv, Generate, UnderWay
<1>2. \/ /\ \A c \in Channels : ~UnderWay(c)
         /\ doubtful' = FALSE /\ current' = current \cup {ch}
      \/ doubtful' = TRUE /\ current' = {}
  BY DEF Generate, Doubt
<1>3. reload'[ch] = who /\ \A c \in Channels \ {ch} : reload'[c] = reload[c]
  BY <1>1 DEF TypeOK
<1>4. TypeOK'
  BY <1>1, <1>2 DEF TypeOK, tables, history
<1>5. Owned'
  <2>1. who \in Requests => req[who].op = "reload" /\ \A c \in Channels : reload[c] # who
    BY DEF Waits
  <2>2. QED
    BY <2>1, <1>1, <1>3, RequestsAssumption DEF Owned
<1>6. Covered'
  <2>1. SUFFICES ASSUME ~doubtful' PROVE Covered'
    BY DEF Covered
  <2>2. \A c \in Channels : UnderWay(c)' => c = ch
    BY <1>2, <1>3, <2>1 DEF UnderWay
  <2>3. UnderWay(ch)' /\ ch \in current'
    BY <1>2, <1>3, <2>1, RequestsAssumption DEF UnderWay, NoReload, Nobody
  <2>4. QED
    BY <2>2, <2>3 DEF Covered
<1>7. req' \in [Requests -> Request] /\ \A q \in Requests : req'[q] = req[q]
  BY <1>1 DEF TypeOK
<1>8. QED
  BY <1>1, <1>4, <1>5, <1>6, <1>7, Elsewhere DEF IInv

\* The end of a reload, or of waiting for it, for whoever waited.
LEMMA AnswerKeeps ==
    ASSUME IInv, NEW ch \in Channels, UnderWay(ch), Answer(ch), UNCHANGED <<tables, history>>,
           \A c \in Channels \ {ch} : reload'[c] = reload[c],
           reload'[ch] \in {NoReload, Nobody}
    PROVE  /\ req' \in [Requests -> Request]
           /\ MainKnown' /\ Creations' /\ OnePrimary' /\ NoPrimaryRedirect'
           /\ \A q \in Requests : Sound(q)'
           /\ Owned'
           /\ \A q \in Requests : WillReload(q) => WillReload(q)'
<1>1. TypeOK /\ Owned
  BY DEF IInv
<1>2. \A q \in Requests : req'[q] = IF reload[ch] = q THEN Idle ELSE req[q]
  BY DEF Answer
<1>3. req' \in [Requests -> Request]
  BY <1>1, Requesting DEF Answer, TypeOK
<1>4. \A q \in Requests : req'[q] = req[q] \/ (req[q].op = "reload" /\ req'[q] = Idle)
  BY <1>1, <1>2 DEF Owned
<1>5. Owned'
  BY <1>1, <1>2, RequestsAssumption DEF Owned
<1>6. ASSUME NEW q \in Requests, WillReload(q) PROVE WillReload(q)'
  <2>1. reload[ch] # q
    BY <1>1, <1>6 DEF WillReload, Waits, Creating, Owned
  <2>2. req'[q] = req[q]
    BY <1>2, <2>1
  <2>3. QED
    BY <1>6, <2>2, RequestsAssumption DEF WillReload, Waits, Creating
<1>7. QED
  BY <1>3, <1>4, <1>5, <1>6, Elsewhere

LEMMA LoadKeeps ==
    ASSUME IInv, NEW ch \in Channels, Load(ch) PROVE IInv'
<1>1. /\ TypeOK /\ Covered /\ UnderWay(ch) /\ Answer(ch)
      /\ reload' = [reload EXCEPT ![ch] = NoReload]
      /\ current' = (IF ch \in current THEN current \cup {"served"}
                                       ELSE current \ {"served"}) \ {ch}
      /\ UNCHANGED <<tables, doubtful, history>>
  BY DEF IInv, Load
<1>2. reload'[ch] = NoReload /\ \A c \in Channels \ {ch} : reload'[c] = reload[c]
  BY <1>1 DEF TypeOK
<1>3. /\ req' \in [Requests -> Request]
      /\ MainKnown' /\ Creations' /\ OnePrimary' /\ NoPrimaryRedirect'
      /\ \A q \in Requests : Sound(q)'
      /\ Owned'
      /\ \A q \in Requests : WillReload(q) => WillReload(q)'
  BY <1>1, <1>2, AnswerKeeps
<1>4. TypeOK'
  BY <1>1, <1>3 DEF TypeOK, tables, history
<1>5. Covered'
  <2>1. SUFFICES ASSUME ~doubtful PROVE Covered'
    BY <1>1 DEF Covered
  <2>2. \A c \in Channels : ~UnderWay(c)'
    BY <2>1, <1>1, <1>2 DEF Covered, UnderWay
  <2>3. "served" \notin Channels
    BY DEF Channels
  <2>4. "served" \notin current' => ch \notin current
    BY <2>3, <1>1
  <2>5. QED
    BY <2>1, <2>2, <2>4, <1>1, <1>3 DEF Covered
<1>6. QED
  BY <1>3, <1>4, <1>5 DEF IInv

LEMMA LoadFailsKeeps ==
    ASSUME IInv, NEW ch \in Channels, LoadFails(ch) PROVE IInv'
<1>1. /\ TypeOK /\ UnderWay(ch) /\ Answer(ch)
      /\ reload' = [reload EXCEPT ![ch] = NoReload]
      /\ doubtful' = TRUE /\ current' = {}
      /\ UNCHANGED <<tables, history>>
  BY DEF IInv, LoadFails, Doubt
<1>2. reload'[ch] = NoReload /\ \A c \in Channels \ {ch} : reload'[c] = reload[c]
  BY <1>1 DEF TypeOK
<1>3. /\ req' \in [Requests -> Request]
      /\ MainKnown' /\ Creations' /\ OnePrimary' /\ NoPrimaryRedirect'
      /\ \A q \in Requests : Sound(q)'
      /\ Owned'
  BY <1>1, <1>2, AnswerKeeps
<1>4. TypeOK' /\ Covered'
  BY <1>1, <1>3 DEF TypeOK, tables, history, Covered
<1>5. QED
  BY <1>3, <1>4 DEF IInv

\* Who gives up leaves a reload that has read the tables as before.
LEMMA TimeOutKeeps ==
    ASSUME IInv, NEW ch \in Channels, TimeOut(ch) PROVE IInv'
<1>1. /\ TypeOK /\ Covered /\ reload[ch] \in Requests /\ Answer(ch)
      /\ reload' = [reload EXCEPT ![ch] = Nobody]
      /\ UNCHANGED <<tables, current, doubtful, history>>
  BY DEF IInv, TimeOut
<1>2. reload'[ch] = Nobody /\ \A c \in Channels \ {ch} : reload'[c] = reload[c]
  BY <1>1 DEF TypeOK
<1>3. UnderWay(ch)
  BY <1>1, RequestsAssumption DEF UnderWay
<1>4. /\ req' \in [Requests -> Request]
      /\ MainKnown' /\ Creations' /\ OnePrimary' /\ NoPrimaryRedirect'
      /\ \A q \in Requests : Sound(q)'
      /\ Owned'
      /\ \A q \in Requests : WillReload(q) => WillReload(q)'
  BY <1>1, <1>2, <1>3, AnswerKeeps
<1>5. TypeOK'
  BY <1>1, <1>4 DEF TypeOK, tables, history
<1>6. Covered'
  <2>1. \A c \in Channels : UnderWay(c)' <=> UnderWay(c)
    BY <1>2, <1>3 DEF UnderWay, Nobody, NoReload
  <2>2. QED
    BY <2>1, <1>1, <1>4 DEF Covered
<1>7. QED
  BY <1>4, <1>5, <1>6 DEF IInv

LEMMA NotReloadedKeeps ==
    ASSUME IInv, NEW r \in Requests, NotReloaded(r) PROVE IInv'
<1>1. /\ TypeOK /\ Owned /\ Waits(r) /\ Becomes(r, Idle)
      /\ doubtful' = TRUE /\ current' = {}
      /\ UNCHANGED <<tables, reload, history>>
  BY DEF IInv, NotReloaded, Doubt
<1>2. /\ req' \in [Requests -> Request] /\ req'[r] = Idle
      /\ \A q \in Requests \ {r} : req'[q] = req[q]
  BY <1>1, Requesting, ReqTyped
<1>3. req[r].op = "reload"
  BY <1>1 DEF Waits
<1>4. TypeOK' /\ Covered'
  BY <1>1, <1>2 DEF TypeOK, tables, history, Covered
<1>5. Owned'
  BY <1>1, <1>2 DEF Owned, Waits
<1>6. QED
  BY <1>1, <1>2, <1>3, <1>4, <1>5, Elsewhere DEF IInv

\* Rows go with their sites, and the requests find out when they write.
LEMMA DeleteUserRowsKeeps ==
    ASSUME IInv, NEW gone \in SUBSET Live, DeleteUserRows(gone) PROVE IInv'
<1>1. /\ TypeOK /\ MainKnown /\ Creations /\ OnePrimary /\ NoPrimaryRedirect /\ Owned
      /\ \A q \in Requests : Sound(q)
      /\ site' = [s \in Sites |-> IF s \in gone THEN "gone" ELSE site[s]]
      /\ main' = [s \in Sites |-> IF s \in gone THEN NoDomain ELSE main[s]]
      /\ DOMAIN rows' = DOMAIN rows \ UNION {RowsOf(s) : s \in gone}
      /\ \A i \in DOMAIN rows' : rows'[i] = rows[i]
      /\ doubtful' = TRUE /\ current' = {}
      /\ UNCHANGED <<drawn, req, reload, stale, spoiled>>
  BY DEF IInv, DeleteUserRows, Remove, Doubt, history
<1>2. Live' = Live \ gone
  BY <1>1 DEF Live
<1>3. TypeOK'
  <2>1. /\ site' \in [Sites -> {"unborn", "live", "gone"}]
        /\ main' \in [Sites -> Domains \cup {NoDomain}]
    BY <1>1 DEF TypeOK
  <2>2. DOMAIN rows' \subseteq 1..drawn' /\ \A i \in DOMAIN rows' : rows'[i] \in Row
    BY <1>1 DEF TypeOK
  <2>3. QED
    BY <1>1, <2>1, <2>2 DEF TypeOK
<1>4. MainKnown'
  BY <1>1, <1>2 DEF MainKnown, Live
<1>5. Creations'
  <2>1. \A s \in Sites : site[s] = "unborn" => site'[s] = "unborn"
    BY <1>1 DEF Live
  <2>2. \A r \in Requests : req[r].op = "create" => req[r].site \in Sites
    BY <1>1, Kinds
  <2>3. QED
    BY <1>1, <2>1, <2>2 DEF Creations, Creating
<1>6. ASSUME NEW q \in Requests PROVE Sound(q)'
  <2>1. RowsKept
    BY <1>1 DEF RowsKept, TypeOK
  <2>2. QED
    BY <1>1, <2>1, SoundKept
<1>7. OnePrimary'
  <2>1. ASSUME NEW s \in Live' PROVE Primaries(s)' = Primaries(s)
    <3>1. \A i \in RowsOf(s) : i \in DOMAIN rows'
      BY <1>1, <1>2 DEF RowsOf
    <3>2. QED
      BY <1>1, <3>1 DEF Primaries, RowsOf
  <2>2. \A s : Awaited(s)' = Awaited(s)
    BY <1>1 DEF Awaited, Creating
  <2>3. QED
    BY <1>1, <1>2, <2>1, <2>2 DEF OnePrimary
<1>8. NoPrimaryRedirect'
  BY <1>1 DEF NoPrimaryRedirect
<1>9. Owned' /\ Covered'
  BY <1>1 DEF Owned, Covered
<1>10. QED
  BY <1>3, <1>4, <1>5, <1>6, <1>7, <1>8, <1>9 DEF IInv

\* A creation that stops before it inserts its primary domain leaves a site without one.
LEMMA PanelStopsKeeps ==
    ASSUME IInv, PanelStops PROVE IInv'
<1>1. /\ TypeOK /\ MainKnown /\ OnePrimary /\ NoPrimaryRedirect
      /\ req' = [r \in Requests |-> Idle]
      /\ spoiled' = spoiled \cup {req[r].site : r \in {q \in Requests : Creating(q, "site")}}
      /\ reload' = [ch \in Channels |-> IF UnderWay(ch) THEN Nobody ELSE NoReload]
      /\ doubtful' = TRUE /\ current' = {}
      /\ UNCHANGED <<site, main, rows, drawn, stale>>
  BY DEF IInv, PanelStops, Doubt, tables
<1>2. \A r \in Requests : req'[r] = Idle
  BY <1>1
<1>3. TypeOK'
  <2>1. spoiled' \subseteq Sites
    BY <1>1, Kinds DEF TypeOK, Creating
  <2>2. QED
    BY <1>1, <2>1, Requesting DEF TypeOK
<1>4. MainKnown' /\ NoPrimaryRedirect'
  BY <1>1 DEF MainKnown, NoPrimaryRedirect, Live
<1>5. Creations' /\ \A r \in Requests : Sound(r)'
  BY <1>2 DEF Creations, Creating, Sound, Idle
<1>6. OnePrimary'
  <2>1. \A s \in Sites : Awaited(s) => s \in spoiled'
    BY <1>1 DEF Awaited
  <2>2. \A s : Primaries(s)' = Primaries(s)
    BY <1>1 DEF Primaries, RowsOf
  <2>3. Live' = Live /\ stale' = stale /\ spoiled \subseteq spoiled' /\ Live \subseteq Sites
    BY <1>1 DEF Live
  <2>4. QED
    BY <1>1, <2>1, <2>2, <2>3 DEF OnePrimary
<1>7. Owned' /\ Covered'
  BY <1>1, RequestsAssumption DEF Owned, Covered
<1>8. QED
  BY <1>3, <1>4, <1>5, <1>6, <1>7 DEF IInv
-----------------------------------------------------------------------------
(***************************************************************************)
(* Every step, and the theorems.                                           *)
(***************************************************************************)
LEMMA NextIInv == ASSUME IInv, [Next]_vars PROVE IInv'
<1>1. CASE UNCHANGED vars
  <2> USE <1>1 DEF vars, tables, caddy, history
  <2>1. TypeOK' /\ MainKnown' /\ NoPrimaryRedirect'
    BY DEF IInv, TypeOK, MainKnown, NoPrimaryRedirect, Live
  <2>2. Creations' /\ \A r \in Requests : Sound(r)'
    BY DEF IInv, Creations, Creating, Sound
  <2>3. OnePrimary'
    BY DEF IInv, OnePrimary, Awaited, Creating, Live, Primaries, RowsOf
  <2>4. Owned' /\ Covered'
    BY DEF IInv, Owned, Covered, UnderWay, WillReload, Waits, Creating
  <2>5. QED
    BY <2>1, <2>2, <2>3, <2>4 DEF IInv
<1>2. ASSUME NEW r \in Requests, RequestStep(r) PROVE IInv'
  <2>1. CASE \E s \in Sites, d \in Domains :
               \/ CheckDomain(r, s, d)
               \/ \E redirect \in BOOLEAN : ReadForAdd(r, s, d, redirect)
    BY <2>1, CheckDomainKeeps, ReadForAddKeeps
  <2>2. CASE \E i \in DOMAIN rows :
               \/ \E redirect \in BOOLEAN : ReadForUpdate(r, i, redirect)
               \/ ReadForPrimary(r, i) \/ ReadForDelete(r, i)
    BY <2>2, ReadForUpdateKeeps, ReadForPrimaryKeeps, ReadForDeleteKeeps
  <2>3. CASE \E s \in Sites : ReadForDeleteSite(r, s)
    BY <2>3, ReadForDeleteSiteKeeps
  <2>4. CASE CheckWww(r) \/ InsertSite(r) \/ InsertPrimary(r) \/ InsertWww(r)
    BY <2>4, CheckWwwKeeps, InsertSiteKeeps, InsertPrimaryKeeps, InsertWwwKeeps
  <2>5. CASE AddDomain(r) \/ UpdateDomain(r) \/ SetPrimaryDomain(r) \/ DeleteDomain(r)
    BY <2>5, AddDomainKeeps, UpdateDomainKeeps, SetPrimaryDomainKeeps, DeleteDomainKeeps
  <2>6. CASE DeleteSite(r) \/ Abandon(r)
    BY <2>6, DeleteSiteKeeps, AbandonKeeps
  <2>7. CASE GenerateFor(r) \/ NotReloaded(r)
    <3>1. GenerateFor(r) => Waits(r) /\ Generate("locked", r) /\ "locked" \in Channels
      BY DEF GenerateFor, Channels
    <3>2. QED
      BY <2>7, <3>1, GenerateKeeps, NotReloadedKeeps
  <2>8. QED
    BY <1>2, <2>1, <2>2, <2>3, <2>4, <2>5, <2>6, <2>7 DEF RequestStep
<1>3. ASSUME NEW ch \in Channels, GenerateLate(ch) \/ Load(ch) \/ LoadFails(ch) \/ TimeOut(ch)
      PROVE  IInv'
  <2>1. CASE GenerateLate(ch)
    BY <2>1, GenerateKeeps, RequestsAssumption DEF GenerateLate
  <2>2. CASE Load(ch) \/ LoadFails(ch) \/ TimeOut(ch)
    BY <2>2, LoadKeeps, LoadFailsKeeps, TimeOutKeeps
  <2>3. QED
    BY <1>3, <2>1, <2>2
<1>4. QED
  BY <1>1, <1>2, <1>3, DeleteUserRowsKeeps, PanelStopsKeeps DEF Next

LEMMA Inductive == Spec => []IInv
<1>1. Init => IInv
  BY InitIInv
<1>2. IInv /\ [Next]_vars => IInv'
  BY NextIInv
<1>3. QED
  BY <1>1, <1>2, PTL DEF Spec

\* Rows, requests and what Caddy serves keep their types, and every id in the table has
\* been drawn.
THEOREM TypeCorrect == Spec => []TypeOK
<1>1. IInv => TypeOK
  BY DEF IInv
<1>2. QED
  BY <1>1, Inductive, PTL

\* A site the handlers have settled has at least one primary row, and no second.
LEMMA SettledHasOne ==
    ASSUME IInv, NEW s \in Sites \ (stale \cup spoiled), Settled(s)
    PROVE  \E i : Primaries(s) = {i}
<1>1. s \in Live
  BY DEF Settled, Live
<1>2. ~Awaited(s)
  BY DEF Settled, Awaited, Creating
<1>3. QED
  BY <1>1, <1>2 DEF IInv, OnePrimary

\* A site has exactly one primary domain, however requests for its domains interleave,
\* unless one has written a row it read before another changed it (SetPrimaryDomain,
\* UpdateDomain, DeleteDomain) or Create lost the insert of its first row.
THEOREM PrimaryIsUnique == Spec => []OnePrimaryUnlessStale
<1>1. ASSUME IInv, NEW s \in Sites \ (stale \cup spoiled), Settled(s)
      PROVE  Cardinality(Primaries(s)) = 1
  <2>1. PICK i : Primaries(s) = {i}
    BY <1>1, SettledHasOne
  <2>2. QED
    BY <2>1, FS_Singleton
<1>2. IInv => OnePrimaryUnlessStale
  BY <1>1 DEF OnePrimaryUnlessStale
<1>3. QED
  BY <1>2, Inductive, PTL

\* The generator gives the primary domain of a site that has one a block of its own.
LEMMA PrimaryIsServed ==
    ASSUME IInv, NEW s \in Live, NEW i, Primaries(s) = {i}
    PROVE  [host |-> Primary(s), site |-> s, target |-> NoDomain] \in Generated
<1> DEFINE own == {<<rows[j].domain, rows[j].redirect>> : j \in RowsOf(s)}
           x == <<rows[i].domain, rows[i].redirect>>
<1>1. i \in RowsOf(s)
  BY DEF Primaries
<1>2. x \in own
  BY <1>1
<1>3. x \in Listed(s)
  BY <1>2 DEF Listed
<1>4. Primary(s) = rows[i].domain
  BY DEF Primary
<1>5. x[1] = Primary(s)
  BY <1>4
<1>6. [host |-> x[1], site |-> s,
       target |-> IF x[2] /\ x[1] # Primary(s) THEN Primary(s) ELSE NoDomain]
        = [host |-> Primary(s), site |-> s, target |-> NoDomain]
  BY <1>5
<1>7. QED
  BY <1>3, <1>6 DEF Generated

\* The primary domain never redirects, and what a redirect of the Caddyfile leads to is a
\* host the same site answers, with the same exceptions.
THEOREM RedirectsEnd == Spec => []RedirectsResolve
<1>1. ASSUME IInv, NEW b \in Generated, b.target # NoDomain, Settled(b.site),
             b.site \notin stale \cup spoiled
      PROVE  [host |-> b.target, site |-> b.site, target |-> NoDomain] \in Generated
  <2>1. PICK s \in Live : \E x \in Listed(s) :
          b = [host |-> x[1], site |-> s,
               target |-> IF x[2] /\ x[1] # Primary(s) THEN Primary(s) ELSE NoDomain]
    BY DEF Generated
  <2>2. b.site = s /\ b.target = Primary(s) /\ s \in Sites
    BY <1>1, <2>1 DEF Live
  <2>3. PICK i : Primaries(s) = {i}
    BY <1>1, <2>2, SettledHasOne
  <2>4. QED
    BY <1>1, <2>2, <2>3, PrimaryIsServed
<1>2. IInv => RedirectsResolve
  BY <1>1 DEF RedirectsResolve, IInv, NoPrimaryRedirect
<1>3. QED
  BY <1>2, Inductive, PTL

\* Once nothing is under way Caddy serves what the tables say, unless since the last
\* reload that began by itself one failed or met another, the panel stopped, or a user's
\* rows were deleted: the last reload reads them after the last write.
THEOREM LastReloadServes == Spec => []ServedIsCurrent
<1>1. IInv => ServedIsCurrent
  <2>1. SUFFICES ASSUME IInv, req = [r \in Requests |-> Idle],
                        reload = [ch \in Channels |-> NoReload], ~doubtful
                 PROVE  "served" \in current
    BY DEF ServedIsCurrent
  <2>2. \A ch \in Channels : ~UnderWay(ch)
    BY <2>1 DEF UnderWay
  <2>3. \A r \in Requests : ~WillReload(r)
    BY <2>1 DEF WillReload, Waits, Creating, Idle
  <2>4. QED
    BY <2>1, <2>2, <2>3 DEF IInv, Covered
<1>2. QED
  BY <1>1, Inductive, PTL
=============================================================================
