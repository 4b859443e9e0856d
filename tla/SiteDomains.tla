---------------------------- MODULE SiteDomains ----------------------------
(***************************************************************************)
(* The domains of the sites: the handlers of internal/api/sites.go that    *)
(* write the tables sites and site_domains, and the Caddyfile              *)
(* generateCaddyfile (internal/agent/handlers.go) makes of the two.        *)
(*                                                                         *)
(* Every handler reads a row, decides, and writes in a later transaction;  *)
(* requests interleave between the two.  Then it has the agent reload      *)
(* Caddy, and only logs when that fails.                                   *)
(*                                                                         *)
(* What Caddy runs and what a reload has read are not kept as data: the    *)
(* set current says which of them still show the tables, as in Sites.      *)
(***************************************************************************)
EXTENDS Naturals, FiniteSets

CONSTANTS
    Sites,        \* the uuids Create draws
    Domains,
    Apexes,       \* domains that get a www alias
    Www,          \* their aliases (automaticWWWRedirectDomain)
    NoDomain,
    Requests,     \* requests served at the same time
    MaxDomains,   \* maxDomainsPerSite
    MaxRows       \* bound: rows of site_domains ever inserted

ASSUME ConstantsAssumption ==
    /\ NoDomain \notin Domains
    /\ Apexes \subseteq Domains
    /\ Www \in [Apexes -> Domains \ Apexes]
    /\ MaxDomains \in Nat /\ MaxRows \in Nat

VARIABLES
    site,     \* "unborn", "live" or "gone": the rows of sites
    main,     \* sites.domain of each site
    rows,     \* site_domains, by id
    drawn,    \* the last id SQLite gave to a row
    req,      \* the requests under way
    current,  \* what is known to show the tables: Caddy, a reload that has read them
    reload,   \* the reloads under way, by whether they hold reloadMu
    doubtful, \* history: since a reload began by itself one has failed or met
              \*   another, the panel has stopped, or rows went with their user
    stale,    \* history: sites with a row written on a stale reading
    spoiled   \* history: sites whose primary domain Create failed to insert, or
              \*   inserted after another row

tables == <<site, main, rows, drawn>>
caddy == <<current, reload, doubtful>>
history == <<stale, spoiled>>
vars == <<tables, req, caddy, history>>

Channels == {"locked", "unlocked"}
NoReload == "no reload"
Nobody == "nobody"

ASSUME RequestsAssumption == NoReload \notin Requests /\ Nobody \notin Requests

Row == [site : Sites, domain : Domains, primary : BOOLEAN, redirect : BOOLEAN]

Idle == [op |-> "none"]

\* A request between two of its transactions.  id and seen are the row the
\* request read; stage counts the steps of a creation.
Request ==
    {Idle}
    \cup [op : {"create"}, stage : {"free", "checked", "site", "primary"},
          site : Sites, domain : Domains]
    \cup [op : {"add"}, site : Sites, domain : Domains, redirect : BOOLEAN]
    \cup [op : {"update"}, id : Nat, seen : Row, redirect : BOOLEAN]
    \cup [op : {"setPrimary", "deleteDomain"}, id : Nat, seen : Row]
    \cup [op : {"deleteSite"}, site : Sites]
    \cup [op : {"reload"}]

TypeOK ==
    /\ site \in [Sites -> {"unborn", "live", "gone"}]
    /\ main \in [Sites -> Domains \cup {NoDomain}]
    /\ DOMAIN rows \subseteq 1..drawn /\ \A i \in DOMAIN rows : rows[i] \in Row
    /\ drawn \in Nat
    /\ req \in [Requests -> Request]
    /\ current \subseteq Channels \cup {"served"}
    /\ reload \in [Channels -> {NoReload, Nobody} \cup Requests]
    /\ doubtful \in BOOLEAN
    /\ stale \subseteq Sites /\ spoiled \subseteq Sites

Init ==
    /\ site = [s \in Sites |-> "unborn"]
    /\ main = [s \in Sites |-> NoDomain]
    /\ rows = <<>>
    /\ drawn = 0
    /\ req = [r \in Requests |-> Idle]
    /\ current = {"served"}
    /\ reload = [ch \in Channels |-> NoReload]
    /\ doubtful = FALSE
    /\ stale = {} /\ spoiled = {}
-----------------------------------------------------------------------------
(***************************************************************************)
(* The Caddyfile.                                                          *)
(***************************************************************************)
Live == {s \in Sites : site[s] = "live"}
RowsOf(s) == {i \in DOMAIN rows : rows[i].site = s}
Primaries(s) == {i \in RowsOf(s) : rows[i].primary}
Taken(d) == \E i \in DOMAIN rows : rows[i].domain = d

\* The primary domain as the generator sees it: sites.domain unless a row says
\* otherwise; of several, the last the query returns, which SQLite leaves open.
Primary(s) == IF Primaries(s) = {}
                THEN main[s]
                ELSE rows[CHOOSE i \in Primaries(s) : TRUE].domain

\* The domains of a site with their redirect flags: its rows, or sites.domain
\* when there is none, and the automatic www alias when it is not among them.
Listed(s) ==
    LET own == {<<rows[i].domain, rows[i].redirect>> : i \in RowsOf(s)}
        base == IF own = {} THEN {<<main[s], FALSE>>} ELSE own
        p == Primary(s)
    IN  base \cup (IF p \in Apexes /\ \A x \in base : x[1] # Www[p]
                     THEN {<<Www[p], TRUE>>} ELSE {})

Generated ==
    UNION {{[host |-> x[1], site |-> s,
             target |-> IF x[2] /\ x[1] # Primary(s) THEN Primary(s) ELSE NoDomain]
              : x \in Listed(s)} : s \in Live}

\* Caddy rejects a configuration that names one host in two site blocks.
Acceptable(blocks) == \A a, b \in blocks : a.host = b.host => a.site = b.site
-----------------------------------------------------------------------------
(***************************************************************************)
(* Transactions.  UNIQUE and FOREIGN KEY are the schema's.                 *)
(***************************************************************************)
\* Mutant: the id is not recorded as drawn.
InsertUnnumbered(s, d, primary, redirect) ==
    /\ site[s] = "live"
    /\ ~Taken(d)
    /\ UNCHANGED drawn
    /\ rows' = [i \in DOMAIN rows \cup {drawn + 1} |->
                  IF i = drawn + 1 THEN [site |-> s, domain |-> d, primary |-> primary,
                                         redirect |-> redirect]
                                   ELSE rows[i]]

Insert(s, d, primary, redirect) ==
    /\ site[s] = "live"
    /\ ~Taken(d)
    /\ drawn' = drawn + 1
    /\ rows' = [i \in DOMAIN rows \cup {drawn'} |->
                  IF i = drawn' THEN [site |-> s, domain |-> d, primary |-> primary,
                                      redirect |-> redirect]
                                ELSE rows[i]]

\* Refused by the schema, or the client has left and with it the context of the
\* request, without which no statement runs.
InsertFails == UNCHANGED <<rows, drawn>>

Remove(ids) == rows' = [i \in DOMAIN rows \ ids |-> rows[i]]

\* No copy of a table that has changed shows it any more.
Touch == current' = IF <<site, main, rows>>' = <<site, main, rows>> THEN current ELSE {}

\* The row a request is about to write is not the one it decided on.
Stale(r) == req[r].id \notin DOMAIN rows \/ rows[req[r].id] # req[r].seen

\* Bound: rows that are there, that creations and additions under way may still
\* insert, and n more.
Room(n) ==
    drawn + 2 * Cardinality({r \in Requests : req[r].op = "create"})
          + Cardinality({r \in Requests : req[r].op = "add"}) + n <= MaxRows

Becomes(r, record) == req' = [req EXCEPT ![r] = record]
Begin(r, record) ==
    /\ req[r] = Idle
    /\ Becomes(r, record)
    /\ UNCHANGED <<tables, caddy, history>>
Committed(r) == Becomes(r, [op |-> "reload"])
-----------------------------------------------------------------------------
(***************************************************************************)
(* Create: the availability checks, the site, its primary domain, its      *)
(* alias.  Only the first insert can fail the request.                     *)
(***************************************************************************)
CheckDomain(r, s, d) ==
    /\ site[s] = "unborn"
    /\ \A q \in Requests : req[q].op = "create" => req[q].site # s
    /\ Room(2)
    /\ ~Taken(d)
    /\ Begin(r, [op |-> "create", stage |-> "free", site |-> s, domain |-> d])

Creating(r, stage) == req[r].op = "create" /\ req[r].stage = stage

CheckWww(r) ==
    /\ Creating(r, "free")
    /\ IF req[r].domain \in Apexes /\ Taken(Www[req[r].domain])
         THEN Becomes(r, Idle)
         ELSE Becomes(r, [req[r] EXCEPT !.stage = "checked"])
    /\ UNCHANGED <<tables, caddy, history>>

InsertSite(r) ==
    LET s == req[r].site
        d == req[r].domain
    IN  /\ Creating(r, "checked")
        /\ IF \E t \in Live : main[t] = d
             THEN Becomes(r, Idle) /\ UNCHANGED <<site, main>>
             ELSE /\ site' = [site EXCEPT ![s] = "live"]
                  /\ main' = [main EXCEPT ![s] = d]
                  /\ Becomes(r, [req[r] EXCEPT !.stage = "site"])
        /\ UNCHANGED <<rows, drawn, reload, doubtful, history>>
        /\ Touch

InsertPrimary(r) ==
    LET s == req[r].site
        d == req[r].domain
    IN  /\ Creating(r, "site")
        /\ \/ /\ Insert(s, d, TRUE, FALSE)
              /\ spoiled' = IF RowsOf(s) = {} THEN spoiled ELSE spoiled \cup {s}
           \/ InsertFails /\ spoiled' = spoiled \cup {s}
        /\ IF d \in Apexes THEN Becomes(r, [req[r] EXCEPT !.stage = "primary"])
                           ELSE Committed(r)
        /\ UNCHANGED <<site, main, reload, doubtful, stale>>
        /\ Touch

InsertWww(r) ==
    LET s == req[r].site
        w == Www[req[r].domain]
    IN  /\ Creating(r, "primary")
        /\ Insert(s, w, FALSE, TRUE) \/ InsertFails
        /\ Committed(r)
        /\ UNCHANGED <<site, main, reload, doubtful, history>>
        /\ Touch
-----------------------------------------------------------------------------
(***************************************************************************)
(* AddDomain, UpdateDomain, SetPrimaryDomain, DeleteDomain, Delete.        *)
(***************************************************************************)
ReadForAdd(r, s, d, redirect) ==
    /\ site[s] = "live"
    /\ Room(1)
    /\ Cardinality(RowsOf(s)) < MaxDomains
    /\ Begin(r, [op |-> "add", site |-> s, domain |-> d, redirect |-> redirect])

AddDomain(r) ==
    LET q == req[r]
    IN  /\ q.op = "add"
        /\ \/ Insert(q.site, q.domain, FALSE, q.redirect) /\ Committed(r)
           \/ InsertFails /\ Becomes(r, Idle)
        /\ UNCHANGED <<site, main, reload, doubtful, history>>
        /\ Touch

ReadForUpdate(r, i, redirect) ==
    /\ ~(rows[i].primary /\ redirect)
    /\ Begin(r, [op |-> "update", id |-> i, seen |-> rows[i], redirect |-> redirect])

\* Mutant: the statement leaves is_primary alone.
UpdateRedirectOnly(r) ==
    LET q == req[r]
    IN  /\ q.op = "update"
        /\ rows' = [i \in DOMAIN rows |->
                      IF i = q.id THEN [rows[i] EXCEPT !.redirect = q.redirect] ELSE rows[i]]
        /\ stale' = IF Stale(r) THEN stale \cup {q.seen.site} ELSE stale
        /\ Committed(r)
        /\ UNCHANGED <<site, main, drawn, reload, doubtful, spoiled>>
        /\ Touch

\* UpdateSiteDomain writes both flags of the copy that was read.
UpdateDomain(r) ==
    LET q == req[r]
    IN  /\ q.op = "update"
        /\ rows' = [i \in DOMAIN rows |->
                      IF i = q.id
                        THEN [rows[i] EXCEPT !.primary = q.seen.primary, !.redirect = q.redirect]
                        ELSE rows[i]]
        /\ stale' = IF Stale(r) THEN stale \cup {q.seen.site} ELSE stale
        /\ Committed(r)
        /\ UNCHANGED <<site, main, drawn, reload, doubtful, spoiled>>
        /\ Touch

ReadForPrimary(r, i) == Begin(r, [op |-> "setPrimary", id |-> i, seen |-> rows[i]])

\* Mutant: the flags of the other rows are not cleared.
SetPrimaryOnly(r) ==
    LET q == req[r]
    IN  /\ q.op = "setPrimary"
        /\ rows' = [i \in DOMAIN rows |->
                      IF i = q.id THEN [rows[i] EXCEPT !.primary = TRUE, !.redirect = FALSE]
                                  ELSE rows[i]]
        /\ IF q.id \in DOMAIN rows
             THEN stale' = stale \ {q.seen.site} /\ spoiled' = spoiled \ {q.seen.site}
             ELSE stale' = stale \cup {q.seen.site} /\ UNCHANGED spoiled
        /\ Committed(r)
        /\ UNCHANGED <<site, main, drawn, reload, doubtful>>
        /\ Touch

\* One transaction: clears every flag of the site, then sets the row's, if the
\* row is still there.  sites.domain stays what it was.
SetPrimaryDomain(r) ==
    LET q == req[r]
    IN  /\ q.op = "setPrimary"
        /\ rows' = [i \in DOMAIN rows |->
                      IF i = q.id THEN [rows[i] EXCEPT !.primary = TRUE, !.redirect = FALSE]
                      ELSE IF i \in RowsOf(q.seen.site) THEN [rows[i] EXCEPT !.primary = FALSE]
                      ELSE rows[i]]
        /\ IF q.id \in DOMAIN rows
             THEN stale' = stale \ {q.seen.site} /\ spoiled' = spoiled \ {q.seen.site}
             ELSE stale' = stale \cup {q.seen.site} /\ UNCHANGED spoiled
        /\ Committed(r)
        /\ UNCHANGED <<site, main, drawn, reload, doubtful>>
        /\ Touch

\* Mutant: the primary domain can be deleted as well.
ReadAnyForDelete(r, i) == Begin(r, [op |-> "deleteDomain", id |-> i, seen |-> rows[i]])

ReadForDelete(r, i) ==
    /\ ~rows[i].primary
    /\ Begin(r, [op |-> "deleteDomain", id |-> i, seen |-> rows[i]])

\* Mutant: the reload is left out.
DeleteWithoutReload(r) ==
    LET q == req[r]
    IN  /\ q.op = "deleteDomain"
        /\ Remove({q.id})
        /\ stale' = IF Stale(r) THEN stale \cup {q.seen.site} ELSE stale
        /\ Becomes(r, Idle)
        /\ UNCHANGED <<site, main, drawn, reload, doubtful, spoiled>>
        /\ Touch

DeleteDomain(r) ==
    LET q == req[r]
    IN  /\ q.op = "deleteDomain"
        /\ Remove({q.id})
        /\ stale' = IF Stale(r) THEN stale \cup {q.seen.site} ELSE stale
        /\ Committed(r)
        /\ UNCHANGED <<site, main, drawn, reload, doubtful, spoiled>>
        /\ Touch

ReadForDeleteSite(r, s) ==
    /\ site[s] = "live"
    /\ Begin(r, [op |-> "deleteSite", site |-> s])

\* The rows of its domains go with the site (ON DELETE CASCADE).
DeleteSite(r) ==
    LET s == req[r].site
    IN  /\ req[r].op = "deleteSite"
        /\ site' = [site EXCEPT ![s] = IF @ = "live" THEN "gone" ELSE @]
        /\ main' = [main EXCEPT ![s] = NoDomain]
        /\ Remove(RowsOf(s))
        /\ Committed(r)
        /\ UNCHANGED <<drawn, reload, doubtful, history>>
        /\ Touch

\* The client leaves before the request has written anything: its next statement
\* fails.  Only a creation goes on after a failed statement.
Abandon(r) ==
    /\ \/ Creating(r, "free") \/ Creating(r, "checked")
       \/ req[r].op \in {"update", "setPrimary", "deleteDomain", "deleteSite"}
    /\ Becomes(r, Idle)
    /\ UNCHANGED <<tables, caddy, history>>
-----------------------------------------------------------------------------
(***************************************************************************)
(* The trailing reload, whose failure is logged.  handleReloadCaddy holds  *)
(* reloadMu from reading the rows to loading the file; InstallPHP,         *)
(* SetCaddyConfig and DeleteUser of the agent do the same without it.  The *)
(* caller may give up on a reload that goes on, or that has yet to begin.  *)
(***************************************************************************)
UnderWay(ch) == reload[ch] # NoReload

\* It is open what Caddy will run.
Doubt == doubtful' = TRUE /\ current' = {}

Generate(ch, who) ==
    /\ ~UnderWay(ch)
    /\ reload' = [reload EXCEPT ![ch] = who]
    /\ IF \E c \in Channels : UnderWay(c)
         THEN Doubt
         ELSE doubtful' = FALSE /\ current' = current \cup {ch}
    /\ UNCHANGED <<tables, req, history>>

Waits(r) == req[r].op = "reload" /\ \A ch \in Channels : reload[ch] # r

GenerateFor(r) == Waits(r) /\ Generate("locked", r)

\* For a call that was given up before it began, and for the other handlers.
GenerateLate(ch) == Generate(ch, Nobody)

Answer(ch) ==
    req' = [r \in Requests |-> IF reload[ch] = r THEN Idle ELSE req[r]]

Load(ch) ==
    /\ UnderWay(ch)
    /\ ch \in current => Acceptable(Generated)
    /\ reload' = [reload EXCEPT ![ch] = NoReload]
    /\ current' = (IF ch \in current THEN current \cup {"served"}
                                     ELSE current \ {"served"}) \ {ch}
    /\ Answer(ch)
    /\ UNCHANGED <<tables, doubtful, history>>

LoadFails(ch) ==
    /\ UnderWay(ch)
    /\ reload' = [reload EXCEPT ![ch] = NoReload]
    /\ Doubt
    /\ Answer(ch)
    /\ UNCHANGED <<tables, history>>

TimeOut(ch) ==
    /\ reload[ch] \in Requests
    /\ reload' = [reload EXCEPT ![ch] = Nobody]
    /\ Answer(ch)
    /\ UNCHANGED <<tables, current, doubtful, history>>

\* The agent is not there, keeps others waiting, or cannot generate the file.
NotReloaded(r) ==
    /\ Waits(r)
    /\ Becomes(r, Idle)
    /\ Doubt
    /\ UNCHANGED <<tables, reload, history>>
-----------------------------------------------------------------------------
(***************************************************************************)
(* What else happens to rows and requests.                                 *)
(***************************************************************************)
\* Delete of a user: its sites and their domains go by cascade, after the agent has
\* reloaded Caddy, and nothing reloads it again.
DeleteUserRows(gone) ==
    /\ gone # {}
    /\ site' = [s \in Sites |-> IF s \in gone THEN "gone" ELSE site[s]]
    /\ main' = [s \in Sites |-> IF s \in gone THEN NoDomain ELSE main[s]]
    /\ Remove(UNION {RowsOf(s) : s \in gone})
    /\ Doubt
    /\ UNCHANGED <<drawn, req, reload, history>>

\* The panel stops under its requests.  The agent goes on.
PanelStops ==
    /\ req # [r \in Requests |-> Idle]
    /\ req' = [r \in Requests |-> Idle]
    /\ spoiled' = spoiled \cup {req[r].site : r \in {q \in Requests : Creating(q, "site")}}
    /\ reload' = [ch \in Channels |-> IF UnderWay(ch) THEN Nobody ELSE NoReload]
    /\ Doubt
    /\ UNCHANGED <<tables, stale>>
-----------------------------------------------------------------------------
RequestStep(r) ==
    \/ \E s \in Sites, d \in Domains :
         \/ CheckDomain(r, s, d)
         \/ \E redirect \in BOOLEAN : ReadForAdd(r, s, d, redirect)
    \/ \E i \in DOMAIN rows :
         \/ \E redirect \in BOOLEAN : ReadForUpdate(r, i, redirect)
         \/ ReadForPrimary(r, i) \/ ReadForDelete(r, i)
    \/ \E s \in Sites : ReadForDeleteSite(r, s)
    \/ CheckWww(r) \/ InsertSite(r) \/ InsertPrimary(r) \/ InsertWww(r)
    \/ AddDomain(r) \/ UpdateDomain(r) \/ SetPrimaryDomain(r) \/ DeleteDomain(r)
    \/ DeleteSite(r) \/ Abandon(r) \/ GenerateFor(r) \/ NotReloaded(r)

Next ==
    \/ \E r \in Requests : RequestStep(r)
    \/ \E ch \in Channels : GenerateLate(ch) \/ Load(ch) \/ LoadFails(ch) \/ TimeOut(ch)
    \/ \E gone \in SUBSET Live : DeleteUserRows(gone)
    \/ PanelStops

Spec == Init /\ [][Next]_vars
-----------------------------------------------------------------------------
(***************************************************************************)
(* Properties.                                                             *)
(***************************************************************************)
Settled(s) ==
    /\ site[s] = "live"
    /\ \A r \in Requests : req[r].op = "create" => req[r].site # s

\* What DomainExists ("already in use (globally)") is for: no host belongs to two
\* sites, which makes Caddy reject the configuration of all of them.
HostsBelongToOneSite == Acceptable(Generated)

\* What SetPrimaryDomain's "Clear all primary flags for this site" and DeleteDomain's
\* "Can't delete primary domain" are for: a site has exactly one primary domain.  It is
\* lost only when a request writes a row that is not the one it had read, and
\* SetPrimaryDomain repairs it.
OnePrimaryUnlessStale ==
    \A s \in Sites \ (stale \cup spoiled) : Settled(s) => Cardinality(Primaries(s)) = 1

\* Redirects end.  The primary domain is never one, in whatever order UpdateDomain's
\* stale copy and SetPrimaryDomain's transaction are written, because both write both
\* flags; and one leads to a host that the same site answers, under the same exception.
RedirectsResolve ==
    /\ \A i \in DOMAIN rows : ~(rows[i].primary /\ rows[i].redirect)
    /\ \A b \in Generated :
         (b.target # NoDomain /\ Settled(b.site) /\ b.site \notin stale \cup spoiled)
             => [host |-> b.target, site |-> b.site, target |-> NoDomain] \in Generated

\* Once nothing is under way Caddy runs what the tables say: every handler, a creation
\* that goes on after failed inserts included, reloads after its last write, and the last
\* reload has read the last write.  It fails after a reload that failed or crossed one
\* that does not take reloadMu, a stop between a write and its reload, and a cascade.
ServedIsCurrent ==
    ( /\ req = [r \in Requests |-> Idle]
      /\ reload = [ch \in Channels |-> NoReload]
      /\ ~doubtful ) => "served" \in current
=============================================================================
