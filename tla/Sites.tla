------------------------------- MODULE Sites -------------------------------
(***************************************************************************)
(* The sites of one user (internal/api/sites.go): creation and deletion    *)
(* with the site's directory, UpdateSettings with its roll-back, and the   *)
(* HTTPS that List switches on; with them, the other requests after which  *)
(* Caddy must be reloaded, and the two ways the agent reloads it: under    *)
(* reloadMu, and without it.                                               *)
(*                                                                         *)
(* What Caddy runs and what a reload has read are not kept as data: the    *)
(* set current says which of them still show the tables.                   *)
(***************************************************************************)
EXTENDS Naturals, FiniteSets

CONSTANTS
    Requests,  \* requests served at the same time
    Sites,     \* ids of sites; one is drawn again once nothing names it
    Slugs,     \* names of site directories
    Values,    \* everything in the settings but force_https
    Broken,    \* values with which a reload cannot succeed
    Asked,     \* what updates ask of force_https
    MaxSites   \* what max_sites allows the user

ASSUME ConstantsAssumption ==
    /\ Broken \subseteq Values
    /\ Values \ Broken # {}
    /\ Asked \subseteq BOOLEAN
    /\ MaxSites \in Nat

VARIABLES
    row,       \* the table sites
    dirs,      \* the site directories of the user
    current,   \* what shows the tables: Caddy, or a reload that has read them
    reload,    \* the reloads under way, by whether they hold reloadMu
    req,       \* the requests under way
    settled,   \* history: the settings the last request to succeed left; nothing
               \*   once requests about them have met, or an update has broken off
    torn,      \* history: directories removed by a deletion that failed after it,
               \*   or was not of the site whose directory it was
    doubtful,  \* history: a reload has failed or met another one, the panel
               \*   stopped, or a user went, since a reload began by itself
    crowded    \* history: creations under way have met, since there was none

caddy == <<current, reload, doubtful>>
vars == <<row, dirs, req, caddy, settled, torn, crowded>>

Channels == {"locked", "unlocked"}
NoRow == [slug |-> "none"]
Nothing == [rest |-> "nothing"]
NoReload == "no reload"
Nobody == "nobody"
Idle == [op |-> "none"]

ASSUME RequestsAssumption ==
    /\ NoReload \notin Requests /\ Nobody \notin Requests
    /\ IsFiniteSet(Requests) /\ IsFiniteSet(Sites)

Settings == [https : BOOLEAN, rest : Values]
Row == [slug : Slugs, is : Settings]
Default(slug, rest) == [slug |-> slug, is |-> [https |-> TRUE, rest |-> rest]]
Live == {s \in Sites : row[s] # NoRow}

\* A request with what it has read.  One that has made its change and only waits
\* for a reload, whose failure it does not act on, is finishing.
Request ==
    {Idle}
    \cup [op : {"create"}, stage : {"read", "directory"}, site : Sites, slug : Slugs]
    \cup [op : {"delete"}, stage : {"read", "cleared"}, site : Sites, slug : Slugs]
    \cup [op : {"update"}, stage : {"read"}, site : Sites, old : Settings, new : Settings]
    \cup [op : {"update"}, stage : {"reload", "failed"}, site : Sites, old : Settings]
    \cup [op : {"list"}, stage : {"read"}, site : Sites, old : Settings]
    \cup [op : {"deluser"}, stage : {"reload", "rows"}]
    \cup [op : {"finish"}, stage : Channels]

TypeOK ==
    /\ row \in [Sites -> {NoRow} \cup Row]
    /\ dirs \subseteq Slugs
    /\ current \subseteq Channels \cup {"served"}
    /\ reload \in [Channels -> {NoReload, Nobody} \cup Requests]
    /\ req \in [Requests -> Request]
    /\ settled \in [Sites -> Settings \cup {Nothing}]
    /\ torn \subseteq Slugs
    /\ doubtful \in BOOLEAN
    /\ crowded \in BOOLEAN

\* More sites than the limit may be there: an administrator has lowered it.
Init ==
    /\ row \in [Sites -> {NoRow} \cup {Default(d, v) : d \in Slugs, v \in Values \ Broken}]
    /\ \A s, t \in Live : row[s].slug = row[t].slug => s = t
    /\ dirs = {row[s].slug : s \in Live}
    /\ current = {"served"}
    /\ reload = [ch \in Channels |-> NoReload]
    /\ req = [r \in Requests |-> Idle]
    /\ settled = [s \in Sites |-> IF s \in Live THEN row[s].is ELSE Nothing]
    /\ torn = {}
    /\ doubtful = FALSE
    /\ crowded = FALSE

At(r, op, stage) == req[r] # Idle /\ req[r].op = op /\ req[r].stage = stage
Creators == {r \in Requests : req[r].op = "create"}

Becomes(r, record) ==
    /\ req' = [req EXCEPT ![r] = record]
    /\ crowded' = (Creators' # {} /\ (crowded \/ Cardinality(Creators') > 1))
Goes(r, stage) == Becomes(r, [req[r] EXCEPT !.stage = stage])
Ends(r) == Becomes(r, Idle)
Begins(r, record) == req[r] = Idle /\ Becomes(r, record)
Finishes(r, ch) == Becomes(r, [op |-> "finish", stage |-> ch])

\* No copy of a table that has changed shows it any more.
Touch(changed) == current' = IF changed THEN {} ELSE current

\* Other requests that are about the settings of site s.
Meets(r, s) ==
    \E q \in Requests \ {r} : req[q].op \in {"update", "list"} /\ req[q].site = s
-----------------------------------------------------------------------------
(***************************************************************************)
(* The reload.  generateCaddyfile reads the rows and starts the PHP pools  *)
(* they need; later its file is written and loaded.  handleReloadCaddy     *)
(* holds reloadMu meanwhile; SetCaddyConfig, InstallPHP and DeleteUser do  *)
(* not.  The caller may give up on a reload that goes on, or that has yet  *)
(* to begin.                                                               *)
(***************************************************************************)
Reloadable == \A s \in Live : row[s].is.rest \notin Broken

Generate(ch, who) ==
    /\ reload[ch] = NoReload
    /\ Reloadable
    /\ reload' = [reload EXCEPT ![ch] = who]
    /\ doubtful' = \E c \in Channels : reload[c] # NoReload
    /\ current' = current \cup {ch}
    /\ UNCHANGED <<row, dirs, req, settled, torn, crowded>>

\* What becomes of a request when its reload has ended; heard says that the agent
\* has answered.
After(r, ok, heard) ==
    CASE At(r, "update", "reload") /\ ~ok -> [req[r] EXCEPT !.stage = "failed"]
      [] At(r, "deluser", "reload") /\ heard -> [req[r] EXCEPT !.stage = "rows"]
      [] OTHER -> Idle

Resume(r, ok, heard) ==
    /\ Becomes(r, After(r, ok, heard))
    /\ LET s == req[r].site
       IN IF ok /\ At(r, "update", "reload") /\ s \in Live
            THEN settled' = [settled EXCEPT ![s] = IF Meets(r, s) THEN Nothing ELSE row[s].is]
            ELSE UNCHANGED settled

Waits(r) ==
    /\ req[r].op = "finish" \/ At(r, "update", "reload") \/ At(r, "deluser", "reload")
    /\ \A ch \in Channels : reload[ch] # r

GenerateFor(r) ==
    /\ Waits(r)
    /\ LET ch == CASE req[r].op = "update" -> "locked"
                   [] req[r].op = "deluser" -> "unlocked"
                   [] OTHER -> req[r].stage
       IN Generate(ch, r)

\* For a call that was given up before it began, or for another user's sites.
GenerateLate(ch) == Generate(ch, Nobody)

Answer(ch, ok) ==
    IF reload[ch] = Nobody THEN UNCHANGED <<req, settled, crowded>>
    ELSE Resume(reload[ch], ok, TRUE)

Load(ch) ==
    /\ reload[ch] # NoReload
    /\ current' = (IF ch \in current THEN current \cup {"served"}
                                     ELSE current \ {"served"}) \ {ch}
    /\ reload' = [reload EXCEPT ![ch] = NoReload]
    /\ Answer(ch, TRUE)
    /\ UNCHANGED <<row, dirs, torn, doubtful>>

LoadFails(ch) ==
    /\ reload[ch] # NoReload
    /\ current' = current \ {ch}
    /\ reload' = [reload EXCEPT ![ch] = NoReload]
    /\ doubtful' = TRUE
    /\ Answer(ch, FALSE)
    /\ UNCHANGED <<row, dirs, torn>>

TimeOut(ch) ==
    /\ reload[ch] \in Requests
    /\ reload' = [reload EXCEPT ![ch] = Nobody]
    /\ Resume(reload[ch], FALSE, FALSE)
    /\ UNCHANGED <<row, dirs, current, torn, doubtful>>

\* The pools cannot be started, the agent is not there, or keeps others waiting.
NotReloaded(r) ==
    /\ Waits(r)
    /\ \E heard \in BOOLEAN : Resume(r, FALSE, heard)
    /\ doubtful' = TRUE
    /\ UNCHANGED <<row, dirs, current, reload, torn>>
-----------------------------------------------------------------------------
(***************************************************************************)
(* Create.                                                                 *)
(***************************************************************************)
Refers(r, s) == req[r].op \in {"create", "delete", "update", "list"} /\ req[r].site = s

Unclaimed(s, slug) ==
    /\ s \notin Live
    /\ \A r \in Requests : ~Refers(r, s)
    /\ \A t \in Live : row[t].slug # slug

\* Mutant: the sites are not counted.
ReadUncounted(r, s, slug) ==
    /\ Unclaimed(s, slug)
    /\ Begins(r, [op |-> "create", stage |-> "read", site |-> s, slug |-> slug])
    /\ UNCHANGED <<row, dirs, caddy, settled, torn>>

\* The sites are counted, the domain and the slug are looked up.
ReadForCreate(r, s, slug) ==
    /\ Unclaimed(s, slug)
    /\ Cardinality(Live) < MaxSites
    /\ Begins(r, [op |-> "create", stage |-> "read", site |-> s, slug |-> slug])
    /\ UNCHANGED <<row, dirs, caddy, settled, torn>>

\* A failure may come before the directory is made or after.
CreateSiteDirectory(r) ==
    /\ At(r, "create", "read")
    /\ \/ /\ dirs' = dirs \cup {req[r].slug}
          /\ torn' = torn \ {req[r].slug}
          /\ Goes(r, "directory") \/ Ends(r)
       \/ Ends(r) /\ UNCHANGED <<dirs, torn>>
    /\ UNCHANGED <<row, caddy, settled>>

\* Mutant: a creation that cannot store its row takes the directory away.
CreateSiteOrTidy(r, v) ==
    /\ At(r, "create", "directory")
    /\ \/ /\ \A s \in Live : row[s].slug # req[r].slug
          /\ row' = [row EXCEPT ![req[r].site] = Default(req[r].slug, v)]
          /\ settled' = [settled EXCEPT ![req[r].site] = Default(req[r].slug, v).is]
          /\ Touch(TRUE)
          /\ Finishes(r, "locked")
          /\ UNCHANGED dirs
       \/ /\ Ends(r)
          /\ dirs' = dirs \ {req[r].slug}
          /\ UNCHANGED <<row, settled, current>>
    /\ UNCHANGED <<reload, doubtful, torn>>

\* WordPress may be installed first, and may fail; the row may be refused.  The
\* directory stays in either case.
CreateSite(r, v) ==
    /\ At(r, "create", "directory")
    /\ \/ /\ \A s \in Live : row[s].slug # req[r].slug
          /\ row' = [row EXCEPT ![req[r].site] = Default(req[r].slug, v)]
          /\ settled' = [settled EXCEPT ![req[r].site] = Default(req[r].slug, v).is]
          /\ Touch(TRUE)
          /\ Finishes(r, "locked")
       \/ Ends(r) /\ UNCHANGED <<row, settled, current>>
    /\ UNCHANGED <<dirs, reload, doubtful, torn>>
-----------------------------------------------------------------------------
(***************************************************************************)
(* Delete.                                                                 *)
(***************************************************************************)
ReadForDelete(r, s) ==
    /\ s \in Live
    /\ Begins(r, [op |-> "delete", stage |-> "read", site |-> s, slug |-> row[s].slug])
    /\ UNCHANGED <<row, dirs, caddy, settled, torn>>

\* Directories that sites, or creations under way, count on.
Needed(sites) ==
    {row[s].slug : s \in sites}
    \cup {req[q].slug : q \in {p \in Requests : At(p, "create", "directory")}}
NeededByOthers(s) == Needed(Live \ {s})

\* The directory is found by its name; a call that has timed out removes it too.
DeleteSiteDirectory(r) ==
    /\ At(r, "delete", "read")
    /\ LET gone == {req[r].slug}
       IN \/ /\ dirs' = dirs \ gone
             /\ \/ /\ Goes(r, "cleared")
                   /\ torn' = torn \cup (gone \cap NeededByOthers(req[r].site))
                \/ /\ Ends(r)
                   /\ torn' = torn \cup (gone \cap Needed(Live))
          \/ Ends(r) /\ UNCHANGED <<dirs, torn>>
    /\ UNCHANGED <<row, caddy, settled>>

DeleteSite(r) ==
    /\ At(r, "delete", "cleared")
    /\ \/ /\ row' = [row EXCEPT ![req[r].site] = NoRow]
          /\ settled' = [settled EXCEPT ![req[r].site] = Nothing]
          /\ Touch(req[r].site \in Live)
          /\ Finishes(r, "locked")
          /\ torn' = torn \cap NeededByOthers(req[r].site)
       \/ /\ Ends(r)
          /\ torn' = torn \cup (({req[r].slug} \cap Needed(Live)) \ dirs)
          /\ UNCHANGED <<row, current, settled>>
    /\ UNCHANGED <<dirs, reload, doubtful>>
-----------------------------------------------------------------------------
(***************************************************************************)
(* UpdateSettings.                                                         *)
(***************************************************************************)
\* UPDATE ... WHERE id = ?, which is an error when there is no such row.
SetSettings(s, is) ==
    /\ s \in Live
    /\ row' = [row EXCEPT ![s].is = is]
    /\ Touch(row[s].is # is)

\* The statement fails, the site is gone or the client is: the request ends.
Fails(r) == Ends(r) /\ UNCHANGED <<row, current>>

ReadSettings(r, s, record) ==
    /\ s \in Live
    /\ Begins(r, record)
    /\ settled' = IF Meets(r, s) THEN [settled EXCEPT ![s] = Nothing] ELSE settled
    /\ UNCHANGED <<row, dirs, caddy, torn>>

ReadForUpdate(r, s, new) ==
    ReadSettings(r, s, [op |-> "update", stage |-> "read", site |-> s, old |-> row[s].is,
                        new |-> new])

WriteSettings(r) ==
    /\ At(r, "update", "read")
    /\ \/ /\ SetSettings(req[r].site, req[r].new)
          /\ Becomes(r, [op |-> "update", stage |-> "reload", site |-> req[r].site,
                         old |-> req[r].old])
       \/ Fails(r)
    /\ UNCHANGED <<dirs, reload, doubtful, settled, torn>>

\* Mutant: only the PHP settings are put back.
RollBackPartly(r) ==
    /\ At(r, "update", "failed")
    /\ \/ /\ SetSettings(req[r].site,
                         [row[req[r].site].is EXCEPT !.rest = req[r].old.rest])
          /\ Finishes(r, "locked")
          /\ UNCHANGED settled
       \/ Fails(r) /\ settled' = [settled EXCEPT ![req[r].site] = Nothing]
    /\ UNCHANGED <<dirs, reload, doubtful, torn>>

\* Mutant: nothing is reloaded after the roll-back.
RollBackOnly(r) ==
    /\ At(r, "update", "failed")
    /\ \/ /\ SetSettings(req[r].site, req[r].old)
          /\ Ends(r)
          /\ UNCHANGED settled
       \/ Fails(r) /\ settled' = [settled EXCEPT ![req[r].site] = Nothing]
    /\ UNCHANGED <<dirs, reload, doubtful, torn>>

RollBack(r) ==
    /\ At(r, "update", "failed")
    /\ \/ /\ SetSettings(req[r].site, req[r].old)
          /\ Finishes(r, "locked")
          /\ UNCHANGED settled
       \/ Fails(r) /\ settled' = [settled EXCEPT ![req[r].site] = Nothing]
    /\ UNCHANGED <<dirs, reload, doubtful, torn>>
-----------------------------------------------------------------------------
(***************************************************************************)
(* List: between reading the rows and writing one of them it opens a TLS   *)
(* connection to every domain of the site.                                 *)
(***************************************************************************)
ReadForList(r, s) ==
    /\ s \in Live
    /\ ~row[s].is.https
    /\ ReadSettings(r, s, [op |-> "list", stage |-> "read", site |-> s, old |-> row[s].is])

EnableHTTPS(r) ==
    /\ At(r, "list", "read")
    /\ \/ /\ SetSettings(req[r].site, [req[r].old EXCEPT !.https = TRUE])
          /\ settled' = IF settled[req[r].site] = Nothing THEN settled
                        ELSE [settled EXCEPT ![req[r].site].https = TRUE]
          /\ Finishes(r, "locked")
       \/ Fails(r) /\ UNCHANGED settled
    /\ UNCHANGED <<dirs, reload, doubtful, torn>>
-----------------------------------------------------------------------------
(***************************************************************************)
(* Other requests that end with a reload: ToggleSuspension and             *)
(* SetCaddyConfig, whose writing stays when the reload fails, the          *)
(* installation of a PHP version, and Delete of another user, whose rows   *)
(* go after the agent has reloaded Caddy.                                  *)
(***************************************************************************)
WriteAndFinish(r, ch, changed) ==
    /\ req[r] = Idle
    /\ Finishes(r, ch)
    /\ Touch(changed)
    /\ UNCHANGED <<row, dirs, reload, doubtful, settled, torn>>

ToggleSuspension(r) == WriteAndFinish(r, "locked", TRUE)
SetCaddyConfig(r) == WriteAndFinish(r, "unlocked", TRUE)
InstallPHPVersion(r) == WriteAndFinish(r, "unlocked", FALSE)

DeleteUser(r) ==
    /\ Begins(r, [op |-> "deluser", stage |-> "reload"])
    /\ UNCHANGED <<row, dirs, caddy, settled, torn>>

DeleteUserRows(r) ==
    /\ At(r, "deluser", "rows")
    /\ (Touch(TRUE) /\ doubtful' = TRUE) \/ UNCHANGED <<current, doubtful>>
    /\ Ends(r)
    /\ UNCHANGED <<row, dirs, reload, settled, torn>>
-----------------------------------------------------------------------------
\* The panel stops under its requests.  The agent goes on.
PanelStops ==
    /\ req # [r \in Requests |-> Idle]
    /\ req' = [r \in Requests |-> Idle]
    /\ crowded' = FALSE
    /\ settled' = [s \in Sites |-> Nothing]
    /\ torn' = torn \cup {req[r].slug : r \in {q \in Requests : At(q, "delete", "cleared")}}
    /\ doubtful' = TRUE
    /\ reload' = [ch \in Channels |->
                    IF reload[ch] = NoReload THEN NoReload ELSE Nobody]
    /\ UNCHANGED <<row, dirs, current>>
-----------------------------------------------------------------------------
SiteStep(r, s) ==
    \/ \E slug \in Slugs : ReadForCreate(r, s, slug)
    \/ ReadForDelete(r, s)
    \/ \E new \in [https : Asked, rest : Values] : ReadForUpdate(r, s, new)
    \/ ReadForList(r, s)

RequestStep(r) ==
    \/ CreateSiteDirectory(r)
    \/ \E v \in Values \ Broken : CreateSite(r, v)
    \/ DeleteSiteDirectory(r) \/ DeleteSite(r)
    \/ WriteSettings(r) \/ RollBack(r)
    \/ EnableHTTPS(r)
    \/ ToggleSuspension(r) \/ SetCaddyConfig(r) \/ InstallPHPVersion(r)
    \/ DeleteUser(r) \/ DeleteUserRows(r)
    \/ GenerateFor(r) \/ NotReloaded(r)

Next ==
    \/ \E r \in Requests, s \in Sites : SiteStep(r, s)
    \/ \E r \in Requests : RequestStep(r)
    \/ \E ch \in Channels : GenerateLate(ch) \/ Load(ch) \/ LoadFails(ch) \/ TimeOut(ch)
    \/ PanelStops

Spec == Init /\ [][Next]_vars
-----------------------------------------------------------------------------
(***************************************************************************)
(* Properties.                                                             *)
(***************************************************************************)
\* An update of a site's settings takes effect or leaves no trace, even when the
\* reload fails because of another site's settings.  It needs that no other request
\* about that site meets it, and that its client stays (the roll-back uses the
\* context of the request, sites.go:774).
AllOrNothingUnlessDisturbed ==
    \A s \in Live :
        (\A r \in Requests : ~Refers(r, s)) => settled[s] \in {row[s].is, Nothing}

\* The sites are counted long before the row is inserted, with the installation of
\* WordPress in between (sites.go:417).  A creation that has met no other keeps the
\* limit; and however many meet, no site is added past the limit and one for every
\* other request that can be served meanwhile.
LimitKeptUnlessCrowded ==
    [][ Live' \ Live # {} =>
            Cardinality(Live') <= MaxSites + (IF crowded THEN Cardinality(Requests) - 1
                                                         ELSE 0) ]_vars

\* Once nothing is under way Caddy runs what the tables say.  Every request writes
\* first and reloads after, so that the last reload has read the last write; it fails
\* after a reload that failed, or that crossed one that does not take reloadMu.
ServedIsCurrent ==
    ( /\ req = [r \in Requests |-> Idle]
      /\ reload = [ch \in Channels |-> NoReload]
      /\ ~doubtful ) => "served" \in current

\* A site that is served has its directory, while no deletion is removing it: the
\* directory is removed by name (sites.go:652), and must be the deleted site's own.
SitesHaveDirectories ==
    \A s \in Live :
        \/ row[s].slug \in dirs \cup torn
        \/ \E r \in Requests : At(r, "delete", "cleared") /\ req[r].slug = row[s].slug
=============================================================================
