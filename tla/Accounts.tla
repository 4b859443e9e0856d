------------------------------ MODULE Accounts ------------------------------
(***************************************************************************)
(* System users, MariaDB databases and SSH keys: internal/api/users.go,    *)
(* databases.go and ssh.go, with the handlers of litecp-agent they call.   *)
(* Every operation changes the server through the agent and the panel's    *)
(* database by a statement of its own, and nothing holds the two together: *)
(* two requests may take these steps in different orders, a step may fail  *)
(* after the other has succeeded, and a call that has failed may still be  *)
(* carried out (AgentCall).  A panel that stops is a request that fails at *)
(* each of its steps.  And some steps may fail without the handler or the  *)
(* service saying so: it logs a warning, or nothing, and answers ok.       *)
(***************************************************************************)
EXTENDS Naturals, FiniteSets

CONSTANTS
    Users, Databases, Keys,   \* user names, database names, ids of SSH keys
    Owner,       \* the user of a database or key
    Values,      \* resource limits of a user, passwords of a database
    Default,     \* the limits of a user that logs in without a row
    Unlimited,   \* an account without resource limits
    None,        \* no row, or nothing on the server
    Blank,       \* the stored password of a database that could not be encrypted
    Requests,    \* requests served at the same time
    Calls,       \* bound: the calls that are ever made
    LateCalls,   \* bound: the calls that may be carried out after they have failed
    MaxLate,     \* bound: how many of them at a time
    MayFail      \* whether calls, statements and userdel fail

Objects == Users \cup Databases \cup Keys

VARIABLES
    rows,        \* users, databases and ssh_keys: the value the panel has stored
    server,      \* /etc/passwd and slices, MariaDB, authorized_keys
    keyFiles,    \* users with an authorized_keys file
    used,        \* ids of keys drawn so far
    req,         \* the requests under way
    late,        \* calls that failed and that the agent may still carry out
    torn         \* history: objects of which a request may have left the two stores
                 \* apart: it failed half way or met another, or some of it failed and
                 \* was only logged

vars == <<rows, server, keyFiles, used, req, late, torn>>

Op == [kind : {"create", "change", "delete"}, on : Objects, value : Values]
ASSUME ConstantsAssumption ==
    /\ Users \cap Databases = {} /\ Users \cap Keys = {} /\ Databases \cap Keys = {}
    /\ Owner \in [Databases \cup Keys -> Users]
    /\ Default \in Values
    /\ Calls \subseteq Op /\ LateCalls \subseteq Op /\ MaxLate \in Nat
    /\ None \notin Values \cup {Unlimited, Blank}
    /\ MayFail \in BOOLEAN

Idle == [stage |-> "idle"]

\* A request between two of its steps: before the call, before the statement, before
\* the call that takes back a creation.  same: the row it has read is still there.
\* alone: nothing has touched its object beside it.  missed: what the agent has failed
\* to put right, though it has answered ok.
Request ==
    {Idle} \cup [stage : {"call", "row", "undo"}, op : Op, same : BOOLEAN, alone : BOOLEAN,
                 missed : SUBSET Objects]

\* kept: nothing, or the keys handleRemoveSSHKey has read and is about to write back.
Late ==
    {l \in [op : Op, kept : {{}} \cup {{S} : S \in SUBSET Keys}] :
        l.kept # {} => l.op.on \in Keys /\ l.op.kind = "delete"}

\* With the foreign keys: what has a row belongs to a user that has one.
TypeOK ==
    /\ rows \in [Objects -> Values \cup {None, Blank}]
    /\ \A o \in Databases \cup Keys : rows[o] # None => rows[Owner[o]] # None
    /\ server \in [Objects -> Values \cup {None, Unlimited}]
    /\ keyFiles \subseteq Users
    /\ used \subseteq Keys
    /\ req \in [Requests -> Request]
    /\ late \subseteq Late
    /\ torn \subseteq Objects

KeysOf(u) == {k \in Keys : Owner[k] = u}
Of(u) == {o \in Databases \cup Keys : Owner[o] = u}
Scope(o) == IF o \in Users THEN {o} \cup Of(o) ELSE {o}

\* RemoveSSHKey writes back the whole file, with the keys it has read some time ago.
LateScope(op) ==
    IF op.kind = "delete" /\ op.on \in Keys THEN KeysOf(Owner[op.on]) ELSE Scope(op.on)

Busy == {r \in Requests : req[r] # Idle}
Touches(objects) == {r \in Busy : Scope(req[r].op.on) \cap objects # {}}
Disturbed(objects) ==
    [r \in Requests |-> IF r \in Touches(objects) THEN [req[r] EXCEPT !.alone = FALSE] ELSE req[r]]
LateOn(objects) == \E l \in late : LateScope(l.op) \cap objects # {}

\* Accounts there may be before the panel is installed.
Init ==
    /\ rows = [o \in Objects |-> None]
    /\ \E S \in SUBSET Users : server = [o \in Objects |-> IF o \in S THEN Unlimited ELSE None]
    /\ keyFiles = {}
    /\ used = {}
    /\ req = [r \in Requests |-> Idle]
    /\ late = {}
    /\ torn = {}
-----------------------------------------------------------------------------
(***************************************************************************)
(* The handlers of litecp-agent, as what they make of the server, and what *)
(* of it fails while they log a warning and go on (missed).                *)
(***************************************************************************)
Put(o, v) == server' = [server EXCEPT ![o] = v] /\ UNCHANGED keyFiles

\* useradd refuses a name it knows.  An account whose slice cannot be set up goes
\* without limits.
handleCreateUser(u, v, missed) ==
    /\ server[u] = None
    /\ \/ missed = {} /\ Put(u, v)
       \/ missed = {u} /\ Put(u, Unlimited)

handleUpdateUserLimits(u, v) == server[u] # None /\ Put(u, v)

\* deleteUserDatabases: the databases that have a row.
Dropped(u) == {d \in Databases : Owner[d] = u /\ rows[d] # None}

\* A database that cannot be dropped does not stop the deletion, nor does the row of it
\* that will be lost.
handleDeleteUser(u, missed) ==
    /\ server[u] # None
    /\ missed \subseteq Dropped(u)
    /\ server' = [o \in Objects |->
                    IF o = u \/ o \in (Dropped(u) \ missed) \cup KeysOf(u) THEN None
                    ELSE server[o]]
    /\ keyFiles' = keyFiles \ {u}

\* userdel refuses after the slice and the databases have gone: there is no account,
\* or one whose processes are running.
handleDeleteUserRefused(u, missed) ==
    /\ server[u] = None \/ MayFail
    /\ missed \subseteq Dropped(u)
    /\ server' = [o \in Objects |->
                    IF o \in Dropped(u) \ missed THEN None
                    ELSE IF o = u /\ server[u] # None THEN Unlimited ELSE server[o]]
    /\ UNCHANGED keyFiles

\* Mutant: the user of a database that is there gets the new password.
handleCreateDatabaseAnew(d, v) == Put(d, v)

\* CREATE DATABASE IF NOT EXISTS, CREATE USER IF NOT EXISTS.
handleCreateDatabase(d, v) == Put(d, IF server[d] = None THEN v ELSE server[d])

\* DROP USER, of which no error is told, and DROP DATABASE.
handleDeleteDatabase(d, missed) ==
    \/ missed = {} /\ Put(d, None)
    \/ missed = {d} /\ UNCHANGED <<server, keyFiles>>

\* ALTER USER IF EXISTS.
handleResetDatabasePassword(d, v) == Put(d, IF server[d] = None THEN None ELSE v)

handleAddSSHKey(k, v) ==
    /\ server[Owner[k]] # None
    /\ server' = [server EXCEPT ![k] = v]
    /\ keyFiles' = keyFiles \cup {Owner[k]}

\* Mutant: the marker does not match the line that was added.
handleRemoveSSHKeyKeepsIt(k) == Owner[k] \in keyFiles /\ UNCHANGED <<server, keyFiles>>

handleRemoveSSHKey(k) == Owner[k] \in keyFiles /\ Put(k, None)

Handle(op, missed) ==
    LET o == op.on  v == op.value IN
    /\ missed = {} \/ MayFail
    /\ \/ o \in Users /\ op.kind = "create" /\ handleCreateUser(o, v, missed)
       \/ o \in Users /\ op.kind = "delete" /\ handleDeleteUser(o, missed)
       \/ o \in Databases /\ op.kind = "delete" /\ handleDeleteDatabase(o, missed)
       \/ /\ missed = {}
          /\ \/ o \in Users /\ op.kind = "change" /\ handleUpdateUserLimits(o, v)
             \/ o \in Databases /\ op.kind = "create" /\ handleCreateDatabase(o, v)
             \/ o \in Databases /\ op.kind = "change" /\ handleResetDatabasePassword(o, v)
             \/ o \in Keys /\ op.kind = "create" /\ handleAddSSHKey(o, v)
             \/ o \in Keys /\ op.kind = "delete" /\ handleRemoveSSHKey(o)

\* A handler that ends with an error of its own.  chpasswd may fail when the account
\* is there, a statement to MariaDB after others.
Refuse(op, missed) ==
    LET o == op.on IN
    \/ o \in Users /\ op.kind = "delete" /\ handleDeleteUserRefused(o, missed)
    \/ MayFail /\ o \in Users /\ op.kind = "create" /\ handleCreateUser(o, Unlimited, missed)
    \/ MayFail /\ o \in Databases /\ Handle(op, missed)
    \/ /\ \/ o \in Users /\ op.kind = "create" /\ server[o] # None
          \/ o \in Users /\ op.kind = "change" /\ server[o] = None
          \/ o \in Keys /\ op.kind = "create" /\ server[Owner[o]] = None
          \/ o \in Keys /\ op.kind = "delete" /\ Owner[o] \notin keyFiles
       /\ UNCHANGED <<server, keyFiles>>
-----------------------------------------------------------------------------
(***************************************************************************)
(* The services of the panel.                                              *)
(***************************************************************************)
\* A request begins; those on the same objects are not alone any more.  Deleting or
\* changing a database or key starts from its row, a change of limits from that of
\* the user; ids of keys are drawn anew.  Sessions belong to users with a row.
Start(r, op) ==
    LET o == op.on IN
    /\ req[r] = Idle
    /\ o \in Users => (op.kind = "change" => rows[o] # None)
    /\ o \notin Users => rows[Owner[o]] # None /\ (op.kind # "create" => rows[o] # None)
    /\ o \in Keys => op.kind # "change" /\ (op.kind = "create" => o \notin used)
    /\ (o \in Keys \/ op.kind = "delete") => op.value = Default
    /\ used' = IF o \in Keys THEN used \cup {o} ELSE used
    /\ req' = [Disturbed(Scope(o)) EXCEPT ![r] =
                 [stage |-> "call", op |-> op, same |-> TRUE, alone |-> Touches(Scope(o)) = {},
                  missed |-> {}]]
    /\ UNCHANGED <<rows, server, keyFiles, late, torn>>

\* What a request that ends leaves behind: one that was disturbed may leave anything,
\* one that was not has put right what it says it has.
End(r, repaired) ==
    LET S == Scope(req[r].op.on) IN
    torn' = IF req[r].alone /\ ~LateOn(S) THEN torn \ (repaired \ req[r].missed)
                                         ELSE torn \cup S

ToStage(r, stage) == req' = [req EXCEPT ![r].stage = stage]
ToIdle(r) == req' = [req EXCEPT ![r] = Idle]

Call(r) ==
    /\ req[r].stage = "call"
    /\ \E missed \in SUBSET Scope(req[r].op.on) :
         /\ Handle(req[r].op, missed)
         /\ req' = [req EXCEPT ![r].stage = "row", ![r].missed = missed]
         /\ torn' = torn \cup missed
    /\ UNCHANGED <<rows, used, late>>

\* Nothing is written when the agent answers with an error.
CallRefused(r) ==
    LET op == req[r].op IN
    /\ req[r].stage = "call"
    /\ \E missed \in SUBSET Scope(op.on) : Refuse(op, missed)
    /\ IF server' # server \/ (op.on \in Users /\ op.kind = "delete")
         THEN torn' = torn \cup Scope(op.on) ELSE End(r, {})
    /\ ToIdle(r)
    /\ UNCHANGED <<rows, used, late>>

\* The call is given up on; the agent may still be at it.
CallFails(r) ==
    /\ MayFail
    /\ req[r].stage \in {"call", "undo"}
    /\ LET op == IF req[r].stage = "call" THEN req[r].op
                  ELSE [kind |-> "delete", on |-> req[r].op.on, value |-> Default] IN
       \/ UNCHANGED late
       \/ /\ op \in LateCalls /\ Cardinality(late) < MaxLate
          /\ late' = late \cup {[op |-> op, kept |-> {}]}
    /\ torn' = torn \cup Scope(req[r].op.on)
    /\ ToIdle(r)
    /\ UNCHANGED <<rows, server, keyFiles, used>>

\* A statement that takes rows away: nothing is the same for who has read one of them.
Erase(r, objects) ==
    /\ rows' = [o \in Objects |-> IF o \in objects THEN None ELSE rows[o]]
    /\ req' = [q \in Requests |->
                IF q = r THEN Idle
                ELSE IF q \in Busy /\ req[q].op.on \in objects THEN [req[q] EXCEPT !.same = FALSE]
                ELSE req[q]]

\* CreateUserWithLimits, CreateDatabase, CreateSSHKey: names and ids are unique, and the
\* user of a database or key has a row.  A user whose row cannot be inserted is taken
\* back.
Insert(r) ==
    LET o == req[r].op.on
        fits == rows[o] = None /\ (o \notin Users => rows[Owner[o]] # None) IN
    /\ req[r].stage = "row" /\ req[r].op.kind = "create"
    /\ rows' = IF fits THEN [rows EXCEPT ![o] = req[r].op.value] ELSE rows
    /\ IF o \in Users /\ ~fits
         THEN ToStage(r, "undo") /\ UNCHANGED torn
         ELSE ToIdle(r) /\ End(r, IF o \in Users THEN {o} ELSE {})
    /\ UNCHANGED <<server, keyFiles, used, late>>

\* A password that cannot be encrypted is stored as none.  (ResetPassword then leaves the
\* row as it is: RowFails.)
InsertBlank(r) ==
    LET o == req[r].op.on IN
    /\ MayFail
    /\ req[r].stage = "row" /\ req[r].op.kind = "create" /\ o \in Databases
    /\ rows[o] = None /\ rows[Owner[o]] # None
    /\ rows' = [rows EXCEPT ![o] = Blank]
    /\ ToIdle(r)
    /\ torn' = torn \cup {o}
    /\ UNCHANGED <<server, keyFiles, used, late>>

\* Mutant: the rows of what the user owns stay.
DeleteLeavesOwned(r) ==
    LET o == req[r].op.on IN
    /\ req[r].stage = "row" /\ req[r].op.kind = "delete"
    /\ Erase(r, {o})
    /\ End(r, {o} \cup (IF o \in Users THEN Dropped(o) \cup KeysOf(o) ELSE {}))
    /\ UNCHANGED <<server, keyFiles, used, late>>

\* DeleteUser takes with it, by the foreign keys, what the user owns; DeleteDatabase and
\* DeleteSSHKey go by the id of the row that was read.
Delete(r) ==
    LET o == req[r].op.on IN
    /\ req[r].stage = "row" /\ req[r].op.kind = "delete"
    /\ Erase(r, IF o \in Users \/ req[r].same THEN Scope(o) ELSE {})
    /\ End(r, {o} \cup (IF o \in Users THEN Dropped(o) \cup KeysOf(o) ELSE {}))
    /\ UNCHANGED <<server, keyFiles, used, late>>

\* UpdateUserLimits goes by name, UpdateDatabasePassword by id; no row is not an error.
Change(r) ==
    LET o == req[r].op.on IN
    /\ req[r].stage = "row" /\ req[r].op.kind = "change"
    /\ rows' = IF rows[o] # None /\ (o \in Users \/ req[r].same)
                 THEN [rows EXCEPT ![o] = req[r].op.value] ELSE rows
    /\ End(r, IF server[o] # None THEN {o} ELSE {})
    /\ ToIdle(r)
    /\ UNCHANGED <<server, keyFiles, used, late>>

\* Mutant: a user whose row could not be written stays on the server.
RowFailsKeepsAccount(r) ==
    /\ MayFail
    /\ req[r].stage = "row"
    /\ ToIdle(r) /\ End(r, {})
    /\ UNCHANGED <<rows, server, keyFiles, used, late>>

\* The client has left, and with it the context of the statement; ResetPassword ignores
\* this error.
RowFails(r) ==
    /\ MayFail
    /\ req[r].stage = "row"
    /\ IF req[r].op.kind = "create" /\ req[r].op.on \in Users
         THEN ToStage(r, "undo") /\ UNCHANGED torn
         ELSE ToIdle(r) /\ torn' = torn \cup Scope(req[r].op.on)
    /\ UNCHANGED <<rows, server, keyFiles, used, late>>

\* The call that takes back a creation; its result is ignored.  When the user already had
\* a row, it drops the databases of that user too.
Undo(r) ==
    LET u == req[r].op.on IN
    /\ req[r].stage = "undo"
    /\ \E missed \in SUBSET Scope(u) :
         \/ handleDeleteUser(u, missed) /\ rows[u] = None /\ End(r, {})
         \/ handleDeleteUser(u, missed) /\ rows[u] # None /\ torn' = torn \cup Scope(u)
         \/ handleDeleteUserRefused(u, missed) /\ torn' = torn \cup Scope(u)
    /\ ToIdle(r)
    /\ UNCHANGED <<rows, used, late>>

\* EnsureUser: an account that logs in without a row gets one.
Login(u) ==
    /\ server[u] # None
    /\ rows[u] = None
    /\ rows' = [rows EXCEPT ![u] = Default]
    /\ torn' = IF server[u] = Default /\ u \notin torn THEN torn ELSE torn \cup {u}
    /\ req' = Disturbed(Scope(u))
    /\ UNCHANGED <<server, keyFiles, used, late>>
-----------------------------------------------------------------------------
(***************************************************************************)
(* Calls that are carried out after they have failed.  handleRemoveSSHKey  *)
(* reads the file and writes it back, and other handlers may run between.  *)
(***************************************************************************)
LateRun(l) ==
    /\ ~(l.op.on \in Keys /\ l.op.kind = "delete")
    /\ \E missed \in SUBSET Scope(l.op.on) : Handle(l.op, missed) \/ Refuse(l.op, missed)
    /\ late' = late \ {l}
    /\ torn' = torn \cup LateScope(l.op)
    /\ req' = Disturbed(LateScope(l.op))
    /\ UNCHANGED <<rows, used>>

LateRead(l) ==
    /\ l.op.on \in Keys /\ l.op.kind = "delete" /\ l.kept = {}
    /\ Owner[l.op.on] \in keyFiles
    /\ late' = (late \ {l}) \cup
         {[l EXCEPT !.kept = {{k \in KeysOf(Owner[l.op.on]) \ {l.op.on} : server[k] # None}}]}
    /\ UNCHANGED <<rows, server, keyFiles, used, req, torn>>

\* The file goes with the account.
LateWrite(l) ==
    LET u == Owner[l.op.on] IN
    /\ l.kept # {}
    /\ server' = [o \in Objects |->
                    IF o \notin KeysOf(u) \/ u \notin keyFiles THEN server[o]
                    ELSE IF \E S \in l.kept : o \in S THEN Default ELSE None]
    /\ late' = late \ {l}
    /\ torn' = torn \cup LateScope(l.op)
    /\ req' = Disturbed(LateScope(l.op))
    /\ UNCHANGED <<rows, keyFiles, used>>
-----------------------------------------------------------------------------
Next ==
    \/ \E r \in Requests :
         \/ \E op \in Calls : Start(r, op)
         \/ Call(r) \/ CallRefused(r) \/ CallFails(r)
         \/ Insert(r) \/ InsertBlank(r) \/ Delete(r) \/ Change(r) \/ RowFails(r) \/ Undo(r)
    \/ \E u \in Users : Login(u)
    \/ \E l \in late : LateRun(l) \/ LateRead(l) \/ LateWrite(l)

Spec == Init /\ [][Next]_vars
-----------------------------------------------------------------------------
(***************************************************************************)
(* Properties.  An object is settled when nothing is under way on it and   *)
(* no request on it has failed in part, told of or only logged, or met     *)
(* another, since the last that put it right.                              *)
(***************************************************************************)
Settled(o) == o \notin torn /\ Touches({o}) = {} /\ ~LateOn({o})

\* The two stores agree about every settled object.  A user that has a row has its
\* account, with the limits of the row; one that has none has no account the panel has
\* made.  A database is in MariaDB if and only if it has a row, also when its owner has
\* been deleted, and the stored password, the one phpMyAdmin signs on with, is the one
\* MariaDB has.  A key opens the account if and only if it has a row, whatever happens to
\* the other keys of the file.
StoresAgree ==
    /\ \A u \in Users : Settled(u) =>
         server[u] \in (IF rows[u] = None THEN {None, Unlimited} ELSE {rows[u]})
    /\ \A o \in Databases \cup Keys : Settled(o) => server[o] = rows[o]
=============================================================================
