---------------------------- MODULE BackupLease -----------------------------
(***************************************************************************)
(* What the panel promises of its jobs to those who look at them.  A job   *)
(* runs once and has one outcome, which stays until the job goes with its  *)
(* user.  A backup starts with the lease of its user, which must be free   *)
(* or older than StaleAfter; the lease is given up in the same step in     *)
(* which its holder ends or goes, and in no other.                         *)
(***************************************************************************)
EXTENDS Naturals

CONSTANTS Users, Jobs, NoJob, StaleAfter

VARIABLES
    now,      \* the clock
    life,     \* what is seen of each job
    holder,   \* the job that has the lease of each user
    since     \* when it took the lease

Init ==
    /\ now = 1
    /\ life = [j \in Jobs |-> "unborn"]
    /\ holder = [u \in Users |-> NoJob]
    /\ since = [u \in Users |-> 0]

Outcomes == {"success", "failed"}

\* A restore or the deletion of a snapshot, which takes no lease.
Start(j) ==
    /\ life[j] = "unborn"
    /\ life' = [life EXCEPT ![j] = "running"]
    /\ UNCHANGED <<now, holder, since>>

StartBackup(u, j) ==
    /\ life[j] = "unborn"
    /\ holder[u] = NoJob \/ since[u] + StaleAfter <= now
    /\ life' = [life EXCEPT ![j] = "running"]
    /\ holder' = [holder EXCEPT ![u] = j]
    /\ since' = [since EXCEPT ![u] = now]
    /\ UNCHANGED now

GiveUp(ended) ==
    /\ holder' = [u \in Users |-> IF holder[u] \in ended THEN NoJob ELSE holder[u]]
    /\ since' = [u \in Users |-> IF holder[u] \in ended THEN 0 ELSE since[u]]

End(j, outcome) ==
    /\ life[j] = "running"
    /\ life' = [life EXCEPT ![j] = outcome]
    /\ GiveUp({j})
    /\ UNCHANGED now

Vanish(gone) ==
    /\ \A j \in gone : life[j] \in {"running"} \cup Outcomes
    /\ life' = [j \in Jobs |-> IF j \in gone THEN "gone" ELSE life[j]]
    /\ GiveUp(gone)
    /\ UNCHANGED now

Tick ==
    /\ now' = now + 1
    /\ UNCHANGED <<life, holder, since>>

Next ==
    \/ \E j \in Jobs :
         \/ Start(j)
         \/ \E u \in Users : StartBackup(u, j)
         \/ \E outcome \in Outcomes : End(j, outcome)
    \/ \E gone \in SUBSET Jobs : Vanish(gone)
    \/ Tick

Spec == Init /\ [][Next]_<<now, life, holder, since>>
=============================================================================
