--------------------------- MODULE AgentHandlers ---------------------------
(***************************************************************************)
(* What the configuration handlers of the agent (internal/agent) have in   *)
(* common.  Each connection is served by a goroutine that answers one call *)
(* at a time, and the panel makes its next call on a new connection when   *)
(* the answer to the last one has not come within its deadline: a handler  *)
(* may still be running when another one begins.                           *)
(***************************************************************************)
EXTENDS Naturals

CONSTANTS
    Slots,      \* the connections that may be served at the same time
    MaxCalls,   \* bound: calls
    MaxEvents   \* bound: calls, failures and agents started, together

ASSUME BoundsAssumption == {MaxCalls, MaxEvents} \subseteq Nat

VARIABLES
    calls,   \* the calls made so far
    faults,  \* the writes, commands and downloads that have failed so far
    boots    \* the agents started so far, after the first one

bounds == <<calls, faults, boots>>

BoundsOK ==
    /\ calls \in 0..MaxCalls
    /\ faults \in 0..MaxEvents
    /\ boots \in Nat

BoundsInit == calls = 0 /\ faults = 0 /\ boots = 0

Room == calls + faults + boots < MaxEvents

Calling == Room /\ calls < MaxCalls /\ calls' = calls + 1 /\ UNCHANGED <<faults, boots>>
Working == UNCHANGED bounds
Failing == Room /\ faults' = faults + 1 /\ UNCHANGED <<calls, boots>>
Booting == boots' = boots + 1 /\ UNCHANGED <<calls, faults>>

Idle == [stage |-> "idle"]

\* This step answers the call in slot s, and does not end its agent.
Answered(job, s) == job[s] # Idle /\ job'[s] = Idle /\ boots' = boots
=============================================================================
