----------------------------- MODULE AgentCall ------------------------------
(***************************************************************************)
(* What a remote call to litecp-agent promises its caller: the request is  *)
(* run at most once; an answer is the answer to this request, which has    *)
(* run; an error after the request was sent promises nothing, the request  *)
(* may still run; an error from dialling promises that it never will.      *)
(***************************************************************************)
EXTENDS Naturals

CONSTANT Calls

VARIABLES
    outcome,   \* what the caller knows of each call
    ran        \* how often the agent has run each call

Init ==
    /\ outcome = [c \in Calls |-> "idle"]
    /\ ran = [c \in Calls |-> 0]

Submit(c) ==
    /\ outcome[c] = "idle"
    /\ outcome' = [outcome EXCEPT ![c] = "pending"]
    /\ UNCHANGED ran

Refuse(c) ==
    /\ outcome[c] = "idle"
    /\ outcome' = [outcome EXCEPT ![c] = "refused"]
    /\ UNCHANGED ran

Run(c) ==
    /\ outcome[c] \in {"pending", "failed"}
    /\ ran[c] = 0
    /\ ran' = [ran EXCEPT ![c] = 1]
    /\ UNCHANGED outcome

Answer(c) ==
    /\ outcome[c] = "pending"
    /\ ran[c] = 1
    /\ outcome' = [outcome EXCEPT ![c] = "answered"]
    /\ UNCHANGED ran

GiveUp(c) ==
    /\ outcome[c] = "pending"
    /\ outcome' = [outcome EXCEPT ![c] = "failed"]
    /\ UNCHANGED ran

Next == \E c \in Calls : Submit(c) \/ Refuse(c) \/ Run(c) \/ Answer(c) \/ GiveUp(c)

Spec == Init /\ [][Next]_<<outcome, ran>>
=============================================================================
