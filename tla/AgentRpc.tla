------------------------------ MODULE AgentRpc ------------------------------
(***************************************************************************)
(* Remote calls from the panel to litecp-agent: the client                 *)
(* (internal/agent/client.go) and the server (internal/agent/server.go).   *)
(*                                                                         *)
(* A shared call goes over the one connection of the client, under its     *)
(* mutex; an isolated call over a connection of its own.  The server reads *)
(* one request at a time from each connection, runs it, and writes the     *)
(* reply.  A deadline may pass at any moment.                              *)
(***************************************************************************)
EXTENDS Naturals, Sequences, FiniteSets

CONSTANTS
    Shared,       \* calls made with Client.call
    Isolated,     \* calls made with Client.callIsolated
    NoCall,
    Conns,        \* bound: the connections that can be dialled
    NoConn,
    MaxRestarts   \* bound: restarts of the agent

Calls == Shared \cup Isolated

ASSUME ConstantsAssumption ==
    /\ Shared \cap Isolated = {}
    /\ NoCall \notin Calls
    /\ NoConn \notin Conns
    /\ Calls \cap {"none", "queued", "reading", "closed"} = {}
    /\ MaxRestarts \in Nat

VARIABLES
    connected,    \* Client.connected
    current,      \* Client.conn
    mutex,        \* the call that holds Client.mu
    call,         \* each call: its stage, its connection, the call whose reply it got
    open,         \* connections not closed on the client's side
    requests,     \* bytes in flight to the agent, per connection
    replies,      \* bytes in flight to the client, per connection
    handler,      \* the agent's goroutine of each connection
    agent,        \* the agent process
    restarts,     \* starts of the agent so far
    ran           \* how often each call's handler was entered

clientVars == <<connected, current, mutex>>
vars == <<clientVars, call, open, requests, replies, handler, agent, restarts, ran>>

Stage == {"idle", "unconnected", "checked", "ready", "sent",
          "refused", "failed", "answered"}

CallRecord == [stage : Stage, conn : Conns \cup {NoConn}, answer : Calls \cup {NoCall}]

TypeOK ==
    /\ connected \in BOOLEAN
    /\ current \in Conns \cup {NoConn}
    /\ mutex \in Shared \cup {NoCall}
    /\ call \in [Calls -> CallRecord]
    /\ open \subseteq Conns
    /\ requests \in [Conns -> Seq(Calls)]
    /\ replies \in [Conns -> Seq(Calls)]
    /\ handler \in [Conns -> Calls \cup {"none", "queued", "reading", "closed"}]
    /\ agent \in {"up", "stopping", "down"}
    /\ restarts \in Nat
    /\ ran \in [Calls -> Nat]

Init ==
    /\ connected = FALSE
    /\ current = NoConn
    /\ mutex = NoCall
    /\ call = [c \in Calls |-> [stage |-> "idle", conn |-> NoConn, answer |-> NoCall]]
    /\ open = {}
    /\ requests = [k \in Conns |-> <<>>]
    /\ replies = [k \in Conns |-> <<>>]
    /\ handler = [k \in Conns |-> "none"]
    /\ agent = "up"
    /\ restarts = 0
    /\ ran = [c \in Calls |-> 0]
-----------------------------------------------------------------------------
(***************************************************************************)
(* The client.                                                             *)
(***************************************************************************)
Move(c, stage, conn, answer) ==
    call' = [call EXCEPT ![c] = [stage |-> stage, conn |-> conn, answer |-> answer]]

\* net.Dial: the kernel queues the connection until the agent accepts it.
Dial(k) ==
    /\ agent = "up"
    /\ handler[k] = "none"
    /\ handler' = [handler EXCEPT ![k] = "queued"]
    /\ open' = open \cup {k}

\* call looks at c.connected before it takes the mutex.
Check(c) ==
    /\ c \in Shared
    /\ call[c].stage = "idle"
    /\ call' = [call EXCEPT ![c].stage = IF connected THEN "checked" ELSE "unconnected"]
    /\ UNCHANGED <<clientVars, open, requests, replies, handler, agent, restarts, ran>>

\* Connect takes and releases the mutex by itself; the connection it replaces
\* stays open.
Connect(c, k) ==
    /\ call[c].stage = "unconnected"
    /\ mutex = NoCall
    /\ Dial(k)
    /\ connected' = TRUE
    /\ current' = k
    /\ call' = [call EXCEPT ![c].stage = "checked"]
    /\ UNCHANGED <<mutex, requests, replies, agent, restarts, ran>>

ConnectFails(c) ==
    /\ call[c].stage = "unconnected"
    /\ mutex = NoCall
    /\ agent # "up"
    /\ call' = [call EXCEPT ![c].stage = "refused"]
    /\ UNCHANGED <<clientVars, open, requests, replies, handler, agent, restarts, ran>>

\* Mutant: the mutex is not waited for.
LockFree(c) ==
    /\ call[c].stage = "checked"
    /\ mutex' = c
    /\ Move(c, "ready", current, NoCall)
    /\ UNCHANGED <<connected, current, open, requests, replies, handler, agent,
                   restarts, ran>>

\* c.mu.Lock in call, without a second look at c.connected.
Lock(c) ==
    /\ call[c].stage = "checked"
    /\ mutex = NoCall
    /\ mutex' = c
    /\ Move(c, "ready", current, NoCall)
    /\ UNCHANGED <<connected, current, open, requests, replies, handler, agent,
                   restarts, ran>>

\* Mutant: an isolated call writes to the shared connection when there is one.
DialIsolatedReuse(c, k) ==
    /\ c \in Isolated
    /\ call[c].stage = "idle"
    /\ IF connected THEN k = current /\ UNCHANGED <<open, handler>> ELSE Dial(k)
    /\ Move(c, "ready", k, NoCall)
    /\ UNCHANGED <<clientVars, requests, replies, agent, restarts, ran>>

DialIsolated(c, k) ==
    /\ c \in Isolated
    /\ call[c].stage = "idle"
    /\ Dial(k)
    /\ Move(c, "ready", k, NoCall)
    /\ UNCHANGED <<clientVars, requests, replies, agent, restarts, ran>>

DialIsolatedFails(c) ==
    /\ c \in Isolated
    /\ call[c].stage = "idle"
    /\ agent # "up"
    /\ call' = [call EXCEPT ![c].stage = "refused"]
    /\ UNCHANGED <<clientVars, open, requests, replies, handler, agent, restarts, ran>>

\* Mutant: a failed call leaves c.connected alone.
ReturnStillConnected(c, stage, answer) ==
    /\ Move(c, stage, call[c].conn, answer)
    /\ mutex' = IF c \in Shared THEN NoCall ELSE mutex
    /\ open' = IF c \in Isolated THEN open \ {call[c].conn} ELSE open
    /\ UNCHANGED <<connected, current>>

\* A call returns: the shared one releases the mutex and, when it failed, clears
\* c.connected without closing c.conn; the isolated one closes its connection.
Return(c, stage, answer) ==
    /\ Move(c, stage, call[c].conn, answer)
    /\ mutex' = IF c \in Shared THEN NoCall ELSE mutex
    /\ connected' = (connected /\ ~(c \in Shared /\ stage = "failed"))
    /\ open' = IF c \in Isolated THEN open \ {call[c].conn} ELSE open
    /\ UNCHANGED current

Send(c) ==
    LET k == call[c].conn
    IN  /\ call[c].stage = "ready"
        /\ handler[k] # "closed"
        /\ requests' = [requests EXCEPT ![k] = Append(@, c)]
        /\ call' = [call EXCEPT ![c].stage = "sent"]
        /\ UNCHANGED <<clientVars, open, replies, handler, agent, restarts, ran>>

\* Mutant: a call that got no answer connects anew and sends its request again.
GiveUpRetry(c) ==
    /\ call[c].stage = "sent"
    /\ call' = [call EXCEPT ![c].stage = IF c \in Shared THEN "unconnected" ELSE "idle"]
    /\ mutex' = IF c \in Shared THEN NoCall ELSE mutex
    /\ UNCHANGED <<connected, current, open, requests, replies, handler, agent,
                   restarts, ran>>

\* Mutant: the mutex is not released when a call fails.
GiveUpLocked(c) ==
    /\ call[c].stage \in {"ready", "sent"}
    /\ call' = [call EXCEPT ![c].stage = "failed"]
    /\ connected' = (connected /\ c \in Isolated)
    /\ UNCHANGED <<current, mutex, open, requests, replies, handler, agent, restarts,
                   ran>>

\* The write or the read fails: the connection has ended, or the deadline passed
\* (that of the context may already have while the call waited for the mutex).
GiveUp(c) ==
    /\ call[c].stage \in {"ready", "sent"}
    /\ Return(c, "failed", NoCall)
    /\ UNCHANGED <<requests, replies, handler, agent, restarts, ran>>

\* Decode reads as far as the bytes that have arrived, returns the first reply,
\* whatever its ID, and drops the others with the decoder.
Receive(c) ==
    LET k == call[c].conn
    IN  /\ call[c].stage = "sent"
        /\ \E n \in 1..Len(replies[k]) :
             replies' = [replies EXCEPT ![k] = SubSeq(@, n + 1, Len(@))]
        /\ Return(c, "answered", Head(replies[k]))
        /\ UNCHANGED <<requests, handler, agent, restarts, ran>>

\* The finalizer of a connection nothing refers to any more.
Collect(k) ==
    /\ k \in open \ {current}
    /\ \A c \in Calls : call[c].stage \in {"ready", "sent"} => call[c].conn # k
    /\ open' = open \ {k}
    /\ UNCHANGED <<clientVars, call, requests, replies, handler, agent, restarts, ran>>
-----------------------------------------------------------------------------
(***************************************************************************)
(* The server.                                                             *)
(***************************************************************************)
Running(k) == handler[k] \in Calls

Accept(k) ==
    /\ agent = "up"
    /\ handler[k] = "queued"
    /\ handler' = [handler EXCEPT ![k] = "reading"]
    /\ UNCHANGED <<clientVars, call, open, requests, replies, agent, restarts, ran>>

\* handleConnection decodes a request and enters its handler ...
Take(k) ==
    /\ handler[k] = "reading"
    /\ requests[k] # <<>>
    /\ handler' = [handler EXCEPT ![k] = Head(requests[k])]
    /\ requests' = [requests EXCEPT ![k] = Tail(@)]
    /\ ran' = [ran EXCEPT ![Head(requests[k])] = @ + 1]
    /\ UNCHANGED <<clientVars, call, open, replies, agent, restarts>>

\* ... and writes the reply, or closes when it cannot.
Reply(k) ==
    /\ Running(k)
    /\ IF k \in open
         THEN /\ replies' = [replies EXCEPT ![k] = Append(@, handler[k])]
              /\ handler' = [handler EXCEPT ![k] = "reading"]
         ELSE /\ handler' = [handler EXCEPT ![k] = "closed"]
              /\ UNCHANGED replies
    /\ UNCHANGED <<clientVars, call, open, requests, agent, restarts, ran>>

HangUp(k) ==
    /\ handler[k] = "reading"
    /\ requests[k] = <<>>
    /\ k \notin open
    /\ handler' = [handler EXCEPT ![k] = "closed"]
    /\ UNCHANGED <<clientVars, call, open, requests, replies, agent, restarts, ran>>

\* SIGTERM: the listener closes; connections that exist are served on.
Stop ==
    /\ agent = "up"
    /\ restarts < MaxRestarts
    /\ agent' = "stopping"
    /\ handler' = [k \in Conns |-> IF handler[k] = "queued" THEN "closed" ELSE handler[k]]
    /\ UNCHANGED <<clientVars, call, open, requests, replies, restarts, ran>>

\* s.wg.Wait returns once every connection has ended.
Exit ==
    /\ agent = "stopping"
    /\ \A k \in Conns : handler[k] \in {"none", "closed"}
    /\ agent' = "down"
    /\ UNCHANGED <<clientVars, call, open, requests, replies, handler, restarts, ran>>

\* A panic, a kill: what was written to the client can still be read.
Crash ==
    /\ agent # "down"
    /\ restarts < MaxRestarts
    /\ agent' = "down"
    /\ handler' = [k \in Conns |-> IF handler[k] = "none" THEN "none" ELSE "closed"]
    /\ requests' = [k \in Conns |-> <<>>]
    /\ UNCHANGED <<clientVars, call, open, replies, restarts, ran>>

Start ==
    /\ agent = "down"
    /\ agent' = "up"
    /\ restarts' = restarts + 1
    /\ UNCHANGED <<clientVars, call, open, requests, replies, handler, ran>>
-----------------------------------------------------------------------------
ClientStep(c) ==
    \/ Check(c)
    \/ \E k \in Conns : Connect(c, k) \/ DialIsolated(c, k)
    \/ ConnectFails(c) \/ DialIsolatedFails(c)
    \/ Lock(c) \/ Send(c) \/ Receive(c) \/ GiveUp(c)

ServerStep(k) == Accept(k) \/ Take(k) \/ Reply(k) \/ HangUp(k)

Next ==
    \/ \E c \in Calls : ClientStep(c)
    \/ \E k \in Conns : ServerStep(k) \/ Collect(k)
    \/ Stop \/ Exit \/ Crash \/ Start

Spec == Init /\ [][Next]_vars

(***************************************************************************)
(* Fairness: the mutex is granted to every call that waits for it, a dial  *)
(* and a write take their time but end, and a read ends with the deadline  *)
(* call and callIsolated always set.  Nothing is assumed of the agent.     *)
(***************************************************************************)
Fairness ==
    \A c \in Calls :
        /\ SF_vars((\E k \in Conns : Connect(c, k)) \/ ConnectFails(c))
        /\ SF_vars(Lock(c))
        /\ WF_vars(Send(c))
        /\ WF_vars(Receive(c) \/ GiveUp(c))

FairSpec == Spec /\ Fairness
-----------------------------------------------------------------------------
(***************************************************************************)
(* Properties.                                                             *)
(***************************************************************************)
Ended(c) == call[c].stage \in {"refused", "failed", "answered"}

\* A caller gets the reply to its own request, as call's comment promises by "an
\* RPC call", but over a shared connection on which some call has given up: there
\* it may read the reply to that one.  An isolated call never does.
OwnAnswerUnlessGivenUp ==
    \A c \in Calls :
        (call[c].stage = "answered" /\ call[c].answer # c)
            => /\ c \in Shared
               /\ \E d \in Shared : call[d].stage = "failed" /\ call[d].conn = call[c].conn

\* c.connected is set only while no call has given up on c.conn: a call that
\* starts after a failure never uses the connection the failure left behind,
\* only calls that had already looked at c.connected do.
ConnectedIsClean ==
    connected => \A c \in Shared : call[c].stage = "failed" => call[c].conn # current

\* No request is run twice, whatever breaks, and none of a call that was told
\* that it could not connect.
RunsAtMostOnce ==
    \A c \in Calls : ran[c] <= (IF call[c].stage \in {"idle", "refused"} THEN 0 ELSE 1)

\* While no shared call has failed, the agent runs their requests one at a time,
\* across reconnections: its handlers take no lock of their own.
SerialUnlessGivenUp ==
    (\A c \in Shared : call[c].stage # "failed")
        => \A k, l \in Conns : (handler[k] \in Shared /\ handler[l] \in Shared) => k = l

\* The isolated calls implement AgentCall, whatever the shared ones do beside them.
Outcome(c) ==
    IF call[c].stage \in {"ready", "sent"} THEN "pending" ELSE call[c].stage

IsolatedCalls == INSTANCE AgentCall WITH
    Calls   <- Isolated,
    outcome <- [c \in Isolated |-> Outcome(c)],
    ran     <- [c \in Isolated |-> ran[c]]

ImplementsAgentCall == IsolatedCalls!Spec

\* Every call ends, although all shared calls queue for one mutex and the agent
\* may hang, stop or crash.
CallEnds == \A c \in Calls : (call[c].stage # "idle") ~> Ended(c)
=============================================================================
