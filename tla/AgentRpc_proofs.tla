--------------------------- MODULE AgentRpc_proofs ---------------------------
(***************************************************************************)
(* What AgentRpc promises for any number of calls, connections and         *)
(* restarts.                                                               *)
(***************************************************************************)
EXTENDS AgentRpc, TLAPS

Elements(s) == {s[i] : i \in 1..Len(s)}
NoRepeat(s) == \A i, j \in 1..Len(s) : s[i] = s[j] => i = j

\* Everything of k that is still under way: written, running, or answered.
Pipe(k) == Elements(requests[k]) \cup Elements(replies[k]) \cup {handler[k]}

GivenUpOn(k) == \E d \in Calls : call[d].stage = "failed" /\ call[d].conn = k

\* A call knows its connection from the moment it may write to it; only shared
\* calls go through c.connected and the mutex.
ConnKnown ==
    /\ connected => current # NoConn
    /\ \A c \in Calls :
         /\ call[c].stage = "checked" => current # NoConn
         /\ call[c].stage \in {"unconnected", "checked"} => c \in Shared
         /\ call[c].stage \in {"ready", "sent", "failed", "answered"} <=> call[c].conn # NoConn

\* A connection not dialled yet is nobody's.
Fresh ==
    \A k \in Conns :
        handler[k] = "none" => current # k /\ \A c \in Calls : call[c].conn # k

\* The connection of an isolated call is its own.
Exclusive ==
    \A c \in Isolated :
        call[c].conn # NoConn
            => /\ current # call[c].conn
               /\ \A d \in Calls : call[d].conn = call[c].conn => d = c

\* A shared call between Lock and its return holds the mutex.
Holder == \A c \in Shared : call[c].stage \in {"ready", "sent"} => mutex = c

\* What is under way on a connection was sent over it by a call that still waits,
\* unless a call has given up on the connection.
PipeOwned ==
    \A k \in Conns, c \in Calls :
        c \in Pipe(k) => /\ call[c].conn = k
                         /\ call[c].stage \in {"sent", "failed", "answered"}
                         /\ call[c].stage = "sent" \/ GivenUpOn(k)

\* A request is in one place at a time, and counts as run when it is taken.
PipeOnce ==
    \A k \in Conns :
        /\ NoRepeat(requests[k])
        /\ NoRepeat(replies[k])
        /\ \A c \in Elements(requests[k]) : ran[c] = 0
        /\ \A c \in Elements(replies[k]) : ran[c] = 1 /\ handler[k] # c
        /\ handler[k] \in Calls => ran[handler[k]] = 1

\* Only requests that were sent have run, and only calls that have run are answers.
RanSent ==
    \A c \in Calls :
        /\ ran[c] \in {0, 1}
        /\ ran[c] = 1 => call[c].stage \in {"sent", "failed", "answered"}
        /\ call[c].stage = "answered" => call[c].answer \in Calls /\ ran[call[c].answer] = 1

IInv ==
    /\ TypeOK
    /\ ConnKnown
    /\ Fresh
    /\ Exclusive
    /\ Holder
    /\ PipeOwned
    /\ PipeOnce
    /\ RanSent
    /\ ConnectedIsClean
    /\ OwnAnswerUnlessGivenUp
-----------------------------------------------------------------------------
(***************************************************************************)
(* Sequences.                                                              *)
(***************************************************************************)
LEMMA AppendElements ==
    ASSUME NEW S, NEW s \in Seq(S), NEW x \in S, x \notin Elements(s), NoRepeat(s)
    PROVE  /\ Elements(Append(s, x)) = Elements(s) \cup {x}
           /\ NoRepeat(Append(s, x))
  BY DEF Elements, NoRepeat

LEMMA SuffixElements ==
    ASSUME NEW S, NEW s \in Seq(S), NoRepeat(s), s # <<>>, NEW n \in 1..Len(s)
    PROVE  /\ Head(s) \in Elements(s)
           /\ SubSeq(s, n + 1, Len(s)) \in Seq(S)
           /\ Elements(SubSeq(s, n + 1, Len(s))) \subseteq Elements(s) \ {Head(s)}
           /\ NoRepeat(SubSeq(s, n + 1, Len(s)))
  BY DEF Elements, NoRepeat

LEMMA TailElements ==
    ASSUME NEW S, NEW s \in Seq(S), NoRepeat(s), s # <<>>
    PROVE  /\ Head(s) \in Elements(s)
           /\ Head(s) \in S
           /\ Tail(s) \in Seq(S)
           /\ Elements(Tail(s)) \subseteq Elements(s) \ {Head(s)}
           /\ NoRepeat(Tail(s))
  BY DEF Elements, NoRepeat

LEMMA NoElements == Elements(<<>>) = {} /\ NoRepeat(<<>>)
  BY DEF Elements, NoRepeat

LEMMA ElementsTyped == ASSUME NEW S, NEW s \in Seq(S) PROVE Elements(s) \subseteq S
  BY DEF Elements
-----------------------------------------------------------------------------
LEMMA InitIInv == Init => IInv
<1> SUFFICES ASSUME Init PROVE IInv
  OBVIOUS
<1> USE ConstantsAssumption DEF Init
<1>1. TypeOK
  <2>1. call \in [Calls -> CallRecord]
    BY DEF CallRecord, Stage
  <2>2. requests \in [Conns -> Seq(Calls)] /\ replies \in [Conns -> Seq(Calls)]
    OBVIOUS
  <2>3. QED
    BY <2>1, <2>2 DEF TypeOK
<1>2. ConnKnown /\ Fresh
  BY DEF ConnKnown, Fresh
<1>3. Exclusive /\ Holder
  BY DEF Exclusive, Holder, Calls
<1>4. PipeOwned
  BY NoElements DEF PipeOwned, Pipe
<1>5. PipeOnce /\ RanSent
  BY NoElements DEF PipeOnce, RanSent
<1>6. ConnectedIsClean /\ OwnAnswerUnlessGivenUp
  BY DEF ConnectedIsClean, OwnAnswerUnlessGivenUp, Calls
<1>7. QED
  BY <1>1, <1>2, <1>3, <1>4, <1>5, <1>6 DEF IInv
-----------------------------------------------------------------------------
(***************************************************************************)
(* The step of one call: what EXCEPT makes of its record.                  *)
(***************************************************************************)
MovedTo(c, stage, conn, answer) ==
    /\ call' \in [Calls -> CallRecord]
    /\ \A d \in Calls : d # c => call'[d] = call[d]
    /\ call'[c].stage = stage
    /\ call'[c].conn = conn
    /\ call'[c].answer = answer

LEMMA MoveStage ==
    ASSUME TypeOK, NEW c \in Calls, NEW st \in Stage, call' = [call EXCEPT ![c].stage = st]
    PROVE  MovedTo(c, st, call[c].conn, call[c].answer)
  BY DEF TypeOK, MovedTo, CallRecord

LEMMA MoveAll ==
    ASSUME TypeOK, NEW c \in Calls, NEW st \in Stage, NEW k \in Conns \cup {NoConn},
           NEW a \in Calls \cup {NoCall}, Move(c, st, k, a)
    PROVE  MovedTo(c, st, k, a)
<1>1. [stage |-> st, conn |-> k, answer |-> a] \in CallRecord
  BY DEF CallRecord
<1>2. QED
  BY <1>1 DEF TypeOK, Move, MovedTo

\* A call that has not written yet moves on: nothing of it is under way.
LEMMA BeforeSend ==
    ASSUME IInv, NEW c \in Calls, call[c].stage \in {"idle", "unconnected", "checked", "ready"},
           NEW st \in Stage \ {"answered"}, NEW k0 \in Conns \cup {NoConn}, NEW a,
           MovedTo(c, st, k0, a), UNCHANGED <<requests, replies, ran>>,
           \A k \in Conns : handler'[k] = handler[k] \/ handler'[k] \notin Calls
    PROVE  PipeOwned' /\ PipeOnce' /\ RanSent' /\ OwnAnswerUnlessGivenUp'
<1> USE DEF IInv
<1>1. \A k \in Conns : GivenUpOn(k) => GivenUpOn(k)'
  BY DEF GivenUpOn, MovedTo
<1>2. PipeOwned'
  <2> SUFFICES ASSUME NEW k \in Conns, NEW d \in Calls, d \in Pipe(k)'
               PROVE  /\ call'[d].conn = k
                      /\ call'[d].stage \in {"sent", "failed", "answered"}
                      /\ call'[d].stage = "sent" \/ GivenUpOn(k)'
    BY DEF PipeOwned
  <2>1. d \in Pipe(k)
    BY DEF Pipe
  <2>2. d # c /\ call'[d] = call[d]
    BY <2>1 DEF PipeOwned, MovedTo
  <2>3. QED
    BY <1>1, <2>1, <2>2 DEF PipeOwned
<1>3. PipeOnce'
  <2> SUFFICES ASSUME NEW k \in Conns
               PROVE  /\ NoRepeat(requests[k])
                      /\ NoRepeat(replies[k])
                      /\ \A d \in Elements(requests[k]) : ran[d] = 0
                      /\ \A d \in Elements(replies[k]) : ran[d] = 1 /\ handler'[k] # d
                      /\ handler'[k] \in Calls => ran[handler'[k]] = 1
    BY DEF PipeOnce
  <2>1. Elements(replies[k]) \subseteq Calls
    BY ElementsTyped DEF TypeOK
  <2>2. QED
    BY <2>1 DEF PipeOnce
<1>4. RanSent'
  BY DEF RanSent, MovedTo
<1>5. OwnAnswerUnlessGivenUp'
  <2> SUFFICES ASSUME NEW d \in Calls, call'[d].stage = "answered", call'[d].answer # d
               PROVE  /\ d \in Shared
                      /\ \E e \in Shared : call'[e].stage = "failed" /\ call'[e].conn = call'[d].conn
    BY DEF OwnAnswerUnlessGivenUp
  <2>1. d # c /\ call'[d] = call[d]
    BY DEF MovedTo
  <2>2. PICK e \in Shared : call[e].stage = "failed" /\ call[e].conn = call[d].conn
    BY <2>1 DEF OwnAnswerUnlessGivenUp
  <2>3. e # c /\ call'[e] = call[e]
    BY <2>2 DEF MovedTo, Calls
  <2>4. QED
    BY <2>1, <2>2, <2>3 DEF OwnAnswerUnlessGivenUp
<1>6. QED
  BY <1>2, <1>3, <1>4, <1>5

\* A step of the server or the collector that takes and writes no message.
LEMMA Elsewhere ==
    ASSUME IInv, UNCHANGED <<call, replies, ran>>,
           requests' \in [Conns -> Seq(Calls)],
           \A k \in Conns : requests'[k] = requests[k] \/ requests'[k] = <<>>,
           \A k \in Conns : handler'[k] = handler[k] \/ handler'[k] \notin Calls
    PROVE  PipeOwned' /\ PipeOnce' /\ RanSent' /\ OwnAnswerUnlessGivenUp'
<1> USE DEF IInv
<1>1. PipeOwned'
  <2> SUFFICES ASSUME NEW k \in Conns, NEW d \in Calls, d \in Pipe(k)'
               PROVE  /\ call[d].conn = k
                      /\ call[d].stage \in {"sent", "failed", "answered"}
                      /\ call[d].stage = "sent" \/ GivenUpOn(k)
    BY DEF PipeOwned, GivenUpOn
  <2>1. d \in Pipe(k)
    BY NoElements DEF Pipe
  <2>2. QED
    BY <2>1 DEF PipeOwned
<1>2. PipeOnce'
  <2> SUFFICES ASSUME NEW k \in Conns
               PROVE  /\ NoRepeat(requests'[k])
                      /\ NoRepeat(replies[k])
                      /\ \A d \in Elements(requests'[k]) : ran[d] = 0
                      /\ \A d \in Elements(replies[k]) : ran[d] = 1 /\ handler'[k] # d
                      /\ handler'[k] \in Calls => ran[handler'[k]] = 1
    BY DEF PipeOnce
  <2>1. Elements(replies[k]) \subseteq Calls
    BY ElementsTyped DEF TypeOK
  <2>2. QED
    BY <2>1, NoElements DEF PipeOnce
<1>3. RanSent' /\ OwnAnswerUnlessGivenUp'
  BY DEF RanSent, OwnAnswerUnlessGivenUp
<1>4. QED
  BY <1>1, <1>2, <1>3
-----------------------------------------------------------------------------
LEMMA CheckKeepsIInv ==
    ASSUME IInv, NEW c \in Calls, Check(c)
    PROVE  IInv'
<1> USE ConstantsAssumption DEF IInv
<1>1. MovedTo(c, IF connected THEN "checked" ELSE "unconnected", call[c].conn, call[c].answer)
  BY MoveStage DEF Check, clientVars, Stage, TypeOK
<1>2. TypeOK'
  BY <1>1 DEF Check, clientVars, TypeOK, ConnKnown, MovedTo
<1>3. call[c].conn \in Conns \cup {NoConn}
  BY DEF TypeOK, CallRecord
<1>4. PipeOwned' /\ PipeOnce' /\ RanSent' /\ OwnAnswerUnlessGivenUp'
  BY <1>3, <1>1, BeforeSend DEF Check, clientVars, TypeOK, Stage
<1>5. ConnKnown' /\ Fresh' /\ Exclusive' /\ Holder' /\ ConnectedIsClean'
  <2>1. ConnKnown' /\ Fresh'
    BY <1>1 DEF Check, clientVars, TypeOK, ConnKnown, Fresh, MovedTo
  <2>2. Exclusive'
    BY <1>1 DEF Check, clientVars, TypeOK, Fresh, Exclusive, MovedTo, Calls
  <2>3. Holder' /\ ConnectedIsClean'
    BY <1>1 DEF Check, clientVars, TypeOK, Fresh, Holder, ConnectedIsClean, MovedTo, Calls
  <2>4. QED
    BY <2>1, <2>2, <2>3
<1>6. QED
  BY <1>2, <1>4, <1>5

LEMMA ConnectKeepsIInv ==
    ASSUME IInv, NEW c \in Calls, NEW k \in Conns, Connect(c, k)
    PROVE  IInv'
<1> USE ConstantsAssumption DEF IInv
<1>1. MovedTo(c, "checked", call[c].conn, call[c].answer)
  BY MoveStage DEF Connect, clientVars, Dial, Stage, TypeOK
<1>2. TypeOK'
  BY <1>1 DEF Connect, clientVars, Dial, TypeOK, ConnKnown, MovedTo
<1>3. call[c].conn \in Conns \cup {NoConn}
  BY DEF TypeOK, CallRecord
<1>4. PipeOwned' /\ PipeOnce' /\ RanSent' /\ OwnAnswerUnlessGivenUp'
  BY <1>3, <1>1, BeforeSend DEF Connect, clientVars, Dial, TypeOK, Stage
<1>5. ConnKnown'
  BY <1>1 DEF Connect, clientVars, Dial, TypeOK, ConnKnown, MovedTo
<1>6. Fresh'
  <2> SUFFICES ASSUME NEW l \in Conns, handler'[l] = "none", NEW d \in Calls
               PROVE  current' # l /\ call'[d].conn # l
    BY DEF Fresh
  <2>1. CASE d = c
    BY <1>1, <2>1 DEF Connect, clientVars, Dial, TypeOK, ConnKnown, Fresh, MovedTo
  <2>2. CASE d # c
    BY <1>1, <2>2 DEF Connect, clientVars, Dial, TypeOK, ConnKnown, Fresh, MovedTo
  <2>3. QED
    BY <2>1, <2>2
<1>7. Exclusive'
  <2> SUFFICES ASSUME NEW i \in Isolated, call'[i].conn # NoConn, NEW d \in Calls
               PROVE  current' # call'[i].conn /\ (call'[d].conn = call'[i].conn => d = i)
    BY DEF Exclusive
  <2>1. i \in Calls
    BY DEF Calls
  <2>2. CASE i = c
    BY <1>1, <2>1, <2>2 DEF Connect, clientVars, Dial, TypeOK, ConnKnown, Fresh, Exclusive, MovedTo
  <2>3. CASE i # c /\ d = c
    BY <1>1, <2>1, <2>3 DEF Connect, clientVars, Dial, TypeOK, ConnKnown, Fresh, Exclusive, MovedTo
  <2>4. CASE i # c /\ d # c
    BY <1>1, <2>1, <2>4 DEF Connect, clientVars, Dial, TypeOK, ConnKnown, Fresh, Exclusive, MovedTo
  <2>5. QED
    BY <2>2, <2>3, <2>4
<1>8. Holder' /\ ConnectedIsClean'
  <2>1. Holder'
    BY <1>1 DEF Connect, clientVars, Dial, Holder, ConnKnown, MovedTo, Calls
  <2>2. ConnectedIsClean'
    BY <1>1 DEF Connect, clientVars, Dial, ConnectedIsClean, Fresh, MovedTo, Calls
  <2>3. QED
    BY <2>1, <2>2
<1>9. QED
  BY <1>2, <1>4, <1>5, <1>6, <1>7, <1>8

LEMMA ConnectFailsKeepsIInv ==
    ASSUME IInv, NEW c \in Calls, ConnectFails(c)
    PROVE  IInv'
<1> USE ConstantsAssumption DEF IInv
<1>1. MovedTo(c, "refused", call[c].conn, call[c].answer)
  BY MoveStage DEF ConnectFails, clientVars, Stage, TypeOK
<1>2. TypeOK'
  BY <1>1 DEF ConnectFails, clientVars, TypeOK, ConnKnown, MovedTo
<1>3. call[c].conn \in Conns \cup {NoConn}
  BY DEF TypeOK, CallRecord
<1>4. PipeOwned' /\ PipeOnce' /\ RanSent' /\ OwnAnswerUnlessGivenUp'
  BY <1>3, <1>1, BeforeSend DEF ConnectFails, clientVars, TypeOK, Stage
<1>5. ConnKnown' /\ Fresh' /\ Exclusive' /\ Holder' /\ ConnectedIsClean'
  <2>1. ConnKnown' /\ Fresh'
    BY <1>1 DEF ConnectFails, clientVars, TypeOK, ConnKnown, Fresh, MovedTo
  <2>2. Exclusive'
    BY <1>1 DEF ConnectFails, clientVars, TypeOK, Fresh, Exclusive, MovedTo, Calls
  <2>3. Holder' /\ ConnectedIsClean'
    BY <1>1 DEF ConnectFails, clientVars, TypeOK, Fresh, Holder, ConnectedIsClean, MovedTo, Calls
  <2>4. QED
    BY <2>1, <2>2, <2>3
<1>6. QED
  BY <1>2, <1>4, <1>5

LEMMA LockKeepsIInv ==
    ASSUME IInv, NEW c \in Calls, Lock(c)
    PROVE  IInv'
<1> USE ConstantsAssumption DEF IInv
<1>1. MovedTo(c, "ready", current, NoCall)
  BY MoveAll DEF Lock, clientVars, Stage, TypeOK
<1>2. TypeOK'
  BY <1>1 DEF Lock, clientVars, TypeOK, ConnKnown, MovedTo
<1>3. call[c].conn \in Conns \cup {NoConn}
  BY DEF TypeOK, CallRecord
<1>4. PipeOwned' /\ PipeOnce' /\ RanSent' /\ OwnAnswerUnlessGivenUp'
  BY <1>3, <1>1, BeforeSend DEF Lock, clientVars, TypeOK, Stage
<1>5. ConnKnown'
  BY <1>1 DEF Lock, clientVars, TypeOK, ConnKnown, MovedTo
<1>6. Fresh'
  <2> SUFFICES ASSUME NEW l \in Conns, handler'[l] = "none", NEW d \in Calls
               PROVE  current' # l /\ call'[d].conn # l
    BY DEF Fresh
  <2>1. CASE d = c
    BY <1>1, <2>1 DEF Lock, clientVars, TypeOK, ConnKnown, Fresh, MovedTo
  <2>2. CASE d # c
    BY <1>1, <2>2 DEF Lock, clientVars, TypeOK, ConnKnown, Fresh, MovedTo
  <2>3. QED
    BY <2>1, <2>2
<1>7. Exclusive'
  <2> SUFFICES ASSUME NEW i \in Isolated, call'[i].conn # NoConn, NEW d \in Calls
               PROVE  current' # call'[i].conn /\ (call'[d].conn = call'[i].conn => d = i)
    BY DEF Exclusive
  <2>1. i \in Calls
    BY DEF Calls
  <2>2. CASE i = c
    BY <1>1, <2>1, <2>2 DEF Lock, clientVars, TypeOK, ConnKnown, Fresh, Exclusive, MovedTo
  <2>3. CASE i # c /\ d = c
    BY <1>1, <2>1, <2>3 DEF Lock, clientVars, TypeOK, ConnKnown, Fresh, Exclusive, MovedTo
  <2>4. CASE i # c /\ d # c
    BY <1>1, <2>1, <2>4 DEF Lock, clientVars, TypeOK, ConnKnown, Fresh, Exclusive, MovedTo
  <2>5. QED
    BY <2>2, <2>3, <2>4
<1>8. Holder' /\ ConnectedIsClean'
  <2>1. Holder'
    BY <1>1 DEF Lock, clientVars, Holder, ConnKnown, MovedTo, Calls
  <2>2. ConnectedIsClean'
    BY <1>1 DEF Lock, clientVars, ConnectedIsClean, Fresh, MovedTo, Calls
  <2>3. QED
    BY <2>1, <2>2
<1>9. QED
  BY <1>2, <1>4, <1>5, <1>6, <1>7, <1>8

LEMMA DialIsolatedKeepsIInv ==
    ASSUME IInv, NEW c \in Calls, NEW k \in Conns, DialIsolated(c, k)
    PROVE  IInv'
<1> USE ConstantsAssumption DEF IInv
<1>1. MovedTo(c, "ready", k, NoCall)
  BY MoveAll DEF DialIsolated, clientVars, Dial, Stage, TypeOK
<1>2. TypeOK'
  BY <1>1 DEF DialIsolated, clientVars, Dial, TypeOK, ConnKnown, MovedTo
<1>3. call[c].conn \in Conns \cup {NoConn}
  BY DEF TypeOK, CallRecord
<1>4. PipeOwned' /\ PipeOnce' /\ RanSent' /\ OwnAnswerUnlessGivenUp'
  BY <1>3, <1>1, BeforeSend DEF DialIsolated, clientVars, Dial, TypeOK, Stage
<1>5. ConnKnown'
  BY <1>1 DEF DialIsolated, clientVars, Dial, TypeOK, ConnKnown, MovedTo
<1>6. Fresh'
  <2> SUFFICES ASSUME NEW l \in Conns, handler'[l] = "none", NEW d \in Calls
               PROVE  current' # l /\ call'[d].conn # l
    BY DEF Fresh
  <2>1. CASE d = c
    BY <1>1, <2>1 DEF DialIsolated, clientVars, Dial, TypeOK, ConnKnown, Fresh, MovedTo
  <2>2. CASE d # c
    BY <1>1, <2>2 DEF DialIsolated, clientVars, Dial, TypeOK, ConnKnown, Fresh, MovedTo
  <2>3. QED
    BY <2>1, <2>2
<1>7. Exclusive'
  <2> SUFFICES ASSUME NEW i \in Isolated, call'[i].conn # NoConn, NEW d \in Calls
               PROVE  current' # call'[i].conn /\ (call'[d].conn = call'[i].conn => d = i)
    BY DEF Exclusive
  <2>1. i \in Calls
    BY DEF Calls
  <2>2. CASE i = c
    BY <1>1, <2>1, <2>2 DEF DialIsolated, clientVars, Dial, TypeOK, ConnKnown, Fresh, Exclusive, MovedTo
  <2>3. CASE i # c /\ d = c
    BY <1>1, <2>1, <2>3 DEF DialIsolated, clientVars, Dial, TypeOK, ConnKnown, Fresh, Exclusive, MovedTo
  <2>4. CASE i # c /\ d # c
    BY <1>1, <2>1, <2>4 DEF DialIsolated, clientVars, Dial, TypeOK, ConnKnown, Fresh, Exclusive, MovedTo
  <2>5. QED
    BY <2>2, <2>3, <2>4
<1>8. Holder' /\ ConnectedIsClean'
  <2>1. Holder'
    BY <1>1 DEF DialIsolated, clientVars, Dial, Holder, ConnKnown, MovedTo, Calls
  <2>2. ConnectedIsClean'
    BY <1>1 DEF DialIsolated, clientVars, Dial, ConnectedIsClean, Fresh, MovedTo, Calls
  <2>3. QED
    BY <2>1, <2>2
<1>9. QED
  BY <1>2, <1>4, <1>5, <1>6, <1>7, <1>8

LEMMA DialIsolatedFailsKeepsIInv ==
    ASSUME IInv, NEW c \in Calls, DialIsolatedFails(c)
    PROVE  IInv'
<1> USE ConstantsAssumption DEF IInv
<1>1. MovedTo(c, "refused", call[c].conn, call[c].answer)
  BY MoveStage DEF DialIsolatedFails, clientVars, Stage, TypeOK
<1>2. TypeOK'
  BY <1>1 DEF DialIsolatedFails, clientVars, TypeOK, ConnKnown, MovedTo
<1>3. call[c].conn \in Conns \cup {NoConn}
  BY DEF TypeOK, CallRecord
<1>4. PipeOwned' /\ PipeOnce' /\ RanSent' /\ OwnAnswerUnlessGivenUp'
  BY <1>3, <1>1, BeforeSend DEF DialIsolatedFails, clientVars, TypeOK, Stage
<1>5. ConnKnown' /\ Fresh' /\ Exclusive' /\ Holder' /\ ConnectedIsClean'
  <2>1. ConnKnown' /\ Fresh'
    BY <1>1 DEF DialIsolatedFails, clientVars, TypeOK, ConnKnown, Fresh, MovedTo
  <2>2. Exclusive'
    BY <1>1 DEF DialIsolatedFails, clientVars, TypeOK, Fresh, Exclusive, MovedTo, Calls
  <2>3. Holder' /\ ConnectedIsClean'
    BY <1>1 DEF DialIsolatedFails, clientVars, TypeOK, Fresh, Holder, ConnectedIsClean, MovedTo, Calls
  <2>4. QED
    BY <2>1, <2>2, <2>3
<1>6. QED
  BY <1>2, <1>4, <1>5

LEMMA CollectKeepsIInv ==
    ASSUME IInv, NEW k \in Conns, Collect(k)
    PROVE  IInv'
<1> USE ConstantsAssumption DEF IInv
<1>1. TypeOK'
  BY DEF Collect, clientVars, TypeOK
<1>2. PipeOwned' /\ PipeOnce' /\ RanSent' /\ OwnAnswerUnlessGivenUp'
  BY Elsewhere DEF Collect, clientVars, TypeOK
<1>3. ConnKnown' /\ Fresh' /\ Exclusive' /\ Holder' /\ ConnectedIsClean'
  BY DEF Collect, clientVars, TypeOK, ConnKnown, Fresh, Exclusive, Holder, ConnectedIsClean
<1>4. QED
  BY <1>1, <1>2, <1>3

LEMMA AcceptKeepsIInv ==
    ASSUME IInv, NEW k \in Conns, Accept(k)
    PROVE  IInv'
<1> USE ConstantsAssumption DEF IInv
<1>1. TypeOK'
  BY DEF Accept, clientVars, TypeOK
<1>2. PipeOwned' /\ PipeOnce' /\ RanSent' /\ OwnAnswerUnlessGivenUp'
  BY Elsewhere DEF Accept, clientVars, TypeOK
<1>3. ConnKnown' /\ Fresh' /\ Exclusive' /\ Holder' /\ ConnectedIsClean'
  BY DEF Accept, clientVars, TypeOK, ConnKnown, Fresh, Exclusive, Holder, ConnectedIsClean
<1>4. QED
  BY <1>1, <1>2, <1>3

LEMMA HangUpKeepsIInv ==
    ASSUME IInv, NEW k \in Conns, HangUp(k)
    PROVE  IInv'
<1> USE ConstantsAssumption DEF IInv
<1>1. TypeOK'
  BY DEF HangUp, clientVars, TypeOK
<1>2. PipeOwned' /\ PipeOnce' /\ RanSent' /\ OwnAnswerUnlessGivenUp'
  BY Elsewhere DEF HangUp, clientVars, TypeOK
<1>3. ConnKnown' /\ Fresh' /\ Exclusive' /\ Holder' /\ ConnectedIsClean'
  BY DEF HangUp, clientVars, TypeOK, ConnKnown, Fresh, Exclusive, Holder, ConnectedIsClean
<1>4. QED
  BY <1>1, <1>2, <1>3

LEMMA StopKeepsIInv ==
    ASSUME IInv, Stop
    PROVE  IInv'
<1> USE ConstantsAssumption DEF IInv
<1>1. TypeOK'
  BY DEF Stop, clientVars, TypeOK
<1>2. PipeOwned' /\ PipeOnce' /\ RanSent' /\ OwnAnswerUnlessGivenUp'
  BY Elsewhere DEF Stop, clientVars, TypeOK
<1>3. ConnKnown' /\ Fresh' /\ Exclusive' /\ Holder' /\ ConnectedIsClean'
  BY DEF Stop, clientVars, TypeOK, ConnKnown, Fresh, Exclusive, Holder, ConnectedIsClean
<1>4. QED
  BY <1>1, <1>2, <1>3

LEMMA ExitKeepsIInv ==
    ASSUME IInv, Exit
    PROVE  IInv'
<1> USE ConstantsAssumption DEF IInv
<1>1. TypeOK'
  BY DEF Exit, clientVars, TypeOK
<1>2. PipeOwned' /\ PipeOnce' /\ RanSent' /\ OwnAnswerUnlessGivenUp'
  BY Elsewhere DEF Exit, clientVars, TypeOK
<1>3. ConnKnown' /\ Fresh' /\ Exclusive' /\ Holder' /\ ConnectedIsClean'
  BY DEF Exit, clientVars, TypeOK, ConnKnown, Fresh, Exclusive, Holder, ConnectedIsClean
<1>4. QED
  BY <1>1, <1>2, <1>3

LEMMA CrashKeepsIInv ==
    ASSUME IInv, Crash
    PROVE  IInv'
<1> USE ConstantsAssumption DEF IInv
<1>1. TypeOK'
  BY DEF Crash, clientVars, TypeOK
<1>2. PipeOwned' /\ PipeOnce' /\ RanSent' /\ OwnAnswerUnlessGivenUp'
  BY Elsewhere DEF Crash, clientVars, TypeOK
<1>3. ConnKnown' /\ Fresh' /\ Exclusive' /\ Holder' /\ ConnectedIsClean'
  BY DEF Crash, clientVars, TypeOK, ConnKnown, Fresh, Exclusive, Holder, ConnectedIsClean
<1>4. QED
  BY <1>1, <1>2, <1>3

LEMMA StartKeepsIInv ==
    ASSUME IInv, Start
    PROVE  IInv'
<1> USE ConstantsAssumption DEF IInv
<1>1. TypeOK'
  BY DEF Start, clientVars, TypeOK
<1>2. PipeOwned' /\ PipeOnce' /\ RanSent' /\ OwnAnswerUnlessGivenUp'
  BY Elsewhere DEF Start, clientVars, TypeOK
<1>3. ConnKnown' /\ Fresh' /\ Exclusive' /\ Holder' /\ ConnectedIsClean'
  BY DEF Start, clientVars, TypeOK, ConnKnown, Fresh, Exclusive, Holder, ConnectedIsClean
<1>4. QED
  BY <1>1, <1>2, <1>3

LEMMA SendKeepsIInv ==
    ASSUME IInv, NEW c \in Calls, Send(c)
    PROVE  IInv'
<1> USE ConstantsAssumption DEF IInv
<1> DEFINE k == call[c].conn
<1>1. MovedTo(c, "sent", k, call[c].answer)
  BY MoveStage DEF Send, Stage
<1>2. k \in Conns
  BY DEF Send, TypeOK, ConnKnown, CallRecord
<1>3. /\ \A l \in Conns : c \notin Pipe(l)
      /\ ran[c] = 0
  BY DEF Send, PipeOwned, RanSent
<1>4. /\ requests'[k] = Append(requests[k], c)
      /\ Elements(requests'[k]) = Elements(requests[k]) \cup {c}
      /\ NoRepeat(requests'[k])
      /\ \A l \in Conns : l # k => requests'[l] = requests[l]
  BY <1>2, <1>3, AppendElements DEF Send, TypeOK, PipeOnce, Pipe
<1>5. TypeOK'
  BY <1>1, <1>2, <1>4 DEF Send, TypeOK, MovedTo, clientVars
<1>6. ConnKnown' /\ Fresh' /\ Exclusive' /\ Holder' /\ ConnectedIsClean'
  <2>1. ConnKnown' /\ Fresh'
    BY <1>1 DEF Send, clientVars, ConnKnown, Fresh, MovedTo
  <2>2. Exclusive'
    BY <1>1 DEF Send, clientVars, Exclusive, MovedTo, Calls
  <2>3. Holder' /\ ConnectedIsClean'
    BY <1>1 DEF Send, clientVars, Holder, ConnectedIsClean, MovedTo, Calls
  <2>4. QED
    BY <2>1, <2>2, <2>3
<1>7. PipeOwned'
  <2> SUFFICES ASSUME NEW l \in Conns, NEW d \in Calls, d \in Pipe(l)'
               PROVE  /\ call'[d].conn = l
                      /\ call'[d].stage \in {"sent", "failed", "answered"}
                      /\ call'[d].stage = "sent" \/ GivenUpOn(l)'
    BY DEF PipeOwned
  <2>1. CASE d = c
    BY <1>1, <1>3, <1>4, <2>1 DEF Pipe, Send, clientVars, MovedTo
  <2>2. CASE d # c
    <3>1. d \in Pipe(l) /\ call'[d] = call[d]
      BY <1>1, <1>4, <2>2 DEF Pipe, Send, clientVars, MovedTo
    <3>2. GivenUpOn(l) => GivenUpOn(l)'
      BY <1>1 DEF GivenUpOn, MovedTo, Send
    <3>3. QED
      BY <3>1, <3>2 DEF PipeOwned
  <2>3. QED
    BY <2>1, <2>2
<1>8. PipeOnce'
  <2> SUFFICES ASSUME NEW l \in Conns
               PROVE  /\ NoRepeat(requests'[l])
                      /\ NoRepeat(replies[l])
                      /\ \A d \in Elements(requests'[l]) : ran[d] = 0
                      /\ \A d \in Elements(replies[l]) : ran[d] = 1 /\ handler[l] # d
                      /\ handler[l] \in Calls => ran[handler[l]] = 1
    BY DEF PipeOnce, Send, clientVars
  <2>1. QED
    BY <1>3, <1>4 DEF PipeOnce
<1>9. RanSent' /\ OwnAnswerUnlessGivenUp'
  <2>1. RanSent'
    BY <1>1 DEF RanSent, MovedTo, Send
  <2>2. OwnAnswerUnlessGivenUp'
    BY <1>1 DEF OwnAnswerUnlessGivenUp, MovedTo, Send, Calls
  <2>3. QED
    BY <2>1, <2>2
<1>10. QED
  BY <1>5, <1>6, <1>7, <1>8, <1>9

\* What a returning call leaves behind, whichever way it returns.
LEMMA ReturnKeeps ==
    ASSUME IInv, NEW c \in Calls, call[c].stage \in {"ready", "sent"},
           NEW st \in {"failed", "answered"}, NEW a \in Calls \cup {NoCall},
           Return(c, st, a), UNCHANGED <<handler, agent, restarts, ran, requests>>
    PROVE  /\ MovedTo(c, st, call[c].conn, a)
           /\ ConnKnown' /\ Fresh' /\ Exclusive' /\ Holder' /\ ConnectedIsClean'
           /\ replies' \in [Conns -> Seq(Calls)] => TypeOK'
<1> USE ConstantsAssumption DEF IInv
<1>1. call[c].conn \in Conns \cup {NoConn} /\ st \in Stage
  BY DEF TypeOK, CallRecord, Stage
<1>2. MovedTo(c, st, call[c].conn, a)
  BY <1>1, MoveAll DEF Return
<1>3. TypeOK' \/ replies' \notin [Conns -> Seq(Calls)]
  BY <1>2 DEF Return, TypeOK, MovedTo
<1>4. ConnKnown' /\ Fresh'
  <2>1. ConnKnown'
    BY <1>2 DEF Return, ConnKnown, MovedTo
  <2>2. Fresh'
    BY <1>2 DEF Return, Fresh, MovedTo
  <2>3. QED
    BY <2>1, <2>2
<1>5. Exclusive'
  BY <1>2 DEF Return, Exclusive, MovedTo, Calls
<1>6. Holder'
  BY <1>2 DEF Return, Holder, MovedTo, Calls
<1>7. ConnectedIsClean'
  <2>1. CASE c \in Isolated
    BY <1>2, <2>1 DEF Return, ConnectedIsClean, MovedTo, Calls
  <2>2. CASE c \in Shared
    BY <1>2, <2>2 DEF Return, ConnectedIsClean, MovedTo, Calls
  <2>3. QED
    BY <2>1, <2>2 DEF Calls
<1>8. QED
  BY <1>2, <1>3, <1>4, <1>5, <1>6, <1>7

LEMMA GiveUpKeepsIInv ==
    ASSUME IInv, NEW c \in Calls, GiveUp(c)
    PROVE  IInv'
<1> USE ConstantsAssumption DEF IInv
<1>1. /\ MovedTo(c, "failed", call[c].conn, NoCall)
      /\ ConnKnown' /\ Fresh' /\ Exclusive' /\ Holder' /\ ConnectedIsClean'
      /\ TypeOK'
  BY ReturnKeeps DEF GiveUp, TypeOK
<1>2. \A l \in Conns : Pipe(l)' = Pipe(l)
  BY DEF Pipe, GiveUp
<1>3. PipeOwned'
  <2> SUFFICES ASSUME NEW l \in Conns, NEW d \in Calls, d \in Pipe(l)
               PROVE  /\ call'[d].conn = l
                      /\ call'[d].stage \in {"sent", "failed", "answered"}
                      /\ call'[d].stage = "sent" \/ GivenUpOn(l)'
    BY <1>2 DEF PipeOwned
  <2>1. CASE d = c
    BY <1>1, <2>1 DEF PipeOwned, GivenUpOn, MovedTo
  <2>2. CASE d # c
    <3>1. GivenUpOn(l) => GivenUpOn(l)'
      BY <1>1 DEF GivenUpOn, MovedTo
    <3>2. QED
      BY <1>1, <2>2, <3>1 DEF PipeOwned, MovedTo
  <2>3. QED
    BY <2>1, <2>2
<1>4. PipeOnce'
  BY DEF PipeOnce, GiveUp
<1>5. RanSent'
  BY <1>1 DEF RanSent, MovedTo, GiveUp
<1>6. OwnAnswerUnlessGivenUp'
  <2> SUFFICES ASSUME NEW d \in Calls, call'[d].stage = "answered", call'[d].answer # d
               PROVE  /\ d \in Shared
                      /\ \E e \in Shared : call'[e].stage = "failed" /\ call'[e].conn = call'[d].conn
    BY DEF OwnAnswerUnlessGivenUp
  <2>1. d # c /\ call'[d] = call[d]
    BY <1>1 DEF MovedTo
  <2>2. PICK e \in Shared : call[e].stage = "failed" /\ call[e].conn = call[d].conn
    BY <2>1 DEF OwnAnswerUnlessGivenUp
  <2>3. e # c /\ call'[e] = call[e]
    BY <1>1, <2>2 DEF MovedTo, Calls, GiveUp
  <2>4. QED
    BY <2>1, <2>2, <2>3 DEF OwnAnswerUnlessGivenUp
<1>7. QED
  BY <1>1, <1>3, <1>4, <1>5, <1>6

\* The reply at the head of c's connection: what its being there says.
LEMMA HeadOfReplies ==
    ASSUME IInv, NEW c \in Calls, call[c].stage = "sent", replies[call[c].conn] # <<>>
    PROVE  LET k == call[c].conn
               d == Head(replies[k])
           IN  /\ k \in Conns
               /\ d \in Calls
               /\ d \in Pipe(k)
               /\ ran[d] = 1
               /\ d # c => /\ c \in Shared
                           /\ \E e \in Shared : call[e].stage = "failed" /\ call[e].conn = k
<1> USE ConstantsAssumption DEF IInv
<1> DEFINE k == call[c].conn
           d == Head(replies[k])
<1>1. k \in Conns
  BY DEF TypeOK, ConnKnown, CallRecord
<1>2. d \in Elements(replies[k]) /\ d \in Calls
  BY <1>1, TailElements DEF TypeOK, PipeOnce
<1>3. d \in Pipe(k) /\ ran[d] = 1
  BY <1>1, <1>2 DEF Pipe, PipeOnce
<1>4. ASSUME d # c
      PROVE  c \in Shared /\ \E e \in Shared : call[e].stage = "failed" /\ call[e].conn = k
  <2>1. call[d].conn = k
    BY <1>1, <1>2, <1>3 DEF PipeOwned
  <2>2. c \in Shared /\ d \in Shared
    BY <1>1, <1>2, <1>4, <2>1 DEF Exclusive, Calls
  <2>3. call[d].stage # "sent"
    BY <1>4, <2>2 DEF Holder
  <2>4. PICK e \in Calls : call[e].stage = "failed" /\ call[e].conn = k
    BY <1>1, <1>2, <1>3, <2>3 DEF PipeOwned, GivenUpOn
  <2>5. e \in Shared
    BY <1>1, <2>2, <2>4 DEF Exclusive, Calls
  <2>6. QED
    BY <2>2, <2>4, <2>5
<1>5. QED
  BY <1>1, <1>2, <1>3, <1>4

LEMMA ReceiveKeepsIInv ==
    ASSUME IInv, NEW c \in Calls, Receive(c)
    PROVE  IInv'
<1> USE ConstantsAssumption DEF IInv
<1> DEFINE k == call[c].conn
           d == Head(replies[k])
<1>1. PICK n \in 1..Len(replies[k]) :
         replies' = [replies EXCEPT ![k] = SubSeq(@, n + 1, Len(@))]
  BY DEF Receive
<1>2. /\ k \in Conns
      /\ replies[k] # <<>>
      /\ replies[k] \in Seq(Calls)
      /\ NoRepeat(replies[k])
  BY <1>1 DEF Receive, TypeOK, ConnKnown, CallRecord, PipeOnce
<1>3. /\ d \in Calls
      /\ d \in Pipe(k)
      /\ ran[d] = 1
      /\ d # c => /\ c \in Shared
                  /\ \E e \in Shared : call[e].stage = "failed" /\ call[e].conn = k
  BY <1>2, HeadOfReplies DEF Receive
<1>4. /\ d \in Elements(replies[k])
      /\ replies'[k] \in Seq(Calls)
      /\ Elements(replies'[k]) \subseteq Elements(replies[k]) \ {d}
      /\ NoRepeat(replies'[k])
      /\ \A l \in Conns : l # k => replies'[l] = replies[l]
  BY <1>1, <1>2, SuffixElements DEF TypeOK
<1>5. replies' \in [Conns -> Seq(Calls)]
  BY <1>1, <1>4 DEF TypeOK
<1>6. /\ MovedTo(c, "answered", k, d)
      /\ ConnKnown' /\ Fresh' /\ Exclusive' /\ Holder' /\ ConnectedIsClean'
      /\ TypeOK'
  BY <1>3, <1>5, ReturnKeeps DEF Receive
<1>7. \A l \in Conns : GivenUpOn(l) => GivenUpOn(l)'
  BY <1>6 DEF GivenUpOn, MovedTo, Receive
<1>8. PipeOwned'
  <2> SUFFICES ASSUME NEW l \in Conns, NEW e \in Calls, e \in Pipe(l)'
               PROVE  /\ call'[e].conn = l
                      /\ call'[e].stage \in {"sent", "failed", "answered"}
                      /\ call'[e].stage = "sent" \/ GivenUpOn(l)'
    BY DEF PipeOwned
  <2>1. e \in Pipe(l)
    BY <1>4 DEF Pipe, Receive
  <2>2. CASE e # c
    BY <1>6, <1>7, <2>1, <2>2 DEF PipeOwned, MovedTo
  <2>3. CASE e = c
    <3>1. l = k
      BY <2>1, <2>3 DEF PipeOwned
    <3>2. d # c
      BY <1>2, <1>3, <1>4, <2>3, <3>1 DEF Pipe, PipeOnce, Receive
    <3>3. GivenUpOn(k)
      BY <1>3, <3>2 DEF GivenUpOn, Calls
    <3>4. QED
      BY <1>2, <1>6, <1>7, <2>3, <3>1, <3>3 DEF MovedTo
  <2>4. QED
    BY <2>2, <2>3
<1>9. PipeOnce'
  <2> SUFFICES ASSUME NEW l \in Conns
               PROVE  /\ NoRepeat(requests[l])
                      /\ NoRepeat(replies'[l])
                      /\ \A e \in Elements(requests[l]) : ran[e] = 0
                      /\ \A e \in Elements(replies'[l]) : ran[e] = 1 /\ handler[l] # e
                      /\ handler[l] \in Calls => ran[handler[l]] = 1
    BY DEF PipeOnce, Receive
  <2>1. QED
    BY <1>4 DEF PipeOnce
<1>10. RanSent'
  BY <1>3, <1>6 DEF RanSent, MovedTo, Receive
<1>11. OwnAnswerUnlessGivenUp'
  <2> SUFFICES ASSUME NEW e \in Calls, call'[e].stage = "answered", call'[e].answer # e
               PROVE  /\ e \in Shared
                      /\ \E f \in Shared : call'[f].stage = "failed" /\ call'[f].conn = call'[e].conn
    BY DEF OwnAnswerUnlessGivenUp
  <2>1. PICK f \in Shared : /\ e \in Shared
                            /\ call[f].stage = "failed"
                            /\ call[f].conn = call'[e].conn
    BY <1>3, <1>6 DEF OwnAnswerUnlessGivenUp, MovedTo
  <2>2. call'[f] = call[f]
    BY <1>6, <2>1 DEF MovedTo, Calls, Receive
  <2>3. QED
    BY <2>1, <2>2
<1>12. QED
  BY <1>6, <1>8, <1>9, <1>10, <1>11

LEMMA TakeKeepsIInv ==
    ASSUME IInv, NEW k \in Conns, Take(k)
    PROVE  IInv'
<1> USE ConstantsAssumption DEF IInv
<1> DEFINE c == Head(requests[k])
<1>1. /\ c \in Elements(requests[k])
      /\ c \in Calls
      /\ requests'[k] \in Seq(Calls)
      /\ Elements(requests'[k]) \subseteq Elements(requests[k]) \ {c}
      /\ NoRepeat(requests'[k])
      /\ \A l \in Conns : l # k => requests'[l] = requests[l]
  BY TailElements DEF Take, TypeOK, PipeOnce
<1>2. ran[c] = 0 /\ ran'[c] = 1 /\ \A d \in Calls : d # c => ran'[d] = ran[d]
  BY <1>1 DEF Take, TypeOK, PipeOnce
<1>3. handler'[k] = c /\ \A l \in Conns : l # k => handler'[l] = handler[l]
  BY DEF Take, TypeOK
<1>4. TypeOK'
  BY <1>1 DEF Take, TypeOK, clientVars
<1>5. ConnKnown' /\ Fresh' /\ Exclusive' /\ Holder' /\ ConnectedIsClean'
  BY <1>1, <1>3 DEF Take, clientVars, ConnKnown, Fresh, Exclusive, Holder, ConnectedIsClean
<1>6. \A l \in Conns : Pipe(l)' \cap Calls \subseteq Pipe(l)
  BY <1>1, <1>3 DEF Pipe, Take
<1>7. PipeOwned'
  <2>1. \A l \in Conns : GivenUpOn(l)' <=> GivenUpOn(l)
    BY DEF GivenUpOn, Take
  <2>2. QED
    BY <1>6, <2>1 DEF PipeOwned, Take
<1>8. PipeOnce'
  <2> SUFFICES ASSUME NEW l \in Conns
               PROVE  /\ NoRepeat(requests'[l])
                      /\ NoRepeat(replies[l])
                      /\ \A d \in Elements(requests'[l]) : ran'[d] = 0
                      /\ \A d \in Elements(replies[l]) : ran'[d] = 1 /\ handler'[l] # d
                      /\ handler'[l] \in Calls => ran'[handler'[l]] = 1
    BY DEF PipeOnce, Take
  <2>1. Elements(replies[l]) \subseteq Calls /\ Elements(requests[l]) \subseteq Calls
    BY ElementsTyped DEF TypeOK
  <2>2. \A d \in Elements(requests'[l]) : d # c
    <3>1. CASE l = k
      BY <1>1, <3>1
    <3>2. CASE l # k
      BY <1>1, <2>1, <3>2 DEF PipeOwned, Pipe
    <3>3. QED
      BY <3>1, <3>2
  <2>3. \A d \in Elements(replies[l]) : d # c
    BY <1>2 DEF PipeOnce
  <2>4. handler[l] \in Calls => handler[l] # c
    BY <1>2 DEF PipeOnce
  <2>5. QED
    BY <1>1, <1>2, <1>3, <2>1, <2>2, <2>3, <2>4 DEF PipeOnce
<1>9. RanSent'
  <2>1. call[c].stage \in {"sent", "failed", "answered"}
    BY <1>1 DEF PipeOwned, Pipe
  <2>2. QED
    BY <1>1, <1>2, <2>1 DEF RanSent, Take
<1>10. OwnAnswerUnlessGivenUp'
  BY DEF OwnAnswerUnlessGivenUp, Take
<1>11. QED
  BY <1>4, <1>5, <1>7, <1>8, <1>9, <1>10

LEMMA ReplyKeepsIInv ==
    ASSUME IInv, NEW k \in Conns, Reply(k)
    PROVE  IInv'
<1> USE ConstantsAssumption DEF IInv
<1> DEFINE c == handler[k]
<1>1. c \in Calls
  BY DEF Reply, Running
<1>2. /\ c \notin Elements(replies[k])
      /\ replies[k] \in Seq(Calls)
      /\ NoRepeat(replies[k])
  BY <1>1 DEF PipeOnce, TypeOK
<1>3. CASE k \in open
  <2>1. /\ replies'[k] = Append(replies[k], c)
        /\ \A l \in Conns : l # k => replies'[l] = replies[l]
        /\ handler' = [handler EXCEPT ![k] = "reading"]
    BY <1>3 DEF Reply, TypeOK
  <2>2. /\ replies'[k] \in Seq(Calls)
        /\ Elements(replies'[k]) = Elements(replies[k]) \cup {c}
        /\ NoRepeat(replies'[k])
    BY <1>1, <1>2, <2>1, AppendElements
  <2>3. /\ handler'[k] = "reading"
        /\ \A l \in Conns : l # k => handler'[l] = handler[l]
    BY <2>1 DEF TypeOK
  <2>4. replies' \in [Conns -> Seq(Calls)]
    BY <2>1, <2>2, <1>3 DEF Reply, TypeOK
  <2>5. TypeOK'
    BY <2>1, <2>4 DEF TypeOK, Reply, clientVars
  <2>6. ConnKnown' /\ Fresh' /\ Exclusive' /\ Holder' /\ ConnectedIsClean'
    BY <2>3 DEF Reply, clientVars, ConnKnown, Fresh, Exclusive, Holder, ConnectedIsClean
  <2>7. \A l \in Conns : Pipe(l)' \cap Calls \subseteq Pipe(l)
    BY <2>1, <2>2, <2>3 DEF Pipe, Reply
  <2>8. PipeOwned'
    <3>1. \A l \in Conns : GivenUpOn(l)' <=> GivenUpOn(l)
      BY DEF GivenUpOn, Reply
    <3>2. QED
      BY <2>7, <3>1 DEF PipeOwned, Reply
  <2>9. PipeOnce'
    <3> SUFFICES ASSUME NEW l \in Conns
                 PROVE  /\ NoRepeat(requests[l])
                        /\ NoRepeat(replies'[l])
                        /\ \A d \in Elements(requests[l]) : ran[d] = 0
                        /\ \A d \in Elements(replies'[l]) : ran[d] = 1 /\ handler'[l] # d
                        /\ handler'[l] \in Calls => ran[handler'[l]] = 1
      BY DEF PipeOnce, Reply
    <3>1. Elements(replies[l]) \subseteq Calls
      BY ElementsTyped DEF TypeOK
    <3>2. CASE l = k
      BY <1>1, <2>2, <2>3, <3>1, <3>2 DEF PipeOnce
    <3>3. CASE l # k
      BY <2>1, <2>3, <3>3 DEF PipeOnce
    <3>4. QED
      BY <3>2, <3>3
  <2>10. RanSent' /\ OwnAnswerUnlessGivenUp'
    BY DEF RanSent, OwnAnswerUnlessGivenUp, Reply
  <2>11. QED
    BY <2>5, <2>6, <2>8, <2>9, <2>10
<1>4. CASE k \notin open
  <2>1. TypeOK'
    BY <1>4 DEF TypeOK, Reply, clientVars
  <2>2. PipeOwned' /\ PipeOnce' /\ RanSent' /\ OwnAnswerUnlessGivenUp'
    BY <1>4, Elsewhere DEF TypeOK, Reply
  <2>3. ConnKnown' /\ Fresh' /\ Exclusive' /\ Holder' /\ ConnectedIsClean'
    BY <1>4 DEF Reply, clientVars, TypeOK, ConnKnown, Fresh, Exclusive, Holder, ConnectedIsClean
  <2>4. QED
    BY <2>1, <2>2, <2>3
<1>5. QED
  BY <1>3, <1>4

LEMMA StutterKeepsIInv == ASSUME IInv, UNCHANGED vars PROVE IInv'
<1> USE DEF IInv, vars, clientVars
<1>1. TypeOK' /\ ConnKnown' /\ Fresh' /\ Exclusive' /\ Holder'
  BY DEF TypeOK, ConnKnown, Fresh, Exclusive, Holder
<1>2. PipeOwned' /\ PipeOnce' /\ RanSent' /\ OwnAnswerUnlessGivenUp'
  BY Elsewhere DEF TypeOK
<1>3. ConnectedIsClean'
  BY DEF ConnectedIsClean
<1>4. QED
  BY <1>1, <1>2, <1>3

LEMMA NextKeepsIInv == ASSUME IInv, [Next]_vars PROVE IInv'
<1>1. ASSUME NEW c \in Calls, ClientStep(c) PROVE IInv'
  BY <1>1, CheckKeepsIInv, ConnectKeepsIInv, ConnectFailsKeepsIInv, LockKeepsIInv,
     DialIsolatedKeepsIInv, DialIsolatedFailsKeepsIInv, SendKeepsIInv,
     ReceiveKeepsIInv, GiveUpKeepsIInv DEF ClientStep
<1>2. ASSUME NEW k \in Conns, ServerStep(k) \/ Collect(k) PROVE IInv'
  BY <1>2, AcceptKeepsIInv, TakeKeepsIInv, ReplyKeepsIInv, HangUpKeepsIInv,
     CollectKeepsIInv DEF ServerStep
<1>3. ASSUME Stop \/ Exit \/ Crash \/ Start PROVE IInv'
  BY <1>3, StopKeepsIInv, ExitKeepsIInv, CrashKeepsIInv, StartKeepsIInv
<1>4. QED
  BY <1>1, <1>2, <1>3, StutterKeepsIInv DEF Next

LEMMA Invariant == Spec => []IInv
  BY InitIInv, NextKeepsIInv, PTL DEF Spec
-----------------------------------------------------------------------------
\* Every variable keeps its type.
THEOREM TypeCorrect == Spec => []TypeOK
<1>1. IInv => TypeOK
  BY DEF IInv
<1>2. QED
  BY <1>1, Invariant, PTL

\* A reply reaches the call it answers, except over a shared connection on which
\* some call has given up (Client.call never compares the reply's ID).
THEOREM RepliesReachTheirCalls == Spec => []OwnAnswerUnlessGivenUp
<1>1. IInv => OwnAnswerUnlessGivenUp
  BY DEF IInv
<1>2. QED
  BY <1>1, Invariant, PTL

\* While c.connected is set no call has given up on c.conn.
THEOREM ConnectionIsClean == Spec => []ConnectedIsClean
<1>1. IInv => ConnectedIsClean
  BY DEF IInv
<1>2. QED
  BY <1>1, Invariant, PTL

\* The agent runs each request at most once, and never one that was not sent.
THEOREM AtMostOnce == Spec => []RunsAtMostOnce
<1>1. IInv => RunsAtMostOnce
  <2> SUFFICES ASSUME IInv, NEW c \in Calls
               PROVE  ran[c] <= (IF call[c].stage \in {"idle", "refused"} THEN 0 ELSE 1)
    BY DEF RunsAtMostOnce
  <2>1. /\ ran[c] \in {0, 1}
        /\ ran[c] = 1 => call[c].stage \in {"sent", "failed", "answered"}
    BY DEF IInv, RanSent
  <2>2. QED
    BY <2>1
<1>2. QED
  BY <1>1, Invariant, PTL

\* Without failures the agent runs the shared calls one at a time: two of them
\* running would both be waiting, and a call waits with the mutex held.
THEOREM SharedCallsAreSerial == Spec => []SerialUnlessGivenUp
<1>1. IInv => SerialUnlessGivenUp
  <2> SUFFICES ASSUME IInv, \A c \in Shared : call[c].stage # "failed",
                      NEW k \in Conns, NEW l \in Conns,
                      handler[k] \in Shared, handler[l] \in Shared
               PROVE  k = l
    BY DEF SerialUnlessGivenUp
  <2>1. ASSUME NEW m \in Conns, handler[m] \in Shared
        PROVE  call[handler[m]].conn = m /\ mutex = handler[m]
    <3>1. /\ handler[m] \in Calls
          /\ call[handler[m]].conn = m
          /\ call[handler[m]].stage = "sent" \/ GivenUpOn(m)
      BY <2>1 DEF IInv, PipeOwned, Pipe, Calls
    <3>2. ~GivenUpOn(m)
      BY <2>1, <3>1, ConstantsAssumption DEF GivenUpOn, IInv, Exclusive, Calls
    <3>3. QED
      BY <2>1, <3>1, <3>2 DEF IInv, Holder
  <2>2. QED
    BY <2>1
<1>2. QED
  BY <1>1, Invariant, PTL
-----------------------------------------------------------------------------
(***************************************************************************)
(* Refinement: each step of AgentRpc is a step of AgentCall on the         *)
(* isolated calls, or leaves them as they are.                             *)
(***************************************************************************)
AbstractOutcome == [c \in Isolated |-> Outcome(c)]
AbstractRan == [c \in Isolated |-> ran[c]]
AbstractVars == <<AbstractOutcome, AbstractRan>>

\* A step that changes the records of no isolated call and runs none.
LEMMA NothingIsolated ==
    ASSUME \A c \in Isolated : call'[c].stage = call[c].stage /\ ran'[c] = ran[c]
    PROVE  AbstractVars' = AbstractVars
  BY DEF AbstractVars, AbstractOutcome, AbstractRan, Outcome

\* A step of one call.
LEMMA OneOutcome ==
    ASSUME NEW c \in Isolated, NEW st \in Stage, call'[c].stage = st, UNCHANGED ran,
           \A d \in Calls : d # c => call'[d] = call[d]
    PROVE  /\ AbstractOutcome' = [AbstractOutcome EXCEPT ![c] = IF st \in {"ready", "sent"} THEN "pending" ELSE st]
           /\ AbstractRan' = AbstractRan
  BY DEF AbstractOutcome, AbstractRan, Outcome, Calls

LEMMA InitRefines == Init => IsolatedCalls!Init
  BY DEF Init, IsolatedCalls!Init, Outcome, Calls

LEMMA NextRefines ==
    ASSUME IInv, IInv', [Next]_vars
    PROVE  IsolatedCalls!Next \/ AbstractVars' = AbstractVars
<1> USE ConstantsAssumption
<1> DEFINE Goal == IsolatedCalls!Next \/ AbstractVars' = AbstractVars
<1>1. ASSUME NEW c \in Calls, ClientStep(c) PROVE Goal
  <2>1. UNCHANGED ran
    BY <1>1 DEF ClientStep, Check, Connect, ConnectFails, Lock, DialIsolated,
                DialIsolatedFails, Send, Receive, GiveUp
  <2>2. \A d \in Calls : d # c => call'[d] = call[d]
    BY <1>1 DEF ClientStep, Check, Connect, ConnectFails, Lock, DialIsolated,
                DialIsolatedFails, Send, Receive, GiveUp, Move, Return, IInv, TypeOK
  <2>3. CASE c \in Shared
    BY <2>1, <2>2, <2>3, NothingIsolated DEF Calls
  <2>4. CASE c \in Isolated
    <3>1. ASSUME NEW k \in Conns, DialIsolated(c, k) PROVE IsolatedCalls!Submit(c)
      <4>1. call[c].stage = "idle" /\ call'[c].stage = "ready"
        BY <3>1, <1>1 DEF DialIsolated, Move, IInv, TypeOK
      <4>2. QED
        BY <4>1, <2>1, <2>2, <2>4, OneOutcome
           DEF IsolatedCalls!Submit, AbstractOutcome, AbstractRan, Outcome, Stage
    <3>2. ASSUME DialIsolatedFails(c) PROVE IsolatedCalls!Refuse(c)
      <4>1. call[c].stage = "idle" /\ call'[c].stage = "refused"
        BY <3>2, <1>1 DEF DialIsolatedFails, IInv, TypeOK, CallRecord
      <4>2. QED
        BY <4>1, <2>1, <2>2, <2>4, OneOutcome
           DEF IsolatedCalls!Refuse, AbstractOutcome, AbstractRan, Outcome, Stage
    <3>3. ASSUME Send(c) PROVE AbstractVars' = AbstractVars
      <4>1. call[c].stage = "ready" /\ call'[c].stage = "sent"
        BY <3>3, <1>1 DEF Send, IInv, TypeOK, CallRecord
      <4>2. QED
        BY <4>1, <2>1, <2>2, <2>4 DEF AbstractVars, AbstractOutcome, AbstractRan, Outcome, Calls
    <3>4. ASSUME Receive(c) PROVE IsolatedCalls!Answer(c)
      <4>1. call[c].stage = "sent" /\ call'[c].stage = "answered"
        BY <3>4, <1>1 DEF Receive, Return, Move, IInv, TypeOK
      <4>2. call'[c].answer = c
        BY <4>1, <1>1, <2>4 DEF IInv, OwnAnswerUnlessGivenUp
      <4>3. ran[c] = 1
        BY <4>1, <4>2, <1>1, <2>1 DEF IInv, RanSent
      <4>4. QED
        BY <4>1, <4>3, <2>1, <2>2, <2>4, OneOutcome
           DEF IsolatedCalls!Answer, AbstractOutcome, AbstractRan, Outcome, Stage
    <3>5. ASSUME GiveUp(c) PROVE IsolatedCalls!GiveUp(c)
      <4>1. call[c].stage \in {"ready", "sent"} /\ call'[c].stage = "failed"
        BY <3>5, <1>1 DEF GiveUp, Return, Move, IInv, TypeOK
      <4>2. QED
        BY <4>1, <2>1, <2>2, <2>4, OneOutcome
           DEF IsolatedCalls!GiveUp, AbstractOutcome, AbstractRan, Outcome, Stage
    <3>6. ~Check(c) /\ ~ConnectFails(c) /\ ~Lock(c) /\ \A k \in Conns : ~Connect(c, k)
      BY <2>4 DEF Check, ConnectFails, Lock, Connect, IInv, ConnKnown, Calls
    <3>7. QED
      BY <1>1, <2>4, <3>1, <3>2, <3>3, <3>4, <3>5, <3>6 DEF ClientStep, IsolatedCalls!Next
  <2>5. QED
    BY <2>3, <2>4 DEF Calls
<1>2. ASSUME NEW k \in Conns, Take(k) PROVE Goal
  <2>1. PICK c \in Calls : c = Head(requests[k]) /\ c \in Elements(requests[k])
    BY <1>2, TailElements DEF Take, IInv, TypeOK, PipeOnce
  <2>2. ran[c] = 0 /\ ran' = [ran EXCEPT ![c] = ran[c] + 1] /\ call' = call
    BY <1>2, <2>1 DEF Take, IInv, PipeOnce, TypeOK
  <2>3. CASE c \in Shared
    <3>1. \A d \in Isolated : ran'[d] = ran[d]
      BY <2>2, <2>3 DEF IInv, TypeOK, Calls
    <3>2. QED
      BY <2>2, <3>1, NothingIsolated
  <2>4. CASE c \in Isolated
    <3>1. call[c].stage \in {"sent", "failed", "answered"}
      BY <2>1 DEF IInv, PipeOwned, Pipe
    <3>2. call[c].stage # "answered"
      BY <2>1, <2>2, <2>4 DEF IInv, RanSent, OwnAnswerUnlessGivenUp
    <3>3. AbstractRan' = [AbstractRan EXCEPT ![c] = 1] /\ AbstractOutcome' = AbstractOutcome
      <4>1. ran'[c] = 1 /\ \A d \in Isolated : d # c => ran'[d] = ran[d]
        BY <2>1, <2>2 DEF IInv, TypeOK, Calls
      <4>2. AbstractOutcome' = AbstractOutcome
        BY <2>2 DEF AbstractOutcome, Outcome
      <4>3. QED
        BY <2>4, <4>1, <4>2 DEF AbstractRan
    <3>4. IsolatedCalls!Run(c)
      BY <2>2, <2>4, <3>1, <3>2, <3>3
         DEF IsolatedCalls!Run, AbstractOutcome, AbstractRan, Outcome
    <3>5. IsolatedCalls!Next
      BY <2>4, <3>4 DEF IsolatedCalls!Next
    <3>6. QED
      BY <3>5
  <2>5. QED
    BY <2>1, <2>3, <2>4 DEF Calls
<1>3. ASSUME NEW k \in Conns, Accept(k) \/ Reply(k) \/ HangUp(k) \/ Collect(k) PROVE Goal
  BY <1>3, NothingIsolated DEF Accept, Reply, HangUp, Collect
<1>4. ASSUME Stop \/ Exit \/ Crash \/ Start PROVE Goal
  BY <1>4, NothingIsolated DEF Stop, Exit, Crash, Start
<1>5. CASE UNCHANGED vars
  BY <1>5, NothingIsolated DEF vars
<1>6. QED
  BY <1>1, <1>2, <1>3, <1>4, <1>5 DEF Next, ServerStep

\* The isolated calls keep the promise of AgentCall, whatever happens beside them.
THEOREM Implementation == Spec => ImplementsAgentCall
<1>1. IInv /\ IInv' /\ [Next]_vars => [IsolatedCalls!Next]_AbstractVars
  BY NextRefines
<1>2. QED
  BY InitRefines, Invariant, <1>1, PTL
     DEF Spec, ImplementsAgentCall, IsolatedCalls!Spec, AbstractVars, AbstractOutcome, AbstractRan
=============================================================================
