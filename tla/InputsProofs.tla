---------------------------- MODULE InputsProofs ----------------------------
(***************************************************************************)
(* Proofs about what the runner learns from outside: the private stream,    *)
(* the server clock, the public order book, the answers of the REST client, *)
(* the loops that wait for a crossing and the decisions that trades         *)
(* trigger, each by itself and for every value of its constants.            *)
(***************************************************************************)
EXTENDS PrivateStream, ServerClock, MarketFeed, RestClient, CrossingWatch, SumTheorems, TLAPS

---------------------------------------------------------------------------
(* The private stream.  NoBlindEntries is not inductive: it says nothing of a *)
(* connection that is still blocked but may be opened by a reconciliation     *)
(* already under way.  Three facts close the gap.  A reconciliation carries a *)
(* generation that was handed out, and one of the present generation exists   *)
(* only after the subscription was served (GenerationsAreHandedOut).  The     *)
(* gate can only be open, and the exchange can only be pushing, in the phases *)
(* that follow (PhasesAgree).  A reconciliation of the present generation     *)
(* that has read the account has, with the wire, everything (ReadIsComplete). *)

Complete == 1..made \subseteq known \cup wire

GenerationsAreHandedOut ==
    \A r \in reconciling :
        /\ r.generation <= generation
        /\ r.generation = generation => phase \notin {"start", "connecting", "subscribing"}

PhasesAgree ==
    /\ state = "AUTHENTICATED" => phase \in {"subscribing", "streaming", "pinging"}
    /\ phase \in {"subscribing", "streaming", "pinging"} => state = "AUTHENTICATED"
    /\ attached => phase \in {"subscribing", "streaming", "pinging"}
    /\ ~required => phase \in {"streaming", "pinging"}
    /\ ~blocked => ~required
    /\ phase # "start" => generation > 0

ReadIsComplete ==
    attached => \A r \in reconciling : r.generation = generation /\ r.read => Complete

OpenIsComplete == ~required /\ attached => Complete

StreamInv ==
    TypeOK /\ GenerationsAreHandedOut /\ PhasesAgree /\ ReadIsComplete /\ OpenIsComplete

\* TypeOK in the parts that different provers take.
FlagsOK ==
    phase \in Phases /\ state \in States
    /\ required \in BOOLEAN /\ blocked \in BOOLEAN /\ attached \in BOOLEAN
CountsOK ==
    /\ generation \in 0..MaxGeneration /\ attempt \in 0..MaxAttempts /\ made \in 0..MaxExecutions
    /\ wire \subseteq 1..made /\ known \subseteq 1..made
Reconciliations == [generation : 1..MaxGeneration, read : BOOLEAN]

LEMMA TypeParts == TypeOK <=> FlagsOK /\ CountsOK /\ reconciling \subseteq Reconciliations
  BY DEF TypeOK, FlagsOK, CountsOK, Reconciliations

LEMMA InitStream == Init => StreamInv
<1> SUFFICES ASSUME Init PROVE StreamInv
  OBVIOUS
<1>1. TypeOK
  <2>1. FlagsOK
    BY Zenon DEF Init, FlagsOK, Phases, States
  <2>2. CountsOK
    BY StreamAssumption DEF Init, CountsOK
  <2>3. reconciling \subseteq Reconciliations
    BY DEF Init
  <2> QED
    BY <2>1, <2>2, <2>3, TypeParts
<1>2. GenerationsAreHandedOut /\ PhasesAgree /\ ReadIsComplete /\ OpenIsComplete
  BY DEF Init, GenerationsAreHandedOut, PhasesAgree, ReadIsComplete, OpenIsComplete
<1> QED
  BY <1>1, <1>2 DEF StreamInv

LEMMA StepType == StreamInv /\ [Next]_vars => TypeOK'
<1> SUFFICES ASSUME StreamInv, [Next]_vars PROVE TypeOK'
  OBVIOUS
<1> USE StreamAssumption DEF StreamInv, TypeOK, Phases, States
<1>1. CASE Connect
  <2>1. FlagsOK'
    BY <1>1, Zenon DEF Connect, BeginConnection, Detach, FlagsOK
  <2>2. CountsOK'
    BY <1>1 DEF Connect, BeginConnection, Detach, CountsOK
  <2> QED
    BY <1>1, <2>1, <2>2 DEF Connect, FlagsOK, CountsOK
<1>2. CASE Authenticate
  BY <1>2 DEF Authenticate, MarkAuthenticated
<1>3. CASE ExchangeSubscribes
  BY <1>3 DEF ExchangeSubscribes, supervisorVars
<1>4. CASE Subscribe
  <2>1. generation \in 1..MaxGeneration
    BY <1>4 DEF Subscribe, PhasesAgree
  <2>2. [generation |-> generation, read |-> FALSE] \in Reconciliations
    BY <2>1 DEF Reconciliations
  <2>3. reconciling' \subseteq Reconciliations
    BY <1>4, <2>2, Zenon DEF Subscribe, Reconciliations
  <2> QED
    BY <1>4, <2>3 DEF Subscribe, supervisorVars, Reconciliations
<1>5. CASE Refuse
  <2>1. FlagsOK'
    BY <1>5, Zenon DEF Refuse, MarkDisconnected, Detach, FlagsOK
  <2>2. CountsOK'
    BY <1>5 DEF Refuse, MarkDisconnected, Detach, CountsOK
  <2> QED
    BY <1>5, <2>1, <2>2 DEF Refuse, FlagsOK, CountsOK
<1>6. CASE Receive
  <2>1. FlagsOK'
    BY <1>6, Zenon DEF Receive, supervisorVars, FlagsOK
  <2>2. PICK e \in wire : /\ wire' = wire \ {e}
                          /\ known' \in {known, known \cup {e}} /\ attempt' \in {attempt, 0}
    BY <1>6 DEF Receive
  <2>3. CountsOK'
    BY <1>6, <2>2 DEF Receive, supervisorVars, CountsOK
  <2> QED
    BY <1>6, <2>1, <2>3 DEF Receive, FlagsOK, CountsOK
<1>7. CASE HeartbeatDue
  BY <1>7 DEF HeartbeatDue, supervisorVars
<1>8. CASE Pong
  BY <1>8 DEF Pong, supervisorVars
<1>9. CASE PongTimeout \/ ConnectionLost
  <2>1. FlagsOK'
    BY <1>9, Zenon DEF PongTimeout, ConnectionLost, Connected, Disconnected, MarkDisconnected, Detach, FlagsOK
  <2>2. CountsOK'
    BY <1>9 DEF PongTimeout, ConnectionLost, Connected, Disconnected, MarkDisconnected, Detach, CountsOK
  <2> QED
    BY <1>9, <2>1, <2>2 DEF PongTimeout, ConnectionLost, Connected, Disconnected, MarkDisconnected, Detach, FlagsOK, CountsOK
<1>10. CASE Retry
  <2>1. FlagsOK'
    BY <1>10, Zenon DEF Retry, MarkReconnecting, FlagsOK
  <2>2. CountsOK'
    BY <1>10 DEF Retry, MarkReconnecting, CountsOK
  <2> QED
    BY <1>10, <2>1, <2>2 DEF Retry, MarkReconnecting, FlagsOK, CountsOK
<1>11. CASE Exhaust
  BY <1>11 DEF Exhaust, supervisorVars
<1>12. CASE Cancel
  <2>1. FlagsOK'
    BY <1>12, Zenon DEF Cancel, MarkDisconnected, supervisorVars, Detach, FlagsOK
  <2>2. CountsOK'
    BY <1>12 DEF Cancel, MarkDisconnected, supervisorVars, Detach, CountsOK
  <2> QED
    BY <1>12, <2>1, <2>2 DEF Cancel, MarkDisconnected, supervisorVars, Detach, FlagsOK, CountsOK
<1>13. CASE Execute
  BY <1>13 DEF Execute, supervisorVars
<1>14. CASE LinkDies
  BY <1>14 DEF LinkDies, supervisorVars
<1>15. ASSUME NEW r \in reconciling, ReadAccount(r) PROVE TypeOK'
  BY <1>15 DEF ReadAccount, supervisorVars
<1>16. ASSUME NEW r \in reconciling, MarkReconciled(r) PROVE TypeOK'
  BY <1>16 DEF MarkReconciled
<1>17. CASE UNCHANGED vars
  BY <1>17 DEF vars, supervisorVars
<1> QED
  BY <1>1, <1>2, <1>3, <1>4, <1>5, <1>6, <1>7, <1>8, <1>9, <1>10, <1>11, <1>12, <1>13,
     <1>14, <1>15, <1>16, <1>17 DEF Next

LEMMA StepGenerations == StreamInv /\ [Next]_vars => GenerationsAreHandedOut'
<1> SUFFICES ASSUME StreamInv, [Next]_vars PROVE GenerationsAreHandedOut'
  OBVIOUS
<1> USE DEF StreamInv, TypeOK, GenerationsAreHandedOut
<1>1. CASE Connect
  BY <1>1 DEF Connect, BeginConnection, Detach
<1>2. CASE Authenticate
  BY <1>2 DEF Authenticate, MarkAuthenticated
<1>3. CASE ExchangeSubscribes
  BY <1>3 DEF ExchangeSubscribes, supervisorVars
<1>4. CASE Subscribe
  BY <1>4 DEF Subscribe, supervisorVars
<1>5. CASE Refuse
  BY <1>5 DEF Refuse, MarkDisconnected, Detach
<1>6. CASE Receive
  BY <1>6 DEF Receive, supervisorVars, AcceptEvent
<1>7. CASE HeartbeatDue \/ Pong
  BY <1>7 DEF HeartbeatDue, Pong, supervisorVars
<1>8. CASE PongTimeout \/ ConnectionLost
  BY <1>8 DEF PongTimeout, ConnectionLost, Connected, Disconnected, MarkDisconnected, Detach
<1>9. CASE Retry
  BY <1>9 DEF Retry, MarkReconnecting
<1>10. CASE Exhaust
  BY <1>10 DEF Exhaust, supervisorVars
<1>11. CASE Cancel
  BY <1>11 DEF Cancel, MarkDisconnected, supervisorVars, Detach
<1>12. CASE Execute
  BY <1>12 DEF Execute, supervisorVars
<1>13. CASE LinkDies
  BY <1>13 DEF LinkDies, supervisorVars
<1>14. ASSUME NEW r \in reconciling, ReadAccount(r) PROVE GenerationsAreHandedOut'
  BY <1>14 DEF ReadAccount, supervisorVars
<1>15. ASSUME NEW r \in reconciling, MarkReconciled(r) PROVE GenerationsAreHandedOut'
  BY <1>15 DEF MarkReconciled
<1>16. CASE UNCHANGED vars
  BY <1>16 DEF vars, supervisorVars
<1> QED
  BY <1>1, <1>2, <1>3, <1>4, <1>5, <1>6, <1>7, <1>8, <1>9, <1>10, <1>11, <1>12, <1>13, <1>14, <1>15, <1>16 DEF Next

LEMMA StepPhases == StreamInv /\ [Next]_vars => PhasesAgree'
<1> SUFFICES ASSUME StreamInv, [Next]_vars PROVE PhasesAgree'
  OBVIOUS
<1> USE DEF StreamInv, TypeOK, PhasesAgree, GenerationsAreHandedOut
<1>1. CASE Connect
  BY <1>1 DEF Connect, BeginConnection, Detach
<1>2. CASE Authenticate
  BY <1>2 DEF Authenticate, MarkAuthenticated
<1>3. CASE ExchangeSubscribes
  BY <1>3 DEF ExchangeSubscribes, supervisorVars
<1>4. CASE Subscribe
  BY <1>4 DEF Subscribe, supervisorVars
<1>5. CASE Refuse
  BY <1>5 DEF Refuse, MarkDisconnected, Detach
<1>6. CASE Receive
  BY <1>6 DEF Receive, supervisorVars, AcceptEvent
<1>7. CASE HeartbeatDue \/ Pong
  BY <1>7 DEF HeartbeatDue, Pong, supervisorVars
<1>8. CASE PongTimeout \/ ConnectionLost
  BY <1>8 DEF PongTimeout, ConnectionLost, Connected, Disconnected, MarkDisconnected, Detach
<1>9. CASE Retry
  BY <1>9 DEF Retry, MarkReconnecting
<1>10. CASE Exhaust
  BY <1>10 DEF Exhaust, supervisorVars
<1>11. CASE Cancel
  BY <1>11 DEF Cancel, MarkDisconnected, supervisorVars, Detach
<1>12. CASE Execute
  BY <1>12 DEF Execute, supervisorVars
<1>13. CASE LinkDies
  BY <1>13 DEF LinkDies, supervisorVars
<1>14. ASSUME NEW r \in reconciling, ReadAccount(r) PROVE PhasesAgree'
  BY <1>14 DEF ReadAccount, supervisorVars
<1>15. ASSUME NEW r \in reconciling, MarkReconciled(r) PROVE PhasesAgree'
  BY <1>15 DEF MarkReconciled
<1>16. CASE UNCHANGED vars
  BY <1>16 DEF vars, supervisorVars
<1> QED
  BY <1>1, <1>2, <1>3, <1>4, <1>5, <1>6, <1>7, <1>8, <1>9, <1>10, <1>11, <1>12, <1>13, <1>14, <1>15, <1>16 DEF Next

LEMMA StepRead == StreamInv /\ [Next]_vars => ReadIsComplete'
<1> SUFFICES ASSUME StreamInv, [Next]_vars PROVE ReadIsComplete'
  OBVIOUS
<1> USE DEF StreamInv, TypeOK, ReadIsComplete, Complete, GenerationsAreHandedOut, PhasesAgree
<1>1. CASE Connect
  BY <1>1 DEF Connect, BeginConnection, Detach
<1>2. CASE Authenticate
  BY <1>2 DEF Authenticate, MarkAuthenticated
<1>3. CASE ExchangeSubscribes
  BY <1>3 DEF ExchangeSubscribes, supervisorVars
<1>4. CASE Subscribe
  BY <1>4 DEF Subscribe, supervisorVars
<1>5. CASE Refuse
  BY <1>5 DEF Refuse, MarkDisconnected, Detach
<1>6. CASE Receive
  BY <1>6 DEF Receive, supervisorVars, AcceptEvent
<1>7. CASE HeartbeatDue \/ Pong
  BY <1>7 DEF HeartbeatDue, Pong, supervisorVars
<1>8. CASE PongTimeout \/ ConnectionLost
  BY <1>8 DEF PongTimeout, ConnectionLost, Connected, Disconnected, MarkDisconnected, Detach
<1>9. CASE Retry
  BY <1>9 DEF Retry, MarkReconnecting
<1>10. CASE Exhaust
  BY <1>10 DEF Exhaust, supervisorVars
<1>11. CASE Cancel
  BY <1>11 DEF Cancel, MarkDisconnected, supervisorVars, Detach
<1>12. CASE Execute
  BY <1>12 DEF Execute, supervisorVars
<1>13. CASE LinkDies
  BY <1>13 DEF LinkDies, supervisorVars
<1>14. ASSUME NEW r \in reconciling, ReadAccount(r) PROVE ReadIsComplete'
  BY <1>14 DEF ReadAccount, supervisorVars
<1>15. ASSUME NEW r \in reconciling, MarkReconciled(r) PROVE ReadIsComplete'
  BY <1>15 DEF MarkReconciled
<1>16. CASE UNCHANGED vars
  BY <1>16 DEF vars, supervisorVars
<1> QED
  BY <1>1, <1>2, <1>3, <1>4, <1>5, <1>6, <1>7, <1>8, <1>9, <1>10, <1>11, <1>12, <1>13, <1>14, <1>15, <1>16 DEF Next

LEMMA StepOpen == StreamInv /\ [Next]_vars => OpenIsComplete'
<1> SUFFICES ASSUME StreamInv, [Next]_vars PROVE OpenIsComplete'
  OBVIOUS
<1> USE DEF StreamInv, TypeOK, OpenIsComplete, Complete, ReadIsComplete, GenerationsAreHandedOut, PhasesAgree
<1>1. CASE Connect
  BY <1>1 DEF Connect, BeginConnection, Detach
<1>2. CASE Authenticate
  BY <1>2 DEF Authenticate, MarkAuthenticated
<1>3. CASE ExchangeSubscribes
  BY <1>3 DEF ExchangeSubscribes, supervisorVars
<1>4. CASE Subscribe
  BY <1>4 DEF Subscribe, supervisorVars
<1>5. CASE Refuse
  BY <1>5 DEF Refuse, MarkDisconnected, Detach
<1>6. CASE Receive
  BY <1>6 DEF Receive, supervisorVars, AcceptEvent
<1>7. CASE HeartbeatDue \/ Pong
  BY <1>7 DEF HeartbeatDue, Pong, supervisorVars
<1>8. CASE PongTimeout \/ ConnectionLost
  BY <1>8 DEF PongTimeout, ConnectionLost, Connected, Disconnected, MarkDisconnected, Detach
<1>9. CASE Retry
  BY <1>9 DEF Retry, MarkReconnecting
<1>10. CASE Exhaust
  BY <1>10 DEF Exhaust, supervisorVars
<1>11. CASE Cancel
  BY <1>11 DEF Cancel, MarkDisconnected, supervisorVars, Detach
<1>12. CASE Execute
  BY <1>12 DEF Execute, supervisorVars
<1>13. CASE LinkDies
  BY <1>13 DEF LinkDies, supervisorVars
<1>14. ASSUME NEW r \in reconciling, ReadAccount(r) PROVE OpenIsComplete'
  BY <1>14 DEF ReadAccount, supervisorVars
<1>15. ASSUME NEW r \in reconciling, MarkReconciled(r) PROVE OpenIsComplete'
  BY <1>15 DEF MarkReconciled
<1>16. CASE UNCHANGED vars
  BY <1>16 DEF vars, supervisorVars
<1> QED
  BY <1>1, <1>2, <1>3, <1>4, <1>5, <1>6, <1>7, <1>8, <1>9, <1>10, <1>11, <1>12, <1>13, <1>14, <1>15, <1>16 DEF Next

LEMMA StreamInduction == StreamInv /\ [Next]_vars => StreamInv'
  BY StepType, StepGenerations, StepPhases, StepRead, StepOpen DEF StreamInv

\* Phases, states, counters and sets of the private stream keep their types.
THEOREM StreamTypes == Spec => []TypeOK
<1>1. StreamInv => TypeOK
  BY DEF StreamInv
<1> QED
  BY InitStream, StreamInduction, <1>1, PTL DEF Spec

\* Entries are never admitted on a connection over which an execution is missing,
\* whatever reconnections, silent link deaths and overlapping reconciliations happen.
THEOREM EntriesAreNotBlind == Spec => []NoBlindEntries
<1>1. StreamInv => NoBlindEntries
  BY DEF StreamInv, PhasesAgree, OpenIsComplete, Complete, NoBlindEntries
<1> QED
  BY InitStream, StreamInduction, <1>1, PTL DEF Spec

---------------------------------------------------------------------------
(* The server clock.  A request that was sent after the last step of the wall *)
(* clock has read it with the present skew (RequestInv), so the sample it     *)
(* leaves is off by at most its round trip (SampleInv).                       *)

RequestInv ==
    timeRequest # NoTimeRequest =>
        /\ timeRequest.began <= clockTime /\ clockTime <= timeRequest.began + RequestTimeout
        /\ timeRequest.server # 0 =>
             timeRequest.began <= timeRequest.server /\ timeRequest.server <= clockTime
        /\ steppedAt < timeRequest.began => timeRequest.sent = timeRequest.began + wallSkew

SampleInv ==
    sample # NoSample =>
        /\ sample.rtt <= 2 * MaxUncertainty
        /\ sample.at <= clockTime
        /\ steppedAt < sample.at - RequestTimeout =>
             /\ sample.offset2 + 2 * wallSkew <= sample.rtt
             /\ -sample.rtt <= sample.offset2 + 2 * wallSkew

ClockInv ==
    /\ clockTime \in Int /\ wallSkew \in Skews /\ steppedAt \in Int
    /\ timeRequest \in [sent : Int, began : Int, server : Int]
    /\ sample \in [offset2 : Int, rtt : Int, at : Int]
    /\ RequestInv /\ SampleInv

LEMMA ClockInitial == ClockInit => ClockInv
BY ClockConstants DEF ClockInit, ClockInv, RequestInv, SampleInv, NoTimeRequest, NoSample

\* The midpoint of a request whose two readings of the wall clock are both off by
\* the present skew is off by at most half the round trip.
LEMMA Midpoint ==
    ASSUME NEW s \in Int, NEW b \in Int, NEW v \in Int, NEW t \in Int, NEW k \in Int,
           s = b + k, b <= v, v <= t
    PROVE  /\ (2 * v - (s + (t + k))) + 2 * k <= (t + k) - s
           /\ -((t + k) - s) <= (2 * v - (s + (t + k))) + 2 * k
OBVIOUS

LEMMA ClockStep == ClockInv /\ [ClockNext]_clockVars => ClockInv'
<1> SUFFICES ASSUME ClockInv, [ClockNext]_clockVars PROVE ClockInv'
  OBVIOUS
<1>1. /\ clockTime \in Int /\ wallSkew \in Int /\ wallSkew \in Skews /\ steppedAt \in Int
      /\ timeRequest \in [sent : Int, began : Int, server : Int]
      /\ sample \in [offset2 : Int, rtt : Int, at : Int]
      /\ RequestInv /\ SampleInv
      /\ RequestTimeout \in Nat /\ MaxUncertainty \in Nat /\ MaxOffset \in Nat
  BY ClockConstants DEF ClockInv
<1>2. CASE UNCHANGED clockVars
  BY <1>1, <1>2 DEF clockVars, ClockInv, RequestInv, SampleInv
<1>3. CASE SynchronizeClock
  <2>1. /\ timeRequest' = [sent |-> clockTime + wallSkew, began |-> clockTime, server |-> 0]
        /\ UNCHANGED <<clockTime, wallSkew, steppedAt, sample>>
    BY <1>3 DEF SynchronizeClock, Wall
  <2>2. RequestInv'
    BY <1>1, <2>1 DEF RequestInv
  <2> QED BY <1>1, <2>1, <2>2 DEF ClockInv, SampleInv
<1>4. CASE ServerAnswers
  <2>1. /\ timeRequest # NoTimeRequest
        /\ timeRequest' = [timeRequest EXCEPT !.server = clockTime]
        /\ UNCHANGED <<clockTime, wallSkew, steppedAt, sample>>
    BY <1>4 DEF ServerAnswers
  <2>2. /\ timeRequest' \in [sent : Int, began : Int, server : Int]
        /\ timeRequest'.server = clockTime /\ timeRequest'.sent = timeRequest.sent
        /\ timeRequest'.began = timeRequest.began
    BY <1>1, <2>1
  <2>3. RequestInv'
    BY <1>1, <2>1, <2>2 DEF RequestInv
  <2> QED BY <1>1, <2>1, <2>2, <2>3 DEF ClockInv, SampleInv
<1>5. CASE RecordSample
  <2> DEFINE s == SampleOf(timeRequest)
  <2>1. /\ timeRequest.server # 0 /\ timeRequest' = NoTimeRequest
        /\ (sample' = s /\ GoodQuality(s)) \/ sample' = sample
        /\ UNCHANGED <<clockTime, wallSkew, steppedAt>>
    BY <1>5 DEF RecordSample
  <2>2. timeRequest' \in [sent : Int, began : Int, server : Int] /\ RequestInv'
    BY <2>1 DEF RequestInv, NoTimeRequest
  <2>3. CASE sample' = sample
    BY <1>1, <2>1, <2>2, <2>3 DEF ClockInv, SampleInv
  <2>4. CASE sample' = s /\ GoodQuality(s)
    <3>1. /\ timeRequest.sent \in Int /\ timeRequest.began \in Int /\ timeRequest.server \in Int
          /\ timeRequest # NoTimeRequest
      BY <1>1, <2>1 DEF NoTimeRequest
    <3>2. /\ s.offset2 = 2 * timeRequest.server - (timeRequest.sent + (clockTime + wallSkew))
          /\ s.rtt = (clockTime + wallSkew) - timeRequest.sent /\ s.at = clockTime
          /\ s \in [offset2 : Int, rtt : Int, at : Int]
      BY <1>1, <3>1 DEF SampleOf, Wall
    <3>3. s.rtt <= 2 * MaxUncertainty
      BY <2>4 DEF GoodQuality
    <3>4. /\ timeRequest.began <= timeRequest.server /\ timeRequest.server <= clockTime
          /\ clockTime <= timeRequest.began + RequestTimeout
          /\ steppedAt < timeRequest.began => timeRequest.sent = timeRequest.began + wallSkew
      BY <1>1, <2>1, <3>1 DEF RequestInv
    <3>5. steppedAt < clockTime - RequestTimeout => steppedAt < timeRequest.began
      BY <1>1, <3>1, <3>4
    <3>6. ASSUME steppedAt < clockTime - RequestTimeout
          PROVE  s.offset2 + 2 * wallSkew <= s.rtt /\ -s.rtt <= s.offset2 + 2 * wallSkew
      <4>1. timeRequest.sent = timeRequest.began + wallSkew
        BY <3>4, <3>5, <3>6
      <4> DEFINE e == timeRequest.sent
                 b == timeRequest.began
                 v == timeRequest.server
      <4>2. e \in Int /\ b \in Int /\ v \in Int /\ e = b + wallSkew /\ b <= v /\ v <= clockTime
        BY <3>1, <3>4, <4>1
      <4>3. s.offset2 = 2 * v - (e + (clockTime + wallSkew)) /\ s.rtt = (clockTime + wallSkew) - e
        BY <3>2
      <4> HIDE DEF s, e, b, v
      <4>4. /\ (2 * v - (e + (clockTime + wallSkew))) + 2 * wallSkew <= (clockTime + wallSkew) - e
            /\ -((clockTime + wallSkew) - e) <= (2 * v - (e + (clockTime + wallSkew))) + 2 * wallSkew
        BY <1>1, <4>2, Midpoint
      <4> QED BY <4>3, <4>4
    <3> HIDE DEF s
    <3>7. SampleInv'
      BY <1>1, <2>1, <2>4, <3>2, <3>3, <3>6 DEF SampleInv
    <3> QED BY <1>1, <2>1, <2>2, <2>4, <3>2, <3>7 DEF ClockInv
  <2> QED BY <2>1, <2>3, <2>4
<1>6. CASE TimeRequestFails
  <2>1. timeRequest' = NoTimeRequest /\ UNCHANGED <<clockTime, wallSkew, steppedAt, sample>>
    BY <1>6 DEF TimeRequestFails
  <2>2. timeRequest' \in [sent : Int, began : Int, server : Int] /\ RequestInv'
    BY <2>1 DEF RequestInv, NoTimeRequest
  <2> QED BY <1>1, <2>1, <2>2 DEF ClockInv, SampleInv
<1>7. CASE ClockTick
  <2>1. /\ timeRequest # NoTimeRequest => clockTime - timeRequest.began < RequestTimeout
        /\ clockTime' = clockTime + 1
        /\ UNCHANGED <<wallSkew, steppedAt, timeRequest, sample>>
    BY <1>7 DEF ClockTick
  <2> QED BY <1>1, <2>1 DEF ClockInv, RequestInv, SampleInv
<1>8. CASE WallStep
  <2>1. wallSkew' \in Skews /\ steppedAt' = clockTime /\ UNCHANGED <<clockTime, timeRequest, sample>>
    BY <1>8 DEF WallStep
  <2> QED BY <1>1, <2>1 DEF ClockInv, RequestInv, SampleInv
<1> QED BY <1>2, <1>3, <1>4, <1>5, <1>6, <1>7, <1>8 DEF ClockNext

\* Halving rounds down.
LEMMA Halved == \A x \in Int : 2 * (x \div 2) <= x /\ x <= 2 * (x \div 2) + 1
OBVIOUS

\* Every timestamp used to sign a request lies within the accepted uncertainty of the
\* exchange's clock, whatever the two legs of the measuring request took, except for
\* a bounded time after the wall clock was set (record_sample, timestamp_ms).
THEOREM TimestampsAreAccurate == ClockSpec => []TimestampIsAccurate
<1>1. ClockInv => TimestampIsAccurate
  <2> DEFINE x == 2 * (clockTime + wallSkew) + sample.offset2
             h == x \div 2
  <2> SUFFICES ASSUME ClockInv, TimestampAvailable,
                      clockTime - steppedAt > MaxSampleAge + RequestTimeout
               PROVE  2 * h - 2 * clockTime <= 2 * MaxUncertainty
                      /\ 2 * clockTime - 2 * h <= 2 * MaxUncertainty + 1
    BY DEF TimestampIsAccurate, TimestampMs, Wall
  <2>1. /\ clockTime \in Int /\ wallSkew \in Int /\ steppedAt \in Int
        /\ sample.offset2 \in Int /\ sample.rtt \in Int /\ sample.at \in Int
        /\ MaxSampleAge \in Nat /\ RequestTimeout \in Nat /\ MaxUncertainty \in Nat
    BY ClockConstants DEF ClockInv
  <2>2. sample # NoSample /\ clockTime - sample.at <= MaxSampleAge
    BY DEF TimestampAvailable, FreshSample
  <2>3. steppedAt < sample.at - RequestTimeout
    BY <2>1, <2>2
  <2>4. /\ sample.rtt <= 2 * MaxUncertainty
        /\ sample.offset2 + 2 * wallSkew <= sample.rtt
        /\ -sample.rtt <= sample.offset2 + 2 * wallSkew
    BY <2>2, <2>3 DEF ClockInv, SampleInv
  <2>5. x \in Int /\ x - 2 * clockTime <= 2 * MaxUncertainty /\ 2 * clockTime - x <= 2 * MaxUncertainty
    BY <2>1, <2>4
  <2>6. h \in Int /\ 2 * h <= x /\ x <= 2 * h + 1
    <3> HIDE DEF x
    <3> QED BY <2>5, Halved
  <2> HIDE DEF x, h
  <2> QED BY <2>1, <2>5, <2>6
<1> QED BY <1>1, ClockInitial, ClockStep, PTL DEF ClockSpec

---------------------------------------------------------------------------
(* The REST client.  A typed error is a reply that only a refusal sends       *)
(* (PlacementInv); an order that is listed stays in the one list or the other *)
(* and never leaves the history (LookupInv); and the pages read so far hold   *)
(* everything that stayed at or above the cursor (PagesInv).                  *)

PlacementInv ==
    /\ live \in BOOLEAN
    /\ mutation = "idle" => request = "none"
    /\ request \in {"none", "flying"} => reply = "none"
    /\ reply = "error" => request = "refused"
    /\ live => request = "accepted"
    /\ mutation = "api_error" => request = "refused"

LookupInv ==
    /\ inRealtime \in BOOLEAN /\ inHistory \in BOOLEAN
    /\ listedSince => Listed
    /\ lookup = "history" /\ listedSince => inHistory
    /\ lookup = "none" => ~listedSince

PagesInv ==
    /\ items \subseteq 1 .. MaxItems
    /\ stayed \subseteq items
    /\ read \in [pc : {"idle", "page", "complete", "raised"}, cursor : Nat,
                 seen : SUBSET (Nat \ {0}), got : SUBSET Nat]
    /\ read.pc = "page" => \A i \in stayed : i >= read.cursor => i \in read.got
    /\ read.pc = "complete" => stayed \subseteq read.got

RestInv == PlacementInv /\ LookupInv /\ PagesInv

LEMMA RestInitial == RestInit => RestInv
<1> SUFFICES ASSUME RestInit PROVE RestInv
  OBVIOUS
<1>1. PlacementInv /\ LookupInv
  BY DEF RestInit, PlacementInv, LookupInv
<1>2. items \subseteq 1 .. MaxItems
  BY RestConstants DEF RestInit
<1>3. read = [pc |-> "idle", cursor |-> MaxItems + 1, seen |-> {}, got |-> {}] /\ stayed = {}
  BY DEF RestInit, Reading, FirstPage
<1> QED BY <1>1, <1>2, <1>3, RestConstants DEF RestInv, PagesInv

LEMMA PlacementStep == PlacementInv /\ [RestNext]_restVars => PlacementInv'
<1> SUFFICES ASSUME PlacementInv, [RestNext]_restVars PROVE PlacementInv'
  OBVIOUS
<1> USE DEF PlacementInv, exchangeState, clientState
<1>1. CASE HandleRequest
  <2>1. mutation' = mutation /\ request = "flying" /\ reply = "none"
    BY <1>1 DEF HandleRequest
  <2>2. CASE request' = "accepted" /\ live' = TRUE /\ reply' \in {"success", "malformed", "none"}
    BY <2>1, <2>2
  <2>3. CASE request' = "refused" /\ live' = FALSE
    BY <2>1, <2>3
  <2>4. CASE request' = "lost" /\ UNCHANGED <<live, reply>>
    BY <2>1, <2>4
  <2> QED BY <1>1, <2>2, <2>3, <2>4 DEF HandleRequest
<1>2. CASE ListOrder \/ ArchiveOrder
  BY <1>2 DEF ListOrder, ArchiveOrder
<1>3. CASE EndOrder
  BY <1>3 DEF EndOrder
<1>4. CASE PlaceOrder
  BY <1>4 DEF PlaceOrder
<1>5. CASE ReceiveReply
  BY <1>5 DEF ReceiveReply, Outcomes, RaisesTyped
<1>6. CASE RequestTimesOut
  BY <1>6 DEF RequestTimesOut
<1>7. CASE BeginLookup \/ QueryOrderList \/ LookupRaises \/ LookupReturns
  BY <1>7 DEF BeginLookup, QueryOrderList, LookupRaises, LookupReturns
<1>8. CASE ChangeList \/ BeginRead \/ ReadPage \/ ReadReturns
  BY <1>8 DEF ChangeList, BeginRead, ReadPage, ReadReturns
<1>9. CASE UNCHANGED restVars
  BY <1>9 DEF restVars
<1> QED BY <1>1, <1>2, <1>3, <1>4, <1>5, <1>6, <1>7, <1>8, <1>9 DEF RestNext, OrderNext, ListNext

LEMMA LookupStep == LookupInv /\ [RestNext]_restVars => LookupInv'
<1> SUFFICES ASSUME LookupInv, [RestNext]_restVars PROVE LookupInv'
  OBVIOUS
<1> USE DEF LookupInv, Listed, exchangeState, clientState
<1>1. CASE HandleRequest \/ EndOrder
  BY <1>1 DEF HandleRequest, EndOrder
<1>2. CASE ListOrder
  BY <1>2 DEF ListOrder
<1>3. CASE ArchiveOrder
  <2>1. UNCHANGED <<lookup, listedSince>> /\ inRealtime
    BY <1>3 DEF ArchiveOrder
  <2>2. CASE inHistory' = TRUE /\ UNCHANGED inRealtime
    BY <2>1, <2>2
  <2>3. CASE inHistory /\ inRealtime' = FALSE /\ UNCHANGED inHistory
    BY <2>1, <2>3
  <2> QED BY <1>3, <2>2, <2>3 DEF ArchiveOrder
<1>4. CASE PlaceOrder \/ ReceiveReply \/ RequestTimesOut
  BY <1>4 DEF PlaceOrder, ReceiveReply, RequestTimesOut
<1>5. CASE BeginLookup
  BY <1>5 DEF BeginLookup
<1>6. CASE QueryOrderList
  BY <1>6 DEF QueryOrderList, QueryOrder, Shows
<1>7. CASE LookupRaises \/ LookupReturns
  BY <1>7 DEF LookupRaises, LookupReturns
<1>8. CASE ChangeList \/ BeginRead \/ ReadPage \/ ReadReturns
  BY <1>8 DEF ChangeList, BeginRead, ReadPage, ReadReturns
<1>9. CASE UNCHANGED restVars
  BY <1>9 DEF restVars
<1> QED BY <1>1, <1>2, <1>3, <1>4, <1>5, <1>6, <1>7, <1>8, <1>9 DEF RestNext, OrderNext, ListNext

\* A page holds everything of the list between its smallest item and the cursor, and
\* is empty only if nothing is left below the cursor.
LEMMA PageIsTop ==
  ASSUME items \subseteq 1 .. MaxItems, NEW c \in Nat
  PROVE  /\ PageAt(c) \subseteq Below(c)
         /\ Below(c) \subseteq 1 .. MaxItems
         /\ \A i \in PageAt(c) : \A j \in Below(c) : j >= i => j \in PageAt(c)
         /\ Below(c) # {} => PageAt(c) # {}
<1> DEFINE Up(i) == {j \in Below(c) : j >= i}
<1>1. Below(c) \subseteq 1 .. MaxItems /\ PageAt(c) \subseteq Below(c)
  BY DEF Below, PageAt
<1>2. IsFiniteSet(Below(c))
  <2>1. IsFiniteSet(1 .. MaxItems)
    BY RestConstants, FS_Interval
  <2> QED BY <1>1, <2>1, FS_Subset
<1>3. ASSUME NEW i \in PageAt(c), NEW j \in Below(c), j >= i PROVE j \in PageAt(c)
  <2>1. Up(i) \subseteq Below(c) /\ Up(j) \in SUBSET Up(i)
    BY <1>1, <1>3, RestConstants
  <2>2. IsFiniteSet(Up(i)) /\ IsFiniteSet(Up(j))
    BY <1>2, <2>1, FS_Subset
  <2>3. Cardinality(Up(j)) <= Cardinality(Up(i)) /\ Cardinality(Up(i)) \in Nat /\ Cardinality(Up(j)) \in Nat
    BY <2>1, <2>2, FS_Subset, FS_CardinalityType
  <2>4. Cardinality(Up(i)) <= PageSize
    BY <1>3 DEF PageAt
  <2>5. Cardinality(Up(j)) <= PageSize
    <3> HIDE DEF Up
    <3> QED BY <2>3, <2>4, RestConstants
  <2> QED BY <1>3, <2>5 DEF PageAt
<1>4. ASSUME Below(c) # {} PROVE PageAt(c) # {}
  <2> DEFINE m == Max(Below(c))
  <2>1. m \in Below(c) /\ \A y \in Below(c) : m >= y
    BY <1>1, <1>4, RestConstants, GreatestElement
  <2>2. Up(m) = {m}
    <3> HIDE DEF m
    <3> QED BY <1>1, <2>1, RestConstants
  <2>3. Cardinality(Up(m)) <= PageSize
    <3> HIDE DEF m
    <3>1. Cardinality({m}) = 1
      BY FS_Singleton
    <3>2. Cardinality(Up(m)) = 1
      BY <2>2, <3>1
    <3> HIDE DEF Up
    <3> QED BY <3>2, RestConstants
  <2> QED BY <2>1, <2>3 DEF PageAt
<1> QED BY <1>1, <1>3, <1>4

LEMMA PagesStep == PagesInv /\ [RestNext]_restVars => PagesInv'
<1> SUFFICES ASSUME PagesInv, [RestNext]_restVars PROVE PagesInv'
  OBVIOUS
<1>0. /\ items \subseteq 1 .. MaxItems /\ MaxItems \in Nat
      /\ stayed \subseteq items
      /\ read \in [pc : {"idle", "page", "complete", "raised"}, cursor : Nat,
                   seen : SUBSET (Nat \ {0}), got : SUBSET Nat]
  BY RestConstants DEF PagesInv
<1>1. CASE OrderNext
  <2>1. UNCHANGED <<items, stayed, read>>
    BY <1>1 DEF OrderNext, HandleRequest, ListOrder, EndOrder, ArchiveOrder, PlaceOrder, ReceiveReply,
                RequestTimesOut, BeginLookup, QueryOrderList, LookupRaises, LookupReturns,
                exchangeState, clientState
  <2> QED BY <2>1 DEF PagesInv
<1>2. CASE ChangeList
  <2>1. read' = read /\ stayed' = stayed \cap items'
    BY <1>2 DEF ChangeList, clientState
  <2>2. items' \subseteq 1 .. MaxItems
    <3>1. CASE \E i \in items : items' = items \ {i}
      BY <1>0, <3>1
    <3>2. CASE /\ items # {} /\ Max(items) < MaxItems
               /\ items' = items \cup {Max(items) + 1}
      <4>1. Max(items) \in items
        BY <1>0, <3>2, GreatestElement
      <4> DEFINE m == Max(items)
      <4> HIDE DEF m
      <4>2. m \in 1 .. MaxItems /\ m < MaxItems
        BY <1>0, <3>2, <4>1 DEF m
      <4>3. m + 1 \in 1 .. MaxItems
        BY <1>0, <4>2
      <4> QED BY <1>0, <3>2, <4>3 DEF m
    <3>3. CASE items # {} /\ ~(\E i \in items : items' = items \ {i})
      <4>1. Max(items) < MaxItems /\ items' = items \cup {Max(items) + 1}
        BY <1>2, <3>3 DEF ChangeList
      <4> QED BY <3>2, <3>3, <4>1
    <3>4. CASE items = {} /\ ~(\E i \in items : items' = items \ {i})
      <4>1. items' = {1}
        BY <1>2, <3>4 DEF ChangeList
      <4>2. 1 \in 1 .. MaxItems
        BY RestConstants
      <4> QED BY <4>1, <4>2
    <3> QED BY <3>1, <3>3, <3>4
  <2> QED BY <2>1, <2>2 DEF PagesInv
<1>3. CASE BeginRead
  <2>1. /\ read' = [pc |-> "page", cursor |-> MaxItems + 1, seen |-> {}, got |-> {}]
        /\ stayed' = items /\ items' = items
    BY <1>3 DEF BeginRead, Reading, FirstPage, exchangeState
  <2>2. \A i \in items : ~(i >= MaxItems + 1)
    BY <1>0
  <2> QED BY <1>0, <2>1, <2>2 DEF PagesInv
<1>4. CASE ReadPage
  <2> DEFINE c == read.cursor
  <2>1. read.pc = "page" /\ UNCHANGED <<items, stayed>>
    BY <1>4 DEF ReadPage, exchangeState
  <2>2. PICK next \in {CursorAfter(c)} \cup read.seen :
          read' = [pc |-> IF next = NoCursor THEN "complete"
                          ELSE IF next \in read.seen THEN "raised" ELSE "page",
                   cursor |-> next,
                   seen |-> read.seen \cup ({next} \ {NoCursor}),
                   got |-> read.got \cup PageAt(c)]
    BY <1>4 DEF ReadPage
  <2>3. c \in Nat /\ read.seen \in SUBSET (Nat \ {0}) /\ read.got \in SUBSET Nat
    BY <1>0
  <2>4. /\ PageAt(c) \subseteq Below(c)
        /\ Below(c) \subseteq 1 .. MaxItems
        /\ \A i \in PageAt(c) : \A j \in Below(c) : j >= i => j \in PageAt(c)
        /\ Below(c) # {} => PageAt(c) # {}
    BY <1>0, <2>3, PageIsTop
  <2>5. \A i \in stayed : i \in read.got \/ i \in Below(c)
    <3>1. \A i \in stayed : i >= c => i \in read.got
      BY <2>1 DEF PagesInv
    <3> QED BY <1>0, <2>3, <3>1 DEF Below
  <2>6. CASE Below(c) = PageAt(c)
    <3>1. CursorAfter(c) = 0
      BY <2>6 DEF CursorAfter, NoCursor
    <3>2. stayed \subseteq read.got \cup PageAt(c)
      BY <2>5, <2>6
    <3>3. next \in Nat /\ (next = 0 \/ next \in read.seen)
      BY <2>2, <2>3, <3>1
    <3> HIDE DEF c
    <3>4. /\ read'.pc \in {"complete", "raised"} /\ read'.cursor \in Nat
          /\ read' \in [pc : {"idle", "page", "complete", "raised"}, cursor : Nat,
                        seen : SUBSET (Nat \ {0}), got : SUBSET Nat]
          /\ read'.got = read.got \cup PageAt(c)
      BY <1>0, <2>2, <2>3, <2>4, <3>3 DEF NoCursor
    <3> QED BY <1>0, <2>1, <3>2, <3>4 DEF PagesInv
  <2>7. CASE Below(c) # PageAt(c)
    <3> DEFINE m == Min(PageAt(c))
    <3>1. CursorAfter(c) = m
      BY <2>7 DEF CursorAfter
    <3>2. m \in PageAt(c) /\ PageAt(c) # {} /\ PageAt(c) \in SUBSET Nat
      BY <2>4, <2>7, LeastElement
    <3> HIDE DEF m
    <3>3. m \in Nat \ {0}
      BY <1>0, <2>4, <3>2
    <3>4. next \in Nat \ {0} /\ (next = m \/ next \in read.seen)
      BY <2>2, <2>3, <3>1, <3>3
    <3>5. \A i \in stayed : i >= m => i \in read.got \cup PageAt(c)
      BY <2>4, <2>5, <3>2
    <3> HIDE DEF c
    <3>6. /\ read'.pc \in {"page", "raised"} /\ read'.cursor = next
          /\ read'.pc = "page" => next = m
          /\ read' \in [pc : {"idle", "page", "complete", "raised"}, cursor : Nat,
                        seen : SUBSET (Nat \ {0}), got : SUBSET Nat]
          /\ read'.got = read.got \cup PageAt(c)
      BY <1>0, <2>2, <2>3, <2>4, <3>4 DEF NoCursor
    <3> QED BY <1>0, <2>1, <3>5, <3>6 DEF PagesInv
  <2> QED BY <2>6, <2>7
<1>5. CASE ReadReturns
  <2>1. /\ read' = [pc |-> "idle", cursor |-> MaxItems + 1, seen |-> {}, got |-> {}]
        /\ stayed' = {} /\ items' = items
    BY <1>5 DEF ReadReturns, Reading, FirstPage, exchangeState
  <2> QED BY <1>0, <2>1 DEF PagesInv
<1>6. CASE UNCHANGED restVars
  BY <1>6 DEF restVars, exchangeState, clientState, PagesInv
<1> QED BY <1>1, <1>2, <1>3, <1>4, <1>5, <1>6 DEF RestNext, ListNext

\* What the REST client answers may be relied upon: a typed error means that no order
\* was or will be placed, "no such order" is never said of an order listed all along,
\* and a list read in pages of any size, while items come and go, holds every item that
\* was in it from the first page to the last (_mutate, get_order_by_link_id, _get_all_pages).
THEOREM AnswersAreTrue == RestSpec => []AnswersCanBeTrusted
<1>1. RestInv => AnswersCanBeTrusted
  BY DEF RestInv, PlacementInv, LookupInv, PagesInv, AnswersCanBeTrusted, RefusedIsNotPlaced,
         NoneMeansUnlisted, PagesAreComplete
<1>2. RestInv /\ [RestNext]_restVars => RestInv'
  BY PlacementStep, LookupStep, PagesStep DEF RestInv
<1> QED BY <1>1, <1>2, RestInitial, PTL DEF RestSpec

---------------------------------------------------------------------------
(* The public order book.  Within one run of the exchange's service the       *)
(* update ID and the sequence of a message advance together, so the next      *)
(* update ID is also the next sequence, if only both belong to the same run.  *)
(* The messages of a connection form a chain in which a new run begins with a *)
(* full book (WireInv), and a synchronized book of the present connection is  *)
(* the link before its first unread message (BookInv).  Everything that is    *)
(* missing from a message or a book was changed at or after its stamp.        *)

Messages == [type : {"none", "snapshot", "delta"}, u : Nat, seq : Nat, full : BOOLEAN, stamp : Nat]
Books == [u : Nat, seq : Nat, stamp : Nat, generation : Nat, synchronized : BOOLEAN,
          content : SUBSET Nat]

SameRun(a, b) == b.u - b.seq = a.u - a.seq
Adjacent(a, b) == b.u = 1 \/ SameRun(a, b)
Chain(w) == \A i \in 1 .. Len(w) - 1 : Adjacent(w[i], w[i + 1])
UpToDate(stamp, seq, t, n, changes) == stamp <= t /\ \A c \in 1 .. n : c > seq => changes[c] >= stamp
FreshNow(x) == UpToDate(x.stamp, x.seq, feedTime, bookSeq, changedAt)

FeedTypes ==
    /\ feedTime \in Nat /\ bookSeq \in Nat /\ bookU \in Nat
    /\ changedAt \in Seq(Nat) /\ Len(changedAt) = bookSeq
    /\ feedWire \in Seq(Messages) /\ rest \in Messages /\ book \in Books
    /\ feedGeneration \in Nat \ {0} /\ awaiting \in BOOLEAN

WireInv ==
    /\ Chain(feedWire)
    /\ Subscribed /\ feedWire # <<>> =>
         feedWire[Len(feedWire)].u - feedWire[Len(feedWire)].seq = bookU - bookSeq

FreshInv ==
    /\ \A i \in 1 .. Len(feedWire) : FreshNow(feedWire[i])
    /\ FreshNow(rest)
    /\ FreshNow(book)

ConnectionInv ==
    /\ feedPhase = "connecting" => served = "dead" /\ feedWire = <<>> /\ awaiting
    /\ served = "linked" => feedWire = <<>> /\ awaiting
    /\ book.generation <= feedGeneration
    /\ awaiting => book.generation < feedGeneration
    /\ rest # NoMessage => rest.type = "snapshot"

BookInv ==
    /\ BookMatchesExchange
    /\ book.synchronized /\ book.generation = feedGeneration =>
         /\ feedWire # <<>> => Adjacent(book, feedWire[1])
         /\ feedWire = <<>> /\ Subscribed => book.u - book.seq = bookU - bookSeq

FeedInv == FeedTypes /\ WireInv /\ FreshInv /\ ConnectionInv /\ BookInv

LEMMA ChainAppend ==
  ASSUME NEW w \in Seq(Messages), NEW m \in Messages, Chain(w),
         w # <<>> => Adjacent(w[Len(w)], m)
  PROVE  /\ Chain(Append(w, m)) /\ Append(w, m) \in Seq(Messages) /\ Append(w, m) # <<>>
         /\ Append(w, m)[Len(Append(w, m))] = m
         /\ w # <<>> => Append(w, m)[1] = w[1]
         /\ w = <<>> => Append(w, m)[1] = m
         /\ \A i \in 1 .. Len(Append(w, m)) : Append(w, m)[i] = m \/ (i \in 1 .. Len(w) /\ Append(w, m)[i] = w[i])
<1> DEFINE a == Append(w, m)
<1>1. /\ a \in Seq(Messages) /\ Len(a) = Len(w) + 1 /\ a[Len(w) + 1] = m
      /\ \A i \in 1 .. Len(w) : a[i] = w[i]
      /\ Len(w) \in Nat
  OBVIOUS
<1>2. w # <<>> => Len(w) >= 1
  OBVIOUS
<1>3. w = <<>> => Len(w) = 0
  OBVIOUS
<1> HIDE DEF a
<1>4. ASSUME NEW i \in 1 .. Len(a) - 1 PROVE Adjacent(a[i], a[i + 1])
  <2>1. CASE i = Len(w)
    BY <1>1, <1>3, <2>1
  <2>2. CASE i # Len(w)
    <3>1. i \in 1 .. Len(w) - 1 /\ i + 1 \in 1 .. Len(w) /\ i \in 1 .. Len(w)
      BY <1>1, <2>2
    <3> QED BY <1>1, <3>1 DEF Chain
  <2> QED BY <2>1, <2>2
<1>5. /\ Chain(a) /\ a # <<>> /\ a[Len(a)] = m
      /\ w # <<>> => a[1] = w[1]
      /\ w = <<>> => a[1] = m
  BY <1>1, <1>2, <1>3, <1>4 DEF Chain
<1>6. \A i \in 1 .. Len(a) : a[i] = m \/ (i \in 1 .. Len(w) /\ a[i] = w[i])
  BY <1>1
<1> QED BY <1>1, <1>5, <1>6 DEF a

LEMMA ChainTail ==
  ASSUME NEW w \in Seq(Messages), w # <<>>, Chain(w)
  PROVE  /\ Tail(w) \in Seq(Messages) /\ Chain(Tail(w)) /\ Head(w) = w[1] /\ w[1] \in Messages
         /\ Tail(w) # <<>> => Adjacent(w[1], Tail(w)[1]) /\ Tail(w)[Len(Tail(w))] = w[Len(w)]
         /\ Tail(w) = <<>> => w[Len(w)] = w[1]
         /\ \A i \in 1 .. Len(Tail(w)) : i + 1 \in 1 .. Len(w) /\ Tail(w)[i] = w[i + 1]
         /\ 1 \in 1 .. Len(w)
<1> DEFINE a == Tail(w)
<1>1. /\ a \in Seq(Messages) /\ Len(a) = Len(w) - 1 /\ Len(w) \in Nat /\ Len(w) >= 1
      /\ \A i \in 1 .. Len(a) : a[i] = w[i + 1]
      /\ Head(w) = w[1] /\ w[1] \in Messages
  OBVIOUS
<1>2. a # <<>> => Len(a) >= 1
  BY <1>1
<1> HIDE DEF a
<1>3. a = <<>> => Len(a) = 0
  OBVIOUS
<1>4. ASSUME NEW i \in 1 .. Len(a) - 1 PROVE Adjacent(a[i], a[i + 1])
  <2>1. i \in 1 .. Len(a) /\ i + 1 \in 1 .. Len(a) /\ i + 1 \in 1 .. Len(w) - 1
    BY <1>1
  <2>2. Adjacent(w[i + 1], w[(i + 1) + 1])
    BY <2>1 DEF Chain
  <2> QED BY <1>1, <2>1, <2>2
<1>5. a # <<>> => Adjacent(w[1], a[1]) /\ a[Len(a)] = w[Len(w)]
  <2> SUFFICES ASSUME a # <<>> PROVE Adjacent(w[1], a[1]) /\ a[Len(a)] = w[Len(w)]
    OBVIOUS
  <2>1. 1 \in 1 .. Len(w) - 1 /\ 1 \in 1 .. Len(a) /\ Len(a) \in 1 .. Len(a) /\ Len(a) + 1 = Len(w)
    BY <1>1, <1>2
  <2>2. Adjacent(w[1], w[1 + 1])
    BY <2>1 DEF Chain
  <2>3. a[1] = w[1 + 1] /\ a[Len(a)] = w[Len(a) + 1]
    BY <1>1, <2>1
  <2> QED BY <2>1, <2>2, <2>3
<1>6. a = <<>> => w[Len(w)] = w[1]
  <2>1. a = <<>> => Len(w) = 1
    BY <1>1, <1>3
  <2> QED BY <2>1
<1>7. Chain(a)
  BY <1>4 DEF Chain
<1>8. \A i \in 1 .. Len(a) : i + 1 \in 1 .. Len(w) /\ a[i] = w[i + 1]
  BY <1>1
<1>9. 1 \in 1 .. Len(w)
  BY <1>1
<1> QED BY <1>1, <1>5, <1>6, <1>7, <1>8, <1>9 DEF a

LEMMA FreshLater ==
  ASSUME NEW stamp \in Nat, NEW seq \in Nat, NEW t \in Nat, NEW n \in Nat, NEW changes \in Seq(Nat),
         UpToDate(stamp, seq, t, n, changes)
  PROVE  UpToDate(stamp, seq, t + 1, n, changes)
BY DEF UpToDate

LEMMA FreshAfterChange ==
  ASSUME NEW stamp \in Nat, NEW seq \in Nat, NEW t \in Nat, NEW n \in Nat, NEW changes \in Seq(Nat),
         Len(changes) = n, UpToDate(stamp, seq, t, n, changes)
  PROVE  UpToDate(stamp, seq, t, n + 1, Append(changes, t))
<1>1. ASSUME NEW c \in 1 .. n + 1, c > seq PROVE Append(changes, t)[c] >= stamp
  <2>1. CASE c = n + 1
    BY <2>1 DEF UpToDate
  <2>2. CASE c # n + 1
    <3>1. c \in 1 .. n /\ Append(changes, t)[c] = changes[c]
      BY <2>2
    <3> QED BY <1>1, <3>1 DEF UpToDate
  <2> QED BY <2>1, <2>2
<1> QED BY <1>1 DEF UpToDate

LEMMA FreshWhenSent ==
  ASSUME NEW t \in Nat, NEW n \in Nat, NEW changes
  PROVE  UpToDate(t, n, t, n, changes)
BY DEF UpToDate

\* What a message makes of a book of the same or an older connection.
LEMMA AppliedBook ==
  ASSUME book \in Books, NEW m \in Messages, NEW g \in Nat, book.generation <= g,
         BookMatchesExchange,
         book.synchronized /\ book.generation = g => Adjacent(book, m)
  PROVE  /\ Apply(m, g) \in Books
         /\ Apply(m, g).generation <= g
         /\ IsSnapshot(m) => Apply(m, g).generation = g
         /\ Apply(m, g).synchronized => Apply(m, g).content = 1 .. Apply(m, g).seq
         /\ Apply(m, g).synchronized /\ Apply(m, g).generation = g =>
              Apply(m, g).u = m.u /\ Apply(m, g).seq = m.seq
         /\ \/ Apply(m, g).seq = m.seq /\ Apply(m, g).stamp = m.stamp
            \/ Apply(m, g).seq = book.seq /\ Apply(m, g).stamp = book.stamp
<1> DEFINE b == Apply(m, g)
<1>0. /\ m.u \in Nat /\ m.seq \in Nat /\ m.stamp \in Nat
      /\ book.u \in Nat /\ book.seq \in Nat /\ book.stamp \in Nat /\ book.generation \in Nat
      /\ book.content \in SUBSET Nat /\ book.synchronized \in BOOLEAN
  BY DEF Messages, Books
<1>1. CASE IsSnapshot(m)
  <2>1. b = [u |-> m.u, seq |-> m.seq, stamp |-> m.stamp, generation |-> g,
             synchronized |-> TRUE, content |-> 1 .. m.seq]
    BY <1>0, <1>1 DEF Apply, ApplySnapshot, StampOf
  <2>2. 1 .. m.seq \in SUBSET Nat
    BY <1>0
  <2> HIDE DEF b
  <2>3. b \in Books
    BY <1>0, <2>1, <2>2 DEF Books
  <2> QED BY <2>1, <2>3, <1>0 DEF b
<1>2. CASE ~IsSnapshot(m)
  <2>0. b = ApplyDelta(m, g)
    BY <1>2 DEF Apply
  <2>1. CASE g = book.generation /\ book.synchronized /\ Follows(m)
    <3>1. b = [book EXCEPT !.u = m.u, !.seq = m.seq, !.stamp = m.stamp,
                           !.content = book.content \cup {m.seq}]
      BY <1>0, <2>0, <2>1 DEF ApplyDelta, StampOf
    <3>2. m.u # 1 /\ m.u = book.u + 1 /\ m.u - m.seq = book.u - book.seq
      BY <1>2, <2>1 DEF Follows, IsSnapshot, Adjacent, SameRun
    <3>3. m.seq = book.seq + 1
      BY <1>0, <3>2
    <3>4. book.content \cup {m.seq} = 1 .. m.seq
      <4>1. book.content = 1 .. book.seq
        BY <2>1 DEF BookMatchesExchange
      <4> QED BY <1>0, <3>3, <4>1
    <3>5. b = [book EXCEPT !.u = m.u, !.seq = m.seq, !.stamp = m.stamp, !.content = 1 .. m.seq]
      BY <3>1, <3>4
    <3>6. 1 .. m.seq \in SUBSET Nat
      BY <1>0
    <3> HIDE DEF b
    <3>7. /\ b \in Books /\ b.generation = g /\ b.u = m.u /\ b.seq = m.seq /\ b.stamp = m.stamp
          /\ b.content = 1 .. m.seq
      BY <1>0, <2>1, <3>5, <3>6 DEF Books
    <3> QED BY <1>0, <3>7 DEF b
  <2>2. CASE ~(g = book.generation /\ book.synchronized /\ Follows(m)) /\ book.synchronized
    <3>1. b = [book EXCEPT !.synchronized = FALSE]
      BY <1>0, <2>0, <2>2 DEF ApplyDelta
    <3> HIDE DEF b
    <3>2. /\ b \in Books /\ b.generation = book.generation /\ b.seq = book.seq /\ b.stamp = book.stamp
          /\ b.synchronized = FALSE
      BY <3>1 DEF Books
    <3> QED BY <1>0, <1>2, <3>2 DEF b
  <2>3. CASE ~book.synchronized
    <3>1. b = book \/ b = [book EXCEPT !.synchronized = FALSE]
      BY <1>0, <2>0, <2>3 DEF ApplyDelta
    <3> HIDE DEF b
    <3>2. /\ b \in Books /\ b.generation = book.generation /\ b.seq = book.seq /\ b.stamp = book.stamp
          /\ ~b.synchronized
      BY <2>3, <3>1 DEF Books
    <3> QED BY <1>0, <1>2, <3>2 DEF b
  <2> QED BY <1>0, <2>1, <2>2, <2>3
<1> QED BY <1>1, <1>2

LEMMA FeedInitial == FeedInit => FeedInv
<1> SUFFICES ASSUME FeedInit PROVE FeedInv
  OBVIOUS
<1>1. /\ feedTime = 0 /\ bookSeq = 1 /\ bookU = 2 /\ changedAt = <<0>> /\ served = "dead"
      /\ feedWire = <<>> /\ feedPhase = "connecting" /\ feedGeneration = 1 /\ awaiting = TRUE
      /\ rest = [type |-> "none", u |-> 0, seq |-> 0, full |-> FALSE, stamp |-> 0]
      /\ book = [u |-> 0, seq |-> 0, stamp |-> 0, generation |-> 0, synchronized |-> FALSE,
                 content |-> {}]
  BY DEF FeedInit, NoMessage
<1>2. rest \in Messages /\ book \in Books
  BY <1>1 DEF Messages, Books
<1>3. changedAt \in Seq(Nat) /\ Len(changedAt) = bookSeq /\ feedWire \in Seq(Messages) /\ Len(feedWire) = 0
  BY <1>1
<1>4. FeedTypes
  BY <1>1, <1>2, <1>3 DEF FeedTypes
<1>5. WireInv
  BY <1>1, <1>3 DEF WireInv, Chain
<1>6. \A c \in 1 .. bookSeq : changedAt[c] = 0
  BY <1>1
<1>7. FreshInv
  BY <1>1, <1>3, <1>6 DEF FreshInv, FreshNow, UpToDate
<1>8. ConnectionInv /\ BookInv
  BY <1>1 DEF ConnectionInv, BookInv, BookMatchesExchange, NoMessage
<1> QED BY <1>4, <1>5, <1>7, <1>8 DEF FeedInv

\* Time that passes and changes that are made spoil nothing that is fresh.
TimeOrChange ==
    \/ UNCHANGED <<feedTime, bookSeq, changedAt>>
    \/ feedTime' = feedTime + 1 /\ UNCHANGED <<bookSeq, changedAt>>
    \/ feedTime' = feedTime /\ bookSeq' = bookSeq + 1 /\ changedAt' = Append(changedAt, feedTime)

LEMMA FreshKept ==
  ASSUME FeedTypes, TimeOrChange
  PROVE  \A s, q \in Nat : UpToDate(s, q, feedTime, bookSeq, changedAt)
                             => UpToDate(s, q, feedTime', bookSeq', changedAt')
<1>0. feedTime \in Nat /\ bookSeq \in Nat /\ changedAt \in Seq(Nat) /\ Len(changedAt) = bookSeq
  BY DEF FeedTypes
<1>1. CASE UNCHANGED <<feedTime, bookSeq, changedAt>>
  BY <1>1
<1>2. CASE feedTime' = feedTime + 1 /\ UNCHANGED <<bookSeq, changedAt>>
  BY <1>0, <1>2, FreshLater
<1>3. CASE feedTime' = feedTime /\ bookSeq' = bookSeq + 1 /\ changedAt' = Append(changedAt, feedTime)
  BY <1>0, <1>3, FreshAfterChange
<1> QED BY <1>1, <1>2, <1>3 DEF TimeOrChange

LEMMA ExchangeTypes ==
  ASSUME FeedTypes, TimeOrChange
  PROVE  feedTime' \in Nat /\ bookSeq' \in Nat /\ changedAt' \in Seq(Nat) /\ Len(changedAt') = bookSeq'
<1>0. feedTime \in Nat /\ bookSeq \in Nat /\ changedAt \in Seq(Nat) /\ Len(changedAt) = bookSeq
  BY DEF FeedTypes
<1>1. Append(changedAt, feedTime) \in Seq(Nat) /\ Len(Append(changedAt, feedTime)) = bookSeq + 1
  BY <1>0
<1> QED BY <1>0, <1>1 DEF TimeOrChange

\* A message of the exchange's present book is put on the wire.
LEMMA WirePushed ==
  ASSUME FeedInv, TimeOrChange, bookU' \in Nat, feedTime' = feedTime,
         NEW m \in Messages, m.u = bookU', m.seq = bookSeq', m.stamp = feedTime,
         bookU' = 1 \/ bookU' - bookSeq' = bookU - bookSeq,
         feedWire' = Append(feedWire, m), Subscribed, Subscribed',
         UNCHANGED <<feedPhase, feedGeneration, awaiting, rest, book>>
  PROVE  FeedInv'
<1>0. /\ feedTime \in Nat /\ bookSeq \in Nat /\ bookU \in Nat
      /\ feedWire \in Seq(Messages) /\ rest \in Messages /\ book \in Books
  BY DEF FeedInv, FeedTypes
<1>1. bookSeq' \in Nat /\ bookU' \in Nat /\ changedAt' \in Seq(Nat) /\ Len(changedAt') = bookSeq'
  BY ExchangeTypes DEF FeedInv
<1>2. feedWire # <<>> => Adjacent(feedWire[Len(feedWire)], m)
  BY DEF FeedInv, WireInv, Adjacent, SameRun
<1>3. /\ Chain(feedWire') /\ feedWire' \in Seq(Messages) /\ feedWire' # <<>>
      /\ feedWire'[Len(feedWire')] = m
      /\ feedWire # <<>> => feedWire'[1] = feedWire[1]
      /\ feedWire = <<>> => feedWire'[1] = m
      /\ \A i \in 1 .. Len(feedWire') :
           feedWire'[i] = m \/ (i \in 1 .. Len(feedWire) /\ feedWire'[i] = feedWire[i])
  BY <1>0, <1>2, ChainAppend DEF FeedInv, WireInv
<1>4. FeedTypes'
  BY <1>1, <1>3 DEF FeedInv, FeedTypes
<1>5. WireInv'
  BY <1>3 DEF WireInv
<1>6. FreshInv'
  <2>1. UpToDate(m.stamp, m.seq, feedTime', bookSeq', changedAt')
    BY <1>0, <1>1, FreshWhenSent
  <2>2. ASSUME NEW i \in 1 .. Len(feedWire')
        PROVE  UpToDate(feedWire'[i].stamp, feedWire'[i].seq, feedTime', bookSeq', changedAt')
    <3>1. CASE feedWire'[i] = m
      BY <2>1, <3>1
    <3>2. CASE i \in 1 .. Len(feedWire) /\ feedWire'[i] = feedWire[i]
      <4>1. /\ UpToDate(feedWire[i].stamp, feedWire[i].seq, feedTime, bookSeq, changedAt)
            /\ feedWire[i] \in Messages
        BY <1>0, <3>2 DEF FeedInv, FreshInv, FreshNow
      <4>2. feedWire[i].stamp \in Nat /\ feedWire[i].seq \in Nat
        BY <4>1 DEF Messages
      <4> QED BY <3>2, <4>1, <4>2, FreshKept DEF FeedInv
    <3> QED BY <1>3, <3>1, <3>2
  <2>3. /\ UpToDate(rest.stamp, rest.seq, feedTime, bookSeq, changedAt)
        /\ UpToDate(book.stamp, book.seq, feedTime, bookSeq, changedAt)
        /\ rest.stamp \in Nat /\ rest.seq \in Nat /\ book.stamp \in Nat /\ book.seq \in Nat
    BY <1>0 DEF FeedInv, FreshInv, FreshNow, Messages, Books
  <2>4. /\ UpToDate(rest.stamp, rest.seq, feedTime', bookSeq', changedAt')
        /\ UpToDate(book.stamp, book.seq, feedTime', bookSeq', changedAt')
    BY <2>3, FreshKept DEF FeedInv
  <2> QED BY <2>2, <2>4 DEF FreshInv, FreshNow
<1>7. ConnectionInv'
  BY DEF FeedInv, ConnectionInv, Subscribed
<1>8. BookInv'
  <2>1. book.synchronized /\ book.generation = feedGeneration /\ feedWire = <<>> => Adjacent(book, m)
    BY DEF FeedInv, BookInv, Adjacent, SameRun
  <2>2. book.synchronized /\ book.generation = feedGeneration => Adjacent(book, feedWire'[1])
    BY <1>3, <2>1 DEF FeedInv, BookInv
  <2> QED BY <1>3, <2>2 DEF FeedInv, BookInv, BookMatchesExchange
<1> QED BY <1>4, <1>5, <1>6, <1>7, <1>8 DEF FeedInv

\* Nothing is put on the wire and nothing is taken from it.
LEMMA WireKept ==
  ASSUME FeedInv, TimeOrChange, bookU' \in Nat, feedWire' = feedWire,
         Subscribed' => /\ Subscribed \/ served = "linked"
                        /\ bookU' - bookSeq' = bookU - bookSeq,
         UNCHANGED <<feedGeneration, book>>, rest' \in Messages,
         UpToDate(rest'.stamp, rest'.seq, feedTime', bookSeq', changedAt'),
         awaiting' \in BOOLEAN, ConnectionInv'
  PROVE  FeedInv'
<1>0. /\ feedTime \in Nat /\ bookSeq \in Nat /\ bookU \in Nat
      /\ feedWire \in Seq(Messages) /\ book \in Books
  BY DEF FeedInv, FeedTypes
<1>1. FeedTypes'
  BY ExchangeTypes DEF FeedInv, FeedTypes
<1>2. WireInv'
  BY DEF FeedInv, WireInv, ConnectionInv
<1>3. FreshInv'
  <2>1. ASSUME NEW i \in 1 .. Len(feedWire)
        PROVE  UpToDate(feedWire[i].stamp, feedWire[i].seq, feedTime', bookSeq', changedAt')
    <3>1. /\ UpToDate(feedWire[i].stamp, feedWire[i].seq, feedTime, bookSeq, changedAt)
          /\ feedWire[i] \in Messages
      BY <1>0 DEF FeedInv, FreshInv, FreshNow
    <3>2. feedWire[i].stamp \in Nat /\ feedWire[i].seq \in Nat
      BY <3>1 DEF Messages
    <3> QED BY <3>1, <3>2, FreshKept DEF FeedInv
  <2>2. /\ UpToDate(book.stamp, book.seq, feedTime, bookSeq, changedAt)
        /\ book.stamp \in Nat /\ book.seq \in Nat
    BY <1>0 DEF FeedInv, FreshInv, FreshNow, Books
  <2>3. UpToDate(book.stamp, book.seq, feedTime', bookSeq', changedAt')
    BY <2>2, FreshKept DEF FeedInv
  <2> QED BY <2>1, <2>3 DEF FreshInv, FreshNow
<1>4. BookInv'
  <2>1. served = "linked" => book.generation # feedGeneration
    BY <1>0 DEF FeedInv, ConnectionInv, FeedTypes, Books
  <2> QED BY <2>1 DEF FeedInv, BookInv, BookMatchesExchange
<1> QED BY <1>1, <1>2, <1>3, <1>4 DEF FeedInv

\* What was on the wire is lost with the connection.
LEMMA WireLost ==
  ASSUME FeedInv, UNCHANGED <<feedTime, bookSeq, bookU, changedAt, rest, book>>, feedWire' = <<>>,
         ~Subscribed', feedGeneration' \in Nat \ {0}, awaiting' \in BOOLEAN, ConnectionInv'
  PROVE  FeedInv'
<1>1. feedWire' \in Seq(Messages) /\ Len(feedWire') = 0
  OBVIOUS
<1>2. FeedTypes'
  BY <1>1 DEF FeedInv, FeedTypes
<1>3. WireInv'
  BY <1>1 DEF WireInv, Chain
<1>4. FreshInv'
  BY <1>1 DEF FeedInv, FreshInv, FreshNow
<1>5. BookInv'
  BY DEF FeedInv, BookInv, BookMatchesExchange
<1> QED BY <1>2, <1>3, <1>4, <1>5 DEF FeedInv

LEMMA ReceiveStep == FeedInv /\ ReceiveMessage => FeedInv'
<1> SUFFICES ASSUME FeedInv, ReceiveMessage PROVE FeedInv'
  OBVIOUS
<1> DEFINE m == feedWire[1]
<1>0. /\ feedTime \in Nat /\ bookSeq \in Nat /\ bookU \in Nat
      /\ feedWire \in Seq(Messages) /\ rest \in Messages /\ book \in Books
      /\ feedGeneration \in Nat \ {0} /\ awaiting \in BOOLEAN /\ book.generation \in Nat
      /\ book.generation <= feedGeneration
  BY DEF FeedInv, FeedTypes, ConnectionInv, Books
<1>1. /\ feedWire # <<>> /\ feedWire' = Tail(feedWire) /\ feedPhase' = "receiving"
      /\ UNCHANGED <<feedTime, bookSeq, bookU, changedAt, served, feedGeneration, rest>>
  BY DEF ReceiveMessage, exchangeVars
<1>2. /\ feedWire' \in Seq(Messages) /\ Chain(feedWire') /\ Head(feedWire) = m /\ m \in Messages
      /\ feedWire' # <<>> => Adjacent(m, feedWire'[1]) /\ feedWire'[Len(feedWire')] = feedWire[Len(feedWire)]
      /\ feedWire' = <<>> => feedWire[Len(feedWire)] = m
      /\ \A i \in 1 .. Len(feedWire') : i + 1 \in 1 .. Len(feedWire) /\ feedWire'[i] = feedWire[i + 1]
      /\ 1 \in 1 .. Len(feedWire)
  BY <1>0, <1>1, ChainTail DEF FeedInv, WireInv
<1>3. WireInv'
  BY <1>1, <1>2 DEF FeedInv, WireInv, Subscribed
<1>4. \A i \in 1 .. Len(feedWire') : FreshNow(feedWire[i])'
  BY <1>1, <1>2 DEF FeedInv, FreshInv, FreshNow
<1>5. served # "linked" /\ feedPhase # "connecting"
  BY <1>1 DEF FeedInv, ConnectionInv
<1>6. CASE awaiting /\ ~IsSnapshot(m)
  <2>1. awaiting' = awaiting /\ book' = book
    BY <1>2, <1>6 DEF ReceiveMessage
  <2>2. book.generation # feedGeneration
    BY <1>0, <1>6 DEF FeedInv, ConnectionInv
  <2>3. FeedTypes'
    BY <1>1, <1>2, <2>1 DEF FeedInv, FeedTypes
  <2>4. FreshInv'
    BY <1>1, <1>4, <2>1 DEF FeedInv, FreshInv, FreshNow
  <2>5. ConnectionInv'
    BY <1>1, <1>5, <2>1 DEF FeedInv, ConnectionInv
  <2>6. BookInv'
    BY <1>1, <2>1, <2>2 DEF FeedInv, BookInv, BookMatchesExchange
  <2> QED BY <1>3, <2>3, <2>4, <2>5, <2>6 DEF FeedInv
<1>7. CASE ~(awaiting /\ ~IsSnapshot(m))
  <2>1. awaiting' = FALSE /\ book' = Apply(m, feedGeneration)
    BY <1>2, <1>7 DEF ReceiveMessage
  <2>2. /\ BookMatchesExchange
        /\ book.synchronized /\ book.generation = feedGeneration => Adjacent(book, m)
    BY <1>1 DEF FeedInv, BookInv
  <2>3. /\ book' \in Books
        /\ book'.generation <= feedGeneration
        /\ book'.synchronized => book'.content = 1 .. book'.seq
        /\ book'.synchronized /\ book'.generation = feedGeneration => book'.u = m.u /\ book'.seq = m.seq
        /\ \/ book'.seq = m.seq /\ book'.stamp = m.stamp
           \/ book'.seq = book.seq /\ book'.stamp = book.stamp
    <3> HIDE DEF m
    <3> QED BY <1>0, <1>2, <2>1, <2>2, AppliedBook
  <2>4. FeedTypes'
    BY <1>1, <1>2, <2>1, <2>3 DEF FeedInv, FeedTypes
  <2>5. FreshInv'
    <3>1. /\ UpToDate(m.stamp, m.seq, feedTime, bookSeq, changedAt)
          /\ UpToDate(book.stamp, book.seq, feedTime, bookSeq, changedAt)
          /\ UpToDate(rest.stamp, rest.seq, feedTime, bookSeq, changedAt)
      BY <1>2 DEF FeedInv, FreshInv, FreshNow
    <3>2. UpToDate(book'.stamp, book'.seq, feedTime, bookSeq, changedAt)
      BY <2>3, <3>1
    <3> QED BY <1>1, <1>4, <3>1, <3>2 DEF FreshInv, FreshNow
  <2>6. ConnectionInv'
    BY <1>1, <1>5, <2>1, <2>3 DEF FeedInv, ConnectionInv
  <2>7. BookInv'
    <3>1. ASSUME book'.synchronized, book'.generation = feedGeneration, feedWire' # <<>>
          PROVE  Adjacent(book', feedWire'[1])
      BY <1>2, <2>3, <3>1 DEF Adjacent, SameRun
    <3>2. ASSUME book'.synchronized, book'.generation = feedGeneration, feedWire' = <<>>, Subscribed
          PROVE  book'.u - book'.seq = bookU - bookSeq
      BY <1>1, <1>2, <2>3, <3>2 DEF FeedInv, WireInv
    <3> QED BY <1>1, <2>3, <3>1, <3>2 DEF BookInv, BookMatchesExchange, Subscribed
  <2> QED BY <1>3, <2>4, <2>5, <2>6, <2>7 DEF FeedInv
<1> QED BY <1>6, <1>7

LEMMA ApplyRestStep == FeedInv /\ ApplyRestBook => FeedInv'
<1> SUFFICES ASSUME FeedInv, ApplyRestBook PROVE FeedInv'
  OBVIOUS
<1>0. /\ rest # NoMessage /\ rest' = NoMessage /\ book' = Apply(rest, 0)
      /\ UNCHANGED <<feedTime, bookSeq, bookU, changedAt, served, feedWire, feedPhase, feedGeneration, awaiting>>
  BY DEF ApplyRestBook, exchangeVars, clientVars
<1>1. /\ feedTime \in Nat /\ bookSeq \in Nat /\ changedAt \in Seq(Nat) /\ Len(changedAt) = bookSeq
      /\ feedWire \in Seq(Messages) /\ rest \in Messages /\ book \in Books
      /\ feedGeneration \in Nat \ {0} /\ awaiting \in BOOLEAN /\ book.generation \in Nat
  BY DEF FeedInv, FeedTypes, Books
<1>2. rest' \in Messages /\ UpToDate(rest'.stamp, rest'.seq, feedTime', bookSeq', changedAt')
  BY <1>0, <1>1 DEF NoMessage, Messages, UpToDate
<1>3. IsSnapshot(rest)
  BY <1>0 DEF FeedInv, ConnectionInv, IsSnapshot
<1>4. CASE book.generation > 0
  <2>1. book' = book
    BY <1>0, <1>1, <1>3, <1>4 DEF Apply, ApplySnapshot
  <2>2. ConnectionInv'
    BY <1>0, <2>1 DEF FeedInv, ConnectionInv
  <2>3. TimeOrChange /\ bookU' \in Nat /\ awaiting' \in BOOLEAN
    BY <1>0 DEF TimeOrChange, FeedInv, FeedTypes
  <2> QED BY <1>0, <1>2, <2>1, <2>2, <2>3, WireKept DEF Subscribed
<1>5. CASE book.generation = 0
  <2>1. /\ book' \in Books /\ book'.generation = 0
        /\ book'.synchronized => book'.content = 1 .. book'.seq
        /\ \/ book'.seq = rest.seq /\ book'.stamp = rest.stamp
           \/ book'.seq = book.seq /\ book'.stamp = book.stamp
    <3>1. rest \in Messages /\ 0 \in Nat /\ book.generation <= 0 /\ BookMatchesExchange
      BY <1>1, <1>5 DEF FeedInv, BookInv
    <3>2. book' = [u |-> rest.u, seq |-> rest.seq, stamp |-> rest.stamp, generation |-> 0,
                   synchronized |-> TRUE, content |-> 1 .. rest.seq]
      BY <1>0, <1>1, <1>3, <1>5 DEF Apply, ApplySnapshot, StampOf
    <3>3. rest.seq \in Nat /\ rest.u \in Nat /\ rest.stamp \in Nat
      BY <1>1 DEF Messages
    <3>4. 1 .. rest.seq \in SUBSET Nat
      BY <3>3
    <3> QED BY <3>2, <3>3, <3>4 DEF Books
  <2>2. FeedTypes'
    BY <1>0, <1>2, <2>1 DEF FeedInv, FeedTypes
  <2>3. WireInv'
    BY <1>0 DEF FeedInv, WireInv, Subscribed
  <2>4. FreshInv'
    <3>1. /\ UpToDate(rest.stamp, rest.seq, feedTime, bookSeq, changedAt)
          /\ UpToDate(book.stamp, book.seq, feedTime, bookSeq, changedAt)
          /\ \A i \in 1 .. Len(feedWire) :
               UpToDate(feedWire[i].stamp, feedWire[i].seq, feedTime, bookSeq, changedAt)
      BY DEF FeedInv, FreshInv, FreshNow
    <3>2. UpToDate(book'.stamp, book'.seq, feedTime, bookSeq, changedAt)
      BY <2>1, <3>1
    <3> QED BY <1>0, <1>2, <3>1, <3>2 DEF FreshInv, FreshNow
  <2>5. ConnectionInv'
    BY <1>0, <1>1, <2>1 DEF FeedInv, ConnectionInv
  <2>6. BookInv'
    <3>1. book'.generation # feedGeneration'
      BY <1>0, <1>1, <2>1
    <3> QED BY <2>1, <3>1 DEF BookInv, BookMatchesExchange
  <2> QED BY <2>2, <2>3, <2>4, <2>5, <2>6 DEF FeedInv
<1> QED BY <1>1, <1>4, <1>5

LEMMA FeedStep == FeedInv /\ [FeedNext]_feedVars => FeedInv'
<1> SUFFICES ASSUME FeedInv, [FeedNext]_feedVars PROVE FeedInv'
  OBVIOUS
<1>0. /\ feedTime \in Nat /\ bookSeq \in Nat /\ bookU \in Nat
      /\ changedAt \in Seq(Nat) /\ Len(changedAt) = bookSeq
      /\ feedWire \in Seq(Messages) /\ rest \in Messages /\ book \in Books
      /\ feedGeneration \in Nat \ {0} /\ awaiting \in BOOLEAN /\ book.generation \in Nat
      /\ FeedTypes
  BY DEF FeedInv, FeedTypes, Books
<1>1. FreshNow(rest) /\ rest.stamp \in Nat /\ rest.seq \in Nat
  BY <1>0 DEF FeedInv, FreshInv, Messages
<1>2. TimeOrChange /\ rest' = rest => UpToDate(rest'.stamp, rest'.seq, feedTime', bookSeq', changedAt')
  BY <1>0, <1>1, FreshKept DEF FreshNow
<1>3. UNCHANGED <<feedTime, bookSeq, changedAt>> => TimeOrChange
  BY DEF TimeOrChange
<1> DEFINE Idle == UNCHANGED <<feedTime, bookSeq, bookU, changedAt, feedWire, feedGeneration, rest, book>>
<1>4. ASSUME Idle, ConnectionInv', awaiting' \in BOOLEAN,
             Subscribed' => Subscribed \/ served = "linked"
      PROVE  FeedInv'
  BY <1>0, <1>2, <1>3, <1>4, WireKept
<1>5. CASE Change
  <2>1. /\ bookSeq' = bookSeq + 1 /\ bookU' = bookU + 1 /\ changedAt' = Append(changedAt, feedTime)
        /\ UNCHANGED <<feedTime, served, feedPhase, feedGeneration, awaiting, rest, book>>
    BY <1>5 DEF Change, clientVars
  <2>2. TimeOrChange /\ bookU' \in Nat /\ bookU' - bookSeq' = bookU - bookSeq
    BY <1>0, <2>1 DEF TimeOrChange
  <2> DEFINE m == Message("delta", bookU + 1, bookSeq + 1, FALSE)
  <2>3. m \in Messages /\ m.u = bookU' /\ m.seq = bookSeq' /\ m.stamp = feedTime
    BY <1>0, <2>1 DEF Message, Messages
  <2>4. Subscribed' = Subscribed
    BY <2>1 DEF Subscribed
  <2>5. CASE feedWire' = feedWire
    <3>1. ConnectionInv'
      BY <2>1, <2>5 DEF FeedInv, ConnectionInv
    <3> QED BY <1>0, <1>2, <2>1, <2>2, <2>4, <2>5, <3>1, WireKept
  <2>6. CASE Subscribed /\ feedWire' = Append(feedWire, m)
    <3> HIDE DEF m
    <3> QED BY <2>1, <2>2, <2>3, <2>4, <2>6, WirePushed
  <2> QED BY <1>5, <2>5, <2>6 DEF Change, Push
<1>6. CASE ServiceRestart
  <2>1. /\ bookSeq' = bookSeq + 1 /\ bookU' = 1 /\ changedAt' = Append(changedAt, feedTime)
        /\ UNCHANGED <<feedTime, served, feedPhase, feedGeneration, awaiting, rest, book>>
    BY <1>6 DEF ServiceRestart, clientVars
  <2>2. TimeOrChange /\ bookU' \in Nat
    BY <1>0, <2>1 DEF TimeOrChange
  <2> DEFINE m == Message("delta", 1, bookSeq + 1, TRUE)
  <2>3. m \in Messages /\ m.u = bookU' /\ m.seq = bookSeq' /\ m.stamp = feedTime
    BY <1>0, <2>1 DEF Message, Messages
  <2>4. Subscribed' = Subscribed
    BY <2>1 DEF Subscribed
  <2>5. CASE ~Subscribed /\ feedWire' = feedWire
    <3>1. ConnectionInv'
      BY <2>1, <2>5 DEF FeedInv, ConnectionInv
    <3> QED BY <1>0, <1>2, <2>1, <2>2, <2>4, <2>5, <3>1, WireKept
  <2>6. CASE Subscribed /\ feedWire' = Append(feedWire, m)
    <3> HIDE DEF m
    <3> QED BY <2>1, <2>2, <2>3, <2>4, <2>6, WirePushed
  <2> QED BY <1>6, <2>5, <2>6 DEF ServiceRestart, Push
<1>7. CASE ServeBook \/ RepeatBook
  <2> DEFINE m == Message("snapshot", bookU, bookSeq, TRUE)
  <2>1. /\ UNCHANGED <<feedTime, bookSeq, bookU, changedAt, feedPhase, feedGeneration, awaiting, rest, book>>
        /\ Subscribed /\ Subscribed' /\ feedWire' = Append(feedWire, m)
    BY <1>7 DEF ServeBook, RepeatBook, clientVars, exchangeVars, Subscribed, Push
  <2>2. m \in Messages /\ m.u = bookU' /\ m.seq = bookSeq' /\ m.stamp = feedTime
    BY <1>0, <2>1 DEF Message, Messages
  <2>3. TimeOrChange /\ bookU' \in Nat /\ bookU' - bookSeq' = bookU - bookSeq
    BY <1>0, <2>1 DEF TimeOrChange
  <2> HIDE DEF m
  <2> QED BY <2>1, <2>2, <2>3, WirePushed
<1>8. CASE ServeTopic
  <2>1. served = "linked" /\ served' = "topic" /\ Idle /\ UNCHANGED <<feedPhase, awaiting>>
    BY <1>8 DEF ServeTopic, clientVars, exchangeVars
  <2>2. ConnectionInv'
    BY <2>1 DEF FeedInv, ConnectionInv
  <2> QED BY <1>0, <1>4, <2>1, <2>2
<1>9. CASE FeedLinkDies
  <2>1. /\ served' = "dead" /\ feedWire' \in {feedWire, <<>>}
        /\ UNCHANGED <<feedTime, bookSeq, bookU, changedAt, feedPhase, feedGeneration, awaiting, rest, book>>
    BY <1>9 DEF FeedLinkDies, clientVars, exchangeVars
  <2>2. ConnectionInv' /\ ~Subscribed'
    BY <2>1 DEF FeedInv, ConnectionInv, Subscribed
  <2>3. CASE feedWire' = feedWire
    BY <1>0, <1>4, <2>1, <2>2, <2>3
  <2>4. CASE feedWire' = <<>>
    BY <1>0, <2>1, <2>2, <2>4, WireLost
  <2> QED BY <2>1, <2>3, <2>4
<1>10. CASE FeedTick
  <2>1. /\ feedTime' = feedTime + 1
        /\ UNCHANGED <<bookSeq, bookU, changedAt, served, feedWire, feedPhase, feedGeneration, awaiting, rest, book>>
    BY <1>10 DEF FeedTick, clientVars, exchangeVars
  <2>2. ConnectionInv' /\ TimeOrChange /\ Subscribed' = Subscribed
    BY <2>1 DEF FeedInv, ConnectionInv, TimeOrChange, Subscribed
  <2> QED BY <1>0, <1>2, <2>1, <2>2, WireKept
<1>11. CASE OpenConnection
  <2>1. feedPhase = "connecting" /\ feedPhase' = "receiving" /\ awaiting' = TRUE /\ served' = "linked" /\ Idle
    BY <1>11 DEF OpenConnection, exchangeVars
  <2>2. ConnectionInv' /\ ~Subscribed'
    BY <2>1 DEF FeedInv, ConnectionInv, Subscribed
  <2> QED BY <1>4, <2>1, <2>2
<1>12. CASE ReceiveMessage
  BY <1>12, ReceiveStep
<1>13. CASE SendPing \/ ReceivePong
  <2>1. feedPhase' # "connecting" /\ Idle /\ UNCHANGED <<served, awaiting>>
    BY <1>13 DEF SendPing, ReceivePong, exchangeVars
  <2>2. ConnectionInv' /\ Subscribed' = Subscribed
    BY <2>1 DEF FeedInv, ConnectionInv, Subscribed
  <2> QED BY <1>0, <1>4, <2>1, <2>2
<1>14. CASE PongMissing \/ ConnectionCloses
  <2>1. /\ feedPhase' = "connecting" /\ feedGeneration' = feedGeneration + 1 /\ awaiting' = TRUE
        /\ served' = "dead" /\ feedWire' = <<>>
        /\ UNCHANGED <<feedTime, bookSeq, bookU, changedAt, rest, book>>
    BY <1>14 DEF PongMissing, ConnectionCloses, Reconnect, exchangeVars
  <2>2. ConnectionInv' /\ ~Subscribed'
    BY <1>0, <2>1 DEF FeedInv, ConnectionInv, Subscribed
  <2> QED BY <1>0, <2>1, <2>2, WireLost
<1>15. CASE ReadRestBook
  <2>1. /\ rest' = Message("snapshot", bookU, bookSeq, TRUE)
        /\ UNCHANGED <<feedTime, bookSeq, bookU, changedAt, served, feedWire, feedPhase, feedGeneration,
                       awaiting, book>>
    BY <1>15 DEF ReadRestBook, clientVars, exchangeVars
  <2>2. rest' \in Messages /\ rest'.seq = bookSeq /\ rest'.stamp = feedTime /\ rest'.type = "snapshot"
    BY <1>0, <2>1 DEF Message, Messages
  <2>3. UpToDate(rest'.stamp, rest'.seq, feedTime', bookSeq', changedAt')
    BY <1>0, <2>1, <2>2, FreshWhenSent
  <2>4. ConnectionInv' /\ Subscribed' = Subscribed /\ TimeOrChange
    BY <2>1, <2>2 DEF FeedInv, ConnectionInv, Subscribed, TimeOrChange
  <2> QED BY <1>0, <2>1, <2>2, <2>3, <2>4, WireKept
<1>16. CASE ApplyRestBook
  BY <1>16, ApplyRestStep
<1>17. CASE HandshakeFails \/ MessageBroken \/ SubscriptionRefused
  <2>1. /\ feedPhase' # "connecting" /\ served' = "dead" /\ feedWire' = <<>>
        /\ UNCHANGED <<feedTime, bookSeq, bookU, changedAt, feedGeneration, awaiting, rest, book>>
    BY <1>17 DEF HandshakeFails, MessageBroken, SubscriptionRefused, LeaveStream, exchangeVars
  <2>2. ConnectionInv' /\ ~Subscribed'
    BY <2>1 DEF FeedInv, ConnectionInv, Subscribed
  <2> QED BY <1>0, <2>1, <2>2, WireLost
<1>18. CASE UNCHANGED feedVars
  <2>1. Idle /\ UNCHANGED <<served, feedPhase, awaiting>>
    BY <1>18 DEF feedVars, exchangeVars, clientVars
  <2>2. ConnectionInv' /\ Subscribed' = Subscribed
    BY <2>1 DEF FeedInv, ConnectionInv, Subscribed
  <2> QED BY <1>0, <1>4, <2>1, <2>2
<1> QED
  BY <1>5, <1>6, <1>7, <1>8, <1>9, <1>10, <1>11, <1>12, <1>13, <1>14, <1>15, <1>16, <1>17, <1>18
  DEF FeedNext

\* A book that reports itself usable is the exchange's book at its sequence, with no
\* delta missing or applied to the wrong base, and misses only changes younger than the
\* age limit, whatever deltas are skipped, snapshots repeated, services restarted and
\* connections replaced, and however late a REST snapshot is applied (LocalOrderBook).
THEOREM UsableBookIsTheExchanges == FeedSpec => []UsableBook
<1>1. FeedInv => UsableBook
  <2> SUFFICES ASSUME FeedInv PROVE UsableBook
    OBVIOUS
  <2>1. BookMatchesExchange
    BY DEF FeedInv, BookInv
  <2>2. ASSUME IsExecutionReady, NEW c \in 1 .. bookSeq, c \notin book.content
        PROVE  feedTime - changedAt[c] <= MaxBookAge
    <3>1. book.content = 1 .. book.seq /\ feedTime - book.stamp <= MaxBookAge
      BY <2>1, <2>2 DEF IsExecutionReady, BookMatchesExchange
    <3>2. /\ feedTime \in Nat /\ bookSeq \in Nat /\ book.seq \in Nat /\ book.stamp \in Nat
          /\ changedAt[c] \in Nat /\ MaxBookAge \in Nat
      BY FeedConstants DEF FeedInv, FeedTypes, Books
    <3>3. c > book.seq
      BY <2>2, <3>1, <3>2
    <3>4. changedAt[c] >= book.stamp
      BY <3>3 DEF FeedInv, FreshInv, FreshNow, UpToDate
    <3> QED BY <3>1, <3>2, <3>4
  <2> QED BY <2>1, <2>2 DEF UsableBook, ReadyBookIsRecent
<1> QED BY <1>1, FeedInitial, FeedStep, PTL DEF FeedSpec
-----------------------------------------------------------------------------
(* The loops that wait for a crossing *)

\* A segment is what the last healthy trade left; D6 has one only while no gap followed.
WatchInv ==
  /\ stage \in {"D4", "D6"} /\ watchPhase \in {"first", "watching", "crossed", "refused"}
  /\ streamGeneration \in Nat \ {0} /\ trades \in Nat
  /\ seen.healthy => watch.previous = seen.price /\ watch.segment = seen.generation
  /\ stage = "D6" /\ watch.segment # NoGeneration => seen.healthy
  /\ stage = "D4" /\ watchPhase = "watching" => trades > 0
  /\ WatchedCrossing

LEMMA TradeKeepsWatch ==
  ASSUME WatchInv, NEW price, NEW tradeAge, NEW took, NEW answered, NEW verdict,
         Trade(price, tradeAge, took, answered, verdict)
  PROVE  WatchInv'
<1> DEFINE g == streamGeneration
           quote == IF QuotesNeedRefresh THEN answered ELSE quoteAge
           age == IF QuotesNeedRefresh THEN tradeAge + took ELSE tradeAge
           ok == Healthy(age, quote)
           taken == ok /\ Crosses(price, g) /\ (stage = "D4" => verdict)
           this == [price |-> price, generation |-> g, healthy |-> ok]
<1>1. /\ watchPhase = "watching" /\ trades' = trades + 1
      /\ watch' = IF ok THEN Continues(price, g) ELSE AfterUnhealthy
      /\ watchPhase' = IF taken THEN "crossed" ELSE watchPhase
      /\ seen' = this
      /\ crossing' = IF taken
                     THEN [from |-> seen, to |-> this, tradeAge |-> age, quoteAge |-> quote]
                     ELSE crossing
      /\ UNCHANGED <<stage, entry, streamGeneration>>
  BY DEF Trade
<1> HIDE DEF quote, age
<1>2. ok => watch'.previous = price /\ watch'.segment = g
  BY <1>1 DEF Continues
<1>3. ~ok => (stage = "D6" => watch'.segment = NoGeneration)
  BY <1>1 DEF AfterUnhealthy, NoSegment
<1>4. seen'.healthy = ok /\ seen'.price = price /\ seen'.generation = g
  BY <1>1
<1>5. WatchedCrossing'
  <2>1. CASE ~taken
    BY <1>1, <2>1 DEF WatchedCrossing
  <2>2. CASE taken
    <3>1. watch.segment = g /\ watch.previous > entry /\ price <= entry
      BY <2>2 DEF Crosses, Fresh
    <3>2. age \in 0 .. MaxTradeAge /\ quote \in 0 .. MaxQuoteAge
      BY <2>2 DEF Healthy
    <3>3. /\ crossing'.from = seen /\ crossing'.to.price = price /\ crossing'.to.generation = g
          /\ crossing'.to.healthy /\ crossing'.tradeAge = age /\ crossing'.quoteAge = quote
      BY <1>1, <2>2
    <3>4. stage = "D6" => seen.healthy
      BY <3>1 DEF WatchInv, NoGeneration
    <3>5. seen.healthy => seen.price > entry /\ seen.generation = g
      BY <3>1 DEF WatchInv
    <3>6. stage = "D4" => trades' > 1
      BY <1>1 DEF WatchInv
    <3> QED BY <1>1, <3>1, <3>2, <3>3, <3>4, <3>5, <3>6 DEF WatchedCrossing
  <2> QED BY <2>1, <2>2
<1>6. trades' \in Nat /\ trades' > 0
  BY <1>1 DEF WatchInv
<1> QED BY <1>1, <1>2, <1>3, <1>4, <1>5, <1>6 DEF WatchInv

LEMMA WatchStep == WatchInv /\ [WatchNext]_watchVars => WatchInv'
<1> SUFFICES ASSUME WatchInv, [WatchNext]_watchVars PROVE WatchInv'
  OBVIOUS
<1>1. ASSUME NEW price, NEW tradeAge, FirstTrade(price, tradeAge) PROVE WatchInv'
  <2>1. /\ watchPhase = "first" /\ trades' = trades + 1
        /\ UNCHANGED <<stage, quoteAge, streamGeneration, crossing>>
        /\ \/ /\ watchPhase' = "watching"
              /\ watch' = [previous |-> price, segment |-> streamGeneration, armed |-> TRUE]
              /\ seen' = [price |-> price, generation |-> streamGeneration, healthy |-> TRUE]
           \/ watchPhase' = "refused" /\ UNCHANGED <<entry, watch, seen>>
    BY <1>1 DEF FirstTrade
  <2> QED BY <2>1 DEF WatchInv, WatchedCrossing
<1>2. ASSUME GiveUp PROVE WatchInv'
  BY <1>2 DEF GiveUp, WatchInv, WatchedCrossing
<1>3. CASE RefreshTimesOut
  <2>1. CASE GiveUp
    BY <1>2, <2>1
  <2>2. CASE /\ stage = "D6" /\ watch' = NoSegment /\ trades' = trades + 1 /\ seen' = NoTrade
             /\ UNCHANGED <<stage, watchPhase, entry, quoteAge, streamGeneration, crossing>>
    BY <1>3, <2>2 DEF RefreshTimesOut, WatchInv, WatchedCrossing, NoSegment, NoTrade
  <2> QED BY <1>3, <2>1, <2>2 DEF RefreshTimesOut
<1>4. CASE QuotesAge \/ StreamReconnects
  BY <1>4 DEF QuotesAge, StreamReconnects, WatchInv, WatchedCrossing
<1>5. CASE UNCHANGED watchVars
  BY <1>5 DEF watchVars, WatchInv, WatchedCrossing
<1> QED BY <1>1, <1>2, <1>3, <1>4, <1>5, TradeKeepsWatch DEF WatchNext, WatchTimeout, QuoteMissing

\* The loops of D4 and D6 return only with a trade that crossed the level, fresh when it was
\* evaluated, and with no gap between it and the trade above the level.
THEOREM LoopsReturnOnCrossings == WatchSpec => []WatchedCrossing
<1>1. WatchInit => WatchInv
  BY DEF WatchInit, WatchInv, WatchedCrossing, NoSegment, NoTrade, NoGeneration
<1>2. WatchInv /\ [WatchNext]_watchVars => WatchInv'
  BY WatchStep
<1>3. WatchInv => WatchedCrossing
  BY DEF WatchInv
<1> QED BY <1>1, <1>2, <1>3, PTL DEF WatchSpec
-----------------------------------------------------------------------------
(* Rounding *)

\* Whole division by a positive number.
LEMMA Division ==
  ASSUME NEW v \in Int, NEW d \in Nat \ {0}
  PROVE  /\ v \div d \in Int /\ (v \div d) * d \in Int
         /\ (v \div d) * d <= v /\ v < (v \div d) * d + d
OBVIOUS

LEMMA Multiples ==
  ASSUME NEW k \in Int, NEW d \in Nat \ {0}
  PROVE  (k * d) \div d = k /\ (k * d) % d = 0
OBVIOUS

LEMMA FloorIsBelow ==
  ASSUME NEW v \in Int, NEW d \in Nat \ {0}
  PROVE  /\ FloorToStep(v, d) \in Int /\ FloorToStep(v, d) <= v /\ v < FloorToStep(v, d) + d
         /\ FloorToStep(v, d) % d = 0
<1>1. v \div d \in Int
  BY Division
<1> QED BY <1>1, Division, Multiples DEF FloorToStep

LEMMA CeilIsAbove ==
  ASSUME NEW v \in Int, NEW d \in Nat \ {0}
  PROVE  /\ CeilToStep(v, d) \in Int /\ v <= CeilToStep(v, d) /\ CeilToStep(v, d) < v + d
         /\ CeilToStep(v, d) \div d \in Int /\ CeilToStep(v, d) = (CeilToStep(v, d) \div d) * d
<1> DEFINE k == (-v) \div d
<1>1. k \in Int /\ k * d \in Int /\ k * d <= -v /\ -v < k * d + d
  BY Division
<1>2. CeilToStep(v, d) = (-k) * d
  BY DEF CeilToStep
<1> HIDE DEF k
<1>3. (-k) * d = -(k * d) /\ (-k) * d \in Int
  BY <1>1
<1>4. ((-k) * d) \div d = -k
  BY <1>1, Multiples
<1>5. v <= (-k) * d /\ (-k) * d < v + d
  BY <1>1, <1>3
<1> QED BY <1>1, <1>2, <1>3, <1>4, <1>5

\* What multiplying by a positive number keeps.
LEMMA Scaled ==
  ASSUME NEW a \in Int, NEW b \in Int, NEW c \in Nat, a <= b
  PROVE  a * c <= b * c /\ c * a <= c * b /\ a * c \in Int /\ b * c \in Int
OBVIOUS

\* The quantity that recovers a debt, each lot of which earns `gain`, covers the
\* debt and is less than a step more than needed.
LEMMA RecoveryQuantity ==
  ASSUME NEW owed \in Nat, NEW gain \in Nat \ {0}, NEW step \in Nat \ {0}
  PROVE  LET r == CeilToStep(CeilToStep(owed, gain) \div gain, step)
         IN  r \in Int /\ r * gain >= owed /\ (r - step) * gain < owed
<1> DEFINE up == CeilToStep(owed, gain)
           c == up \div gain
           r == CeilToStep(c, step)
<1>1. up \in Int /\ owed <= up /\ up < owed + gain /\ c \in Int /\ up = c * gain
  BY CeilIsAbove
<1> HIDE DEF up, c
<1>2. r \in Int /\ c <= r /\ r < c + step
  BY <1>1, CeilIsAbove
<1> HIDE DEF r
<1>3. c * gain <= r * gain /\ r * gain \in Int /\ c * gain \in Int
  BY <1>1, <1>2, Scaled
<1>4. r * gain >= owed
  BY <1>1, <1>3
<1>5. r - step <= c - 1 /\ r - step \in Int /\ c - 1 \in Int
  BY <1>1, <1>2
<1>6. (r - step) * gain <= (c - 1) * gain /\ (r - step) * gain \in Int /\ (c - 1) * gain \in Int
  BY <1>5, Scaled
<1>7. (c - 1) * gain = c * gain - gain
  BY <1>1
<1>8. (r - step) * gain < owed
  BY <1>1, <1>3, <1>6, <1>7
<1> QED BY <1>2, <1>4, <1>8 DEF r, c, up

-----------------------------------------------------------------------------
(* What rounding makes of a level *)

RiskRecords == [quantity : Int, notional : Int, debt : Nat, activeLevels : Int,
                requests : Int, veto : BOOLEAN]

LEMMA LevelsAreNumbers == \A l \in LevelIds : l \in Int
BY TriggerConstants DEF LevelIds

LEMMA LevelPrices ==
  ASSUME NEW l \in LevelIds
  PROVE  Entry[l] \in Nat /\ TakeProfit[l] \in Nat /\ StopLoss[l] \in Nat
BY TriggerConstants DEF LevelIds

\* The fields of a rounded proposal.
LEMMA QuantizedFields ==
  ASSUME NEW l, NEW risk
  PROVE  LET q == Quantized(l, risk)
             qty == FloorToStep(Desired, Instrument.qtyStep)
             at == CeilToStep(Entry[l], Instrument.tick)
             stopAt == CeilToStep(StopLoss[l], Instrument.tick)
         IN  /\ q.quantity = qty /\ q.entry = at /\ q.stop = stopAt
             /\ q.takeProfit = FloorToStep(TakeProfit[l], Instrument.tick)
             /\ q.notional = at * qty
             /\ q.projectedLoss = Positive(stopAt - at) * qty
             /\ q.accepted \in BOOLEAN
             /\ q.accepted => /\ qty >= Instrument.minQty
                              /\ qty * at >= Instrument.minNotional
                              /\ q.projectedLoss <= Limits.maxStopLoss
<1>1. /\ QuantizeLimitPrice(Entry[l], Instrument.tick, "Sell", "PASSIVE") = CeilToStep(Entry[l], Instrument.tick)
      /\ QuantizeLimitPrice(StopLoss[l], Instrument.tick, "Buy", "AGGRESSIVE") = CeilToStep(StopLoss[l], Instrument.tick)
      /\ QuantizeLimitPrice(TakeProfit[l], Instrument.tick, "Buy", "PASSIVE") = FloorToStep(TakeProfit[l], Instrument.tick)
  BY DEF QuantizeLimitPrice
<1> QED BY <1>1 DEF Quantized, RecalculateQuantizedRisk, NormalizeAndValidate

\* The quantity that recovers the debt of the state, and what it earns.
LEMMA QuantizedRecovery ==
  ASSUME NEW l, NEW risk, risk.debt > 0
  PROVE  LET q == Quantized(l, risk)
             gain == Positive(q.entry - q.takeProfit)
         IN  gain > 0 => /\ q.recoveryQuantity = CeilToStep(CeilToStep(risk.debt, gain) \div gain,
                                                             Instrument.qtyStep)
                         /\ q.recoveryProfit = q.recoveryQuantity * gain
<1>1. /\ QuantizeLimitPrice(Entry[l], Instrument.tick, "Sell", "PASSIVE") = CeilToStep(Entry[l], Instrument.tick)
      /\ QuantizeLimitPrice(TakeProfit[l], Instrument.tick, "Buy", "PASSIVE") = FloorToStep(TakeProfit[l], Instrument.tick)
  BY DEF QuantizeLimitPrice
<1> QED BY <1>1 DEF Quantized, RecalculateQuantizedRisk, NormalizeAndValidate

\* Every rounded price and quantity is a number, on the safe side of what was asked.
LEMMA QuantizedIsSafe ==
  ASSUME NEW l \in LevelIds, NEW risk
  PROVE  LET q == Quantized(l, risk)
         IN  /\ q.quantity \in Int /\ q.entry \in Int /\ q.stop \in Int /\ q.takeProfit \in Int
             /\ q.notional \in Int /\ q.projectedLoss \in Int /\ q.accepted \in BOOLEAN
             /\ q.notional = q.quantity * q.entry
             /\ q.accepted =>
                  /\ 0 < q.quantity /\ q.quantity <= Desired /\ q.quantity % Instrument.qtyStep = 0
                  /\ q.quantity * (StopLoss[l] - q.entry) <= Limits.maxStopLoss
                  /\ q.stop >= StopLoss[l] /\ q.entry >= Entry[l]
                  /\ q.quantity * q.entry >= Instrument.minNotional
<1> DEFINE q == Quantized(l, risk)
           qty == FloorToStep(Desired, Instrument.qtyStep)
           at == CeilToStep(Entry[l], Instrument.tick)
           stopAt == CeilToStep(StopLoss[l], Instrument.tick)
           tpAt == FloorToStep(TakeProfit[l], Instrument.tick)
           lot == Instrument.qtyStep
           notionalAt == at * qty
           loss == Positive(stopAt - at) * qty
<1>1. /\ q.quantity = qty /\ q.entry = at /\ q.stop = stopAt /\ q.takeProfit = tpAt
      /\ q.notional = at * qty /\ q.projectedLoss = loss /\ q.accepted \in BOOLEAN
      /\ q.accepted => qty >= Instrument.minQty /\ qty * at >= Instrument.minNotional
                       /\ loss <= Limits.maxStopLoss
  BY QuantizedFields
<1>2. /\ Desired \in Int /\ lot \in Nat \ {0} /\ Instrument.tick \in Nat \ {0}
      /\ Instrument.minQty \in Nat \ {0} /\ Limits.maxStopLoss \in Nat /\ Instrument.minNotional \in Nat
  BY TriggerConstants
<1>3. Entry[l] \in Int /\ StopLoss[l] \in Int /\ TakeProfit[l] \in Int
  BY LevelPrices
<1>4. qty \in Int /\ qty <= Desired /\ qty % lot = 0
  BY <1>2, FloorIsBelow
<1>5. at \in Int /\ at >= Entry[l] /\ stopAt \in Int /\ stopAt >= StopLoss[l] /\ tpAt \in Int
  BY <1>2, <1>3, CeilIsAbove, FloorIsBelow
<1> HIDE DEF q, qty, at, stopAt, tpAt, lot
<1>6. loss \in Int /\ notionalAt \in Int /\ notionalAt = qty * at
  BY <1>4, <1>5 DEF Positive
<1>7. ASSUME qty > 0 PROVE qty * (StopLoss[l] - at) <= loss
  <2> DEFINE a == StopLoss[l] - at
             b == Positive(stopAt - at)
  <2>1. a \in Int /\ b \in Int /\ a <= b /\ qty \in Nat
    BY <1>3, <1>4, <1>5, <1>7 DEF Positive
  <2>2. loss = b * qty
    OBVIOUS
  <2> HIDE DEF a, b
  <2>3. qty * a <= qty * b /\ qty * b = b * qty
    BY <2>1, Scaled
  <2> QED BY <2>2, <2>3 DEF a
<1>8. q.accepted => qty > 0
  BY <1>1, <1>2, <1>4
<1>9. qty * (StopLoss[l] - at) \in Int
  BY <1>3, <1>4, <1>5
<1>10. q.accepted => qty * (StopLoss[l] - at) <= Limits.maxStopLoss
  <2> HIDE DEF loss
  <2> DEFINE m == qty * (StopLoss[l] - at)
  <2>1. m \in Int /\ (qty > 0 => m <= loss)
    BY <1>7, <1>9
  <2>2. m <= loss /\ loss <= Limits.maxStopLoss => m <= Limits.maxStopLoss
    <3> HIDE DEF m
    <3> QED BY <1>2, <1>6, <2>1
  <2> QED BY <1>1, <1>8, <2>1, <2>2
<1> HIDE DEF loss
<1> QED BY <1>1, <1>4, <1>5, <1>6, <1>8, <1>10 DEF q, lot

\* Whatever the debt, the quantity that recovers it covers it, to within a step.
LEMMA DebtIsCovered ==
  ASSUME NEW l \in LevelIds, NEW risk, risk.debt \in Nat \ {0}
  PROVE  LET q == Quantized(l, risk)
             gain == q.entry - q.takeProfit
         IN gain > 0 => /\ q.recoveryProfit >= risk.debt
                        /\ (q.recoveryQuantity - Instrument.qtyStep) * gain < risk.debt
<1> DEFINE q == Quantized(l, risk)
           gain == q.entry - q.takeProfit
           lot == Instrument.qtyStep
           owed == risk.debt
           r == CeilToStep(CeilToStep(owed, gain) \div gain, lot)
<1> SUFFICES ASSUME gain > 0
             PROVE  q.recoveryProfit >= owed /\ (q.recoveryQuantity - lot) * gain < owed
  OBVIOUS
<1>1. gain \in Nat \ {0} /\ Positive(gain) = gain
  <2>1. q.entry \in Int /\ q.takeProfit \in Int
    BY QuantizedIsSafe
  <2> HIDE DEF q
  <2> QED BY <2>1 DEF Positive
<1>2. q.recoveryQuantity = r /\ q.recoveryProfit = r * gain
  BY <1>1, QuantizedRecovery
<1>3. lot \in Nat \ {0} /\ owed \in Nat
  BY TriggerConstants
<1> HIDE DEF gain, lot, owed
<1>4. r \in Int /\ r * gain >= owed /\ (r - lot) * gain < owed
  BY <1>1, <1>3, RecoveryQuantity
<1> HIDE DEF q, r
<1> QED BY <1>2, <1>4

-----------------------------------------------------------------------------
(* The intents of a trade *)

IntentRecords == [level : LevelIds, quantity : Int, entry : Int, stop : Int, notional : Int,
                  loss : Int, approved : BOOLEAN, from : Int, to : Int,
                  fromGeneration : Int, generation : Int]

\* An intent was inferred from two prices of one connection with its level between
\* them, and an approved one was rounded to the safe side.
GenuineIntent(n) == n.from > Entry[n.level] /\ n.to <= Entry[n.level] /\ n.fromGeneration = n.generation
SafeIntent(n) ==
  /\ 0 < n.quantity /\ n.quantity <= Desired /\ n.quantity % Instrument.qtyStep = 0
  /\ n.quantity * (StopLoss[n.level] - n.entry) <= Limits.maxStopLoss
  /\ n.stop >= StopLoss[n.level] /\ n.entry >= Entry[n.level]
  /\ n.quantity * n.entry >= Instrument.minNotional

\* The intent for a crossed level.
LEMMA EvaluateIntent ==
  ASSUME NEW l \in LevelIds, NEW risk \in RiskRecords, NEW price \in Int, NEW g \in Int,
         previous \in Int, previousGeneration = g, previous > Entry[l], price <= Entry[l]
  PROVE  LET n == Evaluate(l, risk, price, g)
         IN  /\ n \in IntentRecords /\ n.level = l
             /\ GenuineIntent(n) /\ (n.approved => SafeIntent(n))
             /\ n.notional = n.quantity * n.entry
             /\ n.approved => /\ risk.quantity + n.quantity <= Limits.maxQuantity
                              /\ risk.notional + n.notional <= Limits.maxNotional
                              /\ risk.activeLevels < Limits.maxActiveLevels
                              /\ risk.requests < Limits.maxRequests
<1> DEFINE q == Quantized(l, risk)
           ok == q.accepted /\ RiskApproves(q, risk, Limits)
           n == Evaluate(l, risk, price, g)
<1>1. /\ q.quantity \in Int /\ q.entry \in Int /\ q.stop \in Int
      /\ q.notional \in Int /\ q.projectedLoss \in Int
      /\ q.notional = q.quantity * q.entry
  BY QuantizedIsSafe
<1>2. q.accepted =>
        /\ 0 < q.quantity /\ q.quantity <= Desired /\ q.quantity % Instrument.qtyStep = 0
        /\ q.quantity * (StopLoss[l] - q.entry) <= Limits.maxStopLoss
        /\ q.stop >= StopLoss[l] /\ q.entry >= Entry[l]
        /\ q.quantity * q.entry >= Instrument.minNotional
  BY QuantizedIsSafe
<1>3. n = [level |-> l, quantity |-> q.quantity, entry |-> q.entry, stop |-> q.stop,
           notional |-> q.notional, loss |-> q.projectedLoss, approved |-> ok,
           from |-> previous, to |-> price, fromGeneration |-> g, generation |-> g]
  BY DEF Evaluate
<1>4. ok \in BOOLEAN
  OBVIOUS
<1>5. ok => /\ q.accepted
            /\ risk.quantity + q.quantity <= Limits.maxQuantity
            /\ risk.notional + q.notional <= Limits.maxNotional
            /\ risk.activeLevels < Limits.maxActiveLevels
            /\ risk.requests < Limits.maxRequests
  BY DEF RiskApproves
<1> HIDE DEF q, ok
<1>6. /\ n.level = l /\ n.quantity = q.quantity /\ n.entry = q.entry /\ n.stop = q.stop
      /\ n.notional = q.notional /\ n.approved = ok /\ n.from = previous /\ n.to = price
      /\ n.fromGeneration = g /\ n.generation = g
  BY <1>3
<1>7. n \in IntentRecords
  BY <1>1, <1>3, <1>4 DEF IntentRecords
<1> HIDE DEF n
<1>8. GenuineIntent(n)
  BY <1>6 DEF GenuineIntent
<1>9. n.approved => SafeIntent(n)
  BY <1>2, <1>5, <1>6 DEF SafeIntent
<1>10. n.notional = n.quantity * n.entry
  BY <1>1, <1>6
<1> QED BY <1>5, <1>6, <1>7, <1>8, <1>9, <1>10 DEF n

\* The approved ones of a sequence of intents, and what they add up to.
Ok(s) == {i \in DOMAIN s : s[i].approved}
Quantities(s) == [i \in Ok(s) |-> s[i].quantity]
Notionals(s) == [i \in Ok(s) |-> s[i].notional]

LEMMA OkType ==
  ASSUME NEW s \in Seq(IntentRecords)
  PROVE  /\ Ok(s) \subseteq 1..Len(s) /\ IsFiniteSet(Ok(s)) /\ Cardinality(Ok(s)) \in Nat
         /\ Sum(Quantities(s), Ok(s)) \in Int /\ Sum(Notionals(s), Ok(s)) \in Int
         /\ \A i \in Ok(s) : Quantities(s)[i] \in Int /\ Notionals(s)[i] \in Int
<1>1. Len(s) \in Nat /\ DOMAIN s = 1..Len(s) /\ \A i \in 1..Len(s) : s[i] \in IntentRecords
  OBVIOUS
<1>2. Ok(s) \subseteq 1..Len(s)
  BY <1>1 DEF Ok
<1>3. \A k \in Nat : IsFiniteSet(1..k)
  BY FS_Interval
<1>4. IsFiniteSet(Ok(s)) /\ Cardinality(Ok(s)) \in Nat
  BY <1>1, <1>2, <1>3, FS_Subset, FS_CardinalityType
<1>5. \A i \in Ok(s) : Quantities(s)[i] \in Int /\ Notionals(s)[i] \in Int
  BY <1>1, <1>2 DEF Quantities, Notionals, IntentRecords
<1> QED BY <1>2, <1>4, <1>5, SumType

LEMMA OkAppend ==
  ASSUME NEW s \in Seq(IntentRecords), NEW n \in IntentRecords
  PROVE  LET t == Append(s, n)
         IN  /\ t \in Seq(IntentRecords) /\ Len(t) = Len(s) + 1
             /\ \A i \in 1..Len(s) : t[i] = s[i]
             /\ t[Len(s) + 1] = n
             /\ Ok(t) = IF n.approved THEN Ok(s) \cup {Len(s) + 1} ELSE Ok(s)
<1> DEFINE t == Append(s, n)
<1>1. /\ t \in Seq(IntentRecords) /\ Len(t) = Len(s) + 1 /\ Len(s) \in Nat
      /\ DOMAIN t = 1..(Len(s) + 1) /\ DOMAIN s = 1..Len(s)
      /\ (\A i \in 1..Len(s) : t[i] = s[i]) /\ t[Len(s) + 1] = n
  OBVIOUS
<1> HIDE DEF t
<1>2. Ok(t) = IF n.approved THEN Ok(s) \cup {Len(s) + 1} ELSE Ok(s)
  BY <1>1 DEF Ok
<1> QED BY <1>1, <1>2 DEF t

\* A refused intent adds nothing, an approved one its quantity, its notional and one.
LEMMA RefusedAddsNothing ==
  ASSUME NEW s \in Seq(IntentRecords), NEW n \in IntentRecords, ~n.approved
  PROVE  LET t == Append(s, n)
         IN  Ok(t) = Ok(s) /\ Quantities(t) = Quantities(s) /\ Notionals(t) = Notionals(s)
<1> DEFINE t == Append(s, n)
<1>1. Ok(t) = Ok(s) /\ \A i \in 1..Len(s) : t[i] = s[i]
  BY OkAppend
<1>2. Ok(s) \subseteq 1..Len(s)
  BY OkType
<1> HIDE DEF t
<1>3. Quantities(t) = Quantities(s) /\ Notionals(t) = Notionals(s)
  BY <1>1, <1>2 DEF Quantities, Notionals
<1> QED BY <1>1, <1>3 DEF t

LEMMA ApprovedAddsUp ==
  ASSUME NEW s \in Seq(IntentRecords), NEW n \in IntentRecords, n.approved
  PROVE  LET t == Append(s, n)
         IN  /\ Ok(t) = Ok(s) \cup {Len(s) + 1}
             /\ Sum(Quantities(t), Ok(t)) = Sum(Quantities(s), Ok(s)) + n.quantity
             /\ Sum(Notionals(t), Ok(t)) = Sum(Notionals(s), Ok(s)) + n.notional
             /\ Cardinality(Ok(t)) = Cardinality(Ok(s)) + 1
<1> DEFINE t == Append(s, n)
           k == Len(s) + 1
           S == Ok(s)
<1>1. /\ t \in Seq(IntentRecords) /\ Ok(t) = S \cup {k} /\ t[k] = n
      /\ \A i \in 1..Len(s) : t[i] = s[i]
  BY OkAppend
<1>2. S \subseteq 1..Len(s) /\ IsFiniteSet(S) /\ \A i \in S : Quantities(s)[i] \in Int /\ Notionals(s)[i] \in Int
  BY OkType
<1>3. k \notin S /\ Len(s) \in Nat
  BY <1>2
<1>4. \A i \in Ok(t) : Quantities(t)[i] \in Int /\ Notionals(t)[i] \in Int
  <2> HIDE DEF t
  <2> QED BY <1>1, OkType
<1> HIDE DEF t, k
<1>5. \A i \in S : t[i] = s[i]
  BY <1>1, <1>2
<1>6. Quantities(t)[k] = n.quantity /\ Notionals(t)[k] = n.notional
  BY <1>1 DEF Quantities, Notionals
<1>7. \A i \in S : Quantities(t)[i] = Quantities(s)[i] /\ Notionals(t)[i] = Notionals(s)[i]
  BY <1>1, <1>5 DEF Quantities, Notionals
<1>8. Cardinality(Ok(t)) = Cardinality(S) + 1
  <2> HIDE DEF S
  <2> QED BY <1>1, <1>2, <1>3, FS_AddElement
<1> DEFINE f == Quantities(s)
           f2 == Quantities(t)
           h == Notionals(s)
           h2 == Notionals(t)
<1> HIDE DEF S, f, f2, h, h2
<1>9. \A i \in S \cup {k} : f2[i] \in Int /\ h2[i] \in Int
  BY <1>1, <1>4 DEF f2, h2
<1>10. Sum(f2, S \cup {k}) = f2[k] + Sum(f2, S) /\ Sum(h2, S \cup {k}) = h2[k] + Sum(h2, S)
  BY <1>2, <1>3, <1>9, SumAdd
<1>11. \A i \in S : f[i] \in Int /\ f[i] = f2[i] /\ h[i] \in Int /\ h[i] = h2[i]
  BY <1>2, <1>7 DEF f, f2, h, h2
<1>12. Sum(f, S) = Sum(f2, S) /\ Sum(h, S) = Sum(h2, S) /\ Sum(f, S) \in Int /\ Sum(h, S) \in Int
  BY <1>2, <1>11, SumSame, SumType
<1>13. f2[k] \in Int /\ h2[k] \in Int
  BY <1>9
<1>14. Sum(f2, S \cup {k}) = Sum(f, S) + f2[k] /\ Sum(h2, S \cup {k}) = Sum(h, S) + h2[k]
  BY <1>10, <1>12, <1>13
<1> QED BY <1>1, <1>6, <1>8, <1>14 DEF t, k, S, f, f2, h, h2

-----------------------------------------------------------------------------
(* The loop over the levels a trade crosses *)

\* Up to level l: one intent for each level crossed, the approved ones decided.
BatchIntents(acc, l, crossed) ==
  /\ acc.intents \in Seq(IntentRecords)
  /\ decided \subseteq acc.decided /\ acc.decided \subseteq decided \cup crossed
  /\ \A i \in DOMAIN acc.intents :
       /\ acc.intents[i].level \in crossed /\ acc.intents[i].level <= l
       /\ GenuineIntent(acc.intents[i])
       /\ acc.intents[i].approved => SafeIntent(acc.intents[i]) /\ acc.intents[i].level \in acc.decided
  /\ \A i, j \in DOMAIN acc.intents : acc.intents[i].level = acc.intents[j].level => i = j

\* The risk state carried along is the one the trade began with and all its approvals.
BatchTotals(acc, risk) ==
  LET s == acc.intents
      r == acc.risk
  IN  /\ r \in RiskRecords
      /\ r.quantity = risk.quantity + Sum(Quantities(s), Ok(s))
      /\ r.notional = risk.notional + Sum(Notionals(s), Ok(s))
      /\ r.activeLevels = risk.activeLevels + Cardinality(Ok(s))
      /\ r.requests = risk.requests + Cardinality(Ok(s))
      /\ Ok(s) # {} => /\ r.quantity <= Limits.maxQuantity /\ r.notional <= Limits.maxNotional
                       /\ r.activeLevels <= Limits.maxActiveLevels /\ r.requests <= Limits.maxRequests

\* A total that is carried along: what was there, and the sum so far.
LEMMA Accumulates ==
  ASSUME NEW was \in Int, NEW sum \in Int, NEW more \in Int
  PROVE  (was + sum) + more = was + (sum + more)
OBVIOUS

\* One iteration, for a level that is crossed.
LEMMA LevelIsDecided ==
  ASSUME NEW price \in Int, NEW g \in Int, NEW risk \in RiskRecords, NEW acc,
         NEW crossed \in SUBSET LevelIds, NEW l \in crossed,
         previous \in Int, previousGeneration = g,
         previous > Entry[l], price <= Entry[l],
         BatchIntents(acc, l - 1, crossed), BatchTotals(acc, risk)
  PROVE  /\ BatchIntents(DecideLevel(acc, l, price, g), l, crossed)
         /\ BatchTotals(DecideLevel(acc, l, price, g), risk)
<1> DEFINE n == Evaluate(l, acc.risk, price, g)
           s == acc.intents
           t == Append(s, n)
           next == DecideLevel(acc, l, price, g)
           r == acc.risk
           r2 == next.risk
<1>0. l \in LevelIds /\ l \in Int /\ r \in RiskRecords /\ s \in Seq(IntentRecords)
  BY LevelsAreNumbers DEF BatchTotals, BatchIntents
<1>1. /\ n \in IntentRecords /\ n.level = l /\ GenuineIntent(n) /\ (n.approved => SafeIntent(n))
      /\ n.notional = n.quantity * n.entry
  BY <1>0, EvaluateIntent
<1>2. n.approved => /\ r.quantity + n.quantity <= Limits.maxQuantity
                    /\ r.notional + n.notional <= Limits.maxNotional
                    /\ r.activeLevels < Limits.maxActiveLevels
                    /\ r.requests < Limits.maxRequests
  BY <1>0, EvaluateIntent
<1>3. /\ next.intents = t
      /\ next.decided = IF n.approved THEN acc.decided \cup {l} ELSE acc.decided
      /\ r2 = IF n.approved THEN AfterApproval(r, n) ELSE r
  BY DEF DecideLevel
<1> HIDE DEF n
<1>4. /\ t \in Seq(IntentRecords) /\ Len(t) = Len(s) + 1 /\ t[Len(s) + 1] = n
      /\ \A i \in 1..Len(s) : t[i] = s[i]
  BY <1>0, <1>1, OkAppend
<1>5. Len(s) \in Nat /\ DOMAIN s = 1..Len(s) /\ DOMAIN t = 1..(Len(s) + 1)
  BY <1>0, <1>4
<1> HIDE DEF next, t
<1>6. BatchIntents(next, l, crossed)
  <2>1. /\ decided \subseteq next.decided /\ next.decided \subseteq decided \cup crossed
        /\ acc.decided \subseteq next.decided
    BY <1>3 DEF BatchIntents
  <2>2. ASSUME NEW i \in DOMAIN t
        PROVE  /\ t[i].level \in crossed /\ t[i].level <= l
               /\ GenuineIntent(t[i])
               /\ t[i].approved => SafeIntent(t[i]) /\ t[i].level \in next.decided
    <3>1. CASE i = Len(s) + 1
      BY <1>0, <1>1, <1>3, <1>4, <3>1
    <3>2. CASE i \in 1..Len(s)
      <4>1. /\ s[i].level \in crossed /\ s[i].level <= l - 1 /\ GenuineIntent(s[i])
            /\ s[i].approved => SafeIntent(s[i]) /\ s[i].level \in acc.decided
        BY <1>5, <3>2 DEF BatchIntents
      <4>2. s[i].level \in Int
        BY <4>1, LevelsAreNumbers
      <4> QED BY <1>0, <1>4, <2>1, <3>2, <4>1, <4>2
    <3> QED BY <1>5, <3>1, <3>2
  <2>3. ASSUME NEW i \in DOMAIN t, NEW j \in DOMAIN t, t[i].level = t[j].level PROVE i = j
    <3>1. \A k \in 1..Len(s) : s[k].level \in Int /\ s[k].level <= l - 1
      BY <1>5, LevelsAreNumbers DEF BatchIntents
    <3>2. ASSUME NEW k \in 1..Len(s) PROVE t[k].level # l
      <4>1. t[k] = s[k] /\ s[k].level \in Int /\ s[k].level <= l - 1
        BY <1>4, <3>1
      <4> DEFINE sk == s[k].level
      <4>2. sk # l
        <5>1. sk \in Int /\ sk <= l - 1
          BY <4>1
        <5> HIDE DEF sk
        <5> QED BY <1>0, <5>1
      <4> QED BY <4>1, <4>2
    <3>3. \A k \in DOMAIN t : k = Len(s) + 1 \/ k \in 1..Len(s)
      BY <1>5
    <3>4. CASE i \in 1..Len(s) /\ j \in 1..Len(s)
      BY <1>4, <1>5, <2>3, <3>4 DEF BatchIntents
    <3>5. CASE i = Len(s) + 1 \/ j = Len(s) + 1
      BY <1>1, <1>4, <2>3, <3>2, <3>3, <3>5
    <3> QED BY <3>3, <3>4, <3>5
  <2> QED BY <1>3, <1>4, <2>1, <2>2, <2>3 DEF BatchIntents
<1>7. BatchTotals(next, risk)
  <2>1. CASE ~n.approved
    <3>1. Ok(t) = Ok(s) /\ Quantities(t) = Quantities(s) /\ Notionals(t) = Notionals(s) /\ r2 = r
      BY <1>0, <1>1, <1>3, <2>1, RefusedAddsNothing DEF t
    <3> QED BY <1>3, <3>1 DEF BatchTotals
  <2>2. CASE n.approved
    <3>1. /\ Ok(t) = Ok(s) \cup {Len(s) + 1}
          /\ Sum(Quantities(t), Ok(t)) = Sum(Quantities(s), Ok(s)) + n.quantity
          /\ Sum(Notionals(t), Ok(t)) = Sum(Notionals(s), Ok(s)) + n.notional
          /\ Cardinality(Ok(t)) = Cardinality(Ok(s)) + 1
      BY <1>0, <1>1, <2>2, ApprovedAddsUp DEF t
    <3>2. /\ Sum(Quantities(s), Ok(s)) \in Int /\ Sum(Notionals(s), Ok(s)) \in Int
          /\ Cardinality(Ok(s)) \in Nat
      BY <1>0, OkType
    <3>3. n.quantity \in Int /\ n.notional \in Int
      BY <1>1 DEF IntentRecords
    <3>4. /\ r.quantity \in Int /\ r.notional \in Int /\ r.activeLevels \in Int /\ r.requests \in Int
          /\ r.debt \in Nat /\ r.veto \in BOOLEAN
          /\ risk.quantity \in Int /\ risk.notional \in Int /\ risk.activeLevels \in Int /\ risk.requests \in Int
      BY <1>0 DEF RiskRecords
    <3>5. r2 = [quantity |-> r.quantity + n.quantity, notional |-> r.notional + n.notional,
                debt |-> r.debt, activeLevels |-> r.activeLevels + 1,
                requests |-> r.requests + 1, veto |-> r.veto]
      BY <1>1, <1>3, <2>2 DEF AfterApproval
    <3>6. /\ r2.quantity = r.quantity + n.quantity /\ r2.notional = r.notional + n.notional
          /\ r2.activeLevels = r.activeLevels + 1 /\ r2.requests = r.requests + 1
          /\ r2 \in RiskRecords
      BY <3>3, <3>4, <3>5 DEF RiskRecords
    <3>7. /\ r.quantity = risk.quantity + Sum(Quantities(s), Ok(s))
          /\ r.notional = risk.notional + Sum(Notionals(s), Ok(s))
          /\ r.activeLevels = risk.activeLevels + Cardinality(Ok(s))
          /\ r.requests = risk.requests + Cardinality(Ok(s))
      BY DEF BatchTotals
    <3>8. Limits.maxActiveLevels \in Nat /\ Limits.maxRequests \in Nat
      BY TriggerConstants
    <3> DEFINE a == Sum(Quantities(s), Ok(s))
               b == Sum(Notionals(s), Ok(s))
               c == Cardinality(Ok(s))
               a2 == Sum(Quantities(t), Ok(t))
               b2 == Sum(Notionals(t), Ok(t))
               c2 == Cardinality(Ok(t))
               r0 == risk
               nq == n.quantity
               nn == n.notional
    <3>0. /\ a \in Int /\ b \in Int /\ c \in Int /\ a2 = a + nq /\ b2 = b + nn /\ c2 = c + 1
          /\ nq \in Int /\ nn \in Int
          /\ r0.quantity \in Int /\ r0.notional \in Int /\ r0.activeLevels \in Int /\ r0.requests \in Int
          /\ r2.quantity = (r0.quantity + a) + nq /\ r2.notional = (r0.notional + b) + nn
          /\ r2.activeLevels = (r0.activeLevels + c) + 1 /\ r2.requests = (r0.requests + c) + 1
      BY <3>1, <3>2, <3>3, <3>4, <3>6, <3>7
    <3> HIDE DEF r2, r, s, a, b, c, a2, b2, c2, nq, nn, r0
    <3>9. r2.quantity = r0.quantity + a2 /\ r2.notional = r0.notional + b2
      BY <3>0, Accumulates
    <3>10. r2.activeLevels = r0.activeLevels + c2 /\ r2.requests = r0.requests + c2
      BY <3>0, Accumulates
    <3>11. /\ r2.quantity <= Limits.maxQuantity /\ r2.notional <= Limits.maxNotional
           /\ r2.activeLevels <= Limits.maxActiveLevels /\ r2.requests <= Limits.maxRequests
      BY <1>2, <2>2, <3>4, <3>6, <3>8
    <3> QED BY <1>3, <3>6, <3>9, <3>10, <3>11 DEF BatchTotals, r2, r0, a2, b2, c2
  <2> QED BY <2>1, <2>2
<1> QED BY <1>6, <1>7 DEF next

\* What DecideLevels unfolds, level by level.
IsLoop(f, n, price, g, risk) ==
  f = [l \in 0..n |->
         IF l = 0 THEN [intents |-> <<>>, decided |-> decided, risk |-> risk]
         ELSE IF l \in Crossed(price) THEN DecideLevel(f[l - 1], l, price, g)
         ELSE f[l - 1]]

LEMMA LoopExists ==
  ASSUME NEW n \in Nat, NEW price, NEW g, NEW risk
  PROVE  \E f : IsLoop(f, n, price, g, risk)
<1> DEFINE first == [intents |-> <<>>, decided |-> decided, risk |-> risk]
           Step(acc, l) == IF l \in Crossed(price) THEN DecideLevel(acc, l, price, g) ELSE acc
           Is(f, k) == f = [l \in 0..k |-> IF l = 0 THEN first ELSE Step(f[l - 1], l)]
           Bad == {k \in Nat : ~\E f : Is(f, k)}
<1>0. \A f : Is(f, n) <=> IsLoop(f, n, price, g, risk)
  BY DEF IsLoop
<1> HIDE DEF Step, first
<1> SUFFICES ASSUME Bad # {} PROVE FALSE
  BY <1>0
<1>1. Min(Bad) \in Bad /\ \A k \in Bad : Min(Bad) <= k
  <2>1. Bad \in SUBSET Nat
    OBVIOUS
  <2> HIDE DEF Bad
  <2> QED BY <2>1, LeastElement
<1> DEFINE m == Min(Bad)
<1> HIDE DEF Bad, m
<1>2. m \in Bad /\ \A k \in Bad : m <= k
  BY <1>1 DEF m
<1>3. m \in Nat /\ ~\E f : Is(f, m)
  BY <1>2 DEF Bad
<1>4. CASE m = 0
  <2> DEFINE f == [l \in 0..0 |-> first]
  <2>1. Is(f, 0)
    OBVIOUS
  <2> QED BY <1>3, <1>4, <2>1
<1>5. CASE m # 0
  <2>1. m - 1 \in Nat /\ m - 1 \notin Bad
    BY <1>2, <1>3, <1>5
  <2>2. PICK h : Is(h, m - 1)
    BY <2>1 DEF Bad
  <2> DEFINE f == [l \in 0..m |-> IF l = m THEN Step(h[m - 1], m) ELSE h[l]]
  <2>3. ASSUME NEW l \in 0..m PROVE f[l] = IF l = 0 THEN first ELSE Step(f[l - 1], l)
    <3>1. CASE l = m
      <4>1. f[l] = Step(h[m - 1], m) /\ f[l - 1] = h[l - 1] /\ l # 0
        BY <1>3, <1>5, <3>1
      <4> QED BY <3>1, <4>1
    <3>2. CASE l # m
      <4>1. l \in 0..m - 1 /\ f[l] = h[l] /\ (l # 0 => f[l - 1] = h[l - 1])
        BY <1>3, <3>2
      <4>2. h[l] = IF l = 0 THEN first ELSE Step(h[l - 1], l)
        BY <2>2, <4>1
      <4> QED BY <4>1, <4>2
    <3> QED BY <3>1, <3>2
  <2>4. Is(f, m)
    <3>1. f = [l \in 0..m |-> f[l]]
      OBVIOUS
    <3> HIDE DEF f
    <3> QED BY <2>3, <3>1
  <2> QED BY <1>3, <2>4
<1> QED BY <1>4, <1>5

\* The loop as a whole.
LEMMA LevelsAreDecided ==
  ASSUME NEW price \in Int, NEW g \in Int, NEW risk \in RiskRecords,
         previous \in Int, previousGeneration = g
  PROVE  /\ BatchIntents(DecideLevels(price, g, risk), LevelCount, Crossed(price))
         /\ BatchTotals(DecideLevels(price, g, risk), risk)
<1> DEFINE f == CHOOSE f : IsLoop(f, LevelCount, price, g, risk)
           crossed == Crossed(price)
           first == [intents |-> <<>>, decided |-> decided, risk |-> risk]
           Good == {l \in 0..LevelCount : BatchIntents(f[l], l, crossed) /\ BatchTotals(f[l], risk)}
<1>0. LevelCount \in Nat
  BY TriggerConstants
<1>1. IsLoop(f, LevelCount, price, g, risk)
  BY <1>0, LoopExists
<1>2. DecideLevels(price, g, risk) = f[LevelCount]
  BY DEF DecideLevels, IsLoop
<1> HIDE DEF f
<1>3. ASSUME NEW l \in 0..LevelCount
      PROVE  f[l] = IF l = 0 THEN first
                    ELSE IF l \in crossed THEN DecideLevel(f[l - 1], l, price, g) ELSE f[l - 1]
  BY <1>1, Zenon DEF IsLoop
<1>4. crossed \in SUBSET LevelIds /\ \A l \in crossed : previous > Entry[l] /\ price <= Entry[l]
  BY DEF Crossed
<1>5. 0 \in Good
  <2>1. f[0] = first /\ 0 \in 0..LevelCount
    BY <1>0, <1>3
  <2>2. first.intents = <<>> /\ first.decided = decided /\ first.risk = risk
    OBVIOUS
  <2>3. <<>> \in Seq(IntentRecords) /\ DOMAIN <<>> = {} /\ Ok(<<>>) = {}
    BY DEF Ok
  <2> HIDE DEF first
  <2>4. BatchIntents(first, 0, crossed)
    BY <2>2, <2>3 DEF BatchIntents
  <2>5. /\ risk.quantity \in Int /\ risk.notional \in Int /\ risk.activeLevels \in Int
        /\ risk.requests \in Int
    BY DEF RiskRecords
  <2>6. /\ Sum(Quantities(<<>>), {}) = 0 /\ Sum(Notionals(<<>>), {}) = 0 /\ Cardinality({}) = 0
    BY SumEmpty, FS_EmptySet
  <2>7. /\ risk.quantity = risk.quantity + 0 /\ risk.notional = risk.notional + 0
        /\ risk.activeLevels = risk.activeLevels + 0 /\ risk.requests = risk.requests + 0
    BY <2>5
  <2>8. BatchTotals(first, risk)
    BY <2>2, <2>3, <2>6, <2>7 DEF BatchTotals
  <2> QED BY <2>1, <2>4, <2>8
<1>6. ASSUME NEW l \in 1..LevelCount, l - 1 \in Good PROVE l \in Good
  <2>1. BatchIntents(f[l - 1], l - 1, crossed) /\ BatchTotals(f[l - 1], risk)
    BY <1>6
  <2>2. l \in 0..LevelCount /\ l # 0 /\ l \in Int
    BY <1>0
  <2>3. CASE l \in crossed
    <3>1. previous > Entry[l] /\ price <= Entry[l]
      BY <1>4, <2>3
    <3>2. f[l] = DecideLevel(f[l - 1], l, price, g)
      BY <1>3, <2>2, <2>3
    <3> HIDE DEF crossed
    <3>3. BatchIntents(f[l], l, crossed) /\ BatchTotals(f[l], risk)
      BY <1>4, <2>1, <2>3, <3>1, <3>2, LevelIsDecided
    <3> QED BY <2>2, <3>3
  <2>4. CASE l \notin crossed
    <3>1. f[l] = f[l - 1]
      BY <1>3, <2>2, <2>4
    <3>2. \A i \in DOMAIN f[l].intents : f[l].intents[i].level \in Int
      BY <1>4, <2>1, <3>1, LevelsAreNumbers DEF BatchIntents
    <3> HIDE DEF crossed
    <3>3. BatchIntents(f[l], l, crossed)
      BY <2>1, <2>2, <3>1, <3>2 DEF BatchIntents
    <3> QED BY <2>1, <2>2, <3>1, <3>3
  <2> QED BY <2>3, <2>4
<1>7. LevelCount \in Good
  <2>1. LevelCount \in 0..LevelCount
    BY <1>0
  <2> HIDE DEF Good
  <2> QED BY <1>0, <1>5, <1>6, <2>1, CountingUp
<1> QED BY <1>2, <1>7

-----------------------------------------------------------------------------
(* The decisions *)

SegmentOK == previous \in Int /\ segment \in Nat /\ previousGeneration = segment
DecisionsOK ==
  /\ decided \subseteq LevelIds /\ armed \in [LevelIds -> BOOLEAN]
  /\ \A l \in LevelIds : armed[l] => l \notin decided
IntentsOK ==
  /\ intents \in Seq(IntentRecords)
  /\ \A i \in DOMAIN intents :
       /\ GenuineIntent(intents[i])
       /\ intents[i].approved => SafeIntent(intents[i]) /\ intents[i].level \in decided
  /\ \A i, j \in Approved : intents[i].level = intents[j].level => i = j
BatchOK == batch.risk \in RiskRecords /\ BatchWithinLimits
CoordinatorOK ==
  /\ coordinator \in [segment : Nat, previous : Int, armed : BOOLEAN, submitted : BOOLEAN]
  /\ requests = IF coordinator.submitted THEN 1 ELSE 0

TriggerInv == SegmentOK /\ DecisionsOK /\ IntentsOK /\ BatchOK /\ CoordinatorOK

LEMMA RiskStatesAreRecords == RiskStates \subseteq RiskRecords
<1> SUFFICES ASSUME NEW r \in RiskStates PROVE r \in RiskRecords
  OBVIOUS
<1>1. r \in [quantity : Nat, notional : Nat, debt : Nat, activeLevels : Nat,
             requests : Nat, veto : BOOLEAN]
  BY TriggerConstants
<1> QED BY <1>1 DEF RiskRecords

\* What the loop leaves is within the limits.
LEMMA LoopWithinLimits ==
  ASSUME NEW acc, NEW risk \in RiskRecords, acc.intents \in Seq(IntentRecords), BatchTotals(acc, risk),
         batch' = [risk |-> risk, intents |-> acc.intents]
  PROVE  BatchOK'
<1> DEFINE s == acc.intents
<1>1. batch'.risk = risk /\ batch'.intents = s
  OBVIOUS
<1>2. DOMAIN Quantities(s) = Ok(s) /\ DOMAIN Notionals(s) = Ok(s)
  BY DEF Quantities, Notionals
<1>3. /\ SumFunction(Quantities(s)) = Sum(Quantities(s), Ok(s))
      /\ SumFunction(Notionals(s)) = Sum(Notionals(s), Ok(s))
  BY <1>2 DEF SumFunction, SumFunctionOnSet, FoldFunction, Sum
<1>4. Ok(s) # {} =>
        /\ risk.quantity + SumFunction(Quantities(s)) <= Limits.maxQuantity
        /\ risk.notional + SumFunction(Notionals(s)) <= Limits.maxNotional
        /\ risk.activeLevels + Cardinality(Ok(s)) <= Limits.maxActiveLevels
        /\ risk.requests + Cardinality(Ok(s)) <= Limits.maxRequests
  BY <1>3 DEF BatchTotals
<1>5. BatchWithinLimits'
  <2> HIDE DEF s
  <2> QED BY <1>1, <1>4 DEF BatchWithinLimits, Ok, Quantities, Notionals
<1> QED BY <1>1, <1>5 DEF BatchOK

\* The intents of a trade follow those already there: the levels it decides were
\* not decided before.
LEMMA IntentsFollow ==
  ASSUME IntentsOK, NEW acc, NEW l, NEW crossed, BatchIntents(acc, l, crossed),
         \A k \in crossed : k \notin decided,
         intents' = intents \o acc.intents, decided' = acc.decided
  PROVE  IntentsOK'
<1> DEFINE s == acc.intents
           n == Len(intents)
           t == intents \o s
<1>1. s \in Seq(IntentRecords) /\ intents \in Seq(IntentRecords)
  BY DEF BatchIntents, IntentsOK
<1>2. /\ t \in Seq(IntentRecords) /\ n \in Nat /\ Len(s) \in Nat
      /\ DOMAIN t = 1..(n + Len(s)) /\ DOMAIN intents = 1..n /\ DOMAIN s = 1..Len(s)
      /\ \A i \in 1..n : t[i] = intents[i]
      /\ \A i \in (n + 1)..(n + Len(s)) : t[i] = s[i - n]
  BY <1>1
<1> HIDE DEF n, t
<1>3. \A i \in DOMAIN t : i \in 1..n \/ (i \in (n + 1)..(n + Len(s)) /\ i - n \in DOMAIN s)
  BY <1>2
<1>4. decided \subseteq acc.decided
  BY DEF BatchIntents
<1>5. ASSUME NEW i \in DOMAIN t
      PROVE  /\ GenuineIntent(t[i])
             /\ t[i].approved => SafeIntent(t[i]) /\ t[i].level \in acc.decided
  <2>1. CASE i \in 1..n
    BY <1>2, <1>4, <2>1 DEF IntentsOK
  <2>2. CASE i \in (n + 1)..(n + Len(s)) /\ i - n \in DOMAIN s
    BY <1>2, <2>2 DEF BatchIntents
  <2> QED BY <1>3, <2>1, <2>2
<1>6. ASSUME NEW i \in DOMAIN t, NEW j \in DOMAIN t, t[i].approved, t[j].approved,
             t[i].level = t[j].level
      PROVE  i = j
  <2>1. \A k \in 1..n : t[k].approved => t[k].level \in decided
    BY <1>2 DEF IntentsOK
  <2>2. \A k \in (n + 1)..(n + Len(s)) : k - n \in DOMAIN s => t[k].level \notin decided
    BY <1>2 DEF BatchIntents
  <2>3. CASE i \in 1..n /\ j \in 1..n
    <3>1. i \in Approved /\ j \in Approved /\ intents[i].level = intents[j].level
      BY <1>2, <1>6, <2>3 DEF Approved
    <3> QED BY <3>1 DEF IntentsOK
  <2>4. CASE (i \in (n + 1)..(n + Len(s)) /\ i - n \in DOMAIN s) /\ (j \in (n + 1)..(n + Len(s)) /\ j - n \in DOMAIN s)
    <3>1. i - n = j - n
      BY <1>2, <1>6, <2>4 DEF BatchIntents
    <3> QED BY <1>2, <2>4, <3>1
  <2> QED BY <1>3, <1>6, <2>1, <2>2, <2>3, <2>4
<1>7. intents' = t /\ decided' = acc.decided
  BY DEF t
<1>8. \A i, j \in Approved' : intents'[i].level = intents'[j].level => i = j
  BY <1>6, <1>7 DEF Approved
<1> QED BY <1>2, <1>5, <1>7, <1>8 DEF IntentsOK

\* The shadow's handling of a healthy trade.
LEMMA ShadowKeeps ==
  ASSUME TriggerInv, NEW price \in Prices, NEW g \in Nat \ {0}, NEW risk \in RiskStates,
         ShadowOnTrigger(price, g, risk),
         previousGeneration' = IF g < segment THEN previousGeneration ELSE g
  PROVE  SegmentOK' /\ DecisionsOK' /\ IntentsOK' /\ BatchOK'
<1>0. price \in Int /\ risk \in RiskRecords
  BY TriggerConstants, RiskStatesAreRecords
<1>1. CASE segment = None \/ g > segment
  <2>1. /\ segment' = g /\ previous' = price
        /\ armed' = [l \in LevelIds |-> l \notin decided /\ price >= Entry[l]]
        /\ UNCHANGED <<decided, intents, batch>>
    BY <1>1 DEF ShadowOnTrigger, ResetSegment
  <2>2. SegmentOK'
    BY <1>0, <1>1, <2>1 DEF SegmentOK, TriggerInv, None
  <2>3. DecisionsOK'
    BY <2>1 DEF DecisionsOK, TriggerInv
  <2>4. IntentsOK' /\ BatchOK'
    BY <2>1 DEF IntentsOK, BatchOK, TriggerInv, Approved, BatchWithinLimits
  <2> QED BY <2>2, <2>3, <2>4
<1>2. CASE ~(segment = None \/ g > segment) /\ g < segment
  <2>1. UNCHANGED <<previous, segment, armed, decided, intents, batch>>
    BY <1>2 DEF ShadowOnTrigger, shadowVars
  <2> QED BY <1>2, <2>1 DEF SegmentOK, DecisionsOK, IntentsOK, BatchOK, TriggerInv, Approved, BatchWithinLimits
<1>3. CASE ~(segment = None \/ g > segment) /\ ~(g < segment)
  <2> DEFINE result == DecideLevels(price, g, risk)
  <2>1. /\ armed' = [l \in LevelIds |-> ArmedBy(price)[l] /\ l \notin Crossed(price)]
        /\ previous' = price /\ decided' = result.decided
        /\ intents' = intents \o result.intents
        /\ batch' = [risk |-> risk, intents |-> result.intents]
        /\ segment' = segment
    BY <1>3 DEF ShadowOnTrigger
  <2>2. g = segment /\ previousGeneration = g /\ previous \in Int
    BY <1>3 DEF TriggerInv, SegmentOK
  <2>3. BatchIntents(result, LevelCount, Crossed(price)) /\ BatchTotals(result, risk)
    BY <1>0, <2>2, LevelsAreDecided
  <2> HIDE DEF result
  <2>4. \A l \in LevelIds : ArmedBy(price)[l] \in BOOLEAN /\ (ArmedBy(price)[l] => l \notin decided)
    BY DEF ArmedBy, TriggerInv, DecisionsOK
  <2>5. \A l \in Crossed(price) : l \in LevelIds /\ l \notin decided
    BY <2>4 DEF Crossed
  <2>6. SegmentOK'
    BY <1>0, <2>1, <2>2 DEF SegmentOK, TriggerInv
  <2>7. decided \subseteq result.decided /\ result.decided \subseteq decided \cup Crossed(price)
    BY <2>3 DEF BatchIntents
  <2>8. DecisionsOK'
    BY <2>1, <2>4, <2>5, <2>7 DEF DecisionsOK, TriggerInv
  <2>9. IntentsOK'
    BY <2>1, <2>3, <2>5, IntentsFollow DEF TriggerInv
  <2>10. BatchOK'
    <3>1. result.intents \in Seq(IntentRecords)
      BY <2>3 DEF BatchIntents
    <3> QED BY <1>0, <2>1, <2>3, <3>1, LoopWithinLimits
  <2> QED BY <2>6, <2>8, <2>9, <2>10
<1> QED BY <1>1, <1>2, <1>3

\* The coordinator's handling of the same trade.
LEMMA CoordinatorKeeps ==
  ASSUME CoordinatorOK, NEW price \in Prices, NEW g \in Nat \ {0}, NEW risk,
         CoordinatorOnTrigger(price, g, risk)
  PROVE  CoordinatorOK'
<1> DEFINE c == coordinator
           arming  == c.armed \/ (price >= Entry[1] /\ ~c.submitted)
           crosses == arming /\ c.previous > Entry[1] /\ price <= Entry[1]
           q       == Quantized(1, risk)
           submits == /\ crosses /\ ~c.submitted
                      /\ gateOpen /\ levelReady /\ spreadOpen
                      /\ q.accepted /\ RiskApproves(q, risk, Limits)
<1>0. price \in Int /\ c \in [segment : Nat, previous : Int, armed : BOOLEAN, submitted : BOOLEAN]
  BY TriggerConstants DEF CoordinatorOK
<1>1. submits => ~c.submitted
  OBVIOUS
<1>2. \/ /\ coordinator' = [c EXCEPT !.segment = g, !.previous = price,
                                     !.armed = ~c.submitted /\ price >= Entry[1]]
         /\ UNCHANGED requests
      \/ UNCHANGED <<coordinator, requests>>
      \/ /\ coordinator' = [c EXCEPT !.previous = price, !.armed = arming /\ ~crosses,
                                     !.submitted = c.submitted \/ submits]
         /\ requests' = IF submits THEN requests + 1 ELSE requests
  BY Zenon DEF CoordinatorOnTrigger, coordinatorVars
<1> HIDE DEF arming, crosses, submits
<1>3. CASE UNCHANGED <<coordinator, requests>>
  BY <1>3 DEF CoordinatorOK
<1>4. CASE /\ coordinator' = [c EXCEPT !.segment = g, !.previous = price,
                                       !.armed = ~c.submitted /\ price >= Entry[1]]
           /\ UNCHANGED requests
  BY <1>0, <1>4 DEF CoordinatorOK
<1>5. CASE /\ coordinator' = [c EXCEPT !.previous = price, !.armed = arming /\ ~crosses,
                                       !.submitted = c.submitted \/ submits]
           /\ requests' = IF submits THEN requests + 1 ELSE requests
  <2> DEFINE up == arming /\ ~crosses
             sent == c.submitted \/ submits
  <2>1. up \in BOOLEAN /\ sent \in BOOLEAN
    OBVIOUS
  <2>2. coordinator' = [c EXCEPT !.previous = price, !.armed = up, !.submitted = sent]
    BY <1>5
  <2>3. sent <=> c.submitted \/ submits
    OBVIOUS
  <2> HIDE DEF up, sent
  <2>4. /\ coordinator' \in [segment : Nat, previous : Int, armed : BOOLEAN, submitted : BOOLEAN]
        /\ coordinator'.submitted = sent
    BY <1>0, <2>1, <2>2
  <2>5. requests = IF c.submitted THEN 1 ELSE 0
    BY DEF CoordinatorOK
  <2>6. requests' = IF sent THEN 1 ELSE 0
    BY <1>1, <1>5, <2>3, <2>5
  <2> QED BY <2>4, <2>6 DEF CoordinatorOK
<1> QED BY <1>2, <1>3, <1>4, <1>5

-----------------------------------------------------------------------------
(* The theorems *)

LEMMA TriggerStarts == TriggerInit => TriggerInv
<1> SUFFICES ASSUME TriggerInit PROVE TriggerInv
  OBVIOUS
<1>1. SegmentOK
  BY DEF TriggerInit, SegmentOK, None
<1>2. DecisionsOK
  BY DEF TriggerInit, DecisionsOK
<1>3. IntentsOK
  <2>1. intents = <<>> /\ <<>> \in Seq(IntentRecords) /\ DOMAIN <<>> = {}
    BY DEF TriggerInit
  <2> QED BY <2>1 DEF IntentsOK, Approved
<1>4. BatchOK
  <2>1. (CHOOSE r \in RiskStates : TRUE) \in RiskStates
    BY TriggerConstants
  <2>2. batch.risk \in RiskRecords /\ batch.intents = <<>> /\ DOMAIN <<>> = {}
    BY <2>1, RiskStatesAreRecords DEF TriggerInit
  <2> QED BY <2>2 DEF BatchOK, BatchWithinLimits
<1>5. CoordinatorOK
  BY DEF TriggerInit, CoordinatorOK, None
<1> QED BY <1>1, <1>2, <1>3, <1>4, <1>5 DEF TriggerInv

LEMMA TriggerStep == TriggerInv /\ [TriggerNext]_triggerVars => TriggerInv'
<1> SUFFICES ASSUME TriggerInv, [TriggerNext]_triggerVars PROVE TriggerInv'
  OBVIOUS
<1>1. ASSUME NEW price \in Prices, NEW g \in 1..MaxTradeGeneration, NEW risk \in RiskStates,
             HealthyTrade(price, g, risk)
      PROVE  TriggerInv'
  <2>1. g \in Nat \ {0}
    BY <1>1 DEF HealthyTrade
  <2>2. SegmentOK' /\ DecisionsOK' /\ IntentsOK' /\ BatchOK'
    BY <1>1, <2>1, ShadowKeeps DEF HealthyTrade
  <2>3. CoordinatorOK'
    BY <1>1, <2>1, CoordinatorKeeps DEF HealthyTrade, TriggerInv
  <2> QED BY <2>2, <2>3 DEF TriggerInv
<1>2. CASE UNCHANGED <<shadowVars, coordinatorVars, previousGeneration>>
  BY <1>2 DEF shadowVars, coordinatorVars, TriggerInv, SegmentOK, DecisionsOK, IntentsOK, BatchOK,
              CoordinatorOK, Approved, BatchWithinLimits
<1>3. CASE UnhealthyTrade \/ TradesReconnect \/ AskedChanges \/ UNCHANGED triggerVars
  BY <1>2, <1>3 DEF UnhealthyTrade, TradesReconnect, AskedChanges, triggerVars
<1> QED BY <1>1, <1>3 DEF TriggerNext, Observe

LEMMA TriggerInvariant == TriggerSpec => []TriggerInv
  BY TriggerStarts, TriggerStep, PTL DEF TriggerSpec

\* What a trade approves, over all the levels it crosses and together with the state the
\* risk provider reported, is within the limits after rounding, and the quantity that
\* recovers a debt covers it: for every instrument, limits, levels and risk states.
THEOREM ApprovalsStayWithinLimits == TriggerSpec => []OrdersAreWithinLimits
<1>1. ASSUME TriggerInv PROVE OrdersAreWithinLimits
  <2>1. BatchWithinLimits
    BY <1>1 DEF TriggerInv, BatchOK
  <2>2. ApprovedIsSafe
    BY <1>1 DEF ApprovedIsSafe, TriggerInv, IntentsOK, Approved, SafeIntent
  <2>3. RecoveryCoversDebt
    <3> SUFFICES ASSUME NEW i \in DOMAIN intents, NEW owed \in 1..Limits.maxDebt
                 PROVE  LET q == Quantized(intents[i].level, [batch.risk EXCEPT !.debt = owed])
                            gain == q.entry - q.takeProfit
                        IN gain > 0 => /\ q.recoveryProfit >= owed
                                       /\ (q.recoveryQuantity - Instrument.qtyStep) * gain < owed
      BY DEF RecoveryCoversDebt
    <3> DEFINE risk == [batch.risk EXCEPT !.debt = owed]
    <3>1. intents[i].level \in LevelIds
      <4>1. intents \in Seq(IntentRecords)
        BY <1>1 DEF TriggerInv, IntentsOK
      <4>2. intents[i] \in IntentRecords
        BY <4>1
      <4> QED BY <4>2 DEF IntentRecords
    <3>2. risk.debt = owed /\ owed \in Nat \ {0}
      <4>1. Limits.maxDebt \in Nat
        BY TriggerConstants
      <4>2. batch.risk \in RiskRecords
        BY <1>1 DEF TriggerInv, BatchOK
      <4>3. risk.debt = owed
        BY <4>2 DEF RiskRecords
      <4> QED BY <4>1, <4>3
    <3> HIDE DEF risk
    <3>3. LET q == Quantized(intents[i].level, risk)
              gain == q.entry - q.takeProfit
          IN gain > 0 => /\ q.recoveryProfit >= owed
                         /\ (q.recoveryQuantity - Instrument.qtyStep) * gain < owed
      BY <3>1, <3>2, DebtIsCovered
    <3> QED BY <3>3 DEF risk
  <2> QED BY <2>1, <2>2, <2>3 DEF OrdersAreWithinLimits
<1> QED BY <1>1, TriggerInvariant, PTL

\* Whoever infers a crossing, the shadow, the coordinator or a loop of the demo runner,
\* infers one that happened, between two prices of one connection, and decides it once:
\* for every sequence of prices, reconnections, vetoes and unhealthy trades.
THEOREM InferredCrossingsAreGenuine == TriggerSpec /\ WatchSpec => []CrossingsAreGenuine
<1>1. TriggerInv => SegmentsAreNotJoined /\ DecidedOnce
  <2> SUFFICES ASSUME TriggerInv PROVE SegmentsAreNotJoined /\ DecidedOnce
    OBVIOUS
  <2>1. SegmentsAreNotJoined
    BY DEF SegmentsAreNotJoined, TriggerInv, IntentsOK, GenuineIntent
  <2>2. requests <= 1
    BY DEF TriggerInv, CoordinatorOK
  <2> QED BY <2>1, <2>2 DEF DecidedOnce, TriggerInv, IntentsOK
<1>2. SegmentsAreNotJoined /\ DecidedOnce /\ WatchedCrossing => CrossingsAreGenuine
  BY DEF CrossingsAreGenuine
<1> QED BY <1>1, <1>2, TriggerInvariant, LoopsReturnOnCrossings, PTL
=============================================================================
