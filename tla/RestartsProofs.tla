---------------------------- MODULE RestartsProofs --------------------------
(***************************************************************************)
(* Backend's safety carries over to applications that end while they wait, *)
(* for any number of tenants, packets and restarts.  An application that   *)
(* ends touches the queues and nothing of the backend's: each invariant    *)
(* comes from Backend's own lemma for Backend's steps.                     *)
(***************************************************************************)
EXTENDS Restarts, BackendProofs

\* None of Backend's own steps ends an application.
LEMMA NobodyEnds ==
  ASSUME [Next]_vars
  PROVE  UNCHANGED abandoned
<1> USE DEF poolVars, mapVars, arbVars, ibVars, netVars
<1>1. CASE ArbStep
  BY <1>1 DEF ArbStep, ArbRetrieve, ArbScanned, ArbLookup, ArbCopied, ArbLookedUp,
              ArbRelease, ArbSleep
<1>2. ASSUME NEW t \in Tenants, ClientSend(t) \/ ClientReceive(t)
      PROVE  UNCHANGED abandoned
  BY <1>2 DEF ClientSend, ClientReceive
<1>3. ASSUME NEW t \in Tenants, IBStep(t)
      PROVE  UNCHANGED abandoned
  BY <1>3 DEF IBStep, IBReceive, IBUpdate, IBAbort, IBRecordIdle, IBRecordActive,
              IBRecorded, IBWait, IBSend
<1>4. QED
  BY <1>1, <1>2, <1>3 DEF Next, vars

LEMMA BackendOrAbandon ==
  ASSUME [RestartNext]_vars
  PROVE  [Next]_vars \/ \E t \in Tenants : Abandon(t)
  BY DEF RestartNext

\* What is left of a queue whose youngest message is lost is a shorter queue.
LEMMA YoungestLost ==
  ASSUME NEW q \in Seq(Packet), q # <<>>
  PROVE  /\ SubSeq(q, 1, Len(q) - 1) \in Seq(Packet)
         /\ Len(SubSeq(q, 1, Len(q) - 1)) = Len(q) - 1
<1> DEFINE n == Len(q) - 1
<1>1. Len(q) \in Nat /\ n \in Nat
  BY QueueLength
<1>2. \A i \in 1 .. n : q[i] \in Packet
  BY <1>1
<1>3. 1 \in Int /\ n \in Int
  BY <1>1
<1> HIDE DEF n
<1>4. /\ SubSeq(q, 1, n) \in Seq(Packet)
      /\ Len(SubSeq(q, 1, n)) = IF 1 <= n THEN n - 1 + 1 ELSE 0
  BY <1>2, <1>3, SubSeqProperties, SMTT(30)
<1>5. Len(SubSeq(q, 1, n)) = n
  BY <1>1, <1>4
<1>6. QED
  BY <1>4, <1>5 DEF n

\* The two queues after an application has ended.
LEMMA AbandonQueues ==
  ASSUME TypeOK, NEW t \in Tenants, Abandon(t)
  PROVE  /\ reqs' \in [Tenants -> Seq(Packet)]
         /\ resps' \in [Tenants -> Nat]
         /\ \A u \in Tenants \ {t} : reqs'[u] = reqs[u] /\ resps'[u] = resps[u]
         /\ Len(reqs'[t]) <= Len(reqs[t]) /\ resps'[t] <= resps[t]
<1> USE DEF TypeOK, ChannelsTypeOK
<1>1. PICK n \in 0 .. resps[t] : resps' = [resps EXCEPT ![t] = n]
  BY DEF Abandon
<1>2. n \in Nat /\ n <= resps[t]
  BY <1>1
<1>3. CASE UNCHANGED reqs
  BY <1>1, <1>2, <1>3
<1>4. CASE /\ reqs[t] # <<>>
           /\ reqs' = [reqs EXCEPT ![t] = SubSeq(@, 1, Len(@) - 1)]
  <2>1. /\ SubSeq(reqs[t], 1, Len(reqs[t]) - 1) \in Seq(Packet)
        /\ Len(SubSeq(reqs[t], 1, Len(reqs[t]) - 1)) <= Len(reqs[t])
    BY <1>4, YoungestLost
  <2>2. QED
    BY <1>1, <1>2, <1>4, <2>1
<1>5. QED
  BY <1>3, <1>4 DEF Abandon

LEMMA RestartTypeStep ==
  RestartTypeOK /\ [RestartNext]_vars => RestartTypeOK'
<1> SUFFICES ASSUME RestartTypeOK, [RestartNext]_vars
             PROVE  RestartTypeOK'
  OBVIOUS
<1>1. ASSUME NEW t \in Tenants, Abandon(t)
      PROVE  TypeOK'
  BY <1>1, AbandonQueues
     DEF RestartTypeOK, Abandon, TypeOK, PoolTypeOK, MapsTypeOK, ChannelsTypeOK,
         poolVars, mapVars, arbVars, ibVars
<1>2. TypeOK'
  BY <1>1, BackendOrAbandon, TypeStep DEF RestartTypeOK
<1>3. abandoned' \in [Tenants -> Nat]
  BY BackendOrAbandon, NobodyEnds DEF RestartTypeOK, Abandon
<1>4. QED
  BY <1>2, <1>3 DEF RestartTypeOK

\* The state is well typed.
THEOREM RestartTypeCorrect == RestartSpec => []RestartTypeOK
<1>1. Init => RestartTypeOK
  BY NumTenantsAssumption
     DEF RestartTypeOK, Init, PoolInit, MapsInit, ChannelsInit, TypeOK,
         PoolTypeOK, MapsTypeOK, ChannelsTypeOK, Tenants, NoPacket, Packet
<1>2. QED
  BY <1>1, RestartTypeStep, PTL DEF RestartSpec

-----------------------------------------------------------------------------
(* One request, one decision, one release *)

LEMMA RestartIInvStep ==
  RestartTypeOK /\ IInv /\ [RestartNext]_vars => IInv'
<1> SUFFICES ASSUME RestartTypeOK, IInv, [RestartNext]_vars
             PROVE  IInv'
  OBVIOUS
<1>1. ASSUME NEW t \in Tenants, Abandon(t)
      PROVE  IInv'
  <2>1. TypeOK'
    BY RestartTypeStep DEF RestartTypeOK
  <2>2. QED
    BY <1>1, <2>1
       DEF Abandon, IInv, DecisionsMatchRequests, NeverAborts, LookupsFirst,
           Pending, Deciding, poolVars, mapVars, arbVars, ibVars
<1>2. QED
  BY <1>1, BackendOrAbandon, IInvStep

LEMMA ZeroedRestartInvariant == ZeroedRestartSpec => []IInv
<1>1. ZeroedInit => RestartTypeOK /\ IInv
  <2>1. Init => RestartTypeOK
    BY NumTenantsAssumption
       DEF RestartTypeOK, Init, PoolInit, MapsInit, ChannelsInit, TypeOK,
           PoolTypeOK, MapsTypeOK, ChannelsTypeOK, Tenants, NoPacket, Packet
  <2>2. QED
    BY <2>1 DEF ZeroedInit, RestartTypeOK, Init, PoolInit, IInv,
                DecisionsMatchRequests, NeverAborts, LookupsFirst, Pending, Deciding
<1>2. QED
  BY <1>1, RestartTypeStep, RestartIInvStep, PTL DEF ZeroedRestartSpec

\* With the flags down at the start, applications that end while they wait, and
\* the requests and responses they leave behind, cannot make the assertion of
\* RequestPool::update fail: a tenant's thread takes one request at a time.
THEOREM RestartAssertionHolds == ZeroedRestartSpec => []NeverAborts
<1>1. IInv => NeverAborts
  BY DEF IInv
<1>2. QED
  BY <1>1, ZeroedRestartInvariant, PTL

\* ... nor make a release outlive the request it was made for: what the next
\* application finds is an answer that the arbiter gave to some request.
THEOREM RestartDecisionsCorrect == ZeroedRestartSpec => []DecisionsMatchRequests
<1>1. IInv => DecisionsMatchRequests
  BY DEF IInv
<1>2. QED
  BY <1>1, ZeroedRestartInvariant, PTL

-----------------------------------------------------------------------------
(* The tenant's messages *)

Waits(u) == IF client[u] = "idle" THEN 0 ELSE 1
Handling(u) == IF ib[u] = "receive" THEN 0 ELSE 1
Under(u) == Len(reqs[u]) + Handling(u) + resps[u]

\* A step of Backend changes what is under way for a tenant exactly as it
\* changes whether its application waits.
LEMMA BackendMoves ==
  ASSUME TypeOK, [Next]_vars, NEW u \in Tenants
  PROVE  Under(u)' + Waits(u) = Under(u) + Waits(u)'
<1> DEFINE Goal == Under(u)' + Waits(u) = Under(u) + Waits(u)'
<1>b. Len(reqs[u]) \in Nat /\ resps[u] \in Nat
  BY QueueLength DEF TypeOK, ChannelsTypeOK
<1> USE DEF TypeOK, ChannelsTypeOK, poolVars, mapVars, arbVars, ibVars, netVars,
        channelVars, SendRequest, TakeRequest, SendResponse, TakeResponse
<1>s. ASSUME UNCHANGED <<reqs[u], resps[u], client[u]>>, Handling(u)' = Handling(u)
      PROVE  Goal
  <2>1. Under(u)' = Under(u)
    BY <1>s DEF Under
  <2>2. Waits(u)' = Waits(u)
    BY <1>s DEF Waits
  <2>3. QED
    BY <2>1, <2>2
<1>1. ASSUME NEW t \in Tenants, ClientSend(t)
      PROVE  Goal
  <2>1. PICK p \in Packets[t] : reqs' = [reqs EXCEPT ![t] = Append(@, p)]
    BY <1>1 DEF ClientSend
  <2>2. Len(Append(reqs[t], p)) = Len(reqs[t]) + 1
    BY <2>1, PacketsAssumption, QueueLength
  <2>3. CASE u = t
    <3>1. Len(reqs[u])' \in Nat /\ Len(reqs[u])' = Len(reqs[u]) + 1
      BY <1>b, <2>1, <2>2, <2>3
    <3>2. Waits(u) = 0 /\ Waits(u)' = 1
      BY <1>1, <2>3 DEF ClientSend, Waits
    <3>3. resps'[u] = resps[u] /\ Handling(u)' = Handling(u) /\ Handling(u) \in {0, 1}
      BY <1>1, <2>3 DEF ClientSend, Handling
    <3>4. QED
      BY <1>b, <3>1, <3>2, <3>3 DEF Under
  <2>4. CASE u # t
    BY <1>1, <1>s, <2>1, <2>4 DEF ClientSend, Handling
  <2>5. QED
    BY <2>3, <2>4
<1>2. ASSUME NEW t \in Tenants, ClientReceive(t)
      PROVE  Goal
  <2>1. CASE u = t
    <3>1. Waits(u) = 1 /\ Waits(u)' = 0
      BY <1>2, <2>1 DEF ClientReceive, Waits
    <3>2. resps'[u] \in Nat /\ resps'[u] + 1 = resps[u] /\ Len(reqs[u])' = Len(reqs[u])
      BY <1>2, <1>b, <2>1 DEF ClientReceive
    <3>3. Handling(u)' = Handling(u) /\ Handling(u) \in {0, 1}
      BY <1>2 DEF ClientReceive, Handling
    <3>4. QED
      BY <1>b, <3>1, <3>2, <3>3 DEF Under
  <2>2. CASE u # t
    BY <1>2, <1>s, <2>2 DEF ClientReceive, Handling
  <2>3. QED
    BY <2>1, <2>2
<1>3. ASSUME NEW t \in Tenants, IBReceive(t)
      PROVE  Goal
  <2>1. CASE u = t
    <3>1. Len(reqs[u])' \in Nat /\ Len(reqs[u])' + 1 = Len(reqs[u])
      BY <1>3, <1>b, <2>1, QueueLength DEF IBReceive
    <3>2. Handling(u) = 0 /\ Handling(u)' = 1
      BY <1>3, <2>1 DEF IBReceive, IBGoto, Handling
    <3>3. resps'[u] = resps[u] /\ Waits(u)' = Waits(u) /\ Waits(u) \in {0, 1}
      BY <1>3 DEF IBReceive, Waits
    <3>4. QED
      BY <1>b, <3>1, <3>2, <3>3 DEF Under
  <2>2. CASE u # t
    BY <1>3, <1>s, <2>2 DEF IBReceive, IBGoto, Handling
  <2>3. QED
    BY <2>1, <2>2
<1>4. ASSUME NEW t \in Tenants, IBUpdate(t) \/ IBRecorded(t) \/ IBWait(t)
      PROVE  Goal
  BY <1>4, <1>s DEF IBUpdate, IBRecorded, IBWait, IBGoto, Handling
<1>5. ASSUME NEW t \in Tenants,
             IBAbort(t) \/ IBRecordIdle(t) \/ IBRecordActive(t)
      PROVE  Goal
  BY <1>5, <1>s DEF IBAbort, IBRecordIdle, IBRecordActive, Handling
<1>6. ASSUME NEW t \in Tenants, IBSend(t)
      PROVE  Goal
  <2>1. CASE u = t
    <3>1. resps'[u] = resps[u] + 1 /\ reqs'[u] = reqs[u]
      BY <1>6, <2>1 DEF IBSend
    <3>2. Handling(u) = 1 /\ Handling(u)' = 0
      BY <1>6, <2>1 DEF IBSend, IBGoto, Handling
    <3>3. Waits(u)' = Waits(u) /\ Waits(u) \in {0, 1}
      BY <1>6 DEF IBSend, Waits
    <3>4. QED
      BY <1>b, <3>1, <3>2, <3>3 DEF Under
  <2>2. CASE u # t
    BY <1>6, <1>s, <2>2 DEF IBSend, IBGoto, Handling
  <2>3. QED
    BY <2>1, <2>2
<1>7. CASE ArbStep
  BY <1>7, <1>s DEF ArbStep, ArbRetrieve, ArbScanned, ArbLookup, ArbCopied,
                    ArbLookedUp, ArbRelease, ArbSleep, Handling
<1>8. CASE UNCHANGED vars
  BY <1>8, <1>s DEF vars, Handling
<1>9. QED
  BY <1>1, <1>2, <1>3, <1>4, <1>5, <1>6, <1>7, <1>8 DEF Next, IBStep

\* Whatever the flags held at the start: an application that waits has a message
\* on its way, and only those that have ended left others behind.
THEOREM RestartMessagesCorrect == RestartSpec => []AnswersShiftByRestartsOnly
<1> DEFINE Bounds(u) == Waits(u) <= Under(u) /\ Under(u) <= Waits(u) + abandoned[u]
<1>0. AnswersShiftByRestartsOnly <=> \A u \in Tenants : Bounds(u)
  BY DEF AnswersShiftByRestartsOnly, Waits, Under, Handling
<1>1. Init => AnswersShiftByRestartsOnly
  BY DEF Init, ChannelsInit, AnswersShiftByRestartsOnly
<1>2. RestartTypeOK /\ AnswersShiftByRestartsOnly /\ [RestartNext]_vars
        => AnswersShiftByRestartsOnly'
  <2> SUFFICES ASSUME RestartTypeOK, \A u \in Tenants : Bounds(u),
                      [RestartNext]_vars, NEW u \in Tenants
               PROVE  Bounds(u)'
    BY <1>0 DEF AnswersShiftByRestartsOnly, Waits, Under, Handling
  <2>1. /\ Len(reqs[u]) \in Nat /\ resps[u] \in Nat
        /\ Len(reqs[u])' \in Nat /\ resps'[u] \in Nat
        /\ abandoned[u] \in Nat
    BY QueueLength, RestartTypeStep DEF RestartTypeOK, TypeOK, ChannelsTypeOK
  <2>t. Handling(u) \in {0, 1} /\ Handling(u)' \in {0, 1}
    BY DEF Handling
  <2>2. CASE [Next]_vars /\ UNCHANGED abandoned
    <3>1. Under(u)' + Waits(u) = Under(u) + Waits(u)'
      BY <2>2, BackendMoves DEF RestartTypeOK
    <3>2. /\ Under(u) \in Nat /\ Under(u)' \in Nat
          /\ Waits(u) \in Nat /\ Waits(u)' \in Nat
      BY <2>1, <2>t DEF Under, Waits
    <3>3. QED
      BY <2>1, <2>2, <3>1, <3>2
  <2>3. ASSUME NEW t \in Tenants, Abandon(t)
        PROVE  Bounds(u)'
    <3>1. CASE u = t
      <4>1. Waits(u) = 1 /\ Waits(u)' = 0 /\ abandoned'[u] = abandoned[u] + 1
        BY <2>3, <3>1 DEF Abandon, Waits, RestartTypeOK, TypeOK
      <4>2. /\ Len(reqs[u])' <= Len(reqs[u]) /\ resps'[u] <= resps[u]
            /\ Handling(u)' = Handling(u)
        BY <2>3, <3>1, AbandonQueues DEF RestartTypeOK, Handling, Abandon, ibVars
      <4>3. Under(u) \in Nat /\ Under(u)' \in Nat
        BY <2>1, <2>t DEF Under
      <4>4. Under(u)' <= Under(u)
        BY <2>1, <2>t, <4>2 DEF Under
      <4>5. QED
        BY <2>1, <4>1, <4>3, <4>4
    <3>2. CASE u # t
      BY <2>3, <3>2, AbandonQueues
         DEF RestartTypeOK, TypeOK, Under, Waits, Handling, Abandon, ibVars
    <3>3. QED
      BY <3>1, <3>2
  <2>4. QED
    BY <2>2, <2>3, BackendOrAbandon, NobodyEnds
<1>3. QED
  BY <1>1, <1>2, RestartTypeCorrect, PTL DEF RestartSpec

-----------------------------------------------------------------------------
(* The measurements, and the leaked mutex *)

\* The measurements of an application that has ended are worked off like any
\* other's: its thread still has the packet (InterposerBackend.cpp:60-78).
THEOREM RestartMeasurementsCorrect == RestartSpec => []MeasurementsKept
<1>1. Init => MeasurementsKept
  BY DEF Init, MeasurementsKept
<1>2. ASSUME MeasurementsKept, NEW t \in Tenants, Abandon(t)
      PROVE  MeasurementsKept'
  BY <1>2 DEF Abandon, mapVars, ibVars, MeasurementsKept
<1>3. RestartTypeOK /\ MeasurementsKept /\ [RestartNext]_vars => MeasurementsKept'
  BY <1>2, BackendOrAbandon, MeasurementsStep DEF RestartTypeOK
<1>4. QED
  BY <1>1, <1>3, RestartTypeCorrect, PTL DEF RestartSpec

\* An application that ends, and one that follows it, do not unlock what
\* update_active left locked: a leak outlives every application
\* (GlobalWindow.cpp:141-149).
THEOREM RestartLeakIsFinal == RestartSpec => LeakStopsEveryTenant
<1>1. ASSUME NEW t \in Tenants, Abandon(t), Leaked
      PROVE  Leaked' /\ respond' \subseteq respond
  BY <1>1 DEF Abandon, mapVars, arbVars, Leaked
<1>2. RestartTypeOK /\ [RestartNext]_vars
        => [Leaked => Leaked' /\ respond' \subseteq respond]_vars
  BY <1>1, BackendOrAbandon, LeakStep DEF RestartTypeOK
<1>3. QED
  BY <1>2, RestartTypeCorrect, PTL DEF RestartSpec, LeakStopsEveryTenant

=============================================================================
