---------------------------- MODULE BackendProofs ---------------------------
(***************************************************************************)
(* The safety of Backend for any number of tenants and any packets.        *)
(***************************************************************************)
EXTENDS Backend, SequenceTheorems, TLAPS

-----------------------------------------------------------------------------
(* Typing *)

\* A queue of packets stays one when a packet is appended or its head taken.
LEMMA QueueTyping ==
  ASSUME NEW q \in Seq(Packet)
  PROVE  /\ \A p \in Packet : Append(q, p) \in Seq(Packet)
         /\ q # <<>> => Head(q) \in Packet /\ Tail(q) \in Seq(Packet)
  OBVIOUS

\* The key of a measurement still to be worked off is a number.
LEMMA RecordTyping ==
  ASSUME TypeOK, NEW t \in Tenants, MoreRecords(t)
  PROVE  packet[t].recs[next[t]] \in Nat
<1>1. packet[t].recs \in Seq(Nat)
  BY DEF TypeOK, Packet
<1>2. next[t] \in 1 .. Len(packet[t].recs)
  BY <1>1 DEF TypeOK, MoreRecords
<1>3. QED
  BY <1>1, <1>2

LEMMA TypeStep == TypeOK /\ [Next]_vars => TypeOK'
<1> SUFFICES ASSUME TypeOK, [Next]_vars
             PROVE  TypeOK'
  OBVIOUS
<1> USE NumTenantsAssumption, NoRequestAssumption, ThreadsAssumption
    DEF TypeOK, PoolTypeOK, MapsTypeOK, ChannelsTypeOK, Tenants,
        poolVars, mapVars, arbVars, ibVars, netVars,
        channelVars, SendRequest, TakeRequest, SendResponse, TakeResponse
<1>1. ASSUME NEW t \in Tenants, ClientSend(t)
      PROVE  TypeOK'
  <2>1. PICK p \in Packets[t] : reqs' = [reqs EXCEPT ![t] = Append(@, p)]
    BY <1>1 DEF ClientSend
  <2>2. Append(reqs[t], p) \in Seq(Packet)
    BY <2>1, PacketsAssumption, QueueTyping
  <2>3. reqs' \in [Tenants -> Seq(Packet)]
    BY <2>1, <2>2
  <2>4. QED
    BY <1>1, <2>3 DEF ClientSend
<1>2. ASSUME NEW t \in Tenants, ClientReceive(t)
      PROVE  TypeOK'
  <2>1. resps[t] - 1 \in Nat
    BY <1>2 DEF ClientReceive, TakeResponse
  <2>2. resps' \in [Tenants -> Nat]
    BY <1>2, <2>1 DEF ClientReceive, TakeResponse
  <2>3. client' \in [Tenants -> {"idle", "waiting"}]
    BY <1>2 DEF ClientReceive
  <2>4. QED
    BY <1>2, <2>2, <2>3 DEF ClientReceive, TakeResponse
<1>3. ASSUME NEW t \in Tenants, IBReceive(t)
      PROVE  TypeOK'
  <2>1. Head(reqs[t]) \in Packet /\ Tail(reqs[t]) \in Seq(Packet)
    BY <1>3, QueueTyping DEF IBReceive
  <2>2. QED
    BY <1>3, <2>1 DEF IBReceive, IBGoto
<1>4. ASSUME NEW t \in Tenants, IBUpdate(t)
      PROVE  TypeOK'
  <2>1. packet[t].key \in Nat
    BY DEF Packet
  <2>2. requests' \in [Tenants -> Nat \union {NoRequest}]
    BY <1>4, <2>1 DEF IBUpdate, PoolUpdate
  <2>3. ib' \in [Tenants -> {"receive", "update", "records", "wait", "send"}]
    BY <1>4 DEF IBUpdate, IBGoto
  <2>4. next' \in [Tenants -> Nat \ {0}]
    BY <1>4 DEF IBUpdate
  <2>5. QED
    BY <1>4, <2>2, <2>3, <2>4 DEF IBUpdate, PoolUpdate
<1>5. ASSUME NEW t \in Tenants, IBAbort(t)
      PROVE  TypeOK'
  BY <1>5 DEF IBAbort
<1>6. ASSUME NEW t \in Tenants, IBRecordIdle(t)
      PROVE  TypeOK'
  <2>1. packet[t].recs[next[t]] \in Nat
    BY <1>6, RecordTyping DEF IBRecordIdle
  <2>2. keys' \in [Tenants -> SUBSET Nat] /\ UNCHANGED mutex
    BY <1>6, <2>1 DEF IBRecordIdle, UpdateIdle, AddKey
  <2>3. next' \in [Tenants -> Nat \ {0}]
    <3>1. next[t] + 1 \in Nat \ {0}
      OBVIOUS
    <3>2. next' = [next EXCEPT ![t] = next[t] + 1]
      BY <1>6 DEF IBRecordIdle
    <3>3. QED
      BY <3>1, <3>2
  <2>4. process' \in {"running", "crashed"}
    BY <1>6 DEF IBRecordIdle
  <2>5. QED
    BY <1>6, <2>2, <2>3, <2>4 DEF IBRecordIdle
<1>7. ASSUME NEW t \in Tenants, IBRecordActive(t)
      PROVE  TypeOK'
  <2>1. packet[t].recs[next[t]] \in Nat
    BY <1>7, RecordTyping DEF IBRecordActive
  <2>2. keys' \in [Tenants -> SUBSET Nat] /\ mutex' \in {t, Nobody}
    BY <1>7, <2>1 DEF IBRecordActive, UpdateActive, AddKey
  <2>3. next' \in [Tenants -> Nat \ {0}]
    <3>1. next[t] + 1 \in Nat \ {0}
      OBVIOUS
    <3>2. next' = [next EXCEPT ![t] = next[t] + 1]
      BY <1>7 DEF IBRecordActive
    <3>3. QED
      BY <3>1, <3>2
  <2>4. QED
    BY <1>7, <2>2, <2>3 DEF IBRecordActive
<1>8. ASSUME NEW t \in Tenants, IBRecorded(t)
      PROVE  TypeOK'
  BY <1>8 DEF IBRecorded, IBGoto
<1>9. ASSUME NEW t \in Tenants, IBWait(t)
      PROVE  TypeOK'
  BY <1>9 DEF IBWait, IBGoto, PoolWait
<1>10. ASSUME NEW t \in Tenants, IBSend(t)
       PROVE  TypeOK'
  <2>1. NoPacket \in Packet
    BY DEF NoPacket, Packet
  <2>2. packet' \in [Tenants -> Packet]
    BY <1>10, <2>1 DEF IBSend
  <2>3. resps' \in [Tenants -> Nat]
    BY <1>10 DEF IBSend
  <2>4. QED
    BY <1>10, <2>2, <2>3 DEF IBSend, IBGoto
<1>11. CASE ArbRetrieve
  <2>1. scan \in Tenants
    BY <1>11 DEF ArbRetrieve
  <2>2. requests' \in [Tenants -> Nat \union {NoRequest}] /\ ready' = ready
    BY <1>11, <2>1 DEF ArbRetrieve, PoolRetrieve
  <2>3. found' \in SUBSET Tenants /\ scan' \in 0 .. NumTenants
    BY <1>11, <2>1 DEF ArbRetrieve
  <2>4. QED
    BY <1>11, <2>2, <2>3 DEF ArbRetrieve
<1>12. CASE ArbScanned
  BY <1>12 DEF ArbScanned
<1>13. CASE ArbLookup
  BY <1>13 DEF ArbLookup, BeginRetrieve
<1>14. CASE ArbCopied
  BY <1>14 DEF ArbCopied, EndRetrieve
<1>15. CASE ArbLookedUp
  BY <1>15 DEF ArbLookedUp
<1>16. CASE ArbRelease
  BY <1>16 DEF ArbRelease, PoolRelease
<1>17. CASE ArbSleep
  BY <1>17 DEF ArbSleep
<1>18. CASE UNCHANGED vars
  BY <1>18 DEF vars
<1>19. QED
  BY <1>1, <1>2, <1>3, <1>4, <1>5, <1>6, <1>7, <1>8, <1>9, <1>10, <1>11,
     <1>12, <1>13, <1>14, <1>15, <1>16, <1>17, <1>18
     DEF Next, IBStep, ArbStep

\* Every state of the backend is well typed.
THEOREM TypeCorrect == Spec => []TypeOK
<1>1. Init => TypeOK
  BY NumTenantsAssumption
     DEF Init, PoolInit, MapsInit, ChannelsInit, TypeOK, PoolTypeOK, MapsTypeOK, ChannelsTypeOK, Tenants,
         NoPacket, Packet
<1>2. QED
  BY <1>1, TypeStep, PTL DEF Spec

-----------------------------------------------------------------------------
(* One request, one decision, one release *)

\* The arbiter has looked up everything it found before it releases anybody.
\* Without it ArbRelease could leave a tenant both decided upon and released.
LookupsFirst == arb = "release" => found = {}

IInv == TypeOK /\ DecisionsMatchRequests /\ NeverAborts /\ LookupsFirst

LEMMA IInvStep == IInv /\ [Next]_vars => IInv'
<1> SUFFICES ASSUME IInv, [Next]_vars
             PROVE  DecisionsMatchRequests' /\ NeverAborts' /\ LookupsFirst'
  BY TypeStep DEF IInv
<1> USE NoRequestAssumption
    DEF IInv, TypeOK, PoolTypeOK, MapsTypeOK, ChannelsTypeOK,
        DecisionsMatchRequests, NeverAborts, LookupsFirst, Pending, Deciding,
        poolVars, mapVars, arbVars, ibVars, netVars,
        channelVars, SendRequest, TakeRequest, SendResponse, TakeResponse
<1> DEFINE Goal == DecisionsMatchRequests' /\ NeverAborts' /\ LookupsFirst'
<1>1. ASSUME NEW t \in Tenants, ClientSend(t)
      PROVE  Goal
  BY <1>1 DEF ClientSend
<1>2. ASSUME NEW t \in Tenants, ClientReceive(t)
      PROVE  Goal
  BY <1>2 DEF ClientReceive
<1>3. ASSUME NEW t \in Tenants, IBReceive(t)
      PROVE  Goal
  BY <1>3 DEF IBReceive, IBGoto
<1>4. ASSUME NEW t \in Tenants, IBUpdate(t)
      PROVE  Goal
  \* Nothing is left of the tenant's last request, so posting this one makes
  \* it the only stage the tenant is at.
  <2>1. ~Deciding(t) /\ ~ready[t]
    BY <1>4 DEF IBUpdate, IBGoto
  <2>2. QED
    BY <1>4, <2>1 DEF IBUpdate, IBGoto, PoolUpdate
<1>5. ASSUME NEW t \in Tenants, IBAbort(t)
      PROVE  Goal
  \* A thread at update has no entry in the pool.
  BY <1>5 DEF IBAbort
<1>6. ASSUME NEW t \in Tenants, IBRecordIdle(t)
      PROVE  Goal
  BY <1>6 DEF IBRecordIdle
<1>7. ASSUME NEW t \in Tenants, IBRecordActive(t)
      PROVE  Goal
  BY <1>7 DEF IBRecordActive
<1>8. ASSUME NEW t \in Tenants, IBRecorded(t)
      PROVE  Goal
  BY <1>8 DEF IBRecorded, IBGoto
<1>9. ASSUME NEW t \in Tenants, IBWait(t)
      PROVE  Goal
  BY <1>9 DEF IBWait, IBGoto, PoolWait
<1>10. ASSUME NEW t \in Tenants, IBSend(t)
       PROVE  Goal
  BY <1>10 DEF IBSend, IBGoto
<1>11. CASE ArbRetrieve
  \* Only a tenant whose entry was there moves on, and its entry is gone.
  <2>1. scan \in Tenants
    BY <1>11, NumTenantsAssumption DEF ArbRetrieve, Tenants
  <2>2. Retrieved(scan) > 0 => Pending(scan)
    BY <2>1 DEF Retrieved
  <2>3. QED
    BY <1>11, <2>1, <2>2 DEF ArbRetrieve, PoolRetrieve
<1>12. CASE ArbScanned
  BY <1>12 DEF ArbScanned
<1>13. CASE ArbLookup
  BY <1>13 DEF ArbLookup
<1>14. CASE ArbCopied
  \* The tenant stays in one of the two sets.
  <2>1. found' \union respond' = found \union respond
    BY <1>14 DEF ArbCopied, First
  <2>2. \A t \in Tenants : Deciding(t)' <=> Deciding(t)
    BY <2>1
  <2>3. arb' = "lookup" /\ UNCHANGED <<requests, ready, ib, process>>
    BY <1>14 DEF ArbCopied
  <2>4. QED
    BY <2>2, <2>3
<1>15. CASE ArbLookedUp
  BY <1>15 DEF ArbLookedUp
<1>16. CASE ArbRelease
  <2>1. PICK t \in Tenants : First(t, respond) /\ PoolRelease(t)
                             /\ respond' = respond \ {t}
    BY <1>16 DEF ArbRelease
  <2>2. found = {} /\ UNCHANGED <<found, ib, process, arb, requests>>
    BY <1>16, <2>1 DEF ArbRelease, PoolRelease
  <2>3. Deciding(t) /\ ~Deciding(t)'
    BY <2>1, <2>2 DEF First
  <2>4. ready' = [ready EXCEPT ![t] = TRUE]
    BY <2>1 DEF PoolRelease
  <2>5. \A u \in Tenants \ {t} : /\ Deciding(u)' <=> Deciding(u)
                                 /\ ready'[u] = ready[u]
    BY <2>1, <2>2, <2>4
  <2>6. DecisionsMatchRequests'
    <3> SUFFICES ASSUME NEW u \in Tenants
                 PROVE  /\ Pending(u)' \/ Deciding(u)' \/ ready'[u]
                              => ib'[u] \in {"records", "wait"}
                        /\ ~(Pending(u)' /\ Deciding(u)')
                        /\ ~(Pending(u)' /\ ready'[u])
                        /\ ~(Deciding(u)' /\ ready'[u])
      OBVIOUS
    <3>1. CASE u = t
      BY <3>1, <2>2, <2>3
    <3>2. CASE u # t
      BY <3>2, <2>2, <2>5
    <3>3. QED
      BY <3>1, <3>2
  <2>7. QED
    BY <2>2, <2>6
<1>17. CASE ArbSleep
  BY <1>17 DEF ArbSleep
<1>18. CASE UNCHANGED vars
  BY <1>18 DEF vars
<1>19. QED
  BY <1>1, <1>2, <1>3, <1>4, <1>5, <1>6, <1>7, <1>8, <1>9, <1>10, <1>11,
     <1>12, <1>13, <1>14, <1>15, <1>16, <1>17, <1>18
     DEF Next, IBStep, ArbStep

LEMMA InvariantHolds == ZeroedSpec => []IInv
<1>1. ZeroedInit => TypeOK
  BY NumTenantsAssumption
     DEF ZeroedInit, Init, PoolInit, MapsInit, ChannelsInit, TypeOK, PoolTypeOK, MapsTypeOK, ChannelsTypeOK,
         Tenants, NoPacket, Packet
<1>2. ZeroedInit => IInv
  BY <1>1 DEF ZeroedInit, Init, PoolInit, IInv, DecisionsMatchRequests,
              NeverAborts, LookupsFirst, Pending, Deciding
<1>3. QED
  BY <1>2, IInvStep, PTL DEF ZeroedSpec

\* Pool entry, place in the arbiter's round and permit are never two at a time
\* for a tenant, and none outlives the request it belongs to.
THEOREM DecisionsCorrect == ZeroedSpec => []DecisionsMatchRequests
  BY InvariantHolds, PTL DEF IInv

\* With the flags down at the start, the assertion in RequestPool::update
\* (RequestPool.cpp:40) cannot fail.
THEOREM AssertionHolds == ZeroedSpec => []NeverAborts
  BY InvariantHolds, PTL DEF IInv

-----------------------------------------------------------------------------
(* The tenant's message *)

LEMMA QueueLength ==
  ASSUME NEW q \in Seq(Packet)
  PROVE  /\ Len(q) \in Nat
         /\ \A p \in Packet : Len(Append(q, p)) = Len(q) + 1
         /\ q # <<>> => Len(q) > 0 /\ Len(Tail(q)) = Len(q) - 1
  OBVIOUS

LEMMA MessageStep ==
  TypeOK /\ OneMessageUnderWay /\ [Next]_vars => OneMessageUnderWay'
<1> SUFFICES ASSUME TypeOK, OneMessageUnderWay, [Next]_vars,
                    NEW u \in Tenants
             PROVE  Len(reqs'[u]) + (IF ib'[u] = "receive" THEN 0 ELSE 1) + resps'[u]
                      = (IF client'[u] = "idle" THEN 0 ELSE 1)
  BY DEF OneMessageUnderWay
<1> DEFINE Goal ==
      Len(reqs'[u]) + (IF ib'[u] = "receive" THEN 0 ELSE 1) + resps'[u]
        = (IF client'[u] = "idle" THEN 0 ELSE 1)
<1>a. Len(reqs[u]) + (IF ib[u] = "receive" THEN 0 ELSE 1) + resps[u]
        = (IF client[u] = "idle" THEN 0 ELSE 1)
  BY DEF OneMessageUnderWay
<1>b. Len(reqs[u]) \in Nat /\ resps[u] \in Nat
  BY QueueLength DEF TypeOK, ChannelsTypeOK
<1> USE DEF TypeOK, ChannelsTypeOK, poolVars, mapVars, arbVars, ibVars, netVars,
        channelVars, SendRequest, TakeRequest, SendResponse, TakeResponse
<1>1. ASSUME NEW t \in Tenants, ClientSend(t)
      PROVE  Goal
  <2>1. PICK p \in Packets[t] : reqs' = [reqs EXCEPT ![t] = Append(@, p)]
    BY <1>1 DEF ClientSend
  <2>2. Len(Append(reqs[t], p)) = Len(reqs[t]) + 1
    BY <2>1, PacketsAssumption, QueueLength
  <2>3. CASE u = t
    <3>1. Len(reqs'[u]) = Len(reqs[u]) + 1
      BY <2>1, <2>2, <2>3
    <3>2. client[u] = "idle" /\ client'[u] = "waiting" /\ UNCHANGED <<ib, resps>>
      BY <1>1, <2>3 DEF ClientSend
    <3>3. QED
      BY <1>a, <1>b, <3>1, <3>2
  <2>4. CASE u # t
    BY <1>1, <1>a, <2>1, <2>4 DEF ClientSend
  <2>5. QED
    BY <2>3, <2>4
<1>2. ASSUME NEW t \in Tenants, ClientReceive(t)
      PROVE  Goal
  BY <1>2, <1>a, <1>b DEF ClientReceive
<1>3. ASSUME NEW t \in Tenants, IBReceive(t)
      PROVE  Goal
  <2>1. Len(Tail(reqs[t])) = Len(reqs[t]) - 1
    BY <1>3, QueueLength DEF IBReceive
  <2>2. CASE u = t
    <3>1. Len(reqs'[u]) = Len(reqs[u]) - 1
      BY <1>3, <2>1, <2>2 DEF IBReceive
    <3>2. ib[u] = "receive" /\ ib'[u] = "update" /\ UNCHANGED <<client, resps>>
      BY <1>3, <2>2 DEF IBReceive, IBGoto
    <3>3. QED
      BY <1>a, <1>b, <3>1, <3>2
  <2>3. CASE u # t
    BY <1>3, <1>a, <2>3 DEF IBReceive, IBGoto
  <2>4. QED
    BY <2>2, <2>3
<1>4. ASSUME NEW t \in Tenants, IBUpdate(t)
      PROVE  Goal
  BY <1>4, <1>a DEF IBUpdate, IBGoto
<1>5. ASSUME NEW t \in Tenants,
             IBAbort(t) \/ IBRecordIdle(t) \/ IBRecordActive(t)
      PROVE  Goal
  BY <1>5, <1>a DEF IBAbort, IBRecordIdle, IBRecordActive
<1>6. ASSUME NEW t \in Tenants, IBRecorded(t)
      PROVE  Goal
  BY <1>6, <1>a DEF IBRecorded, IBGoto
<1>7. ASSUME NEW t \in Tenants, IBWait(t)
      PROVE  Goal
  BY <1>7, <1>a DEF IBWait, IBGoto
<1>8. ASSUME NEW t \in Tenants, IBSend(t)
      PROVE  Goal
  BY <1>8, <1>a, <1>b DEF IBSend, IBGoto
<1>9. CASE ArbStep
  BY <1>9, <1>a DEF ArbStep, ArbRetrieve, ArbScanned, ArbLookup, ArbCopied,
                    ArbLookedUp, ArbRelease, ArbSleep
<1>10. CASE UNCHANGED vars
  BY <1>10, <1>a DEF vars
<1>11. QED
  BY <1>1, <1>2, <1>3, <1>4, <1>5, <1>6, <1>7, <1>8, <1>9, <1>10
     DEF Next, IBStep

\* Whatever the flags held at the start, a tenant's request or response is in
\* exactly one of the two queues or with its thread.
THEOREM MessageCorrect == Spec => []OneMessageUnderWay
<1>1. Init => OneMessageUnderWay
  BY DEF Init, ChannelsInit, OneMessageUnderWay
<1>2. QED
  BY <1>1, MessageStep, TypeCorrect, PTL DEF Spec

-----------------------------------------------------------------------------
(* The measurements *)

\* No step takes a key out of a tenant's map.
LEMMA KeysGrow ==
  ASSUME TypeOK, [Next]_vars, NEW t \in Tenants
  PROVE  keys[t] \subseteq keys'[t]
<1> USE DEF TypeOK, MapsTypeOK, poolVars, mapVars, arbVars, ibVars, netVars,
        channelVars, SendRequest, TakeRequest, SendResponse, TakeResponse
<1>1. ASSUME NEW u \in Tenants, ClientSend(u) \/ ClientReceive(u)
      PROVE  UNCHANGED keys
  BY <1>1 DEF ClientSend, ClientReceive
<1>2. ASSUME NEW u \in Tenants, IBStep(u)
      PROVE  keys[t] \subseteq keys'[t]
  <2>1. CASE IBRecordIdle(u) \/ IBRecordActive(u)
    BY <2>1 DEF IBRecordIdle, UpdateIdle, IBRecordActive, UpdateActive, AddKey
  <2>2. CASE ~(IBRecordIdle(u) \/ IBRecordActive(u))
    BY <1>2, <2>2 DEF IBStep, IBReceive, IBUpdate, IBAbort, IBRecorded, IBWait, IBSend
  <2>3. QED
    BY <2>1, <2>2
<1>3. CASE ArbStep
  BY <1>3 DEF ArbStep, ArbRetrieve, ArbScanned, ArbLookup, BeginRetrieve,
              ArbCopied, EndRetrieve, ArbLookedUp, ArbRelease, ArbSleep
<1>4. CASE UNCHANGED vars
  BY <1>4 DEF vars
<1>5. QED
  BY <1>1, <1>2, <1>3, <1>4 DEF Next

\* A measurement just worked off is in its tenant's map.
LEMMA RecordAdded ==
  ASSUME TypeOK, NEW t \in Tenants, IBRecordIdle(t) \/ IBRecordActive(t)
  PROVE  packet[t].recs[next[t]] \in keys'[t]
  BY DEF TypeOK, MapsTypeOK, IBRecordIdle, UpdateIdle, IBRecordActive,
         UpdateActive, AddKey

LEMMA MeasurementsStep ==
  TypeOK /\ MeasurementsKept /\ [Next]_vars => MeasurementsKept'
<1> SUFFICES ASSUME TypeOK, MeasurementsKept, [Next]_vars,
                    NEW u \in Tenants,
                    ib'[u] \in {"records", "wait", "send"},
                    NEW i \in 1 .. Len(packet'[u].recs),
                    i < next'[u]
             PROVE  packet'[u].recs[i] \in keys'[u]
  BY DEF MeasurementsKept
<1> DEFINE Goal == packet'[u].recs[i] \in keys'[u]
\* A step that leaves u's thread where it is in its packet keeps what is there.
<1>a. ASSUME ib[u] \in {"records", "wait", "send"}, packet'[u] = packet[u],
             i < next[u]
      PROVE  Goal
  BY <1>a, KeysGrow DEF MeasurementsKept
<1> USE DEF TypeOK, ChannelsTypeOK, poolVars, mapVars, arbVars, ibVars, netVars,
        channelVars, SendRequest, TakeRequest, SendResponse, TakeResponse
<1>1. ASSUME NEW t \in Tenants, ClientSend(t) \/ ClientReceive(t)
      PROVE  Goal
  BY <1>1, <1>a DEF ClientSend, ClientReceive
<1>2. ASSUME NEW t \in Tenants, IBReceive(t)
      PROVE  Goal
  BY <1>2, <1>a DEF IBReceive, IBGoto
<1>3. ASSUME NEW t \in Tenants, IBUpdate(t)
      PROVE  Goal
  BY <1>3, <1>a DEF IBUpdate, IBGoto
<1>4. ASSUME NEW t \in Tenants, IBAbort(t)
      PROVE  Goal
  BY <1>4, <1>a DEF IBAbort
<1>5. ASSUME NEW t \in Tenants, IBRecordIdle(t) \/ IBRecordActive(t)
      PROVE  Goal
  <2>1. UNCHANGED <<ib, packet>> /\ next' = [next EXCEPT ![t] = @ + 1]
    BY <1>5 DEF IBRecordIdle, IBRecordActive
  <2>2. CASE u = t /\ i = next[t]
    BY <1>5, <2>1, <2>2, RecordAdded
  <2>3. CASE ~(u = t /\ i = next[t])
    <3>1. i < next[u]
      BY <2>1, <2>3
    <3>2. QED
      BY <1>a, <2>1, <3>1
  <2>4. QED
    BY <2>2, <2>3
<1>6. ASSUME NEW t \in Tenants, IBRecorded(t)
      PROVE  Goal
  BY <1>6, <1>a DEF IBRecorded, IBGoto
<1>7. ASSUME NEW t \in Tenants, IBWait(t)
      PROVE  Goal
  BY <1>7, <1>a DEF IBWait, IBGoto
<1>8. ASSUME NEW t \in Tenants, IBSend(t)
      PROVE  Goal
  BY <1>8, <1>a DEF IBSend, IBGoto
<1>9. CASE ArbStep
  BY <1>9, <1>a DEF ArbStep, ArbRetrieve, ArbScanned, ArbLookup, ArbCopied,
                    ArbLookedUp, ArbRelease, ArbSleep
<1>10. CASE UNCHANGED vars
  BY <1>10, <1>a DEF vars
<1>11. QED
  BY <1>1, <1>2, <1>3, <1>4, <1>5, <1>6, <1>7, <1>8, <1>9, <1>10
     DEF Next, IBStep

\* By the time a request is answered, every measurement it brought along is in
\* the tenant's map.
THEOREM MeasurementsCorrect == Spec => []MeasurementsKept
<1>1. Init => MeasurementsKept
  BY DEF Init, MeasurementsKept
<1>2. QED
  BY <1>1, MeasurementsStep, TypeCorrect, PTL DEF Spec

-----------------------------------------------------------------------------
(* The leaked mutex *)

\* The mutex is left locked by a thread that will not come back to it.
LEMMA LeakStep ==
  ASSUME TypeOK, [Next]_vars, Leaked
  PROVE  Leaked' /\ respond' \subseteq respond
<1> USE ThreadsAssumption
    DEF Leaked, Tenants, poolVars, mapVars, arbVars, ibVars, netVars,
      channelVars, SendRequest, TakeRequest, SendResponse, TakeResponse
<1>1. ASSUME NEW t \in Tenants, ClientSend(t) \/ ClientReceive(t)
      PROVE  Leaked' /\ respond' \subseteq respond
  BY <1>1 DEF ClientSend, ClientReceive
<1>2. ASSUME NEW t \in Tenants, IBStep(t)
      PROVE  Leaked' /\ respond' \subseteq respond
  BY <1>2 DEF IBStep, IBReceive, IBUpdate, IBAbort, IBRecordIdle, UpdateIdle,
              IBRecordActive, UpdateActive, IBRecorded, IBWait, IBSend
<1>3. CASE ArbStep
  BY <1>3 DEF ArbStep, ArbRetrieve, ArbScanned, ArbLookup, BeginRetrieve,
              ArbCopied, EndRetrieve, ArbLookedUp, ArbRelease, ArbSleep
<1>4. CASE UNCHANGED vars
  BY <1>4 DEF vars
<1>5. QED
  BY <1>1, <1>2, <1>3, <1>4 DEF Next

\* Once update_active has left m_mutex locked it stays locked, and nobody is
\* added to the tenants the arbiter will release.
THEOREM LeakIsFinal == Spec => LeakStopsEveryTenant
<1>1. TypeOK /\ [Next]_vars => [Leaked => Leaked' /\ respond' \subseteq respond]_vars
  BY LeakStep
<1>2. QED
  BY <1>1, TypeCorrect, PTL DEF Spec, LeakStopsEveryTenant

-----------------------------------------------------------------------------
(* The backend implements Arbitration *)

RInv == IInv /\ OneMessageUnderWay

LEMMA PhaseUnchanged ==
  ASSUME NEW t \in Tenants,
         client'[t] = client[t],
         (resps'[t] > 0) <=> (resps[t] > 0),
         (resps'[t] = 0) <=> (resps[t] = 0),
         (ready'[t] \/ ib'[t] = "send") <=> (ready[t] \/ ib[t] = "send")
  PROVE  Phase(t)' = Phase(t)
  BY DEF Phase

LEMMA PhaseMoves ==
  ASSUME NEW t \in Tenants, NEW from, NEW to,
         Phase(t) = from, Phase(t)' = to,
         \A u \in Tenants \ {t} : Phase(u)' = Phase(u)
  PROVE  A!Advance(t, from, to)
  BY DEF A!Advance

\* Where a tenant's thread is, as the conservation of its message has it.
LEMMA WhereTheMessageIs ==
  ASSUME RInv, NEW t \in Tenants
  PROVE  /\ client[t] = "idle" =>
               reqs[t] = <<>> /\ resps[t] = 0 /\ ib[t] = "receive" /\ ~ready[t]
         /\ reqs[t] # <<>> => client[t] = "waiting" /\ resps[t] = 0
         /\ ib[t] # "receive" => client[t] = "waiting" /\ resps[t] = 0
         /\ resps[t] > 0 => resps[t] = 1 /\ client[t] = "waiting"
         /\ ib[t] = "receive" => ~ready[t]
<1> DEFINE n == Len(reqs[t])
           r == resps[t]
<1>1. n \in Nat /\ r \in Nat /\ (reqs[t] # <<>> => n > 0)
  BY QueueLength DEF RInv, IInv, TypeOK, ChannelsTypeOK
<1>2. n + (IF ib[t] = "receive" THEN 0 ELSE 1) + r
        = (IF client[t] = "idle" THEN 0 ELSE 1)
  BY DEF RInv, OneMessageUnderWay
<1>3. ready[t] => ib[t] \in {"records", "wait"}
  BY DEF RInv, IInv, DecisionsMatchRequests
<1>4. client[t] \in {"idle", "waiting"}
  BY DEF RInv, IInv, TypeOK
<1> HIDE DEF n, r
<1>5. /\ client[t] = "idle" => n = 0 /\ r = 0 /\ ib[t] = "receive"
      /\ n > 0 \/ ib[t] # "receive" => client[t] = "waiting" /\ r = 0
      /\ r > 0 => r = 1 /\ client[t] = "waiting"
  BY <1>1, <1>2, <1>4
<1>6. QED
  BY <1>1, <1>3, <1>5 DEF n, r

LEMMA ArbitrationStep ==
  ASSUME RInv, [Next]_vars
  PROVE  \/ A!Next
         \/ UNCHANGED [t \in Tenants |-> Phase(t)]
<1> USE DEF RInv, IInv, TypeOK, PoolTypeOK, ChannelsTypeOK, poolVars, mapVars, arbVars, ibVars, netVars,
        channelVars, SendRequest, TakeRequest, SendResponse, TakeResponse
<1> DEFINE Goal == A!Next \/ UNCHANGED [t \in Tenants |-> Phase(t)]
           Stutter == \A u \in Tenants : Phase(u)' = Phase(u)
<1>a. Stutter => Goal
  OBVIOUS
<1>b. ASSUME NEW t \in Tenants,
             \E step \in {<<"idle", "asked">>, <<"asked", "granted">>,
                          <<"granted", "answered">>, <<"answered", "idle">>} :
                A!Advance(t, step[1], step[2])
      PROVE  Goal
  BY <1>b DEF A!Next, A!Ask, A!Grant, A!Answer, A!Return
<1> SUFFICES Goal
  OBVIOUS
<1> HIDE DEF Goal, Stutter
<1>1. ASSUME NEW t \in Tenants, ClientSend(t)
      PROVE  Goal
  <2>1. \A u \in Tenants \ {t} : Phase(u)' = Phase(u)
    BY <1>1, PhaseUnchanged DEF ClientSend
  <2>2. Phase(t) = "idle"
    BY <1>1 DEF ClientSend, Phase
  <2>3. Phase(t)' = "asked"
    BY <1>1, WhereTheMessageIs DEF ClientSend, Phase
  <2>4. A!Advance(t, "idle", "asked")
    BY <2>1, <2>2, <2>3, PhaseMoves
  <2>5. QED
    BY <2>4, <1>b
<1>2. ASSUME NEW t \in Tenants, ClientReceive(t)
      PROVE  Goal
  <2>1. \A u \in Tenants \ {t} : Phase(u)' = Phase(u)
    BY <1>2, PhaseUnchanged DEF ClientReceive
  <2>2. Phase(t) = "answered"
    BY <1>2 DEF ClientReceive, Phase
  <2>3. Phase(t)' = "idle"
    BY <1>2 DEF ClientReceive, Phase
  <2>4. A!Advance(t, "answered", "idle")
    BY <2>1, <2>2, <2>3, PhaseMoves
  <2>5. QED
    BY <2>4, <1>b
<1>3. ASSUME NEW t \in Tenants, IBReceive(t)
      PROVE  Goal
  <2>1. Stutter
    BY <1>3, PhaseUnchanged DEF IBReceive, IBGoto, Stutter
  <2>2. QED
    BY <2>1, <1>a
<1>4. ASSUME NEW t \in Tenants, IBUpdate(t)
      PROVE  Goal
  <2>1. Stutter
    BY <1>4, PhaseUnchanged DEF IBUpdate, IBGoto, PoolUpdate, Stutter
  <2>2. QED
    BY <2>1, <1>a
<1>5. ASSUME NEW t \in Tenants,
             IBAbort(t) \/ IBRecordIdle(t) \/ IBRecordActive(t)
      PROVE  Goal
  <2>1. Stutter
    BY <1>5, PhaseUnchanged DEF IBAbort, IBRecordIdle, IBRecordActive, Stutter
  <2>2. QED
    BY <2>1, <1>a
<1>6. ASSUME NEW t \in Tenants, IBRecorded(t)
      PROVE  Goal
  <2>1. Stutter
    BY <1>6, PhaseUnchanged DEF IBRecorded, IBGoto, Stutter
  <2>2. QED
    BY <2>1, <1>a
<1>7. ASSUME NEW t \in Tenants, IBWait(t)
      PROVE  Goal
  \* The permit is gone from the gate and the thread is on its way to send.
  <2>1. ready[t] /\ ib'[t] = "send"
    BY <1>7 DEF IBWait, IBGoto, PoolWait
  <2>2. Stutter
    BY <1>7, <2>1, PhaseUnchanged DEF IBWait, IBGoto, PoolWait, Stutter
  <2>3. QED
    BY <2>2, <1>a
<1>8. ASSUME NEW t \in Tenants, IBSend(t)
      PROVE  Goal
  <2>1. \A u \in Tenants \ {t} : Phase(u)' = Phase(u)
    BY <1>8, PhaseUnchanged DEF IBSend, IBGoto
  <2>2. client[t] = "waiting" /\ resps[t] = 0
    BY <1>8, WhereTheMessageIs DEF IBSend, IBGoto
  <2>3. Phase(t) = "granted"
    BY <1>8, <2>2 DEF IBSend, IBGoto, Phase
  <2>4. client'[t] = "waiting" /\ resps'[t] = 1
    BY <1>8, <2>2 DEF IBSend
  <2>5. Phase(t)' = "answered"
    BY <2>4 DEF Phase
  <2>6. A!Advance(t, "granted", "answered")
    BY <2>1, <2>3, <2>5, PhaseMoves
  <2>7. QED
    BY <2>6, <1>b
<1>9. CASE ArbRetrieve
  <2>1. Stutter
    BY <1>9, PhaseUnchanged DEF ArbRetrieve, PoolRetrieve, Stutter
  <2>2. QED
    BY <2>1, <1>a
<1>10. CASE ArbScanned \/ ArbLookup \/ ArbCopied \/ ArbLookedUp \/ ArbSleep
  <2>1. Stutter
    BY <1>10, PhaseUnchanged
       DEF ArbScanned, ArbLookup, ArbCopied, ArbLookedUp, ArbSleep, Stutter
  <2>2. QED
    BY <2>1, <1>a
<1>11. CASE ArbRelease
  <2>1. PICK t \in Tenants : First(t, respond) /\ PoolRelease(t)
    BY <1>11 DEF ArbRelease
  <2>2. ready' = [ready EXCEPT ![t] = TRUE] /\ UNCHANGED <<ib, client, resps>>
    BY <1>11, <2>1 DEF ArbRelease, PoolRelease
  <2>3. \A u \in Tenants \ {t} : Phase(u)' = Phase(u)
    BY <2>2, PhaseUnchanged
  \* The arbiter decides only about a tenant whose thread waits for it.
  <2>4. ib[t] \in {"records", "wait"} /\ ~ready[t]
    BY <2>1 DEF First, DecisionsMatchRequests, Deciding
  <2>5. client[t] = "waiting" /\ resps[t] = 0
    BY <2>4, WhereTheMessageIs
  <2>6. Phase(t) = "asked"
    BY <2>4, <2>5 DEF Phase
  <2>7. Phase(t)' = "granted"
    BY <2>2, <2>5 DEF Phase
  <2>8. A!Advance(t, "asked", "granted")
    BY <2>3, <2>6, <2>7, PhaseMoves
  <2>9. QED
    BY <2>8, <1>b
<1>12. CASE UNCHANGED vars
  <2>1. Stutter
    BY <1>12, PhaseUnchanged DEF vars, Stutter
  <2>2. QED
    BY <2>1, <1>a
<1>13. QED
  BY <1>1, <1>2, <1>3, <1>4, <1>5, <1>6, <1>7, <1>8, <1>9, <1>10, <1>11, <1>12
     DEF Next, IBStep, ArbStep

\* With the flags down at the start, every tenant's requests go through asked,
\* granted and answered one after the other: no answer without the arbiter's
\* release for that request.
THEOREM BackendImplementsArbitration == ZeroedSpec => ImplementsArbitration
<1>1. ZeroedInit => A!Init
  BY DEF ZeroedInit, Init, A!Init, Phase
<1>2. ZeroedSpec => Spec
  BY PTL DEF ZeroedSpec, ZeroedInit, Spec
<1>3. ZeroedSpec => []RInv
  BY <1>2, InvariantHolds, MessageCorrect, PTL DEF RInv
<1>4. RInv /\ [Next]_vars => [A!Next]_[t \in Tenants |-> Phase(t)]
  BY ArbitrationStep
<1>5. QED
  BY <1>1, <1>3, <1>4, PTL DEF ZeroedSpec, ImplementsArbitration, A!Spec

=============================================================================
