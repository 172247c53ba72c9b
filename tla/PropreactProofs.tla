---------------------------- MODULE PropreactProofs -------------------------
(***************************************************************************)
(* The library and the backend together, for any number of tenants, any    *)
(* grids and any batches: a released launch has its measurements stored,   *)
(* each side is to the other what the other's own specification takes it   *)
(* for, and so what was proved of each holds of the two together.          *)
(***************************************************************************)
EXTENDS Propreact, TLAPS

\* A function on the tenants.
PerTenant(f) == f = [t \in Tenants |-> f[t]]

Typing ==
    /\ PerTenant(reqs) /\ PerTenant(resps) /\ PerTenant(client)
    /\ PerTenant(ib) /\ PerTenant(packet) /\ PerTenant(next) /\ PerTenant(keys)
    /\ next[Own] \in Nat
    /\ batch.recs \in Seq(Nat) /\ mailbox.recs \in Seq(Nat)

\* The first n of the batch's measurements are in the map.
StoredUpTo(n) == \A i \in 1 .. Len(batch.recs) : i < n => batch.recs[i] \in keys[Own]
Stored == \A i \in 1 .. Len(batch.recs) : batch.recs[i] \in keys[Own]

\* The four places the message of the library and its backend can be at: none,
\* in the queue there, with the tenant's thread, in the queue back.
NoMessage ==
    /\ client[Own] = "idle"
    /\ reqs[Own] = <<>> /\ ib[Own] = "receive" /\ resps[Own] = 0
Queued ==
    /\ client[Own] = "waiting"
    /\ reqs[Own] = <<[key |-> seen.x, recs |-> batch.recs]>>
    /\ ib[Own] = "receive" /\ resps[Own] = 0
Served ==
    /\ client[Own] = "waiting"
    /\ reqs[Own] = <<>> /\ ib[Own] \in {"update", "records", "wait", "send"}
    /\ resps[Own] = 0
    /\ packet[Own].recs = batch.recs
    /\ ib[Own] = "records" => StoredUpTo(next[Own])
    /\ ib[Own] \in {"wait", "send"} => Stored
Answered ==
    /\ client[Own] = "waiting"
    /\ reqs[Own] = <<>> /\ ib[Own] = "receive" /\ resps[Own] = 1
    /\ Stored

PInv ==
    /\ Typing
    /\ NoMessage \/ Queued \/ Served \/ Answered
    /\ pred \notin {"receive", "crashed"} => NoMessage
    /\ pred = "receive" => client[Own] = "waiting"
    /\ pred \notin {"send", "receive", "crashed"} => Stored

-----------------------------------------------------------------------------
(* Lemmas *)

LEMMA OwnIsATenant == Own \in Tenants /\ B!Tenants = Tenants
  BY NumTenantsAssumption DEF Own, Tenants, B!Tenants

LEMMA OneElement ==
  ASSUME NEW p
  PROVE  Append(<<>>, p) = <<p>> /\ Head(<<p>>) = p /\ Tail(<<p>>) = <<>> /\ <<p>> # <<>>
  OBVIOUS

LEMMA InitPInv == ProgramInit => PInv
  BY OwnIsATenant, NumTenantsAssumption
     DEF ProgramInit, ZeroedInit, Init, FrontInit, ChannelsInit, B!ZeroedInit, B!Init,
         B!PoolInit, B!MapsInit, PInv, Typing, PerTenant, NoMessage, Stored, NoBatch

\* What a step leaves alone when it is another tenant's.
Mine == <<reqs[Own], resps[Own], client[Own], ib[Own], packet[Own], next[Own], keys[Own]>>

LEMMA NotMine ==
  ASSUME PInv, Typing', UNCHANGED Mine, UNCHANGED <<pred, seen, batch>>
  PROVE  PInv'
  BY DEF PInv, Mine, NoMessage, Queued, Served, Answered, Stored, StoredUpTo

-----------------------------------------------------------------------------
(* The steps *)

LEMMA LibraryStep ==
  ASSUME PInv, Library
  PROVE  PInv'
<1> USE BatchesAssumption, GridsAssumption
    DEF Library, backVars, triggerVars, mailVars, appVars, channelVars
<1>1. CASE AppStep
  <2>1. Typing'
    BY <1>1 DEF AppStep, CreateThread, CreateConnect, CreateBind, LaunchCall, LaunchWrite,
                LaunchNotify, LaunchWait, ProfileMeasure, ProfileProduce, ProfileCrash, Destroy,
                predVars, PInv, Typing, PerTenant
  <2>2. UNCHANGED <<seen, batch>> /\ UNCHANGED Mine
    BY <1>1 DEF AppStep, CreateThread, CreateConnect, CreateBind, LaunchCall, LaunchWrite,
                LaunchNotify, LaunchWait, ProfileMeasure, ProfileProduce, ProfileCrash, Destroy,
                predVars, Mine
  <2>3. pred' = pred \/ (pred = "unborn" /\ pred' = "wait")
    BY <1>1 DEF AppStep, CreateThread, CreateConnect, CreateBind, LaunchCall, LaunchWrite,
                LaunchNotify, LaunchWait, ProfileMeasure, ProfileProduce, ProfileCrash, Destroy,
                predVars, PredGoto
  <2>4. QED
    BY <2>1, <2>2, <2>3
       DEF PInv, Mine, NoMessage, Queued, Served, Answered, Stored, StoredUpTo
<1>2. CASE PredConsume
  BY <1>2 DEF PredConsume, PredGoto, PInv, Typing, PerTenant, NoMessage, NoBatch
<1>3. CASE PredCrash
  BY <1>3 DEF PredCrash, PInv, Typing, PerTenant, NoMessage, Queued, Served, Answered,
              Stored, StoredUpTo
<1>4. CASE PredWait \/ PredStartLib \/ PredEndLib \/ PredKernel \/ PredWindow \/ PredNotify
  <2>1. /\ pred \in {"wait", "read", "window", "notify"}
        /\ pred' \in {"wait", "read", "window", "notify", "consume"}
    BY <1>4 DEF PredWait, PredStartLib, PredEndLib, PredKernel, PredWindow, PredNotify,
                PredGoto
  <2>2. UNCHANGED <<batch, mailbox>>
    BY <1>4 DEF PredWait, PredStartLib, PredEndLib, PredKernel, PredWindow, PredNotify
  <2>3. UNCHANGED channelVars
    BY <1>4 DEF PredWait, PredStartLib, PredEndLib, PredKernel, PredWindow, PredNotify
  <2>4. QED
    BY <2>1, <2>2, <2>3 DEF PInv, Typing, PerTenant, NoMessage, Stored
<1>5. QED
  BY <1>1, <1>2, <1>3, <1>4 DEF PredLocal

LEMMA ExchangeStep ==
  ASSUME PInv, Exchange
  PROVE  PInv'
<1> USE OwnIsATenant
    DEF B!poolVars, B!mapVars, B!arbVars, B!ibVars, appVars, triggerVars, mailVars
<1>1. CASE PredSend /\ B!ClientSend(Own)
  <2>1. NoMessage /\ Typing
    BY <1>1 DEF PredSend, PredGoto, PInv
  <2>2. reqs' = [reqs EXCEPT ![Own] = <<[key |-> seen.x, recs |-> batch.recs]>>]
    BY <1>1, <2>1, OneElement DEF PredSend, SendRequest, NoMessage, Typing, PerTenant
  <2>3. Typing'
    BY <1>1, <2>1, <2>2 DEF PredSend, SendRequest, B!ClientSend, Typing, PerTenant
  <2>4. Queued'
    BY <1>1, <2>1, <2>2
       DEF PredSend, SendRequest, B!ClientSend, Typing, PerTenant, NoMessage, Queued
  <2>5. pred' = "receive"
    BY <1>1 DEF PredSend, PredGoto
  <2>6. QED
    BY <2>3, <2>4, <2>5 DEF PInv, Queued
<1>2. CASE PredReceive /\ B!ClientReceive(Own)
  <2>1. Answered /\ Typing
    BY <1>2 DEF PredReceive, PredGoto, TakeResponse, PInv, NoMessage, Queued, Served
  <2>2. Typing'
    BY <1>2, <2>1 DEF PredReceive, TakeResponse, B!ClientReceive, Typing, PerTenant
  <2>3. NoMessage' /\ Stored'
    BY <1>2, <2>1
       DEF PredReceive, TakeResponse, B!ClientReceive, Typing, PerTenant, Answered,
           NoMessage, Stored
  <2>4. pred' = "notify"
    BY <1>2 DEF PredReceive, PredGoto
  <2>5. QED
    BY <2>2, <2>3, <2>4 DEF PInv
<1>3. QED
  BY <1>1, <1>2 DEF Exchange

LEMMA ArbitingStep ==
  ASSUME PInv, Arbiting
  PROVE  PInv'
<1>1. UNCHANGED <<keys, ib, packet, next, client, reqs, resps>>
  BY DEF Arbiting, B!ArbStep, B!ArbRetrieve, B!ArbScanned, B!ArbLookup, B!ArbCopied,
         B!ArbLookedUp, B!ArbRelease, B!ArbSleep, B!BeginRetrieve, B!EndRetrieve,
         B!mapVars, B!ibVars, B!netVars, B!channelVars
<1>2. UNCHANGED <<pred, seen, batch, mailbox>>
  BY DEF Arbiting, frontVars, predVars, mailVars
<1>3. Typing'
  BY <1>1, <1>2 DEF PInv, Typing, PerTenant
<1>4. QED
  BY <1>1, <1>2, <1>3, NotMine DEF Mine

LEMMA OtherStep ==
  ASSUME PInv, NEW t \in Tenants \ {Own}, OtherApplication(t)
  PROVE  PInv'
<1>1. UNCHANGED <<pred, seen, batch, mailbox>>
  BY DEF OtherApplication, frontVars, predVars, mailVars
<1>2. UNCHANGED <<keys, ib, packet, next>>
  BY DEF OtherApplication, B!ClientSend, B!ClientReceive, B!mapVars, B!ibVars
<1>3. Typing'
  BY <1>1, <1>2
     DEF PInv, Typing, PerTenant, OtherApplication, B!ClientSend, B!ClientReceive,
         B!SendRequest, B!TakeResponse
<1>4. UNCHANGED <<reqs[Own], resps[Own], client[Own]>>
  BY OwnIsATenant
     DEF PInv, Typing, PerTenant, OtherApplication, B!ClientSend, B!ClientReceive,
         B!SendRequest, B!TakeResponse
<1>5. QED
  BY <1>1, <1>2, <1>3, <1>4, NotMine DEF Mine

LEMMA ServingStep ==
  ASSUME PInv, NEW t \in Tenants, Serving(t)
  PROVE  PInv'
<1> USE OwnIsATenant DEF B!poolVars, B!mapVars, B!arbVars, B!ibVars, B!netVars,
      B!channelVars, B!IBGoto, B!SendRequest, B!TakeRequest, B!SendResponse
<1>1. UNCHANGED <<pred, seen, batch, mailbox>>
  BY DEF Serving, frontVars, predVars, mailVars
<1>2. CASE t # Own
  <2>1. Typing' /\ UNCHANGED Mine
    BY <1>1, <1>2
       DEF Serving, PInv, Typing, PerTenant, Mine, B!IBStep, B!IBReceive, B!IBUpdate,
           B!IBAbort, B!IBRecordIdle, B!IBRecordActive, B!IBRecorded, B!IBWait, B!IBSend,
           B!UpdateIdle, B!UpdateActive, B!AddKey
  <2>2. QED
    BY <1>1, <2>1, NotMine
<1>3. CASE t = Own
  <2>r. CASE B!IBReceive(Own)
    <3>1. Queued
      BY <2>r DEF PInv, NoMessage, Served, Answered, B!IBReceive
    <3>2. /\ packet' = [packet EXCEPT ![Own] = [key |-> seen.x, recs |-> batch.recs]]
          /\ reqs' = [reqs EXCEPT ![Own] = <<>>]
      BY <2>r, <3>1, OneElement DEF Queued, B!IBReceive, PInv, Typing, PerTenant
    <3>3. ib' = [ib EXCEPT ![Own] = "update"] /\ UNCHANGED <<resps, client, next, keys>>
      BY <2>r DEF B!IBReceive
    <3>4. Typing'
      BY <1>1, <3>2, <3>3 DEF PInv, Typing, PerTenant
    <3>5. /\ packet'[Own] = [key |-> seen.x, recs |-> batch.recs]
          /\ reqs'[Own] = <<>> /\ ib'[Own] = "update"
      BY <3>2, <3>3 DEF PInv, Typing, PerTenant
    <3>6. Served'
      BY <1>1, <3>1, <3>3, <3>5 DEF Queued, Served
    <3>7. pred \in {"receive", "crashed"}
      BY <3>1 DEF PInv, NoMessage, Queued
    <3>8. QED
      BY <1>1, <3>4, <3>6, <3>7 DEF PInv, Served
  <2>s. CASE B!IBSend(Own)
    <3>1. Typing'
      BY <1>1, <2>s DEF PInv, Typing, PerTenant, B!IBSend
    <3>2. Served /\ pred \in {"receive", "crashed"}
      BY <2>s DEF PInv, NoMessage, Queued, Served, Answered, B!IBSend
    <3>3. Answered'
      BY <1>1, <2>s, <3>2
         DEF PInv, Typing, PerTenant, Served, Answered, Stored, B!IBSend
    <3>4. QED
      BY <1>1, <3>1, <3>2, <3>3 DEF PInv, Answered
  <2>i. CASE B!IBStep(Own) /\ ~B!IBReceive(Own) /\ ~B!IBSend(Own)
    <3>1. /\ UNCHANGED <<reqs, resps, client, packet>>
          /\ ib[Own] # "receive"
      BY <2>i DEF B!IBStep, B!IBUpdate, B!IBAbort, B!IBRecordIdle, B!IBRecordActive,
                  B!IBRecorded, B!IBWait, B!MoreRecords
    <3>2. Typing'
      BY <1>1, <2>i
         DEF PInv, Typing, PerTenant, B!IBStep, B!IBUpdate, B!IBAbort, B!IBRecordIdle,
             B!IBRecordActive, B!IBRecorded, B!IBWait, B!UpdateIdle, B!UpdateActive,
             B!AddKey
    <3>3. Served /\ pred \in {"receive", "crashed"}
      BY <3>1 DEF PInv, NoMessage, Queued, Served, Answered
    <3>4. CASE B!IBUpdate(Own)
      <4>1. ib'[Own] = "records" /\ next'[Own] = 1
        BY <3>4 DEF PInv, Typing, PerTenant, B!IBUpdate
      <4>2. Served'
        BY <1>1, <3>1, <3>3, <4>1 DEF Served, StoredUpTo, PInv, Typing
      <4>3. QED
        BY <1>1, <3>2, <3>3, <4>2 DEF PInv, Served
    <3>5. CASE B!IBRecordIdle(Own) \/ B!IBRecordActive(Own)
      <4>1. /\ ib' = ib /\ ib[Own] = "records"
            /\ next'[Own] = next[Own] + 1
            /\ keys'[Own] = keys[Own] \union {packet[Own].recs[next[Own]]}
        BY <3>5
           DEF PInv, Typing, PerTenant, B!IBRecordIdle, B!IBRecordActive, B!MoreRecords,
               B!UpdateIdle, B!UpdateActive, B!AddKey
      <4>2. StoredUpTo(next[Own])'
        <5>1. Len(batch.recs) \in Nat /\ next[Own] \in Nat /\ StoredUpTo(next[Own])
          BY <3>3, <4>1 DEF PInv, Typing, Served
        <5>2. SUFFICES ASSUME NEW i \in 1 .. Len(batch.recs), i < next[Own] + 1
                       PROVE  batch.recs[i] \in keys'[Own]
          BY <1>1, <4>1 DEF StoredUpTo
        <5>3. CASE i < next[Own]
          BY <4>1, <5>1, <5>3 DEF StoredUpTo
        <5>4. CASE i = next[Own]
          BY <3>3, <4>1, <5>4 DEF Served
        <5>5. QED
          BY <5>1, <5>2, <5>3, <5>4
      <4>3. Served'
        BY <1>1, <3>1, <3>3, <4>1, <4>2 DEF Served
      <4>4. QED
        BY <1>1, <3>2, <3>3, <4>3 DEF PInv, Served
    <3>6. CASE B!IBRecorded(Own)
      <4>1. /\ ib[Own] = "records" /\ ib'[Own] = "wait"
            /\ ~(next[Own] <= Len(batch.recs))
            /\ UNCHANGED <<keys, next>>
        BY <3>3, <3>6 DEF PInv, Typing, PerTenant, Served, B!IBRecorded, B!MoreRecords
      <4>2. Stored
        <5>1. Len(batch.recs) \in Nat /\ next[Own] \in Nat
          BY DEF PInv, Typing
        <5>2. \A i \in 1 .. Len(batch.recs) : i < next[Own]
          BY <4>1, <5>1
        <5>3. StoredUpTo(next[Own])
          BY <3>3, <4>1 DEF Served
        <5>4. QED
          BY <5>2, <5>3 DEF Stored, StoredUpTo
      <4>3. Served'
        BY <1>1, <3>1, <3>3, <4>1, <4>2 DEF Served, Stored
      <4>4. QED
        BY <1>1, <3>2, <3>3, <4>3 DEF PInv, Served
    <3>7. CASE B!IBWait(Own)
      <4>1. /\ ib[Own] = "wait" /\ ib'[Own] = "send"
            /\ UNCHANGED <<keys, next>>
        BY <3>7 DEF PInv, Typing, PerTenant, B!IBWait
      <4>2. Served'
        BY <1>1, <3>1, <3>3, <4>1 DEF Served, Stored
      <4>3. QED
        BY <1>1, <3>2, <3>3, <4>2 DEF PInv, Served
    <3>8. CASE B!IBAbort(Own)
      <4>1. UNCHANGED <<ib, keys, next>>
        BY <3>8 DEF B!IBAbort
      <4>2. QED
        BY <1>1, <3>1, <3>2, <4>1, NotMine DEF Mine
    <3>9. QED
      BY <2>i, <3>4, <3>5, <3>6, <3>7, <3>8 DEF B!IBStep
  <2>1. QED
    BY <1>3, <2>r, <2>s, <2>i DEF Serving
<1>4. QED
  BY <1>2, <1>3

LEMMA PInvStep == PInv /\ [ProgramNext]_programVars => PInv'
<1>1. ASSUME PInv, UNCHANGED programVars
      PROVE  PInv'
  BY <1>1 DEF programVars, frontVars, predVars, mailVars, channelVars, backVars, PInv,
              Typing, PerTenant, NoMessage, Queued, Served, Answered, Stored, StoredUpTo
<1>2. QED
  BY <1>1, LibraryStep, ExchangeStep, ArbitingStep, ServingStep, OtherStep DEF ProgramNext

\* Whatever the arbiter and the other tenants do meanwhile, when a launch is
\* released the measurements that went with its request are in the backend's map.
THEOREM MeasurementsDeliveredCorrect == ProgramSpec => []MeasurementsDelivered
<1>1. PInv => MeasurementsDelivered
  BY DEF PInv, Stored, MeasurementsDelivered
<1>2. QED
  BY <1>1, InitPInv, PInvStep, PTL DEF ProgramSpec

-----------------------------------------------------------------------------
(* The backend is the library's Daemon *)

\* The queues as the library's own specification has them.
MReqs == [t \in Tenants |-> IF t = Own THEN Unanswered ELSE <<>>]
MResps == [t \in Tenants |-> IF t = Own THEN resps[Own] ELSE 0]
MChannels == UNCHANGED <<MReqs, MResps>>

LEMMA NotForTheLibrary ==
  ASSUME UNCHANGED Mine, UNCHANGED <<seen, batch>>
  PROVE  MChannels
  BY DEF Mine, MChannels, MReqs, MResps, Unanswered

LEMMA AppKeepsChannels ==
  ASSUME PInv, Library, AppStep
  PROVE  MChannels /\ F!AppStep
<1> USE DEF triggerVars, mailVars, appVars, channelVars
<1>1. MChannels
  BY NotForTheLibrary
     DEF Library, AppStep, CreateThread, CreateConnect, CreateBind, LaunchCall, LaunchWrite,
         LaunchNotify, LaunchWait, ProfileMeasure, ProfileProduce, ProfileCrash, Destroy, predVars, Mine,
         backVars
<1>2. F!AppStep
  <2> USE <1>1 DEF AppGoto, PredGoto, predVars, MChannels, MReqs, MResps, F!AppGoto,
                   F!PredGoto, F!predVars, F!triggerVars, F!mailVars, F!appVars,
                   F!channelVars, F!AppStep
  <2>1. F!Alive <=> Alive
    BY DEF Alive, F!Alive
  <2>2. CASE CreateThread \/ CreateConnect \/ CreateBind
    BY <2>1, <2>2 DEF Library, CreateThread, CreateConnect, CreateBind, F!CreateThread,
                      F!CreateConnect, F!CreateBind
  <2>3. CASE LaunchWrite \/ LaunchNotify \/ LaunchWait \/ \E g \in Grids : LaunchCall(g)
    BY <2>1, <2>3 DEF Library, LaunchCall, LaunchWrite, LaunchNotify, LaunchWait,
                      F!LaunchCall, F!LaunchWrite, F!LaunchNotify, F!LaunchWait
  <2>4. CASE ProfileMeasure \/ ProfileProduce \/ ProfileCrash \/ Destroy
    BY <2>1, <2>4 DEF Library, ProfileMeasure, ProfileProduce, ProfileCrash, Destroy,
                      F!ProfileMeasure, F!ProfileProduce, F!ProfileCrash, F!Destroy
  <2>5. QED
    BY <2>2, <2>3, <2>4 DEF AppStep
<1>3. QED
  BY <1>1, <1>2

LEMMA PredictorKeepsChannels ==
  ASSUME PInv, Library, PredLocal
  PROVE  MChannels /\ F!PredStep
<1> USE DEF triggerVars, mailVars, appVars, channelVars
<1>1. MChannels
  <2>1. UNCHANGED Mine
    BY DEF Library, PredLocal, PredWait, PredStartLib, PredEndLib, PredKernel, PredWindow,
           PredConsume, PredCrash, PredNotify, Mine, backVars
  <2>2. CASE PredCrash
    BY <2>1, <2>2, NotForTheLibrary DEF PredCrash
  <2>3. CASE ~PredCrash
    <3>1. pred \notin {"receive", "crashed"}
      BY <2>3 DEF PredLocal, PredWait, PredStartLib, PredEndLib, PredKernel, PredWindow,
                  PredConsume, PredNotify, PredGoto
    <3>2. client[Own] = "idle" /\ client'[Own] = "idle"
      BY <2>1, <3>1 DEF PInv, NoMessage, Mine
    <3>3. QED
      BY <2>1, <3>2 DEF Mine, MChannels, MReqs, MResps, Unanswered
  <2>4. QED
    BY <2>2, <2>3
<1>2. F!PredLocal
  BY <1>1
     DEF PredLocal, PredWait, PredStartLib, PredEndLib, PredKernel, PredWindow, PredConsume,
         PredCrash, PredNotify, PredGoto, Alive, Copies, Connected, Bound, Fits, NoBatch,
         MChannels, MReqs, MResps, Mixes, StartOfLibrary, EndOfLibrary,
         F!PredLocal, F!PredWait, F!PredStartLib, F!PredEndLib, F!PredKernel, F!PredWindow,
         F!PredConsume, F!PredCrash, F!PredNotify, F!PredGoto, F!Alive, F!Copies, F!Connected,
         F!Bound, F!Fits, F!NoBatch, F!Mixes, F!StartOfLibrary, F!EndOfLibrary,
         F!triggerVars, F!mailVars, F!appVars, F!channelVars
<1>3. QED
  BY <1>1, <1>2 DEF F!PredStep

\* The library's send and receive, as it sees them.
LEMMA ExchangeImplements ==
  ASSUME PInv, Exchange
  PROVE  F!PredStep
<1> USE OwnIsATenant
    DEF triggerVars, mailVars, appVars, F!triggerVars, F!mailVars, F!appVars,
        PredGoto, F!PredGoto, Alive, F!Alive, Own, F!Own
<1>1. CASE PredSend /\ B!ClientSend(Own)
  <2>1. NoMessage /\ resps' = resps /\ client'[Own] = "waiting"
        /\ seen' = seen /\ batch' = batch
    BY <1>1 DEF PredSend, SendRequest, B!ClientSend, PInv, Typing, PerTenant
  <2>2. /\ MReqs = [t \in Tenants |-> <<>>]
        /\ MReqs' = [t \in Tenants |-> IF t = Own
                                       THEN <<[key |-> seen.x, recs |-> batch.recs]>>
                                       ELSE <<>>]
        /\ MResps' = MResps
    BY <2>1 DEF MReqs, MResps, Unanswered, NoMessage
  <2>3. MReqs' = [MReqs EXCEPT ![Own] = Append(@, [key |-> seen.x, recs |-> batch.recs])]
    BY <2>2, OneElement
  <2>4. F!SendRequest(F!Own, [key |-> seen.x, recs |-> batch.recs])
    BY <2>2, <2>3 DEF F!SendRequest, MReqs, MResps
  <2>5. F!PredSend
    BY <1>1, <2>4 DEF PredSend, F!PredSend, Connected, F!Connected, Fits, F!Fits
  <2>6. QED
    BY <2>5 DEF F!PredStep
<1>2. CASE PredReceive /\ B!ClientReceive(Own)
  <2>1. Answered
    BY <1>2 DEF PredReceive, TakeResponse, PInv, NoMessage, Queued, Served
  <2>2. resps'[Own] = resps[Own] - 1 /\ client'[Own] = "idle"
    BY <1>2 DEF PredReceive, TakeResponse, B!ClientReceive, PInv, Typing, PerTenant
  <2>3. MReqs' = MReqs
    BY <2>1, <2>2 DEF MReqs, Unanswered, Answered
  <2>4. MResps[Own] > 0 /\ MResps' = [MResps EXCEPT ![Own] = @ - 1]
    <3>1. resps[Own] = 1 /\ resps'[Own] = 0
      BY <2>1, <2>2 DEF Answered
    <3>2. /\ MResps = [t \in Tenants |-> IF t = Own THEN 1 ELSE 0]
          /\ MResps' = [t \in Tenants |-> IF t = Own THEN 0 ELSE 0]
      BY <3>1 DEF MResps
    <3>3. QED
      BY <3>2
  <2>5. F!TakeResponse(F!Own)
    BY <2>3, <2>4 DEF F!TakeResponse, MReqs, MResps
  <2>6. F!PredReceive
    BY <1>2, <2>5 DEF PredReceive, F!PredReceive, Bound, F!Bound, Connected, F!Connected
  <2>7. QED
    BY <2>6 DEF F!PredStep
<1>3. QED
  BY <1>1, <1>2 DEF Exchange

\* The response is the Daemon's step; all else that the backend does for the
\* library's own request is none of the library's business.
LEMMA ServingImplements ==
  ASSUME PInv, NEW t \in Tenants, Serving(t)
  PROVE  F!Daemon \/ UNCHANGED F!vars
<1> USE OwnIsATenant DEF B!poolVars, B!mapVars, B!arbVars, B!ibVars, B!netVars,
      B!channelVars, B!IBGoto, B!SendRequest, B!TakeRequest, B!SendResponse
<1>1. UNCHANGED frontVars
  BY DEF Serving
<1>2. UNCHANGED F!frontVars
  BY <1>1 DEF frontVars, appVars, triggerVars, mailVars, predVars, F!frontVars, F!appVars,
              F!triggerVars, F!mailVars, F!predVars
<1>3. CASE t = Own /\ B!IBSend(Own)
  <2>1. Served
    BY <1>3 DEF PInv, NoMessage, Queued, Answered, B!IBSend
  <2>2. resps'[Own] = resps[Own] + 1 /\ client'[Own] = "waiting"
    BY <1>3, <2>1 DEF B!IBSend, PInv, Typing, PerTenant, Served
  <2>3. MResps' = [MResps EXCEPT ![Own] = @ + 1]
    BY <2>1, <2>2 DEF MResps, Served
  <2>4. MReqs[Own] = <<[key |-> seen.x, recs |-> batch.recs]>>
    BY <2>1 DEF MReqs, Unanswered, Served
  <2>5. MReqs' = [u \in Tenants |-> <<>>]
    BY <2>1, <2>2 DEF MReqs, Unanswered, Served
  <2>6. MReqs[Own] # <<>> /\ MReqs' = [MReqs EXCEPT ![Own] = Tail(@)]
    BY <2>4, <2>5, OneElement DEF MReqs
  <2>7. QED
    BY <1>2, <2>3, <2>6 DEF F!Daemon, MReqs, MResps, Own, F!Own
<1>4. CASE ~(t = Own /\ B!IBSend(Own))
  <2>1. UNCHANGED <<resps[Own], client[Own], seen, batch>>
    BY <1>1, <1>4
       DEF Serving, PInv, Typing, PerTenant, frontVars, predVars, B!IBStep, B!IBReceive,
           B!IBUpdate, B!IBAbort, B!IBRecordIdle, B!IBRecordActive, B!IBRecorded,
           B!IBWait, B!IBSend
  <2>2. MChannels
    BY <2>1 DEF MChannels, MReqs, MResps, Unanswered
  <2>3. QED
    BY <1>2, <2>2 DEF MChannels, MReqs, MResps, F!vars, F!channelVars
<1>5. QED
  BY <1>3, <1>4

\* Whatever the arbiter and the other tenants do, the library has a backend that
\* answers each request once, after it: what is proved of Frontend's
\* specification holds of the library in the whole program.
THEOREM ProgramImplementsLibrary == ProgramSpec => ImplementsLibrary
<1>1. ProgramInit => F!ZeroedInit
  <2>1. ASSUME ProgramInit
        PROVE  MReqs = [t \in Tenants |-> <<>>] /\ MResps = [t \in Tenants |-> 0]
    BY <2>1, OwnIsATenant
       DEF ProgramInit, B!ZeroedInit, B!Init, ZeroedInit, Init, ChannelsInit, MReqs, MResps,
           Unanswered
  <2>2. QED
    BY <2>1
       DEF ProgramInit, ZeroedInit, Init, FrontInit, NoBatch, DefaultGrid, MReqs, MResps,
           F!ZeroedInit, F!Init, F!FrontInit, F!NoBatch, F!DefaultGrid, F!ChannelsInit,
           Tenants, F!Tenants
<1>2. PInv /\ [ProgramNext]_programVars => [F!Next]_(F!vars)
  <2> SUFFICES ASSUME PInv, [ProgramNext]_programVars
               PROVE  [F!Next]_(F!vars)
    OBVIOUS
  <2>1. CASE Library
    BY <2>1, AppKeepsChannels, PredictorKeepsChannels DEF Library, F!Next
  <2>2. CASE Exchange
    BY <2>2, ExchangeImplements DEF F!Next
  <2>3. ASSUME NEW t \in Tenants, Serving(t)
        PROVE  [F!Next]_(F!vars)
    BY <2>3, ServingImplements DEF F!Next
  <2>4. ASSUME UNCHANGED frontVars, UNCHANGED <<resps[Own], client[Own]>>
        PROVE  UNCHANGED F!vars
    <3>1. UNCHANGED F!frontVars /\ UNCHANGED <<seen, batch>>
      BY <2>4 DEF frontVars, appVars, triggerVars, mailVars, predVars, F!frontVars,
                  F!appVars, F!triggerVars, F!mailVars, F!predVars
    <3>2. MChannels
      BY <2>4, <3>1 DEF MChannels, MReqs, MResps, Unanswered
    <3>3. QED
      BY <3>1, <3>2 DEF MChannels, MReqs, MResps, F!vars, F!channelVars
  <2>5. CASE Arbiting
    BY <2>4, <2>5
       DEF Arbiting, B!ArbStep, B!ArbRetrieve, B!ArbScanned, B!ArbLookup, B!ArbCopied,
           B!ArbLookedUp, B!ArbRelease, B!ArbSleep, B!netVars, B!channelVars
  <2>6. ASSUME NEW t \in Tenants \ {Own}, OtherApplication(t)
        PROVE  UNCHANGED F!vars
    <3>1. UNCHANGED <<resps[Own], client[Own]>>
      BY <2>6, OwnIsATenant
         DEF OtherApplication, PInv, Typing, PerTenant, B!ClientSend, B!ClientReceive,
             B!SendRequest, B!TakeResponse
    <3>2. UNCHANGED frontVars
      BY <2>6 DEF OtherApplication
    <3>3. QED
      BY <2>4, <3>1, <3>2
  <2>7. CASE UNCHANGED programVars
    BY <2>4, <2>7 DEF programVars, channelVars, backVars
  <2>8. QED
    BY <2>1, <2>2, <2>3, <2>5, <2>6, <2>7 DEF ProgramNext
<1>3. QED
  BY <1>1, <1>2, InitPInv, PInvStep, PTL DEF ProgramSpec, ImplementsLibrary, F!ZeroedSpec

-----------------------------------------------------------------------------
(* The backend does not notice that a library is behind tenant 0's queues *)

LEMMA LibraryLeavesBackend ==
  ASSUME Library
  PROVE  UNCHANGED B!vars
<1>1. UNCHANGED channelVars
  BY DEF Library, AppStep, CreateThread, CreateConnect, CreateBind, LaunchCall, LaunchWrite,
         LaunchNotify, LaunchWait, ProfileMeasure, ProfileProduce, ProfileCrash, Destroy, PredLocal,
         PredWait, PredStartLib, PredEndLib, PredKernel, PredWindow, PredConsume, PredCrash,
         PredNotify
<1>2. UNCHANGED backVars
  BY DEF Library
<1>3. QED
  BY <1>1, <1>2
     DEF channelVars, backVars, B!vars, B!poolVars, B!mapVars, B!arbVars, B!ibVars,
         B!netVars, B!channelVars

\* Each step of the program is one of Backend's, or changes nothing of the
\* backend or of its queues: what is proved of Backend's specification holds of
\* the backend in the program, the library's own thread being tenant 0's client.
THEOREM ProgramImplementsBackend == ProgramSpec => B!ZeroedSpec
<1>1. ProgramInit => B!ZeroedInit
  BY DEF ProgramInit
<1>2. [ProgramNext]_programVars => [B!Next]_(B!vars)
  <2> SUFFICES ASSUME [ProgramNext]_programVars
               PROVE  [B!Next]_(B!vars)
    OBVIOUS
  <2>1. CASE Library
    BY <2>1, LibraryLeavesBackend
  <2>2. CASE Exchange
    BY <2>2, OwnIsATenant DEF Exchange, B!Next
  <2>3. CASE Arbiting
    BY <2>3 DEF Arbiting, B!Next
  <2>4. ASSUME NEW t \in Tenants, Serving(t) \/ OtherApplication(t)
        PROVE  [B!Next]_(B!vars)
    BY <2>4, OwnIsATenant DEF Serving, OtherApplication, B!Next
  <2>5. CASE UNCHANGED programVars
    BY <2>5
       DEF programVars, channelVars, backVars, B!vars, B!poolVars, B!mapVars, B!arbVars,
           B!ibVars, B!netVars, B!channelVars
  <2>6. QED
    BY <2>1, <2>2, <2>3, <2>4, <2>5 DEF ProgramNext
<1>3. QED
  BY <1>1, <1>2, PTL DEF ProgramSpec, B!ZeroedSpec

-----------------------------------------------------------------------------
(* What was proved of each side on its own, of the two together *)

BP == INSTANCE BackendProofs
FP == INSTANCE FrontendProofs WITH
        reqs <- [t \in Tenants |-> IF t = Own THEN Unanswered ELSE <<>>],
        resps <- [t \in Tenants |-> IF t = Own THEN resps[Own] ELSE 0]

\* BackendProofs' Backend is Propreact's.
LEMMA SameBackend ==
  /\ B!ZeroedInit => BP!ZeroedInit
  /\ [B!Next]_(B!vars) => [BP!Next]_(BP!vars)
  BY DEF B!Tenants, BP!Tenants, B!poolVars, BP!poolVars, B!PoolInit, BP!PoolInit,
         B!Pending, BP!Pending, B!PoolUpdate, BP!PoolUpdate, B!Retrieved, BP!Retrieved,
         B!PoolRetrieve, BP!PoolRetrieve, B!PoolRelease, BP!PoolRelease, B!PoolWait,
         BP!PoolWait, B!mapVars, BP!mapVars, B!MapsInit, BP!MapsInit, B!AddKey,
         BP!AddKey, B!UpdateIdle, BP!UpdateIdle, B!UpdateActive, BP!UpdateActive,
         B!BeginRetrieve, BP!BeginRetrieve, B!EndRetrieve, BP!EndRetrieve,
         B!channelVars, BP!channelVars, B!ChannelsInit, BP!ChannelsInit, B!SendRequest,
         BP!SendRequest, B!TakeRequest, BP!TakeRequest, B!SendResponse, BP!SendResponse,
         B!TakeResponse, BP!TakeResponse, B!arbVars, BP!arbVars, B!ibVars, BP!ibVars,
         B!netVars, BP!netVars, B!vars, BP!vars, B!NoPacket, BP!NoPacket, B!Init,
         BP!Init, B!Running, BP!Running, B!IBGoto, BP!IBGoto, B!First, BP!First,
         B!ClientSend, BP!ClientSend, B!ClientReceive, BP!ClientReceive, B!IBReceive,
         BP!IBReceive, B!IBUpdate, BP!IBUpdate, B!IBAbort, BP!IBAbort, B!MoreRecords,
         BP!MoreRecords, B!Copying, BP!Copying, B!IBRecordIdle, BP!IBRecordIdle,
         B!IBRecordActive, BP!IBRecordActive, B!IBRecorded, BP!IBRecorded, B!IBWait,
         BP!IBWait, B!IBSend, BP!IBSend, B!ArbRetrieve, BP!ArbRetrieve, B!ArbScanned,
         BP!ArbScanned, B!ArbLookup, BP!ArbLookup, B!ArbCopied, BP!ArbCopied,
         B!ArbLookedUp, BP!ArbLookedUp, B!ArbRelease, BP!ArbRelease, B!ArbSleep,
         BP!ArbSleep, B!IBStep, BP!IBStep, B!ArbStep, BP!ArbStep, B!Next, BP!Next,
         B!ZeroedInit, BP!ZeroedInit

\* FrontendProofs' Frontend, over the queues as the library has them, is Propreact's.
LEMMA SameLibrary ==
  /\ F!ZeroedInit => FP!ZeroedInit
  /\ [F!Next]_(F!vars) => [FP!Next]_(FP!vars)
  BY DEF F!Tenants, FP!Tenants, F!channelVars, FP!channelVars, F!ChannelsInit,
         FP!ChannelsInit, F!SendRequest, FP!SendRequest, F!TakeResponse,
         FP!TakeResponse, F!Grid, FP!Grid, F!DefaultGrid, FP!DefaultGrid,
         F!StartOfLibrary, FP!StartOfLibrary, F!EndOfLibrary, FP!EndOfLibrary, F!Mixes,
         FP!Mixes, F!Own, FP!Own, F!triggerVars, FP!triggerVars, F!mailVars,
         FP!mailVars, F!appVars, FP!appVars, F!predVars, FP!predVars, F!frontVars,
         FP!frontVars, F!NoBatch, FP!NoBatch, F!FrontInit, FP!FrontInit, F!AppGoto,
         FP!AppGoto, F!PredGoto, FP!PredGoto, F!CreateThread, FP!CreateThread,
         F!CreateConnect, FP!CreateConnect, F!CreateBind, FP!CreateBind, F!LaunchCall,
         FP!LaunchCall, F!LaunchWrite, FP!LaunchWrite, F!LaunchNotify, FP!LaunchNotify,
         F!LaunchWait, FP!LaunchWait, F!ProfileMeasure, FP!ProfileMeasure,
         F!ProfileProduce, FP!ProfileProduce, F!ProfileCrash, FP!ProfileCrash, F!Destroy, FP!Destroy, F!PredWait,
         FP!PredWait, F!Copies, FP!Copies, F!PredStartLib, FP!PredStartLib,
         F!PredEndLib, FP!PredEndLib, F!PredKernel, FP!PredKernel, F!PredWindow,
         FP!PredWindow, F!PredConsume, FP!PredConsume, F!Connected, FP!Connected,
         F!Bound, FP!Bound, F!Fits, FP!Fits, F!PredSend, FP!PredSend, F!PredCrash,
         FP!PredCrash, F!PredReceive, FP!PredReceive, F!PredNotify, FP!PredNotify,
         F!Alive, FP!Alive, F!AppStep, FP!AppStep, F!PredLocal, FP!PredLocal,
         F!PredStep, FP!PredStep, F!Daemon, FP!Daemon, F!vars, FP!vars, F!Init, FP!Init,
         F!Next, FP!Next, F!ZeroedInit, FP!ZeroedInit

\* The program's behaviours are among those BackendProofs is about.
LEMMA BackendInProgram == ProgramSpec => BP!ZeroedSpec
  BY ProgramImplementsBackend, SameBackend, PTL DEF B!ZeroedSpec, BP!ZeroedSpec

\* With the real library as tenant 0's application, and applications of the
\* other tenants that do as they like: the assertion of RequestPool::update never
\* fails, no release outlives its request, no message is lost or doubled, and no
\* measurement is lost (RequestPool.cpp:37, InterposerBackend.cpp:51-78).
THEOREM BackendSafeInProgram ==
  ProgramSpec => [](/\ B!NeverAborts /\ B!DecisionsMatchRequests
                    /\ B!OneMessageUnderWay /\ B!MeasurementsKept)
<1>1. ASSUME BP!NeverAborts, BP!DecisionsMatchRequests, BP!OneMessageUnderWay,
             BP!MeasurementsKept
      PROVE  /\ B!NeverAborts /\ B!DecisionsMatchRequests
             /\ B!OneMessageUnderWay /\ B!MeasurementsKept
  BY <1>1
     DEF B!NeverAborts, BP!NeverAborts, B!DecisionsMatchRequests, BP!DecisionsMatchRequests,
         B!OneMessageUnderWay, BP!OneMessageUnderWay, B!MeasurementsKept,
         BP!MeasurementsKept, B!Pending, BP!Pending, B!Deciding, BP!Deciding, B!Tenants,
         BP!Tenants
<1>2. \A t \in BP!Tenants : Packets[t] \subseteq BP!Packet
  BY BackendAssumptions DEF B!Packet, BP!Packet, Tenants, BP!Tenants
<1>3. BP!ZeroedSpec => BP!Spec
  BY PTL DEF BP!ZeroedSpec, BP!ZeroedInit, BP!Spec
<1>4. BP!ZeroedSpec => []BP!NeverAborts
  BY <1>2, BackendAssumptions, NumTenantsAssumption, BP!AssertionHolds
<1>5. BP!ZeroedSpec => []BP!DecisionsMatchRequests
  BY <1>2, BackendAssumptions, NumTenantsAssumption, BP!DecisionsCorrect
<1>6. BP!Spec => []BP!OneMessageUnderWay
  BY <1>2, BackendAssumptions, NumTenantsAssumption, BP!MessageCorrect
<1>7. BP!Spec => []BP!MeasurementsKept
  BY <1>2, BackendAssumptions, NumTenantsAssumption, BP!MeasurementsCorrect
<1>8. QED
  BY <1>1, BackendInProgram, <1>3, <1>4, <1>5, <1>6, <1>7, PTL

\* ... and among those FrontendProofs is about.
LEMMA LibraryInProgram == ProgramSpec => FP!ZeroedSpec
  BY ProgramImplementsLibrary, SameLibrary, PTL
     DEF ImplementsLibrary, F!ZeroedSpec, FP!ZeroedSpec

\* With the real backend, its arbiter and the other tenants behind the queues:
\* the predictor works on the grid of the launch that waits for it, the unlocked
\* Window has one user at a time, the predictor takes the process down only with
\* a packet that is too long, and no reading is sent twice or after a later one
\* (Trigger.cpp:88-96, Predictor.cpp:92-131, GlobalWindow.cpp:57-110).
THEOREM LibrarySafeInProgram ==
  ProgramSpec => [](/\ HandlesThisLaunch /\ WindowRaceFree
                    /\ PredCrashOnlyByOverflow /\ MeasurementsOnce)
<1>1. ASSUME FP!HandlesThisLaunch, FP!WindowRaceFree, FP!PredCrashOnlyByOverflow,
             FP!MeasurementsOnce
      PROVE  HandlesThisLaunch /\ WindowRaceFree /\ PredCrashOnlyByOverflow /\ MeasurementsOnce
  BY <1>1
     DEF HandlesThisLaunch, WindowRaceFree, PredCrashOnlyByOverflow, MeasurementsOnce,
         Fits, FP!HandlesThisLaunch, FP!WindowRaceFree, FP!PredCrashOnlyByOverflow,
         FP!MeasurementsOnce, FP!Fits
<1>2. Grids \subseteq FP!Grid /\ NoGrid \notin FP!Grid
  BY GridsAssumption DEF Grid, FP!Grid
<1>3. FP!ZeroedSpec => FP!Spec
  BY PTL DEF FP!ZeroedSpec, FP!ZeroedInit, FP!Spec
<1> USE NumTenantsAssumption, BatchesAssumption, BoundAssumption
<1>4. FP!ZeroedSpec => []FP!HandlesThisLaunch
  BY <1>2, FP!HandlesThisLaunchCorrect
<1>5. FP!ZeroedSpec => []FP!WindowRaceFree
  BY <1>2, FP!WindowCorrect
<1>6. FP!ZeroedSpec => []FP!PredCrashOnlyByOverflow
  BY <1>2, FP!CrashCorrect
<1>7. FP!Spec => []FP!MeasurementsOnce
  BY <1>2, FP!MeasurementsOnceCorrect
<1>8. QED
  BY <1>1, LibraryInProgram, <1>3, <1>4, <1>5, <1>6, <1>7, PTL

\* ... and once the launch of a kernel has returned, the last reading is with the
\* real backend or on its way to it.
THEOREM LaunchTakesReadingInProgram ==
  ProgramSpec => [][app = "wait" /\ app' = "idle"
                       /\ asked \notin {StartOfLibrary, EndOfLibrary} => stale]_frontVars
<1>1. [app = "wait" /\ app' = "idle"
          /\ asked \notin {FP!StartOfLibrary, FP!EndOfLibrary} => stale]_(FP!vars)
        => [app = "wait" /\ app' = "idle"
               /\ asked \notin {StartOfLibrary, EndOfLibrary} => stale]_frontVars
  BY DEF StartOfLibrary, EndOfLibrary, FP!StartOfLibrary, FP!EndOfLibrary, FP!vars,
         FP!frontVars, FP!appVars, frontVars, appVars
<1>2. Grids \subseteq FP!Grid /\ NoGrid \notin FP!Grid
  BY GridsAssumption DEF Grid, FP!Grid
<1>3. FP!ZeroedSpec => FP!LaunchTakesReading
  BY <1>2, NumTenantsAssumption, BatchesAssumption, BoundAssumption,
     FP!LaunchTakesReadingCorrect
<1>4. QED
  BY <1>1, LibraryInProgram, <1>3, PTL DEF FP!LaunchTakesReading

=============================================================================
