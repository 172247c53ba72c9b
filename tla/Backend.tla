------------------------------- MODULE Backend ------------------------------
(***************************************************************************)
(* The propreact-backend process: the arbiter's thread, one                *)
(* InterposerBackend thread per tenant, the RequestPool and the            *)
(* GlobalWindow they share, and the pair of message queues that connects   *)
(* each thread with its tenant's application.                              *)
(*                                                                         *)
(* An application is here its Predictor thread's use of the two queues:    *)
(* send one request, block until one response has come.                    *)
(*                                                                         *)
(* Faulty... definitions: see RequestPool.                                 *)
(***************************************************************************)
EXTENDS RequestPool, TenantMaps, Channels

CONSTANT Packets    \* per tenant, the packets its application may send

ASSUME PacketsAssumption == \A t \in Tenants : Packets[t] \subseteq Packet

VARIABLES
    process,        \* running; aborted by an assertion; crashed by a data race
    arb,            \* where the arbiter is in its loop
    scan,           \* the loop index t over the tenants
    found,          \* tenants_with_requests, the ones not looked up yet
    respond,        \* tenants_to_be_responded, the ones not released yet
    ib,             \* where each InterposerBackend thread is in its loop
    packet,         \* the packet it is handling
    next,           \* its position in the packet's measurements
    client,         \* whether the application waits for a response
    abandoned       \* history: how many have ended while they waited (none does
                    \* here: see Restarts)

arbVars == <<arb, scan, found, respond>>
ibVars == <<ib, packet, next>>
netVars == <<client, abandoned, channelVars>>
vars == <<poolVars, mapVars, process, arbVars, ibVars, netVars>>

NoPacket == [key |-> 0, recs |-> <<>>]

Init ==
    /\ PoolInit
    /\ MapsInit
    /\ process = "running"
    /\ arb = "scan"
    /\ scan = 0
    /\ found = {}
    /\ respond = {}
    /\ ib = [t \in Tenants |-> "receive"]
    /\ packet = [t \in Tenants |-> NoPacket]
    /\ next = [t \in Tenants |-> 1]
    /\ client = [t \in Tenants |-> "idle"]
    /\ abandoned = [t \in Tenants |-> 0]
    /\ ChannelsInit

Running == process = "running"

IBGoto(t, from, to) == ib[t] = from /\ ib' = [ib EXCEPT ![t] = to]

\* t is the first tenant of a std::map or std::set: the one its loop is at.
First(t, S) == t \in S /\ \A u \in S : t <= u

-----------------------------------------------------------------------------
(* The application: Predictor sends a packet and blocks for the response.  *)

ClientSend(t) ==
    /\ client[t] = "idle"
    /\ client' = [client EXCEPT ![t] = "waiting"]
    /\ \E p \in Packets[t] : SendRequest(t, p)
    /\ UNCHANGED <<poolVars, mapVars, process, arbVars, ibVars, abandoned>>

ClientReceive(t) ==
    /\ client[t] = "waiting"
    /\ TakeResponse(t)
    /\ client' = [client EXCEPT ![t] = "idle"]
    /\ UNCHANGED <<poolVars, mapVars, process, arbVars, ibVars, abandoned>>

-----------------------------------------------------------------------------
(* InterposerBackend::process *)

IBReceive(t) ==
    /\ Running
    /\ IBGoto(t, "receive", "update")
    /\ TakeRequest(t)
    /\ packet' = [packet EXCEPT ![t] = Head(reqs[t])]
    /\ UNCHANGED <<poolVars, mapVars, process, arbVars, next, client, abandoned>>

\* The request is posted before its measurements are in the window.
IBUpdate(t) ==
    /\ Running
    /\ IBGoto(t, "update", "records")
    /\ PoolUpdate(t, packet[t].key)
    /\ next' = [next EXCEPT ![t] = 1]
    /\ UNCHANGED <<mapVars, process, arbVars, packet, netVars>>

\* The assertion of RequestPool::update fails.
IBAbort(t) ==
    /\ Running
    /\ ib[t] = "update"
    /\ Pending(t)
    /\ process' = "aborted"
    /\ UNCHANGED <<poolVars, mapVars, arbVars, ibVars, netVars>>

MoreRecords(t) == ib[t] = "records" /\ next[t] <= Len(packet[t].recs)

\* The arbiter is copying tenant t's map.
Copying(t) == arb = "copy" /\ First(t, found)

\* Tenant 0's thread changes its map without the lock.  Overlapping the
\* arbiter's copy of that map it is a data race: the copy finds a map that is
\* being changed, and either gets away with it or takes the process down.
IBRecordIdle(t) ==
    /\ Running
    /\ t = 0
    /\ MoreRecords(t)
    /\ UpdateIdle(t, packet[t].recs[next[t]])
    /\ next' = [next EXCEPT ![t] = @ + 1]
    /\ process' \in {"running"} \union (IF Copying(t) THEN {"crashed"} ELSE {})
    /\ UNCHANGED <<poolVars, arbVars, ib, packet, netVars>>

IBRecordActive(t) ==
    /\ Running
    /\ t # 0
    /\ MoreRecords(t)
    /\ UpdateActive(t, packet[t].recs[next[t]])
    /\ next' = [next EXCEPT ![t] = @ + 1]
    /\ UNCHANGED <<poolVars, process, arbVars, ib, packet, netVars>>

\* The thread answers without waiting for the arbiter.
FaultyIBRecorded(t) ==
    /\ Running
    /\ ~MoreRecords(t)
    /\ IBGoto(t, "records", "send")
    /\ UNCHANGED <<poolVars, mapVars, process, arbVars, packet, next, netVars>>

IBRecorded(t) ==
    /\ Running
    /\ ~MoreRecords(t)
    /\ IBGoto(t, "records", "wait")
    /\ UNCHANGED <<poolVars, mapVars, process, arbVars, packet, next, netVars>>

IBWait(t) ==
    /\ Running
    /\ IBGoto(t, "wait", "send")
    /\ PoolWait(t)
    /\ UNCHANGED <<mapVars, process, arbVars, packet, next, netVars>>

\* freemsg and send.
IBSend(t) ==
    /\ Running
    /\ IBGoto(t, "send", "receive")
    /\ packet' = [packet EXCEPT ![t] = NoPacket]
    /\ SendResponse(t)
    /\ UNCHANGED <<poolVars, mapVars, process, arbVars, next, client, abandoned>>

-----------------------------------------------------------------------------
(* Arbiter::process *)

\* retrieve takes the entry out whatever its key; only a key above 0 counts as
\* a request.
ArbRetrieve ==
    /\ Running
    /\ arb = "scan"
    /\ scan < NumTenants
    /\ PoolRetrieve(scan)
    /\ found' = IF Retrieved(scan) > 0 THEN found \union {scan} ELSE found
    /\ scan' = scan + 1
    /\ UNCHANGED <<mapVars, process, arb, respond, ibVars, netVars>>

ArbScanned ==
    /\ Running
    /\ arb = "scan"
    /\ scan = NumTenants
    /\ arb' = "lookup"
    /\ UNCHANGED <<poolVars, mapVars, process, scan, found, respond, ibVars, netVars>>

ArbLookup ==
    /\ Running
    /\ arb = "lookup"
    /\ found # {}
    /\ BeginRetrieve
    /\ arb' = "copy"
    /\ UNCHANGED <<poolVars, process, scan, found, respond, ibVars, netVars>>

\* Only tenant 0's branch puts the tenant on the list of responses.
FaultyArbCopied ==
    /\ Running
    /\ arb = "copy"
    /\ EndRetrieve
    /\ \E t \in Tenants :
          /\ First(t, found)
          /\ found' = found \ {t}
          /\ respond' = IF t = 0 THEN respond \union {t} ELSE respond
    /\ arb' = "lookup"
    /\ UNCHANGED <<poolVars, process, scan, ibVars, netVars>>

ArbCopied ==
    /\ Running
    /\ arb = "copy"
    /\ EndRetrieve
    /\ \E t \in Tenants :
          /\ First(t, found)
          /\ found' = found \ {t}
          /\ respond' = respond \union {t}
    /\ arb' = "lookup"
    /\ UNCHANGED <<poolVars, process, scan, ibVars, netVars>>

ArbLookedUp ==
    /\ Running
    /\ arb = "lookup"
    /\ found = {}
    /\ arb' = "release"
    /\ UNCHANGED <<poolVars, mapVars, process, scan, found, respond, ibVars, netVars>>

ArbRelease ==
    /\ Running
    /\ arb = "release"
    /\ \E t \in Tenants :
          /\ First(t, respond)
          /\ PoolRelease(t)
          /\ respond' = respond \ {t}
    /\ UNCHANGED <<mapVars, process, arb, scan, found, ibVars, netVars>>

\* The pause of 2 ms ends and the loop starts over.
ArbSleep ==
    /\ Running
    /\ arb = "release"
    /\ respond = {}
    /\ arb' = "scan"
    /\ scan' = 0
    /\ UNCHANGED <<poolVars, mapVars, process, found, respond, ibVars, netVars>>

-----------------------------------------------------------------------------

IBStep(t) ==
    \/ IBReceive(t) \/ IBUpdate(t) \/ IBAbort(t)
    \/ IBRecordIdle(t) \/ IBRecordActive(t) \/ IBRecorded(t)
    \/ IBWait(t) \/ IBSend(t)

ArbStep ==
    \/ ArbRetrieve \/ ArbScanned
    \/ ArbLookup \/ ArbCopied \/ ArbLookedUp
    \/ ArbRelease \/ ArbSleep

Next ==
    \/ \E t \in Tenants : ClientSend(t) \/ ClientReceive(t) \/ IBStep(t)
    \/ ArbStep

Spec == Init /\ [][Next]_vars

\* The memory the pool is built in happened to be zero.
ZeroedInit == Init /\ ready = [t \in Tenants |-> FALSE]

ZeroedSpec == ZeroedInit /\ [][Next]_vars

\* Every thread of the backend keeps running, and a response that has arrived
\* is taken.  A backend thread that competes for m_mutex with the arbiter's
\* unending loop gets it: the arbiter leaves it alone for 2 ms per round.
Fairness ==
    /\ WF_vars(ArbStep)
    /\ \A t \in Tenants :
          /\ WF_vars(IBStep(t))
          /\ SF_vars(IBRecordActive(t))
          /\ WF_vars(ClientReceive(t))

ZeroedFairSpec == ZeroedSpec /\ Fairness

-----------------------------------------------------------------------------
(* Properties *)

TypeOK ==
    /\ PoolTypeOK
    /\ MapsTypeOK
    /\ process \in {"running", "aborted", "crashed"}
    /\ arb \in {"scan", "lookup", "copy", "release"}
    /\ scan \in 0 .. NumTenants
    /\ found \in SUBSET Tenants
    /\ respond \in SUBSET Tenants
    /\ ib \in [Tenants -> {"receive", "update", "records", "wait", "send"}]
    /\ packet \in [Tenants -> Packet]
    /\ next \in [Tenants -> Nat \ {0}]
    /\ client \in [Tenants -> {"idle", "waiting"}]
    /\ ChannelsTypeOK

\* "Request and response are synchronous, there shouldn't be pending requests
\* when a new request arrives from a tenant" (RequestPool.cpp:37): the
\* assertion of update never fails, in whatever order the arbiter's round and
\* the tenant's threads run.
NeverAborts == process # "aborted"

\* Where a tenant's request stands once its thread has posted it.
Deciding(t) == t \in found \union respond

\* An entry in the pool, a place in the arbiter's round and a permit in the
\* gate are three stages of one request: a tenant has at most one of them, and
\* only while its thread is between update and the end of wait.  No release
\* outlives the request it was made for (RequestPool.cpp:49-82,
\* Arbiter.cpp:47-83).
DecisionsMatchRequests ==
    \A t \in Tenants :
        /\ Pending(t) \/ Deciding(t) \/ ready[t] => ib[t] \in {"records", "wait"}
        /\ ~(Pending(t) /\ Deciding(t))
        /\ ~(Pending(t) /\ ready[t])
        /\ ~(Deciding(t) /\ ready[t])

\* A tenant's request or its response is in one place at a time: in the queue
\* to the backend, with the tenant's thread, or in the queue back.
OneMessageUnderWay ==
    \A t \in Tenants :
        Len(reqs[t]) + (IF ib[t] = "receive" THEN 0 ELSE 1) + resps[t]
            = (IF client[t] = "idle" THEN 0 ELSE 1)

\* Whatever the other threads did meanwhile, every measurement the thread has
\* worked off is in its tenant's map, so all of a request's are before the
\* response leaves (InterposerBackend.cpp:60-78).
MeasurementsKept ==
    \A t \in Tenants :
        ib[t] \in {"records", "wait", "send"} =>
            \A i \in 1 .. Len(packet[t].recs) :
                i < next[t] => packet[t].recs[i] \in keys[t]

\* Once update_active has left m_mutex locked, no tenant's request is looked
\* up any more: only tenants the arbiter had already dealt with are released
\* (GlobalWindow.cpp:141-149, 161 and 170).
LeakStopsEveryTenant == [][Leaked => Leaked' /\ respond' \subseteq respond]_vars

\* The backend answers a request only after the arbiter's release for that
\* very request.
Phase(t) ==
    CASE client[t] = "idle"               -> "idle"
      [] client[t] # "idle" /\ resps[t] > 0 -> "answered"
      [] client[t] # "idle" /\ resps[t] = 0 /\ (ready[t] \/ ib[t] = "send") -> "granted"
      [] OTHER                            -> "asked"

A == INSTANCE Arbitration WITH phase <- [t \in Tenants |-> Phase(t)]

ImplementsArbitration == A!Spec

\* The three ways a request can be left hanging: the process is gone, m_mutex
\* was leaked, or the key was 0, which the arbiter takes for no request.
Ignored(t) == ib[t] = "wait" /\ packet[t].key = 0

\* Every request is answered, unless one of the three has happened.
AnsweredUnlessStuck ==
    \A t \in Tenants :
        client[t] = "waiting" ~>
            (client[t] = "idle" \/ ~Running \/ Leaked \/ Ignored(t))

\* Every request is answered.
EveryRequestAnswered ==
    \A t \in Tenants : client[t] = "waiting" ~> client[t] = "idle"

=============================================================================
