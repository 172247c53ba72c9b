------------------------------ MODULE Propreact -----------------------------
(***************************************************************************)
(* The whole program: an application with its client library (Frontend),   *)
(* the backend (Backend), and the queues between them, which the two       *)
(* modules share.  The library's requests are the backend's tenant 0, Own; *)
(* the other tenants' applications are as Backend has them.                *)
(***************************************************************************)
EXTENDS Frontend

CONSTANTS NoRequest, Arbiter, Nobody, Packets

VARIABLES requests, ready, mutex, keys, process, arb, scan, found, respond,
          ib, packet, next, client, abandoned

B == INSTANCE Backend

\* What Backend assumes of its constants.
ASSUME BackendAssumptions ==
    /\ NoRequest \notin Nat
    /\ Arbiter \notin Nat /\ Nobody \notin Nat /\ Arbiter # Nobody
    /\ \A t \in Tenants : Packets[t] \subseteq B!Packet

backVars == <<requests, ready, mutex, keys, process, arb, scan, found, respond,
              ib, packet, next, client, abandoned>>

programVars == <<frontVars, channelVars, backVars>>

\* The flags the constructors leave alone are down, on both sides.
ProgramInit == ZeroedInit /\ B!ZeroedInit

\* The library on its own.
Library == (AppStep \/ PredLocal) /\ UNCHANGED backVars

\* A send and a receive of the predictor are the send and the receive Backend
\* has its client do.  The predictor sends again only after it has received
\* (Predictor.cpp:131-141), so the client is never behind it.
Exchange ==
    \/ PredSend /\ B!ClientSend(Own)
    \/ PredReceive /\ B!ClientReceive(Own)

OtherApplication(t) ==
    /\ B!ClientSend(t) \/ B!ClientReceive(t)
    /\ UNCHANGED frontVars

Arbiting == B!ArbStep /\ UNCHANGED frontVars

Serving(t) == B!IBStep(t) /\ UNCHANGED frontVars

ProgramNext ==
    \/ Library
    \/ Exchange
    \/ Arbiting
    \/ \E t \in Tenants : Serving(t)
    \/ \E t \in Tenants \ {Own} : OtherApplication(t)

ProgramSpec == ProgramInit /\ [][ProgramNext]_programVars

\* The threads of both processes go on.  Only tenants other than 0 lock
\* m_mutex in competition with the arbiter (see Backend).
ProgramFairness ==
    /\ WF_programVars(InCall /\ UNCHANGED backVars)
    /\ WF_programVars((PredLocal /\ UNCHANGED backVars) \/ Exchange)
    /\ WF_programVars(Arbiting)
    /\ \A t \in Tenants :
          /\ WF_programVars(Serving(t))
          /\ SF_programVars(B!IBRecordActive(t) /\ UNCHANGED frontVars)
    /\ \A t \in Tenants \ {Own} :
          WF_programVars(B!ClientReceive(t) /\ UNCHANGED frontVars)

FairProgramSpec == ProgramSpec /\ ProgramFairness

-----------------------------------------------------------------------------
(* Properties *)

\* When the predictor releases a launch, the measurements of the batch it took
\* from the mailbox are in the backend's map (Predictor.cpp:94-139,
\* InterposerBackend.cpp:59-78).
MeasurementsDelivered ==
    pred = "notify" =>
        \A i \in 1 .. Len(batch.recs) : batch.recs[i] \in keys[Own]

\* What a request is for the library: under way until its response is sent.
Unanswered ==
    IF client[Own] = "waiting" /\ resps[Own] = 0
    THEN <<[key |-> seen.x, recs |-> batch.recs]>>
    ELSE <<>>

\* The backend, whatever its threads and the other tenants do, is to the library
\* what Frontend takes it for (its Daemon): for each request, one response after
\* it.  All that is shown of the library on its own holds of it in the program.
F == INSTANCE Frontend WITH
        reqs <- [t \in Tenants |-> IF t = Own THEN Unanswered ELSE <<>>],
        resps <- [t \in Tenants |-> IF t = Own THEN resps[Own] ELSE 0]

ImplementsLibrary == F!ZeroedSpec

\* A launch returns, unless the backend is gone, another tenant's thread has
\* leaked the backend's mutex, or the request's key was 0.
LaunchReturnsUnlessStuck ==
    app = "write" ~>
        (app = "idle" \/ ~B!Running \/ B!Leaked \/ B!Ignored(Own))

\* "Notify after response from daemon" (Predictor.cpp:54): every launch comes
\* to its Notify(2) and returns.
EveryLaunchReturns == app = "write" ~> app = "idle"

=============================================================================
