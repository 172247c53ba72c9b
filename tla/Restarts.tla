------------------------------ MODULE Restarts ------------------------------
(***************************************************************************)
(* The backend whose applications may end while they wait for a response,  *)
(* and be followed by others on the same tenant.  Backend's threads never  *)
(* learn of it: what the application has sent or was to be sent may be in  *)
(* its own end of a queue, and then goes with it, or in the backend's, and *)
(* then is there for the next one.                                         *)
(*                                                                         *)
(* Faulty... definitions: see RequestPool.                                 *)
(***************************************************************************)
EXTENDS Backend

CONSTANT MaxRestarts        \* bound, per tenant: applications that end waiting

ASSUME RestartsAssumption == MaxRestarts \in [Tenants -> Nat]

\* The application's request is the youngest; it may still be in its own socket.
\* Any of the responses may have reached its socket.
Abandon(t) ==
    /\ client[t] = "waiting"
    /\ abandoned[t] < MaxRestarts[t]
    /\ client' = [client EXCEPT ![t] = "idle"]
    /\ abandoned' = [abandoned EXCEPT ![t] = @ + 1]
    /\ \/ UNCHANGED reqs
       \/ /\ reqs[t] # <<>>
          /\ reqs' = [reqs EXCEPT ![t] = SubSeq(@, 1, Len(@) - 1)]
    /\ \E n \in 0 .. resps[t] : resps' = [resps EXCEPT ![t] = n]
    /\ UNCHANGED <<poolVars, mapVars, process, arbVars, ibVars>>

RestartNext ==
    \/ Next
    \/ \E t \in Tenants : Abandon(t)

RestartSpec == Init /\ [][RestartNext]_vars

\* The memory the pool is built in happened to be zero.
ZeroedRestartSpec == ZeroedInit /\ [][RestartNext]_vars

FairRestartSpec == RestartSpec /\ Fairness

-----------------------------------------------------------------------------
(* Properties *)

RestartTypeOK == TypeOK /\ abandoned \in [Tenants -> Nat]

\* An application that waits has a message on its way, and whatever is under
\* way beyond it was left behind by one that has ended: each of those shifts
\* the tenant's answers by one request at most (Predictor.cpp:131-141,
\* InterposerBackend.cpp:51-78).
AnswersShiftByRestartsOnly ==
    \A t \in Tenants :
        LET waiting == IF client[t] = "idle" THEN 0 ELSE 1
            underway == Len(reqs[t]) + (IF ib[t] = "receive" THEN 0 ELSE 1) + resps[t]
        IN  waiting <= underway /\ underway <= waiting + abandoned[t]

=============================================================================
