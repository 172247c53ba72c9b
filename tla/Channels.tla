------------------------------ MODULE Channels ------------------------------
(***************************************************************************)
(* The message queues between an application and the backend: per tenant,  *)
(* one nanomsg PUSH/PULL pair for requests and one for responses, each     *)
(* used through a Communicator.  Between one sender and one receiver,      *)
(* both up, such a pair is a reliable FIFO queue; send returns once the    *)
(* message is queued and receive blocks until there is one.  Every         *)
(* response is the same string, so the responses under way are a number.   *)
(***************************************************************************)
EXTENDS Tenancy, Sequences

\* key: the grid.x the application asks about.  recs: the grid.x of each
\* measurement that rides along.
Packet == [key : Nat, recs : Seq(Nat)]

VARIABLES
    reqs,           \* the requests under way to each tenant's thread
    resps           \* the number of responses under way back

channelVars == <<reqs, resps>>

ChannelsTypeOK ==
    /\ reqs \in [Tenants -> Seq(Packet)]
    /\ resps \in [Tenants -> Nat]

ChannelsInit ==
    /\ reqs = [t \in Tenants |-> <<>>]
    /\ resps = [t \in Tenants |-> 0]

SendRequest(t, p) ==
    /\ reqs' = [reqs EXCEPT ![t] = Append(@, p)]
    /\ UNCHANGED resps

\* receive leaves the message in the queue.
FaultyTakeRequest(t) == reqs[t] # <<>> /\ UNCHANGED channelVars

TakeRequest(t) ==
    /\ reqs[t] # <<>>
    /\ reqs' = [reqs EXCEPT ![t] = Tail(@)]
    /\ UNCHANGED resps

\* The response is lost (see RequestPool for Faulty...).
FaultySendResponse(t) == UNCHANGED channelVars

SendResponse(t) ==
    /\ resps' = [resps EXCEPT ![t] = @ + 1]
    /\ UNCHANGED reqs

\* receive returns with or without a message.
FaultyTakeResponse(t) ==
    /\ resps' = [resps EXCEPT ![t] = @ - 1]
    /\ UNCHANGED reqs

TakeResponse(t) ==
    /\ resps[t] > 0
    /\ resps' = [resps EXCEPT ![t] = @ - 1]
    /\ UNCHANGED reqs

=============================================================================
