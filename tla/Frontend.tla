------------------------------ MODULE Frontend ------------------------------
(***************************************************************************)
(* The client library inside an application: one application thread, which *)
(* calls XrushCreate, then XrushLaunch and XrushProfile in any order, then *)
(* perhaps XrushDestroy; the Predictor's thread; and what the two share,   *)
(* the Trigger, the Window and the GlobalWindow's mailbox.                 *)
(*                                                                         *)
(* The two gates of Trigger are used through what Gate promises.  Window   *)
(* takes no lock and nothing comes of the values the predictor reads from  *)
(* it, so it is represented by who is inside it.  CuptiProfiler is what    *)
(* XrushProfile does with its outcome: some batch of measurements, or a    *)
(* vector read behind its end.  Profiler has which, and when.              *)
(*                                                                         *)
(* Where the code's behaviour is undefined there is a choice: a copy of    *)
(* m_grid that overlaps a write of it may be a mix of the two grids, and a *)
(* use of Window that overlaps a write or follows its deletion, or of a    *)
(* Communicator that is not there yet, may take the process down; so may   *)
(* what CuptiProfiler reads behind a vector's end.                         *)
(*                                                                         *)
(* Faulty... definitions: see RequestPool.                                 *)
(***************************************************************************)
EXTENDS Channels, Grids

CONSTANTS
    Batches,        \* what a reading of the profiler may yield: the grid.x of
                    \* each measurement, in order
    PacketRecords,  \* how many measurements m_pkt has room for
    MaxReadings     \* bound: readings of the profiler

ASSUME BatchesAssumption == Batches \subseteq Seq(Nat)

ASSUME BoundAssumption == PacketRecords \in Nat /\ MaxReadings \in Nat

\* The tenant every Predictor talks to: both URLs are tenant 0's.
Own == 0

VARIABLES
    app,            \* where the application's thread is
    asked,          \* the grid of the launch it is in
    ready1,         \* m_ready_1: there is a launch to look at
    ready2,         \* m_ready_2: the launch may return
    grid,           \* m_grid
    pred,           \* where the Predictor's thread is
    seen,           \* its copy g of the grid
    lib,            \* m_lib: an end mark was the last thing seen
    reading,        \* how many readings of the profiler there have been
    mailbox,        \* m_recs, with the number of the reading it is from
    stale,          \* m_stale: the mailbox has been consumed
    sent,           \* history: the readings that have gone to the backend
    batch           \* the predictor's copy r of the measurements

triggerVars == <<ready1, ready2, grid>>
mailVars == <<mailbox, stale, sent>>
appVars == <<app, asked, reading>>
predVars == <<pred, seen, lib, batch>>
frontVars == <<appVars, triggerVars, mailVars, predVars>>

NoBatch == [from |-> 0, recs |-> <<>>]

AppPC == {"new", "connecting", "binding", "idle", "write", "notify", "wait",
          "measure", "destroyed", "crashed"}
PredPC == {"unborn", "wait", "read", "window", "consume", "send", "receive",
           "notify", "crashed"}

\* Trigger's constructor writes neither flag.
FrontInit ==
    /\ app = "new"
    /\ asked = NoGrid
    /\ ready1 \in BOOLEAN
    /\ ready2 \in BOOLEAN
    /\ grid = DefaultGrid
    /\ pred = "unborn"
    /\ seen = DefaultGrid
    /\ lib = FALSE
    /\ reading = 0
    /\ mailbox = NoBatch
    /\ stale = TRUE
    /\ sent = <<>>
    /\ batch = NoBatch

\* Neither thread runs on in a process that has crashed.
Alive == app # "crashed" /\ pred # "crashed"

AppGoto(from, to) == Alive /\ app = from /\ app' = to
PredGoto(from, to) == Alive /\ pred = from /\ pred' = to

-----------------------------------------------------------------------------
(* XrushCreate: the Predictor's constructor starts its thread first, then  *)
(* makes and connects m_req_comm, then makes and binds m_resp_comm.        *)

CreateThread ==
    /\ AppGoto("new", "connecting")
    /\ PredGoto("unborn", "wait")
    /\ UNCHANGED <<asked, reading, triggerVars, mailVars, seen, lib, batch, channelVars>>

CreateConnect ==
    /\ AppGoto("connecting", "binding")
    /\ UNCHANGED <<asked, reading, triggerVars, mailVars, predVars, channelVars>>

CreateBind ==
    /\ AppGoto("binding", "idle")
    /\ UNCHANGED <<asked, reading, triggerVars, mailVars, predVars, channelVars>>

-----------------------------------------------------------------------------
(* XrushLaunch: WriteData, Notify(1), Wait(2). *)

LaunchCall(g) ==
    /\ AppGoto("idle", "write")
    /\ asked' = g
    /\ UNCHANGED <<reading, triggerVars, mailVars, predVars, channelVars>>

LaunchWrite ==
    /\ AppGoto("write", "notify")
    /\ grid' = asked
    /\ UNCHANGED <<asked, reading, ready1, ready2, mailVars, predVars, channelVars>>

LaunchNotify ==
    /\ AppGoto("notify", "wait")
    /\ ready1' = TRUE
    /\ UNCHANGED <<asked, reading, ready2, grid, mailVars, predVars, channelVars>>

\* The launch does not wait.
FaultyLaunchWait ==
    /\ AppGoto("wait", "idle")
    /\ asked' = NoGrid
    /\ UNCHANGED <<reading, triggerVars, mailVars, predVars, channelVars>>

LaunchWait ==
    /\ AppGoto("wait", "idle")
    /\ ready2
    /\ ready2' = FALSE
    /\ asked' = NoGrid
    /\ UNCHANGED <<reading, ready1, grid, mailVars, predVars, channelVars>>

-----------------------------------------------------------------------------
(* XrushProfile: the measurements go to Window one by one, then all of     *)
(* them to the mailbox, over whatever was in it.                           *)

ProfileMeasure ==
    /\ AppGoto("idle", "measure")
    /\ reading < MaxReadings
    /\ reading' = reading + 1
    /\ UNCHANGED <<asked, triggerVars, mailVars, predVars, channelVars>>

ProfileProduce ==
    /\ AppGoto("measure", "idle")
    /\ \E b \in Batches : mailbox' = [from |-> reading, recs |-> b]
    /\ stale' = FALSE
    /\ UNCHANGED <<asked, reading, triggerVars, sent, predVars, channelVars>>

\* A reading without a record, or one with too many that overlap, reads a
\* vector behind its end.
ProfileCrash ==
    /\ AppGoto("measure", "crashed")
    /\ UNCHANGED <<asked, reading, triggerVars, mailVars, predVars, channelVars>>

\* XrushDestroy deletes the profiler, the interposer and the window, not the
\* predictor.
Destroy ==
    /\ AppGoto("idle", "destroyed")
    /\ UNCHANGED <<asked, reading, triggerVars, mailVars, predVars, channelVars>>

-----------------------------------------------------------------------------
(* Predictor::ProcessTrigger *)

\* Waking up is taken for being notified.
FaultyPredWait ==
    /\ PredGoto("wait", "read")
    /\ ready1' = FALSE
    /\ UNCHANGED <<appVars, ready2, grid, mailVars, seen, lib, batch, channelVars>>

PredWait ==
    /\ PredGoto("wait", "read")
    /\ ready1
    /\ ready1' = FALSE
    /\ UNCHANGED <<appVars, ready2, grid, mailVars, seen, lib, batch, channelVars>>

\* What ReadData may copy.
Copies ==
    IF app = "write"
    THEN Mixes({grid, asked})
    ELSE {grid}

\* A start mark outside m_lib: the launch is released.
PredStartLib ==
    /\ PredGoto("read", "notify")
    /\ seen' \in Copies \intersect {StartOfLibrary}
    /\ ~lib
    /\ UNCHANGED <<appVars, triggerVars, mailVars, lib, batch, channelVars>>

\* The launch of the mark is not released.
FaultyPredEndLib ==
    /\ PredGoto("read", "wait")
    /\ seen' \in Copies \intersect {EndOfLibrary}
    /\ ~lib
    /\ lib' = TRUE
    /\ UNCHANGED <<appVars, triggerVars, mailVars, batch, channelVars>>

\* An end mark outside m_lib.
PredEndLib ==
    /\ PredGoto("read", "notify")
    /\ seen' \in Copies \intersect {EndOfLibrary}
    /\ ~lib
    /\ lib' = TRUE
    /\ UNCHANGED <<appVars, triggerVars, mailVars, batch, channelVars>>

\* Anything else, the first mark after an end mark included, is a kernel.
PredKernel ==
    /\ PredGoto("read", "window")
    /\ seen' \in Copies \ (IF lib THEN {} ELSE {StartOfLibrary, EndOfLibrary})
    /\ lib' = FALSE
    /\ UNCHANGED <<appVars, triggerVars, mailVars, batch, channelVars>>

\* ReadDataActive and ReadDataIdle.
PredWindow ==
    /\ PredGoto("window", "consume")
    /\ UNCHANGED <<appVars, triggerVars, mailVars, seen, lib, batch, channelVars>>

\* m_stale is not set.
FaultyPredConsume ==
    /\ PredGoto("consume", "send")
    /\ batch' = IF stale THEN NoBatch ELSE mailbox
    /\ UNCHANGED <<appVars, triggerVars, mailVars, seen, lib, channelVars>>

PredConsume ==
    /\ PredGoto("consume", "send")
    /\ batch' = IF stale THEN NoBatch ELSE mailbox
    /\ stale' = TRUE
    /\ UNCHANGED <<appVars, triggerVars, mailbox, sent, seen, lib, channelVars>>

\* m_req_comm exists and is connected; m_resp_comm exists and is bound.
Connected == app \notin {"new", "connecting"}
Bound == Connected /\ app # "binding"

\* The packet's array ends where the pointer to m_req_comm begins.
Fits == Len(batch.recs) <= PacketRecords

PredSend ==
    /\ PredGoto("send", "receive")
    /\ Connected
    /\ Fits
    /\ SendRequest(Own, [key |-> seen.x, recs |-> batch.recs])
    /\ sent' = IF batch.from = 0 THEN sent ELSE Append(sent, batch.from)
    /\ UNCHANGED <<appVars, triggerVars, mailbox, stale, seen, lib, batch>>

\* The thread walks a table that is changing or gone, or calls through a pointer
\* nobody has written, or through one the packet has been written over.
PredCrash ==
    /\ Alive
    /\ \/ pred = "window" /\ app \in {"measure", "destroyed"}
       \/ pred = "send" /\ ~(Connected /\ Fits)
       \/ pred = "receive" /\ ~Bound
    /\ pred' = "crashed"
    /\ UNCHANGED <<appVars, triggerVars, mailVars, seen, lib, batch, channelVars>>

PredReceive ==
    /\ PredGoto("receive", "notify")
    /\ Bound
    /\ TakeResponse(Own)
    /\ UNCHANGED <<appVars, triggerVars, mailVars, seen, lib, batch>>

PredNotify ==
    /\ PredGoto("notify", "wait")
    /\ ready2' = TRUE
    /\ UNCHANGED <<appVars, ready1, grid, mailVars, seen, lib, batch, channelVars>>

-----------------------------------------------------------------------------

AppStep ==
    \/ CreateThread \/ CreateConnect \/ CreateBind
    \/ \E g \in Grids : LaunchCall(g)
    \/ LaunchWrite \/ LaunchNotify \/ LaunchWait
    \/ ProfileMeasure \/ ProfileProduce \/ ProfileCrash
    \/ Destroy

PredLocal ==
    \/ PredWait \/ PredStartLib \/ PredEndLib \/ PredKernel
    \/ PredWindow \/ PredConsume \/ PredCrash \/ PredNotify

PredStep == PredLocal \/ PredSend \/ PredReceive

\* The backend, as one that answers every request.
Daemon ==
    /\ resps' = [resps EXCEPT ![Own] = @ + 1]
    /\ reqs[Own] # <<>>
    /\ reqs' = [reqs EXCEPT ![Own] = Tail(@)]
    /\ UNCHANGED frontVars

vars == <<frontVars, channelVars>>

Init == FrontInit /\ ChannelsInit

Next ==
    \/ AppStep
    \/ PredStep
    \/ Daemon

Spec == Init /\ [][Next]_vars

\* The memory the Trigger is built in happened to be zero.
ZeroedInit == Init /\ ~ready1 /\ ~ready2

ZeroedSpec == ZeroedInit /\ [][Next]_vars

\* The application's thread goes on inside a call, without having to make one;
\* the predictor and the backend go on.
InCall ==
    \/ CreateThread \/ CreateConnect \/ CreateBind
    \/ LaunchWrite \/ LaunchNotify \/ LaunchWait \/ ProfileProduce

FairSpec ==
    /\ Spec
    /\ WF_vars(InCall)
    /\ WF_vars(PredStep)
    /\ WF_vars(Daemon)

-----------------------------------------------------------------------------
(* Properties *)

FrontTypeOK ==
    /\ app \in AppPC
    /\ asked \in Grids \union {NoGrid}
    /\ ready1 \in BOOLEAN
    /\ ready2 \in BOOLEAN
    /\ grid \in Grid
    /\ pred \in PredPC
    /\ seen \in Grid
    /\ lib \in BOOLEAN
    /\ reading \in 0 .. MaxReadings
    /\ mailbox \in [from : Nat, recs : Seq(Nat)]
    /\ stale \in BOOLEAN
    /\ sent \in Seq(Nat)
    /\ batch \in [from : Nat, recs : Seq(Nat)]

TypeOK == FrontTypeOK /\ ChannelsTypeOK

\* From the moment the predictor has read m_grid until it releases the launch,
\* it works on the grid of the launch that waits for it; WriteData and ReadData
\* take no lock (Trigger.cpp:88-96).
HandlesThisLaunch ==
    pred \in {"window", "consume", "send", "receive", "notify"} =>
        app = "wait" /\ seen = asked

\* No thread writes Window's tables while the other reads them, though nobody
\* takes Window's mutex (Window.cpp:34-115, CuptiProfiler.cpp:238-258,
\* Predictor.cpp:92-93); and nobody reads them once XrushDestroy has deleted
\* them (Xrush.cpp:51).
WindowRaceFree == pred = "window" => app \notin {"measure", "destroyed"}

\* The predictor takes the process down only with a reading of more measurements
\* than a packet has room for (Predictor.h:41, Predictor.cpp:113-120): it never
\* meets XrushProfile or XrushDestroy in Window, nor uses a Communicator before
\* the constructor that started its thread has built it (Predictor.cpp:27-35).
\* XrushProfile's own ways to take it down (ProfileCrash) are another matter.
PredCrashOnlyByOverflow == pred = "crashed" => ~Fits

\* Whatever the order of XrushProfile and XrushLaunch, a reading goes to the
\* backend at most once, and none after a later one (GlobalWindow.cpp:57-110,
\* Predictor.cpp:94-131).
MeasurementsOnce == \A i, j \in 1 .. Len(sent) : i < j => sent[i] < sent[j]

\* "Notify after response from daemon, may choose to not contact daemon and
\* then, Interposer released quicker" (Predictor.cpp:54): when a launch
\* returns the predictor has taken its trigger, has dealt with its grid and is
\* back at the gate.
ReturnsSettled ==
    [][app = "wait" /\ app' = "idle" =>
          pred = "wait" /\ ~ready1 /\ seen = asked]_vars

\* A reading is on its way to the backend once the next launch of a kernel has
\* returned: it can only be lost to a reading that follows it at once
\* (GlobalWindow.cpp:61-84, Predictor.cpp:94).
LaunchTakesReading ==
    [][app = "wait" /\ app' = "idle" /\ asked \notin {StartOfLibrary, EndOfLibrary}
          => stale]_vars

\* The hand-over through the two gates implements the synchronous call.
L == INSTANCE Launch WITH settled <- IF ready2 THEN seen ELSE NoGrid

ImplementsLaunch == L!Spec

\* A launch returns, unless the process has crashed, even if the flags held
\* anything at the start: every launch leaves a permit for the predictor, and
\* the predictor leaves one in return.
LaunchReturns == app = "write" ~> (app = "idle" \/ ~Alive)

=============================================================================
