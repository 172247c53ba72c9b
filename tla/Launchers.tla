------------------------------ MODULE Launchers -----------------------------
(***************************************************************************)
(* Several threads of one application that call XrushLaunch: they share    *)
(* the Interposer, the Trigger with its one grid and two gates, and the    *)
(* one Predictor.  Frontend has what the library does for one thread; here *)
(* the predictor's work on a kernel - Window, mailbox and the exchange     *)
(* with the backend - is one place, "work".  The backend is taken to       *)
(* answer every request but those of key 0, which it drops; how else it    *)
(* can fail to is in Backend.                                              *)
(*                                                                         *)
(* WriteData and ReadData copy the grid without a lock, a component at a    *)
(* time and in no order a build has to keep: where copies overlap, what is *)
(* in m_grid or in the predictor's copy may be a mix of two grids.         *)
(*                                                                         *)
(* Faulty... definitions: see RequestPool.                                 *)
(***************************************************************************)
EXTENDS Grids, FiniteSets

CONSTANT Threads        \* the application's threads that launch

ASSUME ThreadsAssumption == IsFiniteSet(Threads) /\ Threads # {}

VARIABLES
    thr,            \* where each thread is
    asked,          \* the grid of the launch it is in
    towrite,        \* the components of it that are not in m_grid yet
    ready1,         \* m_ready_1
    ready2,         \* m_ready_2
    grid,           \* m_grid
    pred,           \* where the Predictor's thread is
    seen,           \* its copy g of the grid
    toread,         \* the components that are not in it yet
    lib             \* m_lib

thrVars == <<thr, asked, towrite>>
gateVars == <<ready1, ready2>>
predVars == <<pred, seen, toread, lib>>
vars == <<thrVars, gateVars, grid, predVars>>

Components == {"x", "y"}

\* The constructor leaves m_grid unwritten, as it does the flags.
FaultyInit ==
    /\ thr = [t \in Threads |-> "idle"]
    /\ asked = [t \in Threads |-> NoGrid]
    /\ towrite = [t \in Threads |-> {}]
    /\ ready1 = FALSE
    /\ ready2 = FALSE
    /\ grid = NoGrid
    /\ pred = "wait"
    /\ seen = DefaultGrid
    /\ toread = {}
    /\ lib = FALSE

\* The memory the Trigger is built in happened to be zero.
Init ==
    /\ thr = [t \in Threads |-> "idle"]
    /\ asked = [t \in Threads |-> NoGrid]
    /\ towrite = [t \in Threads |-> {}]
    /\ ready1 = FALSE
    /\ ready2 = FALSE
    /\ grid = DefaultGrid
    /\ pred = "wait"
    /\ seen = DefaultGrid
    /\ toread = {}
    /\ lib = FALSE

Goto(t, from, to) == thr[t] = from /\ thr' = [thr EXCEPT ![t] = to]
PredGoto(from, to) == pred = from /\ pred' = to

-----------------------------------------------------------------------------
(* Interposer::launch *)

LaunchCall(t) ==
    /\ Goto(t, "idle", "write")
    /\ \E g \in Grids : asked' = [asked EXCEPT ![t] = g]
    /\ towrite' = [towrite EXCEPT ![t] = Components]
    /\ UNCHANGED <<gateVars, grid, predVars>>

WriteComponent(t, c) ==
    /\ thr[t] = "write"
    /\ c \in towrite[t]
    /\ towrite' = [towrite EXCEPT ![t] = @ \ {c}]
    /\ UNCHANGED <<thr, asked, gateVars, predVars>>

LaunchWrite(t) ==
    \/ WriteComponent(t, "x") /\ grid' = [grid EXCEPT !.x = asked[t].x]
    \/ WriteComponent(t, "y") /\ grid' = [grid EXCEPT !.y = asked[t].y]

LaunchNotify(t) ==
    /\ Goto(t, "write", "wait")
    /\ towrite[t] = {}
    /\ ready1' = TRUE
    /\ UNCHANGED <<asked, towrite, ready2, grid, predVars>>

\* The permit is not used up.
FaultyLaunchWait(t) ==
    /\ Goto(t, "wait", "idle")
    /\ ready2
    /\ asked' = [asked EXCEPT ![t] = NoGrid]
    /\ UNCHANGED <<towrite, gateVars, grid, predVars>>

LaunchWait(t) ==
    /\ Goto(t, "wait", "idle")
    /\ ready2
    /\ ready2' = FALSE
    /\ asked' = [asked EXCEPT ![t] = NoGrid]
    /\ UNCHANGED <<towrite, ready1, grid, predVars>>

-----------------------------------------------------------------------------
(* Predictor::ProcessTrigger *)

PredWait ==
    /\ PredGoto("wait", "read")
    /\ ready1
    /\ ready1' = FALSE
    /\ toread' = Components
    /\ UNCHANGED <<thrVars, ready2, grid, seen, lib>>

ReadComponent(c) ==
    /\ pred = "read"
    /\ c \in toread
    /\ toread' = toread \ {c}
    /\ UNCHANGED <<thrVars, gateVars, grid, pred, lib>>

PredRead ==
    \/ ReadComponent("x") /\ seen' = [seen EXCEPT !.x = grid.x]
    \/ ReadComponent("y") /\ seen' = [seen EXCEPT !.y = grid.y]

HasRead == toread = {} /\ UNCHANGED <<thrVars, gateVars, grid, seen, toread>>

PredStartLib ==
    /\ PredGoto("read", "notify")
    /\ HasRead
    /\ seen = StartOfLibrary /\ ~lib
    /\ UNCHANGED lib

\* The launch of the mark is not released.
FaultyPredEndLib ==
    /\ PredGoto("read", "wait")
    /\ HasRead
    /\ seen = EndOfLibrary /\ ~lib
    /\ lib' = TRUE

PredEndLib ==
    /\ PredGoto("read", "notify")
    /\ HasRead
    /\ seen = EndOfLibrary /\ ~lib
    /\ lib' = TRUE

PredKernel ==
    /\ PredGoto("read", "work")
    /\ HasRead
    /\ seen \in {StartOfLibrary, EndOfLibrary} => lib
    /\ lib' = FALSE

\* The loop around receive is not left.
FaultyPredWork ==
    /\ PredGoto("work", "work")
    /\ seen.x # 0
    /\ UNCHANGED <<thrVars, gateVars, grid, seen, toread, lib>>

\* The key is the grid's x: a request of key 0 is not answered, and the loop
\* around receive goes on for ever.
PredWork ==
    /\ PredGoto("work", "notify")
    /\ seen.x # 0
    /\ UNCHANGED <<thrVars, gateVars, grid, seen, toread, lib>>

PredNotify ==
    /\ PredGoto("notify", "wait")
    /\ ready2' = TRUE
    /\ UNCHANGED <<thrVars, ready1, grid, seen, toread, lib>>

-----------------------------------------------------------------------------

PredStep ==
    \/ PredWait \/ PredRead
    \/ PredStartLib \/ PredEndLib \/ PredKernel
    \/ PredWork \/ PredNotify

\* A thread goes on inside a call, without having to make one.
InCall(t) == LaunchWrite(t) \/ LaunchNotify(t) \/ LaunchWait(t)

Next ==
    \/ \E t \in Threads : LaunchCall(t) \/ InCall(t)
    \/ PredStep

Spec == Init /\ [][Next]_vars

FairSpec ==
    /\ Spec
    /\ WF_vars(PredStep)
    /\ \A t \in Threads : WF_vars(InCall(t))

-----------------------------------------------------------------------------
(* Properties *)

TypeOK ==
    /\ thr \in [Threads -> {"idle", "write", "wait"}]
    /\ asked \in [Threads -> Grids \union {NoGrid}]
    /\ towrite \in [Threads -> SUBSET Components]
    /\ ready1 \in BOOLEAN
    /\ ready2 \in BOOLEAN
    /\ grid \in Grid
    /\ pred \in {"wait", "read", "work", "notify"}
    /\ seen \in Grid
    /\ toread \in SUBSET Components
    /\ lib \in BOOLEAN

Waiting == {t \in Threads : thr[t] = "wait"}
Busy == pred # "wait"

\* The launch a release is under way for: one whose trigger is in gate 1, one
\* the predictor is at, one whose permit is in gate 2.
One(b) == IF b THEN 1 ELSE 0
Releases == One(ready1) + One(Busy) + One(ready2)

\* There are never more releases under way than launches that wait, though two
\* launches may leave one trigger: when none waits both gates are shut, and no
\* later launch returns before the predictor has looked at a grid since its
\* call (Interposer.cpp:51-53, Trigger.cpp:68-80).
NoSpareRelease == Releases <= Cardinality(Waiting)

\* Threads that launch at the same time may share one trigger, and then one of
\* them goes on waiting for a release nobody will make (Interposer.cpp:52).
\* When all of them wait it is not because the gates lost their releases: one is
\* still in a gate or with the predictor, which may be held up by the backend.
NotEveryoneLost == Waiting = Threads => ready1 \/ Busy \/ ready2

\* If all threads are inside a launch, one of them will come out - unless the
\* predictor has sent a request of key 0 (Predictor.cpp:131-138), for a kernel of
\* that key, a start mark in the wrong place or a mix of two grids: the backend
\* drops it (Arbiter.cpp:51) and all threads stay where they are.
SomeoneReturns ==
    (\A t \in Threads : thr[t] # "idle")
        ~> \/ \E t \in Threads : thr[t] = "idle"
           \/ [](pred = "work" /\ seen.x = 0)

=============================================================================
