--------------------------- MODULE FrontendProofs ---------------------------
(***************************************************************************)
(* The safety of Frontend for any grids, batches and number of readings.   *)
(***************************************************************************)
EXTENDS Frontend, TLAPS

-----------------------------------------------------------------------------
(* Typing *)

\* What LaunchWrite stores is the grid of a launch, which NoGrid is not:
\* FrontTypeOK alone is not inductive.
Typing == FrontTypeOK /\ (app = "write" => asked # NoGrid)

LEMMA CopiesAreGrids == Typing => Copies \subseteq Grid
  BY GridsAssumption DEF Typing, FrontTypeOK, Copies, Mixes, Grid

\* The library's own state is well typed.
THEOREM FrontTypeCorrect == Spec => []FrontTypeOK
<1> USE GridsAssumption, BatchesAssumption, BoundAssumption
<1>1. Init => Typing
  <2>1. NoBatch \in [from : Nat, recs : Seq(Nat)]
    BY DEF NoBatch
  <2>2. ASSUME FrontInit
        PROVE  /\ app \in AppPC /\ pred \in PredPC
               /\ reading \in 0 .. MaxReadings
    BY <2>2 DEF FrontInit, AppPC, PredPC
  <2>3. DefaultGrid \in Grid
    BY DEF DefaultGrid, Grid
  <2>4. <<>> \in Seq(Nat)
    OBVIOUS
  <2>5. QED
    BY <2>1, <2>2, <2>3, <2>4 DEF Init, FrontInit, FrontTypeOK, Typing
<1>2. Typing /\ [Next]_vars => Typing'
  <2> SUFFICES ASSUME Typing, [Next]_vars
               PROVE  Typing'
    OBVIOUS
  <2> USE DEF Typing, FrontTypeOK, AppPC, PredPC, NoBatch,
              frontVars, appVars, triggerVars, mailVars, predVars
  <2>1. CASE CreateThread
    BY <2>1 DEF CreateThread, AppGoto, PredGoto
  <2>2. CASE CreateConnect
    BY <2>2 DEF CreateConnect, AppGoto
  <2>3. CASE CreateBind
    BY <2>3 DEF CreateBind, AppGoto
  <2>4. ASSUME NEW g \in Grids, LaunchCall(g)
        PROVE  Typing'
    BY <2>4 DEF LaunchCall, AppGoto
  <2>4a. CASE LaunchWrite
    BY <2>4a DEF LaunchWrite, AppGoto
  <2>5. CASE LaunchNotify
    BY <2>5 DEF LaunchNotify, AppGoto
  <2>6. CASE LaunchWait
    BY <2>6 DEF LaunchWait, AppGoto
  <2>7. CASE ProfileMeasure
    BY <2>7 DEF ProfileMeasure, AppGoto
  <2>8. CASE ProfileProduce
    <3>1. PICK b \in Batches : mailbox' = [from |-> reading, recs |-> b]
      BY <2>8 DEF ProfileProduce
    <3>2. mailbox' \in [from : Nat, recs : Seq(Nat)]
      BY <3>1
    <3>3. QED
      BY <2>8, <3>2 DEF ProfileProduce, AppGoto
  <2>8a. CASE ProfileCrash
    BY <2>8a DEF ProfileCrash, AppGoto
  <2>9. CASE Destroy
    BY <2>9 DEF Destroy, AppGoto
  <2>10. CASE PredWait
    BY <2>10 DEF PredWait, PredGoto
  <2>11. CASE PredStartLib
    BY <2>11, CopiesAreGrids DEF PredStartLib, PredGoto
  <2>12. CASE PredEndLib
    BY <2>12, CopiesAreGrids DEF PredEndLib, PredGoto
  <2>13. CASE PredKernel
    BY <2>13, CopiesAreGrids DEF PredKernel, PredGoto
  <2>14. CASE PredWindow
    BY <2>14 DEF PredWindow, PredGoto
  <2>15. CASE PredConsume
    BY <2>15 DEF PredConsume, PredGoto
  <2>16. CASE PredCrash
    BY <2>16 DEF PredCrash, Connected, Bound
  <2>17. CASE PredNotify
    BY <2>17 DEF PredNotify, PredGoto
  <2>18. CASE PredSend
    BY <2>18 DEF PredSend, PredGoto
  <2>19. CASE PredReceive
    BY <2>19 DEF PredReceive, PredGoto
  <2>20. CASE Daemon
    BY <2>20 DEF Daemon
  <2>21. CASE UNCHANGED vars
    BY <2>21 DEF vars
  <2>22. QED
    BY <2>1, <2>2, <2>3, <2>4, <2>4a, <2>5, <2>6, <2>7, <2>8, <2>8a, <2>9, <2>10, <2>11,
       <2>12, <2>13, <2>14, <2>15, <2>16, <2>17, <2>18, <2>19, <2>20, <2>21
       DEF Next, AppStep, PredStep, PredLocal
<1>3. Typing => FrontTypeOK
  BY DEF Typing
<1>4. QED
  BY <1>1, <1>2, <1>3, PTL DEF Spec

\* With what is in the queues: the state is well typed for any grids, batches and
\* number of readings.
THEOREM TypeCorrect == Spec => []TypeOK
<1>1. Init => ChannelsTypeOK
  BY DEF Init, ChannelsInit, ChannelsTypeOK
<1>2. FrontTypeOK /\ ChannelsTypeOK /\ [Next]_vars => ChannelsTypeOK'
  <2> SUFFICES ASSUME FrontTypeOK, ChannelsTypeOK, [Next]_vars
               PROVE  ChannelsTypeOK'
    OBVIOUS
  <2>1. Own \in Tenants
    BY NumTenantsAssumption DEF Own, Tenants
  <2>2. CASE PredSend
    <3>1. [key |-> seen.x, recs |-> batch.recs] \in Packet
      BY DEF FrontTypeOK, Grid, Packet
    <3>2. Append(reqs[Own], [key |-> seen.x, recs |-> batch.recs]) \in Seq(Packet)
      BY <2>1, <3>1 DEF ChannelsTypeOK
    <3>3. QED
      BY <2>1, <2>2, <3>2 DEF PredSend, SendRequest, ChannelsTypeOK
  <2>3. CASE PredReceive
    BY <2>1, <2>3 DEF PredReceive, TakeResponse, ChannelsTypeOK
  <2>4. CASE Daemon
    BY <2>1, <2>4 DEF Daemon, ChannelsTypeOK
  <2>5. CASE UNCHANGED channelVars
    BY <2>5 DEF channelVars, ChannelsTypeOK
  <2>6. QED
    BY <2>2, <2>3, <2>4, <2>5
    DEF Next, AppStep, PredStep, PredLocal, vars, CreateThread, CreateConnect,
        CreateBind, LaunchCall, LaunchWrite, LaunchNotify, LaunchWait,
        ProfileMeasure, ProfileProduce, ProfileCrash, Destroy, PredWait, PredStartLib, PredEndLib,
        PredKernel, PredWindow, PredConsume, PredCrash, PredNotify
<1>3. QED
  BY <1>1, <1>2, FrontTypeCorrect, PTL DEF Spec, TypeOK

-----------------------------------------------------------------------------
(* The hand-over *)

Working == {"window", "consume", "send", "receive", "notify"}

\* A launch is at exactly one place: its trigger is in gate 1, the predictor
\* reads it, the predictor works on it, or its permit is in gate 2 - or the
\* predictor has gone down on a packet that was too long.  With no launch waiting both gates are empty and the predictor is at the first.
\* HandlesThisLaunch says this of one of the four places only, so it does not
\* carry over a step by itself.
HandOver ==
    /\ app = "wait" =>
          \/ ready1 /\ ~ready2 /\ pred = "wait" /\ grid = asked
          \/ ~ready1 /\ ~ready2 /\ pred = "read" /\ grid = asked
          \/ ~ready1 /\ ~ready2 /\ pred \in Working /\ seen = asked
          \/ ~ready1 /\ ready2 /\ pred = "wait" /\ seen = asked
          \/ ~ready1 /\ ~ready2 /\ pred = "crashed" /\ ~Fits
    /\ app # "wait" => ~ready1 /\ ~ready2 /\ pred \in {"unborn", "wait"}
    /\ app = "notify" => grid = asked
    /\ app \in {"write", "notify", "wait"} <=> asked # NoGrid
    /\ app # "new" => pred # "unborn"

LEMMA HandOverCorrect == ZeroedSpec => []HandOver
<1> USE GridsAssumption DEF HandOver, Working, Fits
<1>1. ZeroedInit => HandOver
  BY DEF ZeroedInit, Init, FrontInit
<1>2. HandOver /\ [Next]_vars => HandOver'
  <2> SUFFICES ASSUME HandOver, [Next]_vars
               PROVE  HandOver'
    OBVIOUS
  <2> USE DEF frontVars, appVars, triggerVars, mailVars, predVars
  <2>1. CASE CreateThread
    BY <2>1 DEF CreateThread, AppGoto, PredGoto
  <2>2. CASE CreateConnect
    BY <2>2 DEF CreateConnect, AppGoto
  <2>3. CASE CreateBind
    BY <2>3 DEF CreateBind, AppGoto
  <2>4. ASSUME NEW g \in Grids, LaunchCall(g)
        PROVE  HandOver'
    BY <2>4 DEF LaunchCall, AppGoto
  <2>4a. CASE LaunchWrite
    BY <2>4a DEF LaunchWrite, AppGoto
  <2>5. CASE LaunchNotify
    BY <2>5 DEF LaunchNotify, AppGoto
  <2>6. CASE LaunchWait
    BY <2>6 DEF LaunchWait, AppGoto
  <2>7. CASE ProfileMeasure
    BY <2>7 DEF ProfileMeasure, AppGoto
  <2>8. CASE ProfileProduce
    BY <2>8 DEF ProfileProduce, AppGoto
  <2>8a. CASE ProfileCrash
    BY <2>8a DEF ProfileCrash, AppGoto
  <2>9. CASE Destroy
    BY <2>9 DEF Destroy, AppGoto
  <2>10. CASE PredWait
    BY <2>10 DEF PredWait, PredGoto
  <2>11. CASE PredStartLib
    BY <2>11 DEF PredStartLib, PredGoto, Copies, Mixes
  <2>12. CASE PredEndLib
    BY <2>12 DEF PredEndLib, PredGoto, Copies, Mixes
  <2>13. CASE PredKernel
    BY <2>13 DEF PredKernel, PredGoto, Copies, Mixes
  <2>14. CASE PredWindow
    BY <2>14 DEF PredWindow, PredGoto
  <2>15. CASE PredConsume
    BY <2>15 DEF PredConsume, PredGoto
  \* A predictor at send or receive means a launch waits, so all is built.
  <2>16. CASE PredCrash
    BY <2>16 DEF PredCrash, Connected, Bound
  \* The permit of gate 2 is the launch's own: there was none.
  <2>17. CASE PredNotify
    BY <2>17 DEF PredNotify, PredGoto
  <2>18. CASE PredSend
    BY <2>18 DEF PredSend, PredGoto
  <2>19. CASE PredReceive
    BY <2>19 DEF PredReceive, PredGoto
  <2>20. CASE Daemon
    BY <2>20 DEF Daemon
  <2>21. CASE UNCHANGED vars
    BY <2>21 DEF vars
  <2>22. QED
    BY <2>1, <2>2, <2>3, <2>4, <2>4a, <2>5, <2>6, <2>7, <2>8, <2>8a, <2>9, <2>10, <2>11,
       <2>12, <2>13, <2>14, <2>15, <2>16, <2>17, <2>18, <2>19, <2>20, <2>21
       DEF Next, AppStep, PredStep, PredLocal
<1>3. QED
  BY <1>1, <1>2, PTL DEF ZeroedSpec

\* With the flags down at the start, the predictor always works on the grid of
\* the launch that waits for it.
THEOREM HandlesThisLaunchCorrect == ZeroedSpec => []HandlesThisLaunch
<1>1. HandOver => HandlesThisLaunch
  BY DEF HandOver, HandlesThisLaunch, Working
<1>2. QED
  BY <1>1, HandOverCorrect, PTL

\* ... so that the unlocked Window is never in use by both threads, nor after
\* it has been deleted.
THEOREM WindowCorrect == ZeroedSpec => []WindowRaceFree
<1>1. HandOver => WindowRaceFree
  BY DEF HandOver, WindowRaceFree, Working
<1>2. QED
  BY <1>1, HandOverCorrect, PTL

\* ... and no Communicator is used before it is there, although the thread that
\* uses them is started first: only a packet that is too long is left for the
\* predictor to bring the process down with.
THEOREM CrashCorrect == ZeroedSpec => []PredCrashOnlyByOverflow
<1>1. HandOver => PredCrashOnlyByOverflow
  BY DEF HandOver, Working, PredCrashOnlyByOverflow
<1>2. QED
  BY <1>1, HandOverCorrect, PTL

-----------------------------------------------------------------------------
(* The hand-over implements Launch *)

\* With the flags down at the start, XrushLaunch is a synchronous call that is
\* settled for its own grid.
THEOREM FrontendImplementsLaunch == ZeroedSpec => ImplementsLaunch
<1> USE GridsAssumption DEF HandOver, Working
<1>1. ZeroedInit => L!Init
  BY DEF ZeroedInit, Init, FrontInit, L!Init
<1>2. HandOver /\ [Next]_vars => [L!Next]_(L!vars)
  <2> SUFFICES ASSUME HandOver, [Next]_vars
               PROVE  L!Next \/ UNCHANGED L!vars
    BY DEF L!vars
  <2> USE DEF L!vars, frontVars, appVars, triggerVars, mailVars, predVars
  <2>1. CASE CreateThread
    BY <2>1 DEF CreateThread, AppGoto, PredGoto
  <2>2. CASE CreateConnect
    BY <2>2 DEF CreateConnect, AppGoto
  <2>3. CASE CreateBind
    BY <2>3 DEF CreateBind, AppGoto
  <2>4. ASSUME NEW g \in Grids, LaunchCall(g)
        PROVE  L!Next \/ UNCHANGED L!vars
    BY <2>4 DEF LaunchCall, AppGoto, L!Next, L!Call
  <2>4a. CASE LaunchWrite
    BY <2>4a DEF LaunchWrite, AppGoto
  <2>5. CASE LaunchNotify
    BY <2>5 DEF LaunchNotify, AppGoto
  <2>6. CASE LaunchWait
    BY <2>6 DEF LaunchWait, AppGoto, L!Next, L!Return
  <2>7. CASE ProfileMeasure
    BY <2>7 DEF ProfileMeasure, AppGoto
  <2>8. CASE ProfileProduce
    BY <2>8 DEF ProfileProduce, AppGoto
  <2>8a. CASE ProfileCrash
    BY <2>8a DEF ProfileCrash, AppGoto
  <2>9. CASE Destroy
    BY <2>9 DEF Destroy, AppGoto
  <2>10. CASE PredWait
    BY <2>10 DEF PredWait, PredGoto
  <2>11. CASE PredStartLib
    BY <2>11 DEF PredStartLib, PredGoto, Copies, Mixes
  <2>12. CASE PredEndLib
    BY <2>12 DEF PredEndLib, PredGoto, Copies, Mixes
  <2>13. CASE PredKernel
    BY <2>13 DEF PredKernel, PredGoto, Copies, Mixes
  <2>14. CASE PredWindow
    BY <2>14 DEF PredWindow, PredGoto
  <2>15. CASE PredConsume
    BY <2>15 DEF PredConsume, PredGoto
  <2>16. CASE PredCrash
    BY <2>16 DEF PredCrash, Connected, Bound
  <2>17. CASE PredNotify
    BY <2>17 DEF PredNotify, PredGoto, L!Next, L!Settle
  <2>18. CASE PredSend
    BY <2>18 DEF PredSend, PredGoto
  <2>19. CASE PredReceive
    BY <2>19 DEF PredReceive, PredGoto
  <2>20. CASE Daemon
    BY <2>20 DEF Daemon
  <2>21. CASE UNCHANGED vars
    BY <2>21 DEF vars
  <2>22. QED
    BY <2>1, <2>2, <2>3, <2>4, <2>4a, <2>5, <2>6, <2>7, <2>8, <2>8a, <2>9, <2>10, <2>11,
       <2>12, <2>13, <2>14, <2>15, <2>16, <2>17, <2>18, <2>19, <2>20, <2>21
       DEF Next, AppStep, PredStep, PredLocal
<1>3. QED
  BY <1>1, <1>2, HandOverCorrect, PTL DEF ZeroedSpec, ImplementsLaunch, L!Spec

-----------------------------------------------------------------------------
(* The mailbox *)

\* n is a reading later than all that have been sent.
AfterSent(n) == \A i \in 1 .. Len(sent) : sent[i] < n

\* What has been sent is no newer than the mailbox, and older if the mailbox is
\* still to be consumed; so is what the predictor holds, which is newer than what
\* has been sent; and the mailbox is no newer than the readings that have finished.
Readings ==
    /\ MeasurementsOnce
    /\ mailbox.from <= reading
    /\ app = "measure" => mailbox.from < reading
    /\ \A i \in 1 .. Len(sent) : sent[i] <= mailbox.from
    /\ ~stale => AfterSent(mailbox.from) /\ batch.from < mailbox.from
    /\ batch.from <= mailbox.from
    /\ pred = "send" => batch.from = 0 \/ AfterSent(batch.from)

\* A later reading at the end leaves what was sent in order.
LEMMA SentInOrder ==
  ASSUME sent \in Seq(Nat), MeasurementsOnce, NEW n \in Nat, AfterSent(n),
         sent' = Append(sent, n)
  PROVE  MeasurementsOnce' /\ \A i \in 1 .. Len(sent') : sent'[i] <= n /\ sent'[i] \in Nat
<1>1. Len(sent') = Len(sent) + 1 /\ Len(sent) \in Nat
  OBVIOUS
<1>2. /\ sent'[Len(sent) + 1] = n
      /\ \A i \in 1 .. Len(sent) : sent'[i] = sent[i] /\ sent[i] \in Nat
  OBVIOUS
<1>3. QED
  BY <1>1, <1>2 DEF MeasurementsOnce, AfterSent

\* Whatever the flags held at the start, no reading of the profiler is sent
\* twice, nor after a later one.
THEOREM MeasurementsOnceCorrect == Spec => []MeasurementsOnce
<1> USE DEF Readings, FrontTypeOK
<1>1. Init => Readings
  BY DEF Init, FrontInit, NoBatch, MeasurementsOnce, AfterSent
<1>2. FrontTypeOK /\ Readings /\ [Next]_vars => Readings'
  <2> SUFFICES ASSUME FrontTypeOK, Readings, [Next]_vars
               PROVE  Readings'
    OBVIOUS
  <2> USE DEF frontVars, appVars, triggerVars, mailVars, predVars
  <2>0. ASSUME UNCHANGED sent
        PROVE  MeasurementsOnce' /\ \A n : AfterSent(n) => AfterSent(n)'
    BY <2>0 DEF MeasurementsOnce, AfterSent
  <2>1. CASE ProfileMeasure
    BY <2>0, <2>1 DEF ProfileMeasure, AppGoto, AfterSent
  <2>2. CASE ProfileProduce
    <3>1. /\ UNCHANGED <<sent, reading, batch, pred>>
          /\ mailbox'.from = reading /\ mailbox.from < reading /\ app' = "idle"
      BY <2>2 DEF ProfileProduce, AppGoto
    <3>2. /\ mailbox'.from \in Nat /\ batch.from \in Nat /\ batch.from < mailbox'.from
          /\ \A i \in 1 .. Len(sent) : sent[i] \in Nat /\ sent[i] < mailbox'.from
      <4>1. mailbox.from \in Nat /\ reading \in Nat /\ batch.from \in Nat
        OBVIOUS
      <4>2. \A i \in 1 .. Len(sent) : sent[i] \in Nat /\ sent[i] <= mailbox.from
        OBVIOUS
      <4>3. batch.from <= mailbox.from
        OBVIOUS
      <4>4. QED
        BY ONLY <3>1, <4>1, <4>2, <4>3
    <3>3. MeasurementsOnce'
      BY <2>0, <3>1
    <3>4. pred = "send" => batch.from = 0 \/ \A i \in 1 .. Len(sent) : sent[i] < batch.from
      BY DEF AfterSent
    <3>5. QED
      BY ONLY <3>1, <3>2, <3>3, <3>4 DEF Readings, AfterSent
  <2>3. CASE PredConsume
    <3>1. /\ UNCHANGED <<sent, reading, app, mailbox>> /\ stale' = TRUE
          /\ batch' = IF stale THEN NoBatch ELSE mailbox
      BY <2>3 DEF PredConsume
    <3>2. CASE stale
      <4>1. batch'.from = 0
        BY <3>1, <3>2 DEF NoBatch
      <4>2. QED
        BY <2>0, <3>1, <4>1
    <3>3. CASE ~stale
      <4>1. batch' = mailbox
        BY <3>1, <3>3
      <4>2. QED
        BY <2>0, <3>1, <3>3, <4>1 DEF AfterSent
    <3>4. QED
      BY <3>2, <3>3
  <2>4. CASE PredSend
    <3>1. /\ UNCHANGED <<reading, app, mailbox, stale, batch>> /\ pred = "send" /\ pred' = "receive"
          /\ sent' = IF batch.from = 0 THEN sent ELSE Append(sent, batch.from)
      BY <2>4 DEF PredSend, PredGoto
    <3>2. CASE batch.from = 0
      BY <2>0, <3>1, <3>2
    <3>3. CASE batch.from # 0
      <4>1. /\ MeasurementsOnce'
            /\ \A i \in 1 .. Len(sent') : sent'[i] <= batch.from /\ sent'[i] \in Nat
        BY <3>1, <3>3, SentInOrder
      <4>2. /\ mailbox.from \in Nat /\ batch.from \in Nat /\ batch.from <= mailbox.from
            /\ ~stale => batch.from < mailbox.from
        OBVIOUS
      <4>3. /\ \A i \in 1 .. Len(sent') : sent'[i] <= mailbox.from
            /\ ~stale => \A i \in 1 .. Len(sent') : sent'[i] < mailbox.from
        BY ONLY <4>1, <4>2
      <4>4. QED
        BY <3>1, <4>1, <4>2, <4>3 DEF AfterSent
    <3>4. QED
      BY <3>2, <3>3
  <2>5. ASSUME UNCHANGED <<mailbox, stale, sent, reading, batch>>,
               pred' = "send" => pred = "send", app' = "measure" => app = "measure"
        PROVE  Readings'
    BY <2>0, <2>5 DEF AfterSent
  <2>6. CASE AppStep
    BY <2>1, <2>2, <2>5, <2>6
       DEF AppStep, CreateThread, CreateConnect, CreateBind, LaunchCall, LaunchWrite,
           LaunchNotify, LaunchWait, ProfileCrash, Destroy, AppGoto, PredGoto
  <2>7. CASE PredStep
    BY <2>3, <2>4, <2>5, <2>7
       DEF PredStep, PredLocal, PredWait, PredStartLib, PredEndLib, PredKernel, PredWindow,
           PredCrash, PredReceive, PredNotify, PredGoto
  <2>8. CASE Daemon \/ UNCHANGED vars
    BY <2>5, <2>8 DEF Daemon, vars
  <2>9. QED
    BY <2>6, <2>7, <2>8 DEF Next
<1>3. Readings => MeasurementsOnce
  OBVIOUS
<1>4. QED
  BY <1>1, <1>2, <1>3, FrontTypeCorrect, PTL DEF Spec

-----------------------------------------------------------------------------
(* The reading before a launch *)

Marks == {StartOfLibrary, EndOfLibrary}

\* A predictor past the mailbox has emptied it, and nobody fills it until the
\* launch has returned; one that has seen a mark never gets to it.
Taken ==
    /\ pred \in {"send", "receive"} => stale
    /\ pred = "notify" /\ seen \notin Marks => stale
    /\ app = "wait" /\ ready2 /\ asked \notin Marks => stale

LEMMA TakenStep == HandOver /\ Taken /\ [Next]_vars => Taken'
<1> SUFFICES ASSUME HandOver, Taken, [Next]_vars
             PROVE  Taken'
  OBVIOUS
<1> USE DEF HandOver, Working, Taken, Marks,
            frontVars, appVars, triggerVars, mailVars, predVars
<1>1. CASE AppStep
  BY <1>1 DEF AppStep, CreateThread, CreateConnect, CreateBind, LaunchCall,
     LaunchWrite, LaunchNotify, LaunchWait, ProfileMeasure, ProfileProduce, ProfileCrash, Destroy,
     AppGoto, PredGoto
<1>2. CASE PredWait \/ PredWindow \/ PredConsume \/ PredNotify
  BY <1>2 DEF PredWait, PredWindow, PredConsume, PredNotify, PredGoto
<1>3. CASE PredStartLib \/ PredEndLib \/ PredKernel
  BY <1>3 DEF PredStartLib, PredEndLib, PredKernel, PredGoto
<1>4. CASE PredCrash \/ PredSend \/ PredReceive
  BY <1>4 DEF PredCrash, PredSend, PredReceive, PredGoto
<1>5. CASE Daemon \/ UNCHANGED vars
  BY <1>5 DEF Daemon, vars
<1>6. QED
  BY <1>1, <1>2, <1>3, <1>4, <1>5 DEF Next, PredStep, PredLocal

\* When the launch of a kernel returns, the mailbox has been emptied: the last
\* reading is on its way to the backend.
THEOREM LaunchTakesReadingCorrect == ZeroedSpec => LaunchTakesReading
<1>1. ZeroedInit => Taken
  BY DEF ZeroedInit, Init, FrontInit, Taken
<1>2. HandOver /\ Taken /\ [Next]_vars =>
        [app = "wait" /\ app' = "idle" /\ asked \notin {StartOfLibrary, EndOfLibrary}
            => stale]_vars
  <2> SUFFICES ASSUME HandOver, Taken, Next, app = "wait", app' = "idle",
                      asked \notin Marks
               PROVE  stale
    BY DEF Marks
  <2> USE DEF Taken, frontVars, appVars
  <2>1. CASE AppStep
    BY <2>1 DEF AppStep, CreateThread, CreateConnect, CreateBind, LaunchCall,
       LaunchWrite, LaunchNotify, LaunchWait, ProfileMeasure, ProfileProduce,
       ProfileCrash, Destroy, AppGoto
  <2>2. CASE PredStep
    BY <2>2 DEF PredStep, PredLocal, PredWait, PredWindow, PredConsume, PredNotify,
       PredStartLib, PredEndLib, PredKernel, PredCrash, PredSend, PredReceive
  <2>3. CASE Daemon
    BY <2>3 DEF Daemon
  <2>4. QED
    BY <2>1, <2>2, <2>3 DEF Next
<1>3. QED
  BY <1>1, <1>2, TakenStep, HandOverCorrect, PTL DEF ZeroedSpec, LaunchTakesReading

-----------------------------------------------------------------------------
(* The return of a launch *)

\* With the flags down at the start, the predictor is done with a launch when it
\* returns: its trigger is taken, its grid is the last one looked at, and the
\* predictor is back at gate 1.  Only what Trigger's constructor leaves in the
\* flags can make it otherwise (Trigger.cpp:36-66).
THEOREM ReturnsSettledCorrect == ZeroedSpec => ReturnsSettled
<1>1. HandOver /\ [Next]_vars =>
        [app = "wait" /\ app' = "idle" =>
            pred = "wait" /\ ~ready1 /\ seen = asked]_vars
  <2> SUFFICES ASSUME HandOver, Next, app = "wait", app' = "idle"
               PROVE  pred = "wait" /\ ~ready1 /\ seen = asked
    OBVIOUS
  <2> USE DEF frontVars, appVars
  <2>1. CASE AppStep
    <3>1. ready2
      BY <2>1 DEF AppStep, CreateThread, CreateConnect, CreateBind, LaunchCall, LaunchWrite,
         LaunchNotify, LaunchWait, ProfileMeasure, ProfileProduce, ProfileCrash, Destroy, AppGoto
    <3>2. QED
      BY <3>1 DEF HandOver, Working
  <2>2. CASE PredStep
    BY <2>2 DEF PredStep, PredLocal, PredWait, PredWindow, PredConsume, PredNotify,
       PredStartLib, PredEndLib, PredKernel, PredCrash, PredSend, PredReceive
  <2>3. CASE Daemon
    BY <2>3 DEF Daemon
  <2>4. QED
    BY <2>1, <2>2, <2>3 DEF Next
<1>2. QED
  BY <1>1, HandOverCorrect, PTL DEF ZeroedSpec, ReturnsSettled

=============================================================================
