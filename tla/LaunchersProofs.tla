--------------------------- MODULE LaunchersProofs --------------------------
(***************************************************************************)
(* The safety of Launchers for any number of threads and any grids.        *)
(***************************************************************************)
EXTENDS Launchers, FiniteSetTheorems, TLAPS

\* TypeOK carries over a step together with: a thread that writes a grid has
\* one.
Typing == TypeOK /\ \A t \in Threads : thr[t] = "write" => asked[t] # NoGrid

LEMMA TypingStep == Typing /\ [Next]_vars => Typing'
<1> SUFFICES ASSUME Typing, [Next]_vars
             PROVE  Typing'
  OBVIOUS
<1> USE GridsAssumption DEF Typing, TypeOK, thrVars, gateVars, predVars
<1>1. ASSUME NEW t \in Threads, LaunchCall(t)
      PROVE  Typing'
  BY <1>1 DEF LaunchCall, Goto
<1>2. ASSUME NEW t \in Threads, LaunchWrite(t)
      PROVE  Typing'
  <2>1. asked[t] \in Grid
    BY <1>2 DEF LaunchWrite, WriteComponent
  <2>2. grid' \in Grid
    BY <1>2, <2>1 DEF LaunchWrite, Grid
  <2>3. QED
    BY <1>2, <2>2 DEF LaunchWrite, WriteComponent, predVars, gateVars
<1>3. ASSUME NEW t \in Threads, LaunchNotify(t)
      PROVE  Typing'
  BY <1>3 DEF LaunchNotify, Goto
<1>4. ASSUME NEW t \in Threads, LaunchWait(t)
      PROVE  Typing'
  BY <1>4 DEF LaunchWait, Goto
<1>5. CASE PredStep
  <2>1. CASE PredRead
    <3>1. seen' \in Grid
      BY <2>1 DEF PredRead, Grid
    <3>2. QED
      BY <2>1, <3>1 DEF PredRead, ReadComponent
  <2>2. CASE PredStep /\ ~PredRead
    BY <2>2 DEF PredStep, PredWait, HasRead, PredStartLib, PredEndLib, PredKernel,
       PredWork, PredNotify, PredGoto
  <2>3. QED
    BY <1>5, <2>1, <2>2
<1>6. CASE UNCHANGED vars
  BY <1>6 DEF vars
<1>7. QED
  BY <1>1, <1>2, <1>3, <1>4, <1>5, <1>6 DEF Next, InCall

\* The state is well typed.
THEOREM TypeCorrect == Spec => []TypeOK
<1>1. Init => Typing
  <2>1. DefaultGrid \in Grid
    BY DEF DefaultGrid, Grid
  <2>2. QED
    BY <2>1 DEF Init, Typing, TypeOK
<1>2. Typing => TypeOK
  BY DEF Typing
<1>3. QED
  BY <1>1, <1>2, TypingStep, PTL DEF Spec

-----------------------------------------------------------------------------
(* Releases *)

\* A thread that comes to wait, or stops waiting, is one more or one less.
LEMMA WaitingFinite == IsFiniteSet(Waiting) /\ Cardinality(Waiting) \in Nat
<1>1. Waiting \subseteq Threads
  BY DEF Waiting
<1>2. QED
  BY <1>1, ThreadsAssumption, FS_Subset, FS_CardinalityType

LEMMA OneMoreWaits ==
  ASSUME NEW t \in Threads, TypeOK, LaunchNotify(t)
  PROVE  Cardinality(Waiting') = Cardinality(Waiting) + 1
<1>1. t \notin Waiting /\ Waiting' = Waiting \union {t}
  BY DEF TypeOK, LaunchNotify, Goto, Waiting
<1>2. QED
  BY <1>1, WaitingFinite, FS_AddElement

LEMMA OneLessWaits ==
  ASSUME NEW t \in Threads, TypeOK, LaunchWait(t)
  PROVE  Cardinality(Waiting') = Cardinality(Waiting) - 1
<1>1. t \in Waiting /\ Waiting' = Waiting \ {t}
  BY DEF TypeOK, LaunchWait, Goto, Waiting
<1>2. QED
  BY <1>1, WaitingFinite, FS_RemoveElement

LEMMA WaitingStays ==
  ASSUME TypeOK,
         \/ UNCHANGED thr
         \/ \E t \in Threads : LaunchCall(t) \/ LaunchWrite(t)
  PROVE  Waiting' = Waiting
  BY DEF TypeOK, LaunchCall, LaunchWrite, WriteComponent, Goto, Waiting

\* No release is left over, for any number of threads: NoSpareRelease is
\* inductive.
THEOREM NoSpareReleaseCorrect == Spec => []NoSpareRelease
<1> USE DEF NoSpareRelease, Releases, One, Busy
<1>1. Init => NoSpareRelease
  <2> SUFFICES ASSUME Init
               PROVE  NoSpareRelease
    OBVIOUS
  <2>1. Waiting = {}
    BY DEF Init, Waiting
  <2>2. QED
    BY <2>1, FS_EmptySet DEF Init
<1>2. TypeOK /\ NoSpareRelease /\ [Next]_vars => NoSpareRelease'
  <2> SUFFICES ASSUME TypeOK, NoSpareRelease, [Next]_vars
               PROVE  NoSpareRelease'
    OBVIOUS
  <2> USE WaitingFinite
  <2>1. ASSUME NEW t \in Threads, LaunchCall(t) \/ LaunchWrite(t)
        PROVE  NoSpareRelease'
    <3>1. Waiting' = Waiting
      BY <2>1, WaitingStays
    <3>2. QED
      BY <2>1, <3>1 DEF LaunchCall, LaunchWrite, WriteComponent, gateVars, predVars
  \* At most one more trigger: it may be there already.
  <2>2. ASSUME NEW t \in Threads, LaunchNotify(t)
        PROVE  NoSpareRelease'
    <3>1. Cardinality(Waiting') = Cardinality(Waiting) + 1
      BY <2>2, OneMoreWaits
    <3>2. QED
      BY <2>2, <3>1 DEF LaunchNotify, predVars
  <2>3. ASSUME NEW t \in Threads, LaunchWait(t)
        PROVE  NoSpareRelease'
    <3>1. Cardinality(Waiting') = Cardinality(Waiting) - 1
      BY <2>3, OneLessWaits
    <3>2. QED
      BY <2>3, <3>1 DEF LaunchWait, predVars
  \* The predictor hands a release on, from gate 1 to itself to gate 2.
  <2>4. CASE PredStep
    <3>1. Waiting' = Waiting
      BY <2>4, WaitingStays DEF PredStep, PredWait, PredRead, ReadComponent, HasRead,
         PredStartLib, PredEndLib, PredKernel, PredWork, PredNotify, thrVars
    <3>2. QED
      BY <2>4, <3>1 DEF PredStep, PredWait, PredRead, ReadComponent, HasRead,
         PredStartLib, PredEndLib, PredKernel, PredWork, PredNotify, PredGoto,
         gateVars
  <2>5. CASE UNCHANGED vars
    <3>1. Waiting' = Waiting
      BY <2>5, WaitingStays DEF vars, thrVars
    <3>2. QED
      BY <2>5, <3>1 DEF vars, gateVars, predVars
  <2>6. QED
    BY <2>1, <2>2, <2>3, <2>4, <2>5 DEF Next, InCall
<1>3. QED
  BY <1>1, <1>2, TypeCorrect, PTL DEF Spec

\* Not all threads wait for a release that was lost, for any number of them.
THEOREM NotEveryoneLostCorrect == Spec => []NotEveryoneLost
<1> USE DEF NotEveryoneLost, Busy
<1>1. Init => NotEveryoneLost
  BY ThreadsAssumption DEF Init, Waiting
<1>2. TypeOK /\ NotEveryoneLost /\ [Next]_vars => NotEveryoneLost'
  <2> SUFFICES ASSUME TypeOK, NotEveryoneLost, [Next]_vars, Waiting' = Threads
               PROVE  (ready1 \/ Busy \/ ready2)'
    OBVIOUS
  <2>1. ASSUME NEW t \in Threads, LaunchCall(t) \/ LaunchWrite(t)
        PROVE  FALSE
    BY <2>1 DEF TypeOK, LaunchCall, LaunchWrite, WriteComponent, Goto, Waiting
  <2>2. ASSUME NEW t \in Threads, LaunchNotify(t)
        PROVE  ready1'
    BY <2>2 DEF LaunchNotify
  <2>3. ASSUME NEW t \in Threads, LaunchWait(t)
        PROVE  FALSE
    BY <2>3 DEF TypeOK, LaunchWait, Goto, Waiting
  <2>4. CASE PredStep
    <3>1. Waiting' = Waiting
      BY <2>4, WaitingStays DEF PredStep, PredWait, PredRead, ReadComponent, HasRead,
         PredStartLib, PredEndLib, PredKernel, PredWork, PredNotify, thrVars
    <3>2. QED
      BY <2>4, <3>1 DEF PredStep, PredWait, PredRead, ReadComponent, HasRead,
         PredStartLib, PredEndLib, PredKernel, PredWork, PredNotify, PredGoto,
         gateVars
  <2>5. CASE UNCHANGED vars
    BY <2>5 DEF vars, thrVars, gateVars, predVars, Waiting
  <2>6. QED
    BY <2>1, <2>2, <2>3, <2>4, <2>5 DEF Next, InCall
<1>3. QED
  BY <1>1, <1>2, TypeCorrect, PTL DEF Spec

=============================================================================
