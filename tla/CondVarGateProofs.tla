-------------------------- MODULE CondVarGateProofs -------------------------
(***************************************************************************)
(* The safety of CondVarGate for any number of threads, and that it        *)
(* implements Gate.                                                        *)
(*                                                                         *)
(* TypeOK is inductive.  MutexHeldInside and NoLostWakeup are each         *)
(* inductive relative to it, so no further strengthening is needed.        *)
(***************************************************************************)
EXTENDS CondVarGate, TLAPS

-----------------------------------------------------------------------------
(* Typing *)

\* Every state is well typed (Trigger.cpp:46-86, RequestPool.cpp:65-82).
THEOREM TypeCorrect == Safety => []TypeOK
<1> USE ThreadsAssumption DEF TypeOK, Threads, WaiterPC, NotifierPC
<1>1. Init => TypeOK
  BY DEF Init
<1>2. TypeOK /\ [Next]_vars => TypeOK'
  <2> SUFFICES ASSUME TypeOK, [Next]_vars
               PROVE  TypeOK'
    OBVIOUS
  <2>1. ASSUME NEW w \in Waiters, Wait(w)
        PROVE  TypeOK'
    <3>1. CASE Call(w)
      BY <3>1 DEF Call, Goto
    <3>2. CASE LockToCheck(w)
      BY <3>2 DEF LockToCheck, Lock, Goto
    <3>3. CASE Take(w)
      BY <3>3 DEF Take, Goto
    <3>4. CASE Sleep(w)
      BY <3>4 DEF Sleep, Goto
    <3>5. CASE WakeSpuriously(w)
      BY <3>5 DEF WakeSpuriously, Goto
    <3>6. CASE Leave(w)
      BY <3>6 DEF Leave, Goto
    <3>7. QED
      BY <2>1, <3>1, <3>2, <3>3, <3>4, <3>5, <3>6 DEF Wait
  <2>2. ASSUME NEW n \in Notifiers, Notify(n)
        PROVE  TypeOK'
    <3>1. CASE Call(n)
      BY <3>1 DEF Call, Goto
    <3>2. CASE LockToSet(n)
      BY <3>2 DEF LockToSet, Lock, Goto
    <3>3. CASE Raise(n)
      BY <3>3 DEF Raise, Goto
    <3>4. CASE NotifyOne(n)
      BY <3>4 DEF NotifyOne, Asleep
    <3>5. CASE Unlock(n)
      BY <3>5 DEF Unlock, Goto
    <3>6. QED
      BY <2>2, <3>1, <3>2, <3>3, <3>4, <3>5 DEF Notify
  <2>3. CASE UNCHANGED vars
    BY <2>3 DEF vars
  <2>4. QED
    BY <2>1, <2>2, <2>3 DEF Next
<1>3. QED
  BY <1>1, <1>2, PTL DEF Safety

-----------------------------------------------------------------------------
(* Mutual exclusion *)

\* The mutex is held by exactly the thread between its lock and its unlock;
\* a thread asleep in cv.wait does not hold it.
THEOREM MutexCorrect == Safety => []MutexHeldInside
<1> USE ThreadsAssumption DEF MutexHeldInside, Inside, Threads
<1>1. Init => MutexHeldInside
  BY DEF Init
<1>2. TypeOK /\ MutexHeldInside /\ [Next]_vars => MutexHeldInside'
  <2> SUFFICES ASSUME TypeOK, MutexHeldInside, [Next]_vars
               PROVE  MutexHeldInside'
    OBVIOUS
  <2> USE DEF TypeOK
  <2>1. ASSUME NEW w \in Waiters, Wait(w)
        PROVE  MutexHeldInside'
    <3>1. CASE Call(w)
      BY <3>1 DEF Call, Goto
    <3>2. CASE LockToCheck(w)
      BY <3>2 DEF LockToCheck, Lock, Goto
    <3>3. CASE Take(w)
      BY <3>3 DEF Take, Goto
    <3>4. CASE Sleep(w)
      BY <3>4 DEF Sleep, Goto
    <3>5. CASE WakeSpuriously(w)
      BY <3>5 DEF WakeSpuriously, Goto
    <3>6. CASE Leave(w)
      BY <3>6 DEF Leave, Goto
    <3>7. QED
      BY <2>1, <3>1, <3>2, <3>3, <3>4, <3>5, <3>6 DEF Wait
  <2>2. ASSUME NEW n \in Notifiers, Notify(n)
        PROVE  MutexHeldInside'
    <3>1. CASE Call(n)
      BY <3>1 DEF Call, Goto
    <3>2. CASE LockToSet(n)
      BY <3>2 DEF LockToSet, Lock, Goto
    <3>3. CASE Raise(n)
      BY <3>3 DEF Raise, Goto
    <3>4. CASE NotifyOne(n)
      BY <3>4 DEF NotifyOne, Asleep
    <3>5. CASE Unlock(n)
      BY <3>5 DEF Unlock, Goto
    <3>6. QED
      BY <2>2, <3>1, <3>2, <3>3, <3>4, <3>5 DEF Notify
  <2>3. CASE UNCHANGED vars
    BY <2>3 DEF vars
  <2>4. QED
    BY <2>1, <2>2, <2>3 DEF Next
<1>3. QED
  BY <1>1, <1>2, TypeCorrect, PTL DEF Safety

-----------------------------------------------------------------------------
(* No lost wake-up *)

\* A permit never sits in the gate while every waiter sleeps and no
\* notification is under way.
THEOREM WakeupsCorrect == Safety => []NoLostWakeup
<1> USE ThreadsAssumption DEF NoLostWakeup, Asleep, Threads
<1>1. Init => NoLostWakeup
  BY DEF Init
<1>2. TypeOK /\ NoLostWakeup /\ [Next]_vars => NoLostWakeup'
  <2> SUFFICES ASSUME TypeOK, NoLostWakeup, [Next]_vars
               PROVE  NoLostWakeup'
    OBVIOUS
  <2> USE DEF TypeOK
  <2>1. ASSUME NEW w \in Waiters, Wait(w)
        PROVE  NoLostWakeup'
    <3>1. CASE Call(w)
      BY <3>1 DEF Call, Goto
    <3>2. CASE LockToCheck(w)
      BY <3>2 DEF LockToCheck, Lock, Goto
    <3>3. CASE Take(w)
      BY <3>3 DEF Take
    <3>4. CASE Sleep(w)
      BY <3>4 DEF Sleep
    <3>5. CASE WakeSpuriously(w)
      BY <3>5 DEF WakeSpuriously, Goto
    <3>6. CASE Leave(w)
      BY <3>6 DEF Leave, Goto
    <3>7. QED
      BY <2>1, <3>1, <3>2, <3>3, <3>4, <3>5, <3>6 DEF Wait
  <2>2. ASSUME NEW n \in Notifiers, Notify(n)
        PROVE  NoLostWakeup'
    <3>1. CASE Call(n)
      BY <3>1 DEF Call, Goto
    <3>2. CASE LockToSet(n)
      BY <3>2 DEF LockToSet, Lock, Goto
    <3>3. CASE Raise(n)
      BY <3>3 DEF Raise, Goto
    <3>4. CASE NotifyOne(n)
      BY <3>4 DEF NotifyOne
    <3>5. CASE Unlock(n)
      BY <3>5 DEF Unlock, Goto
    <3>6. QED
      BY <2>2, <3>1, <3>2, <3>3, <3>4, <3>5 DEF Notify
  <2>3. CASE UNCHANGED vars
    BY <2>3 DEF vars
  <2>4. QED
    BY <2>1, <2>2, <2>3 DEF Next
<1>3. QED
  BY <1>1, <1>2, TypeCorrect, PTL DEF Safety

-----------------------------------------------------------------------------
(* Refinement *)

\* The mutex, the condition variable and the flag behave as the one-permit
\* gate: entering is the call, opening is raising the flag, passing is taking
\* it down, and every other step is invisible.
THEOREM SafetyImplementsGate == Safety => G!Safety
<1> USE ThreadsAssumption DEF InWait, Threads
<1>1. Init => G!Init
  BY DEF Init, G!Init
<1>2. TypeOK /\ [Next]_vars => [G!Next]_(G!vars)
  <2> SUFFICES ASSUME TypeOK, [Next]_vars
               PROVE  G!Next \/ UNCHANGED G!vars
    BY DEF G!vars
  <2> USE DEF TypeOK, G!vars
  <2>1. ASSUME NEW w \in Waiters, Wait(w)
        PROVE  G!Next \/ UNCHANGED G!vars
    <3>1. CASE Call(w)
      <4>1. G!Enter(w)
        BY <3>1 DEF Call, Goto, G!Enter
      <4>2. QED
        BY <4>1 DEF G!Next
    <3>2. CASE LockToCheck(w)
      BY <3>2 DEF LockToCheck, Lock, Goto
    <3>3. CASE Take(w)
      <4>1. G!Pass(w)
        BY <3>3 DEF Take, Goto, G!Pass
      <4>2. QED
        BY <4>1 DEF G!Next
    <3>4. CASE Sleep(w)
      BY <3>4 DEF Sleep, Goto
    <3>5. CASE WakeSpuriously(w)
      BY <3>5 DEF WakeSpuriously, Goto
    <3>6. CASE Leave(w)
      BY <3>6 DEF Leave, Goto
    <3>7. QED
      BY <2>1, <3>1, <3>2, <3>3, <3>4, <3>5, <3>6 DEF Wait
  <2>2. ASSUME NEW n \in Notifiers, Notify(n)
        PROVE  G!Next \/ UNCHANGED G!vars
    <3>1. CASE Call(n)
      BY <3>1 DEF Call, Goto
    <3>2. CASE LockToSet(n)
      BY <3>2 DEF LockToSet, Lock, Goto
    <3>3. CASE Raise(n)
      <4>1. G!Open
        BY <3>3 DEF Raise, Goto, G!Open
      <4>2. QED
        BY <4>1 DEF G!Next
    <3>4. CASE NotifyOne(n)
      BY <3>4 DEF NotifyOne, Asleep
    <3>5. CASE Unlock(n)
      BY <3>5 DEF Unlock, Goto
    <3>6. QED
      BY <2>2, <3>1, <3>2, <3>3, <3>4, <3>5 DEF Notify
  <2>3. CASE UNCHANGED vars
    BY <2>3 DEF vars
  <2>4. QED
    BY <2>1, <2>2, <2>3 DEF Next
<1>3. QED
  BY <1>1, <1>2, TypeCorrect, PTL DEF Safety, G!Safety

=============================================================================
