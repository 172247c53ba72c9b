----------------------------- MODULE CondVarGate ----------------------------
(***************************************************************************)
(* The mutex, the condition variable and the flag behind one gate of the   *)
(* program.  Trigger::Wait and Trigger::Notify (two gates, index 1 and 2)  *)
(* and RequestPool::wait and RequestPool::release (one gate per tenant)    *)
(* are the same code over different members:                               *)
(*                                                                         *)
(*    Wait    unique_lock lk(m);                Notify  lock_guard lk(m);  *)
(*            cv.wait(lk, [ready]);                     ready = true;      *)
(*            ready = false;                            cv.notify_one();   *)
(*            lk.unlock();                                                 *)
(*                                                                         *)
(* The step of cv.wait that finds the flag down gives up the mutex and     *)
(* joins the sleepers atomically; a sleeper wakes when notify_one picks it *)
(* or spuriously, and takes the mutex again before it looks at the flag.   *)
(*                                                                         *)
(* A definition named Faulty... is the one after it with a mistake in it;  *)
(* no other definition uses it.  It shows that the properties would notice *)
(* the mistake.                                                            *)
(***************************************************************************)
EXTENDS Naturals, FiniteSets

CONSTANTS
    Waiters,        \* the threads that call Wait
    Notifiers,      \* the threads that call Notify
    Free            \* no thread: the owner of an unlocked mutex

ASSUME ThreadsAssumption ==
    /\ Waiters \intersect Notifiers = {}
    /\ Free \notin Waiters \union Notifiers

VARIABLES
    ready,          \* m_ready_1, m_ready_2, m_tenant_ready[t]
    owner,          \* who holds m_lock_1, m_lock_2, m_tenant_mutex[t]
    pc              \* where each thread is in its call

vars == <<ready, owner, pc>>

Threads == Waiters \union Notifiers

\* out: not in the call.  locking: wants the mutex.  checking: holds it, about
\* to evaluate the predicate.  asleep: in the condition variable.  leaving:
\* holds the mutex, has taken the permit.
WaiterPC == {"out", "locking", "checking", "asleep", "leaving"}

\* setting: holds the mutex, about to raise the flag.  notifying: flag raised.
\* unlocking: notify_one has been called, the guard is about to go.
NotifierPC == {"out", "locking", "setting", "notifying", "unlocking"}

Asleep == {w \in Waiters : pc[w] = "asleep"}

Init ==
    /\ ready \in BOOLEAN
    /\ owner = Free
    /\ pc = [t \in Threads |-> "out"]

Goto(t, from, to) == pc[t] = from /\ pc' = [pc EXCEPT ![t] = to]

-----------------------------------------------------------------------------
(* The call is made, and the mutex is taken. *)

Call(t) ==
    /\ Goto(t, "out", "locking")
    /\ UNCHANGED <<ready, owner>>

Lock(t, to) ==
    /\ owner = Free
    /\ owner' = t
    /\ Goto(t, "locking", to)
    /\ UNCHANGED ready

-----------------------------------------------------------------------------
(* Wait *)

\* The flag is left up.
FaultyTake(w) ==
    /\ ready
    /\ Goto(w, "checking", "leaving")
    /\ UNCHANGED <<ready, owner>>

\* The predicate holds: the flag is taken down under the same lock.
Take(w) ==
    /\ ready
    /\ ready' = FALSE
    /\ Goto(w, "checking", "leaving")
    /\ UNCHANGED owner

\* The mutex is kept while asleep.
FaultySleep(w) ==
    /\ ~ready
    /\ Goto(w, "checking", "asleep")
    /\ UNCHANGED <<ready, owner>>

\* The predicate does not hold: unlock and sleep, in one step.
Sleep(w) ==
    /\ ~ready
    /\ Goto(w, "checking", "asleep")
    /\ owner' = Free
    /\ UNCHANGED ready

\* A sleeper may wake without a notification.
WakeSpuriously(w) ==
    /\ Goto(w, "asleep", "locking")
    /\ UNCHANGED <<ready, owner>>

Leave(w) ==
    /\ Goto(w, "leaving", "out")
    /\ owner' = Free
    /\ UNCHANGED ready

-----------------------------------------------------------------------------
(* Notify *)

Raise(n) ==
    /\ Goto(n, "setting", "notifying")
    /\ ready' = TRUE
    /\ UNCHANGED owner

\* notify_one is not called.
FaultyNotifyOne(n) ==
    /\ Goto(n, "notifying", "unlocking")
    /\ UNCHANGED <<ready, owner>>

\* notify_one wakes one of the sleepers, if there is one.
NotifyOne(n) ==
    /\ pc[n] = "notifying"
    /\ \/ \E w \in Asleep :
             pc' = [pc EXCEPT ![n] = "unlocking", ![w] = "locking"]
       \/ /\ Asleep = {}
          /\ pc' = [pc EXCEPT ![n] = "unlocking"]
    /\ UNCHANGED <<ready, owner>>

Unlock(n) ==
    /\ Goto(n, "unlocking", "out")
    /\ owner' = Free
    /\ UNCHANGED ready

-----------------------------------------------------------------------------

LockToCheck(w) == Lock(w, "checking")
\* The notifier looks at the flag instead of raising it.
FaultyLockToSet(n) == Lock(n, "checking")

LockToSet(n) == Lock(n, "setting")

Wait(w) ==
    \/ Call(w) \/ LockToCheck(w)
    \/ Take(w) \/ Sleep(w) \/ WakeSpuriously(w) \/ Leave(w)

Notify(n) ==
    \/ Call(n) \/ LockToSet(n)
    \/ Raise(n) \/ NotifyOne(n) \/ Unlock(n)

Next ==
    \/ \E w \in Waiters : Wait(w)
    \/ \E n \in Notifiers : Notify(n)

Safety == Init /\ [][Next]_vars

\* A thread inside a call keeps running, and a thread that wants a mutex that
\* keeps becoming free gets it.  Nobody is obliged to call, and no spurious
\* wake-up is obliged to happen.
Fairness ==
    /\ \A w \in Waiters :
          /\ SF_vars(LockToCheck(w))
          /\ WF_vars(Take(w) \/ Sleep(w) \/ Leave(w))
    /\ \A n \in Notifiers :
          /\ SF_vars(LockToSet(n))
          /\ WF_vars(Raise(n) \/ NotifyOne(n) \/ Unlock(n))

Spec == Safety /\ Fairness

-----------------------------------------------------------------------------
(* Properties *)

TypeOK ==
    /\ ready \in BOOLEAN
    /\ owner \in Threads \union {Free}
    /\ pc \in [Threads -> WaiterPC \union NotifierPC]
    /\ \A w \in Waiters : pc[w] \in WaiterPC
    /\ \A n \in Notifiers : pc[n] \in NotifierPC

Inside(t) ==
    pc[t] \in {"checking", "leaving", "setting", "notifying", "unlocking"}

\* The mutex is held by exactly the thread between its lock and its unlock:
\* in particular cv.wait has given it up while the thread sleeps, or no
\* notifier could ever raise the flag (Trigger.cpp:50-54, RequestPool.cpp:68-71).
MutexHeldInside == \A t \in Threads : Inside(t) <=> owner = t

\* No lost wake-up.  With a permit in the gate, the waiters are never all
\* asleep: somebody is on the way to the predicate, or the notifier that
\* raised the flag has still to call notify_one.  The flag is raised under the
\* waiters' mutex (Trigger.cpp:72-74, RequestPool.cpp:78-80), which is what
\* makes the check of the predicate and the going to sleep one step.
NoLostWakeup ==
    ready /\ Asleep # {} =>
        \/ \E w \in Waiters : pc[w] \in {"locking", "checking"}
        \/ \E n \in Notifiers : pc[n] = "notifying"

\* The mutex, condition variable and flag implement the one-permit gate, its
\* progress included: a thread is waiting from its call to the step that takes
\* the flag down.
InWait == {w \in Waiters : pc[w] \in {"locking", "checking", "asleep"}}

G == INSTANCE Gate WITH waiting <- InWait

ImplementsGate == G!Spec

=============================================================================
