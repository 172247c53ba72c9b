# A specification of propreact

propreact sits between CUDA applications and a GPU they share. Each
application is linked with a client library that stops every kernel launch
until a backend process has looked at it; the library also reports to the
backend how long kernels ran and how long the GPU was idle between them. This
directory holds TLA+ modules of the library, the backend and the two together,
configurations that check them on small instances with TLC, and proofs of
their main safety properties for every value of the constants.

Paths such as `Trigger.cpp:46` are relative to `src/src/` (headers:
`src/include/`).

## 1. The system

### Components

| Component | State | Operations | Interacts with |
|---|---|---|---|
| `Xrush` | the global pointers | `XrushCreate`, `XrushLaunch`, `XrushProfile`, `XrushDestroy` | called by the application's thread; builds everything below it |
| `Interposer` | `m_last` (a timestamp) | `launch`: write the grid, `Notify(1)`, `Wait(2)` | `Trigger` |
| `Trigger` | `m_grid`; two gates, each a mutex, a condition variable and `m_ready_i` | `WriteData`, `ReadData`, `Notify(i)`, `Wait(i)` | shared by the application's thread and the predictor's |
| `Predictor` | `m_lib`, two Communicators, `m_pkt`, a thread | `ProcessTrigger`: wait, read the grid, handle marks, take measurements, send, receive, release | `Trigger`, `Window`, `GlobalWindow`, the backend |
| `Window` | two tables from grid to a queue of durations | `WriteData…`, `ReadData…`, `Acquire`/`Release` (never called) | written by the profiler, read by the predictor |
| `GlobalWindow`, library half | the mailbox `m_recs`, `m_stale`, `m_mutex` | `produce`, `consume` | profiler to predictor |
| `CuptiProfiler` | raw and disjoint records of kernels, counters | `read`, `insert` (a callback), `process` | CUPTI, `Window`, `GlobalWindow` |
| `Communicator` | one nanomsg socket | `connect`, `bind`, `send`, `receive` | one PUSH/PULL pair per direction and tenant |
| `InterposerBackend` | a thread per tenant | receive, `update`, store measurements, `wait`, answer | `RequestPool`, `GlobalWindow`, the application |
| `RequestPool` | the pending keys, `m_mutex`; a gate per tenant | `update`, `retrieve`, `wait`, `release` | tenants' threads and the arbiter |
| `Arbiter` | a thread | every 2 ms or so: take all requests, look each up, release each | `RequestPool`, `GlobalWindow` |
| `GlobalWindow`, backend half | per tenant a map from key to measurements, `m_mutex` | `update_idle`, `update_active`, `retrieve_idle`, `retrieve_active` | tenants' threads and the arbiter |
| `BackendDriver` | – | `main`: start the arbiter and two tenants, join tenant 0 | – |

### A launch, end to end

    application            predictor              tenant's thread       arbiter
    WriteData(g)
    Notify(1)  ----------> Wait(1), ReadData
    Wait(2)                (a mark? Notify(2))
                           Window, consume
                           send ----------------> receive
                                                  update  ------------> retrieve
                                                  update_idle/active    retrieve_idle/active
                                                  wait    <------------ release
                           receive <------------- send
    return  <------------- Notify(2)

### What is hard, and what makes each part correct

The program is concurrent at three levels (two threads in the library, one
thread per tenant and the arbiter in the backend, and the processes) and most
of its shared state has no lock of its own: `m_grid`, `Window`, the
Communicators and tenant 0's map are protected, where they are, by the order in
which threads wait for each other. No message is lost and nothing is retried or
timed out; what can fail is an application, which ends and is started again
while the backend goes on. So the properties are about hand-over:

- gates: no lost wake-up, no permit taken twice;
- `Trigger`, `Interposer`, `Predictor`: the predictor works on the launch that
  waits for it, every path releases the launch, a launch returns only when it
  has been dealt with;
- `Window`: never read while written, never used once deleted;
- mailbox: no reading is sent twice or after a later one, none waits past the
  launch of a kernel;
- `RequestPool`, `Arbiter`, `InterposerBackend`: entry, decision and permit
  belong to one request, the assertion of `update` holds, an answer follows the
  release for that request;
- backend half of `GlobalWindow`: measurements are kept, `m_mutex` is given back;
- `CuptiProfiler`: every kernel is measured once, with the gap that was really
  behind it, however records are spread over readings; what goes wrong when
  kernels overlap stays within bounds.

`PROJECT.json` lists the hazards of the code, line by line, with the properties
that cover them.

## 2. The modules

| Module | Models | Notes |
|---|---|---|
| `Gate` | what `Wait`/`Notify` and `wait`/`release` promise | abstract: one uncounted permit |
| `CondVarGate` | the mutex, condition variable and flag behind it | implements `Gate` |
| `Tenancy` | the number of tenants | |
| `Channels` | `Communicator` over nanomsg | a queue of requests and a number of responses per tenant |
| `RequestPool` | `RequestPool.cpp` | the operations as operators over its own variables |
| `TenantMaps` | backend half of `GlobalWindow.cpp` | as above; a map is the set of its keys |
| `Arbitration` | what the backend promises a tenant | abstract: ask, grant, answer, return |
| `Backend` | `Arbiter.cpp`, `InterposerBackend.cpp`, `main` | composes the four above; implements `Arbitration` |
| `Restarts` | `Backend` with applications that end while they wait | `Backend`'s actions and one more |
| `Grids` | `m_grid`, the two marks, a copy made without a lock | |
| `Launch` | what `XrushLaunch` promises | abstract: call, settle, return |
| `Frontend` | `Xrush`, `Interposer`, `Trigger`, `Predictor`, the mailbox, access to `Window` | implements `Launch` |
| `Launchers` | the same hand-over with several launching threads | |
| `Profiler` | `CuptiProfiler.cpp`, the tables of `Window.cpp` | |
| `Propreact` | library and backend together | `Frontend` and `B == INSTANCE Backend` over shared queues; implements `Frontend` |
| `MC…` | instances for TLC | one per specification |
| `…Proofs` | theorems | of `CondVarGate`, `Backend`, `Restarts`, `Frontend`, `Launchers`, `Profiler`, `Propreact` |
| `OverlapProofs` | theorems | of `Profiler`, where kernels overlap; extends `ProfilerProofs` |

A definition `FaultyX` is `X` with a bug somebody might write. No specification
uses one; with it in the place of `X` the run of the property concerned fails,
which shows that the property is about that piece of code.

How state and actions correspond to the code:

- **CondVarGate.** `ready` is `m_ready_1`, `m_ready_2` or `m_tenant_ready[t]`,
  `owner` the mutex, `pc` each thread's place in its call. The step of `cv.wait`
  that finds the flag down unlocks and sleeps at once (`Sleep`); `WakeSpuriously`
  is the wake-up the standard allows. The model allows more than one waiter:
  `Trigger`'s second gate has several when several threads launch.
- **Backend.** One action per step of the two loops: `IBReceive` …
  `IBSend` for `InterposerBackend::process`, `ArbRetrieve` … `ArbSleep` for
  `Arbiter::process`. `found` and `respond` are the local `std::map` and
  `std::set`, walked in order. `update` and `retrieve` hold their mutex
  throughout and block on nothing, so each is one step. A look-up is two steps
  (`ArbLookup` locks, `ArbCopied` unlocks), since `update_idle` takes no lock
  and may fall between them; then it is a data race and `process` may become
  `"crashed"`. `IBAbort` is the failing `assert` of `update`: the build has no
  `NDEBUG`. A thread that locks an `m_mutex` it already holds blocks, which is
  what the C library's default mutex does.
- **Restarts.** `Abandon` is an application that ends while it waits. Its
  request, and responses it has not read, may be in its own socket and then go
  with it, or in the backend's and then are there for the next application.
  `abandoned`, a history variable declared in `Backend`, counts them.
- **Frontend.** `app` and `pred` are the two threads' places. `XrushCreate` is
  three steps because the predictor's thread starts in the middle of it.
  `WriteData` is the interval from `LaunchCall` to `LaunchWrite`, and `Mixes`
  says what a `ReadData` inside it may see. Being in `Window` is being at
  `"measure"` or at `"window"`. Overlaps there, uses of what is not built
  yet, and a packet of more than `PacketRecords` measurements (340 in the code:
  `m_pkt` has 1024 words, two of them the head and three for each measurement)
  may end in `PredCrash`. What `XrushProfile` produces is any batch, and it may
  read behind a vector's end and take the process down (`ProfileCrash`):
  `Profiler` says which batch, and when. `sent` is a history of the readings
  that have gone to the backend.
- **Launchers.** `Frontend`'s launch and `ProcessTrigger` for any number of
  threads. With several threads `WriteData` can overlap `WriteData` too, so the
  grid is copied a component at a time (`towrite`, `toread`). The predictor's
  work on a kernel, which `Frontend` has in full, is the one place `"work"`. It
  gets past it (`PredWork`) for every grid but those of key 0, whose requests
  the backend drops (`Arbiter.cpp:51`); then it stays there for ever.
- **Profiler.** `raw`, `keyraw`, `tup`, `key`, `tot`, `curr`, `totdis` are the
  four vectors and three counters; `at(s, i)` is `s[i]` counted from zero. The
  three loops of `process` run an iteration at a time: `Separate`, `Merge` and
  `Separated` (the lookahead is the quantifier of `Found`), `Skip` and `Match`,
  and `Measure` for the last, whose result is `Batch`. Where the code reads a
  vector behind its end the model stops in `"undefined"`. Times taken through
  an `unsigned` or an `int` are `Unsigned` and `Signed`; a difference of
  `unsigned long` is taken modulo `Long`. `EarlyBuffer` is a buffer CUPTI
  returns between two readings. A kernel has an `id`, which `insert` does not
  keep: with it the properties can tell apart two kernels that start, or start
  and end, at once. Intervals that are equal `Position` ranks by the place they
  came in, which nobody can see.
- **Propreact.** A predictor's send is `PredSend` and the backend's
  `ClientSend(Own)` at once: both change the same queue. For
  `ImplementsLibrary` a request counts as under way until its response is sent
  (`Unanswered`), which is the moment `Frontend`'s `Daemon` answers.

Two choices stand for undefined behaviour. The flags of the gates are members
no constructor writes, so `Init` has any value for them; `ZeroedSpec` is the
program built in memory that happened to be zero, which is what the code needs
and the theorems about requests and launches assume (in `Launchers`, which has
nothing to say of the other case, `Init` is that one). A race or a use of
something deleted is a choice between going on and the process being gone.

## 3. The runs

| Run | Specification | Shows |
|---|---|---|
| `condvar_gate` | `CondVarGate!Spec` | mutual exclusion, no lost wake-up, refinement of `Gate` with its liveness |
| `backend_safety` | `Backend!ZeroedSpec` | the invariants of the backend, the leak is final, refinement of `Arbitration` |
| `backend_liveness` | `Restarts!FairRestartSpec` | a request is answered unless one of three things has happened; an application that ended shifts the answers of the next by one |
| `backend_leak` | `Backend!ZeroedFairSpec` | violation: a leaked `m_mutex` stops all answers |
| `backend_uninitialised` | `Backend!Spec` | violation: a stray `m_tenant_ready` trips the assertion |
| `frontend_safety` | `Frontend!ZeroedSpec` | no race although nothing is locked, the predictor crashes the process only with too long a packet, no reading sent twice or after a later one and none left behind, refinement of `Launch` |
| `frontend_liveness` | `Frontend!FairSpec` | every path releases the launch |
| `frontend_uninitialised` | `Frontend!Spec` | violation: a stray `m_ready_2` releases the first launch early |
| `launchers` | `Launchers!FairSpec` | several threads: a launch may lose its release, but no release is left over, and one thread comes out unless the predictor waits for the answer to a request of key 0 |
| `profiler` | `Profiler!FairSpec` | serial kernels are measured exactly; what overlap costs; every reading ends |
| `propreact` | `FairProgramSpec` | end to end: delivery of measurements, the backend is what the library assumes, return of launches |
| `propreact_library_mark` | `FairProgramSpec` | violation: a start mark after an end mark hangs its launch |

The four violations:

1. `update_active` returns from its not-found branch with `m_mutex` locked
   (`GlobalWindow.cpp:141-149`). One measurement of a new kernel by tenant 1 is
   enough; no request of any tenant is answered after that.
2. `RequestPool`'s constructor leaves `m_tenant_ready` as it was. With a flag
   up, a thread answers before the arbiter has taken the request out of the
   pool, and the next request fails the assertion at `RequestPool.cpp:40`.
3. `Trigger`'s constructor leaves `m_ready_1` and `m_ready_2`. With the second
   up, the first launch does not wait for the predictor.
4. The marks for a library's kernels are the grids (0,0) and (1,0). After an
   end mark `m_lib` is set and the next start mark is treated as a kernel with
   key 0; `retrieve` returns 0 both for that and for "no request"
   (`Arbiter.cpp:50-51`), so the launch is never released. Two library calls
   with no kernel between them do it.

What `profiler` says of `process`, apart from the serial case in which it is
exact:

- Of kernels that overlap the first alone is measured, with its own times and
  not the merged interval's, so that the gap behind it may have been busy; when
  the lookahead finds nothing the rest of the reading is dropped. No document
  says it should be otherwise. `KernelOnce` and `GapsReal` are what is left.
- Both ask that no two kernels start at once (`Staggered`). The code records
  concurrent kernels (line 77), so they may; and the search compares starts
  alone (line 211), so that such kernels are one and the same to it. With
  kernels (0,10), (1,2), (11,12), (13,14) in one reading and (13,20) in the
  next, the one from 13 to 14 is measured twice; with (1,6), (1,3), (5,9),
  (10,11) in the first, the merged interval starts with the sort's (1,3) and is
  matched to (1,6), and the gap from 6 to 5 wraps. Serial
  kernels, and kernels whose records come in order (`Serial`, `InOrder`), never
  start at once.
- All but `GapsReal` ask that every record come during a flush (`Counted`);
  `OverlapDefined` and `GapsReal` ask that times fit 32 bits (`Short`), and
  `OverlapDefined` that each record is of a later start than the one before.
- `GapsReal` asks that records come in order, or that no record has been dropped
  before. When one has, the disjoint branch (line 166) appends an interval from
  further back than the lookahead has come; sorted records then let the search
  find its kernel, and the gap measured behind it is negative and wraps.
- The lookahead's bound and the disjoint branch's index leave out an offset.
  Both first matter in a reading that follows at least two records
  (`OverlapDefined`); then `process` may read behind a vector's end.
- A reading without a record reads behind the end of `m_tup_vec_raw`
  (`SerialDefined` excludes that one case and no other).
- Records that came before `read` are forgotten by `m_curr_records` and
  processed again by a later reading.

### Bounds

- Two tenants, the number the program is built for. The two branches (tenant 0
  and the rest) are both there.
- Packets (`MCBackend`): key 0, which the arbiter drops, and key 1; up to two
  measurements per packet, so that a packet can hit the leak with one and block
  on the next; keys the map has (0) and does not have (1, 2).
- `MCRestarts`: one or two packets per tenant, which still reach the leak, the
  race, the dropped key and the assertion. `MaxRestarts` lets tenant 0's
  application end once: it is the tenant whose addresses `Predictor` has built
  in, and one restart is the whole of a shift by one; the theorem has any
  number.
- Grids (`MCFrontend`): both marks, a kernel that differs from them in `y` and
  one in `x` only. Batches of none, one and two measurements with
  `PacketRecords` 1, so that the packet overflows. Readings: at most 3
  (`MaxReadings`; 1 in the liveness run), enough for a reading overwritten, a
  reading consumed and one consumed after an empty mailbox.
- `MCLaunchers`: three threads, so that one can launch while two share a
  release; the two marks and the kernel (1,1), whose key the backend answers.
  The start mark and the kernel mix to the end mark and to (0,1), a kernel of
  key 0, which nobody launched.
- `MCProfiler`: seven kernels of two grids with a chain of overlaps, two of
  which start at once, short kernels within a longer one (which the disjoint
  branch can go back to), one interval that ends where the next begins, a time
  no `int` holds and one no `unsigned` holds; `Wrap` and `Long` stand for 2^32
  and 2^64 and keep clear of each other. Two readings (`MaxReadings`) of up to
  five records (`MaxBatch`) in any order make the offsets into all four vectors
  differ; one early record (`MaxEarly`) puts the counters out. The theorems
  hold for any number of each.
- Gate: three waiters and two notifiers, so that a woken sleeper can be
  overtaken and two notifications can fall together.
- `MCPropreact`: both marks and one kernel, at most one reading, a batch that
  fits the packet, a second tenant with two packets.

`CHECK_DEADLOCK FALSE` is set where the system may stop: an application need not
launch again, a crashed process does nothing, and a leaked mutex or a dropped
key leaves everybody waiting, which the properties then say explicitly.
`condvar_gate` checks deadlock.

### Fairness

- Weak fairness for each thread: it keeps running while it can. The application
  must finish a call it has made (`InCall`) but need not make one; `process`,
  once called, runs on, and nobody has to call `read`.
- Strong fairness for `IBRecordActive`, the step that competes for `m_mutex`
  with the arbiter: the arbiter holds the mutex only for a look-up and sleeps
  2 ms per round, so a waiting thread gets it (`Arbiter.cpp:84`).
- In `CondVarGate`, strong fairness for taking the mutex, which keeps becoming
  free. No fairness for spurious wake-ups, and none for calling.
- In `Frontend`, `Daemon` is a backend that answers every request. `Propreact`
  drops that assumption: `ImplementsLibrary` justifies its safety, and
  `LaunchReturnsUnlessStuck` names what it takes to justify the rest.
- In `Launchers`, too, the backend answers (`PredWork`), but not a request of key
  0: `SomeoneReturns` names that as its one escape.
- An application is never obliged to end (`Abandon`), nor `XrushProfile` to take
  the process down (`ProfileCrash`).

## 4. The proofs

The proof modules are checked by TLAPS for arbitrary constants under the named
assumptions of the modules that declare them (`ThreadsAssumption`,
`NumTenantsAssumption`, `NoRequestAssumption`, `PacketsAssumption`,
`RestartsAssumption`, `GridsAssumption`, `BatchesAssumption`,
`KernelsAssumption`, `WidthAssumption`, `BoundAssumption`; and
`BackendAssumptions`, which are those of `Backend` for the program's instance of
it).

- **CondVarGateProofs**: `TypeCorrect`, `MutexCorrect`, `WakeupsCorrect` and
  `SafetyImplementsGate`, for any number of waiters and notifiers.
  `MutexHeldInside` is an equivalence so that it is inductive with typing.
  `NoLostWakeup` is inductive given the mutex: a flag can only go up with the
  notifier still ahead of its `notify_one`, and the only waiter that can go to
  sleep then would need the notifier's mutex.
- **BackendProofs**: `AssertionHolds` rests on the inductive invariant `IInv`,
  which is `TypeOK`, `DecisionsMatchRequests`, `NeverAborts` and `LookupsFirst`
  (the arbiter has looked up everything it found before it releases anybody;
  without it a tenant could be released and still be on the list of look-ups).
  `NeverAborts` alone is not
  inductive: a thread at `update` with an entry still in the pool is excluded
  only because entries exist only between `update` and the end of `wait`.
  `MessageCorrect` and `MeasurementsCorrect` need no assumption on the flags;
  the latter rests on `KeysGrow`, that no step takes a key out of a map.
  `LeakIsFinal` is an action property. `BackendImplementsArbitration` combines
  `IInv` with `OneMessageUnderWay`, which tells where a waiting application's
  message is.
- **RestartsProofs**: `RestartAssertionHolds` and `RestartMessagesCorrect`, for
  any number of restarts. The first takes `Backend`'s lemmas for every step of
  its own; `Abandon` touches the queues and nothing `IInv` speaks of. The
  second counts: each step moves a message or creates one together with the
  wait for it, and `Abandon` ends a wait and counts the message left behind.
  `RestartDecisionsCorrect`, `RestartMeasurementsCorrect` and
  `RestartLeakIsFinal` carry the rest of `Backend`'s safety over: an application
  that ends loses no measurement the backend has taken, leaves no release
  behind, and gives no leaked mutex back.
- **FrontendProofs**: `HandOver` is the inductive invariant; it lists the four
  places a launch can be at (trigger in gate 1, being read, being worked on,
  permit in gate 2) and that with no launch waiting both gates are empty and the
  predictor is at the first. `HandlesThisLaunchCorrect`, `WindowCorrect`,
  `CrashCorrect` and `FrontendImplementsLaunch` follow from it.
  `LaunchTakesReadingCorrect` adds that the predictor past `consume` leaves the
  mailbox empty, which no reading can disturb while the only thread waits.
  `CrashCorrect` is about the predictor's ways to take the process down:
  `ProfileCrash` is `XrushProfile`'s, and no property denies it.
  `MeasurementsOnceCorrect` compares every two readings in `sent`; its own
  invariant puts those already sent below the one in the predictor's hands, and
  that below the one in the mailbox or to come. It holds for any flags.
  `ReturnsSettledCorrect` is the property that run `frontend_uninitialised`
  violates, proved for `ZeroedSpec`: the flags the constructor leaves are all
  that is wrong.
- **LaunchersProofs**: `NoSpareReleaseCorrect` and `NotEveryoneLostCorrect`,
  for any finite set of threads. A release comes into being with its launch's
  step into the wait, moves from gate to predictor to gate, or meets another in
  a gate and becomes one with it; it ends together with a wait.
- **ProfilerProofs**: `SerialExactCorrect`, `SerialDefinedCorrect` and
  `WindowShortestCorrect`, for any serial kernels, any way of spreading their
  records over readings and any widths. The invariant is
  `Recorded /\ (Serial /\ Counted => InStep)`: `InStep` relates the four
  vectors, the three counters and the loops' indices at each place, and
  `Serial` and `Counted` speak of records handed over, so they can only turn
  false and a step need be looked at only where both still hold. Under them no
  two intervals overlap, `Merge` never happens, and no time goes through 32 bits.
- **OverlapProofs**: `TypeCorrect`, `KernelOnceCorrect`, `OverlapDefinedCorrect`,
  `GapsRealCorrect` and `ProcessDescends`, for kernels that overlap in any way,
  those that start at once included, and records in any order, each under the
  conditions its property names. `KernelsAssumption` says only that no kernel ends
  before it starts or after what 64 bits hold.
  - `std::sort` is `SortedFrom`, defined by the place (`Position`) each record
    gets. `SortArranges` says that the result has the same records, in order:
    no two records get one place, equal ones included, and a one-to-one map of
    `1..n` into itself is onto.
  - `Shape` is the inductive invariant under everything else. Besides typing it
    has the lengths of the four vectors against the counters (`Lengths`), that
    no record comes twice and, where no two kernels start at once, no start
    either (`Distinct`), that a reading's first interval begins when its first
    record does (`Begun`), and that the kernels found are the intervals', from
    among the records searched (`Searched`).
  - `KernelOnce` follows from `FoundInTurn`: kernels are found in the order
    their records came in, and those of earlier readings lie before the
    offset, as long as no two start at once and all records are counted. A kernel matched by its start time alone is therefore never behind
    the place the search is at.
  - `OverlapDefined` says that an index goes wrong only from the third record
    on. `Starting` bounds `totdis` by the offset. Before the offset is 2, the
    intervals rise and each begins with a record the search has not passed
    (`Risen`, `Passed`), so that it finds them all before the records run out.
  - `GapsReal`: an interval covers the kernel it begins with (`Covered`) and
    ends before the next begins, unless the disjoint branch has gone back
    (`Spaced`); until it has, the last interval begins with the last record
    looked at (`Abreast`); and where it has, a search through records in order
    finds nothing more (`Climbing`). That records are in order, or none has been
    dropped, is no convenience of the proof: without it the property is
    false, in the way section 3 describes, and `MCProfiler`'s kernels reach
    such a state.
  - `ProcessDescends` is an action property: each iteration leaves fewer records
    to look at and no loop is entered again. It is `ReadingEnds` without
    fairness.
- **PropreactProofs**: `MeasurementsDeliveredCorrect` and
  `ProgramImplementsLibrary`, for any number of tenants. The invariant `PInv`
  says of the library's tenant that its message is in exactly one of four places
  (none, queued, being served, answered), ties those to the predictor's place,
  and that once the predictor is past `receive` everything of its batch is
  stored. The refinement then has the backend's `IBSend` as `Daemon` and all its
  other steps as stutters.
  `ProgramImplementsBackend` is the other half: the library is one of the
  applications `Backend` allows for. With both, the theorems of the two parts
  are theorems of the program. `BP` and `FP` are instances of `BackendProofs` and
  `FrontendProofs` over the program's variables, and `BackendSafeInProgram`,
  `LibrarySafeInProgram` and `LaunchTakesReadingInProgram` cite them.

Only model-checked:

- everything under fairness, which is out of this prover's reach:
  `ImplementsGate` with its liveness, `AnsweredUnlessStuck`, `LaunchReturns`,
  `LaunchReturnsUnlessStuck`, `SomeoneReturns`, `ReadingEnds`. Of the last,
  `ProcessDescends` leaves only that a thread in `process` keeps running.

## 5. Not modelled

- The values of measurements in the backend: nothing uses them (the look-ups
  return 0), so neither the order of the queues nor the two comparators of
  `GlobalWindow.h` can be seen.
- What two applications on tenant 0 at the same time do: it depends on what
  nanomsg does with an address that is bound twice. `Restarts` has them one
  after the other.
- `Window` with several launching threads: `XrushProfile` then races with the
  predictor by the shape of the code, and there is no promise to check.
- nanomsg, of which the repository has two headers, and CUPTI, which is not in
  it: `Channels` is a reliable queue with one sender and one receiver, and
  `Profiler` assumes that no buffer is returned while `process` runs.
  `take_buffer` only allocates.
- Failing `nn_` and CUPTI calls, which trip assertions or print; running out of
  memory; the moments between the start of the backend's threads.
- `Interposer::m_last`, timestamps and output; `Window::Acquire` and `Release`,
  which no code calls.

## 6. The plan

Done, in this order: gates; request pool, maps, arbiter and tenants' threads;
the library; the composition; the profiler and the tables it fills; several
launching threads; applications that end and are followed by others; the
composition as an implementation of the library's specification.

What could follow:

1. How often one tenant can be served while another waits (each round serves
   everybody it found).
2. `Profiler` and `Frontend` composed, the batch of the one being the reading
   of the other.
