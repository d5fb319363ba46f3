# A verification of the distributed parts of COM and RPC

TLA+ modules, TLC runs and TLAPS proofs for the concurrent core of this tree:
the DCOM resolver that keeps track of exported objects and of those that its
machine uses on others, the part of a server process that pins its objects, and
the reader/writer locks that the resolver and the RPC runtime are built on. `PROJECT.json` maps every definition to the
lines it models.

## 1. The system

The tree holds COM (`ole32`), RPC (`rpc`), structured storage
(`ole32/stg`), link tracking (`svcdlls/trksvcs`), system event notification
and the synchronization manager (`mobile`), and the .NET Framework
(`netfx`). What makes COM more than a calling convention is its distributed
garbage collection, and it is the part where the interleavings are hardest:
clients, servers and resolvers of several machines share it, all of which may
die, and no test exercises most of the orders in which its calls can arrive.

### Parts, their state and how they interact

| Part | State | Operations | Hard because |
|---|---|---|---|
| Resolver, server side (`ole32/dcomss/objex`: `orsvr`, `manager`, `process`, `worker`, `plist`) | tables of OIDs, OXIDs, processes and ping sets; a list of OIDs by timeout; rundown calls in progress | calls of server processes (connect, allocate, free, unpin), pings of clients, task threads that run down OIDs, power events (suspend, resume, and resume after a sleep that was not announced) | the lock `gpServerLock` is dropped around each rundown call and its tail; processes die at any point; reference counts decide who deletes |
| Unpin requests (`ole32/com/dcomrem`: `idobj`, `refcache`, `marshal`, `remoteu`) | pin state of each identity object, the list of unpin requests and its count, one worker thread | table marshals and `CoLockObjectExternal`, rundown calls of the resolver, the worker's bulk updates | state changes while the worker is in a call; calls fail before or after they were served |
| Resolver, client side (`orclnt`, `cset`, `coid`) | for each user and server machine a set of client OIDs, what of it changed, which OIDs it believes to be in the set of the server, a sequence number | references of processes come and go; worker threads ping, with the changes (in parts) or with the set ID alone | changes are collected under a lock and pinged without it; calls fail before or after they were executed, or are executed late or twice |
| Ping sets of the server side (`sset`, `orsvr`, `manager`) | the OIDs of a set, its sequence number, owner and timeout | complex and simple pings, timeouts | late, repeated and refused pings |
| `CSharedLock` (`objex/locks`) | two interlocked counters, an event, a critical section, an owner | lock and unlock shared and exclusive, convert | readers and writers announce themselves before they look for each other |
| `SWMRLock` (`rpc/runtime/mtrt/swmr`) | a queue of waiter blocks with reference counts, cached blocks | the same, with conversions in both directions that tell whether a writer came between | lock-free reads that are checked again, blocks that are shared, lent and cached |
| Activation (`olescm`), apartments, IPID reference counts, RPC protocol engines, context handles, transports, storage, link tracking | | | not modelled; see section 7 |

A client that holds a proxy adds its OID to a set and pings the set. An OID
that no set holds is in the resolver's list; when its timeout has passed, the
resolver asks the server process (`IRemUnknown::RundownOid`), which answers
that the object may go, that it must be kept, or that it is *pinned*. A pinned
OID leaves the list for good, so the process has to send an *unpin* when the
last lock of the object goes. The calls go in opposite directions and are not
ordered with each other.

### What has to be true

* Resolver: an OID is listed exactly when nobody refers to it and no call has
  it; counts are exact, so nothing is deleted while something points to it and
  nothing outlives its last pointer; no OID is deleted without its server's
  consent while the server runs; each OID that is being run down is in one
  call that settles it; calls never use a closed binding handle; once a
  resume was handled, time that the machine slept is forgiven; unused OIDs and those of dead servers go in the
  end.
* Unpin requests: an object that the resolver holds as pinned, but that is not
  locked, has its unpin under way, whatever fails; the list, its count and the
  objects' states agree.
* Both together: the pin of the resolver and the lock of the server agree but
  for messages on their way.
* Pings: what the client believes to be in the set of the server is in it, but
  for the cases that the code gives up; the set keeps nothing that the client
  does not know of; no ping is processed twice or after a later one; a change
  that lasts reaches the server.
* Locks: exclusion; exact counts; no lost wake-up; nobody starves; no block
  of memory is used in two places.

## 2. Modules

| Module | What it is | Composes |
|---|---|---|
| `RWLock` | abstract reader/writer lock: what callers are promised | |
| `SWMR` | `SWMRLock` of the RPC runtime, a step for every access outside its queue lock | implements `RWLock` |
| `SharedLock` | `CSharedLock` of the resolver, a step for every interlocked operation, read and system call | implements `RWLock` |
| `ServerOid` | the resolver, server side | |
| `PingSets` | the sets of a server's resolver and the handlers of pings, as operators over requests | |
| `ClientSet` | a set of a client's resolver, the network, and a server | extends `PingSets` |
| `UnpinRequests` | a COM server process, as far as it pins and unpins | |
| `Pinning` | resolver and process together | `ServerOid`, `UnpinRequests` |
| `MC*` | instances for TLC | |
| `SharedLockProofs`, `SWMRProofs`, `SWMRPromise`, `ServerOidProofs`, `UnpinProofs`, `PinningProofs`, `ClientSetProofs` | theorems | |

### `ServerOid`

A section of code under `gpServerLock` is one step; that this is right is what
`SharedLock` shows. `oid`, `oxid`, `proc`, `set` are the C++ objects with
their reference counts; `Commit` models the chain of destructors (the last
reference to an OID releases its OXID, and that its process). `call` is one
asynchronous rundown call; its stages are the points of
`CServerOxid::RundownOids`, `CProcess::RundownOids` and
`AsyncRundownReturnNotification` where the lock is not held: *sending* (OIDs
taken, no references yet), *referenced*, *out*, *replying*, *answered* (before
the results are applied), *check*, *handle*, *drop*, and *failed*. Helper
threads (`RundownHelperThreadProc`) are counted as queued `items` and
`leaving` ones. Calls of servers and pings of clients are inputs; a ping is one
whose sequence number was accepted. Time is a flag on each timeout: fresh, due,
or *slept* (it passed while the machine slept). `power` has `gPowerState`, whether
the machine sleeps or slept without the resume having been handled (`asleep`), and how far
`NotifyCOMOnResume` has come. A sleep is announced (`Suspend`) or not
(`CriticalSleep`, of which `NotifyCOMOnResume` and `DealWithPowerStatusEvent`
speak); the handler runs from any power state.

### `PingSets` and `ClientSet`

`PingSets` has the fields of `CServerSet` that `ServerOid` leaves out: whether
it is owned by a SID, the sequence number, and how many ping periods it has
been silent. A request is refused, ignored (its number is not one of the next
`BaseNumberOfPings`), applied, or creates a set; the answers are the `OR_` codes
that the client tells apart. `known` is what `gpServerOidTable` has. What the
addition of an OID does to its lifetime is in `ServerOid`.

`ClientSet` is one `CClientSet`. `held` are the OIDs that some process uses
(`_cClients > 0`), `listed` all in `_blistOids`, `in` those with `_fIn`.
`PingServer` drops `gpClientLock` twice, so `ping.at` says where its thread is:
*due* (taken from `gpClientSetPList`), *calling* (changes collected, lock
dropped) and *finish* (before it takes the lock again). In the loop, a remote
call is one step for each outcome: the thread's local state is visible to no one
else, and what the network keeps is in `net`. A request may be lost, executed
late, executed again, or executed without its answer arriving. Both arrays are
sent in parts of `MaxChunk`; a refusal starts them again.

Two history variables say what cannot be promised. `newest` counts the pings
sent since the newest that a set accepted. `astray` holds the OIDs of which
`_fIn` may be wrong: those of a set that the server had forgotten, those of a
ping that was acknowledged but not processed, those deleted by a request that
outlived its call, and those deleted in a ping that failed later. Each of these
is a step of the code, named in `ClientSet`; `BeliefExact` and `NothingLeaked`
say that there are no others.

### `UnpinRequests`

`obj` is a `CIDObject` with its `CStdMarshal`: whether it is in the OID table,
its lock count, and `IDFLAG_OID_IS_PINNED`. `req` holds the `OIDUPREQ_` bits,
`list` and `count` the request list. `unlock` is one thread on its way from
finding an object to dropping a lock; the worker's stages are the points of
`WorkerThreadLoop` and `ClientBulkUpdateOIDWithPingServer` between its locks.
The model takes an answer "pinned" as known to the resolver at once; `Pinning`
takes that back.

### `Pinning`

Both modules are instantiated on the same OIDs. Registration, the service of a
rundown call, the service of unpins, the end of an apartment and the death of
the process are joint steps; all others belong to one side. `Overtakes` says whether unpins may be
served while an answer "pinned" is still on its way. The resolver serves all unpins
of a bulk update under one lock (`UnpinOids`). The end of an apartment
(`ApartmentEnds`) is joint too: `FinishShutdown` (`compobj.cxx`) takes its
objects out of the OID table before `CComApartment::CleanupRemoting` gives up
the OXID, with the OIDs no object has. `LazyUseProtseq` of `ServerOid` has no
counterpart in the process and is not composed.

Before it ends, an apartment stops (`StopServer`: `OXIDF_STOPPED`), and one that was
initialized again meanwhile is restarted with its objects as they are
(`RestartServer`; `stopped` has the apartments in between). A rundown call that
finds its apartment stopped or gone fails with `RPC_E_DISCONNECTED`
(`LookupFromIPIDTables`), which `RundownOidNotify` takes for leave to delete all
its OIDs (`CallLost`); `disowned` remembers the objects in the table to which
that happened. One that was dispatched before may still be answered.

### `SWMR`, `SharedLock`, `RWLock`

In `SWMR` the variables are the lock word (`last`, `tag`), the unprotected
`first` waiter, the blocks and, for every thread, its program counter and local
variables. Reads outside the queue lock (of `LastWaiter`, `RefCount`, `Next`)
are steps of their own, so that what was read may be stale when the lock is
taken. `SharedLock` has a stage for every point between two accesses to shared
memory. `RWLock` has no queue, counter or event; `ConvertToExclusive` of
`SWMRLock` maps to its upgrading actions, that of `CSharedLock` to a release
and an acquisition.

## 3. Runs

| Run | Instance | Checks |
|---|---|---|
| `swmr_threads` | 3 threads, all calls, allocation and event creation may fail | `TypeOK`, `MutualExclusion`, `QueueShape`, `RefCountExact`, `FirstWaiterAgrees`, `ConversionVerdict`, refinement of `RWLock` (`Implements`) |
| `swmr_caches` | 2 threads with caches making all calls, one lending the block of its `THREAD`, with failures | `OnePlace`, `SyncWaiterHome` |
| `swmr_liveness` | 3 threads, fair, no allocation or event creation fails | `EveryWaiterServed`, `EmbeddedReturned` |
| `sharedlock` | 3 threads, all calls, fair | `TypeOK`, `Exclusion`, `CountsExact`, `NoLostWakeup`, `OwnerExact`, refinement of `RWLock` (`KeepsPromise`), `NotStarved` |
| `serveroid_calls` | 1 apartment, 2 OIDs, 1 set, 2 calls, helpers, `LazyUseProtseq` | `TypeOK`, `ListedExactly`, `RefsExact`, `LifetimesExact`, `CallsExact`, `ServerDecides` |
| `serveroid_liveness` | 2 OIDs, 1 set, 1 call, no helpers, announced and critical sleeps, fair | `UnpingedRundown`, `DeadServerCleaned`, `SleepForgiven` |
| `serveroid_orphans` | 1 OID | `NoOrphanPins`: expected violation, section 6 |
| `pings` | 2 OIDs (one perhaps unknown to the server), 1 set ID, local and remote, any one fault, one request in the network, fair | `TypeOK`, `BeliefExact`, `NothingLeaked`, `PingsInOrder`, `ChangesSent` |
| `pings_calm` | 2 OIDs, 2 set IDs, no faults, the code's numbers of pings | `InMeansInSet`: expected violation, section 6 |
| `unpin` | 2 objects, up to 2 locks, fair | `TypeOK`, `ListExact`, `NoLostUnpin`, `WorkHasWorker`, `Drained` |
| `pinning_ordered` | 1 OID, 1 set, unpins do not overtake, the worker may fail to start, apartments stop, restart and end | `PinsAgree`, `LockedKept` |
| `pinning_race` | the same, unpins may overtake | `PinsAgree`: expected violation, section 6 |

Every property of a passing run has a mutant: a change of a mapped definition
that a plausible mistake in the code would make, under which TLC finds the
property violated.

### Bounds, and why they are enough

* Threads of a lock: three are a holder, a thread that queues and one that
  converts, joins or overtakes in between; the queue of `SWMR` then has blocks
  of both kinds behind an owner. `SharedLock` is proved for any number.
* OIDs, OXIDs, sets: the code treats OIDs of different apartments separately,
  and those of one apartment meet in a batch or in the limit of calls
  (`MaxBatch` and `MaxCalls` are 1 or 2, against 100 and 1 in the code). With
  two calls and one slot per apartment, the tail of one call overlaps with the
  next.
* `serveroid_liveness`: a critical sleep does not begin in the middle of
  `NotifyCOMOnResume`; if one did, the resume that follows it would start the
  handler again.
* `MaxItems` (helpers of one OXID queued or ending) and `MaxGuests` (calls of
  `LazyUseProtseq`) bound counters that the code leaves unbounded; at the bound
  the helper is not queued, which the code must survive too. Helpers and a second
  call are in `serveroid_calls`, sleeps in `serveroid_liveness`; the theorems of
  section 4 hold with all of them.
* `serveroid_liveness` has no answer "pinned": a pinned OID waits for an unpin that
  its server owes, and what becomes of it when the server dies is
  `serveroid_orphans`.
* A ping set's count is kept modulo three, since only every third ping looks
  for dead OIDs. A new set's count is not initialized in the code, so it is any
  of the three.
* Sets of several clients, sets of this machine, and several apartments or
  processes are in no run of `ServerOid`: its safety properties are proved for
  any number of each (section 4).
* `pings`: `BaseNumberOfPings` 2, `TimeoutPeriods` 1, `SeqModulus` 4, `MaxChunk`
  1, `MaxFailedPings` 0 and `MaxDenials` 1 stand for 3, 3, 2^16, `USHRT_MAX` (`orclnt.cxx` 736), 3 and 3. Two
  numbers are ahead of a set and two behind it, so that the window is reached
  and overrun and the number wraps; two OIDs make two parts. `MaxFaults` 1 lets
  one thing go wrong in a behaviour (not counting refusals, timeouts and a table
  of sets that is full, which need no fault); the safety properties also hold
  with 2 (3.1 million states). A request in the network outlives at most `MaxAge`
  later pings; with `MaxAge + BaseNumberOfPings < SeqModulus` it cannot wait
  until the numbers come round, which in the code takes 2^16 pings. One set ID
  is free again once no request names it, as in the code an ID has a sequence
  part.
* `MaxLocks`: one lock and then a second are enough to tell the last from the
  others.
* Slots: an identifier stands for a slot that may be used again, as memory is.
* `pinning_*`: no helper threads, and one OID, since each OID has its own pin, request and call; what
  OIDs share (list, batch, slots) is in the runs of the components.
  `CHECK_DEADLOCK FALSE` there: an orphaned OID (section 6)
  keeps the slot of the only process of the instance.

### Fairness

* `SWMR`, `SharedLock`: threads run (weak fairness of each thread's steps
  inside a call), holders unlock, and a thread that waits for a critical
  section that is free again and again gets it (strong fairness of `Enter`).
  Threads need not call.
* `ServerOid`: a thread that has begun a step of a rundown call goes on; an RPC
  call returns (with an error if the process died); time passes; the task
  threads come to every due OID again and again, as the list is in the order of
  timeouts, and can make a binding handle some time; a machine that sleeps wakes up
  and handles the resume. Clients and servers owe nothing. `UnpingedRundown` and
  `DeadServerCleaned` except an OID whose timeout a client, or a resume, renews for
  ever.
* `ClientSet`: the worker threads of both machines run, time passes, a call ends
  (RPC has its timeouts), and a request does not stay in the network for ever.
  Processes owe nothing. `ChangesSent` is about OIDs that in the end stay used,
  or unused.
* `UnpinRequests`: the worker runs (it loops while there are requests), and
  the resolver serves and acknowledges a call again and again.

## 4. What is proved

`SharedLockProofs`, for every finite set of threads:

* `Inductive`: the invariant `IInv` is inductive. It is `TypeOK`, `GoalOK`
  (which way a thread inside the critical section is going) and the four safety
  properties of the run. Exclusion alone is not inductive. It needs that the
  counters count exactly the threads in certain stages (`CountsExact`), so that
  a reader that finds `writers = 0` knows of no announced writer, and a writer
  that finds `readers = 0` is alone (`TestsDecide`); and that the owner of the
  critical section is unique, so that two writers, or a writer and a reader
  that counts itself inside, never meet. The counters are cardinalities:
  `CountUp` and `CountDown` reduce each step to adding or removing one thread.
* From it `ExclusionHolds`, `CountsExactHolds`, `NoLostWakeupHolds`,
  `OwnerExactHolds`, `TypeOKHolds`, and `Implements`: every step of `CSharedLock` is a step of
  `RWLock` or none (`PromiseStep`).

`SWMRProofs`, for any finite set of threads, any blocks, whatever allocations
and event creations fail:

* `MutualExclusionHolds`, `QueueShapeHolds`, `RefCountExactHolds`,
  `FirstWaiterAgreesHolds`, `TypeOKHolds`, from the inductive invariant `IInv`
  (`IInvHolds`). Exclusion follows from the count of the first block alone: an
  exclusive hold has a reference count of one, and a count is the number of
  threads that rely on the block (`On`). That the count is right needs the rest.
* `Hands` says where the blocks are that are not queued: in hand, as they were
  initialized; in one cache; or embedded and free. A block that a step puts into
  the queue is therefore new there. `Lined` is the queue as one chain, numbered
  from `FirstWaiter` to `LastWaiter`; lemmas about chains (`LineFacts`,
  `LineAppend`, `LineInsert` and others) say what an insertion or a removal
  leaves. `Marked` is the tag, the owner mark and that readers share one block.
* `Threads` is what a thread knows at its stage. `WaitOK`: its block is queued,
  and its event is set only after the block owns the lock, so that a thread that
  wakes up has it. `SignalOK`: who leaves the lock outside the queue lock has
  somebody to wake. `HandOK`: a thread that is to wait has a block, whose event
  is not set from an earlier use. `HoldOK`: `FirstWaiter`, which the code reads
  without the queue lock, is the block of the holder.
* There is one lemma for each action (`Step...`). Most of them rest on
  `OthersKept` and `Quiet`: the block that another thread relies on
  keeps its kind, owner mark and event, and the step changes at most its place in
  the queue.
* `OnePlaceHolds`, `SyncWaiterHomeHolds` and `EmbeddedReturnedHolds` are about
  blocks that are not in use, from the larger `HInv` (`HInvHolds`): an idle block
  is in a cache (`Cached`), the embedded one is available (`EmbeddedKept`), and
  the block built into a `THREAD` is `AtHome`. `AtHome` has two parts. `Placed`:
  the block has an event, and is in its thread's cache, in its thread's hands
  before an exclusive lock, or in the queue with its thread relying on it; there,
  as a shared block, it is not the last, so that nobody can join it. `AsksBack`:
  a conversion to shared that would leave the block in the queue for others to
  join asks for it back, with another in hand to replace it. The third theorem
  has the hypothesis that events can be created (section 6).

`SWMRPromise`, for the same constants:

* `ConversionVerdictHolds` and `ImplementsHolds`: a conversion tells "more writes"
  exactly to a thread that was overtaken while it waited, and every step of
  `SWMRLock` is a step of `RWLock` or none. The verdict is read from a mark in
  the thread's block, which others set when they queue, and whether it was
  overtaken is decided when others get the lock. `VInv` (`VInvHolds`) ties the
  two: a converter's block is marked if and only if the converter was overtaken
  or another converter, which came later, has the block before (`Led`). It needs
  where these blocks are: before a converter's block there is another
  converter's, or the first one, which no writer is to take over (`Warned`).
  Hence a converter that gets the lock is not led, so that its mark tells
  (`NotLed`); and when a thread gets it exclusively, all that still wait to
  convert are marked (`WarnedOvertaken`).
* There is one lemma for each action that changes the queue or the marks
  (`Warned...`), and one for each way in which a thread gets, keeps or gives up
  the lock (`Promise...`).

`ServerOidProofs`, for any finite sets of OIDs, apartments, ping sets and calls,
and any processes:

* `RefsExactHolds` and `ListedExactlyHolds`: an OID counts exactly the sets
  that hold it and its pin, and it is in `gpServerOidPList` exactly when nobody
  refers to it and no call has it.
* They follow from `IInv` (`IInvHolds`), which has four parts. `Shapes` types
  the OIDs, sets and calls. `AllGood` says of each OID what holds between two
  steps, whatever sets and calls there are: its place in the list, and that it
  is neither freed nor pinned without references or while it is run down.
  `RefsRight` counts its references by sets. `TakenOnce`, that an OID is
  being run down exactly while one call has it, is needed because the result of
  a call is applied without looking at `_fRunningDown`: only so is an OID whose
  result arrives off the list.
* The argument is in three layers: what `Reference`, `Release`, `Unpin`, `Free`
  and `Result` do to one OID that is `Good` (lemmas `...Good`, no sets or calls
  in them); how one set, or one call, that changes keeps `RefsRight` and
  `TakenOnce` (`OneSet`, `CallTakes`, `CallSettles`); and a lemma for each
  action (`...Keeps`) that puts the two together.

Also in `ServerOidProofs`, for the same constants:

* `LifetimesExactHolds`, `CallsExactHolds`, `TypeOKHolds`, `SleepForgivenHolds`:
  with the theorems before, every safety property that `serveroid_calls` and
  `serveroid_liveness` check holds for any number of OIDs, apartments, processes, client sets (local or
  remote) and calls.
* They follow from `IInv /\ LInv` (`LInvHolds`). `Lives` counts everything that
  refers to an OXID or a process. `CallShape` says that a call that is to settle
  OIDs has some, all of its OXID: they keep the OXID there until the call refers
  to it (`process.cxx` 1208). `CallsCounted` counts an apartment's calls, and
  says that its binding handle is open only while a call uses it or one is about
  to close it, which is why the handle is gone before the OXID.
* The counts are cardinalities of sets of calls, OIDs and OXIDs that one step
  changes in one element each; `CallWeights` and `OneElement` reduce a step to
  the weights (`RefW`, `HelpW`, `ActW`, `CallerW`) of the call it changes.
  `Committed` is the chain of destructors: it leaves exact counts if those
  before it were exact but for the objects that went. Then there is one lemma
  for each action and part (`...Lives`, `...Shape`, `...Counted`).
* `ServerDecidesHolds`, an action property: as long as an OXID runs, its OIDs are
  deleted only if their server freed them or answered so. It follows, action by
  action, from what a step does to one OID (`Quiet`, below under
  `PinningProofs`); `StopDecides` is for the steps that end an OXID.
* `SleepForgivenHolds`, for sleeps announced or not, is from `Forgiven`, which says
  at which stage of resuming the timeouts of sets and OIDs may still be overdue
  from sleep, and that rundowns are allowed again at its end. That no step
  brings one back is a lemma about each operation on an OID (`Awake...`).

`UnpinProofs`, for any objects:

* `NoLostUnpinHolds`: an object that the resolver holds as pinned and that is
  not locked has its unpin on the way. The invariant `UInv` (`UInvHolds`) types
  the requests and says: a thread that is to drop a lock has one (`LockHeld`); a
  pinned object is locked, or the thread that unlocked it is about to report it
  (`PinnedLocked`); a pending request is in the batch of the worker
  (`PendingSent`); and of an object that the resolver holds as pinned the process
  knows so, or has a request that was not served since (`Promised`). The list of
  requests does not matter for it.
* `ListExactHolds`, `WorkHasWorkerHolds` and `TypeOKHolds` are about the list,
  from `UInv /\ LInv` (`LInvHolds`): the list is a sequence without repetition
  (`Once`) of the objects that are flagged as listed, as long as the count says
  (`Listed`); what the flags of a request can be (`Flagged`); and
  that the worker has a batch only while a call is out (`Batched`).
  `WorkHasWorkerHolds` is for a process in which threads can be created
  (`~ ThreadsFail`): without it a request may wait for the next one, as in the
  code.
* What `Without` leaves of a sequence is proved by induction on its length.
  The induction theorems of the library take an operator, which the provers
  cannot instantiate; `InductionSet` is the same principle for a set of numbers,
  and an instance of it is the set of the numbers for which the lemma holds.
  `RecursionWorks` shows in this way that the recursive function in `Without`
  has the values that its definition gives.

`PinningProofs`, for any OIDs, apartments, client sets, calls and processes:

* `ResolverImplemented` and `ServerImplemented`: a step of the composition is, on
  the variables of the resolver, a step of `ServerOid` or none, and on those of
  the process a step of `UnpinRequests` or none. So the invariants of both hold
  in the composition. The second needs the first: that a call in flight has OIDs
  is an invariant of the resolver.
* `LockedKeptHolds` and `PinsAgreeHolds`, from `Linked`, which says three things
  of an object in the table. Its OID, if the resolver has it, was not given up,
  and the resolver counts its apartment as running. If the resolver has lost the OID of an object that
  counts as pinned, or an answer "ok" for it is on the way, the thread that
  unlocked the object is about to say so; while it does, nobody can lock the
  object again; or a call did not reach the object's apartment (`disowned`). And if unpins do not overtake answers (`~ Overtakes`), what the
  resolver holds as pinned, or will when the answers arrive, is what
  `UnpinRequests` calls `believed`, so that `Promised` of `UInv` applies. That
  hypothesis is needed: `pinning_race` shows what happens without it.
* The resolver takes most of its steps alone. What they do to one OID is the
  last section of `ServerOidProofs`: by any of them, an OID whose apartment runs
  and that was not given up is deleted only by an answer "ok", and pinned only
  by an answer "pinned" (`Quiet`). It rests on what each operation keeps of an
  OID (`Kept`) and on one lemma for each group of actions (`...Quiet`).
* Both modules of proofs are instantiated. Their instances of the components are
  not those of `Pinning`, so the lemmas `SharedOf...` and `AloneOf...` say that the
  definitions agree; `ResolverAssumed` and `ServerAssumed`, that the constants of
  the composition are ones the components allow.

`ClientSetProofs`, for any OIDs, sets, faults, sizes of a ping and sequence
moduli:

* `BeliefExactHolds` and `TypeOKHolds`. The invariant `BInv` (`BInvHolds`) adds
  to the property what is believed while there is no set (`Belief`: all of it is
  astray, or was deleted by the call that is under way), and what the ping under
  way has done (`Sent`: additions that need not be sent any more are in the set;
  without a set all changes are still to be sent). Without `Sent`, `Finish` could
  set `_fIn` for an OID whose part of the ping went to a set that is gone.
* What the server does with a request is one lemma (`Served`). The eight
  outcomes of a call become five effects on the ping and the set (`Completed`,
  `Unnoticed`, `Mistaken`, `Forgotten`, `Unexecuted`; lemma `CallEffects`), and
  `CallKeeps` shows each of them to keep the invariant; a request that is
  executed late can only remove, and what it removes is astray (`StrayKeeps`).

Also in `ClientSetProofs`, for the same constants:

* `PingsInOrderHolds` and `NothingLeakedHolds`, from `OInv` (`OInvHolds`), which
  adds two parts to `BInv`. `Ordered` relates every sequence number in the system
  to the age of its request: the next one of the client to the requests that are
  in the network (`Sequel`), these to each other (`InTurn`), and the number of a
  set to the requests that were sent before the newest that it has accepted
  (`Overtaken`). That distance is less than the modulus less
  `BaseNumberOfPings`, so that a set refuses what was overtaken
  (`OvertakenRefused`). A set ID is not used again while a request has it
  (`Free`), which keeps requests of an earlier set of that ID out.
* `Traced` is about `Reach`, what the client's set has or may get from requests
  that were not overtaken: all of it is listed or astray, and what the ping under
  way has deleted is not in it, or astray. `NothingLeaked` alone is not inductive:
  `Finish` drops OIDs from the list, and a request that is still in the network
  could add them again.

The assumptions are `UnpinAssumption` (there is an object; whether threads fail;
how often an object is locked), `PinningAssumption` (those of both components, and
that there is an OID), `PingSetsAssumption`, `ClientSetAssumption`
(the kinds of the constants, and that sequence numbers do not wrap within the life
of a request), `SWMRAssumption` (the threads are finitely many; which of them
have a cache, lend their block and make which calls; blocks, threads and `NULL`
differ), `SharedLockAssumption` (the threads are finitely many and
`None` is not one of them) and `ServerOidAssumption` (the kinds of the constants;
there is an OXID; OIDs, OXIDs, ping sets and calls are finitely many at a time).

Only model-checked: liveness (`EveryWaiterServed`, `NotStarved`, `UnpingedRundown`,
`DeadServerCleaned`, `ChangesSent`, `Drained`), since liveness under fairness and
ENABLED are beyond the prover. Every safety property that a passing run checks is
proved.

## 5. How a model differs from the code

* Memory is sequentially consistent. The locks use interlocked operations
  (full barriers) where two threads race; the unprotected `FirstWaiter` of
  `SWMRLock` is written and read under happens-before edges of the events.
* `RundownOidsHelper` takes OIDs in the order of the list; the model takes any
  batch of eligible ones.
* Allocation failures are modelled where they change the control (a rundown
  call, a waiter block, a worker thread, an insertion into a set), not for
  every table.
* In `ClientSet`, the security of a binding is set or not; which packages are
  tried is left out. The server machine has security (`IsSecure`), and a quota
  that is exceeded is a failed communication, as it is for the client. A late
  simple ping would only renew a timeout, and is left out. A late request is
  executed by a server that has the memory for it. `known` does not change: an
  OID that a set holds stays in the table, and one that goes is dropped by
  `ValidateObjects`, which is in `ServerOid`.
* In `UnpinRequests` one thread at a time unlocks, since the section from the
  last unlock to the notification is under `gIPIDLock`.
* `SharedLock` leaves out a thread that takes the lock again while it has it.

## 6. Findings

| Run | What |
|---|---|
| `serveroid_orphans` | an answer "pinned" is applied after the server died and its pinned OIDs were scanned: the OID, the OXID and the process object stay for ever |
| `pings_calm` | changes that cancel out in each ping period are not pinged, and no simple ping is sent either; the server runs the set down, the client makes a new one with the additions of one ping only, and the OIDs it had are in no set |
| `pinning_race` | an unpin is served before the answer "pinned" of an earlier rundown call is processed: the OID is pinned afterwards, and no unpin comes |

Where the code departs from its comments or assertions in smaller ways, the
models follow the code, and no property claims otherwise:

* `ConvertToShared` does not return a synchronous block when a writer queues
  between its two looks (`swmr.cxx` 1193 and 1292): it keeps the replacement
  and leaves the caller's block in the queue. `RpcSsContextLockShared`
  (`scontext.cxx` 1403) makes this conversion on a lock taken with the block of
  a `THREAD`. It is harmless: a block that is not the last is joined by nobody, so
  the thread gets it back when it unlocks (`SyncWaiterHome`). A lock is
  unlocked or converted by the thread that took it, and a `THREAD` has two slots
  for blocks, its own and one more (`threads.cxx` 898).
* After a sleep that was not announced, sets and OIDs whose timeouts passed may be
  run down before the resume is handled, as `gPowerState` never changed:
  `start.cxx` 377 says so ("ping set timers may have rundown"), `worker.cxx` 336 says
  of the reset "so they don't get erroneously rundown". `SleepForgiven` is about
  the time from the end of the handler.
* A rundown call that arrives while its apartment is stopped gives up its
  OIDs (`process.cxx` 1363), also those of locked objects. `compobj.cxx` 1106, 1288
  and 1325 may restart the apartment with these objects: their OIDs are not
  registered again. `LockedKept` excepts them (`disowned`).
* A failed event creation loses the embedded waiter (`swmr.cxx` 252), so that
  the destructor's `ASSERT(CachedWaiterAvailable)` (`swmr.hxx` 538) fails.
  `EmbeddedReturned` is checked where events can be created.
* `NotifyOIDIsUnpinned` asserts that a pinned object is in the OID table
  (`idobj.cxx` 724). One that was disconnected since a thread found it to drop
  its last lock is not.
* `OR_PARTIAL_UPDATE` counts as a failure (`resolver.cxx` 294), against the
  comment at `refcache.cxx` 1274: unpins that were executed are sent again.
* A ping whose answer is lost is sent again with the same sequence number but
  with the changes of a later time (`orclnt.cxx` 789 and 878): the server ignores
  it and answers `OR_OK`, and changes that were made between are taken for done.
  The same happens when refused calls advance the number past the server's window
  of three. `astray` has these OIDs.
* A ping in several parts, or one that is answered too late, may have deleted
  OIDs when it fails; one that was used again meanwhile is still `_fIn`.
* `PingServer` returns without putting the set back in `gpClientSetPList` when
  there is no memory for the request (`orclnt.cxx` 569). The set is not pinged
  again: the stage *lost*, the exception of `ChangesSent`.
* `ASSERT(_setid != 0)` before a simple ping (`orclnt.cxx` 969) fails after
  changes that cancel out before the first ping, or after a refused first one.
* A request goes to the head of the list, against the comment at `idobj.cxx`
  1936; under a steady load an old one may never be sent. `Drained` is about
  the time when no more come.

## 7. Not modelled

Listed with reasons in `PROJECT.json`: the resolution of OXIDs and the tables of
the client side of the resolver, activation, IPID reference counts and the
channel, apartments and contexts, the RPC thread pool, protocol engines, context
handles and transports, NDR and MIDL, structured storage, link tracking, event
notification, and the .NET Framework. Each is of the size of what is modelled
here or larger; the resolver and the locks it stands on came first because their
interleavings reach over machines.

## 8. Plan

1. Done: `RWLock`, `SWMR`, `ServerOid`, `UnpinRequests`, `Pinning`,
   `SharedLock`, `PingSets`, `ClientSet`, and the proofs of section 4.
2. Done: proofs of every safety property, of both refinements of `RWLock`, and of
   the composition in `Pinning`.
3. `Threads`: the RPC runtime's pool; `ContextHandle`: creation, locking and
   rundown, which `ServerOid` relies on for the death of a process.
4. `Activation`: registration of a launched server against its timeout.
5. `Commit` orders: the multistream file of structured storage, and the move
   log of link tracking, with crashes between writes.
