-------------------------------- MODULE SWMR --------------------------------
(***************************************************************************)
(* SWMRLock, the queued single-writer/multiple-reader lock of the RPC      *)
(* runtime (src/rpc/runtime/mtrt/swmr.hxx, swmr.cxx).                      *)
(*                                                                         *)
(* The lock is a queue of waiter blocks.  LastWaiter points to its end and *)
(* carries in its low bits the kind of the last block (the tag), or the    *)
(* mark of the queue lock.  FirstWaiter points to the owners' block and is *)
(* not protected.  Readers that follow one another share a block and count *)
(* themselves in it; the others wait for the event of their block.         *)
(*                                                                         *)
(* A section under the queue lock (Lock() to UnlockAndCommit()) is one     *)
(* step: all it writes is reached through that lock, and a word read       *)
(* outside it has its value from before or from after the section.  Every  *)
(* unprotected read the code later acts on (LastWaiter's tag, FirstWaiter, *)
(* RefCount, Next) is a step of its own, as are the allocation of a block, *)
(* SetEvent after the commit, and SetFirstWaiter after the wait.           *)
(***************************************************************************)
EXTENDS Naturals, FiniteSets

CONSTANTS
  Thread,       \* the threads that use the lock
  CacheUsers,   \* those that pass a WaiterCache with their calls
  SyncThreads,  \* those that take theirs from their THREAD object, which has
                \* a place for one block and a block of its own, named after
                \* the thread here, to lend (threads.cxx, scontext.cxx)
  Uses,         \* the calls each thread makes beside Unlock
  Heap,         \* the blocks operator new can return
  Embedded,     \* SWMRLock::CachedWaiter
  NULL,         \* the null pointer
  Failures      \* what may fail: "new", "event"

ASSUME SWMRAssumption ==
  /\ IsFiniteSet(Thread)
  /\ SyncThreads \subseteq CacheUsers
  /\ CacheUsers \subseteq Thread
  /\ Uses \in [Thread -> SUBSET {"reader", "writer", "upgrade", "downgrade"}]
  /\ Heap \cap Thread = {}
  /\ Embedded \notin Heap \cup Thread
  /\ NULL \notin Heap \cup Thread \cup {Embedded}
  /\ Failures \subseteq {"new", "event"}

Block == Heap \cup {Embedded} \cup SyncThreads

Kinds == {"reader", "writer"}

VARIABLES
  last, tag,  \* LastWaiter: the pointer, and the state in its low bits
  first,      \* FirstWaiter
  avail,      \* CachedWaiterAvailable
  blk,        \* the fields of every waiter block
  cache,      \* *WaiterCache of each thread; of SyncThreads, CachedWaiterPtr
  pc,         \* where each thread is
  kind,       \* what it asks for, and then what it holds
  waiter,     \* its local Waiter or AllocatedWaiter: a block not yet queued
  mine,       \* its local pointer to a queued block (LastWaiter, CurrentOwner...)
  seen,       \* its local LastWaiterState
  sync,       \* its argument fSyncCacheUsed
  status,     \* what its last call returned
  stale       \* history: upgrading threads overtaken by an exclusive owner

queue == <<last, tag, first>>
local == <<kind, waiter, mine, seen, sync>>
vars == <<queue, avail, blk, cache, pc, local, status, stale>>

-----------------------------------------------------------------------------
(* Waiter blocks *)

BlockKinds == {"free", "idle", "home"} \cup Kinds
Events == {"none", "reset", "set"}

\* A block's type, the flags OwnLock and WriterInsertedBefore, and the rest.
\* A heap block is "free" until allocated; "idle" is a block in a cache; the
\* own block of a THREAD is at "home" when its CachedWaiterAvailable is TRUE.
Waiters == [type : BlockKinds, own : BOOLEAN, inserted : BOOLEAN,
            ref : Nat, next : Block \cup {NULL}, event : Events]

\* Mutant: Initialize leaves RefCount at zero.
FreshUncounted(type, event) ==
  [type |-> type, own |-> FALSE, inserted |-> FALSE,
   ref |-> 0, next |-> NULL, event |-> event]

\* SWMRWaiter::Initialize
Fresh(type, event) ==
  [type |-> type, own |-> FALSE, inserted |-> FALSE,
   ref |-> 1, next |-> NULL, event |-> event]

\* Mutant: an event that exists is not reset before it is waited on again.
ArmedOnce(b, needed) ==
  IF needed /\ blk[b].event = "none" THEN "reset" ELSE blk[b].event

\* The event a block has after Initialize or InitializeEventIfNecessary.
Armed(b, needed) == IF needed THEN "reset" ELSE blk[b].event

\* What operator new has left, and the block it returns: which one makes no
\* difference to anybody.
FreeBlocks == {b \in Heap : blk[b].type = "free"}
NewBlock == IF FreeBlocks = {} THEN NULL ELSE CHOOSE b \in FreeBlocks : TRUE

\* AllocateWaiter: the embedded waiter if it is there, else a heap block.  The
\* flag of the embedded waiter may rise later than the commit that frees it
\* (StoreOrFreeSpareWaiter), so a thread may go to the heap although it is up.
\* When its event cannot be created the embedded waiter is not given back.
AllocateWaiter(t, type, eventRequired, success, failure) ==
  \/ \E b \in {NewBlock, Embedded} :
       /\ b # NULL /\ (b = Embedded => avail)
       /\ avail' = (avail /\ b # Embedded)
       /\ blk' = [blk EXCEPT ![b] = Fresh(type, Armed(b, eventRequired))]
       /\ waiter' = [waiter EXCEPT ![t] = b]
       /\ pc' = [pc EXCEPT ![t] = success]
       /\ UNCHANGED status
  \/ /\ \/ /\ avail /\ eventRequired
           /\ blk[Embedded].event = "none" /\ "event" \in Failures
           /\ avail' = FALSE
        \/ /\ \/ "new" \in Failures \/ NewBlock = NULL
              \/ eventRequired /\ "event" \in Failures
           /\ UNCHANGED avail
     /\ status' = [status EXCEPT ![t] = "noMemory"]
     /\ pc' = [pc EXCEPT ![t] = failure]
     /\ UNCHANGED <<blk, waiter>>

\* Mutant: the embedded waiter is not marked available again.
ReturnsNothing(b, c) == FALSE

\* The block GetWaiterCache gives thread t for a lock of kind k: what the
\* cache holds, or, for a synchronous call that asks for an exclusive lock,
\* the THREAD's own block; an asynchronous call gets none.
Offers(t, k) ==
  IF cache[t] # NULL THEN {cache[t]}
  ELSE IF t \in SyncThreads /\ k = "writer" /\ blk[t].type = "home" THEN {t, NULL}
  ELSE {NULL}

\* What *WaiterCache holds when a thread converts or unlocks: the callers
\* that take their block from the THREAD pass an empty cache then.
Passed(t) == IF t \in SyncThreads THEN NULL ELSE cache[t]

\* Of the two spare blocks b and c, the one that fills an empty *WaiterCache.
ToCache(b, c) ==
  IF b \notin {NULL, Embedded} THEN b ELSE IF c # Embedded THEN c ELSE NULL

\* Mutant: a full cache is overwritten.
KeptAlways(t, b, c) == IF t \in CacheUsers THEN ToCache(b, c) ELSE NULL

\* Which of the spare blocks b and c survives: a THREAD's own block always
\* goes back (THREAD::FreeWaiterCache), any other fills an empty cache.
Kept(t, b, c) ==
  LET x == ToCache(b, c)
  IN IF t \notin CacheUsers \/ (cache[t] # NULL /\ x # t) THEN NULL ELSE x

ReturnsEmbedded(b, c) == Embedded \in {b, c}

\* StoreOrFreeSpareWaiter of b and then of c, either of which may be NULL, on
\* top of the blocks q the rest of the step leaves, and the caller's
\* THREAD::FreeWaiterCache: the embedded waiter is available again, one other
\* block is kept, the rest is deleted.
StoreOrFree(t, q, b, c) ==
  LET kept == Kept(t, b, c)
      Spare(x) == IF x \notin {kept, Embedded} THEN Fresh("free", "none")
                  ELSE Fresh(IF x = t THEN "home" ELSE "idle", q[x].event)
  IN /\ cache' = [cache EXCEPT ![t] = IF kept \in {NULL, t} THEN @ ELSE kept]
     /\ avail' = (avail \/ ReturnsEmbedded(b, c))
     /\ blk' = [x \in Block |-> IF x \in {b, c} THEN Spare(x) ELSE q[x]]

-----------------------------------------------------------------------------
(* Who holds the lock *)

\* Between the return of a call that granted the lock and the commit that
\* gives it up.
HoldPCs == {"held", "unlock", "cvt", "cvtAlloc", "cvtOne", "cvtMany",
            "sh", "shAlloc", "shLast", "shJoin", "shSignal"}

Holds(t, k) == pc[t] \in HoldPCs /\ kind[t] = k

\* t becomes the exclusive owner: threads that gave up a share to wait for
\* the exclusive lock have been overtaken.
Overtake(t) == stale' = (stale \cup {u \in Thread : pc[u] = "cvtWait"}) \ {t}

Init ==
  /\ last = NULL /\ tag = "Free" /\ first = NULL
  /\ avail = TRUE
  /\ blk = [b \in Block |->
              IF b \in Heap THEN Fresh("free", "none")
              ELSE IF b = Embedded THEN Fresh("idle", "none")
              ELSE Fresh("home", "reset")]
  /\ cache = [t \in Thread |-> NULL]
  /\ pc = [t \in Thread |-> "idle"]
  /\ kind = [t \in Thread |-> "reader"]
  /\ waiter = [t \in Thread |-> NULL]
  /\ mine = [t \in Thread |-> NULL]
  /\ seen = [t \in Thread |-> "Free"]
  /\ sync = [t \in Thread |-> FALSE]
  /\ status = [t \in Thread |-> "ok"]
  /\ stale = {}

-----------------------------------------------------------------------------
(* LockSharedOrExclusive *)

\* LockShared or LockExclusive.  The block offered leaves the cache at once.
LockCall(t, k) ==
  /\ pc[t] = "idle" /\ k \in Uses[t]
  /\ pc' = [pc EXCEPT ![t] = "look"]
  /\ kind' = [kind EXCEPT ![t] = k]
  /\ \E w \in Offers(t, k) :
       /\ waiter' = [waiter EXCEPT ![t] = w]
       /\ blk' = IF w = NULL THEN blk ELSE [blk EXCEPT ![w] = Fresh(k, @.event)]
  /\ cache' = [cache EXCEPT ![t] = NULL]
  /\ status' = [status EXCEPT ![t] = "ok"]
  /\ UNCHANGED <<queue, avail, mine, seen, sync, stale>>

\* A block with an event is needed to wait; a reader that finds readers at
\* the end of the queue brings none of its own.
JoinsReaders(t, state) == state = "LastReader" /\ kind[t] = "reader"

\* Read the state and make the waiter block ready for it.
Look(t) ==
  /\ pc[t] = "look"
  /\ seen' = [seen EXCEPT ![t] = tag]
  /\ LET w == waiter[t]
         toLock == /\ pc' = [pc EXCEPT ![t] = "lock"]
                   /\ UNCHANGED <<avail, cache, waiter, status>>
     IN \/ /\ JoinsReaders(t, tag) \/ (w # NULL /\ tag = "Free")
           /\ toLock /\ UNCHANGED blk
        \/ /\ ~ JoinsReaders(t, tag) /\ w # NULL /\ tag # "Free"
           /\ toLock /\ blk' = [blk EXCEPT ![w].event = "reset"]
        \/ /\ ~ JoinsReaders(t, tag) /\ w # NULL /\ tag # "Free"
           /\ blk[w].event = "none" /\ "event" \in Failures
           /\ StoreOrFree(t, blk, w, NULL)
           /\ waiter' = [waiter EXCEPT ![t] = NULL]
           /\ status' = [status EXCEPT ![t] = "noMemory"]
           /\ pc' = [pc EXCEPT ![t] = "idle"]
        \/ /\ ~ JoinsReaders(t, tag) /\ w = NULL
           /\ pc' = [pc EXCEPT ![t] = "alloc"]
           /\ UNCHANGED <<avail, blk, cache, waiter, status>>
  /\ UNCHANGED <<queue, kind, mine, sync, stale>>

LockAllocate(t) ==
  /\ pc[t] = "alloc"
  /\ AllocateWaiter(t, kind[t], seen[t] # "Free", "lock", "idle")
  /\ UNCHANGED <<queue, cache, kind, mine, seen, sync, stale>>

\* The state has changed since it was read: loop around.
LockRetry(t) ==
  /\ pc[t] = "lock" /\ tag # seen[t]
  /\ pc' = [pc EXCEPT ![t] = "look"]
  /\ UNCHANGED <<queue, avail, blk, cache, local, status, stale>>

LastState(k) == IF k = "reader" THEN "LastReader" ELSE "LastWriter"

LockFree(t) ==
  /\ pc[t] = "lock" /\ tag = "Free" /\ seen[t] = "Free"
  /\ blk' = [blk EXCEPT ![waiter[t]].own = TRUE]
  /\ first' = waiter[t]
  /\ last' = waiter[t]
  /\ tag' = LastState(kind[t])
  /\ seen' = [seen EXCEPT ![t] = "Free"]
  /\ waiter' = [waiter EXCEPT ![t] = NULL]
  /\ pc' = [pc EXCEPT ![t] = "held"]
  /\ IF kind[t] = "writer" THEN Overtake(t) ELSE UNCHANGED stale
  /\ UNCHANGED <<avail, cache, kind, mine, sync, status>>

\* Count this reader in the last block, and wait if it does not own the lock.
LockSharedOnLastReader(t) ==
  /\ pc[t] = "lock" /\ tag = "LastReader" /\ seen[t] = tag /\ kind[t] = "reader"
  /\ StoreOrFree(t, [blk EXCEPT ![last].ref = @ + 1], waiter[t], NULL)
  /\ mine' = [mine EXCEPT ![t] = last]
  /\ seen' = [seen EXCEPT ![t] = "Free"]
  /\ waiter' = [waiter EXCEPT ![t] = NULL]
  /\ pc' = [pc EXCEPT ![t] = IF blk[last].own THEN "own" ELSE "wait"]
  /\ UNCHANGED <<queue, kind, sync, status, stale>>

\* LockExclusiveOnLastReader and LockSharedOrExclusiveOnLastWriter.
LockQueue(t) ==
  /\ pc[t] = "lock" /\ tag # "Free" /\ seen[t] = tag
  /\ ~ JoinsReaders(t, tag)
  /\ blk' = [blk EXCEPT ![last].next = waiter[t]]
  /\ last' = waiter[t]
  /\ tag' = LastState(kind[t])
  /\ mine' = [mine EXCEPT ![t] = waiter[t]]
  /\ seen' = [seen EXCEPT ![t] = "Free"]
  /\ waiter' = [waiter EXCEPT ![t] = NULL]
  /\ pc' = [pc EXCEPT ![t] = "wait"]
  /\ UNCHANGED <<first, avail, cache, kind, sync, status, stale>>

\* WaitForSingleObject returns.
LockWake(t) ==
  /\ pc[t] = "wait" /\ blk[mine[t]].event = "set"
  /\ pc' = [pc EXCEPT ![t] = "own"]
  /\ UNCHANGED <<queue, avail, blk, cache, local, status, stale>>

\* SetFirstWaiter outside the queue lock, and return.
LockReturn(t) ==
  /\ pc[t] = "own"
  /\ first' = mine[t]
  /\ mine' = [mine EXCEPT ![t] = NULL]
  /\ pc' = [pc EXCEPT ![t] = "held"]
  /\ IF kind[t] = "writer" THEN Overtake(t) ELSE UNCHANGED stale
  /\ UNCHANGED <<last, tag, avail, blk, cache, kind, waiter, seen, sync, status>>

-----------------------------------------------------------------------------
(* UnlockShared, UnlockExclusive, Unlock *)

\* The caller knows how it holds the lock, or leaves it to Unlock, which
\* reads the type of the first block.  FirstWaiter is read before Lock().
UnlockCall(t) ==
  /\ pc[t] = "held"
  /\ mine' = [mine EXCEPT ![t] = first]
  /\ \E k \in {kind[t], blk[first].type} : kind' = [kind EXCEPT ![t] = k]
  /\ pc' = [pc EXCEPT ![t] = "unlock"]
  /\ status' = [status EXCEPT ![t] = "ok"]
  /\ UNCHANGED <<queue, avail, blk, cache, waiter, seen, sync, stale>>

\* The first block leaves the queue: its successor owns the lock, or nobody.
PassOn(t) ==
  LET f == mine[t]
      n == blk[f].next
  IN IF n # NULL
     THEN /\ first' = n
          /\ StoreOrFree(t, [blk EXCEPT ![n].own = TRUE], f, NULL)
          /\ mine' = [mine EXCEPT ![t] = n]
          /\ pc' = [pc EXCEPT ![t] = "signal"]
          /\ UNCHANGED <<last, tag>>
     ELSE /\ last' = NULL /\ tag' = "Free"
          /\ StoreOrFree(t, blk, f, NULL)
          /\ mine' = [mine EXCEPT ![t] = NULL]
          /\ pc' = [pc EXCEPT ![t] = "idle"]
          /\ UNCHANGED first

UnlockShared(t) ==
  /\ pc[t] = "unlock" /\ kind[t] = "reader"
  /\ IF blk[mine[t]].ref = 1 THEN PassOn(t)
     ELSE /\ blk' = [blk EXCEPT ![mine[t]].ref = @ - 1]
          /\ mine' = [mine EXCEPT ![t] = NULL]
          /\ pc' = [pc EXCEPT ![t] = "idle"]
          /\ UNCHANGED <<queue, avail, cache>>
  /\ kind' = [kind EXCEPT ![t] = "reader"]
  /\ UNCHANGED <<waiter, seen, sync, status, stale>>

UnlockExclusive(t) ==
  /\ pc[t] = "unlock" /\ kind[t] = "writer"
  /\ PassOn(t)
  /\ kind' = [kind EXCEPT ![t] = "reader"]
  /\ UNCHANGED <<waiter, seen, sync, status, stale>>

\* Mutant: the event is pulsed, so that a thread not yet waiting misses it.
PulseEvent(t) ==
  /\ pc[t] \in {"signal", "shSignal"}
  /\ mine' = [mine EXCEPT ![t] = NULL]
  /\ pc' = [pc EXCEPT ![t] = IF @ = "signal" THEN "idle" ELSE "held"]
  /\ UNCHANGED <<queue, avail, blk, cache, kind, waiter, seen, sync, status, stale>>

\* SetEvent on the new owner's block, after the commit.
SetEvent(t) ==
  /\ pc[t] \in {"signal", "shSignal"}
  /\ blk' = [blk EXCEPT ![mine[t]].event = "set"]
  /\ mine' = [mine EXCEPT ![t] = NULL]
  /\ pc' = [pc EXCEPT ![t] = IF @ = "signal" THEN "idle" ELSE "held"]
  /\ UNCHANGED <<queue, avail, cache, kind, waiter, seen, sync, status, stale>>

-----------------------------------------------------------------------------
(* ConvertToExclusive *)

\* A call that finds the lock held exclusively returns RPC_S_CANNOT_SUPPORT
\* and changes nothing.
ConvertToExclusive(t) ==
  /\ "upgrade" \in Uses[t]
  /\ pc[t] = "held" /\ blk[first].type = "reader"
  /\ mine' = [mine EXCEPT ![t] = first]
  /\ pc' = [pc EXCEPT ![t] = "cvt"]
  /\ status' = [status EXCEPT ![t] = "ok"]
  /\ UNCHANGED <<queue, avail, blk, cache, kind, waiter, seen, sync, stale>>

\* Read RefCount outside the queue lock; beside other readers a block to wait
\* on is needed, with an event.
CvtLook(t) ==
  /\ pc[t] = "cvt"
  /\ LET w == waiter[t]
         c == Passed(t)
     IN \/ /\ blk[mine[t]].ref = 1
           /\ pc' = [pc EXCEPT ![t] = "cvtOne"]
           /\ UNCHANGED <<blk, cache, waiter, mine, status>>
        \/ /\ blk[mine[t]].ref # 1 /\ w # NULL
           /\ blk' = [blk EXCEPT ![w].event = "reset"]
           /\ pc' = [pc EXCEPT ![t] = "cvtMany"]
           /\ UNCHANGED <<cache, waiter, mine, status>>
        \/ /\ blk[mine[t]].ref # 1 /\ w = NULL /\ c # NULL
           /\ blk' = [blk EXCEPT ![c] = Fresh("writer", "reset")]
           /\ waiter' = [waiter EXCEPT ![t] = c]
           /\ cache' = [cache EXCEPT ![t] = NULL]
           /\ pc' = [pc EXCEPT ![t] = "cvtMany"]
           /\ UNCHANGED <<mine, status>>
        \/ /\ blk[mine[t]].ref # 1 /\ w = NULL /\ c # NULL
           /\ blk[c].event = "none" /\ "event" \in Failures
           /\ status' = [status EXCEPT ![t] = "noMemory"]
           /\ mine' = [mine EXCEPT ![t] = NULL]
           /\ pc' = [pc EXCEPT ![t] = "held"]
           /\ UNCHANGED <<blk, cache, waiter>>
        \/ /\ blk[mine[t]].ref # 1 /\ w = NULL /\ c = NULL
           /\ pc' = [pc EXCEPT ![t] = "cvtAlloc"]
           /\ UNCHANGED <<blk, cache, waiter, mine, status>>
  /\ UNCHANGED <<queue, avail, kind, seen, sync, stale>>

CvtAllocate(t) ==
  /\ pc[t] = "cvtAlloc"
  /\ AllocateWaiter(t, "writer", TRUE, "cvtMany", "held")
  /\ mine' = IF pc'[t] = "held" THEN [mine EXCEPT ![t] = NULL] ELSE mine
  /\ UNCHANGED <<queue, cache, kind, seen, sync, stale>>

\* Mutant: nobody tells the writer it was overtaken.
MarkNobody(q, n) == q

\* Raise WriterInsertedBefore in the writer n that a converter has overtaken.
MarkOvertaken(q, n) ==
  IF n # NULL /\ q[n].type = "writer"
  THEN [q EXCEPT ![n].inserted = TRUE] ELSE q

\* Mutant: RefCount is not read again under the queue lock.
TrustsFirstLook(t) == TRUE

\* Under the queue lock: t is still the only reader of its block.
StillAlone(t) == blk[mine[t]].ref = 1

\* Mutant: LastWaiter keeps its tag when the last block changes kind.
KeepTag(f, state) == tag

\* The tag LastWaiter gets when block f changes kind.
Retag(f, state) == IF last = f THEN state ELSE tag

\* The only reader turns its block into a writer's where it stands.
CvtInPlace(t) ==
  /\ pc[t] = "cvtOne" /\ StillAlone(t)
  /\ LET f == mine[t]
         q == [blk EXCEPT ![f].type = "writer", ![f].own = TRUE, ![f].inserted = FALSE]
     IN /\ StoreOrFree(t, MarkOvertaken(q, blk[f].next), waiter[t], NULL)
        /\ tag' = Retag(f, "LastWriter")
  /\ kind' = [kind EXCEPT ![t] = "writer"]
  /\ waiter' = [waiter EXCEPT ![t] = NULL]
  /\ mine' = [mine EXCEPT ![t] = NULL]
  /\ pc' = [pc EXCEPT ![t] = "held"]
  /\ Overtake(t)
  /\ UNCHANGED <<last, first, seen, sync, status>>

\* Leave the readers' block and queue a writer's block right behind it.
CvtInsert(t) ==
  /\ pc[t] = "cvtMany" /\ blk[mine[t]].ref > 1
  /\ LET f == mine[t]
         w == waiter[t]
         q == [blk EXCEPT ![w].next = blk[f].next, ![f].next = w, ![f].ref = @ - 1]
     IN IF last = f
        THEN /\ blk' = q
             /\ last' = w /\ tag' = "LastWriter"
        ELSE /\ blk' = MarkOvertaken(q, blk[f].next)
             /\ UNCHANGED <<last, tag>>
  /\ mine' = [mine EXCEPT ![t] = waiter[t]]
  /\ waiter' = [waiter EXCEPT ![t] = NULL]
  /\ pc' = [pc EXCEPT ![t] = "cvtWait"]
  /\ UNCHANGED <<first, avail, cache, kind, seen, sync, status, stale>>

\* RefCount is not what it was: loop around.
CvtRetry(t) ==
  /\ \/ pc[t] = "cvtOne" /\ ~ StillAlone(t)
     \/ pc[t] = "cvtMany" /\ blk[mine[t]].ref <= 1
  /\ pc' = [pc EXCEPT ![t] = "cvt"]
  /\ UNCHANGED <<queue, avail, blk, cache, local, status, stale>>

\* The wait is over: RPC_S_OK, or ERROR_MORE_WRITES if another converter
\* moved in before.
CvtReturn(t) ==
  /\ pc[t] = "cvtWait" /\ blk[mine[t]].event = "set"
  /\ status' = [status EXCEPT ![t] = IF blk[mine[t]].inserted
                                     THEN "moreWrites" ELSE "ok"]
  /\ kind' = [kind EXCEPT ![t] = "writer"]
  /\ mine' = [mine EXCEPT ![t] = NULL]
  /\ pc' = [pc EXCEPT ![t] = "held"]
  /\ Overtake(t)
  /\ UNCHANGED <<queue, avail, blk, cache, waiter, seen, sync>>

-----------------------------------------------------------------------------
(* ConvertToShared *)

\* fSyncCacheUsed asks for the caller's own block back; it needs a cache, and
\* RpcSsContextLockShared, whose block may be the THREAD's, sets it.
ConvertToShared(t, s) ==
  /\ "downgrade" \in Uses[t]
  /\ pc[t] = "held" /\ blk[first].type = "writer"
  /\ s => t \in CacheUsers
  /\ t \in SyncThreads => s
  /\ mine' = [mine EXCEPT ![t] = first]
  /\ sync' = [sync EXCEPT ![t] = s]
  /\ status' = [status EXCEPT ![t] = "ok"]
  /\ pc' = [pc EXCEPT ![t] = "sh"]
  /\ UNCHANGED <<queue, avail, blk, cache, kind, waiter, seen, stale>>

\* Mutant: the caller's block is left in the queue whoever it belongs to.
LeavesOwnBlock(t) == FALSE

\* The caller wants its block back, does not have it yet, and has none
\* allocated to leave in its place.
NeedsBlock(t) ==
  sync[t] /\ Passed(t) = NULL /\ mine[t] # Embedded /\ waiter[t] = NULL

\* Read Next outside the queue lock.  Before a writer the block just becomes
\* a reader's; nobody can join it.
ShLook(t) ==
  /\ pc[t] = "sh"
  /\ LET f == mine[t]
         n == blk[f].next
     IN \/ /\ n = NULL
           /\ pc' = [pc EXCEPT ![t] = IF NeedsBlock(t) THEN "shAlloc" ELSE "shLast"]
           /\ UNCHANGED <<avail, blk, cache, kind, waiter, mine, sync>>
        \/ /\ n # NULL /\ blk[n].type = "reader"
           /\ pc' = [pc EXCEPT ![t] = "shJoin"]
           /\ UNCHANGED <<avail, blk, cache, kind, waiter, mine, sync>>
        \/ /\ n # NULL /\ blk[n].type = "writer"
           /\ StoreOrFree(t, [blk EXCEPT ![f].type = "reader", ![f].own = TRUE,
                                         ![f].inserted = FALSE],
                          waiter[t], NULL)
           /\ kind' = [kind EXCEPT ![t] = "reader"]
           /\ waiter' = [waiter EXCEPT ![t] = NULL]
           /\ mine' = [mine EXCEPT ![t] = NULL]
           /\ sync' = [sync EXCEPT ![t] = FALSE]
           /\ pc' = [pc EXCEPT ![t] = "held"]
  /\ UNCHANGED <<queue, seen, status, stale>>

ShAllocate(t) ==
  /\ pc[t] = "shAlloc"
  /\ AllocateWaiter(t, "reader", FALSE, "shLast", "held")
  /\ mine' = IF pc'[t] = "held" THEN [mine EXCEPT ![t] = NULL] ELSE mine
  /\ sync' = IF pc'[t] = "held" THEN [sync EXCEPT ![t] = FALSE] ELSE sync
  /\ UNCHANGED <<queue, cache, kind, seen, stale>>

\* Nobody queued meanwhile: the block allocated above replaces the caller's,
\* which goes back to the empty cache, or the caller's becomes a reader's.
ShLast(t) ==
  /\ pc[t] = "shLast" /\ blk[mine[t]].next = NULL
  /\ LET f == mine[t]
         w == waiter[t]
     IN IF w # NULL
        THEN /\ first' = w /\ last' = w
             /\ StoreOrFree(t, [blk EXCEPT ![w].own = TRUE], f, NULL)
        ELSE /\ blk' = [blk EXCEPT ![f].type = "reader", ![f].own = TRUE,
                                   ![f].inserted = FALSE]
             /\ last' = f
             /\ UNCHANGED <<first, avail, cache>>
  /\ tag' = "LastReader"
  /\ kind' = [kind EXCEPT ![t] = "reader"]
  /\ waiter' = [waiter EXCEPT ![t] = NULL]
  /\ mine' = [mine EXCEPT ![t] = NULL]
  /\ sync' = [sync EXCEPT ![t] = FALSE]
  /\ pc' = [pc EXCEPT ![t] = "held"]
  /\ UNCHANGED <<seen, status, stale>>

ShRetry(t) ==
  /\ pc[t] = "shLast" /\ blk[mine[t]].next # NULL
  /\ pc' = [pc EXCEPT ![t] = "sh"]
  /\ UNCHANGED <<queue, avail, blk, cache, local, status, stale>>

\* Join the readers waiting next, and give up the caller's own block.
ShJoin(t) ==
  /\ pc[t] = "shJoin"
  /\ LET f == mine[t]
         n == blk[f].next
     IN /\ StoreOrFree(t, [blk EXCEPT ![n].own = TRUE, ![n].ref = @ + 1], f, waiter[t])
        /\ first' = n
        /\ mine' = [mine EXCEPT ![t] = n]
  /\ kind' = [kind EXCEPT ![t] = "reader"]
  /\ waiter' = [waiter EXCEPT ![t] = NULL]
  /\ sync' = [sync EXCEPT ![t] = FALSE]
  /\ pc' = [pc EXCEPT ![t] = "shSignal"]
  /\ UNCHANGED <<last, tag, seen, status, stale>>

-----------------------------------------------------------------------------
\* The steps a thread takes inside a call.
Step(t) ==
  \/ Look(t) \/ LockAllocate(t) \/ LockRetry(t) \/ LockFree(t)
  \/ LockSharedOnLastReader(t) \/ LockQueue(t) \/ LockWake(t) \/ LockReturn(t)
  \/ UnlockShared(t) \/ UnlockExclusive(t) \/ SetEvent(t)
  \/ CvtLook(t) \/ CvtAllocate(t) \/ CvtInPlace(t) \/ CvtInsert(t)
  \/ CvtRetry(t) \/ CvtReturn(t)
  \/ ShLook(t) \/ ShAllocate(t) \/ ShLast(t) \/ ShRetry(t) \/ ShJoin(t)

\* The calls.
Call(t) ==
  \/ \E k \in Kinds : LockCall(t, k)
  \/ UnlockCall(t)
  \/ ConvertToExclusive(t)
  \/ \E s \in BOOLEAN : ConvertToShared(t, s)

Next == \E t \in Thread : Step(t) \/ Call(t)

Spec == Init /\ [][Next]_vars

\* A thread inside a call is scheduled, and a caller that holds the lock
\* again and again unlocks it some time.
FairSpec ==
  /\ Spec
  /\ \A t \in Thread : WF_vars(Step(t)) /\ SF_vars(UnlockCall(t))
-----------------------------------------------------------------------------
(* Properties *)

TypeOK ==
  /\ last \in Block \cup {NULL}
  /\ tag \in {"Free", "LastReader", "LastWriter"}
  /\ first \in Block \cup {NULL}
  /\ avail \in BOOLEAN
  /\ blk \in [Block -> Waiters]
  /\ cache \in [Thread -> Block \cup {NULL}]
  /\ pc \in [Thread -> HoldPCs \cup {"idle", "look", "alloc", "lock", "wait",
                                   "own", "signal", "cvtWait"}]
  /\ kind \in [Thread -> Kinds]
  /\ waiter \in [Thread -> Block \cup {NULL}]
  /\ mine \in [Thread -> Block \cup {NULL}]
  /\ seen \in [Thread -> {"Free", "LastReader", "LastWriter"}]
  /\ sync \in [Thread -> BOOLEAN]
  /\ status \in [Thread -> {"ok", "moreWrites", "noMemory"}]
  /\ stale \subseteq Thread

\* A thread that holds the lock exclusively holds it alone, through every
\* hand-over, conversion and late SetFirstWaiter (the test thread's checks of
\* TestCheck, swmr.cxx).
MutualExclusion ==
  \A t, u \in Thread : t # u /\ Holds(t, "writer") => pc[u] \notin HoldPCs

\* The blocks in the queue: in use, and not still in one thread's hands.
Queued == {b \in Block : blk[b].type \in Kinds /\ \A t \in Thread : waiter[t] # b}

\* What UnlockAndCommit asserts of the chain it leaves, and more: it runs from
\* FirstWaiter to LastWaiter through every queued block, the tag is the kind
\* of the last block, readers never follow readers, and only the first block
\* owns the lock.
QueueShape ==
  /\ (last = NULL) <=> (tag = "Free")
  /\ (last = NULL) <=> (Queued = {})
  /\ last # NULL =>
       /\ {first, last} \subseteq Queued
       /\ tag = LastState(blk[last].type)
       /\ \A b \in Queued :
            LET n == blk[b].next
            IN /\ (n = NULL) <=> (b = last)
               /\ n # NULL => n \in Queued
               /\ (n # NULL /\ blk[b].type = "reader") => blk[n].type = "writer"
               /\ blk[b].own <=> (b = first)
               /\ Cardinality({p \in Queued : blk[p].next = b})
                     = IF b = first THEN 0 ELSE 1

\* The threads a block counts: those waiting for it, and the holders of the
\* lock while it is the first.
Counted(b) ==
  {t \in Thread : \/ pc[t] \in {"wait", "own", "cvtWait"} /\ mine[t] = b
                  \/ pc[t] \in HoldPCs /\ first = b}

\* RefCount is the number of threads that rely on the block, so a block is
\* never freed under a thread that waits on it ("We know the block can't go
\* away because we have added our refcount") and never outlives them; a
\* writer's block has one.
RefCountExact ==
  \A b \in Queued :
    /\ blk[b].ref = Cardinality(Counted(b))
    /\ blk[b].ref > 0
    /\ blk[b].type = "writer" => blk[b].ref = 1

\* FirstWaiter, which nothing protects, is right whenever a holder uses it:
\* the block it read, or will read, is the first, owns the lock and has the
\* kind of the hold.
FirstWaiterAgrees ==
  \A t \in Thread : pc[t] \in HoldPCs =>
    /\ first \in Queued /\ blk[first].own
    /\ blk[first].type = kind[t]
    /\ pc[t] # "held" => mine[t] = first

\* Every block is in one place: in the queue, in one thread's hands, in one
\* cache, or free; a THREAD's own block is in none only at home, and is never
\* deleted.  A block in two places would be queued twice or freed in use.
OnePlace ==
  \A b \in Block :
    LET holders == {t \in Thread : waiter[t] = b}
        caches == {t \in Thread : cache[t] = b}
        places == Cardinality(holders) + Cardinality(caches)
                  + (IF b \in Queued THEN 1 ELSE 0)
        unused == IF b \in SyncThreads THEN "home" ELSE "free"
    IN /\ places <= 1
       /\ b = Embedded /\ avail => places = 0
       /\ b # Embedded => (blk[b].type = unused <=> places = 0)

\* The block built into a THREAD must be at home when the thread is outside
\* the lock: the THREAD may go away (THREAD::FreeWaiterCache, which raises
\* CachedWaiterAvailable, and the lifetime remark in ConvertToShared).
SyncWaiterHome ==
  \A t \in SyncThreads : pc[t] = "idle" => blk[t].type = "home"

\* ~SWMRLock asserts CachedWaiterAvailable, and the lock may be destroyed
\* when no thread is in it.
EmbeddedReturned ==
  (\A t \in Thread : pc[t] = "idle") => avail

\* ConvertToExclusive: "If it gets RPC_S_OK then there is no danger of other
\* writers coming in", and ERROR_MORE_WRITES only if one did.
ConversionVerdict ==
  [][\A t \in Thread : pc[t] = "cvtWait" /\ pc'[t] = "held" =>
       (status'[t] = "moreWrites" <=> t \in stale)]_vars

\* The lock implements the reader/writer lock its callers are promised.
ModeOf(t) == IF pc[t] = "cvtWait" THEN "upgrading"
             ELSE IF pc[t] \notin HoldPCs THEN "none"
             ELSE IF kind[t] = "reader" THEN "shared" ELSE "exclusive"

Abstract == INSTANCE RWLock WITH mode <- [t \in Thread |-> ModeOf(t)]

Implements == Abstract!Spec

\* Nobody who queued waits for ever: every hand-over finds the next block and
\* its event is set.
EveryWaiterServed ==
  \A t \in Thread : (pc[t] \in {"wait", "cvtWait"}) ~> (pc[t] = "held")
=============================================================================
