---------------------------- MODULE SWMRPromise -----------------------------
(***************************************************************************)
(* For any threads and blocks, whatever allocations fail: ConvertToExclu-  *)
(* sive tells whether another thread wrote in between (ConversionVerdict), *)
(* and SWMRLock implements the lock that its callers are promised.         *)
(*                                                                         *)
(* Threads that wait to convert have the blocks right behind the first, or *)
(* the first.  The one that came last goes first and overtakes the others, *)
(* each of which was marked when the next one came.                        *)
(***************************************************************************)
EXTENDS SWMRProofs

Converting(t) == pc[t] = "cvtWait"

\* Another converter, which came later, has the block before that of t.
Led(t) == \E u \in Thread : Converting(u) /\ blk[mine[u]].next = mine[t]

\* The thread that takes over the block b has not converted.
TakesOver(t, b) == pc[t] \in {"wait", "own"} /\ mine[t] = b /\ kind[t] = "writer"

\* WriterInsertedBefore is raised for those that were or will be overtaken;
\* and before a converter's block there is another, or that of the holders.
Warned(t) ==
  Converting(t) =>
    /\ blk[mine[t]].inserted <=> (t \in stale \/ Led(t))
    /\ \/ Led(t)
       \/ mine[t] = first
       \/ blk[first].next = mine[t] /\ \A u \in Thread : ~ TakesOver(u, first)

\* ConvertToExclusive has returned nothing before it waits.
Answer(t) == pc[t] \in {"cvt", "cvtAlloc", "cvtOne", "cvtMany"} => status[t] = "ok"

VInv ==
  /\ IInv
  /\ \A t \in Thread : Warned(t)
  /\ \A t \in stale : Converting(t)
  /\ \A t \in Thread : Answer(t)

\* A converter waits alone for its block, which is queued.
LEMMA ConverterFacts ==
  ASSUME IInv, NEW u \in Thread, Converting(u)
  PROVE  /\ mine[u] \in Queued /\ mine[u] \in Block /\ mine[u] # NULL
         /\ blk[mine[u]].type = "writer" /\ On(u, mine[u])
         /\ \A v \in Thread : On(v, mine[u]) => v = u
<1>1. mine[u] \in Queued /\ blk[mine[u]].type = "writer"
  BY DEF Converting, IInv, Threads, ThreadOK, WaitOK, WaitPCs, Asked
<1>2. On(u, mine[u])
  BY DEF Converting, On, WaitPCs
<1>3. \A v \in Thread : On(v, mine[u]) => v = u
  BY <1>1, <1>2, CountFacts
<1>4. mine[u] \in Block /\ mine[u] # NULL
  BY <1>1, NullNoBlock DEF Queued, NoBlock
<1> QED BY <1>1, <1>2, <1>3, <1>4

\* While a thread waits to convert, the first block is in the queue.
LEMMA ConverterFirst ==
  ASSUME IInv, NEW u \in Thread, Converting(u)
  PROVE  first \in Queued /\ QueueOK
<1>1. QueueOK
  BY QueueFacts DEF IInv
<1> QED BY <1>1, ConverterFacts DEF QueueOK

-----------------------------------------------------------------------------
(* Steps of a thread that neither begins nor ends a wait to convert *)

LEMMA WarnedFrame ==
  ASSUME VInv, IInv', NEW t \in Thread, Apart(t), ~ Converting(t), ~ Converting(t)',
         stale' = stale, Answer(t)', \A u \in Thread \ {t} : status'[u] = status[u],
         \A u \in Thread : Converting(u) => blk'[mine[u]].inserted = blk[mine[u]].inserted,
         \A u, v \in Thread : Converting(u) /\ Converting(v) =>
           (blk'[mine[v]].next = mine[u] <=> blk[mine[v]].next = mine[u]),
         \A u \in Thread : Converting(u) /\ ~ Led(u) =>
           \/ mine[u] = first'
           \/ blk'[first'].next = mine[u] /\ \A v \in Thread : ~ TakesOver(v, first)'
  PROVE  VInv'
<1>1. \A u \in Thread : /\ Converting(u)' <=> Converting(u)
                        /\ Converting(u) => mine'[u] = mine[u]
  BY DEF Converting, Apart
<1>2. ASSUME NEW u \in Thread, Converting(u) PROVE Warned(u)'
  <2>1. Led(u)' <=> Led(u)
    BY <1>1, <1>2 DEF Led
  <2>2. Warned(u)
    BY DEF VInv
  <2>3. mine'[u] = mine[u] /\ blk'[mine[u]].inserted = blk[mine[u]].inserted
    BY <1>1, <1>2
  <2>4. \/ Led(u)
        \/ mine[u] = first'
        \/ blk'[first'].next = mine[u] /\ \A v \in Thread : ~ TakesOver(v, first)'
    BY <1>2
  <2> HIDE DEF Led, TakesOver
  <2> QED BY <1>2, <2>1, <2>2, <2>3, <2>4 DEF Warned
<1>3. \A u \in Thread : Warned(u)'
  BY <1>1, <1>2 DEF Warned
<1>4. \A u \in stale' : Converting(u)'
  BY <1>1 DEF VInv, IInv, TypeOK
<1>5. \A u \in Thread : Answer(u)'
  <2> SUFFICES ASSUME NEW u \in Thread, u # t PROVE Answer(u)'
    OBVIOUS
  <2>1. Answer(u) /\ pc'[u] = pc[u] /\ status'[u] = status[u]
    BY DEF VInv, Apart
  <2> QED BY <2>1 DEF Answer
<1> QED BY <1>3, <1>4, <1>5 DEF VInv

\* The order of the queue and the marks stay.
LEMMA WarnedQuiet ==
  ASSUME VInv, IInv', NEW t \in Thread, Apart(t), ~ Converting(t), ~ Converting(t)',
         stale' = stale, Answer(t)', \A u \in Thread \ {t} : status'[u] = status[u],
         first' = first, TakesOver(t, first)' => TakesOver(t, first),
         \A b \in Queued : blk'[b].next = blk[b].next /\ blk'[b].inserted = blk[b].inserted
  PROVE  VInv'
<1>1. IInv
  BY DEF VInv
<1>2. \A u \in Thread : Converting(u) => mine[u] \in Queued /\ first \in Queued
  BY <1>1, ConverterFacts, ConverterFirst
<1>3. \A u, v \in Thread : Converting(u) /\ Converting(v) =>
        (blk'[mine[v]].next = mine[u] <=> blk[mine[v]].next = mine[u])
  BY <1>2
<1>4. ASSUME NEW u \in Thread, Converting(u), ~ Led(u), mine[u] # first
      PROVE  blk'[first].next = mine[u] /\ \A v \in Thread : ~ TakesOver(v, first)'
  <2>1. blk[first].next = mine[u] /\ \A v \in Thread : ~ TakesOver(v, first)
    BY <1>4 DEF VInv, Warned
  <2>2. \A v \in Thread \ {t} : TakesOver(v, first)' <=> TakesOver(v, first)
    BY DEF TakesOver, Apart
  <2> QED BY <1>2, <1>4, <2>1, <2>2
<1> HIDE DEF Converting, Led, TakesOver
<1> QED BY <1>2, <1>3, <1>4, WarnedFrame
LEMMA WarnedLocal ==
  ASSUME VInv, IInv', NEW t \in Thread,
         \/ LockRetry(t) \/ CvtRetry(t) \/ ShRetry(t) \/ LockWake(t) \/ ShLooks(t)
         \/ UnlockCall(t) \/ ConvertToExclusive(t) \/ \E s \in BOOLEAN : ConvertToShared(t, s)
  PROVE  VInv'
<1>1. TypeOK /\ IInv /\ Answer(t)
  BY DEF VInv, IInv
<1>2. first' = first /\ blk' = blk /\ stale' = stale
      /\ \A u \in Thread \ {t} : status'[u] = status[u]
  BY <1>1 DEF LockRetry, CvtRetry, ShRetry, LockWake, ShLooks, ShLook, UnlockCall, ConvertToExclusive,
              ConvertToShared, queue, TypeOK
<1>3. Apart(t)
  <2>1. CASE UnlockCall(t)
    <3>1. \E k \in {kind[t], blk[first].type} : kind' = [kind EXCEPT ![t] = k]
      BY <2>1 DEF UnlockCall
    <3> QED BY <1>1, <2>1, <3>1 DEF UnlockCall, TypeOK, Apart, local
  <2>2. CASE ~ UnlockCall(t)
    BY <1>1, <2>2 DEF LockRetry, CvtRetry, ShRetry, LockWake, ShLooks, ShLook, ConvertToExclusive,
                      ConvertToShared, queue, TypeOK, Apart, local
  <2> QED BY <2>1, <2>2
<1>4. ~ Converting(t) /\ ~ Converting(t)' /\ Answer(t)'
  BY <1>1 DEF LockRetry, CvtRetry, ShRetry, LockWake, ShLooks, ShLook, UnlockCall, ConvertToExclusive,
              ConvertToShared, Converting, Answer, TypeOK
<1>5. TakesOver(t, first)' => TakesOver(t, first)
  BY <1>1, <1>2 DEF LockRetry, CvtRetry, ShRetry, LockWake, ShLooks, ShLook, UnlockCall,
              ConvertToExclusive, ConvertToShared, TakesOver, TypeOK, local
<1> QED BY <1>2, <1>3, <1>4, <1>5, WarnedQuiet
\* A block is taken from the cache, or made ready for a wait.
LEMMA WarnedInHand ==
  ASSUME VInv, IInv', NEW t \in Thread,
         (\E k \in Kinds : LockCall(t, k)) \/ CvtLook(t)
  PROVE  VInv'
<1>1. TypeOK /\ IInv /\ Answer(t) /\ Hands
  BY DEF VInv, IInv
<1>2. first' = first /\ stale' = stale /\ Apart(t)
      /\ \A u \in Thread \ {t} : status'[u] = status[u]
  BY <1>1 DEF LockCall, CvtLook, queue, TypeOK, Apart
<1>3. ~ Converting(t) /\ ~ Converting(t)' /\ Answer(t)'
  BY <1>1 DEF LockCall, CvtLook, Converting, Answer, TypeOK
<1>4. ~ TakesOver(t, first)'
  BY <1>1, <1>2 DEF LockCall, CvtLook, TakesOver, TypeOK
<1>5. ASSUME NEW b \in Queued PROVE blk'[b] = blk[b]
  <2>1. b \in Block /\ b # NULL /\ waiter[t] # b /\ cache[t] # b
    BY <1>1, NullNoBlock DEF Queued, NoBlock, Hands, Kinds
  <2>2. b # t \/ blk[t].type # "home"
    BY DEF Queued, Kinds
  <2>3. CASE \E k \in Kinds : LockCall(t, k)
    <3>1. PICK k \in Kinds : LockCall(t, k)
      BY <2>3
    <3>2. PICK w \in Offers(t, k) :
            blk' = IF w = NULL THEN blk ELSE [blk EXCEPT ![w] = Fresh(k, @.event)]
      BY <3>1 DEF LockCall
    <3>3. w = NULL \/ w # b
      BY <2>1, <2>2 DEF Offers
    <3> QED BY <1>1, <2>1, <3>2, <3>3 DEF TypeOK
  <2>4. CASE CvtLook(t)
    <3>1. \/ blk' = blk \/ blk' = [blk EXCEPT ![cache[t]] = Fresh("writer", "reset")]
          \/ blk' = [blk EXCEPT ![waiter[t]].event = "reset"]
      BY <2>4 DEF CvtLook, Passed
    <3> QED BY <1>1, <2>1, <3>1 DEF TypeOK
  <2> QED BY <2>3, <2>4
<1> QED BY <1>2, <1>3, <1>4, <1>5, WarnedQuiet

LEMMA WarnedAllocate ==
  ASSUME VInv, IInv', NEW t \in Thread, LockAllocate(t) \/ CvtAllocate(t) \/ ShAllocate(t)
  PROVE  VInv'
<1>1. TypeOK /\ IInv /\ Answer(t) /\ Hands /\ ThreadOK(t)
  BY DEF VInv, IInv, Threads
<1>2. first' = first /\ stale' = stale /\ UNCHANGED <<cache, kind, seen>>
      /\ (mine' = mine \/ mine' = [mine EXCEPT ![t] = NULL])
  BY DEF LockAllocate, CvtAllocate, ShAllocate, queue
<1>3. pc[t] \in {"alloc", "cvtAlloc", "shAlloc"} /\ waiter[t] = NULL
  BY <1>1 DEF LockAllocate, CvtAllocate, ShAllocate, ThreadOK, HandOK
<1>4. /\ \E s \in {"lock", "cvtMany", "shLast", "idle", "held"} : pc' = [pc EXCEPT ![t] = s]
      /\ (pc[t] = "cvtAlloc" /\ pc'[t] = "cvtMany" => status' = status)
      /\ (pc'[t] = "cvtMany" => pc[t] = "cvtAlloc")
      /\ (status' = status \/ status' = [status EXCEPT ![t] = "noMemory"])
  BY <1>1 DEF LockAllocate, CvtAllocate, ShAllocate, AllocateWaiter, TypeOK
<1>5. Elsewhere(t) /\ \A b \in Queued : blk'[b] = blk[b]
  <2>1. PICK type \in Kinds, needed \in BOOLEAN, success \in {"lock", "cvtMany", "shLast"},
             failure \in {"idle", "held"} : AllocateWaiter(t, type, needed, success, failure)
    BY <1>1 DEF LockAllocate, CvtAllocate, ShAllocate, TypeOK, Kinds
  <2>2. pc[t] # failure
    BY <1>3
  <2> QED BY <1>1, <1>2, <1>3, <2>1, <2>2, Allocated
<1>6. Apart(t) /\ \A u \in Thread \ {t} : status'[u] = status[u]
  BY <1>1, <1>2, <1>4, <1>5 DEF TypeOK, Apart, Elsewhere
<1>7. ~ Converting(t) /\ ~ Converting(t)' /\ Answer(t)' /\ ~ TakesOver(t, first)'
  BY <1>1, <1>3, <1>4 DEF Converting, Answer, TakesOver, TypeOK
<1> QED BY <1>2, <1>5, <1>6, <1>7, WarnedQuiet
LEMMA SparedElse ==
  ASSUME NEW t, NEW q, NEW b, NEW c, StoreOrFree(t, q, b, c)
  PROVE  \A x \in Block : x \notin {b, c} => blk'[x] = q[x]
BY DEF StoreOrFree

LEMMA WarnedLook ==
  ASSUME VInv, IInv', NEW t \in Thread, Look(t)
  PROVE  VInv'
<1>1. TypeOK /\ IInv
  BY DEF VInv, IInv
<1>2. first' = first /\ stale' = stale /\ Apart(t)
      /\ \A u \in Thread \ {t} : status'[u] = status[u]
  BY <1>1 DEF Look, queue, TypeOK, Apart
<1>3. ~ Converting(t) /\ ~ Converting(t)' /\ Answer(t)' /\ ~ TakesOver(t, first)'
  BY <1>1 DEF Look, Converting, Answer, TakesOver, TypeOK
<1>4. ASSUME NEW b \in Queued PROVE blk'[b] = blk[b]
  <2>1. b \in Block /\ b # NULL /\ waiter[t] # b
    BY <1>1, NullNoBlock DEF Queued, NoBlock
  <2>2. \/ blk' = blk \/ blk' = [blk EXCEPT ![waiter[t]].event = "reset"]
        \/ StoreOrFree(t, blk, waiter[t], NULL)
    BY DEF Look
  <2>3. CASE StoreOrFree(t, blk, waiter[t], NULL)
    BY <2>1, <2>3, SparedElse
  <2> QED BY <1>1, <2>1, <2>2, <2>3 DEF TypeOK
<1> QED BY <1>2, <1>3, <1>4, WarnedQuiet

\* A reader joins others, or leaves them.
LEMMA WarnedCounted ==
  ASSUME VInv, IInv', NEW t \in Thread,
         LockSharedOnLastReader(t) \/ (UnlockShared(t) /\ blk[mine[t]].ref # 1)
  PROVE  VInv'
<1>1. TypeOK /\ IInv
  BY DEF VInv, IInv
<1>2. first' = first /\ stale' = stale /\ status' = status /\ Apart(t)
  BY <1>1 DEF LockSharedOnLastReader, UnlockShared, queue, TypeOK, Apart
<1>3. ~ Converting(t) /\ ~ Converting(t)' /\ Answer(t)' /\ ~ TakesOver(t, first)'
  BY <1>1 DEF LockSharedOnLastReader, UnlockShared, Converting, Answer, TakesOver, TypeOK
<1>4. ASSUME NEW b \in Queued PROVE blk'[b].next = blk[b].next /\ blk'[b].inserted = blk[b].inserted
  <2>1. b \in Block /\ b # NULL /\ waiter[t] # b /\ blk[b] \in Waiters
    BY <1>1, NullNoBlock DEF Queued, NoBlock, TypeOK
  <2>2. CASE LockSharedOnLastReader(t)
    <3> DEFINE q == [blk EXCEPT ![last].ref = @ + 1]
    <3>1. StoreOrFree(t, q, waiter[t], NULL)
      BY <2>2 DEF LockSharedOnLastReader
    <3>2. q[b].next = blk[b].next /\ q[b].inserted = blk[b].inserted
      BY <1>1, <2>1 DEF TypeOK, Waiters
    <3>3. blk'[b] = q[b]
      <4> HIDE DEF q
      <4> QED BY <2>1, <3>1, SparedElse
    <3> HIDE DEF q
    <3> QED BY <3>2, <3>3
  <2>3. CASE UnlockShared(t) /\ blk[mine[t]].ref # 1
    <3>1. blk' = [blk EXCEPT ![mine[t]].ref = @ - 1]
      BY <2>3 DEF UnlockShared
    <3> QED BY <1>1, <2>1, <3>1 DEF TypeOK, Waiters
  <2> QED BY <2>2, <2>3
<1> QED BY <1>2, <1>3, <1>4, WarnedQuiet

LEMMA WarnedSetEvent ==
  ASSUME VInv, IInv', NEW t \in Thread, SetEvent(t)
  PROVE  VInv'
<1>1. TypeOK /\ IInv
  BY DEF VInv, IInv
<1>2. first' = first /\ stale' = stale /\ status' = status /\ Apart(t)
  BY <1>1 DEF SetEvent, queue, TypeOK, Apart
<1>3. ~ Converting(t) /\ ~ Converting(t)' /\ Answer(t)' /\ ~ TakesOver(t, first)'
  BY <1>1 DEF SetEvent, Converting, Answer, TakesOver, TypeOK
<1>4. ASSUME NEW b \in Queued PROVE blk'[b].next = blk[b].next /\ blk'[b].inserted = blk[b].inserted
  <2>1. b \in Block /\ blk[b] \in Waiters
    BY <1>1 DEF Queued, TypeOK
  <2> QED BY <1>1, <2>1 DEF SetEvent, TypeOK, Waiters
<1> QED BY <1>2, <1>3, <1>4, WarnedQuiet
-----------------------------------------------------------------------------
(* Steps that change the queue *)

LEMMA WarnedFree ==
  ASSUME VInv, IInv', NEW t \in Thread, LockFree(t)
  PROVE  VInv'
<1>1. TypeOK /\ IInv /\ QueueOK
  BY QueueFacts DEF VInv, IInv
<1>2. \A u \in Thread : ~ Converting(u)
  <2>1. Queued = {}
    BY <1>1 DEF LockFree, QueueOK, IInv, Marked, LastState
  <2> QED BY <1>1, <2>1, ConverterFacts
<1>3. stale = {} /\ stale' = {}
  <2>1. stale = {}
    BY <1>1, <1>2 DEF VInv, TypeOK
  <2> QED BY <1>2, <2>1 DEF LockFree, Overtake, Converting
<1>4. \A u \in Thread : ~ Converting(u)' /\ Answer(u)'
  BY <1>1, <1>2 DEF VInv, LockFree, TypeOK, Converting, Answer
<1> QED BY <1>3, <1>4 DEF VInv, Warned

LEMMA WarnedQueue ==
  ASSUME VInv, IInv', NEW t \in Thread, LockQueue(t)
  PROVE  VInv'
<1>1. TypeOK /\ IInv /\ QueueOK /\ ThreadOK(t)
  BY QueueFacts DEF VInv, IInv, Threads
<1>2. first' = first /\ stale' = stale /\ status' = status /\ Apart(t) /\ mine'[t] = waiter[t]
      /\ blk' = [blk EXCEPT ![last].next = waiter[t]]
  BY <1>1 DEF LockQueue, queue, TypeOK, Apart
<1>3. ~ Converting(t) /\ ~ Converting(t)' /\ Answer(t)'
  BY <1>1 DEF LockQueue, Converting, Answer, TypeOK
<1>4. waiter[t] \notin Queued
  BY DEF Queued
<1>5. \A b \in Queued : /\ blk'[b].inserted = blk[b].inserted
                        /\ blk'[b].next = IF b = last THEN waiter[t] ELSE blk[b].next
                        /\ b = last <=> blk[b].next = NULL
  <2> SUFFICES ASSUME NEW b \in Queued
               PROVE  /\ blk'[b].inserted = blk[b].inserted
                      /\ blk'[b].next = IF b = last THEN waiter[t] ELSE blk[b].next
                      /\ b = last <=> blk[b].next = NULL
    OBVIOUS
  <2>1. b \in Block /\ blk[b] \in Waiters
    BY <1>1 DEF Queued, TypeOK
  <2> QED BY <1>1, <1>2, <2>1 DEF TypeOK, Waiters, QueueOK
<1>6. \A u \in Thread : Converting(u) => mine[u] \in Queued /\ mine[u] # NULL /\ first \in Queued
  BY <1>1, ConverterFacts, ConverterFirst
<1>7. \A u, v \in Thread : Converting(u) /\ Converting(v) =>
        (blk'[mine[v]].next = mine[u] <=> blk[mine[v]].next = mine[u])
  BY <1>4, <1>5, <1>6
<1>8. ASSUME NEW u \in Thread, Converting(u), ~ Led(u), mine[u] # first
      PROVE  blk'[first].next = mine[u] /\ \A v \in Thread : ~ TakesOver(v, first)'
  <2>1. blk[first].next = mine[u] /\ \A v \in Thread : ~ TakesOver(v, first)
    BY <1>8 DEF VInv, Warned
  <2>2. \A v \in Thread \ {t} : TakesOver(v, first)' <=> TakesOver(v, first)
    BY <1>2 DEF TakesOver, Apart
  <2>3. ~ TakesOver(t, first)'
    BY <1>2, <1>4, <1>6, <1>8 DEF TakesOver
  <2> QED BY <1>2, <1>5, <1>6, <1>8, <2>1, <2>2, <2>3
<1> HIDE DEF Converting, Led, TakesOver
<1> QED BY <1>2, <1>3, <1>5, <1>6, <1>7, <1>8, WarnedFrame

\* The first block leaves the queue.  A converter behind it has no other
\* before it.
LEMMA WarnedPassOn ==
  ASSUME VInv, IInv', NEW t \in Thread,
         UnlockExclusive(t) \/ (UnlockShared(t) /\ blk[mine[t]].ref = 1)
  PROVE  VInv'
<1>1. TypeOK /\ IInv /\ QueueOK /\ ThreadOK(t)
  BY QueueFacts DEF VInv, IInv, Threads
<1>2. PICK f : f = mine[t]
  OBVIOUS
<1>3. PICK n : n = blk[f].next
  OBVIOUS
<1>4. /\ stale' = stale /\ status' = status /\ Apart(t) /\ pc[t] = "unlock"
      /\ pc'[t] \in {"idle", "signal"}
  BY <1>1 DEF UnlockExclusive, UnlockShared, PassOn, queue, TypeOK, Apart
<1>5. ~ Converting(t) /\ ~ Converting(t)' /\ Answer(t)'
  BY <1>4 DEF Converting, Answer
<1>6. f = first /\ f \in Queued
  BY <1>1, <1>2, <1>4 DEF ThreadOK, HoldOK, HoldPCs
<1>7. \A u \in Thread : Converting(u) =>
        mine[u] \in Queued /\ mine[u] # NULL /\ mine[u] \in Block /\ mine[u] # f
  <2>1. \A u \in Thread : On(u, first) => u = t
    BY <1>1, <1>2, <1>4, <1>6, HoldFacts DEF HoldPCs, UnlockExclusive, UnlockShared
  <2> QED BY <1>1, <1>5, <1>6, <2>1, ConverterFacts
<1>8. /\ n # NULL => first' = n
      /\ \A x \in Block : x # f =>
           blk'[x].next = blk[x].next /\ blk'[x].inserted = blk[x].inserted
  <2>1. CASE n # NULL
    <3> DEFINE q == [blk EXCEPT ![n].own = TRUE]
    <3>1. StoreOrFree(t, q, f, NULL) /\ first' = n
      BY <1>2, <1>3, <2>1 DEF UnlockExclusive, UnlockShared, PassOn
    <3>2. \A x \in Block : q[x].next = blk[x].next /\ q[x].inserted = blk[x].inserted
      BY <1>1 DEF TypeOK, Waiters
    <3>3. \A x \in Block : x \notin {f, NULL} => blk'[x] = q[x]
      <4> HIDE DEF q
      <4> QED BY <3>1, SparedElse
    <3> HIDE DEF q
    <3> QED BY <3>1, <3>2, <3>3, NullNoBlock DEF NoBlock
  <2>2. CASE n = NULL
    <3>1. StoreOrFree(t, blk, f, NULL)
      BY <1>2, <1>3, <2>2 DEF UnlockExclusive, UnlockShared, PassOn
    <3>2. \A x \in Block : x \notin {f, NULL} => blk'[x] = blk[x]
      BY <3>1, SparedElse
    <3> QED BY <2>2, <3>2, NullNoBlock DEF NoBlock
  <2> QED BY <2>1, <2>2
<1>9. ASSUME NEW u \in Thread, Converting(u), ~ Led(u) PROVE mine[u] = first'
  <2>1. blk[first].next = mine[u]
    BY <1>6, <1>7, <1>9 DEF VInv, Warned
  <2> QED BY <1>3, <1>6, <1>7, <1>8, <1>9, <2>1
<1> HIDE DEF Converting, Led, TakesOver
<1> QED BY <1>4, <1>5, <1>7, <1>8, <1>9, WarnedFrame
\* The block of an exclusive owner becomes a reader's.
LEMMA WarnedDowngrade ==
  ASSUME VInv, IInv', NEW t \in Thread,
         \/ ShLook(t) /\ blk[mine[t]].next # NULL /\ blk[blk[mine[t]].next].type = "writer"
         \/ ShLast(t) /\ waiter[t] = NULL
  PROVE  VInv'
<1>1. TypeOK /\ IInv /\ ThreadOK(t)
  BY DEF VInv, IInv, Threads
<1>2. pc[t] \in {"sh", "shLast"} /\ pc'[t] = "held" /\ stale' = stale /\ status' = status
      /\ Apart(t) /\ first' = first
  <2>1. CASE ShLook(t) /\ blk[mine[t]].next # NULL /\ blk[blk[mine[t]].next].type = "writer"
    BY <1>1, <2>1 DEF ShLook, queue, TypeOK, Apart
  <2>2. CASE ShLast(t) /\ waiter[t] = NULL
    BY <1>1, <2>2 DEF ShLast, TypeOK, Apart
  <2> QED BY <2>1, <2>2
<1>3. PICK f : f = mine[t]
  OBVIOUS
<1>4. f = first /\ f \in Queued /\ kind[t] = "writer" /\ f \in Block
  BY <1>1, <1>2, <1>3 DEF ThreadOK, HoldOK, HoldPCs, Queued
<1>5. ~ Converting(t) /\ ~ Converting(t)' /\ Answer(t)' /\ \A u \in Thread : Converting(u) => mine[u] # f
  <2>1. \A u \in Thread : On(u, first) => u = t
    BY <1>1, <1>2, <1>4, HoldFacts DEF HoldPCs
  <2>2. ~ Converting(t) /\ ~ Converting(t)' /\ Answer(t)'
    BY <1>2 DEF Converting, Answer
  <2> QED BY <1>1, <1>4, <2>1, <2>2, ConverterFacts
<1>6. \A b \in Queued : blk'[b].next = blk[b].next /\ (b # f => blk'[b].inserted = blk[b].inserted)
  <2> DEFINE q == [blk EXCEPT ![f].type = "reader", ![f].own = TRUE, ![f].inserted = FALSE]
  <2>1. StoreOrFree(t, q, waiter[t], NULL) \/ blk' = q
    BY <1>3 DEF ShLook, ShLast
  <2>2. ASSUME NEW b \in Queued PROVE b \in Block /\ b \notin {waiter[t], NULL}
    BY <2>2, NullNoBlock DEF Queued, NoBlock
  <2>3. \A b \in Queued : q[b].next = blk[b].next /\ (b # f => q[b].inserted = blk[b].inserted)
    <3>1. q[f] = [blk[f] EXCEPT !.type = "reader", !.own = TRUE, !.inserted = FALSE]
          /\ \A b \in Block : b # f => q[b] = blk[b]
      BY <1>1, <1>4 DEF TypeOK
    <3>2. blk[f] \in Waiters
      BY <1>1, <1>4 DEF TypeOK
    <3> HIDE DEF q
    <3>3. q[f].next = blk[f].next
      BY <3>1, <3>2, KindFacts DEF Kinds
    <3> QED BY <3>1, <3>3 DEF Queued
  <2>4. \A b \in Queued : blk'[b] = q[b]
    <3> HIDE DEF q
    <3> QED BY <2>1, <2>2, SparedElse
  <2> HIDE DEF q
  <2> QED BY <2>3, <2>4
<1>7. \A u \in Thread : Converting(u) => mine[u] \in Queued
  BY <1>1, ConverterFacts
<1>8. ASSUME NEW u \in Thread, Converting(u), ~ Led(u), mine[u] # first
      PROVE  blk'[first].next = mine[u] /\ \A v \in Thread : ~ TakesOver(v, first)'
  <2>1. blk[first].next = mine[u] /\ \A v \in Thread : ~ TakesOver(v, first)
    BY <1>8 DEF VInv, Warned
  <2>2. \A v \in Thread \ {t} : TakesOver(v, first)' <=> TakesOver(v, first)
    BY <1>2 DEF TakesOver, Apart
  <2>3. ~ TakesOver(t, first)'
    BY <1>2 DEF TakesOver
  <2> QED BY <1>4, <1>6, <2>1, <2>2, <2>3
<1> HIDE DEF Converting, Led, TakesOver
<1> QED BY <1>2, <1>5, <1>6, <1>7, <1>8, WarnedFrame

\* Nobody is behind the block that is replaced.
LEMMA WarnedReplace ==
  ASSUME VInv, IInv', NEW t \in Thread, ShLast(t), waiter[t] # NULL
  PROVE  VInv'
<1>1. TypeOK /\ IInv /\ ThreadOK(t)
  BY DEF VInv, IInv, Threads
<1>2. pc[t] = "shLast" /\ pc'[t] = "held" /\ stale' = stale /\ status' = status /\ Apart(t)
  BY <1>1 DEF ShLast, TypeOK, Apart
<1>3. PICK f, w : f = mine[t] /\ w = waiter[t]
  OBVIOUS
<1>4. f = first /\ f \in Queued /\ kind[t] = "writer" /\ blk[f].next = NULL
      /\ StoreOrFree(t, [blk EXCEPT ![w].own = TRUE], f, NULL)
  BY <1>1, <1>2, <1>3 DEF ThreadOK, HoldOK, HoldPCs, ShLast
<1>5. ~ Converting(t) /\ ~ Converting(t)' /\ Answer(t)' /\ \A u \in Thread : Converting(u) => mine[u] # f
  <2>1. \A u \in Thread : On(u, first) => u = t
    BY <1>1, <1>2, <1>4, HoldFacts DEF HoldPCs
  <2>2. ~ Converting(t) /\ ~ Converting(t)' /\ Answer(t)'
    BY <1>2 DEF Converting, Answer
  <2> QED BY <1>1, <1>4, <2>1, <2>2, ConverterFacts
<1>6. \A b \in Queued : b # f => blk'[b] = blk[b]
  <2> SUFFICES ASSUME NEW b \in Queued, b # f PROVE blk'[b] = blk[b]
    OBVIOUS
  <2>1. b \in Block /\ b # w /\ b # NULL
    BY <1>3, NullNoBlock DEF Queued, NoBlock
  <2> DEFINE q == [blk EXCEPT ![w].own = TRUE]
  <2>2. StoreOrFree(t, q, f, NULL) /\ q[b] = blk[b]
    BY <1>1, <1>4, <2>1 DEF TypeOK
  <2> HIDE DEF q
  <2>3. blk'[b] = q[b]
    BY <2>1, <2>2, SparedElse
  <2> QED BY <2>2, <2>3
<1>7. \A u \in Thread : Converting(u) => mine[u] \in Queued /\ mine[u] # NULL
  BY <1>1, ConverterFacts
<1>8. \A u \in Thread : Converting(u) => Led(u)
  BY <1>4, <1>5, <1>7 DEF VInv, Warned
<1> HIDE DEF Converting, Led, TakesOver
<1> QED BY <1>2, <1>5, <1>6, <1>7, <1>8, WarnedFrame

\* Readers come next, not a converter.
LEMMA WarnedJoin ==
  ASSUME VInv, IInv', NEW t \in Thread, ShJoin(t)
  PROVE  VInv'
<1>1. TypeOK /\ IInv /\ ThreadOK(t)
  BY DEF VInv, IInv, Threads
<1>2. pc[t] = "shJoin" /\ pc'[t] = "shSignal" /\ stale' = stale /\ status' = status /\ Apart(t)
  BY <1>1 DEF ShJoin, TypeOK, Apart
<1>3. PICK f, n : f = mine[t] /\ n = blk[f].next
  OBVIOUS
<1>4. f = first /\ f \in Queued /\ kind[t] = "writer" /\ blk[n].type = "reader"
  BY <1>1, <1>2, <1>3 DEF ThreadOK, HoldOK, HoldPCs
<1>5. ~ Converting(t) /\ ~ Converting(t)' /\ Answer(t)' /\ \A u \in Thread : Converting(u) => mine[u] # f
  <2>1. \A u \in Thread : On(u, first) => u = t
    BY <1>1, <1>2, <1>4, HoldFacts DEF HoldPCs
  <2>2. ~ Converting(t) /\ ~ Converting(t)' /\ Answer(t)'
    BY <1>2 DEF Converting, Answer
  <2> QED BY <1>1, <1>4, <2>1, <2>2, ConverterFacts
<1>6. \A b \in Queued : b # f => blk'[b].next = blk[b].next /\ blk'[b].inserted = blk[b].inserted
  <2> DEFINE q == [blk EXCEPT ![n].own = TRUE, ![n].ref = @ + 1]
  <2>1. StoreOrFree(t, q, f, waiter[t])
    BY <1>3 DEF ShJoin
  <2>2. ASSUME NEW b \in Queued PROVE b \in Block /\ b # waiter[t]
    BY <2>2 DEF Queued
  <2>3. \A b \in Queued : q[b].next = blk[b].next /\ q[b].inserted = blk[b].inserted
    BY <1>1 DEF TypeOK, Queued, Waiters
  <2>4. \A b \in Queued : b # f => blk'[b] = q[b]
    <3> HIDE DEF q
    <3> QED BY <2>1, <2>2, SparedElse
  <2> HIDE DEF q
  <2> QED BY <2>3, <2>4
<1>7. \A u \in Thread : Converting(u) => mine[u] \in Queued /\ mine[u] # n
  BY <1>1, <1>4, ConverterFacts
<1>8. \A u \in Thread : Converting(u) => Led(u)
  BY <1>3, <1>4, <1>5, <1>7 DEF VInv, Warned
<1> HIDE DEF Converting, Led, TakesOver
<1> QED BY <1>2, <1>5, <1>6, <1>7, <1>8, WarnedFrame
-----------------------------------------------------------------------------
(* A thread becomes the exclusive owner *)

LEMMA WarnedOvertaken ==
  ASSUME VInv, IInv', NEW t \in Thread, Apart(t), pc'[t] = "held", Overtake(t),
         \A u \in Thread \ {t} : status'[u] = status[u],
         \A u \in Thread \ {t} : Converting(u) =>
           blk'[mine[u]].inserted /\ (Led(u)' \/ blk'[first'].next = mine[u]),
         \A u \in Thread : ~ TakesOver(u, first)'
  PROVE  VInv'
<1>1. ~ Converting(t)' /\ Answer(t)'
  BY DEF Converting, Answer
<1>2. \A u \in Thread \ {t} : /\ Converting(u)' <=> Converting(u)
                              /\ Converting(u) => mine'[u] = mine[u]
  BY DEF Converting, Apart
<1>3. \A u \in Thread \ {t} : u \in stale' <=> Converting(u)
  BY DEF VInv, Overtake, Converting
<1>4. t \notin stale' /\ stale' \subseteq Thread
  BY DEF Overtake, VInv, IInv, TypeOK
<1>5. ASSUME NEW u \in Thread PROVE Warned(u)'
  <2>1. CASE u = t
    BY <1>1, <2>1 DEF Warned
  <2>2. CASE u # t /\ Converting(u)
    <3>1. /\ blk'[mine'[u]].inserted /\ u \in stale'
          /\ Led(u)' \/ blk'[first'].next = mine'[u]
      BY <1>2, <1>3, <2>2
    <3> HIDE DEF Led, TakesOver
    <3> QED BY <3>1 DEF Warned
  <2>3. CASE u # t /\ ~ Converting(u)
    BY <1>2, <2>3 DEF Warned
  <2> QED BY <2>1, <2>2, <2>3
<1>6. ASSUME NEW u \in Thread PROVE Answer(u)'
  <2>1. CASE u # t
    <3>1. Answer(u) /\ pc'[u] = pc[u] /\ status'[u] = status[u]
      BY <2>1 DEF VInv, Apart
    <3> QED BY <3>1 DEF Answer
  <2> QED BY <1>1, <2>1
<1>7. \A u \in stale' : Converting(u)'
  BY <1>2, <1>3, <1>4
<1> QED BY <1>5, <1>6, <1>7 DEF VInv

LEMMA WarnedReturn ==
  ASSUME VInv, IInv', NEW t \in Thread, LockReturn(t)
  PROVE  VInv'
<1>1. TypeOK /\ IInv
  BY DEF VInv, IInv
<1>2. mine[t] = first /\ first \in Queued /\ blk[first].type = kind[t] /\ On(t, first)
  BY <1>1, OwnsFirst DEF LockReturn, WaitPCs, Asked
<1>3. first' = first /\ blk' = blk /\ status' = status /\ Apart(t) /\ pc[t] = "own" /\ pc'[t] = "held"
  BY <1>1, <1>2 DEF LockReturn, TypeOK, Apart
<1>4. CASE kind[t] = "reader"
  <2>1. stale' = stale
    BY <1>4 DEF LockReturn
  <2>2. ~ Converting(t) /\ ~ Converting(t)' /\ Answer(t)' /\ ~ TakesOver(t, first)'
    BY <1>3 DEF Converting, Answer, TakesOver
  <2> QED BY <1>3, <2>1, <2>2, WarnedQuiet
<1>5. CASE kind[t] = "writer"
  <2>1. Overtake(t)
    BY <1>5 DEF LockReturn
  <2>2. \A u \in Thread : On(u, first) => u = t
    BY <1>1, <1>2, <1>5, CountFacts
  <2>3. TakesOver(t, first)
    BY <1>2, <1>3, <1>5 DEF TakesOver
  <2>4. \A u \in Thread \ {t} : Converting(u) => mine[u] # first
    BY <1>1, <2>2, ConverterFacts
  <2>5. \A u \in Thread \ {t} : Converting(u) => Led(u) /\ blk[mine[u]].inserted
    BY <2>3, <2>4 DEF VInv, Warned
  <2>6. ASSUME NEW u \in Thread \ {t}, Converting(u) PROVE Led(u)'
    <3>1. PICK v \in Thread : Converting(v) /\ blk[mine[v]].next = mine[u]
      BY <2>5, <2>6 DEF Led
    <3>2. v # t
      BY <1>3, <3>1 DEF Converting
    <3>3. Converting(v)' /\ mine'[v] = mine[v] /\ mine'[u] = mine[u]
      BY <1>3, <3>1, <3>2 DEF Converting, Apart
    <3> QED BY <1>3, <3>1, <3>3 DEF Led
  <2>7. \A u \in Thread : ~ TakesOver(u, first)'
    <3> SUFFICES ASSUME NEW u \in Thread, TakesOver(u, first)' PROVE FALSE
      OBVIOUS
    <3>1. u # t
      BY <1>3 DEF TakesOver
    <3>2. On(u, first)
      BY <1>3, <3>1 DEF TakesOver, Apart, On, WaitPCs
    <3> QED BY <2>2, <3>1, <3>2
  <2> HIDE DEF Converting, Led, TakesOver
  <2> QED BY <1>3, <2>1, <2>5, <2>6, <2>7, WarnedOvertaken
<1> QED BY <1>1, <1>4, <1>5 DEF TypeOK, Kinds

\* The verdict: the converter that returns is not behind another.
LEMMA NotLed ==
  ASSUME VInv, NEW t \in Thread, CvtReturn(t)
  PROVE  /\ ~ Led(t) /\ (blk[mine[t]].inserted <=> t \in stale)
         /\ mine[t] = first /\ first \in Queued
         /\ \A u \in Thread : On(u, first) => u = t
<1>1. TypeOK /\ IInv /\ QueueOK
  BY QueueFacts DEF VInv, IInv
<1>2. mine[t] = first /\ first \in Queued /\ blk[first].type = "writer" /\ On(t, first)
  BY <1>1, OwnsFirst DEF CvtReturn, WaitPCs, Asked
<1>3. ~ Led(t)
  <2> SUFFICES ASSUME NEW u \in Thread, Converting(u), blk[mine[u]].next = first
               PROVE  FALSE
    BY <1>2 DEF Led
  <2>1. mine[u] \in Queued /\ first # NULL
    BY <1>1, <1>2, NullNoBlock, ConverterFacts DEF Queued, NoBlock
  <2> QED BY <1>1, <2>1 DEF QueueOK
<1>4. \A u \in Thread : On(u, first) => u = t
  BY <1>1, <1>2, CountFacts
<1>5. Converting(t)
  BY DEF CvtReturn, Converting
<1> HIDE DEF Led
<1> QED BY <1>2, <1>3, <1>4, <1>5 DEF VInv, Warned

LEMMA WarnedCvtReturn ==
  ASSUME VInv, IInv', NEW t \in Thread, CvtReturn(t)
  PROVE  VInv'
<1>1. TypeOK /\ IInv
  BY DEF VInv, IInv
<1>2. /\ mine[t] = first /\ first \in Queued
      /\ \A u \in Thread : On(u, first) => u = t
  BY NotLed
<1>3. first' = first /\ blk' = blk /\ Apart(t) /\ pc'[t] = "held" /\ Overtake(t)
      /\ Converting(t) /\ \A u \in Thread \ {t} : status'[u] = status[u]
  BY <1>1 DEF CvtReturn, TypeOK, Apart, queue, Converting
<1>4. \A u \in Thread \ {t} : Converting(u) => mine[u] # first
  BY <1>1, <1>2, ConverterFacts
<1>5. \A u \in Thread \ {t} : Converting(u) => Led(u) /\ blk[mine[u]].inserted
  BY <1>2, <1>3, <1>4 DEF VInv, Warned, Led
<1>6. ASSUME NEW u \in Thread \ {t}, Converting(u) PROVE Led(u)' \/ blk'[first'].next = mine[u]
  <2>1. PICK v \in Thread : Converting(v) /\ blk[mine[v]].next = mine[u]
    BY <1>5, <1>6 DEF Led
  <2>2. CASE v = t
    BY <1>2, <1>3, <2>1, <2>2
  <2>3. CASE v # t
    <3>1. Converting(v)' /\ mine'[v] = mine[v] /\ mine'[u] = mine[u]
      BY <1>3, <2>1, <2>3 DEF Converting, Apart
    <3> QED BY <1>3, <2>1, <3>1 DEF Led
  <2> QED BY <2>2, <2>3
<1>7. \A u \in Thread : ~ TakesOver(u, first)'
  <2> SUFFICES ASSUME NEW u \in Thread, TakesOver(u, first)' PROVE FALSE
    OBVIOUS
  <2>1. u # t
    BY <1>3 DEF TakesOver
  <2>2. On(u, first)
    BY <1>3, <2>1 DEF TakesOver, Apart, On, WaitPCs
  <2> QED BY <1>2, <2>1, <2>2
<1> HIDE DEF Converting, Led, TakesOver
<1> QED BY <1>3, <1>5, <1>6, <1>7, WarnedOvertaken
LEMMA WarnedInPlace ==
  ASSUME VInv, IInv', NEW t \in Thread, CvtInPlace(t)
  PROVE  VInv'
<1>1. TypeOK /\ IInv /\ ThreadOK(t) /\ QueueOK
  BY QueueFacts DEF VInv, IInv, Threads
<1>2. first' = first /\ Apart(t) /\ pc[t] = "cvtOne" /\ pc'[t] = "held" /\ Overtake(t) /\ status' = status
  BY <1>1 DEF CvtInPlace, TypeOK, Apart
<1>3. PICK f, n : f = mine[t] /\ n = blk[f].next
  OBVIOUS
<1>4. f = first /\ f \in Queued /\ blk[f].ref = 1 /\ On(t, first)
  BY <1>1, <1>2, <1>3 DEF ThreadOK, HoldOK, HoldPCs, CvtInPlace, StillAlone, On
<1>5. \A u \in Thread : On(u, first) => u = t
  BY <1>1, <1>4, CountFacts
<1>6. \A u \in Thread \ {t} : Converting(u) =>
        mine[u] \in Queued /\ mine[u] # f /\ mine[u] # NULL /\ blk[mine[u]].type = "writer"
  BY <1>1, <1>4, <1>5, ConverterFacts
<1>7. \A b \in Queued : /\ blk'[b].next = blk[b].next
                        /\ b # f /\ blk[b].inserted => blk'[b].inserted
                        /\ b = n /\ b # f /\ blk[b].type = "writer" => blk'[b].inserted
  <2> DEFINE q == [blk EXCEPT ![f].type = "writer", ![f].own = TRUE, ![f].inserted = FALSE]
             p == MarkOvertaken(q, n)
  <2>1. StoreOrFree(t, p, waiter[t], NULL)
    BY <1>3 DEF CvtInPlace
  <2>2. q[f] = [blk[f] EXCEPT !.type = "writer", !.own = TRUE, !.inserted = FALSE]
        /\ q \in [Block -> Waiters] /\ \A b \in Block : b # f => q[b] = blk[b]
    <3>1. f \in Block
      BY <1>4 DEF Queued
    <3>2. q[f] = [blk[f] EXCEPT !.type = "writer", !.own = TRUE, !.inserted = FALSE]
          /\ \A b \in Block : b # f => q[b] = blk[b]
      BY <1>1, <3>1 DEF TypeOK
    <3>3. blk[f] \in Waiters /\ \A b \in Block : b # f => blk[b] \in Waiters
      BY <1>1, <3>1 DEF TypeOK
    <3>4. DOMAIN q = Block /\ q = [b \in Block |-> q[b]]
      BY <1>1 DEF TypeOK
    <3> HIDE DEF q
    <3>5. q[f] \in Waiters
      BY <3>2, <3>3, KindFacts DEF Kinds
    <3>6. \A b \in Block : q[b] \in Waiters
      BY <3>2, <3>3, <3>5
    <3> QED BY <3>2, <3>4, <3>6
  <2>3. ASSUME NEW b \in Queued PROVE b \in Block /\ b \notin {waiter[t], NULL}
    BY <2>3, NullNoBlock DEF Queued, NoBlock
  <2>4. q[f].next = blk[f].next
    <3>1. blk[f] \in Waiters
      BY <1>1, <1>4, <2>3 DEF TypeOK
    <3> HIDE DEF q
    <3> QED BY <2>2, <3>1, KindFacts DEF Kinds
  <2>5. ASSUME NEW b \in Queued
        PROVE  /\ p[b].next = q[b].next
               /\ q[b].inserted => p[b].inserted
               /\ b = n /\ q[b].type = "writer" => p[b].inserted
    <3> HIDE DEF q
    <3>1. b \in Block /\ q[b] \in Waiters /\ b # NULL
      BY <2>2, <2>3
    <3>2. CASE n # NULL /\ q[n].type = "writer"
      <4>1. p = [q EXCEPT ![n].inserted = TRUE]
        BY <3>2 DEF MarkOvertaken
      <4>2. CASE b = n
        <5>1. p[b] = [q[b] EXCEPT !.inserted = TRUE]
          BY <2>2, <3>1, <4>1, <4>2
        <5> QED BY <3>1, <5>1 DEF Waiters
      <4>3. CASE b # n
        <5>1. p[b] = q[b]
          BY <2>2, <3>1, <4>1, <4>3
        <5> QED BY <4>3, <5>1
      <4> QED BY <4>2, <4>3
    <3>3. CASE ~ (n # NULL /\ q[n].type = "writer")
      <4>1. p = q
        BY <3>3 DEF MarkOvertaken
      <4> QED BY <3>1, <3>3, <4>1
    <3> QED BY <3>2, <3>3
  <2> HIDE DEF q, p
  <2>6. \A b \in Queued : blk'[b] = p[b]
    BY <2>1, <2>3, SparedElse
  <2> QED BY <2>2, <2>3, <2>4, <2>5, <2>6
<1>8. ASSUME NEW u \in Thread \ {t}, Converting(u)
      PROVE  blk'[mine[u]].inserted /\ (Led(u)' \/ blk'[first'].next = mine[u])
  <2>1. CASE Led(u)
    <3>1. PICK v \in Thread : Converting(v) /\ blk[mine[v]].next = mine[u]
      BY <2>1 DEF Led
    <3>2. v # t
      BY <1>2, <3>1 DEF Converting
    <3>3. Converting(v)' /\ mine'[v] = mine[v] /\ mine'[u] = mine[u]
      BY <1>2, <1>8, <3>1, <3>2 DEF Converting, Apart
    <3>4. blk'[mine[v]].next = blk[mine[v]].next
      BY <1>6, <1>7, <3>1, <3>2
    <3>5. Led(u)'
      BY <3>1, <3>3, <3>4 DEF Led
    <3>6. blk[mine[u]].inserted
      BY <1>8, <2>1 DEF VInv, Warned
    <3> HIDE DEF Led
    <3> QED BY <1>6, <1>7, <1>8, <3>5, <3>6
  <2>2. CASE ~ Led(u)
    <3>1. n = mine[u]
      BY <1>3, <1>4, <1>6, <1>8, <2>2 DEF VInv, Warned
    <3> QED BY <1>2, <1>3, <1>4, <1>6, <1>7, <1>8, <3>1
  <2> QED BY <2>1, <2>2
<1>9. \A u \in Thread : ~ TakesOver(u, first)'
  <2> SUFFICES ASSUME NEW u \in Thread, TakesOver(u, first)' PROVE FALSE
    OBVIOUS
  <2>1. u # t
    BY <1>2 DEF TakesOver
  <2>2. On(u, first)
    BY <1>2, <2>1 DEF TakesOver, Apart, On, WaitPCs
  <2> QED BY <1>5, <2>1, <2>2
<1> HIDE DEF Converting, Led, TakesOver
<1> QED BY <1>2, <1>8, <1>9, WarnedOvertaken
\* A thread begins to wait right behind the first block.  A converter that
\* was there is marked.
LEMMA WarnedInsert ==
  ASSUME VInv, IInv', NEW t \in Thread, CvtInsert(t)
  PROVE  VInv'
<1>0. PICK f, n, w : f = first /\ n = blk[f].next /\ w = waiter[t]
  OBVIOUS
<1>1. TypeOK /\ IInv /\ ThreadOK(t) /\ Hands /\ QueueOK
  BY QueueFacts DEF VInv, IInv, Threads
<1>2. pc[t] = "cvtMany" /\ ~ Converting(t)
  BY DEF CvtInsert, Converting
<1>3. f \in Queued /\ f \in Block /\ mine[t] = f /\ blk[f].type = "reader"
  BY <1>0, <1>1, <1>2 DEF ThreadOK, HoldOK, HoldPCs, Queued
<1>4. w # NULL /\ w \in Block /\ InHand(blk[w]) /\ w \notin Queued /\ w # f
  BY <1>0, <1>1, <1>2, <1>3 DEF ThreadOK, HandOK, TypeOK, Hands, Queued
<1>5. n # NULL => n \in Queued /\ n # f /\ n # w /\ n \in Block
  BY <1>0, <1>1, <1>3, <1>4 DEF QueueOK, Queued
<1>6. /\ first' = first /\ stale' = stale /\ status' = status /\ Apart(t)
      /\ mine'[t] = w /\ pc'[t] = "cvtWait"
  BY <1>0, <1>1 DEF CvtInsert, TypeOK, Apart
<1>7. /\ blk'[w].next = n /\ ~ blk'[w].inserted /\ blk'[f].next = w
      /\ \A b \in Queued : b # f => blk'[b].next = blk[b].next
      /\ \A b \in Queued : b # f /\ b # n => blk'[b].inserted = blk[b].inserted
      /\ n # NULL /\ blk[n].type = "writer" => blk'[n].inserted
  <2> DEFINE q == [blk EXCEPT ![w].next = n, ![f].next = w, ![f].ref = @ - 1]
  <2>1. blk' = IF last = f THEN q ELSE MarkOvertaken(q, n)
    BY <1>0, <1>3 DEF CvtInsert
  <2>2. /\ q[w].next = n /\ ~ q[w].inserted /\ q[f].next = w
        /\ \A b \in Block : b # f /\ b # w => q[b] = blk[b]
        /\ DOMAIN q = Block
    BY <1>1, <1>3, <1>4 DEF TypeOK, Waiters, InHand
  <2>3. last = f <=> n = NULL
    BY <1>0, <1>1, <1>3 DEF QueueOK
  <2>4. \A b \in Queued : b \in Block /\ b # w
    BY <1>4 DEF Queued
  <2> HIDE DEF q
  <2>5. CASE n # NULL /\ q[n].type = "writer"
    <3>1. blk' = [q EXCEPT ![n].inserted = TRUE]
      BY <2>1, <2>3, <2>5 DEF MarkOvertaken
    <3>2. q[n] = blk[n] /\ blk[n] \in Waiters
      BY <1>1, <1>5, <2>2, <2>5 DEF TypeOK
    <3>3. blk'[n] = [blk[n] EXCEPT !.inserted = TRUE] /\ \A b \in Block : b # n => blk'[b] = q[b]
      BY <1>5, <2>2, <2>5, <3>1, <3>2
    <3>4. blk'[n].next = blk[n].next /\ blk'[n].inserted
      BY <3>2, <3>3 DEF Waiters
    <3>5. blk'[w] = q[w] /\ blk'[f] = q[f]
      BY <1>3, <1>4, <1>5, <2>5, <3>3
    <3>6. \A b \in Queued : b # f /\ b # n => blk'[b] = blk[b]
      BY <2>2, <2>4, <3>3
    <3> QED BY <2>2, <3>4, <3>5, <3>6
  <2>6. CASE ~ (n # NULL /\ q[n].type = "writer")
    <3>1. blk' = q
      BY <2>1, <2>6 DEF MarkOvertaken
    <3>2. n # NULL => q[n] = blk[n]
      BY <1>5, <2>2
    <3> QED BY <1>4, <2>2, <2>4, <2>6, <3>1, <3>2
  <2> QED BY <2>5, <2>6
<1>8. \A u \in Thread : Converting(u) =>
        u # t /\ mine[u] \in Queued /\ mine[u] # f /\ mine[u] # w /\ mine[u] # NULL
        /\ blk[mine[u]].type = "writer"
  BY <1>1, <1>2, <1>3, <1>4, ConverterFacts
<1>9. \A u \in Thread : Converting(u)' <=> u = t \/ Converting(u)
  BY <1>6 DEF Converting, Apart
<1>10. \A u \in Thread : u # t => mine'[u] = mine[u]
  BY <1>6 DEF Apart
<1>11. \A u \in Thread : ~ TakesOver(u, first)'
  <2> SUFFICES ASSUME NEW u \in Thread, TakesOver(u, first)' PROVE FALSE
    OBVIOUS
  <2>1. u # t
    BY <1>6 DEF TakesOver
  <2>2. pc[u] \in {"wait", "own"} /\ mine[u] = first /\ kind[u] = "writer"
    BY <1>6, <2>1 DEF TakesOver, Apart
  <2>3. blk[first].type = "writer"
    BY <1>1, <2>2 DEF IInv, Threads, ThreadOK, WaitOK, WaitPCs, Asked
  <2> QED BY <1>0, <1>3, <2>3
<1>12. Warned(t)'
  <2>1. t \notin stale
    BY <1>2 DEF VInv
  <2>2. ~ Led(t)'
    <3> SUFFICES ASSUME NEW u \in Thread, Converting(u)', blk'[mine'[u]].next = w PROVE FALSE
      BY <1>6 DEF Led
    <3>1. CASE u = t
      <4>1. n = w
        BY <1>6, <1>7, <3>1
      <4> QED BY <1>4, <1>5, <4>1
    <3>2. CASE u # t
      <4>1. mine[u] \in Queued /\ blk[mine[u]].next = w
        BY <1>7, <1>8, <1>9, <1>10, <3>2
      <4> QED BY <1>1, <1>4, <4>1 DEF QueueOK
    <3> QED BY <3>1, <3>2
  <2>3. ~ blk'[mine'[t]].inserted /\ t \notin stale' /\ blk'[first'].next = mine'[t]
    BY <1>0, <1>6, <1>7, <2>1
  <2> HIDE DEF Led, TakesOver
  <2> QED BY <1>11, <2>2, <2>3 DEF Warned
<1>13. ASSUME NEW u \in Thread, u # t, Converting(u) PROVE Warned(u)'
  <2>1. CASE mine[u] = n
    <3>1. blk'[mine'[u]].inserted
      BY <1>7, <1>8, <1>10, <1>13, <2>1
    <3>2. Led(u)'
      BY <1>6, <1>7, <1>9, <1>10, <1>13, <2>1 DEF Led
    <3> HIDE DEF Led
    <3> QED BY <3>1, <3>2 DEF Warned
  <2>2. CASE mine[u] # n
    <3>1. Led(u)
      BY <1>0, <1>8, <1>13, <2>2 DEF VInv, Warned
    <3>2. blk'[mine'[u]].inserted
      <4>1. blk[mine[u]].inserted
        BY <1>13, <3>1 DEF VInv, Warned
      <4> QED BY <1>7, <1>8, <1>10, <1>13, <2>2, <4>1
    <3>3. Led(u)'
      <4>1. PICK v \in Thread : Converting(v) /\ blk[mine[v]].next = mine[u]
        BY <3>1 DEF Led
      <4>2. Converting(v)' /\ blk'[mine'[v]].next = mine'[u]
        BY <1>7, <1>8, <1>9, <1>10, <1>13, <4>1
      <4> QED BY <4>2 DEF Led
    <3> HIDE DEF Led
    <3> QED BY <3>2, <3>3 DEF Warned
  <2> QED BY <2>1, <2>2
<1>14. \A u \in Thread : Warned(u)'
  BY <1>9, <1>12, <1>13 DEF Warned
<1>15. \A u \in stale' : Converting(u)'
  BY <1>1, <1>6, <1>9 DEF VInv, TypeOK
<1>16. \A u \in Thread : Answer(u)'
  <2> SUFFICES ASSUME NEW u \in Thread PROVE Answer(u)'
    OBVIOUS
  <2>1. CASE u = t
    BY <1>6, <2>1 DEF Answer
  <2>2. CASE u # t
    <3>1. Answer(u) /\ pc'[u] = pc[u]
      BY <1>6, <2>2 DEF VInv, Apart
    <3> QED BY <1>6, <3>1 DEF Answer
  <2> QED BY <2>1, <2>2
<1> QED BY <1>14, <1>15, <1>16 DEF VInv
-----------------------------------------------------------------------------
(* The invariant *)

LEMMA WarnedInit == Init => VInv
<1> SUFFICES ASSUME Init PROVE VInv
  OBVIOUS
<1>1. IInv
  BY InitHolds
<1>2. \A t \in Thread : pc[t] = "idle" /\ t \notin stale
  BY DEF Init
<1> QED BY <1>1, <1>2 DEF VInv, Warned, Converting, Answer, IInv, TypeOK

LEMMA WarnedNext == VInv /\ [Next]_vars => VInv'
<1> SUFFICES ASSUME VInv, [Next]_vars PROVE VInv'
  OBVIOUS
<1>0. IInv /\ IInv'
  BY NextHolds DEF VInv
<1>1. CASE UNCHANGED vars
  BY <1>0, <1>1 DEF vars, queue, local, VInv, Warned, Led, Converting, TakesOver, Answer
<1>2. ASSUME NEW t \in Thread, Step(t) PROVE VInv'
  <2>1. CASE Look(t)
    BY <1>0, <2>1, WarnedLook
  <2>2. CASE LockAllocate(t) \/ CvtAllocate(t) \/ ShAllocate(t)
    BY <1>0, <2>2, WarnedAllocate
  <2>3. CASE LockRetry(t) \/ CvtRetry(t) \/ ShRetry(t) \/ LockWake(t)
    BY <1>0, <2>3, WarnedLocal
  <2>4. CASE LockFree(t)
    BY <1>0, <2>4, WarnedFree
  <2>5. CASE LockSharedOnLastReader(t) \/ (UnlockShared(t) /\ blk[mine[t]].ref # 1)
    BY <1>0, <2>5, WarnedCounted
  <2>6. CASE LockQueue(t)
    BY <1>0, <2>6, WarnedQueue
  <2>7. CASE LockReturn(t)
    BY <1>0, <2>7, WarnedReturn
  <2>8. CASE UnlockExclusive(t) \/ (UnlockShared(t) /\ blk[mine[t]].ref = 1)
    BY <1>0, <2>8, WarnedPassOn
  <2>9. CASE SetEvent(t)
    BY <1>0, <2>9, WarnedSetEvent
  <2>10. CASE CvtLook(t)
    BY <1>0, <2>10, WarnedInHand
  <2>11. CASE CvtInPlace(t)
    BY <1>0, <2>11, WarnedInPlace
  <2>12. CASE CvtInsert(t)
    BY <1>0, <2>12, WarnedInsert
  <2>13. CASE CvtReturn(t)
    BY <1>0, <2>13, WarnedCvtReturn
  <2>14. CASE ShLook(t)
    <3>1. \/ ShLooks(t)
          \/ blk[mine[t]].next # NULL /\ blk[blk[mine[t]].next].type = "writer"
      BY <2>14 DEF ShLook, ShLooks, NeedsBlock
    <3> QED BY <1>0, <2>14, <3>1, WarnedLocal, WarnedDowngrade
  <2>15. CASE ShLast(t)
    BY <1>0, <2>15, WarnedDowngrade, WarnedReplace
  <2>16. CASE ShJoin(t)
    BY <1>0, <2>16, WarnedJoin
  <2> QED
    BY <1>2, <2>1, <2>2, <2>3, <2>4, <2>5, <2>6, <2>7, <2>8, <2>9, <2>10, <2>11, <2>12, <2>13,
       <2>14, <2>15, <2>16 DEF Step
<1>3. ASSUME NEW t \in Thread, Call(t) PROVE VInv'
  BY <1>0, <1>3, WarnedInHand, WarnedLocal DEF Call
<1> QED BY <1>1, <1>2, <1>3 DEF Next

\* In every state of the lock each thread that waits to convert is marked as
\* overtaken if and only if it was, or will be before it returns.
THEOREM VInvHolds == Spec => []VInv
BY WarnedInit, WarnedNext, PTL DEF Spec

\* ConvertToExclusive answers ERROR_MORE_WRITES exactly when another thread
\* owned the lock exclusively between its shared and its exclusive hold.
THEOREM ConversionVerdictHolds == Spec => ConversionVerdict
<1>1. ASSUME VInv, [Next]_vars
      PROVE  [\A t \in Thread : pc[t] = "cvtWait" /\ pc'[t] = "held" =>
               (status'[t] = "moreWrites" <=> t \in stale)]_vars
  <2> SUFFICES ASSUME NEW t \in Thread, pc[t] = "cvtWait", pc'[t] = "held", Next
               PROVE  status'[t] = "moreWrites" <=> t \in stale
    BY <1>1
  <2>1. TypeOK
    BY <1>1 DEF VInv, IInv
  <2>2. CvtReturn(t)
    <3>1. PICK u \in Thread : Step(u) \/ Call(u)
      BY DEF Next
    <3>2. u = t
      <4>1. \E p : pc' = [pc EXCEPT ![u] = p]
        BY <3>1 DEF Step, Call, Look, LockAllocate, AllocateWaiter, LockRetry, LockFree,
                    LockSharedOnLastReader, LockQueue, LockWake, LockReturn, UnlockShared,
                    UnlockExclusive, PassOn, SetEvent, CvtLook, CvtAllocate, CvtInPlace, CvtInsert,
                    CvtRetry, CvtReturn, ShLook, ShAllocate, ShLast, ShRetry, ShJoin, LockCall,
                    UnlockCall, ConvertToExclusive, ConvertToShared
      <4> QED BY <2>1, <4>1 DEF TypeOK
    <3> QED
      BY <3>1, <3>2 DEF Step, Call, Look, LockAllocate, LockRetry, LockFree,
                    LockSharedOnLastReader, LockQueue, LockWake, LockReturn, UnlockShared,
                    UnlockExclusive, SetEvent, CvtLook, CvtAllocate, CvtInPlace, CvtInsert,
                    CvtRetry, ShLook, ShAllocate, ShLast, ShRetry, ShJoin, LockCall,
                    UnlockCall, ConvertToExclusive, ConvertToShared
  <2>3. blk[mine[t]].inserted <=> t \in stale
    BY <1>1, <2>2, NotLed
  <2>4. status'[t] = IF blk[mine[t]].inserted THEN "moreWrites" ELSE "ok"
    BY <2>1, <2>2 DEF CvtReturn, TypeOK
  <2> QED BY <2>3, <2>4
<1> QED BY <1>1, VInvHolds, PTL DEF Spec, ConversionVerdict

-----------------------------------------------------------------------------
(* The lock implements what its callers are promised *)

Mode == [t \in Thread |-> ModeOf(t)]

\* Only t goes on.
OnlyMoves(t) == \A u \in Thread \ {t} : pc'[u] = pc[u] /\ kind'[u] = kind[u]

LEMMA ModeMoves ==
  ASSUME NEW t \in Thread, OnlyMoves(t), NEW m, m = ModeOf(t)'
  PROVE  Mode' = [Mode EXCEPT ![t] = m]
BY DEF Mode, ModeOf, OnlyMoves

\* Steps that change the hold of no thread.
LEMMA PromiseStays ==
  ASSUME NEW t \in Thread, OnlyMoves(t), ModeOf(t)' = ModeOf(t), ModeOf(t) # "upgrading",
         stale' = stale,
         status' = status \/ \E s \in {"ok", "noMemory"} : status' = [status EXCEPT ![t] = s]
  PROVE  [Abstract!Next]_(Abstract!vars)
<1>1. Mode' = Mode
  BY ModeMoves DEF Mode
<1> HIDE DEF ModeOf
<1>2. CASE status' = status
  BY <1>1, <1>2 DEF Abstract!vars, Mode
<1>3. CASE \E s \in {"ok", "noMemory"} : status' = [status EXCEPT ![t] = s]
  <2>1. Abstract!Report(t)
    BY <1>1, <1>3 DEF Abstract!Report, Mode
  <2> QED BY <2>1 DEF Abstract!Next
<1> QED BY <1>2, <1>3

LEMMA PromiseReleases ==
  ASSUME NEW t \in Thread, OnlyMoves(t), ModeOf(t) \in {"shared", "exclusive"}, ModeOf(t)' = "none",
         stale' = stale, status' = status
  PROVE  Abstract!Next
<1>1. Mode' = [Mode EXCEPT ![t] = "none"]
  BY ModeMoves
<1> HIDE DEF ModeOf
<1>2. Abstract!Release(t)
  BY <1>1 DEF Abstract!Release, Mode
<1> QED BY <1>2 DEF Abstract!Next

LEMMA PromiseDowngrades ==
  ASSUME NEW t \in Thread, OnlyMoves(t), ModeOf(t) = "exclusive", ModeOf(t)' = "shared",
         stale' = stale, status' = status
  PROVE  Abstract!Next
<1>1. Mode' = [Mode EXCEPT ![t] = "shared"]
  BY ModeMoves
<1> HIDE DEF ModeOf
<1>2. Abstract!Downgrade(t)
  BY <1>1 DEF Abstract!Downgrade, Mode
<1> QED BY <1>2 DEF Abstract!Next

LEMMA PromiseWaits ==
  ASSUME NEW t \in Thread, OnlyMoves(t), ModeOf(t) = "shared", ModeOf(t)' = "upgrading",
         stale' = stale, status' = status
  PROVE  Abstract!Next
<1>1. Mode' = [Mode EXCEPT ![t] = "upgrading"]
  BY ModeMoves
<1> HIDE DEF ModeOf
<1>2. Abstract!UpgradeWait(t)
  BY <1>1 DEF Abstract!UpgradeWait, Mode
<1> QED BY <1>2 DEF Abstract!Next

LEMMA PromiseShares ==
  ASSUME NEW t \in Thread, OnlyMoves(t), ModeOf(t) = "none", ModeOf(t)' = "shared",
         \A u \in Thread : ModeOf(u) # "exclusive", stale' = stale, status' = status
  PROVE  Abstract!Next
<1>1. Mode' = [Mode EXCEPT ![t] = "shared"]
  BY ModeMoves
<1> HIDE DEF ModeOf
<1>2. Abstract!AcquireShared(t)
  BY <1>1 DEF Abstract!AcquireShared, Mode
<1> QED BY <1>2 DEF Abstract!Next

\* The three ways to become the exclusive owner.
LEMMA PromiseOwns ==
  ASSUME NEW t \in Thread, OnlyMoves(t), ModeOf(t)' = "exclusive",
         \A u \in Thread \ {t} : ModeOf(u) \in {"none", "upgrading"}, Overtake(t),
         \/ ModeOf(t) = "none" /\ status' = status
         \/ ModeOf(t) = "shared" /\ status' = [status EXCEPT ![t] = "ok"]
         \/ /\ ModeOf(t) = "upgrading"
            /\ status' = [status EXCEPT ![t] = IF t \in stale THEN "moreWrites" ELSE "ok"]
  PROVE  Abstract!Next
<1>1. Mode' = [Mode EXCEPT ![t] = "exclusive"]
  BY ModeMoves
<1>2. \A u \in Thread : pc[u] = "cvtWait" <=> ModeOf(u) = "upgrading"
  BY DEF ModeOf
<1> HIDE DEF ModeOf
<1>3. Abstract!Overtake(t)
  BY <1>2 DEF Abstract!Overtake, Overtake, Mode
<1>4. Abstract!Alone(t)
  BY DEF Abstract!Alone, Mode
<1>5. CASE ModeOf(t) = "none" /\ status' = status
  <2>1. Abstract!AcquireExclusive(t)
    BY <1>1, <1>3, <1>4, <1>5 DEF Abstract!AcquireExclusive, Mode
  <2> QED BY <2>1 DEF Abstract!Next
<1>6. CASE ModeOf(t) = "shared" /\ status' = [status EXCEPT ![t] = "ok"]
  <2>1. Abstract!UpgradeAtOnce(t)
    BY <1>1, <1>3, <1>4, <1>6 DEF Abstract!UpgradeAtOnce, Mode
  <2> QED BY <2>1 DEF Abstract!Next
<1>7. CASE /\ ModeOf(t) = "upgrading"
           /\ status' = [status EXCEPT ![t] = IF t \in stale THEN "moreWrites" ELSE "ok"]
  <2>1. Abstract!UpgradeDone(t)
    BY <1>1, <1>3, <1>4, <1>7 DEF Abstract!UpgradeDone, Mode
  <2> QED BY <2>1 DEF Abstract!Next
<1> QED BY <1>5, <1>6, <1>7

\* Calls begin, fail or loop around; blocks are looked for and queued; events
\* are set.
LEMMA PromiseQuiet ==
  ASSUME VInv, NEW t \in Thread,
         \/ Look(t) \/ LockAllocate(t) \/ LockRetry(t) \/ LockSharedOnLastReader(t)
         \/ LockQueue(t) \/ LockWake(t) \/ SetEvent(t) \/ CvtLook(t) \/ CvtAllocate(t)
         \/ CvtRetry(t) \/ ShLooks(t) \/ ShAllocate(t) \/ ShRetry(t) \/ Call(t)
  PROVE  [Abstract!Next]_(Abstract!vars)
<1>1. TypeOK /\ ThreadOK(t)
  BY DEF VInv, IInv, Threads
<1>2. stale' = stale /\ (status' = status \/ \E s \in {"ok", "noMemory"} : status' = [status EXCEPT ![t] = s])
  BY DEF Look, LockAllocate, LockRetry, LockSharedOnLastReader, LockQueue, LockWake, SetEvent,
         CvtLook, CvtAllocate, CvtRetry, ShLooks, ShAllocate, ShRetry, AllocateWaiter, Call, LockCall,
         UnlockCall, ConvertToExclusive, ConvertToShared
<1>3. \E p : pc' = [pc EXCEPT ![t] = p]
  BY DEF Look, LockAllocate, LockRetry, LockSharedOnLastReader, LockQueue, LockWake, SetEvent,
         CvtLook, CvtAllocate, CvtRetry, ShLooks, ShAllocate, ShRetry, AllocateWaiter, Call, LockCall,
         UnlockCall, ConvertToExclusive, ConvertToShared
<1>4. pc[t] # "cvtWait" /\ (pc[t] \in HoldPCs <=> pc'[t] \in HoldPCs) /\ pc'[t] # "cvtWait"
  <2>1. CASE Call(t)
    BY <1>1, <2>1 DEF Call, LockCall, UnlockCall, ConvertToExclusive, ConvertToShared, TypeOK, HoldPCs
  <2>2. CASE \/ Look(t) \/ LockAllocate(t) \/ LockRetry(t) \/ LockSharedOnLastReader(t)
             \/ LockQueue(t) \/ LockWake(t) \/ SetEvent(t)
    BY <1>1, <2>2 DEF Look, LockAllocate, LockRetry, LockSharedOnLastReader, LockQueue, LockWake,
         SetEvent, AllocateWaiter, TypeOK, HoldPCs
  <2>3. CASE \/ CvtLook(t) \/ CvtAllocate(t) \/ CvtRetry(t) \/ ShLooks(t) \/ ShAllocate(t)
             \/ ShRetry(t)
    BY <1>1, <2>3 DEF CvtLook, CvtAllocate, CvtRetry, ShLooks, ShAllocate, ShRetry, AllocateWaiter,
         TypeOK, HoldPCs
  <2> QED BY <2>1, <2>2, <2>3
<1>5. kind' = kind \/ (\E k \in Kinds : LockCall(t, k)) \/ UnlockCall(t)
  BY DEF Look, LockAllocate, LockRetry, LockSharedOnLastReader, LockQueue, LockWake, SetEvent,
         CvtLook, CvtAllocate, CvtRetry, ShLooks, ShAllocate, ShRetry, Call, ConvertToExclusive,
         ConvertToShared, local
<1>6. \E k : kind' = [kind EXCEPT ![t] = k]
  BY <1>1, <1>5 DEF TypeOK, LockCall, UnlockCall
<1>7. pc[t] \in HoldPCs => kind'[t] = kind[t]
  <2>1. CASE UnlockCall(t)
    <3>1. blk[first].type = kind[t]
      BY <1>1, <2>1 DEF ThreadOK, HoldOK, HoldPCs, UnlockCall
    <3> QED BY <1>1, <2>1, <3>1 DEF UnlockCall, TypeOK
  <2> QED BY <1>5, <2>1 DEF LockCall, HoldPCs
<1>8. OnlyMoves(t)
  BY <1>1, <1>3, <1>6 DEF TypeOK, OnlyMoves
<1>9. ModeOf(t)' = ModeOf(t) /\ ModeOf(t) # "upgrading"
  BY <1>4, <1>7 DEF ModeOf
<1> HIDE DEF ModeOf
<1> QED BY <1>2, <1>8, <1>9, PromiseStays

\* The lock is free, or it was handed over to the block of t.
LEMMA PromiseTakes ==
  ASSUME VInv, NEW t \in Thread, LockFree(t) \/ LockReturn(t)
  PROVE  Abstract!Next
<1>1. TypeOK /\ IInv /\ QueueOK
  BY QueueFacts DEF VInv, IInv
<1>2. OnlyMoves(t) /\ pc[t] \in {"lock", "own"} /\ pc'[t] = "held" /\ kind'[t] = kind[t] /\ status' = status
      /\ kind[t] \in Kinds
  BY <1>1 DEF LockFree, LockReturn, TypeOK, OnlyMoves
<1>3. ASSUME NEW u \in Thread, pc[u] \in HoldPCs
      PROVE  u # t /\ kind[u] = "reader" /\ kind[t] = "reader"
  <2>1. /\ first \in Queued /\ blk[first].type = kind[u] /\ On(u, first)
        /\ kind[u] = "writer" => \A v \in Thread : On(v, first) => v = u
    BY <1>1, <1>3, HoldFacts DEF On
  <2>2. u # t
    BY <1>2, <1>3 DEF HoldPCs
  <2>3. LockReturn(t)
    BY <1>1, <2>1 DEF LockFree, QueueOK, IInv, Marked, LastState
  <2>4. On(t, first) /\ blk[first].type = kind[t]
    BY <1>1, <2>3, OwnsFirst DEF LockReturn, WaitPCs, Asked
  <2> QED BY <1>2, <2>1, <2>2, <2>4 DEF Kinds
<1>4. ModeOf(t) = "none" /\ \A u \in Thread : ModeOf(u) # "exclusive"
  BY <1>2, <1>3 DEF ModeOf, HoldPCs
<1>5. CASE kind[t] = "reader"
  <2>1. stale' = stale
    BY <1>5 DEF LockFree, LockReturn
  <2>2. ModeOf(t)' = "shared"
    BY <1>2, <1>5 DEF ModeOf, HoldPCs
  <2> HIDE DEF ModeOf
  <2> QED BY <1>2, <1>4, <2>1, <2>2, PromiseShares
<1>6. CASE kind[t] = "writer"
  <2>1. Overtake(t)
    BY <1>6 DEF LockFree, LockReturn
  <2>2. ModeOf(t)' = "exclusive" /\ \A u \in Thread \ {t} : ModeOf(u) \in {"none", "upgrading"}
    BY <1>2, <1>3, <1>6 DEF ModeOf, HoldPCs
  <2> HIDE DEF ModeOf
  <2> QED BY <1>2, <1>4, <2>1, <2>2, PromiseOwns
<1> QED BY <1>2, <1>5, <1>6 DEF Kinds

LEMMA PromiseUnlocks ==
  ASSUME VInv, NEW t \in Thread, UnlockShared(t) \/ UnlockExclusive(t)
  PROVE  Abstract!Next
<1>1. TypeOK
  BY DEF VInv, IInv
<1>2. OnlyMoves(t) /\ pc[t] = "unlock" /\ pc'[t] \in {"idle", "signal"} /\ stale' = stale /\ status' = status
  BY <1>1 DEF UnlockShared, UnlockExclusive, PassOn, TypeOK, OnlyMoves
<1>3. ModeOf(t) \in {"shared", "exclusive"} /\ ModeOf(t)' = "none"
  BY <1>2 DEF ModeOf, HoldPCs
<1> HIDE DEF ModeOf
<1> QED BY <1>2, <1>3, PromiseReleases

\* ConvertToExclusive, at once or after a wait.
LEMMA PromiseConverts ==
  ASSUME VInv, NEW t \in Thread, CvtInPlace(t) \/ CvtReturn(t)
  PROVE  Abstract!Next
<1>1. TypeOK /\ IInv /\ ThreadOK(t) /\ Answer(t)
  BY DEF VInv, IInv, Threads
<1>2. OnlyMoves(t) /\ pc'[t] = "held" /\ kind'[t] = "writer" /\ Overtake(t)
  BY <1>1 DEF CvtInPlace, CvtReturn, TypeOK, OnlyMoves
<1>3. \A u \in Thread : On(u, first) => u = t
  <2>1. CASE CvtInPlace(t)
    <3>1. mine[t] = first /\ first \in Queued /\ blk[first].ref = 1 /\ On(t, first)
      BY <1>1, <2>1 DEF ThreadOK, HoldOK, HoldPCs, CvtInPlace, StillAlone, On
    <3> QED BY <1>1, <3>1, CountFacts
  <2>2. CASE CvtReturn(t)
    BY <2>2, NotLed
  <2> QED BY <2>1, <2>2
<1>4. ModeOf(t)' = "exclusive" /\ \A u \in Thread \ {t} : ModeOf(u) \in {"none", "upgrading"}
  BY <1>2, <1>3 DEF ModeOf, HoldPCs, On
<1>5. CASE CvtInPlace(t)
  <2>1. ModeOf(t) = "shared"
    BY <1>1, <1>5 DEF CvtInPlace, ThreadOK, HoldOK, HoldPCs, ModeOf
  <2>2. status' = [status EXCEPT ![t] = "ok"]
    BY <1>1, <1>5 DEF CvtInPlace, Answer, TypeOK
  <2> HIDE DEF ModeOf
  <2> QED BY <1>2, <1>4, <2>1, <2>2, PromiseOwns
<1>6. CASE CvtReturn(t)
  <2>1. ModeOf(t) = "upgrading"
    BY <1>6 DEF CvtReturn, ModeOf
  <2>2. blk[mine[t]].inserted <=> t \in stale
    BY <1>6, NotLed
  <2>3. status' = [status EXCEPT ![t] = IF t \in stale THEN "moreWrites" ELSE "ok"]
    BY <1>6, <2>2 DEF CvtReturn
  <2> HIDE DEF ModeOf
  <2> QED BY <1>2, <1>4, <2>1, <2>3, PromiseOwns
<1> QED BY <1>5, <1>6

LEMMA PromiseInserts ==
  ASSUME VInv, NEW t \in Thread, CvtInsert(t)
  PROVE  Abstract!Next
<1>1. TypeOK /\ ThreadOK(t)
  BY DEF VInv, IInv, Threads
<1>2. OnlyMoves(t) /\ pc[t] = "cvtMany" /\ pc'[t] = "cvtWait" /\ stale' = stale /\ status' = status
  BY <1>1 DEF CvtInsert, TypeOK, OnlyMoves
<1>3. ModeOf(t) = "shared" /\ ModeOf(t)' = "upgrading"
  BY <1>1, <1>2 DEF ModeOf, ThreadOK, HoldOK, HoldPCs
<1> HIDE DEF ModeOf
<1> QED BY <1>2, <1>3, PromiseWaits

LEMMA PromiseLowers ==
  ASSUME VInv, NEW t \in Thread, ShLook(t) \/ ShLast(t) \/ ShJoin(t), ~ ShLooks(t)
  PROVE  Abstract!Next
<1>1. TypeOK /\ ThreadOK(t)
  BY DEF VInv, IInv, Threads
<1>2. /\ OnlyMoves(t) /\ pc[t] \in {"sh", "shLast", "shJoin"} /\ stale' = stale /\ status' = status
      /\ pc'[t] \in {"held", "shSignal"} /\ kind'[t] = "reader"
  <2>1. CASE ShLook(t)
    BY <1>1, <2>1 DEF ShLook, ShLooks, NeedsBlock, TypeOK, OnlyMoves
  <2>2. CASE ShLast(t)
    BY <1>1, <2>2 DEF ShLast, TypeOK, OnlyMoves
  <2>3. CASE ShJoin(t)
    BY <1>1, <2>3 DEF ShJoin, TypeOK, OnlyMoves
  <2> QED BY <2>1, <2>2, <2>3
<1>3. ModeOf(t) = "exclusive" /\ ModeOf(t)' = "shared"
  BY <1>1, <1>2 DEF ModeOf, ThreadOK, HoldOK, HoldPCs
<1> HIDE DEF ModeOf
<1> QED BY <1>2, <1>3, PromiseDowngrades

LEMMA PromiseNext ==
  ASSUME VInv, [Next]_vars
  PROVE  [Abstract!Next]_(Abstract!vars)
<1>1. CASE UNCHANGED vars
  BY <1>1 DEF vars, local, Abstract!vars, ModeOf
<1>2. ASSUME NEW t \in Thread, Step(t) \/ Call(t)
      PROVE  [Abstract!Next]_(Abstract!vars)
  BY <1>2, PromiseQuiet, PromiseTakes, PromiseUnlocks, PromiseConverts, PromiseInserts, PromiseLowers
     DEF Step
<1> QED BY <1>1, <1>2 DEF Next

\* SWMRLock implements the reader/writer lock that its callers are promised:
\* its queue, blocks, counts and events show in nothing that they see.
THEOREM ImplementsHolds == Spec => Implements
<1>1. Init => Abstract!Init
  BY DEF Init, Abstract!Init, ModeOf, HoldPCs
<1>2. VInv /\ [Next]_vars => [Abstract!Next]_(Abstract!vars)
  BY PromiseNext
<1> QED BY <1>1, <1>2, VInvHolds, PTL DEF Spec, Implements, Abstract!Spec
=============================================================================
