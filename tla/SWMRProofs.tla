----------------------------- MODULE SWMRProofs -----------------------------
(***************************************************************************)
(* For any threads and blocks, whatever allocations fail: the queue of     *)
(* SWMRLock keeps its shape, a block counts the threads that rely on it,   *)
(* and an exclusive holder is alone.  Last, no block is lost: what is not  *)
(* in use is in its cache, or free.                                        *)
(*                                                                         *)
(* The parts of the invariant: where blocks are that are not queued, the   *)
(* queue itself, the counts, and what each thread knows at its stage.  A   *)
(* step of one thread keeps what the others know, since a block that they  *)
(* rely on does not change but in its place in the queue.                  *)
(***************************************************************************)
EXTENDS SWMR, Integers, FiniteSetTheorems, TLAPS

WaitPCs == {"wait", "own", "cvtWait"}

\* The thread u relies on the block b, so that b counts it.
On(u, b) ==
  \/ pc[u] \in WaitPCs /\ mine[u] = b
  \/ pc[u] \in HoldPCs /\ first = b

-----------------------------------------------------------------------------
(* Blocks that are not in the queue *)

\* A block in hand is as it was initialized.
InHand(r) ==
  r.type \in Kinds /\ ~ r.own /\ ~ r.inserted /\ r.ref = 1 /\ r.next = NULL

Hands ==
  /\ \A t \in Thread : waiter[t] # NULL => InHand(blk[waiter[t]])
  /\ \A t, u \in Thread : waiter[t] # NULL /\ waiter[t] = waiter[u] => t = u
  /\ \A t \in Thread : cache[t] # NULL =>
       blk[cache[t]].type = "idle" /\ cache[t] # Embedded
  /\ \A t, u \in Thread : cache[t] # NULL /\ cache[t] = cache[u] => t = u
  /\ avail => blk[Embedded].type = "idle"

-----------------------------------------------------------------------------
(* The queue *)

\* The blocks of Q are the chain from f to l.
IsLine(Q, next, f, l) ==
  \E n \in Nat : \E q \in [1..n -> Q] :
    /\ \A b \in Q : \E i \in 1..n : q[i] = b
    /\ \A i, j \in 1..n : q[i] = q[j] => i = j
    /\ n = 0 => l = NULL
    /\ n > 0 => f = q[1] /\ l = q[n]
    /\ \A i \in 1..n : next[q[i]] = IF i = n THEN NULL ELSE q[i + 1]

Nexts == [b \in Block |-> blk[b].next]

Lined == IsLine(Queued, Nexts, first, last)

Marked ==
  /\ tag = IF last = NULL THEN "Free" ELSE LastState(blk[last].type)
  /\ \A b \in Queued : blk[b].own <=> b = first
  /\ \A b \in Queued :
       blk[b].type = "reader" /\ blk[b].next # NULL => blk[blk[b].next].type = "writer"

Counts == RefCountExact

-----------------------------------------------------------------------------
(* Threads *)

Asked(t) == IF pc[t] = "cvtWait" THEN "writer" ELSE kind[t]

\* The block in its hands, if it needs one there, and its event, if it is to
\* wait for it.  Only a block that may go to a cache is to be replaced.
HandOK(t) ==
  /\ pc[t] \in {"idle", "held", "unlock", "wait", "own", "signal", "cvtWait", "shSignal",
                "alloc", "cvtAlloc", "shAlloc"} => waiter[t] = NULL
  /\ pc[t] = "lock" => waiter[t] # NULL \/ JoinsReaders(t, seen[t])
  /\ pc[t] = "cvtMany" => waiter[t] # NULL
  /\ pc[t] = "cvtMany" \/ (pc[t] = "lock" /\ seen[t] # "Free" /\ ~ JoinsReaders(t, seen[t])) =>
       blk[waiter[t]].event # "set"
  /\ pc[t] = "shAlloc" \/ (pc[t] \in {"sh", "shLast", "shJoin"} /\ waiter[t] # NULL) =>
       mine[t] # Embedded
  /\ waiter[t] # NULL =>
       blk[waiter[t]].type = IF pc[t] \in {"cvt", "cvtOne", "cvtMany"} THEN "writer"
                             ELSE IF pc[t] \in {"sh", "shLast", "shJoin"} THEN "reader"
                             ELSE kind[t]

\* The block that it waits for.  The event comes only with the lock.
WaitOK(t) ==
  pc[t] \in WaitPCs =>
    /\ mine[t] \in Queued /\ blk[mine[t]].type = Asked(t)
    /\ pc[t] = "own" \/ blk[mine[t]].event = "set" => blk[mine[t]].own

HoldOK(t) ==
  pc[t] \in HoldPCs =>
    /\ first \in Queued /\ blk[first].type = kind[t]
    /\ pc[t] # "held" => mine[t] = first
    /\ pc[t] \in {"cvt", "cvtAlloc", "cvtOne", "cvtMany", "shSignal"} => kind[t] = "reader"
    /\ pc[t] \in {"sh", "shAlloc", "shLast", "shJoin"} => kind[t] = "writer"
    /\ pc[t] = "shJoin" => blk[first].next # NULL /\ blk[blk[first].next].type = "reader"

\* Somebody still waits for the event that it is about to set.
SignalOK(t) ==
  pc[t] = "signal" =>
    /\ mine[t] \in Queued /\ blk[mine[t]].own /\ blk[mine[t]].event # "set"
    /\ \E u \in Thread : pc[u] \in {"wait", "cvtWait"} /\ mine[u] = mine[t]

Signals ==
  \A t, u \in Thread :
    pc[t] \in {"signal", "shSignal"} /\ pc[u] \in {"signal", "shSignal"} /\ mine[t] = mine[u] => t = u

ThreadOK(t) == HandOK(t) /\ WaitOK(t) /\ HoldOK(t) /\ SignalOK(t)

Threads == (\A t \in Thread : ThreadOK(t)) /\ Signals

IInv == TypeOK /\ Hands /\ Lined /\ Marked /\ Counts /\ Threads

-----------------------------------------------------------------------------
(* Lines *)

\* A line as a numbering of its blocks.
LineBy(Q, next, f, l, n, q) ==
  /\ \A b \in Q : \E i \in 1..n : q[i] = b
  /\ \A i, j \in 1..n : q[i] = q[j] => i = j
  /\ n = 0 => l = NULL
  /\ n > 0 => f = q[1] /\ l = q[n]
  /\ \A i \in 1..n : next[q[i]] = IF i = n THEN NULL ELSE q[i + 1]

LEMMA LineFacts ==
  ASSUME NEW Q, NULL \notin Q, NEW next, NEW f, NEW l, IsLine(Q, next, f, l)
  PROVE  /\ l = NULL <=> Q = {}
         /\ Q # {} => f \in Q /\ l \in Q
         /\ \A b \in Q : next[b] = NULL <=> b = l
         /\ \A b \in Q : next[b] # NULL => next[b] \in Q /\ next[b] # f
         /\ \A a, b \in Q : next[a] = next[b] /\ next[a] # NULL => a = b
         /\ \A b \in Q : b # f => \E a \in Q : next[a] = b
<1>1. PICK n \in Nat : \E q \in [1..n -> Q] : LineBy(Q, next, f, l, n, q)
  BY DEF IsLine, LineBy
<1>2. PICK q \in [1..n -> Q] : LineBy(Q, next, f, l, n, q)
  BY <1>1
<1>3. \A i \in 1..n : q[i] \in Q
  BY <1>2
<1>4. n = 0 <=> Q = {}
  BY <1>2, <1>3 DEF LineBy
<1>5. Q # {} => f \in Q /\ l \in Q
  BY <1>2, <1>3, <1>4 DEF LineBy
<1>6. l = NULL <=> Q = {}
  BY <1>2, <1>4, <1>5 DEF LineBy
<1>7. ASSUME NEW b \in Q
      PROVE  /\ next[b] = NULL <=> b = l
             /\ next[b] # NULL => next[b] \in Q /\ next[b] # f
             /\ b # f => \E a \in Q : next[a] = b
  <2>1. PICK i \in 1..n : q[i] = b
    BY <1>2, <1>7 DEF LineBy
  <2>2. next[b] = IF i = n THEN NULL ELSE q[i + 1]
    BY <1>2, <2>1 DEF LineBy
  <2>3. next[b] = NULL <=> b = l
    <3>1. CASE i = n
      BY <1>2, <2>1, <2>2, <3>1 DEF LineBy
    <3>2. CASE i # n
      <4>1. i + 1 \in 1..n /\ n \in 1..n
        BY <3>2
      <4>2. next[b] \in Q /\ b # l
        BY <1>2, <1>3, <2>1, <2>2, <3>2, <4>1 DEF LineBy
      <4> QED BY <4>2
    <3> QED BY <3>1, <3>2
  <2>4. next[b] # NULL => next[b] \in Q /\ next[b] # f
    <3> SUFFICES ASSUME next[b] # NULL PROVE next[b] \in Q /\ next[b] # f
      OBVIOUS
    <3>1. next[b] = q[i + 1] /\ i + 1 \in 1..n /\ 1 \in 1..n /\ i + 1 # 1
      BY <2>2
    <3> QED BY <1>2, <1>3, <3>1 DEF LineBy
  <2>5. b # f => \E a \in Q : next[a] = b
    <3> SUFFICES ASSUME b # f PROVE \E a \in Q : next[a] = b
      OBVIOUS
    <3>1. i # 1 /\ i - 1 \in 1..n /\ i - 1 # n /\ i - 1 + 1 = i
      BY <1>2, <2>1 DEF LineBy
    <3>2. next[q[i - 1]] = b /\ q[i - 1] \in Q
      BY <1>2, <1>3, <2>1, <3>1 DEF LineBy
    <3> QED BY <3>2
  <2> QED BY <2>3, <2>4, <2>5
<1>8. ASSUME NEW a \in Q, NEW b \in Q, next[a] = next[b], next[a] # NULL
      PROVE  a = b
  <2>1. PICK i \in 1..n : q[i] = a
    BY <1>2, <1>8 DEF LineBy
  <2>2. PICK j \in 1..n : q[j] = b
    BY <1>2, <1>8 DEF LineBy
  <2>3. i # n /\ j # n /\ q[i + 1] = q[j + 1] /\ i + 1 \in 1..n /\ j + 1 \in 1..n
    BY <1>2, <1>8, <2>1, <2>2 DEF LineBy
  <2>4. i + 1 = j + 1
    BY <1>2, <2>3 DEF LineBy
  <2> QED BY <2>1, <2>2, <2>4
<1> QED BY <1>5, <1>6, <1>7, <1>8

LEMMA LineWith ==
  ASSUME NEW Q, NEW next, NEW f, NEW l, NEW n \in Nat, NEW q \in [1..n -> Q],
         LineBy(Q, next, f, l, n, q)
  PROVE  IsLine(Q, next, f, l)
BY DEF IsLine, LineBy

LEMMA LineNone ==
  ASSUME NEW next, NEW f
  PROVE  IsLine({}, next, f, NULL)
<1> DEFINE q == [i \in 1..0 |-> NULL]
<1>1. q \in [1..0 -> {}]
  OBVIOUS
<1>2. LineBy({}, next, f, NULL, 0, q)
  BY DEF LineBy
<1> QED BY <1>1, <1>2, LineWith

LEMMA LineOne ==
  ASSUME NEW w, NEW next, next[w] = NULL
  PROVE  IsLine({w}, next, w, w)
<1> DEFINE q == [i \in 1..1 |-> w]
<1>1. q \in [1..1 -> {w}]
  OBVIOUS
<1>2. LineBy({w}, next, w, w, 1, q)
  BY DEF LineBy
<1> QED BY <1>1, <1>2, LineWith

\* The last block of its line has no successor.
LEMMA LineLast ==
  ASSUME NEW Q, NEW next, NEW f, NEW l, NULL \notin Q, IsLine(Q, next, f, l), Q # {},
         next[f] = NULL
  PROVE  Q = {f}
<1>1. PICK n \in Nat : \E q \in [1..n -> Q] : LineBy(Q, next, f, l, n, q)
  BY DEF IsLine, LineBy
<1>2. PICK q \in [1..n -> Q] : LineBy(Q, next, f, l, n, q)
  BY <1>1
<1>3. n > 0 /\ 1 \in 1..n
  BY <1>2 DEF LineBy
<1>4. n = 1
  <2>1. CASE n > 1
    <3>1. next[f] = q[2] /\ q[2] \in Q
      BY <1>2, <1>3, <2>1 DEF LineBy
    <3> QED BY <3>1
  <2> QED BY <1>3, <2>1
<1>5. \A b \in Q : b = f
  BY <1>2, <1>4 DEF LineBy
<1> QED BY <1>5

LEMMA LineAppend ==
  ASSUME NEW Q, NEW next, NEW f, NEW l, IsLine(Q, next, f, l), Q # {}, NULL \notin Q,
         NEW w, w \notin Q, NEW next2, next2[l] = w, next2[w] = NULL,
         \A b \in Q : b # l => next2[b] = next[b]
  PROVE  IsLine(Q \cup {w}, next2, f, w)
<1>1. PICK n \in Nat : \E q \in [1..n -> Q] : LineBy(Q, next, f, l, n, q)
  BY DEF IsLine, LineBy
<1>2. PICK q \in [1..n -> Q] : LineBy(Q, next, f, l, n, q)
  BY <1>1
<1> DEFINE m == n + 1
           p == [i \in 1..m |-> IF i = m THEN w ELSE q[i]]
<1>3. m \in Nat /\ p \in [1..m -> Q \cup {w}] /\ n > 0
  BY <1>2 DEF LineBy
<1>4. p[m] = w /\ (\A i \in 1..n : p[i] = q[i] /\ q[i] \in Q /\ i \in 1..m /\ i # m) /\ m \in 1..m
      /\ \A i \in 1..m : i = m \/ i \in 1..n
  BY <1>2, <1>3
<1>5. \A i \in 1..n : q[i] = l <=> i = n
  BY <1>2, <1>3 DEF LineBy
<1> HIDE DEF p
<1>6. \A b \in Q \cup {w} : \E i \in 1..m : p[i] = b
  BY <1>2, <1>4 DEF LineBy
<1>7. \A i, j \in 1..m : p[i] = p[j] => i = j
  BY <1>2, <1>4 DEF LineBy
<1>8. \A i \in 1..m : next2[p[i]] = IF i = m THEN NULL ELSE p[i + 1]
  <2> SUFFICES ASSUME NEW i \in 1..m PROVE next2[p[i]] = IF i = m THEN NULL ELSE p[i + 1]
    OBVIOUS
  <2>1. CASE i = m
    BY <1>4, <2>1
  <2>2. CASE i = n
    BY <1>2, <1>3, <1>4, <2>2 DEF LineBy
  <2>3. CASE i # m /\ i # n
    <3>1. i \in 1..n /\ i + 1 \in 1..n /\ q[i] # l
      BY <1>5, <2>3
    <3>2. next2[q[i]] = q[i + 1]
      BY <1>2, <2>3, <3>1 DEF LineBy
    <3> QED BY <1>4, <2>3, <3>1, <3>2
  <2> QED BY <2>1, <2>2, <2>3
<1>9. f = p[1] /\ w = p[m]
  BY <1>2, <1>3, <1>4 DEF LineBy
<1>10. LineBy(Q \cup {w}, next2, f, w, m, p)
  BY <1>3, <1>6, <1>7, <1>8, <1>9 DEF LineBy
<1> QED BY <1>3, <1>10, LineWith

LEMMA LineTail ==
  ASSUME NEW Q, NEW next, NEW f, NEW l, IsLine(Q, next, f, l), Q # {}, NULL \notin Q,
         next[f] # NULL, NEW next2, \A b \in Q : b # f => next2[b] = next[b]
  PROVE  IsLine(Q \ {f}, next2, next[f], l)
<1>1. PICK n \in Nat : \E q \in [1..n -> Q] : LineBy(Q, next, f, l, n, q)
  BY DEF IsLine, LineBy
<1>2. PICK q \in [1..n -> Q] : LineBy(Q, next, f, l, n, q)
  BY <1>1
<1>3. n > 1 /\ next[f] = q[2] /\ f = q[1]
  <2>1. n > 0 /\ f = q[1] /\ 1 \in 1..n
    BY <1>2 DEF LineBy
  <2>2. n # 1
    BY <1>2, <2>1 DEF LineBy
  <2> QED BY <1>2, <2>1, <2>2 DEF LineBy
<1> DEFINE m == n - 1
           p == [i \in 1..m |-> q[i + 1]]
<1>4. \A i \in 1..m : i + 1 \in 1..n /\ p[i] = q[i + 1] /\ q[i + 1] \in Q /\ q[i + 1] # f
  BY <1>2, <1>3 DEF LineBy
<1>5. m \in Nat /\ m > 0 /\ p \in [1..m -> Q \ {f}]
  BY <1>3, <1>4
<1> HIDE DEF p
<1>6. ASSUME NEW b \in Q \ {f} PROVE \E i \in 1..m : p[i] = b
  <2>1. PICK j \in 1..n : q[j] = b
    BY <1>2, <1>6 DEF LineBy
  <2>2. j - 1 \in 1..m /\ (j - 1) + 1 = j
    BY <1>3, <1>6, <2>1
  <2> QED BY <1>4, <2>1, <2>2
<1>7. \A i, j \in 1..m : p[i] = p[j] => i = j
  BY <1>2, <1>4 DEF LineBy
<1>8. \A i \in 1..m : next2[p[i]] = IF i = m THEN NULL ELSE p[i + 1]
  <2> SUFFICES ASSUME NEW i \in 1..m PROVE next2[p[i]] = IF i = m THEN NULL ELSE p[i + 1]
    OBVIOUS
  <2>1. next2[p[i]] = next[q[i + 1]]
    BY <1>4
  <2>2. next[q[i + 1]] = IF i + 1 = n THEN NULL ELSE q[(i + 1) + 1]
    BY <1>2, <1>4 DEF LineBy
  <2>3. i # m => i + 1 \in 1..m
    BY <1>5
  <2> QED BY <1>4, <2>1, <2>2, <2>3
<1>9. next[f] = p[1] /\ l = p[m]
  <2>1. 1 \in 1..m /\ m \in 1..m /\ m + 1 = n /\ 1 + 1 = 2
    BY <1>5
  <2> QED BY <1>2, <1>3, <1>4, <2>1 DEF LineBy
<1>10. LineBy(Q \ {f}, next2, next[f], l, m, p)
  BY <1>5, <1>6, <1>7, <1>8, <1>9 DEF LineBy
<1> QED BY <1>5, <1>10, LineWith

\* A block goes in right behind the first.
LEMMA LineInsert ==
  ASSUME NEW Q, NEW next, NEW f, NEW l, IsLine(Q, next, f, l), Q # {}, NULL \notin Q,
         next[f] # NULL, NEW w, w \notin Q, NEW next2, next2[f] = w, next2[w] = next[f],
         \A b \in Q : b # f => next2[b] = next[b]
  PROVE  IsLine(Q \cup {w}, next2, f, l)
<1>1. PICK n \in Nat : \E q \in [1..n -> Q] : LineBy(Q, next, f, l, n, q)
  BY DEF IsLine, LineBy
<1>2. PICK q \in [1..n -> Q] : LineBy(Q, next, f, l, n, q)
  BY <1>1
<1>3. n > 1 /\ next[f] = q[2] /\ f = q[1]
  <2>1. n > 0 /\ f = q[1] /\ 1 \in 1..n
    BY <1>2 DEF LineBy
  <2>2. n # 1
    BY <1>2, <2>1 DEF LineBy
  <2> QED BY <1>2, <2>1, <2>2 DEF LineBy
<1> DEFINE m == n + 1
           p == [i \in 1..m |-> IF i = 1 THEN f ELSE IF i = 2 THEN w ELSE q[i - 1]]
<1>4. /\ p[1] = f /\ p[2] = w
      /\ \A i \in 1..n : i # 1 => i + 1 \in 1..m /\ p[i + 1] = q[i] /\ q[i] \in Q /\ q[i] # f
  BY <1>2, <1>3 DEF LineBy
<1>5. m \in Nat /\ m > 2 /\ p \in [1..m -> Q \cup {w}] /\ f \in Q
  BY <1>2, <1>3
<1>6. \A i \in 1..m : i = 1 \/ i = 2 \/ (i - 1 \in 1..n /\ i - 1 # 1 /\ p[i] = q[i - 1])
  BY <1>3
<1> HIDE DEF p
<1>7. ASSUME NEW b \in Q \cup {w} PROVE \E i \in 1..m : p[i] = b
  <2>1. CASE b = w
    BY <1>4, <1>5, <2>1
  <2>2. CASE b \in Q
    <3>1. PICK j \in 1..n : q[j] = b
      BY <1>2, <2>2 DEF LineBy
    <3>2. CASE j = 1
      BY <1>3, <1>4, <1>5, <3>1, <3>2
    <3>3. CASE j # 1
      BY <1>4, <3>1, <3>3
    <3> QED BY <3>2, <3>3
  <2> QED BY <2>1, <2>2
<1>8. ASSUME NEW i \in 1..m, NEW j \in 1..m, p[i] = p[j] PROVE i = j
  <2>1. \A k \in 1..m : k # 1 /\ k # 2 => p[k] = q[k - 1] /\ k - 1 \in 1..n /\ p[k] \in Q /\ p[k] # f
    BY <1>2, <1>4, <1>6
  <2>2. CASE i = 1 \/ i = 2 \/ j = 1 \/ j = 2
    <3>1. w # f /\ i \in Nat /\ j \in Nat
      BY <1>5
    <3>2. \A k \in 1..m : (k = 1 <=> p[k] = f) /\ (k = 2 <=> p[k] = w)
      <4> SUFFICES ASSUME NEW k \in 1..m
                   PROVE  (k = 1 <=> p[k] = f) /\ (k = 2 <=> p[k] = w)
        OBVIOUS
      <4>1. CASE k = 1 \/ k = 2
        BY <1>4, <3>1, <4>1
      <4>2. CASE k # 1 /\ k # 2
        BY <2>1, <4>2
      <4> QED BY <4>1, <4>2
    <3> QED BY <1>8, <2>2, <3>2
  <2>3. CASE ~ (i = 1 \/ i = 2 \/ j = 1 \/ j = 2)
    <3>1. q[i - 1] = q[j - 1] /\ i - 1 \in 1..n /\ j - 1 \in 1..n
      BY <1>8, <2>1, <2>3
    <3>2. i - 1 = j - 1
      BY <1>2, <3>1 DEF LineBy
    <3> QED BY <3>2
  <2> QED BY <2>2, <2>3
<1>9. \A i \in 1..m : next2[p[i]] = IF i = m THEN NULL ELSE p[i + 1]
  <2> SUFFICES ASSUME NEW i \in 1..m PROVE next2[p[i]] = IF i = m THEN NULL ELSE p[i + 1]
    OBVIOUS
  <2>1. CASE i = 1
    BY <1>4, <1>5, <2>1
  <2>2. CASE i = 2
    <3>1. 2 \in 1..n /\ 2 # 1 /\ 2 + 1 = 3
      BY <1>3
    <3>2. p[3] = q[2]
      BY <1>4, <3>1
    <3> QED BY <1>3, <1>4, <1>5, <2>2, <3>2
  <2>3. CASE i # 1 /\ i # 2
    <3> DEFINE k == i - 1
    <3>1. k \in 1..n /\ k # 1 /\ p[i] = q[k] /\ q[k] \in Q /\ q[k] # f
      BY <1>4, <1>6, <2>3
    <3>2. next2[p[i]] = IF k = n THEN NULL ELSE q[k + 1]
      BY <1>2, <3>1 DEF LineBy
    <3>3. k # n => k + 1 \in 1..n /\ k + 1 # 1 /\ (k + 1) + 1 = i + 1
      BY <3>1
    <3>4. k # n => p[i + 1] = q[k + 1]
      <4> HIDE DEF k
      <4> QED BY <1>4, <3>3
    <3>5. k = n <=> i = m
      OBVIOUS
    <3> QED BY <3>2, <3>4, <3>5
  <2> QED BY <2>1, <2>2, <2>3
<1>10. l = p[m]
  <2>1. n \in 1..n /\ n # 1 /\ l = q[n]
    BY <1>2, <1>3 DEF LineBy
  <2> QED BY <1>4, <2>1
<1>11. LineBy(Q \cup {w}, next2, f, l, m, p)
  BY <1>4, <1>5, <1>7, <1>8, <1>9, <1>10 DEF LineBy
<1> QED BY <1>5, <1>11, LineWith

LEMMA LineSame ==
  ASSUME NEW Q, NEW next, NEW f, NEW l, IsLine(Q, next, f, l),
         NEW next2, \A b \in Q : next2[b] = next[b]
  PROVE  IsLine(Q, next2, f, l)
<1>1. PICK n \in Nat : \E q \in [1..n -> Q] : LineBy(Q, next, f, l, n, q)
  BY DEF IsLine, LineBy
<1>2. PICK q \in [1..n -> Q] : LineBy(Q, next, f, l, n, q)
  BY <1>1
<1>3. LineBy(Q, next2, f, l, n, q)
  BY <1>2 DEF LineBy
<1> QED BY <1>3, LineWith

-----------------------------------------------------------------------------
(* Counting *)

LEMMA CountedFinite ==
  ASSUME NEW b
  PROVE  IsFiniteSet(Counted(b)) /\ Counted(b) = {u \in Thread : On(u, b)}
         /\ Cardinality(Counted(b)) \in Nat
<1>1. Counted(b) = {u \in Thread : On(u, b)}
  BY DEF Counted, On, WaitPCs
<1>2. IsFiniteSet(Counted(b))
  BY <1>1, FS_Subset, SWMRAssumption
<1> QED BY <1>1, <1>2, FS_CardinalityType

\* What the threads in A number, each of them, and one of them more or less.
LEMMA SizeMore ==
  ASSUME NEW A, NEW B, IsFiniteSet(A), NEW t, t \notin A, B = A \cup {t}
  PROVE  Cardinality(B) = Cardinality(A) + 1
BY FS_AddElement

LEMMA SizeLess ==
  ASSUME NEW A, NEW B, IsFiniteSet(A), NEW t \in A, B = A \ {t}
  PROVE  Cardinality(B) = Cardinality(A) - 1
BY FS_RemoveElement

LEMMA SizeOne ==
  ASSUME NEW A, IsFiniteSet(A), Cardinality(A) = 1, NEW t \in A, NEW u \in A
  PROVE  u = t
BY FS_Singleton

LEMMA SizeSome ==
  ASSUME NEW A, IsFiniteSet(A), Cardinality(A) > 0
  PROVE  \E u \in A : TRUE
BY FS_EmptySet

-----------------------------------------------------------------------------
(* What the invariant says of the queue and of the holders *)

NoBlock == NULL \notin Block

LEMMA NullNoBlock == NoBlock
BY SWMRAssumption DEF NoBlock, Block

QueueOK ==
  /\ last = NULL <=> Queued = {}
  /\ Queued # {} => first \in Queued /\ last \in Queued
  /\ \A b \in Queued : blk[b].next = NULL <=> b = last
  /\ \A b \in Queued : blk[b].next # NULL => blk[b].next \in Queued /\ blk[b].next # first
  /\ \A a, b \in Queued : blk[a].next = blk[b].next /\ blk[a].next # NULL => a = b
  /\ \A b \in Queued : b # first => \E a \in Queued : blk[a].next = b

LEMMA QueueFacts ==
  ASSUME Lined
  PROVE  QueueOK
<1>1. Queued \subseteq Block /\ NULL \notin Queued
  BY NullNoBlock DEF Queued, NoBlock
<1>2. \A b \in Queued : Nexts[b] = blk[b].next
  BY <1>1 DEF Nexts
<1>3. /\ last = NULL <=> Queued = {}
      /\ Queued # {} => first \in Queued /\ last \in Queued
      /\ \A b \in Queued : Nexts[b] = NULL <=> b = last
      /\ \A b \in Queued : Nexts[b] # NULL => Nexts[b] \in Queued /\ Nexts[b] # first
      /\ \A a, b \in Queued : Nexts[a] = Nexts[b] /\ Nexts[a] # NULL => a = b
      /\ \A b \in Queued : b # first => \E a \in Queued : Nexts[a] = b
  <2> HIDE DEF Queued, Nexts
  <2> QED BY <1>1, LineFacts DEF Lined
<1> QED BY <1>2, <1>3 DEF QueueOK

\* The threads that rely on a block of the queue number its RefCount.
LEMMA CountFacts ==
  ASSUME IInv, NEW b \in Queued
  PROVE  /\ \E u \in Thread : On(u, b)
         /\ blk[b].ref = 1 => \A u, v \in Thread : On(u, b) /\ On(v, b) => u = v
         /\ blk[b].type = "writer" => blk[b].ref = 1
         /\ blk[b].ref \in Nat /\ blk[b].ref > 0
<1>1. blk[b].ref = Cardinality(Counted(b)) /\ blk[b].ref > 0
      /\ (blk[b].type = "writer" => blk[b].ref = 1)
  BY DEF IInv, Counts, RefCountExact
<1>2. IsFiniteSet(Counted(b)) /\ Counted(b) = {u \in Thread : On(u, b)}
      /\ Cardinality(Counted(b)) \in Nat
  BY CountedFinite
<1>3. \E u \in Counted(b) : TRUE
  BY <1>1, <1>2, SizeSome
<1>4. blk[b].ref = 1 => \A u, v \in Counted(b) : u = v
  BY <1>1, <1>2, SizeOne
<1> QED BY <1>1, <1>2, <1>3, <1>4

\* An exclusive holder is alone on the first block, and the first block is the
\* only one that owns the lock.
LEMMA HoldFacts ==
  ASSUME IInv, NEW t \in Thread, pc[t] \in HoldPCs
  PROVE  /\ first \in Queued /\ blk[first].type = kind[t] /\ blk[first].own
         /\ kind[t] = "writer" => \A u \in Thread : On(u, first) => u = t
         /\ blk[first].ref = 1 => \A u \in Thread : On(u, first) => u = t
<1>1. first \in Queued /\ blk[first].type = kind[t]
  BY DEF IInv, Threads, ThreadOK, HoldOK
<1>2. blk[first].own
  BY <1>1 DEF IInv, Marked
<1>3. On(t, first)
  BY DEF On
<1> QED BY <1>1, <1>2, <1>3, CountFacts

-----------------------------------------------------------------------------
(* Where blocks are *)

LEMMA FreshFacts ==
  ASSUME NEW type \in BlockKinds, NEW event \in Events
  PROVE  /\ Fresh(type, event) \in Waiters
         /\ Fresh(type, event).type = type /\ Fresh(type, event).event = event
         /\ ~ Fresh(type, event).own /\ ~ Fresh(type, event).inserted
         /\ Fresh(type, event).ref = 1 /\ Fresh(type, event).next = NULL
BY DEF Fresh, Waiters

\* The step of t leaves what the others have in hand.
Elsewhere(t) == \A u \in Thread \ {t} : waiter'[u] = waiter[u]

\* A block is given back with StoreOrFreeSpareWaiter.
LEMMA HandsSpared ==
  ASSUME TypeOK, Hands, NEW t \in Thread,
         NEW q \in [Block -> Waiters], NEW b \in Block \cup {NULL}, NEW c \in Block \cup {NULL},
         StoreOrFree(t, q, b, c),
         \A x \in Block : x \notin Queued => q[x] = blk[x],
         \A x \in Queued : q[x].type \in Kinds,
         \A x \in {b, c} : x # NULL =>
           blk[x].type \in Kinds /\ \A u \in Thread \ {t} : waiter[u] # x,
         Elsewhere(t), waiter'[t] = NULL, waiter[t] \in {b, c, NULL}
  PROVE  /\ blk' \in [Block -> Waiters] /\ cache' \in [Thread -> Block \cup {NULL}]
         /\ avail' \in BOOLEAN
         /\ Hands' /\ Queued' = Queued \ {b, c}
         /\ \A x \in Block \ {b, c} : blk'[x] = q[x]
<1> DEFINE kept == Kept(t, b, c)
<1>1. /\ cache' = [cache EXCEPT ![t] = IF kept \in {NULL, t} THEN @ ELSE kept]
      /\ avail' = (avail \/ Embedded \in {b, c})
      /\ \A x \in Block \ {b, c} : blk'[x] = q[x]
      /\ \A x \in Block : x \in {b, c} =>
           blk'[x] = IF x \notin {kept, Embedded} THEN Fresh("free", "none")
                     ELSE Fresh(IF x = t THEN "home" ELSE "idle", q[x].event)
      /\ DOMAIN blk' = Block /\ blk' = [x \in Block |-> blk'[x]]
  BY DEF StoreOrFree, ReturnsEmbedded
<1>2. kept # NULL => kept \in {b, c} /\ kept # Embedded /\ (kept = t \/ cache[t] = NULL)
  BY DEF Kept, ToCache
<1> HIDE DEF kept
<1>3. \A x \in Block : q[x].event \in Events
  BY DEF Waiters
<1>4. Embedded \in Block
  BY DEF Block
<1>5. \A x \in Block : x \in {b, c} =>
        /\ blk'[x] \in Waiters
        /\ blk'[x].type = IF x \notin {kept, Embedded} THEN "free"
                          ELSE IF x = t THEN "home" ELSE "idle"
  BY <1>1, <1>3, FreshFacts DEF BlockKinds, Events
<1>6. blk' \in [Block -> Waiters]
  <2>1. \A x \in Block : blk'[x] \in Waiters
    BY <1>1, <1>5
  <2> QED BY <1>1, <2>1
<1>7. cache' \in [Thread -> Block \cup {NULL}]
  BY <1>1, <1>2 DEF TypeOK
<1>8. avail' \in BOOLEAN
  BY <1>1 DEF TypeOK
<1>9. \A u \in Thread : waiter'[u] # NULL =>
        u # t /\ waiter'[u] = waiter[u] /\ waiter[u] \in Block /\ waiter[u] \notin {b, c}
        /\ waiter[u] \notin Queued
  BY DEF Elsewhere, TypeOK, Queued
<1>10. Queued' = Queued \ {b, c}
  <2>1. ASSUME NEW x \in Queued', x \in {b, c} PROVE FALSE
    <3>1. x \in Block /\ blk'[x].type \in Kinds
      BY <2>1 DEF Queued
    <3> QED BY <1>5, <2>1, <3>1 DEF Kinds
  <2>2. ASSUME NEW x \in Queued', x \notin {b, c} PROVE x \in Queued
    <3>1. x \in Block /\ q[x].type \in Kinds /\ \A u \in Thread : waiter'[u] # x
      BY <1>1, <2>2 DEF Queued
    <3>2. \A u \in Thread : waiter[u] # x
      BY <2>2, <3>1, NullNoBlock DEF Elsewhere, NoBlock
    <3> QED BY <3>1, <3>2 DEF Queued
  <2>3. ASSUME NEW x \in Queued, x \notin {b, c} PROVE x \in Queued'
    <3>1. x \in Block /\ blk'[x].type \in Kinds
      BY <1>1, <2>3 DEF Queued
    <3>2. \A u \in Thread : waiter'[u] # x
      BY <1>9, <2>3, <3>1, NullNoBlock DEF NoBlock
    <3> QED BY <3>1, <3>2 DEF Queued
  <2> QED BY <2>1, <2>2, <2>3
<1>11. Hands'
  <2>1. \A u \in Thread : waiter'[u] # NULL => InHand(blk'[waiter'[u]])
    BY <1>1, <1>9 DEF Hands, InHand
  <2>2. \A u, v \in Thread : waiter'[u] # NULL /\ waiter'[u] = waiter'[v] => u = v
    BY <1>9 DEF Hands
  <2>3. \A u \in Thread : cache[u] # NULL =>
          cache[u] \in Block /\ cache[u] # Embedded /\ cache[u] \notin {b, c} /\ blk'[cache[u]].type = "idle"
    BY <1>1 DEF Hands, TypeOK, Queued, Kinds
  <2>4. \A u \in Thread : cache'[u] # NULL =>
          \/ cache'[u] = cache[u]
          \/ u = t /\ cache'[u] = kept /\ kept \notin {NULL, t}
    BY <1>1 DEF TypeOK
  <2>5. kept \notin {NULL, t} =>
          kept \in Block /\ kept \in {b, c} /\ kept # Embedded /\ blk'[kept].type = "idle"
    BY <1>2, <1>5
  <2>6. \A u \in Thread : cache'[u] # NULL => blk'[cache'[u]].type = "idle" /\ cache'[u] # Embedded
    BY <2>3, <2>4, <2>5
  <2>7. \A u, v \in Thread : cache'[u] # NULL /\ cache'[u] = cache'[v] => u = v
    BY <2>3, <2>4, <2>5 DEF Hands
  <2>8. avail' => blk'[Embedded].type = "idle"
    <3>1. CASE Embedded \in {b, c}
      BY <1>4, <1>5, <3>1, SWMRAssumption
    <3>2. CASE Embedded \notin {b, c} /\ avail'
      <4>1. avail /\ blk'[Embedded] = q[Embedded]
        BY <1>1, <1>4, <3>2
      <4>2. blk[Embedded].type = "idle"
        BY <4>1 DEF Hands
      <4>3. Embedded \notin Queued
        BY <4>2 DEF Queued, Kinds
      <4> QED BY <1>4, <4>1, <4>2, <4>3
    <3> QED BY <3>1, <3>2
  <2> QED BY <2>1, <2>2, <2>6, <2>7, <2>8 DEF Hands
<1> QED BY <1>1, <1>6, <1>7, <1>8, <1>10, <1>11

\* A block of the queue is given back alone.
LEMMA SpareOne ==
  ASSUME TypeOK, NEW t \in Thread, NEW q \in [Block -> Waiters],
         NEW f \in Block, f # Embedded, StoreOrFree(t, q, f, NULL)
  PROVE  /\ avail' = avail /\ blk' \in [Block -> Waiters] /\ blk'[f].type \notin Kinds
         /\ \A x \in Block \ {f} : blk'[x] = q[x]
         /\ \/ cache' = cache
            \/ /\ cache' = [cache EXCEPT ![t] = f] /\ cache[t] = NULL /\ f # t
               /\ blk'[f].type = "idle"
<1> DEFINE kept == Kept(t, f, NULL)
<1>1. /\ cache' = [cache EXCEPT ![t] = IF kept \in {NULL, t} THEN @ ELSE kept]
      /\ avail' = (avail \/ Embedded \in {f, NULL})
      /\ blk' = [x \in Block |->
           IF x \in {f, NULL}
           THEN IF x \notin {kept, Embedded} THEN Fresh("free", "none")
                ELSE Fresh(IF x = t THEN "home" ELSE "idle", q[x].event)
           ELSE q[x]]
  BY DEF StoreOrFree, ReturnsEmbedded
<1>2. NULL \notin Block /\ Embedded # NULL /\ q[f].event \in Events
  BY SWMRAssumption DEF Block, Waiters
<1>3. kept = NULL \/ (kept = f /\ (f = t \/ cache[t] = NULL))
  BY <1>2 DEF Kept, ToCache
<1> HIDE DEF kept
<1>4. avail' = avail
  <2>1. avail \in BOOLEAN /\ Embedded \notin {f, NULL}
    BY <1>2 DEF TypeOK
  <2> QED BY <1>1, <2>1
<1>5. blk'[f] = IF kept # f THEN Fresh("free", "none")
                ELSE Fresh(IF f = t THEN "home" ELSE "idle", q[f].event)
  BY <1>1
<1>6. /\ blk'[f] \in Waiters
      /\ blk'[f].type = IF kept # f THEN "free" ELSE IF f = t THEN "home" ELSE "idle"
  <2>1. "none" \in Events /\ {"free", "home", "idle"} \subseteq BlockKinds
    BY DEF Events, BlockKinds
  <2>2. CASE kept # f
    BY <1>5, <2>1, <2>2, FreshFacts
  <2>3. CASE kept = f /\ f = t
    BY <1>2, <1>5, <2>1, <2>3, FreshFacts
  <2>4. CASE kept = f /\ f # t
    BY <1>2, <1>5, <2>1, <2>4, FreshFacts
  <2> QED BY <2>2, <2>3, <2>4
<1>7. \A x \in Block \ {f} : blk'[x] = q[x]
  BY <1>1, <1>2
<1>8. blk' \in [Block -> Waiters]
  <2>1. \A x \in Block : blk'[x] \in Waiters
    BY <1>6, <1>7
  <2>2. blk' = [x \in Block |-> blk'[x]]
    BY <1>1
  <2> QED BY <2>1, <2>2
<1>9. kept \in {NULL, t} => cache' = cache
  BY <1>1 DEF TypeOK
<1> QED BY <1>1, <1>2, <1>3, <1>4, <1>6, <1>7, <1>8, <1>9 DEF Kinds

\* Blocks change hands only into the queue, or an event is made ready.
LEMMA HandsSame ==
  ASSUME TypeOK, Hands, NEW t \in Thread, Elsewhere(t),
         waiter'[t] \in {waiter[t], NULL}, UNCHANGED <<cache, avail>>,
         \A x \in Block : x \notin Queued /\ x # waiter[t] => blk'[x] = blk[x],
         waiter'[t] # NULL => InHand(blk'[waiter'[t]])
  PROVE  Hands'
<1>1. \A u \in Thread : u # t /\ waiter[u] # NULL =>
        waiter'[u] = waiter[u] /\ waiter[u] \in Block /\ blk'[waiter[u]] = blk[waiter[u]]
  BY DEF Elsewhere, TypeOK, Queued, Hands
<1>2. \A u \in Thread : waiter'[u] # NULL => InHand(blk'[waiter'[u]])
  <2> SUFFICES ASSUME NEW u \in Thread, waiter'[u] # NULL PROVE InHand(blk'[waiter'[u]])
    OBVIOUS
  <2>1. CASE u = t
    BY <2>1
  <2>2. CASE u # t
    BY <1>1, <2>2 DEF Hands, InHand, Elsewhere
  <2> QED BY <2>1, <2>2
<1>3. \A u, v \in Thread : waiter'[u] # NULL /\ waiter'[u] = waiter'[v] => u = v
  BY DEF Hands, Elsewhere
<1>4. \A x \in Block : blk[x].type = "idle" => x \notin Queued /\ x # waiter[t] /\ blk'[x] = blk[x]
  <2>1. \A x \in Block : blk[x].type = "idle" => x \notin Queued
    BY DEF Queued, Kinds
  <2>2. \A x \in Block : blk[x].type = "idle" => x # waiter[t]
    BY NullNoBlock DEF Hands, InHand, Kinds, NoBlock
  <2> QED BY <2>1, <2>2
<1>5. \A u \in Thread : cache[u] # NULL => cache[u] \in Block
  BY DEF TypeOK
<1>6. Embedded \in Block
  BY DEF Block
<1> QED BY <1>2, <1>3, <1>4, <1>5, <1>6 DEF Hands

\* A block that was neither queued nor in a hand comes into the hand of t.
LEMMA HandsTaken ==
  ASSUME TypeOK, Hands, NEW t \in Thread, Elsewhere(t), waiter[t] = NULL,
         NEW w \in Block, waiter'[t] = w, InHand(blk'[w]), blk[w].type \notin Kinds,
         \A x \in Block \ {w} : blk'[x] = blk[x],
         \A u \in Thread : cache'[u] # NULL => cache'[u] = cache[u] /\ cache[u] # w,
         avail' => avail /\ w # Embedded
  PROVE  Hands' /\ Queued' = Queued /\ \A x \in Queued : blk'[x] = blk[x]
<1>1. \A u \in Thread : waiter[u] # NULL => waiter[u] # w /\ waiter[u] \in Block
  BY DEF Hands, InHand, TypeOK
<1>2. \A u \in Thread : waiter'[u] # NULL => InHand(blk'[waiter'[u]])
  <2> SUFFICES ASSUME NEW u \in Thread, waiter'[u] # NULL PROVE InHand(blk'[waiter'[u]])
    OBVIOUS
  <2>1. CASE u = t
    BY <2>1
  <2>2. CASE u # t
    BY <1>1, <2>2 DEF Hands, InHand, Elsewhere
  <2> QED BY <2>1, <2>2
<1>3. \A u, v \in Thread : waiter'[u] # NULL /\ waiter'[u] = waiter'[v] => u = v
  BY <1>1 DEF Hands, Elsewhere
<1>4. \A u \in Thread : cache'[u] # NULL => cache'[u] = cache[u] /\ cache[u] \in Block /\ blk'[cache[u]] = blk[cache[u]]
  BY DEF TypeOK
<1>5. avail' => blk'[Embedded] = blk[Embedded]
  BY DEF Block
<1>6. Hands'
  BY <1>2, <1>3, <1>4, <1>5 DEF Hands
<1>7. \A x \in Block : x # w => (\A u \in Thread : waiter'[u] # x) <=> (\A u \in Thread : waiter[u] # x)
  BY NullNoBlock DEF Elsewhere, NoBlock
<1>8. w \notin Queued /\ w \notin Queued'
  BY DEF Queued
<1>9. Queued' = Queued
  BY <1>7, <1>8 DEF Queued
<1> QED BY <1>6, <1>8, <1>9 DEF Queued

\* AllocateWaiter gives t a block or nothing; no other block changes.
LEMMA Allocated ==
  ASSUME TypeOK, Hands, NEW t \in Thread, waiter[t] = NULL, NEW type \in Kinds,
         NEW needed \in BOOLEAN, NEW success, NEW failure, pc[t] # failure,
         AllocateWaiter(t, type, needed, success, failure), UNCHANGED cache
  PROVE  /\ blk' \in [Block -> Waiters] /\ waiter' \in [Thread -> Block \cup {NULL}]
         /\ avail' \in BOOLEAN /\ status' \in [Thread -> {"ok", "moreWrites", "noMemory"}]
         /\ Elsewhere(t)
         /\ \/ /\ pc' = [pc EXCEPT ![t] = success]
               /\ waiter'[t] # NULL /\ blk'[waiter'[t]].type = type
               /\ needed => blk'[waiter'[t]].event = "reset"
            \/ /\ pc' = [pc EXCEPT ![t] = failure] /\ UNCHANGED <<blk, waiter>>
         /\ Hands' /\ Queued' = Queued /\ \A x \in Queued : blk'[x] = blk[x]
         /\ \A u \in Thread : waiter[u] # NULL => blk'[waiter[u]] = blk[waiter[u]]
<1>1. CASE \E b \in {NewBlock, Embedded} :
             /\ b # NULL /\ (b = Embedded => avail)
             /\ avail' = (avail /\ b # Embedded)
             /\ blk' = [blk EXCEPT ![b] = Fresh(type, Armed(b, needed))]
             /\ waiter' = [waiter EXCEPT ![t] = b]
             /\ pc' = [pc EXCEPT ![t] = success]
             /\ UNCHANGED status
  <2>1. PICK b \in {NewBlock, Embedded} :
             /\ b # NULL /\ (b = Embedded => avail)
             /\ avail' = (avail /\ b # Embedded)
             /\ blk' = [blk EXCEPT ![b] = Fresh(type, Armed(b, needed))]
             /\ waiter' = [waiter EXCEPT ![t] = b]
             /\ pc' = [pc EXCEPT ![t] = success]
             /\ UNCHANGED status
    BY <1>1
  <2>2. NewBlock # NULL => NewBlock \in FreeBlocks
    BY DEF NewBlock
  <2>3. b \in Block /\ blk[b].type \in {"free", "idle"} /\ (b # Embedded => blk[b].type = "free")
    BY <2>1, <2>2 DEF FreeBlocks, Block, Hands
  <2>4. Armed(b, needed) \in Events
    BY <2>3 DEF Armed, Events, TypeOK, Waiters
  <2>5. blk'[b] = Fresh(type, Armed(b, needed)) /\ \A x \in Block \ {b} : blk'[x] = blk[x]
    BY <2>1, <2>3 DEF TypeOK
  <2>6. blk'[b] \in Waiters /\ InHand(blk'[b]) /\ blk'[b].type = type
        /\ (needed => blk'[b].event = "reset")
    <3>1. type \in BlockKinds /\ (needed => Armed(b, needed) = "reset")
      BY DEF BlockKinds, Armed
    <3> DEFINE r == Fresh(type, Armed(b, needed))
    <3>2. /\ r \in Waiters /\ r.type = type /\ r.event = Armed(b, needed)
          /\ ~ r.own /\ ~ r.inserted /\ r.ref = 1 /\ r.next = NULL
      BY <2>4, <3>1, FreshFacts
    <3>3. blk'[b] = r
      BY <2>5
    <3> HIDE DEF r
    <3> QED BY <3>1, <3>2, <3>3 DEF InHand
  <2>7. blk' \in [Block -> Waiters]
    BY <2>1, <2>5, <2>6 DEF TypeOK
  <2>8. waiter'[t] = b /\ Elsewhere(t) /\ waiter' \in [Thread -> Block \cup {NULL}]
    BY <2>1, <2>3 DEF TypeOK, Elsewhere
  <2>9. \A u \in Thread : cache'[u] # NULL => cache'[u] = cache[u] /\ cache[u] # b
    BY <2>3 DEF Hands
  <2>10. avail' => avail /\ b # Embedded
    BY <2>1 DEF TypeOK
  <2>11. Hands' /\ Queued' = Queued /\ \A x \in Queued : blk'[x] = blk[x]
    <3>1. blk[b].type \notin Kinds
      BY <2>3 DEF Kinds
    <3> QED BY <2>3, <2>5, <2>6, <2>8, <2>9, <2>10, <3>1, HandsTaken
  <2>12. avail' \in BOOLEAN /\ status' \in [Thread -> {"ok", "moreWrites", "noMemory"}]
    BY <2>1 DEF TypeOK
  <2>13. \A u \in Thread : waiter[u] # NULL => blk'[waiter[u]] = blk[waiter[u]]
    BY <2>3, <2>5 DEF Hands, InHand, Kinds, TypeOK
  <2> QED BY <2>1, <2>6, <2>7, <2>8, <2>11, <2>12, <2>13
<1>2. CASE /\ \/ avail' = FALSE
              \/ UNCHANGED avail
           /\ status' = [status EXCEPT ![t] = "noMemory"]
           /\ pc' = [pc EXCEPT ![t] = failure]
           /\ UNCHANGED <<blk, waiter>>
  <2>1. avail' \in BOOLEAN /\ (avail' => avail)
    <3>1. avail \in BOOLEAN
      BY DEF TypeOK
    <3>2. CASE avail' = FALSE
      BY <3>2
    <3>3. CASE avail' = avail
      BY <3>1, <3>3
    <3> QED BY <1>2, <3>2, <3>3
  <2>2. status' \in [Thread -> {"ok", "moreWrites", "noMemory"}]
    BY <1>2 DEF TypeOK
  <2>3. Hands' /\ Queued' = Queued /\ \A x \in Queued : blk'[x] = blk[x]
    BY <1>2, <2>1 DEF Hands, Queued
  <2> QED BY <1>2, <2>1, <2>2, <2>3 DEF Elsewhere, TypeOK
<1> QED BY <1>1, <1>2 DEF AllocateWaiter

-----------------------------------------------------------------------------
(* What a step of t leaves the other threads *)

\* The locals of the other threads.
Apart(t) ==
  \A u \in Thread \ {t} :
    /\ pc'[u] = pc[u] /\ kind'[u] = kind[u] /\ waiter'[u] = waiter[u]
    /\ mine'[u] = mine[u] /\ seen'[u] = seen[u]

\* A block that others rely on.  Its event is set only by the one thread that
\* has to.
Stays(t, b) ==
  /\ b \in Queued' /\ blk'[b].type = blk[b].type /\ (blk[b].own => blk'[b].own)
  /\ \/ blk'[b].event = blk[b].event
     \/ blk[b].own /\ pc[t] \in {"signal", "shSignal"} /\ mine[t] = b

SignalPCs == {"signal", "shSignal"}

LEMMA OthersKept ==
  ASSUME IInv, NEW t \in Thread, Apart(t),
         pc[t] \in {"wait", "cvtWait"} => blk[mine[t]].event = "set",
         \A u \in Thread \ {t} : waiter[u] # NULL => blk'[waiter[u]] = blk[waiter[u]],
         \A b \in Queued : (\E u \in Thread \ {t} : On(u, b)) => Stays(t, b),
         (\E u \in Thread \ {t} : pc[u] \in HoldPCs) => first' = first,
         \A u \in Thread \ {t} : pc[u] = "shJoin" =>
           blk'[first].next = blk[first].next /\ blk'[blk[first].next].type = blk[blk[first].next].type,
         pc'[t] \in SignalPCs =>
           \A u \in Thread \ {t} : pc[u] \in SignalPCs => mine[u] # mine'[t]
  PROVE  (\A u \in Thread \ {t} : ThreadOK(u)') /\ Signals'
<1>1. ASSUME NEW u \in Thread \ {t} PROVE ThreadOK(u)'
  <2>1. /\ pc'[u] = pc[u] /\ kind'[u] = kind[u] /\ waiter'[u] = waiter[u]
        /\ mine'[u] = mine[u] /\ seen'[u] = seen[u]
    BY <1>1 DEF Apart
  <2>2. ThreadOK(u)
    BY <1>1 DEF IInv, Threads
  <2>3. HandOK(u)'
    BY <1>1, <2>1, <2>2 DEF ThreadOK, HandOK, JoinsReaders
  <2>4. WaitOK(u)'
    <3> SUFFICES ASSUME pc[u] \in WaitPCs PROVE WaitOK(u)'
      BY <2>1 DEF WaitOK
    <3>1. mine[u] \in Queued /\ On(u, mine[u])
      BY <2>2 DEF ThreadOK, WaitOK, On
    <3>2. Stays(t, mine[u])
      BY <1>1, <3>1
    <3> QED BY <2>1, <2>2, <3>1, <3>2 DEF ThreadOK, WaitOK, Stays, Asked
  <2>5. HoldOK(u)'
    <3> SUFFICES ASSUME pc[u] \in HoldPCs PROVE HoldOK(u)'
      BY <2>1 DEF HoldOK
    <3>1. first \in Queued /\ On(u, first) /\ first' = first
      BY <1>1, <2>2 DEF ThreadOK, HoldOK, On
    <3>2. Stays(t, first)
      BY <1>1, <3>1
    <3>3. pc[u] = "shJoin" =>
            blk'[first].next = blk[first].next /\ blk'[blk[first].next].type = blk[blk[first].next].type
      BY <1>1
    <3> QED BY <2>1, <2>2, <3>1, <3>2, <3>3 DEF ThreadOK, HoldOK, Stays
  <2>6. SignalOK(u)'
    <3> SUFFICES ASSUME pc[u] = "signal" PROVE SignalOK(u)'
      BY <2>1 DEF SignalOK
    <3>1. mine[u] \in Queued /\ blk[mine[u]].own /\ blk[mine[u]].event # "set"
      BY <2>2 DEF ThreadOK, SignalOK
    <3>2. PICK v \in Thread : pc[v] \in {"wait", "cvtWait"} /\ mine[v] = mine[u]
      BY <2>2 DEF ThreadOK, SignalOK
    <3>3. v # t /\ On(v, mine[u])
      BY <3>1, <3>2 DEF On, WaitPCs
    <3>4. Stays(t, mine[u])
      BY <3>1, <3>3
    <3>5. ~ (pc[t] \in {"signal", "shSignal"} /\ mine[t] = mine[u])
      BY <1>1 DEF IInv, Threads, Signals
    <3>6. pc'[v] = pc[v] /\ mine'[v] = mine[v]
      BY <3>3 DEF Apart
    <3> QED BY <2>1, <3>1, <3>2, <3>4, <3>5, <3>6 DEF SignalOK, Stays
  <2> QED BY <2>3, <2>4, <2>5, <2>6 DEF ThreadOK
<1>2. Signals'
  <2> SUFFICES ASSUME NEW u \in Thread, NEW v \in Thread, pc'[u] \in SignalPCs, pc'[v] \in SignalPCs,
                      mine'[u] = mine'[v]
               PROVE  u = v
    BY DEF Signals, SignalPCs
  <2>1. CASE u # t /\ v # t
    BY <2>1 DEF Apart, IInv, Threads, Signals, SignalPCs
  <2>2. CASE u = t \/ v = t
    BY <2>2 DEF Apart
  <2> QED BY <2>1, <2>2
<1> QED BY <1>1, <1>2

-----------------------------------------------------------------------------
(* The counts after a step *)

CountOK(b) ==
  blk[b].ref = Cardinality(Counted(b)) /\ blk[b].ref > 0
  /\ (blk[b].type = "writer" => blk[b].ref = 1)

LEMMA CountsByBlock == Counts <=> \A b \in Queued : CountOK(b)
BY DEF Counts, RefCountExact, CountOK

LEMMA CountsByBlockNext == Counts' <=> \A b \in Queued' : CountOK(b)'
BY DEF Counts, RefCountExact, CountOK

LEMMA CountKept ==
  ASSUME NEW b, CountOK(b), \A u \in Thread : On(u, b)' <=> On(u, b),
         blk'[b].ref = blk[b].ref, blk'[b].type = blk[b].type
  PROVE  CountOK(b)'
<1>1. Counted(b)' = Counted(b)
  BY DEF Counted, On, WaitPCs
<1> QED BY <1>1 DEF CountOK

LEMMA CountMore ==
  ASSUME NEW b, CountOK(b), NEW t \in Thread, ~ On(t, b), On(t, b)',
         \A u \in Thread \ {t} : On(u, b)' <=> On(u, b), blk[b].ref \in Nat,
         blk'[b].ref = blk[b].ref + 1, blk'[b].type = "reader"
  PROVE  CountOK(b)'
<1>1. Counted(b)' = {u \in Thread : On(u, b)'}
  BY DEF Counted, On, WaitPCs
<1>2. IsFiniteSet(Counted(b)) /\ Counted(b) = {u \in Thread : On(u, b)}
  BY CountedFinite
<1>3. Counted(b)' = Counted(b) \cup {t} /\ t \notin Counted(b)
  BY <1>1, <1>2
<1>4. Cardinality(Counted(b)') = Cardinality(Counted(b)) + 1
  BY <1>2, <1>3, SizeMore
<1> QED BY <1>4 DEF CountOK

LEMMA CountLess ==
  ASSUME NEW b, CountOK(b), NEW t \in Thread, On(t, b), ~ On(t, b)',
         \A u \in Thread \ {t} : On(u, b)' <=> On(u, b), blk[b].ref \in Nat, blk[b].ref > 1,
         blk'[b].ref = blk[b].ref - 1, blk'[b].type = "reader"
  PROVE  CountOK(b)'
<1>1. Counted(b)' = {u \in Thread : On(u, b)'}
  BY DEF Counted, On, WaitPCs
<1>2. IsFiniteSet(Counted(b)) /\ Counted(b) = {u \in Thread : On(u, b)}
  BY CountedFinite
<1>3. Counted(b)' = Counted(b) \ {t} /\ t \in Counted(b)
  BY <1>1, <1>2
<1>4. Cardinality(Counted(b)') = Cardinality(Counted(b)) - 1
  BY <1>2, <1>3, SizeLess
<1> QED BY <1>4 DEF CountOK

LEMMA CountOnly ==
  ASSUME NEW b, NEW t \in Thread, \A u \in Thread : On(u, b)' <=> u = t, blk'[b].ref = 1
  PROVE  CountOK(b)'
<1>1. Counted(b)' = {t}
  BY DEF Counted, On, WaitPCs
<1>2. Cardinality({t}) = 1
  BY FS_Singleton
<1> QED BY <1>1, <1>2 DEF CountOK

-----------------------------------------------------------------------------
(* Steps that leave the queue as it is *)

SameBlock(b) ==
  /\ blk'[b].type = blk[b].type /\ blk'[b].own = blk[b].own
  /\ blk'[b].ref = blk[b].ref /\ blk'[b].next = blk[b].next

LEMMA Quiet ==
  ASSUME IInv, TypeOK', Hands', NEW t \in Thread, Apart(t), ThreadOK(t)',
         Queued' = Queued, UNCHANGED queue,
         \A b \in Queued : SameBlock(b) /\ Stays(t, b),
         \A u \in Thread \ {t} : waiter[u] # NULL => blk'[waiter[u]] = blk[waiter[u]],
         \A b \in Queued : On(t, b)' <=> On(t, b),
         pc[t] \in {"wait", "cvtWait"} => blk[mine[t]].event = "set",
         pc'[t] \notin SignalPCs
  PROVE  IInv'
<1>1. last' = last /\ tag' = tag /\ first' = first
  BY DEF queue
<1>2. QueueOK
  BY QueueFacts DEF IInv
<1>3. Lined'
  <2>1. \A b \in Queued : Nexts'[b] = Nexts[b]
    BY DEF Nexts, SameBlock, Queued
  <2>2. IsLine(Queued, Nexts, first, last)
    BY DEF IInv, Lined
  <2>3. IsLine(Queued, Nexts', first, last)
    <3> HIDE DEF Queued, Nexts
    <3> QED BY <2>1, <2>2, LineSame
  <2> QED BY <1>1, <2>3 DEF Lined
<1>4. Marked'
  BY <1>1, <1>2 DEF IInv, Marked, SameBlock, QueueOK
<1>5. \A u \in Thread, b \in Queued : On(u, b)' <=> On(u, b)
  BY <1>1 DEF Apart, On
<1>6. Counts'
  <2>1. \A b \in Queued : CountOK(b)
    BY CountsByBlock DEF IInv
  <2>2. \A b \in Queued : CountOK(b)'
    <3> HIDE DEF Queued, CountOK, On
    <3> QED BY <1>5, <2>1, CountKept DEF SameBlock
  <2> QED BY <2>2, CountsByBlockNext
<1>7. (\A u \in Thread \ {t} : ThreadOK(u)') /\ Signals'
  <2>1. \A u \in Thread \ {t} : pc[u] = "shJoin" =>
           blk'[first].next = blk[first].next /\ blk'[blk[first].next].type = blk[blk[first].next].type
    <3> SUFFICES ASSUME NEW u \in Thread \ {t}, pc[u] = "shJoin"
                 PROVE  blk'[first].next = blk[first].next /\ blk'[blk[first].next].type = blk[blk[first].next].type
      OBVIOUS
    <3>1. first \in Queued /\ blk[first].next # NULL
      BY DEF IInv, Threads, ThreadOK, HoldOK, HoldPCs
    <3>2. blk[first].next \in Queued
      BY <1>2, <3>1 DEF QueueOK
    <3> QED BY <3>1, <3>2 DEF SameBlock
  <2> QED BY <1>1, <2>1, OthersKept
<1>8. \A u \in Thread : ThreadOK(u)'
  BY <1>7
<1> QED BY <1>3, <1>4, <1>6, <1>7, <1>8 DEF IInv, Threads

LEMMA QueuedSame ==
  ASSUME UNCHANGED <<blk, waiter>>
  PROVE  Queued' = Queued
BY DEF Queued

\* Steps that change no block and move none.
LEMMA QuietLocal ==
  ASSUME IInv, TypeOK', NEW t \in Thread, Apart(t), ThreadOK(t)',
         UNCHANGED <<queue, avail, blk, cache, waiter>>,
         \A b \in Queued : On(t, b)' <=> On(t, b),
         pc[t] \in {"wait", "cvtWait"} => blk[mine[t]].event = "set",
         pc'[t] \notin SignalPCs
  PROVE  IInv'
<1>1. Queued' = Queued
  BY QueuedSame
<1>2. Hands'
  BY DEF IInv, Hands
<1>3. \A b \in Queued : SameBlock(b) /\ Stays(t, b)
  BY <1>1 DEF SameBlock, Stays
<1> QED BY <1>1, <1>2, <1>3, Quiet

LEMMA StepRetry ==
  ASSUME IInv, NEW t \in Thread, LockRetry(t) \/ CvtRetry(t) \/ ShRetry(t)
  PROVE  IInv'
<1>1. TypeOK /\ ThreadOK(t)
  BY DEF IInv, Threads
<1>2. /\ UNCHANGED <<queue, avail, blk, cache, local, status, stale>>
      /\ \/ pc[t] = "lock" /\ pc' = [pc EXCEPT ![t] = "look"]
         \/ pc[t] \in {"cvtOne", "cvtMany"} /\ pc' = [pc EXCEPT ![t] = "cvt"]
         \/ pc[t] = "shLast" /\ pc' = [pc EXCEPT ![t] = "sh"]
  BY DEF LockRetry, CvtRetry, ShRetry
<1>3. TypeOK' /\ Apart(t) /\ UNCHANGED <<queue, avail, blk, cache, waiter>>
  BY <1>1, <1>2 DEF TypeOK, Apart, queue, local, HoldPCs
<1>4. Queued' = Queued
  BY <1>3, QueuedSame
<1>5. pc'[t] \in {"look", "cvt", "sh"} /\ UNCHANGED <<first, kind, mine, waiter, blk>>
      /\ pc[t] \in {"lock", "cvtOne", "cvtMany", "shLast"}
      /\ (pc'[t] = "look" <=> pc[t] = "lock") /\ (pc'[t] = "sh" <=> pc[t] = "shLast")
  BY <1>1, <1>2 DEF TypeOK, queue, local
<1>6. ThreadOK(t)'
  <2>1. HandOK(t)'
    BY <1>1, <1>5 DEF ThreadOK, HandOK
  <2>2. WaitOK(t)' /\ SignalOK(t)'
    BY <1>5 DEF WaitOK, SignalOK, WaitPCs
  <2>3. HoldOK(t)'
    BY <1>1, <1>4, <1>5 DEF ThreadOK, HoldOK, HoldPCs
  <2> QED BY <2>1, <2>2, <2>3 DEF ThreadOK
<1>7. \A b \in Queued : On(t, b)' <=> On(t, b)
  BY <1>5 DEF On, WaitPCs, HoldPCs
<1> QED BY <1>3, <1>5, <1>6, <1>7, QuietLocal DEF SignalPCs

LEMMA StepWake ==
  ASSUME IInv, NEW t \in Thread, LockWake(t)
  PROVE  IInv'
<1>1. TypeOK /\ ThreadOK(t)
  BY DEF IInv, Threads
<1>2. TypeOK' /\ Apart(t) /\ UNCHANGED <<queue, avail, blk, cache, waiter>>
  BY <1>1 DEF LockWake, TypeOK, Apart, queue, local, HoldPCs
<1>3. Queued' = Queued
  BY <1>2, QueuedSame
<1>4. pc[t] = "wait" /\ pc'[t] = "own" /\ UNCHANGED <<first, kind, mine, waiter, blk, seen>>
      /\ blk[mine[t]].event = "set"
  BY <1>1 DEF LockWake, TypeOK, queue, local
<1>5. ThreadOK(t)'
  BY <1>1, <1>3, <1>4 DEF ThreadOK, HandOK, WaitOK, HoldOK, SignalOK, WaitPCs, HoldPCs, Asked
<1>6. \A b \in Queued : On(t, b)' <=> On(t, b)
  BY <1>4 DEF On, WaitPCs, HoldPCs
<1> QED BY <1>2, <1>4, <1>5, <1>6, QuietLocal DEF SignalPCs

\* The block that a thread waited for is the first when it owns the lock.
LEMMA OwnsFirst ==
  ASSUME IInv, NEW t \in Thread, pc[t] \in WaitPCs,
         pc[t] = "own" \/ blk[mine[t]].event = "set"
  PROVE  mine[t] = first /\ first \in Queued /\ blk[first].type = Asked(t) /\ On(t, first)
BY DEF IInv, Threads, ThreadOK, WaitOK, Marked, On

LEMMA StepReturn ==
  ASSUME IInv, NEW t \in Thread, LockReturn(t) \/ CvtReturn(t)
  PROVE  IInv'
<1>1. TypeOK /\ ThreadOK(t)
  BY DEF IInv, Threads
<1>2. /\ pc[t] \in {"own", "cvtWait"} /\ (pc[t] = "own" \/ blk[mine[t]].event = "set")
      /\ UNCHANGED <<last, tag, avail, blk, cache, waiter, seen>>
      /\ first' \in {first, mine[t]}
      /\ mine' = [mine EXCEPT ![t] = NULL] /\ pc' = [pc EXCEPT ![t] = "held"]
      /\ kind' = [kind EXCEPT ![t] = Asked(t)]
  BY <1>1 DEF LockReturn, CvtReturn, TypeOK, queue, Asked
<1>3. mine[t] = first /\ first \in Queued /\ blk[first].type = Asked(t) /\ On(t, first)
  BY <1>2, OwnsFirst DEF WaitPCs
<1>4. TypeOK'
  <2>1. status' \in [Thread -> {"ok", "moreWrites", "noMemory"}] /\ stale' \subseteq Thread
    BY <1>1 DEF LockReturn, CvtReturn, Overtake, TypeOK
  <2>2. Asked(t) \in Kinds
    BY <1>1 DEF Asked, TypeOK, Kinds
  <2>3. pc' \in [Thread -> HoldPCs \cup {"idle", "look", "alloc", "lock", "wait",
                                   "own", "signal", "cvtWait"}]
    BY <1>1, <1>2 DEF TypeOK, HoldPCs
  <2>4. sync' = sync
    BY DEF LockReturn, CvtReturn
  <2> QED BY <1>1, <1>2, <1>3, <2>1, <2>2, <2>3, <2>4 DEF TypeOK
<1>5. Apart(t) /\ UNCHANGED <<queue, avail, blk, cache, waiter>>
  BY <1>1, <1>2, <1>3 DEF TypeOK, Apart, queue
<1>6. Queued' = Queued
  BY <1>5, QueuedSame
<1>7. pc'[t] = "held" /\ kind'[t] = Asked(t) /\ first' = first
  BY <1>1, <1>2, <1>3 DEF TypeOK
<1>8. ThreadOK(t)'
  <2>1. HandOK(t)'
    BY <1>1, <1>2, <1>7 DEF ThreadOK, HandOK
  <2>2. WaitOK(t)' /\ SignalOK(t)'
    BY <1>7 DEF WaitOK, SignalOK, WaitPCs
  <2>3. HoldOK(t)'
    BY <1>2, <1>3, <1>6, <1>7 DEF HoldOK
  <2> QED BY <2>1, <2>2, <2>3 DEF ThreadOK
<1>9. \A b \in Queued : On(t, b)' <=> On(t, b)
  BY <1>2, <1>3, <1>7 DEF On, WaitPCs, HoldPCs
<1> QED BY <1>2, <1>4, <1>5, <1>7, <1>8, <1>9, QuietLocal DEF SignalPCs

\* A holder begins to unlock or to convert.
LEMMA StepBegin ==
  ASSUME IInv, NEW t \in Thread,
         UnlockCall(t) \/ ConvertToExclusive(t) \/ \E s \in BOOLEAN : ConvertToShared(t, s)
  PROVE  IInv'
<1>1. TypeOK /\ ThreadOK(t)
  BY DEF IInv, Threads
<1>2. /\ pc[t] = "held" /\ mine' = [mine EXCEPT ![t] = first]
      /\ status' = [status EXCEPT ![t] = "ok"]
      /\ UNCHANGED <<queue, avail, blk, cache, waiter, seen, stale>>
      /\ \E k \in {kind[t], blk[first].type} : kind' = [kind EXCEPT ![t] = k]
      /\ \E s \in BOOLEAN : sync' = [sync EXCEPT ![t] = s]
      /\ \/ pc' = [pc EXCEPT ![t] = "unlock"]
         \/ pc' = [pc EXCEPT ![t] = "cvt"] /\ blk[first].type = "reader"
         \/ pc' = [pc EXCEPT ![t] = "sh"] /\ blk[first].type = "writer"
  BY <1>1 DEF UnlockCall, ConvertToExclusive, ConvertToShared, TypeOK
<1>3. first \in Queued /\ blk[first].type = kind[t] /\ waiter[t] = NULL
  BY <1>1, <1>2 DEF ThreadOK, HoldOK, HandOK, HoldPCs
<1>4. kind' = kind /\ first' = first /\ mine'[t] = first
  BY <1>1, <1>2, <1>3 DEF TypeOK, queue
<1>5. TypeOK'
  <2>1. first \in Block
    BY <1>3 DEF Queued
  <2>2. pc' \in [Thread -> HoldPCs \cup {"idle", "look", "alloc", "lock", "wait",
                                   "own", "signal", "cvtWait"}]
    BY <1>1, <1>2 DEF TypeOK, HoldPCs
  <2>3. status' \in [Thread -> {"ok", "moreWrites", "noMemory"}]
    BY <1>1, <1>2 DEF TypeOK
  <2>4. sync' \in [Thread -> BOOLEAN]
    BY <1>1, <1>2 DEF TypeOK
  <2>5. mine' \in [Thread -> Block \cup {NULL}]
    BY <1>1, <1>2, <2>1 DEF TypeOK
  <2> QED BY <1>1, <1>2, <1>4, <2>2, <2>3, <2>4, <2>5 DEF TypeOK, queue
<1>6. Apart(t) /\ UNCHANGED <<queue, avail, blk, cache, waiter>>
  BY <1>1, <1>2, <1>4 DEF TypeOK, Apart
<1>7. Queued' = Queued
  BY <1>6, QueuedSame
<1>8. pc'[t] \in {"unlock", "cvt", "sh"}
      /\ (pc'[t] = "cvt" => kind[t] = "reader") /\ (pc'[t] = "sh" => kind[t] = "writer")
  BY <1>1, <1>2, <1>3 DEF TypeOK
<1>9. ThreadOK(t)'
  <2>1. HandOK(t)'
    BY <1>2, <1>3, <1>8 DEF HandOK
  <2>2. WaitOK(t)' /\ SignalOK(t)'
    BY <1>8 DEF WaitOK, SignalOK, WaitPCs
  <2>3. HoldOK(t)'
    BY <1>2, <1>3, <1>4, <1>7, <1>8 DEF HoldOK
  <2> QED BY <2>1, <2>2, <2>3 DEF ThreadOK
<1>10. \A b \in Queued : On(t, b)' <=> On(t, b)
  BY <1>2, <1>4, <1>8 DEF On, WaitPCs, HoldPCs
<1> QED BY <1>2, <1>5, <1>6, <1>8, <1>9, <1>10, QuietLocal DEF SignalPCs

\* A block with one field changed.
LEMMA EventFacts ==
  ASSUME NEW r \in Waiters, NEW e \in Events, NEW s, s = [r EXCEPT !.event = e]
  PROVE  /\ s \in Waiters /\ s.event = e /\ s.type = r.type /\ s.own = r.own
         /\ s.inserted = r.inserted /\ s.ref = r.ref /\ s.next = r.next
<1>1. s \in Waiters
  BY DEF Waiters
<1>2. /\ s.event = e /\ s.type = r.type /\ s.own = r.own
      /\ s.inserted = r.inserted /\ s.ref = r.ref /\ s.next = r.next
  BY DEF Waiters
<1> QED BY <1>1, <1>2

LEMMA OwnFacts ==
  ASSUME NEW r \in Waiters, NEW s, s = [r EXCEPT !.own = TRUE]
  PROVE  /\ s \in Waiters /\ s.event = r.event /\ s.type = r.type /\ s.own
         /\ s.inserted = r.inserted /\ s.ref = r.ref /\ s.next = r.next
<1>1. s \in Waiters
  BY DEF Waiters
<1>2. /\ s.event = r.event /\ s.type = r.type /\ s.own = TRUE
      /\ s.inserted = r.inserted /\ s.ref = r.ref /\ s.next = r.next
  BY DEF Waiters
<1> QED BY <1>1, <1>2

LEMMA RefFacts ==
  ASSUME NEW r \in Waiters, NEW n \in Nat, NEW s, s = [r EXCEPT !.ref = n]
  PROVE  /\ s \in Waiters /\ s.event = r.event /\ s.type = r.type /\ s.own = r.own
         /\ s.inserted = r.inserted /\ s.ref = n /\ s.next = r.next
<1>1. s \in Waiters
  BY DEF Waiters
<1>2. /\ s.event = r.event /\ s.type = r.type /\ s.own = r.own
      /\ s.inserted = r.inserted /\ s.ref = n /\ s.next = r.next
  BY DEF Waiters
<1> QED BY <1>1, <1>2

LEMMA NextFacts ==
  ASSUME NEW r \in Waiters, NEW b \in Block \cup {NULL}, NEW s, s = [r EXCEPT !.next = b]
  PROVE  /\ s \in Waiters /\ s.event = r.event /\ s.type = r.type /\ s.own = r.own
         /\ s.inserted = r.inserted /\ s.ref = r.ref /\ s.next = b
<1>1. s \in Waiters
  BY DEF Waiters
<1>2. /\ s.event = r.event /\ s.type = r.type /\ s.own = r.own
      /\ s.inserted = r.inserted /\ s.ref = r.ref /\ s.next = b
  BY DEF Waiters
<1> QED BY <1>1, <1>2

LEMMA KindFacts ==
  ASSUME NEW r \in Waiters, NEW k \in Kinds, NEW s,
         s = [r EXCEPT !.type = k, !.own = TRUE, !.inserted = FALSE]
  PROVE  /\ s \in Waiters /\ s.event = r.event /\ s.type = k /\ s.own
         /\ s.ref = r.ref /\ s.next = r.next
<1>1. s \in Waiters
  BY DEF Waiters, BlockKinds
<1>2. /\ s.event = r.event /\ s.type = k /\ s.own = TRUE
      /\ s.ref = r.ref /\ s.next = r.next
  BY DEF Waiters
<1> QED BY <1>1, <1>2

LEMMA InsertedFacts ==
  ASSUME NEW r \in Waiters, NEW s, s = [r EXCEPT !.inserted = TRUE]
  PROVE  /\ s \in Waiters /\ s.event = r.event /\ s.type = r.type /\ s.own = r.own
         /\ s.ref = r.ref /\ s.next = r.next
<1>1. s \in Waiters
  BY DEF Waiters
<1>2. /\ s.event = r.event /\ s.type = r.type /\ s.own = r.own
      /\ s.ref = r.ref /\ s.next = r.next
  BY DEF Waiters
<1> QED BY <1>1, <1>2

\* The event of the block in hand is made ready for a wait.
LEMMA HandReady ==
  ASSUME IInv, NEW t \in Thread, waiter[t] # NULL, UNCHANGED <<cache, avail, waiter>>,
         blk' = [blk EXCEPT ![waiter[t]].event = "reset"]
  PROVE  /\ blk' \in [Block -> Waiters] /\ Hands' /\ Queued' = Queued
         /\ \A b \in Queued : blk'[b] = blk[b]
         /\ blk'[waiter[t]].type = blk[waiter[t]].type /\ blk'[waiter[t]].event = "reset"
         /\ \A u \in Thread \ {t} : waiter[u] # NULL => blk'[waiter[u]] = blk[waiter[u]]
<1> DEFINE w == waiter[t]
<1>1. TypeOK /\ Hands /\ w \in Block
  BY DEF IInv, TypeOK
<1>2. blk'[w] = [blk[w] EXCEPT !.event = "reset"] /\ \A x \in Block \ {w} : blk'[x] = blk[x]
  BY <1>1 DEF TypeOK
<1>3. /\ blk'[w] \in Waiters /\ blk'[w].event = "reset"
      /\ blk'[w].type = blk[w].type /\ blk'[w].own = blk[w].own
      /\ blk'[w].inserted = blk[w].inserted /\ blk'[w].ref = blk[w].ref /\ blk'[w].next = blk[w].next
  <2>1. blk[w] \in Waiters /\ "reset" \in Events
    BY <1>1 DEF TypeOK, Events
  <2> QED BY <1>2, <2>1, EventFacts
<1>4. blk' \in [Block -> Waiters]
  <2>1. \A x \in Block : blk'[x] \in Waiters
    BY <1>1, <1>2, <1>3 DEF TypeOK
  <2> QED BY <1>1, <2>1 DEF TypeOK
<1>5. InHand(blk'[w])
  BY <1>1, <1>3 DEF Hands, InHand
<1>6. Hands'
  BY <1>1, <1>2, <1>5, HandsSame DEF Elsewhere
<1>7. w \notin Queued
  BY DEF Queued
<1>8. \A x \in Block : blk'[x].type = blk[x].type
  BY <1>2, <1>3
<1>9. Queued' = Queued
  BY <1>8 DEF Queued
<1>10. \A b \in Queued : blk'[b] = blk[b]
  BY <1>2, <1>7 DEF Queued
<1>11. \A u \in Thread \ {t} : waiter[u] # NULL => waiter[u] \in Block \ {w}
  BY <1>1 DEF TypeOK, Hands
<1> QED BY <1>2, <1>3, <1>4, <1>6, <1>9, <1>10, <1>11

\* A step that changes no queued block and no other thread's, and leaves t
\* relying on the block it relied on.
LEMMA QuietBlocks ==
  ASSUME IInv, TypeOK', Hands', NEW t \in Thread, Apart(t), ThreadOK(t)',
         Queued' = Queued, UNCHANGED queue,
         \A b \in Queued : blk'[b] = blk[b],
         \A u \in Thread \ {t} : waiter[u] # NULL => blk'[waiter[u]] = blk[waiter[u]],
         \/ pc[t] \in HoldPCs /\ pc'[t] \in HoldPCs
         \/ pc[t] \notin HoldPCs \cup WaitPCs /\ pc'[t] \notin HoldPCs \cup WaitPCs,
         pc'[t] \notin SignalPCs
  PROVE  IInv'
<1>1. \A b \in Queued : SameBlock(b) /\ Stays(t, b)
  BY DEF SameBlock, Stays
<1>2. first' = first
  BY DEF queue
<1>3. \A b \in Queued : On(t, b)' <=> On(t, b)
  BY <1>2 DEF On, WaitPCs, HoldPCs
<1>4. pc[t] \notin {"wait", "cvtWait"}
  BY DEF WaitPCs, HoldPCs
<1> QED BY <1>1, <1>3, <1>4, Quiet

LEMMA StepCall ==
  ASSUME IInv, NEW t \in Thread, NEW k \in Kinds, LockCall(t, k)
  PROVE  IInv'
<1>1. TypeOK /\ ThreadOK(t) /\ Hands
  BY DEF IInv, Threads
<1>2. /\ pc[t] = "idle" /\ pc' = [pc EXCEPT ![t] = "look"]
      /\ kind' = [kind EXCEPT ![t] = k]
      /\ cache' = [cache EXCEPT ![t] = NULL] /\ status' = [status EXCEPT ![t] = "ok"]
      /\ UNCHANGED <<queue, avail, mine, seen, sync, stale>>
  BY DEF LockCall
<1>w. PICK w \in Offers(t, k) :
        /\ waiter' = [waiter EXCEPT ![t] = w]
        /\ blk' = IF w = NULL THEN blk ELSE [blk EXCEPT ![w] = Fresh(k, @.event)]
  BY DEF LockCall
<1>o. \/ w = NULL /\ cache[t] = NULL
      \/ w \in Block /\ w # NULL /\ w = cache[t] /\ blk[w].type = "idle" /\ w # Embedded
      \/ w \in Block /\ w # NULL /\ cache[t] = NULL /\ blk[w].type = "home"
  BY <1>1, <1>w, NullNoBlock DEF Offers, TypeOK, Hands, Block, NoBlock
<1>3. waiter[t] = NULL
  BY <1>1, <1>2 DEF ThreadOK, HandOK
<1>4. pc'[t] = "look" /\ kind'[t] = k /\ waiter'[t] = w /\ Apart(t) /\ Elsewhere(t)
  BY <1>1, <1>2, <1>w DEF TypeOK, Apart, Elsewhere
<1>5. /\ blk' \in [Block -> Waiters] /\ Hands' /\ Queued' = Queued
      /\ \A b \in Queued : blk'[b] = blk[b]
      /\ \A u \in Thread \ {t} : waiter[u] # NULL => blk'[waiter[u]] = blk[waiter[u]]
      /\ waiter'[t] # NULL => blk'[waiter'[t]].type = k
  <2>1. CASE w = NULL
    <3>1. blk' = blk /\ cache' = cache /\ waiter' = waiter
      BY <1>1, <1>2, <1>3, <1>w, <1>o, <2>1 DEF TypeOK
    <3>2. avail' = avail
      BY <1>2
    <3> QED BY <1>1, <1>4, <2>1, <3>1, <3>2 DEF TypeOK, Hands, Queued
  <2>2. CASE w # NULL
    <3>1. w \in Block /\ blk[w].type \in {"idle", "home"} /\ (avail => w # Embedded)
      BY <1>1, <1>o, <2>2 DEF Hands
    <3>2. blk'[w] = Fresh(k, blk[w].event) /\ \A x \in Block \ {w} : blk'[x] = blk[x]
      <4>1. blk' = [blk EXCEPT ![w] = Fresh(k, blk[w].event)]
        BY <1>w, <2>2
      <4> QED BY <1>1, <3>1, <4>1 DEF TypeOK
    <3>3. blk[w].event \in Events
      BY <1>1, <3>1 DEF TypeOK, Waiters
    <3>4. blk'[w] \in Waiters /\ InHand(blk'[w]) /\ blk'[w].type = k
      <4>1. Fresh(k, blk[w].event) \in Waiters /\ InHand(Fresh(k, blk[w].event))
            /\ Fresh(k, blk[w].event).type = k
        BY <3>3, FreshFacts DEF InHand, BlockKinds
      <4> QED BY <3>2, <4>1
    <3>5. blk' \in [Block -> Waiters]
      <4>1. \A x \in Block : blk'[x] \in Waiters
        BY <1>1, <3>2, <3>4 DEF TypeOK
      <4> QED BY <1>1, <1>w, <2>2, <4>1 DEF TypeOK
    <3>6. \A u \in Thread : cache'[u] # NULL => cache'[u] = cache[u] /\ cache[u] # w
      BY <1>1, <1>2, <1>o, <2>2 DEF TypeOK, Hands
    <3>7. avail' => avail /\ w # Embedded
      BY <1>2, <3>1
    <3>8. blk[w].type \notin Kinds
      BY <3>1 DEF Kinds
    <3>9. Hands' /\ Queued' = Queued /\ \A x \in Queued : blk'[x] = blk[x]
      BY <1>1, <1>3, <1>4, <3>1, <3>2, <3>4, <3>6, <3>7, <3>8, HandsTaken
    <3>10. \A u \in Thread : waiter[u] # NULL => waiter[u] \in Block \ {w}
      BY <1>1, <3>8 DEF TypeOK, Hands, InHand
    <3> QED BY <1>4, <3>2, <3>4, <3>5, <3>9, <3>10
  <2> QED BY <2>1, <2>2
<1>6. TypeOK'
  <2>1. pc' \in [Thread -> HoldPCs \cup {"idle", "look", "alloc", "lock", "wait",
                                   "own", "signal", "cvtWait"}]
    BY <1>1, <1>2 DEF TypeOK
  <2>2. status' \in [Thread -> {"ok", "moreWrites", "noMemory"}]
    BY <1>1, <1>2 DEF TypeOK
  <2>3. cache' \in [Thread -> Block \cup {NULL}] /\ waiter' \in [Thread -> Block \cup {NULL}]
        /\ kind' \in [Thread -> Kinds]
    BY <1>1, <1>2, <1>w, <1>o DEF TypeOK
  <2> QED BY <1>1, <1>2, <1>5, <2>1, <2>2, <2>3 DEF TypeOK, queue
<1>7. ThreadOK(t)'
  BY <1>4, <1>5 DEF ThreadOK, HandOK, WaitOK, HoldOK, SignalOK, WaitPCs, HoldPCs
<1> QED BY <1>2, <1>4, <1>5, <1>6, <1>7, QuietBlocks DEF WaitPCs, HoldPCs, SignalPCs

LEMMA StepAllocate ==
  ASSUME IInv, NEW t \in Thread, LockAllocate(t) \/ CvtAllocate(t) \/ ShAllocate(t)
  PROVE  IInv'
<1>1. TypeOK /\ ThreadOK(t) /\ Hands
  BY DEF IInv, Threads
<1>2. /\ pc[t] \in {"alloc", "cvtAlloc", "shAlloc"}
      /\ pc[t] = "alloc" =>
           AllocateWaiter(t, kind[t], seen[t] # "Free", "lock", "idle") /\ mine' = mine
      /\ pc[t] = "cvtAlloc" => AllocateWaiter(t, "writer", TRUE, "cvtMany", "held")
      /\ pc[t] = "shAlloc" => AllocateWaiter(t, "reader", FALSE, "shLast", "held")
      /\ mine' = mine \/ (pc'[t] = "held" /\ mine' = [mine EXCEPT ![t] = NULL])
      /\ sync' = sync \/ sync' = [sync EXCEPT ![t] = FALSE]
      /\ UNCHANGED <<queue, cache, kind, seen, stale>>
  BY DEF LockAllocate, CvtAllocate, ShAllocate
<1>3. waiter[t] = NULL
  BY <1>1, <1>2 DEF ThreadOK, HandOK
<1> DEFINE type == IF pc[t] = "alloc" THEN kind[t] ELSE IF pc[t] = "cvtAlloc" THEN "writer" ELSE "reader"
           needed == IF pc[t] = "alloc" THEN seen[t] # "Free" ELSE pc[t] = "cvtAlloc"
           success == IF pc[t] = "alloc" THEN "lock" ELSE IF pc[t] = "cvtAlloc" THEN "cvtMany" ELSE "shLast"
           failure == IF pc[t] = "alloc" THEN "idle" ELSE "held"
<1>4. AllocateWaiter(t, type, needed, success, failure)
  <2>1. CASE pc[t] = "alloc"
    BY <1>2, <2>1
  <2>2. CASE pc[t] = "cvtAlloc"
    BY <1>2, <2>2
  <2>3. CASE pc[t] = "shAlloc"
    BY <1>2, <2>3
  <2> QED BY <1>2, <2>1, <2>2, <2>3
<1>5. type \in Kinds /\ needed \in BOOLEAN /\ pc[t] # failure
  BY <1>1, <1>2 DEF TypeOK, Kinds
<1>6. /\ pc[t] = "alloc" => type = kind[t] /\ success = "lock" /\ failure = "idle"
           /\ (needed <=> seen[t] # "Free")
      /\ pc[t] = "cvtAlloc" => type = "writer" /\ success = "cvtMany" /\ failure = "held"
           /\ needed
      /\ pc[t] = "shAlloc" => type = "reader" /\ success = "shLast" /\ failure = "held"
  OBVIOUS
<1> HIDE DEF type, needed, success, failure
<1>7. /\ blk' \in [Block -> Waiters] /\ waiter' \in [Thread -> Block \cup {NULL}]
      /\ avail' \in BOOLEAN /\ status' \in [Thread -> {"ok", "moreWrites", "noMemory"}]
      /\ Elsewhere(t)
      /\ \/ /\ pc' = [pc EXCEPT ![t] = success]
            /\ waiter'[t] # NULL /\ blk'[waiter'[t]].type = type
            /\ needed => blk'[waiter'[t]].event = "reset"
         \/ /\ pc' = [pc EXCEPT ![t] = failure] /\ UNCHANGED <<blk, waiter>>
      /\ Hands' /\ Queued' = Queued /\ \A x \in Queued : blk'[x] = blk[x]
      /\ \A u \in Thread : waiter[u] # NULL => blk'[waiter[u]] = blk[waiter[u]]
  BY <1>1, <1>2, <1>3, <1>4, <1>5, Allocated
<1>8. Apart(t)
  BY <1>1, <1>2, <1>7 DEF TypeOK, Apart, Elsewhere
<1>9. \/ /\ pc'[t] = success /\ waiter'[t] # NULL /\ blk'[waiter'[t]].type = type
         /\ needed => blk'[waiter'[t]].event = "reset"
      \/ pc'[t] = failure /\ waiter'[t] = NULL
  BY <1>1, <1>3, <1>7 DEF TypeOK
<1>10. TypeOK'
  <2>1. pc' \in [Thread -> HoldPCs \cup {"idle", "look", "alloc", "lock", "wait",
                                   "own", "signal", "cvtWait"}]
    BY <1>1, <1>2, <1>6, <1>7 DEF TypeOK, HoldPCs
  <2>2. mine' \in [Thread -> Block \cup {NULL}] /\ sync' \in [Thread -> BOOLEAN]
    BY <1>1, <1>2 DEF TypeOK
  <2> QED BY <1>1, <1>2, <1>7, <2>1, <2>2 DEF TypeOK, queue
<1>11. kind'[t] = kind[t] /\ seen'[t] = seen[t] /\ first' = first /\ (pc'[t] # "held" => mine'[t] = mine[t])
  BY <1>1, <1>2 DEF TypeOK, queue
<1>12. ThreadOK(t)'
  <2>1. CASE pc[t] = "alloc"
    BY <1>6, <1>9, <1>11, <2>1 DEF ThreadOK, HandOK, WaitOK, HoldOK, SignalOK, WaitPCs, HoldPCs
  <2>2. CASE pc[t] # "alloc"
    <3>1. /\ pc[t] \in {"cvtAlloc", "shAlloc"} /\ first \in Queued /\ blk[first].type = kind[t]
          /\ mine[t] = first /\ blk'[first] = blk[first] /\ first \in Queued'
          /\ pc[t] = "cvtAlloc" => kind[t] = "reader"
          /\ pc[t] = "shAlloc" => kind[t] = "writer" /\ mine[t] # Embedded
      BY <1>1, <1>2, <1>7, <2>2 DEF ThreadOK, HandOK, HoldOK, HoldPCs
    <3>2. pc'[t] \in {"cvtMany", "shLast", "held"}
          /\ (pc'[t] = "cvtMany" => pc[t] = "cvtAlloc") /\ (pc'[t] = "shLast" => pc[t] = "shAlloc")
      BY <1>6, <1>9, <3>1
    <3>3. HandOK(t)'
      BY <1>6, <1>9, <1>11, <3>1, <3>2 DEF HandOK
    <3>4. HoldOK(t)'
      BY <1>11, <3>1, <3>2 DEF HoldOK
    <3>5. WaitOK(t)' /\ SignalOK(t)'
      BY <3>2 DEF WaitOK, SignalOK, WaitPCs
    <3> QED BY <3>3, <3>4, <3>5 DEF ThreadOK
  <2> QED BY <2>1, <2>2
<1>13. \A u \in Thread \ {t} : waiter[u] # NULL => blk'[waiter[u]] = blk[waiter[u]]
  BY <1>7
<1>14. pc'[t] \in {"lock", "idle", "cvtMany", "held", "shLast"}
       /\ (pc'[t] \in {"lock", "idle"} <=> pc[t] = "alloc")
  BY <1>2, <1>6, <1>9
<1> QED
  BY <1>2, <1>7, <1>8, <1>10, <1>12, <1>13, <1>14, QuietBlocks DEF WaitPCs, HoldPCs, SignalPCs

LEMMA StepLook ==
  ASSUME IInv, NEW t \in Thread, Look(t)
  PROVE  IInv'
<1>1. TypeOK /\ ThreadOK(t) /\ Hands
  BY DEF IInv, Threads
<1> DEFINE w == waiter[t]
<1>2. /\ pc[t] = "look" /\ seen' = [seen EXCEPT ![t] = tag]
      /\ UNCHANGED <<queue, kind, mine, sync, stale>>
  BY DEF Look
<1>3. seen'[t] = tag /\ kind'[t] = kind[t] /\ UNCHANGED <<kind, mine, first>>
      /\ seen' \in [Thread -> {"Free", "LastReader", "LastWriter"}]
  BY <1>1, <1>2 DEF TypeOK, queue
<1>4. w # NULL => blk[w].type = kind[t]
  BY <1>1, <1>2 DEF ThreadOK, HandOK
<1>5. \/ /\ JoinsReaders(t, tag) \/ (w # NULL /\ tag = "Free")
         /\ pc' = [pc EXCEPT ![t] = "lock"] /\ UNCHANGED <<avail, blk, cache, waiter, status>>
      \/ /\ w # NULL /\ blk' = [blk EXCEPT ![w].event = "reset"]
         /\ pc' = [pc EXCEPT ![t] = "lock"] /\ UNCHANGED <<avail, cache, waiter, status>>
      \/ /\ w # NULL /\ StoreOrFree(t, blk, w, NULL)
         /\ waiter' = [waiter EXCEPT ![t] = NULL]
         /\ status' = [status EXCEPT ![t] = "noMemory"]
         /\ pc' = [pc EXCEPT ![t] = "idle"]
      \/ /\ w = NULL
         /\ pc' = [pc EXCEPT ![t] = "alloc"]
         /\ UNCHANGED <<avail, blk, cache, waiter, status>>
  BY DEF Look
<1> HIDE DEF w
<1>6. CASE /\ UNCHANGED <<avail, blk, cache, waiter, status>>
           /\ \/ (JoinsReaders(t, tag) \/ (w # NULL /\ tag = "Free")) /\ pc' = [pc EXCEPT ![t] = "lock"]
              \/ w = NULL /\ pc' = [pc EXCEPT ![t] = "alloc"]
  <2>1. TypeOK' /\ Apart(t)
    BY <1>1, <1>2, <1>3, <1>6 DEF TypeOK, Apart, queue
  <2>2. Queued' = Queued
    BY <1>6, QueuedSame
  <2>3. \/ pc'[t] = "lock" /\ (JoinsReaders(t, tag) \/ (w # NULL /\ tag = "Free"))
        \/ pc'[t] = "alloc" /\ w = NULL
    BY <1>1, <1>6 DEF TypeOK
  <2>4. ThreadOK(t)'
    <3>1. HandOK(t)'
      BY <1>3, <1>4, <1>6, <2>3 DEF HandOK, JoinsReaders, w
    <3> QED BY <2>3, <3>1 DEF ThreadOK, WaitOK, HoldOK, SignalOK, WaitPCs, HoldPCs
  <2>5. \A b \in Queued : On(t, b)' <=> On(t, b)
    BY <1>2, <2>3 DEF On, WaitPCs, HoldPCs
  <2> QED
    BY <1>2, <1>6, <2>1, <2>3, <2>4, <2>5, QuietLocal DEF SignalPCs
<1>7. CASE /\ w # NULL /\ blk' = [blk EXCEPT ![w].event = "reset"]
           /\ pc' = [pc EXCEPT ![t] = "lock"] /\ UNCHANGED <<avail, cache, waiter, status>>
  <2>1. /\ blk' \in [Block -> Waiters] /\ Hands' /\ Queued' = Queued
        /\ \A b \in Queued : blk'[b] = blk[b]
        /\ blk'[waiter[t]].type = blk[waiter[t]].type /\ blk'[waiter[t]].event = "reset"
        /\ \A u \in Thread \ {t} : waiter[u] # NULL => blk'[waiter[u]] = blk[waiter[u]]
    BY <1>7, HandReady DEF w
  <2>2. TypeOK' /\ Apart(t)
    BY <1>1, <1>2, <1>3, <1>7, <2>1 DEF TypeOK, Apart, queue
  <2>3. pc'[t] = "lock" /\ waiter' = waiter
    BY <1>1, <1>7 DEF TypeOK
  <2>4. ThreadOK(t)'
    BY <1>3, <1>4, <1>7, <2>1, <2>3
       DEF ThreadOK, HandOK, WaitOK, HoldOK, SignalOK, WaitPCs, HoldPCs, w
  <2> QED BY <1>2, <2>1, <2>2, <2>3, <2>4, QuietBlocks DEF WaitPCs, HoldPCs, SignalPCs
<1>8. CASE /\ w # NULL /\ StoreOrFree(t, blk, w, NULL)
           /\ waiter' = [waiter EXCEPT ![t] = NULL]
           /\ status' = [status EXCEPT ![t] = "noMemory"]
           /\ pc' = [pc EXCEPT ![t] = "idle"]
  <2>1. w \in Block /\ w \notin Queued /\ blk[w].type \in Kinds
        /\ \A u \in Thread \ {t} : waiter[u] # w
    BY <1>1, <1>8 DEF w, TypeOK, Queued, Hands, InHand
  <2>2. Elsewhere(t) /\ waiter'[t] = NULL /\ pc'[t] = "idle"
    BY <1>1, <1>8 DEF TypeOK, Elsewhere
  <2>3. blk \in [Block -> Waiters] /\ \A x \in Queued : blk[x].type \in Kinds
    BY <1>1 DEF TypeOK, Queued
  <2>4. /\ blk' \in [Block -> Waiters] /\ cache' \in [Thread -> Block \cup {NULL}]
        /\ avail' \in BOOLEAN
        /\ Hands' /\ Queued' = Queued \ {w, NULL}
        /\ \A x \in Block \ {w, NULL} : blk'[x] = blk[x]
    <3>1. waiter[t] \in {w, NULL, NULL}
      BY DEF w
    <3> QED BY <1>1, <1>8, <2>1, <2>2, <2>3, <3>1, HandsSpared
  <2>5. Queued' = Queued /\ \A b \in Queued : blk'[b] = blk[b]
    BY <2>1, <2>4, NullNoBlock DEF Queued, NoBlock
  <2>6. \A u \in Thread \ {t} : waiter[u] # NULL => blk'[waiter[u]] = blk[waiter[u]]
    BY <1>1, <2>1, <2>4 DEF TypeOK
  <2>7. waiter' \in [Thread -> Block \cup {NULL}] /\ status' \in [Thread -> {"ok", "moreWrites", "noMemory"}]
    BY <1>1, <1>8 DEF TypeOK
  <2>8. TypeOK' /\ Apart(t)
    BY <1>1, <1>2, <1>3, <1>8, <2>2, <2>4, <2>7 DEF TypeOK, Apart, Elsewhere, queue
  <2>9. ThreadOK(t)'
    BY <2>2 DEF ThreadOK, HandOK, WaitOK, HoldOK, SignalOK, WaitPCs, HoldPCs
  <2> QED BY <1>2, <2>2, <2>4, <2>5, <2>6, <2>8, <2>9, QuietBlocks DEF WaitPCs, HoldPCs, SignalPCs
<1> QED BY <1>5, <1>6, <1>7, <1>8

\* The event of the first block is set, by the thread that let its waiters in.
LEMMA StepSetEvent ==
  ASSUME IInv, NEW t \in Thread, SetEvent(t)
  PROVE  IInv'
<1>1. TypeOK /\ ThreadOK(t) /\ Hands
  BY DEF IInv, Threads
<1> DEFINE b == mine[t]
<1>2. /\ pc[t] \in {"signal", "shSignal"} /\ blk' = [blk EXCEPT ![b].event = "set"]
      /\ mine' = [mine EXCEPT ![t] = NULL]
      /\ pc' = [pc EXCEPT ![t] = IF pc[t] = "signal" THEN "idle" ELSE "held"]
      /\ UNCHANGED <<queue, avail, cache, kind, waiter, seen, sync, status, stale>>
  BY DEF SetEvent
<1> HIDE DEF b
<1>3. b \in Queued /\ blk[b].own /\ waiter[t] = NULL /\ (pc[t] = "shSignal" => b = first)
  BY <1>1, <1>2 DEF b, IInv, ThreadOK, SignalOK, HoldOK, HandOK, HoldPCs, Marked
<1>4. blk'[b] = [blk[b] EXCEPT !.event = "set"] /\ \A x \in Block \ {b} : blk'[x] = blk[x]
  BY <1>1, <1>2, <1>3 DEF TypeOK, Queued
<1>5. /\ blk'[b] \in Waiters /\ blk'[b].type = blk[b].type /\ blk'[b].own = blk[b].own
      /\ blk'[b].inserted = blk[b].inserted /\ blk'[b].ref = blk[b].ref /\ blk'[b].next = blk[b].next
  <2>1. blk[b] \in Waiters /\ "set" \in Events
    BY <1>1, <1>3 DEF TypeOK, Events, Queued
  <2> QED BY <1>4, <2>1, EventFacts
<1>6. blk' \in [Block -> Waiters]
  <2>1. \A x \in Block : blk'[x] \in Waiters
    BY <1>1, <1>4, <1>5 DEF TypeOK
  <2> QED BY <1>1, <1>2, <2>1 DEF TypeOK
<1>7. \A x \in Block : SameBlock(x)
  BY <1>4, <1>5 DEF SameBlock
<1>8. waiter' = waiter /\ Queued' = Queued
  <2>1. waiter' = waiter
    BY <1>2
  <2> QED BY <1>7, <2>1 DEF Queued, SameBlock
<1>9. Hands'
  <2>1. \A x \in Block : x \notin Queued /\ x # waiter[t] => blk'[x] = blk[x]
    BY <1>3, <1>4
  <2>2. UNCHANGED <<cache, avail>> /\ Elsewhere(t) /\ waiter'[t] = NULL
    BY <1>2, <1>3, <1>8 DEF Elsewhere
  <2> QED BY <1>1, <2>1, <2>2, HandsSame
<1>10. TypeOK' /\ Apart(t)
  BY <1>1, <1>2, <1>6 DEF TypeOK, Apart, queue, HoldPCs
<1>11. \A x \in Queued : SameBlock(x) /\ Stays(t, x)
  BY <1>2, <1>3, <1>4, <1>7, <1>8 DEF SameBlock, Stays, b, Queued
<1>12. \A u \in Thread \ {t} : waiter[u] # NULL => blk'[waiter[u]] = blk[waiter[u]]
  BY <1>1, <1>3, <1>4 DEF TypeOK, Queued
<1>13. first' = first /\ kind' = kind /\ (pc[t] = "signal" => pc'[t] = "idle")
       /\ (pc[t] = "shSignal" => pc'[t] = "held")
  BY <1>1, <1>2 DEF TypeOK, queue
<1>14. ThreadOK(t)'
  <2>1. HandOK(t)'
    BY <1>2, <1>3, <1>8, <1>13 DEF HandOK
  <2>2. WaitOK(t)' /\ SignalOK(t)'
    BY <1>2, <1>13 DEF WaitOK, SignalOK, WaitPCs
  <2>3. HoldOK(t)'
    BY <1>1, <1>2, <1>3, <1>5, <1>8, <1>13 DEF ThreadOK, HoldOK, HoldPCs
  <2> QED BY <2>1, <2>2, <2>3 DEF ThreadOK
<1>15. \A x \in Queued : On(t, x)' <=> On(t, x)
  BY <1>2, <1>13 DEF On, WaitPCs, HoldPCs
<1> QED
  BY <1>2, <1>8, <1>9, <1>10, <1>11, <1>12, <1>13, <1>14, <1>15, Quiet DEF SignalPCs

\* A converting reader looks at its block and readies one to wait on.
LEMMA StepCvtLook ==
  ASSUME IInv, NEW t \in Thread, CvtLook(t)
  PROVE  IInv'
<1>1. TypeOK /\ ThreadOK(t) /\ Hands
  BY DEF IInv, Threads
<1> DEFINE w == waiter[t]
           c == cache[t]
<1>2. /\ pc[t] = "cvt"
      /\ UNCHANGED <<queue, avail, kind, seen, sync, stale>>
  BY DEF CvtLook
<1>3. first \in Queued /\ blk[first].type = kind[t] /\ mine[t] = first /\ kind[t] = "reader"
  BY <1>1, <1>2 DEF ThreadOK, HoldOK, HoldPCs
<1>4. w # NULL => blk[w].type = "writer"
  BY <1>1, <1>2 DEF ThreadOK, HandOK
<1>5. \/ /\ pc' = [pc EXCEPT ![t] = "cvtOne"]
         /\ UNCHANGED <<blk, cache, waiter, mine, status>>
      \/ /\ w # NULL /\ blk' = [blk EXCEPT ![w].event = "reset"]
         /\ pc' = [pc EXCEPT ![t] = "cvtMany"] /\ UNCHANGED <<cache, waiter, mine, status>>
      \/ /\ w = NULL /\ c # NULL /\ blk' = [blk EXCEPT ![c] = Fresh("writer", "reset")]
         /\ waiter' = [waiter EXCEPT ![t] = c] /\ cache' = [cache EXCEPT ![t] = NULL]
         /\ pc' = [pc EXCEPT ![t] = "cvtMany"] /\ UNCHANGED <<mine, status>>
      \/ /\ w = NULL /\ status' = [status EXCEPT ![t] = "noMemory"]
         /\ mine' = [mine EXCEPT ![t] = NULL] /\ pc' = [pc EXCEPT ![t] = "held"]
         /\ UNCHANGED <<blk, cache, waiter>>
      \/ /\ w = NULL /\ pc' = [pc EXCEPT ![t] = "cvtAlloc"]
         /\ UNCHANGED <<blk, cache, waiter, mine, status>>
  BY DEF CvtLook, Passed
<1>6. UNCHANGED <<first, kind>> /\ avail' = avail
  BY <1>2 DEF queue
<1> HIDE DEF w, c
<1>7. CASE /\ UNCHANGED <<blk, cache, waiter>>
           /\ \/ pc' = [pc EXCEPT ![t] = "cvtOne"] /\ UNCHANGED <<mine, status>>
              \/ /\ pc' = [pc EXCEPT ![t] = "cvtAlloc"] /\ w = NULL /\ UNCHANGED <<mine, status>>
              \/ /\ w = NULL /\ status' = [status EXCEPT ![t] = "noMemory"]
                 /\ mine' = [mine EXCEPT ![t] = NULL] /\ pc' = [pc EXCEPT ![t] = "held"]
  <2>1. mine' \in [Thread -> Block \cup {NULL}] /\ status' \in [Thread -> {"ok", "moreWrites", "noMemory"}]
    BY <1>1, <1>7 DEF TypeOK
  <2>2. pc' \in [Thread -> HoldPCs \cup {"idle", "look", "alloc", "lock", "wait",
                                   "own", "signal", "cvtWait"}]
    BY <1>1, <1>7 DEF TypeOK, HoldPCs
  <2>3. TypeOK' /\ Apart(t)
    BY <1>1, <1>2, <1>7, <2>1, <2>2 DEF TypeOK, Apart, queue
  <2>4. Queued' = Queued
    BY <1>7, QueuedSame
  <2>5. pc'[t] \in {"cvtOne", "cvtAlloc", "held"} /\ (pc'[t] # "held" => mine'[t] = mine[t])
        /\ (pc'[t] # "cvtOne" => w = NULL)
    BY <1>1, <1>7 DEF TypeOK
  <2>6. ThreadOK(t)'
    <3>1. HandOK(t)'
      BY <1>4, <1>7, <2>5 DEF HandOK, w
    <3>2. WaitOK(t)' /\ SignalOK(t)'
      BY <2>5 DEF WaitOK, SignalOK, WaitPCs
    <3>3. HoldOK(t)'
      BY <1>3, <1>6, <1>7, <2>4, <2>5 DEF HoldOK, HoldPCs
    <3> QED BY <3>1, <3>2, <3>3 DEF ThreadOK
  <2>7. \A b \in Queued : On(t, b)' <=> On(t, b)
    BY <1>2, <1>6, <2>5 DEF On, WaitPCs, HoldPCs
  <2> QED BY <1>2, <1>7, <2>3, <2>5, <2>6, <2>7, QuietLocal DEF SignalPCs
<1>8. CASE /\ w # NULL /\ blk' = [blk EXCEPT ![w].event = "reset"]
           /\ pc' = [pc EXCEPT ![t] = "cvtMany"] /\ UNCHANGED <<cache, waiter, mine, status>>
  <2>1. /\ blk' \in [Block -> Waiters] /\ Hands' /\ Queued' = Queued
        /\ \A b \in Queued : blk'[b] = blk[b]
        /\ blk'[waiter[t]].type = blk[waiter[t]].type /\ blk'[waiter[t]].event = "reset"
        /\ \A u \in Thread \ {t} : waiter[u] # NULL => blk'[waiter[u]] = blk[waiter[u]]
    BY <1>6, <1>8, HandReady DEF w
  <2>2. TypeOK' /\ Apart(t)
    BY <1>1, <1>2, <1>8, <2>1 DEF TypeOK, Apart, queue, HoldPCs
  <2>3. pc'[t] = "cvtMany" /\ waiter' = waiter /\ mine' = mine
    BY <1>1, <1>8 DEF TypeOK
  <2>4. HandOK(t)'
    BY <1>4, <1>8, <2>1, <2>3 DEF HandOK, w
  <2>5. HoldOK(t)'
    BY <1>3, <1>6, <2>1, <2>3 DEF HoldOK
  <2>6. ThreadOK(t)'
    BY <2>3, <2>4, <2>5 DEF ThreadOK, WaitOK, SignalOK, WaitPCs
  <2> QED BY <1>2, <2>1, <2>2, <2>3, <2>6, QuietBlocks DEF WaitPCs, HoldPCs, SignalPCs
<1>9. CASE /\ w = NULL /\ c # NULL /\ blk' = [blk EXCEPT ![c] = Fresh("writer", "reset")]
           /\ waiter' = [waiter EXCEPT ![t] = c] /\ cache' = [cache EXCEPT ![t] = NULL]
           /\ pc' = [pc EXCEPT ![t] = "cvtMany"] /\ UNCHANGED <<mine, status>>
  <2>1. c \in Block /\ blk[c].type = "idle" /\ c # Embedded
    BY <1>1, <1>9 DEF TypeOK, Hands, c
  <2>2. blk'[c] = Fresh("writer", "reset") /\ \A x \in Block \ {c} : blk'[x] = blk[x]
    BY <1>1, <1>9, <2>1 DEF TypeOK
  <2>3. blk'[c] \in Waiters /\ InHand(blk'[c]) /\ blk'[c].type = "writer" /\ blk'[c].event = "reset"
    BY <2>2, FreshFacts DEF InHand, BlockKinds, Events, Kinds
  <2>4. blk' \in [Block -> Waiters]
    BY <1>1, <1>9, <2>2, <2>3 DEF TypeOK
  <2>5. waiter'[t] = c /\ Apart(t) /\ Elsewhere(t) /\ pc'[t] = "cvtMany" /\ mine' = mine
    BY <1>1, <1>2, <1>9 DEF TypeOK, Apart, Elsewhere
  <2>6. \A u \in Thread : cache'[u] # NULL => cache'[u] = cache[u] /\ cache[u] # c
    BY <1>1, <1>9 DEF TypeOK, Hands, c
  <2>7. blk[c].type \notin Kinds /\ (avail' => avail /\ c # Embedded)
    BY <1>6, <2>1 DEF Kinds
  <2>8. Hands' /\ Queued' = Queued /\ \A x \in Queued : blk'[x] = blk[x]
    BY <1>1, <1>9, <2>1, <2>2, <2>3, <2>5, <2>6, <2>7, HandsTaken DEF w
  <2>9. \A u \in Thread : waiter[u] # NULL => waiter[u] \in Block \ {c}
    BY <1>1, <2>7 DEF TypeOK, Hands, InHand
  <2>10. \A u \in Thread \ {t} : waiter[u] # NULL => blk'[waiter[u]] = blk[waiter[u]]
    BY <2>2, <2>9
  <2>11. TypeOK'
    <3>1. cache' \in [Thread -> Block \cup {NULL}] /\ waiter' \in [Thread -> Block \cup {NULL}]
      BY <1>1, <1>9, <2>1 DEF TypeOK
    <3> QED BY <1>1, <1>2, <1>9, <2>4, <3>1 DEF TypeOK, queue, HoldPCs
  <2>12. HandOK(t)'
    BY <2>1, <2>3, <2>5, NullNoBlock DEF HandOK, NoBlock
  <2>13. HoldOK(t)'
    BY <1>3, <1>6, <2>5, <2>8 DEF HoldOK
  <2>14. ThreadOK(t)'
    BY <2>5, <2>12, <2>13 DEF ThreadOK, WaitOK, SignalOK, WaitPCs
  <2> QED BY <1>2, <2>5, <2>8, <2>10, <2>11, <2>14, QuietBlocks DEF WaitPCs, HoldPCs, SignalPCs
<1> QED BY <1>5, <1>7, <1>8, <1>9

\* A holder that gives up exclusive access looks at the block behind its own.
ShLooks(t) ==
  /\ pc[t] = "sh" /\ UNCHANGED <<queue, seen, status, stale, avail, blk, cache, kind, waiter, mine, sync>>
  /\ LET n == blk[mine[t]].next
     IN \/ /\ n = NULL /\ waiter[t] = NULL /\ mine[t] # Embedded
           /\ pc' = [pc EXCEPT ![t] = "shAlloc"]
        \/ n = NULL /\ pc' = [pc EXCEPT ![t] = "shLast"]
        \/ /\ n # NULL /\ blk[n].type = "reader" /\ pc' = [pc EXCEPT ![t] = "shJoin"]

LEMMA StepShLook ==
  ASSUME IInv, NEW t \in Thread, ShLooks(t)
  PROVE  IInv'
<1>1. TypeOK /\ ThreadOK(t) /\ Hands
  BY DEF IInv, Threads
<1>2. /\ pc[t] = "sh" /\ UNCHANGED <<queue, seen, status, stale, avail, blk, cache, kind, waiter, mine, sync>>
      /\ UNCHANGED <<first, waiter, kind, mine, blk>>
  BY DEF ShLooks, queue
<1>3. first \in Queued /\ blk[first].type = kind[t] /\ mine[t] = first /\ kind[t] = "writer"
  BY <1>1, <1>2 DEF ThreadOK, HoldOK, HoldPCs
<1>4. /\ pc'[t] \in {"shAlloc", "shLast", "shJoin"}
      /\ pc'[t] = "shAlloc" => waiter[t] = NULL /\ mine[t] # Embedded
      /\ pc'[t] = "shJoin" => blk[first].next # NULL /\ blk[blk[first].next].type = "reader"
      /\ \E p \in {"shAlloc", "shLast", "shJoin"} : pc' = [pc EXCEPT ![t] = p]
  BY <1>1, <1>3 DEF ShLooks, TypeOK
<1>5. TypeOK' /\ Apart(t)
  BY <1>1, <1>2, <1>4 DEF TypeOK, Apart, queue, HoldPCs
<1>6. Queued' = Queued
  BY <1>2, QueuedSame
<1>7. ThreadOK(t)'
  <2>1. HandOK(t)'
    BY <1>1, <1>2, <1>4 DEF ThreadOK, HandOK
  <2>2. WaitOK(t)' /\ SignalOK(t)'
    BY <1>4 DEF WaitOK, SignalOK, WaitPCs
  <2>3. HoldOK(t)'
    BY <1>2, <1>3, <1>4, <1>6 DEF HoldOK, HoldPCs
  <2> QED BY <2>1, <2>2, <2>3 DEF ThreadOK
<1>8. \A b \in Queued : On(t, b)' <=> On(t, b)
  BY <1>2, <1>4 DEF On, WaitPCs, HoldPCs
<1> QED BY <1>2, <1>4, <1>5, <1>7, <1>8, QuietLocal DEF SignalPCs

-----------------------------------------------------------------------------
(* Steps that change the queue *)

\* A free lock: the block in hand becomes the queue.
LEMMA StepFree ==
  ASSUME IInv, NEW t \in Thread, LockFree(t)
  PROVE  IInv'
<1>0. PICK w : w = waiter[t]
  OBVIOUS
<1>1. TypeOK /\ ThreadOK(t) /\ Hands /\ QueueOK
  BY QueueFacts DEF IInv, Threads
<1>2. /\ pc[t] = "lock" /\ tag = "Free" /\ seen[t] = "Free"
      /\ blk' = [blk EXCEPT ![w].own = TRUE]
      /\ first' = w /\ last' = w /\ tag' = LastState(kind[t])
      /\ seen' = [seen EXCEPT ![t] = "Free"] /\ waiter' = [waiter EXCEPT ![t] = NULL]
      /\ pc' = [pc EXCEPT ![t] = "held"]
      /\ UNCHANGED <<avail, cache, kind, mine, sync, status>>
  BY <1>0 DEF LockFree
<1>3. w # NULL /\ w \in Block /\ InHand(blk[w]) /\ blk[w].type = kind[t]
      /\ \A u \in Thread \ {t} : waiter[u] # w
  BY <1>0, <1>1, <1>2 DEF ThreadOK, HandOK, JoinsReaders, TypeOK, Hands
<1>4. Queued = {}
  BY <1>1, <1>2 DEF IInv, Marked, LastState, QueueOK
<1>5. \A x \in Block \ {w} : blk'[x] = blk[x]
  BY <1>1, <1>2, <1>3 DEF TypeOK
<1>6. /\ blk'[w] \in Waiters /\ blk'[w].type = kind[t] /\ blk'[w].own
      /\ blk'[w].ref = 1 /\ blk'[w].next = NULL
  <2>1. blk'[w] = [blk[w] EXCEPT !.own = TRUE] /\ blk[w] \in Waiters
    BY <1>1, <1>2, <1>3 DEF TypeOK
  <2> QED BY <1>3, <2>1, OwnFacts DEF InHand
<1>7. blk' \in [Block -> Waiters]
  BY <1>1, <1>2, <1>5, <1>6 DEF TypeOK
<1>8. /\ waiter'[t] = NULL /\ pc'[t] = "held" /\ kind' = kind /\ mine' = mine
      /\ Apart(t) /\ Elsewhere(t)
  BY <1>1, <1>2 DEF TypeOK, Apart, Elsewhere
<1>9. Queued' = {w}
  <2>1. w \in Queued'
    <3>1. blk'[w].type \in Kinds
      BY <1>1, <1>6 DEF TypeOK
    <3>2. \A u \in Thread : waiter'[u] # w
      BY <1>3, <1>8 DEF Elsewhere
    <3> QED BY <1>3, <3>1, <3>2 DEF Queued
  <2>2. ASSUME NEW x \in Queued', x # w PROVE FALSE
    <3>1. x \in Block /\ blk[x].type \in Kinds /\ \A u \in Thread : waiter'[u] # x
      BY <1>5, <2>2 DEF Queued
    <3>2. \A u \in Thread : waiter[u] # x
      BY <1>0, <1>8, <2>2, <3>1 DEF Elsewhere
    <3>3. x \in Queued
      BY <3>1, <3>2 DEF Queued
    <3> QED BY <1>4, <3>3
  <2> QED BY <2>1, <2>2
<1>10. TypeOK'
  <2>1. stale' \subseteq Thread
    BY <1>1 DEF LockFree, Overtake, TypeOK
  <2>2. tag' \in {"Free", "LastReader", "LastWriter"}
    BY <1>2 DEF LastState
  <2> QED BY <1>1, <1>2, <1>3, <1>7, <2>1, <2>2 DEF TypeOK, HoldPCs
<1>11. Hands'
  <2>1. UNCHANGED <<cache, avail>>
    BY <1>2
  <2>2. \A x \in Block : x \notin Queued /\ x # waiter[t] => blk'[x] = blk[x]
    BY <1>0, <1>5
  <2> QED BY <1>1, <1>8, <2>1, <2>2, HandsSame
<1>12. Lined'
  <2>1. Nexts'[w] = NULL
    BY <1>3, <1>6 DEF Nexts
  <2>2. IsLine({w}, Nexts', w, w)
    <3> HIDE DEF Nexts
    <3> QED BY <2>1, LineOne
  <2> QED BY <1>2, <1>9, <2>2 DEF Lined
<1>13. Marked'
  BY <1>2, <1>3, <1>6, <1>9 DEF Marked
<1>14. \A u \in Thread : pc[u] \notin WaitPCs \cup HoldPCs
  BY <1>4 DEF IInv, Threads, ThreadOK, WaitOK, HoldOK
<1>15. Counts'
  <2>1. \A u \in Thread : On(u, w)' <=> u = t
    BY <1>2, <1>8, <1>14 DEF On, Apart, HoldPCs, WaitPCs
  <2>2. CountOK(w)'
    BY <1>6, <2>1, CountOnly
  <2> QED BY <1>9, <2>2, CountsByBlockNext
<1>16. ThreadOK(t)'
  BY <1>2, <1>6, <1>8, <1>9 DEF ThreadOK, HandOK, WaitOK, HoldOK, SignalOK, WaitPCs, HoldPCs
<1>17. \A u \in Thread \ {t} : waiter[u] # NULL => blk'[waiter[u]] = blk[waiter[u]]
  BY <1>1, <1>3, <1>5 DEF TypeOK
<1>18. (\A u \in Thread \ {t} : ThreadOK(u)') /\ Signals'
  <2>1. pc[t] \notin {"wait", "cvtWait"} /\ pc'[t] \notin SignalPCs
    BY <1>2, <1>8 DEF SignalPCs
  <2>2. \A u \in Thread : pc[u] # "shJoin"
    BY <1>14 DEF HoldPCs
  <2> QED BY <1>4, <1>8, <1>14, <1>17, <2>1, <2>2, OthersKept
<1> QED BY <1>10, <1>11, <1>12, <1>13, <1>15, <1>16, <1>18 DEF IInv, Threads

\* A block is queued behind the last.
LEMMA StepQueue ==
  ASSUME IInv, NEW t \in Thread, LockQueue(t)
  PROVE  IInv'
<1>0. PICK w : w = waiter[t]
  OBVIOUS
<1>1. TypeOK /\ ThreadOK(t) /\ Hands /\ QueueOK /\ Marked
  BY QueueFacts DEF IInv, Threads
<1>2. /\ pc[t] = "lock" /\ tag # "Free" /\ seen[t] = tag /\ ~ JoinsReaders(t, tag)
      /\ blk' = [blk EXCEPT ![last].next = w]
      /\ last' = w /\ tag' = LastState(kind[t])
      /\ mine' = [mine EXCEPT ![t] = w] /\ seen' = [seen EXCEPT ![t] = "Free"]
      /\ waiter' = [waiter EXCEPT ![t] = NULL] /\ pc' = [pc EXCEPT ![t] = "wait"]
      /\ UNCHANGED <<first, avail, cache, kind, sync, status, stale>>
  BY <1>0 DEF LockQueue
<1>3. w # NULL /\ w \in Block /\ InHand(blk[w]) /\ blk[w].type = kind[t] /\ w \notin Queued
      /\ blk[w].event # "set" /\ \A u \in Thread \ {t} : waiter[u] # w
  BY <1>0, <1>1, <1>2 DEF ThreadOK, HandOK, TypeOK, Hands, Queued
<1>4. last \in Queued /\ first \in Queued /\ tag = LastState(blk[last].type) /\ last \in Block
  BY <1>1, <1>2 DEF Marked, QueueOK, Queued
<1>5. \A x \in Block \ {last} : blk'[x] = blk[x]
  BY <1>1, <1>2, <1>4 DEF TypeOK
<1>6. /\ blk'[last] \in Waiters /\ blk'[last].type = blk[last].type /\ blk'[last].own = blk[last].own
      /\ blk'[last].event = blk[last].event /\ blk'[last].ref = blk[last].ref /\ blk'[last].next = w
  <2>1. blk'[last] = [blk[last] EXCEPT !.next = w] /\ blk[last] \in Waiters /\ w \in Block \cup {NULL}
    BY <1>1, <1>2, <1>3, <1>4 DEF TypeOK
  <2> QED BY <2>1, NextFacts
<1>7. blk' \in [Block -> Waiters]
  BY <1>1, <1>2, <1>5, <1>6 DEF TypeOK
<1>8. /\ waiter'[t] = NULL /\ pc'[t] = "wait" /\ kind' = kind /\ mine'[t] = w
      /\ Apart(t) /\ Elsewhere(t) /\ first' = first
  BY <1>1, <1>2 DEF TypeOK, Apart, Elsewhere
<1>9. blk'[w] = blk[w] /\ w # last
  BY <1>3, <1>4, <1>5
<1>10. Queued' = Queued \cup {w}
  <2>1. \A x \in Block : blk'[x].type = blk[x].type
    BY <1>5, <1>6
  <2>2. w \in Queued'
    BY <1>3, <1>8, <2>1 DEF Queued, Elsewhere, InHand
  <2>3. \A x \in Block : x # w => (\A u \in Thread : waiter'[u] # x) <=> (\A u \in Thread : waiter[u] # x)
    BY <1>0, <1>8, NullNoBlock DEF Elsewhere, NoBlock
  <2> QED BY <1>3, <2>1, <2>2, <2>3 DEF Queued
<1>11. TypeOK'
  <2>1. tag' \in {"Free", "LastReader", "LastWriter"}
    BY <1>2 DEF LastState
  <2> QED BY <1>1, <1>2, <1>3, <1>7, <2>1 DEF TypeOK, HoldPCs
<1>12. Hands'
  <2>1. UNCHANGED <<cache, avail>>
    BY <1>2
  <2>2. \A x \in Block : x \notin Queued /\ x # waiter[t] => blk'[x] = blk[x]
    BY <1>0, <1>4, <1>5
  <2> QED BY <1>1, <1>8, <2>1, <2>2, HandsSame
<1>13. Lined'
  <2>1. /\ Nexts'[last] = w /\ Nexts'[w] = NULL
        /\ \A b \in Queued : b # last => Nexts'[b] = Nexts[b]
    BY <1>3, <1>4, <1>5, <1>6, <1>9 DEF Nexts, Queued, InHand
  <2>2. IsLine(Queued, Nexts, first, last) /\ NULL \notin Queued /\ Queued # {}
    BY <1>4, NullNoBlock DEF IInv, Lined, NoBlock, Queued
  <2>3. IsLine(Queued \cup {w}, Nexts', first, w)
    <3> HIDE DEF Queued, Nexts
    <3> QED BY <1>3, <2>1, <2>2, LineAppend
  <2> QED BY <1>2, <1>8, <1>10, <2>3 DEF Lined
<1>14. Marked'
  <2>1. tag' = IF last' = NULL THEN "Free" ELSE LastState(blk'[last'].type)
    BY <1>2, <1>3, <1>9
  <2>2. \A b \in Queued' : blk'[b].own <=> b = first'
    BY <1>1, <1>3, <1>4, <1>5, <1>6, <1>8, <1>9, <1>10 DEF Marked, InHand, Queued
  <2>3. ASSUME NEW b \in Queued', blk'[b].type = "reader", blk'[b].next # NULL
        PROVE  blk'[blk'[b].next].type = "writer"
    <3>1. CASE b = last
      <4>1. blk'[b].next = w /\ kind[t] # "reader"
        BY <1>2, <1>4, <1>6, <2>3, <3>1 DEF JoinsReaders, LastState
      <4> QED BY <1>1, <1>3, <1>9, <4>1 DEF TypeOK, Kinds
    <3>2. CASE b = w
      BY <1>3, <1>9, <2>3, <3>2 DEF InHand
    <3>3. CASE b # last /\ b # w
      <4>1. b \in Queued /\ blk'[b] = blk[b]
        BY <1>5, <1>10, <2>3, <3>3 DEF Queued
      <4>2. blk[b].next \in Queued /\ blk[blk[b].next].type = "writer"
        BY <1>1, <2>3, <4>1 DEF QueueOK, Marked
      <4> QED BY <1>5, <1>6, <4>1, <4>2 DEF Queued
    <3> QED BY <3>1, <3>2, <3>3
  <2> QED BY <2>1, <2>2, <2>3 DEF Marked
<1>15. Counts'
  <2>1. \A b \in Queued : CountOK(b) /\ blk'[b].ref = blk[b].ref /\ blk'[b].type = blk[b].type
    BY <1>5, <1>6, CountsByBlock DEF IInv, Queued
  <2>2. \A b \in Queued, u \in Thread : On(u, b)' <=> On(u, b)
    BY <1>2, <1>3, <1>8 DEF On, Apart, WaitPCs, HoldPCs
  <2>3. \A b \in Queued : CountOK(b)'
    <3> HIDE DEF Queued, CountOK, On
    <3> QED BY <2>1, <2>2, CountKept
  <2>4. \A u \in Thread : On(u, w)' <=> u = t
    <3>1. \A u \in Thread : On(u, w) => FALSE
      BY <1>3, <1>4 DEF On, IInv, Threads, ThreadOK, WaitOK, HoldOK
    <3> QED BY <1>3, <1>4, <1>8, <3>1 DEF On, Apart, WaitPCs
  <2>5. CountOK(w)'
    BY <1>3, <1>9, <2>4, CountOnly DEF InHand
  <2> QED BY <1>10, <2>3, <2>5, CountsByBlockNext
<1>16. ThreadOK(t)'
  <2>1. WaitOK(t)'
    BY <1>3, <1>8, <1>9, <1>10 DEF WaitOK, Asked
  <2> QED BY <1>8, <2>1 DEF ThreadOK, HandOK, HoldOK, SignalOK, HoldPCs
<1>17. \A u \in Thread \ {t} : waiter[u] # NULL => blk'[waiter[u]] = blk[waiter[u]]
  BY <1>1, <1>4, <1>5 DEF TypeOK, Queued
<1>18. (\A u \in Thread \ {t} : ThreadOK(u)') /\ Signals'
  <2>1. pc[t] \notin {"wait", "cvtWait"} /\ pc'[t] \notin SignalPCs
    BY <1>2, <1>8 DEF SignalPCs
  <2>2. \A b \in Queued : Stays(t, b)
    BY <1>5, <1>6, <1>10 DEF Stays, Queued
  <2>3. ASSUME NEW u \in Thread \ {t}, pc[u] = "shJoin"
        PROVE  blk'[first].next = blk[first].next /\ blk'[blk[first].next].type = blk[blk[first].next].type
    <3>1. blk[first].next # NULL
      BY <2>3 DEF IInv, Threads, ThreadOK, HoldOK, HoldPCs
    <3>2. first # last /\ blk[first].next \in Queued
      BY <1>1, <1>4, <3>1 DEF QueueOK
    <3> QED BY <1>4, <1>5, <1>6, <3>2 DEF Queued
  <2> QED BY <1>8, <1>17, <2>1, <2>2, <2>3, OthersKept
<1> QED BY <1>11, <1>12, <1>13, <1>14, <1>15, <1>16, <1>18 DEF IInv, Threads

\* The number of readers of a block changes, and nothing else in the queue.
LEMMA Recounted ==
  ASSUME IInv, TypeOK', Hands', NEW t \in Thread, Apart(t), ThreadOK(t)',
         UNCHANGED queue, Queued' = Queued, NEW l \in Queued,
         \A b \in Queued \ {l} : blk'[b] = blk[b],
         blk'[l].type = "reader", blk[l].type = "reader", blk'[l].own = blk[l].own,
         blk'[l].next = blk[l].next, blk'[l].event = blk[l].event,
         \/ blk'[l].ref = blk[l].ref + 1 /\ ~ On(t, l) /\ On(t, l)'
         \/ blk'[l].ref = blk[l].ref - 1 /\ On(t, l) /\ ~ On(t, l)' /\ blk[l].ref > 1,
         \A b \in Queued \ {l} : On(t, b)' <=> On(t, b),
         \A u \in Thread \ {t} : waiter[u] # NULL => blk'[waiter[u]] = blk[waiter[u]],
         pc[t] \notin {"wait", "cvtWait"}, pc'[t] \notin SignalPCs
  PROVE  IInv'
<1>1. last' = last /\ tag' = tag /\ first' = first
  BY DEF queue
<1>2. QueueOK /\ Marked
  BY QueueFacts DEF IInv
<1>3. \A b \in Queued :
        blk'[b].type = blk[b].type /\ blk'[b].own = blk[b].own /\ blk'[b].next = blk[b].next
        /\ blk'[b].event = blk[b].event
  OBVIOUS
<1>4. Lined'
  <2>1. \A b \in Queued : Nexts'[b] = Nexts[b]
    BY <1>3 DEF Nexts, Queued
  <2>2. IsLine(Queued, Nexts, first, last)
    BY DEF IInv, Lined
  <2>3. IsLine(Queued, Nexts', first, last)
    <3> HIDE DEF Queued, Nexts
    <3> QED BY <2>1, <2>2, LineSame
  <2> QED BY <1>1, <2>3 DEF Lined
<1>5. Marked'
  BY <1>1, <1>2, <1>3 DEF Marked, QueueOK
<1>6. \A u \in Thread \ {t}, b \in Queued : On(u, b)' <=> On(u, b)
  BY <1>1 DEF Apart, On
<1>7. Counts'
  <2>1. \A b \in Queued : CountOK(b) /\ blk[b].ref \in Nat
    BY CountFacts, CountsByBlock DEF IInv
  <2>2. ASSUME NEW b \in Queued, b # l PROVE CountOK(b)'
    <3>1. \A u \in Thread : On(u, b)' <=> On(u, b)
      BY <1>6, <2>2
    <3>2. blk'[b].ref = blk[b].ref /\ blk'[b].type = blk[b].type
      BY <2>2
    <3> QED BY <2>1, <3>1, <3>2, CountKept
  <2>3. CountOK(l)'
    <3>1. CASE blk'[l].ref = blk[l].ref + 1 /\ ~ On(t, l) /\ On(t, l)'
      <4> HIDE DEF CountOK, On
      <4> QED BY <1>6, <2>1, <3>1, CountMore
    <3>2. CASE blk'[l].ref = blk[l].ref - 1 /\ On(t, l) /\ ~ On(t, l)' /\ blk[l].ref > 1
      <4> HIDE DEF CountOK, On
      <4> QED BY <1>6, <2>1, <3>2, CountLess
    <3> QED BY <3>1, <3>2
  <2> QED BY <2>2, <2>3, CountsByBlockNext
<1>8. (\A u \in Thread \ {t} : ThreadOK(u)') /\ Signals'
  <2>1. \A b \in Queued : Stays(t, b)
    BY <1>3 DEF Stays
  <2>2. ASSUME NEW u \in Thread \ {t}, pc[u] = "shJoin"
        PROVE  blk'[first].next = blk[first].next /\ blk'[blk[first].next].type = blk[blk[first].next].type
    <3>1. first \in Queued /\ blk[first].next # NULL
      BY <2>2 DEF IInv, Threads, ThreadOK, HoldOK, HoldPCs
    <3>2. blk[first].next \in Queued
      BY <1>2, <3>1 DEF QueueOK
    <3> QED BY <1>3, <3>1, <3>2
  <2> QED BY <1>1, <2>1, <2>2, OthersKept
<1> QED BY <1>4, <1>5, <1>7, <1>8 DEF IInv, Threads

\* The event of a block is set only when the block owns the lock.
LEMMA SetOwns ==
  ASSUME IInv, NEW b \in Queued, blk[b].event = "set"
  PROVE  blk[b].own
<1>1. PICK u \in Thread : On(u, b)
  BY CountFacts
<1>2. CASE pc[u] \in WaitPCs /\ mine[u] = b
  BY <1>2 DEF IInv, Threads, ThreadOK, WaitOK
<1>3. CASE pc[u] \in HoldPCs /\ first = b
  BY <1>3 DEF IInv, Marked
<1> QED BY <1>1, <1>2, <1>3 DEF On

\* A reader joins the last block.
LEMMA StepShare ==
  ASSUME IInv, NEW t \in Thread, LockSharedOnLastReader(t)
  PROVE  IInv'
<1>0. PICK l, w : l = last /\ w = waiter[t]
  OBVIOUS
<1> DEFINE q == [blk EXCEPT ![l].ref = blk[l].ref + 1]
<1>1. TypeOK /\ ThreadOK(t) /\ Hands /\ QueueOK /\ Marked
  BY QueueFacts DEF IInv, Threads
<1>2. /\ pc[t] = "lock" /\ tag = "LastReader" /\ kind[t] = "reader"
      /\ StoreOrFree(t, q, w, NULL)
      /\ mine' = [mine EXCEPT ![t] = l] /\ seen' = [seen EXCEPT ![t] = "Free"]
      /\ waiter' = [waiter EXCEPT ![t] = NULL]
      /\ pc' = [pc EXCEPT ![t] = IF blk[l].own THEN "own" ELSE "wait"]
      /\ UNCHANGED <<queue, kind, sync, status, stale>>
  BY <1>0 DEF LockSharedOnLastReader
<1>3. l \in Queued /\ blk[l].type = "reader" /\ l \in Block
  <2>1. last # NULL /\ LastState(blk[last].type) = "LastReader"
    BY <1>1, <1>2 DEF Marked
  <2>2. last \in Queued
    BY <1>1, <2>1 DEF QueueOK
  <2> QED BY <1>0, <2>1, <2>2 DEF LastState, Queued
<1>4. blk[l].ref \in Nat
  BY <1>3, CountFacts
<1>5. /\ q[l] \in Waiters /\ q[l].event = blk[l].event /\ q[l].type = "reader"
      /\ q[l].own = blk[l].own /\ q[l].next = blk[l].next /\ q[l].ref = blk[l].ref + 1
  <2>1. q[l] = [blk[l] EXCEPT !.ref = blk[l].ref + 1] /\ blk[l] \in Waiters /\ blk[l].ref + 1 \in Nat
    BY <1>1, <1>3, <1>4 DEF TypeOK
  <2> HIDE DEF q
  <2> QED BY <1>3, <2>1, RefFacts
<1>6. \A x \in Block \ {l} : q[x] = blk[x]
  BY <1>1 DEF TypeOK
<1>7. q \in [Block -> Waiters]
  BY <1>1, <1>5 DEF TypeOK
<1> HIDE DEF q
<1>8. /\ waiter'[t] = NULL /\ mine'[t] = l /\ Apart(t) /\ Elsewhere(t)
      /\ pc'[t] = IF blk[l].own THEN "own" ELSE "wait"
  BY <1>1, <1>2 DEF TypeOK, Apart, Elsewhere
<1>9. w \in Block \cup {NULL} /\ w \notin Queued
      /\ (w # NULL => blk[w].type \in Kinds /\ \A u \in Thread \ {t} : waiter[u] # w)
  BY <1>0, <1>1, NullNoBlock DEF TypeOK, Queued, Hands, InHand, NoBlock
<1>10. /\ blk' \in [Block -> Waiters] /\ cache' \in [Thread -> Block \cup {NULL}]
       /\ avail' \in BOOLEAN
       /\ Hands' /\ Queued' = Queued \ {w, NULL}
       /\ \A x \in Block \ {w, NULL} : blk'[x] = q[x]
  <2>1. \A x \in Block : x \notin Queued => q[x] = blk[x]
    BY <1>3, <1>6
  <2>2. \A x \in Queued : q[x].type \in Kinds
    BY <1>5, <1>6 DEF Queued, Kinds
  <2>3. \A x \in {w, NULL} : x # NULL =>
           blk[x].type \in Kinds /\ \A u \in Thread \ {t} : waiter[u] # x
    BY <1>9
  <2>4. waiter[t] \in {w, NULL, NULL}
    BY <1>0
  <2> QED BY <1>1, <1>2, <1>7, <1>8, <1>9, <2>1, <2>2, <2>3, <2>4, HandsSpared
<1>11. Queued' = Queued /\ \A x \in Queued : x \in Block /\ blk'[x] = q[x]
  BY <1>9, <1>10, NullNoBlock DEF Queued, NoBlock
<1>12. TypeOK'
  <2>1. pc' \in [Thread -> HoldPCs \cup {"idle", "look", "alloc", "lock", "wait",
                                   "own", "signal", "cvtWait"}]
    BY <1>1, <1>2 DEF TypeOK
  <2>2. mine' \in [Thread -> Block \cup {NULL}] /\ waiter' \in [Thread -> Block \cup {NULL}]
        /\ seen' \in [Thread -> {"Free", "LastReader", "LastWriter"}]
    BY <1>1, <1>2, <1>3 DEF TypeOK
  <2> QED BY <1>1, <1>2, <1>10, <2>1, <2>2 DEF TypeOK, queue
<1>13. kind'[t] = "reader" /\ first' = first
  BY <1>2 DEF queue
<1>14. ThreadOK(t)'
  <2>1. blk[l].event = "set" => blk[l].own
    BY <1>3, SetOwns
  <2>2. WaitOK(t)'
    BY <1>3, <1>5, <1>8, <1>11, <1>13, <2>1 DEF WaitOK, Asked
  <2> QED BY <1>8, <2>2 DEF ThreadOK, HandOK, HoldOK, SignalOK, HoldPCs
<1>15. \A u \in Thread \ {t} : waiter[u] # NULL => blk'[waiter[u]] = blk[waiter[u]]
  <2> SUFFICES ASSUME NEW u \in Thread \ {t}, waiter[u] # NULL PROVE blk'[waiter[u]] = blk[waiter[u]]
    OBVIOUS
  <2>1. waiter[u] \in Block /\ waiter[u] \notin Queued /\ waiter[u] # w
    BY <1>1, <1>9 DEF TypeOK, Queued
  <2> QED BY <1>3, <1>6, <1>10, <2>1
<1>16. ~ On(t, l) /\ On(t, l)' /\ \A b \in Queued \ {l} : On(t, b)' <=> On(t, b)
  BY <1>2, <1>8 DEF On, WaitPCs, HoldPCs
<1>17. pc[t] \notin {"wait", "cvtWait"} /\ pc'[t] \notin SignalPCs
  BY <1>2, <1>8 DEF SignalPCs
<1> HIDE DEF On
<1>18. /\ UNCHANGED queue
       /\ \A b \in Queued \ {l} : blk'[b] = blk[b]
       /\ blk'[l].type = "reader" /\ blk'[l].own = blk[l].own /\ blk'[l].next = blk[l].next
       /\ blk'[l].event = blk[l].event /\ blk'[l].ref = blk[l].ref + 1
  BY <1>2, <1>3, <1>5, <1>6, <1>11
<1> QED
  BY <1>3, <1>8, <1>10, <1>11, <1>12, <1>14, <1>15, <1>16, <1>17, <1>18, Recounted

\* A reader leaves a block that others still read under.
LEMMA StepLeave ==
  ASSUME IInv, NEW t \in Thread, UnlockShared(t), blk[mine[t]].ref # 1
  PROVE  IInv'
<1>0. PICK l : l = first
  OBVIOUS
<1>1. TypeOK /\ ThreadOK(t) /\ Hands
  BY DEF IInv, Threads
<1>2. pc[t] = "unlock" /\ kind[t] = "reader"
  BY DEF UnlockShared
<1>3. l \in Queued /\ blk[l].type = "reader" /\ l \in Block /\ mine[t] = l /\ waiter[t] = NULL
  BY <1>0, <1>1, <1>2 DEF ThreadOK, HandOK, HoldOK, HoldPCs, Queued
<1>4. /\ blk' = [blk EXCEPT ![l].ref = blk[l].ref - 1]
      /\ mine' = [mine EXCEPT ![t] = NULL] /\ pc' = [pc EXCEPT ![t] = "idle"]
      /\ UNCHANGED <<queue, avail, cache, waiter, seen, sync, status, stale>>
      /\ kind' = [kind EXCEPT ![t] = "reader"]
  BY <1>3 DEF UnlockShared
<1>5. blk[l].ref \in Nat /\ blk[l].ref > 1 /\ blk[l].ref - 1 \in Nat
  BY <1>3, CountFacts
<1>6. /\ blk'[l] \in Waiters /\ blk'[l].event = blk[l].event /\ blk'[l].type = "reader"
      /\ blk'[l].own = blk[l].own /\ blk'[l].next = blk[l].next /\ blk'[l].ref = blk[l].ref - 1
  <2>1. blk'[l] = [blk[l] EXCEPT !.ref = blk[l].ref - 1] /\ blk[l] \in Waiters
    BY <1>1, <1>3, <1>4 DEF TypeOK
  <2> QED BY <1>3, <1>5, <2>1, RefFacts
<1>7. \A x \in Block \ {l} : blk'[x] = blk[x]
  BY <1>1, <1>4 DEF TypeOK
<1>8. blk' \in [Block -> Waiters]
  BY <1>1, <1>4, <1>6, <1>7 DEF TypeOK
<1>9. kind' = kind /\ pc'[t] = "idle" /\ Apart(t) /\ Elsewhere(t) /\ first' = first
      /\ waiter' = waiter
  BY <1>1, <1>2, <1>4 DEF TypeOK, Apart, Elsewhere, queue
<1>10. Queued' = Queued
  <2>1. \A x \in Block : blk'[x].type = blk[x].type
    BY <1>3, <1>6, <1>7
  <2> QED BY <1>9, <2>1 DEF Queued
<1>11. Hands'
  <2>1. \A x \in Block : x \notin Queued /\ x # waiter[t] => blk'[x] = blk[x]
    BY <1>3, <1>7
  <2>2. UNCHANGED <<cache, avail>> /\ waiter'[t] = NULL
    BY <1>3, <1>4, <1>9
  <2> QED BY <1>1, <1>9, <2>1, <2>2, HandsSame
<1>12. TypeOK'
  BY <1>1, <1>4, <1>8, <1>9 DEF TypeOK, queue
<1>13. ThreadOK(t)'
  BY <1>3, <1>9 DEF ThreadOK, HandOK, WaitOK, HoldOK, SignalOK, WaitPCs, HoldPCs
<1>14. \A u \in Thread \ {t} : waiter[u] # NULL => blk'[waiter[u]] = blk[waiter[u]]
  BY <1>1, <1>3, <1>7 DEF TypeOK, Queued
<1>15. On(t, l) /\ ~ On(t, l)' /\ \A b \in Queued \ {l} : On(t, b)' <=> On(t, b)
  BY <1>0, <1>2, <1>9 DEF On, WaitPCs, HoldPCs
<1>16. pc[t] \notin {"wait", "cvtWait"} /\ pc'[t] \notin SignalPCs
  BY <1>2, <1>9 DEF SignalPCs
<1> HIDE DEF On
<1>17. UNCHANGED queue /\ \A b \in Queued \ {l} : blk'[b] = blk[b]
  BY <1>4, <1>7 DEF Queued
<1> QED
  BY <1>3, <1>5, <1>6, <1>9, <1>10, <1>11, <1>12, <1>13, <1>14, <1>15, <1>16, <1>17, Recounted

\* The last holder of the first block gives the block up.
LEMMA StepPassOn ==
  ASSUME IInv, NEW t \in Thread,
         UnlockExclusive(t) \/ (UnlockShared(t) /\ blk[mine[t]].ref = 1)
  PROVE  IInv'
<1>0. PICK f, n : f = first /\ n = blk[f].next
  OBVIOUS
<1>1. TypeOK /\ ThreadOK(t) /\ Hands /\ QueueOK /\ Marked
  BY QueueFacts DEF IInv, Threads
<1>2. /\ pc[t] = "unlock" /\ PassOn(t) /\ kind' = [kind EXCEPT ![t] = "reader"]
      /\ UNCHANGED <<waiter, seen, sync, status, stale>>
  BY DEF UnlockShared, UnlockExclusive
<1>3. /\ f \in Queued /\ f \in Block /\ mine[t] = f /\ waiter[t] = NULL /\ blk[f].type \in Kinds
      /\ blk[f].type = kind[t] /\ On(t, f) /\ pc[t] \in HoldPCs
  BY <1>0, <1>1, <1>2 DEF ThreadOK, HandOK, HoldOK, HoldPCs, Queued, On
<1>4. blk[f].ref = 1
  BY <1>3, CountFacts DEF UnlockExclusive
<1>5. \A u \in Thread : On(u, f) => u = t
  BY <1>0, <1>3, <1>4, HoldFacts
<1>6. \A u \in Thread \ {t} : pc[u] \notin HoldPCs
  BY <1>0, <1>5 DEF On
<1>7. \A u \in Thread \ {t}, b \in Queued : On(u, b) => pc[u] \in WaitPCs /\ mine[u] = b /\ b # f
  BY <1>5, <1>6 DEF On
<1>8. waiter' = waiter /\ Elsewhere(t) /\ waiter'[t] = NULL
  BY <1>2, <1>3 DEF Elsewhere
<1>9. NULL \notin Block /\ \A u \in Thread : waiter[u] # f
  BY <1>3, NullNoBlock DEF NoBlock, Queued
<1>10. CASE n # NULL
  <2> DEFINE q == [blk EXCEPT ![n].own = TRUE]
  <2>1. n \in Queued /\ n # f /\ n \in Block
    BY <1>0, <1>1, <1>3, <1>10 DEF QueueOK, Queued
  <2>2. /\ first' = n /\ StoreOrFree(t, q, f, NULL) /\ mine' = [mine EXCEPT ![t] = n]
        /\ pc' = [pc EXCEPT ![t] = "signal"] /\ UNCHANGED <<last, tag>>
    BY <1>0, <1>2, <1>3, <1>10 DEF PassOn
  <2>3. /\ q[n] \in Waiters /\ q[n].event = blk[n].event /\ q[n].type = blk[n].type
        /\ q[n].own /\ q[n].next = blk[n].next /\ q[n].ref = blk[n].ref
    <3>1. q[n] = [blk[n] EXCEPT !.own = TRUE] /\ blk[n] \in Waiters
      BY <1>1, <2>1 DEF TypeOK
    <3> HIDE DEF q
    <3> QED BY <3>1, OwnFacts
  <2>4. \A x \in Block \ {n} : q[x] = blk[x]
    BY <1>1 DEF TypeOK
  <2>5. q \in [Block -> Waiters]
    BY <1>1, <2>3 DEF TypeOK
  <2> HIDE DEF q
  <2>6. pc'[t] = "signal" /\ mine'[t] = n /\ Apart(t)
    BY <1>1, <1>2, <2>2 DEF TypeOK, Apart
  <2>7. /\ blk' \in [Block -> Waiters] /\ cache' \in [Thread -> Block \cup {NULL}]
        /\ avail' \in BOOLEAN
        /\ Hands' /\ Queued' = Queued \ {f, NULL}
        /\ \A x \in Block \ {f, NULL} : blk'[x] = q[x]
    <3>1. \A x \in Block : x \notin Queued => q[x] = blk[x]
      BY <2>1, <2>4
    <3>2. \A x \in Queued : q[x].type \in Kinds
      BY <2>3, <2>4 DEF Queued
    <3>3. \A x \in {f, NULL} : x # NULL =>
             blk[x].type \in Kinds /\ \A u \in Thread \ {t} : waiter[u] # x
      BY <1>3, <1>9
    <3>4. waiter[t] \in {f, NULL, NULL} /\ f \in Block \cup {NULL} /\ NULL \in Block \cup {NULL}
      BY <1>3
    <3> QED BY <1>1, <1>8, <2>2, <2>5, <3>1, <3>2, <3>3, <3>4, HandsSpared
  <2>8. Queued' = Queued \ {f} /\ \A x \in Queued' : x \in Block /\ x \in Queued /\ x # f /\ blk'[x] = q[x]
    BY <1>9, <2>7 DEF Queued
  <2>9. \A x \in Queued' :
          /\ blk'[x].type = blk[x].type /\ blk'[x].next = blk[x].next /\ blk'[x].ref = blk[x].ref
          /\ blk'[x].event = blk[x].event /\ (blk'[x].own <=> x = n)
    <3> SUFFICES ASSUME NEW x \in Queued'
                 PROVE  /\ blk'[x].type = blk[x].type /\ blk'[x].next = blk[x].next /\ blk'[x].ref = blk[x].ref
                        /\ blk'[x].event = blk[x].event /\ (blk'[x].own <=> x = n)
      OBVIOUS
    <3>1. CASE x = n
      BY <2>3, <2>8, <3>1
    <3>2. CASE x # n
      <4>1. blk'[x] = blk[x] /\ ~ blk[x].own
        BY <1>0, <1>1, <2>4, <2>8, <3>2 DEF Marked
      <4> QED BY <3>2, <4>1
    <3> QED BY <3>1, <3>2
  <2>10. TypeOK'
    <3>1. pc' \in [Thread -> HoldPCs \cup {"idle", "look", "alloc", "lock", "wait",
                                   "own", "signal", "cvtWait"}]
      BY <1>1, <2>2 DEF TypeOK
    <3>2. mine' \in [Thread -> Block \cup {NULL}] /\ kind' \in [Thread -> Kinds]
      BY <1>1, <1>2, <2>1, <2>2 DEF TypeOK, Kinds
    <3> QED BY <1>1, <1>2, <2>1, <2>2, <2>7, <3>1, <3>2 DEF TypeOK
  <2>11. Lined'
    <3>1. /\ Nexts[f] = n
          /\ \A b \in Queued : b # f => Nexts'[b] = Nexts[b]
      BY <1>0, <1>3, <2>8, <2>9 DEF Nexts
    <3>2. IsLine(Queued, Nexts, f, last) /\ NULL \notin Queued /\ Queued # {}
      BY <1>0, <1>3, <1>9 DEF IInv, Lined, Queued
    <3>3. IsLine(Queued \ {f}, Nexts', n, last)
      <4> HIDE DEF Queued, Nexts
      <4> QED BY <1>10, <3>1, <3>2, LineTail
    <3> QED BY <2>2, <2>8, <3>3 DEF Lined
  <2>12. last \in Queued' /\ last # NULL
    BY <1>0, <1>1, <1>3, <1>9, <1>10, <2>8 DEF QueueOK, Queued
  <2>13. Marked'
    <3>1. tag' = IF last' = NULL THEN "Free" ELSE LastState(blk'[last'].type)
      BY <1>1, <2>2, <2>9, <2>12 DEF Marked
    <3>2. \A b \in Queued' : blk'[b].own <=> b = first'
      BY <2>2, <2>9
    <3>3. \A b \in Queued' : blk'[b].type = "reader" /\ blk'[b].next # NULL => blk'[blk'[b].next].type = "writer"
      <4>1. \A b \in Queued' : blk'[b].next # NULL => blk'[b].next \in Queued'
        BY <1>0, <1>1, <2>8, <2>9 DEF QueueOK
      <4> QED BY <1>1, <2>8, <2>9, <4>1 DEF Marked
    <3> QED BY <3>1, <3>2, <3>3 DEF Marked
  <2>14. Counts'
    <3>1. \A b \in Queued : CountOK(b)
      BY CountsByBlock DEF IInv
    <3>2. \A b \in Queued', u \in Thread : On(u, b)' <=> On(u, b)
      BY <1>0, <1>3, <1>6, <2>6, <2>8 DEF On, Apart, WaitPCs, HoldPCs
    <3>3. \A b \in Queued' : CountOK(b)'
      <4>1. \A b \in Queued' : CountOK(b) /\ blk'[b].ref = blk[b].ref /\ blk'[b].type = blk[b].type
        BY <2>8, <2>9, <3>1
      <4> HIDE DEF Queued, CountOK, On
      <4> QED BY <3>2, <4>1, CountKept
    <3> QED BY <3>3, CountsByBlockNext
  <2>15. ThreadOK(t)'
    <3>1. PICK u \in Thread : On(u, n)
      BY <2>1, CountFacts
    <3>2. u # t /\ pc[u] \in WaitPCs /\ mine[u] = n
      BY <1>0, <1>6, <2>1, <3>1, <1>3 DEF On, WaitPCs, HoldPCs
    <3>3. ~ blk[n].own
      BY <1>0, <1>1, <2>1 DEF Marked
    <3>4. pc[u] # "own" /\ blk[n].event # "set"
      BY <3>2, <3>3 DEF IInv, Threads, ThreadOK, WaitOK
    <3>5. pc'[u] \in {"wait", "cvtWait"} /\ mine'[u] = n
      BY <2>6, <3>2, <3>4 DEF Apart, WaitPCs
    <3>6. n \in Queued' /\ blk'[n].own /\ blk'[n].event # "set"
      BY <2>1, <2>8, <2>9, <3>4
    <3>7. SignalOK(t)'
      BY <2>6, <3>5, <3>6 DEF SignalOK
    <3> QED BY <1>8, <2>6, <3>7 DEF ThreadOK, HandOK, WaitOK, HoldOK, WaitPCs, HoldPCs
  <2>16. \A u \in Thread \ {t} : waiter[u] # NULL => blk'[waiter[u]] = blk[waiter[u]]
    <3> SUFFICES ASSUME NEW u \in Thread \ {t}, waiter[u] # NULL PROVE blk'[waiter[u]] = blk[waiter[u]]
      OBVIOUS
    <3>1. waiter[u] \in Block /\ waiter[u] # f /\ waiter[u] # n
      BY <1>1, <1>9, <2>1 DEF TypeOK, Queued
    <3> QED BY <1>9, <2>4, <2>7, <3>1
  <2>17. (\A u \in Thread \ {t} : ThreadOK(u)') /\ Signals'
    <3>1. \A b \in Queued : (\E u \in Thread \ {t} : On(u, b)) => Stays(t, b)
      BY <1>0, <1>1, <1>7, <2>1, <2>8, <2>9 DEF Stays, Marked
    <3>2. \A u \in Thread \ {t} : pc[u] \in SignalPCs => mine[u] # mine'[t]
      <4>1. \A u \in Thread \ {t} : pc[u] \in SignalPCs => mine[u] = f
        BY <1>0, <1>1, <1>6 DEF SignalPCs, HoldPCs, IInv, Threads, ThreadOK, SignalOK, Marked
      <4> QED BY <2>1, <2>6, <4>1
    <3>3. pc[t] \notin {"wait", "cvtWait"} /\ \A u \in Thread \ {t} : pc[u] # "shJoin"
      BY <1>2, <1>6 DEF HoldPCs
    <3> QED BY <1>6, <2>6, <2>16, <3>1, <3>2, <3>3, OthersKept
  <2> QED BY <2>7, <2>10, <2>11, <2>13, <2>14, <2>15, <2>17 DEF IInv, Threads
<1>11. CASE n = NULL
  <2>1. Queued = {f}
    <3>1. IsLine(Queued, Nexts, f, last) /\ NULL \notin Queued /\ Queued # {} /\ Nexts[f] = NULL
      BY <1>0, <1>3, <1>9, <1>11 DEF IInv, Lined, Queued, Nexts
    <3> HIDE DEF Queued, Nexts
    <3> QED BY <3>1, LineLast
  <2>2. /\ last' = NULL /\ tag' = "Free" /\ StoreOrFree(t, blk, f, NULL)
        /\ mine' = [mine EXCEPT ![t] = NULL] /\ pc' = [pc EXCEPT ![t] = "idle"] /\ UNCHANGED first
    BY <1>0, <1>2, <1>3, <1>11 DEF PassOn
  <2>3. pc'[t] = "idle" /\ Apart(t)
    BY <1>1, <1>2, <2>2 DEF TypeOK, Apart
  <2>4. /\ blk' \in [Block -> Waiters] /\ cache' \in [Thread -> Block \cup {NULL}]
        /\ avail' \in BOOLEAN
        /\ Hands' /\ Queued' = Queued \ {f, NULL}
        /\ \A x \in Block \ {f, NULL} : blk'[x] = blk[x]
    <3>1. blk \in [Block -> Waiters] /\ \A x \in Queued : blk[x].type \in Kinds
      BY <1>1 DEF TypeOK, Queued
    <3>2. \A x \in {f, NULL} : x # NULL =>
             blk[x].type \in Kinds /\ \A u \in Thread \ {t} : waiter[u] # x
      BY <1>3, <1>9
    <3>3. waiter[t] \in {f, NULL, NULL} /\ f \in Block \cup {NULL} /\ NULL \in Block \cup {NULL}
      BY <1>3
    <3> QED BY <1>1, <1>8, <2>2, <3>1, <3>2, <3>3, HandsSpared
  <2>5. Queued' = {}
    BY <2>1, <2>4
  <2>6. TypeOK'
    <3>1. kind' \in [Thread -> Kinds] /\ mine' \in [Thread -> Block \cup {NULL}]
      BY <1>1, <1>2, <2>2 DEF TypeOK, Kinds
    <3> QED BY <1>1, <1>2, <2>2, <2>4, <3>1 DEF TypeOK
  <2>7. Lined'
    BY <2>2, <2>5, LineNone DEF Lined
  <2>8. Marked' /\ Counts'
    BY <2>2, <2>5, CountsByBlockNext DEF Marked
  <2>9. ThreadOK(t)'
    BY <1>8, <2>3 DEF ThreadOK, HandOK, WaitOK, HoldOK, SignalOK, WaitPCs, HoldPCs
  <2>10. \A u \in Thread \ {t} : waiter[u] # NULL => blk'[waiter[u]] = blk[waiter[u]]
    BY <1>1, <1>9, <2>4 DEF TypeOK
  <2>11. (\A u \in Thread \ {t} : ThreadOK(u)') /\ Signals'
    <3>1. \A b \in Queued : (\E u \in Thread \ {t} : On(u, b)) => Stays(t, b)
      BY <1>7, <2>1
    <3>2. pc'[t] \notin SignalPCs
      BY <2>3 DEF SignalPCs
    <3>3. pc[t] \notin {"wait", "cvtWait"} /\ \A u \in Thread \ {t} : pc[u] # "shJoin"
      BY <1>2, <1>6 DEF HoldPCs
    <3> QED BY <1>6, <2>3, <2>10, <3>1, <3>2, <3>3, OthersKept
  <2> QED BY <2>4, <2>6, <2>7, <2>8, <2>9, <2>11 DEF IInv, Threads
<1> QED BY <1>10, <1>11

\* The only holder changes the kind of the first block where it stands.
LEMMA Rekinded ==
  ASSUME IInv, TypeOK', Hands', NEW t \in Thread, Apart(t), pc[t] \in HoldPCs,
         pc'[t] = "held", waiter'[t] = NULL, NEW k \in Kinds, kind'[t] = k,
         last' = last, first' = first, Queued' = Queued,
         NEW f, f = first, blk[f].ref = 1, blk'[f].type = k, blk'[f].own, blk'[f].ref = 1,
         blk'[f].next = blk[f].next, blk'[f].event = blk[f].event,
         tag' = IF last = f THEN LastState(k) ELSE tag,
         k = "reader" /\ blk[f].next # NULL => blk[blk[f].next].type = "writer",
         \A b \in Queued \ {f} : SameBlock(b) /\ blk'[b].event = blk[b].event,
         \A u \in Thread \ {t} : waiter[u] # NULL => blk'[waiter[u]] = blk[waiter[u]]
  PROVE  IInv'
<1>1. QueueOK /\ Marked
  BY QueueFacts DEF IInv
<1>2. f \in Queued /\ On(t, f) /\ \A u \in Thread : On(u, f) => u = t
  BY HoldFacts DEF On
<1>3. \A u \in Thread \ {t} : pc[u] \notin HoldPCs
  BY <1>2 DEF On
<1>4. \A b \in Queued : blk'[b].next = blk[b].next /\ (blk'[b].own <=> b = f)
  BY <1>1 DEF SameBlock, Marked
<1>5. Lined'
  <2>1. \A b \in Queued : Nexts'[b] = Nexts[b]
    BY <1>4 DEF Nexts, Queued
  <2>2. IsLine(Queued, Nexts, first, last)
    BY DEF IInv, Lined
  <2>3. IsLine(Queued, Nexts', first, last)
    <3> HIDE DEF Queued, Nexts
    <3> QED BY <2>1, <2>2, LineSame
  <2> QED BY <2>3 DEF Lined
<1>6. Marked'
  <2>1. last \in Queued /\ last # NULL
    BY <1>1, <1>2 DEF QueueOK
  <2>2. tag' = IF last' = NULL THEN "Free" ELSE LastState(blk'[last'].type)
    BY <1>1, <2>1 DEF Marked, SameBlock
  <2>3. \A b \in Queued : blk'[b].type = "reader" /\ blk'[b].next # NULL => blk'[blk'[b].next].type = "writer"
    <3>1. \A b \in Queued : blk[b].next # NULL => blk[b].next \in Queued /\ blk[b].next # f
      BY <1>1 DEF QueueOK
    <3>2. ASSUME NEW b \in Queued, blk'[b].type = "reader", blk'[b].next # NULL
          PROVE  blk'[blk'[b].next].type = "writer"
      <4>1. blk[b].next \in Queued \ {f} /\ blk'[b].next = blk[b].next
        BY <1>4, <3>1, <3>2
      <4>2. blk'[blk[b].next].type = blk[blk[b].next].type
        BY <4>1 DEF SameBlock
      <4>3. CASE b = f
        BY <3>2, <4>1, <4>2, <4>3
      <4>4. CASE b # f
        BY <1>1, <3>2, <4>1, <4>2, <4>4 DEF SameBlock, Marked
      <4> QED BY <4>3, <4>4
    <3> QED BY <3>2
  <2> QED BY <1>4, <2>2, <2>3 DEF Marked
<1>7. Counts'
  <2>1. \A b \in Queued : CountOK(b)
    BY CountsByBlock DEF IInv
  <2>2. ASSUME NEW b \in Queued, b # f PROVE CountOK(b)'
    <3>1. \A u \in Thread : On(u, b)' <=> On(u, b)
      BY <1>3, <2>2 DEF On, Apart, WaitPCs, HoldPCs
    <3>2. blk'[b].ref = blk[b].ref /\ blk'[b].type = blk[b].type
      BY <2>2 DEF SameBlock
    <3> QED BY <2>1, <3>1, <3>2, CountKept
  <2>3. CountOK(f)'
    <3>1. \A u \in Thread : On(u, f)' <=> u = t
      BY <1>2, <1>3 DEF On, Apart, WaitPCs, HoldPCs
    <3> QED BY <3>1, CountOnly
  <2> QED BY <2>2, <2>3, CountsByBlockNext
<1>8. ThreadOK(t)'
  BY <1>2 DEF ThreadOK, HandOK, WaitOK, HoldOK, SignalOK, WaitPCs, HoldPCs
<1>9. (\A u \in Thread \ {t} : ThreadOK(u)') /\ Signals'
  <2>1. \A b \in Queued : (\E u \in Thread \ {t} : On(u, b)) => Stays(t, b)
    BY <1>2 DEF Stays, SameBlock
  <2>2. pc[t] \notin {"wait", "cvtWait"} /\ pc'[t] \notin SignalPCs
        /\ \A u \in Thread \ {t} : pc[u] # "shJoin"
    BY <1>3 DEF HoldPCs, SignalPCs
  <2> HIDE DEF On
  <2> QED BY <2>1, <2>2, OthersKept
<1> QED BY <1>5, <1>6, <1>7, <1>8, <1>9 DEF IInv, Threads

\* The only reader becomes the writer.
LEMMA StepInPlace ==
  ASSUME IInv, NEW t \in Thread, CvtInPlace(t)
  PROVE  IInv'
<1>0. PICK f, w, n : f = first /\ w = waiter[t] /\ n = blk[f].next
  OBVIOUS
<1> DEFINE q == [blk EXCEPT ![f].type = "writer", ![f].own = TRUE, ![f].inserted = FALSE]
           p == MarkOvertaken(q, n)
<1>1. TypeOK /\ ThreadOK(t) /\ Hands /\ QueueOK /\ Marked
  BY QueueFacts DEF IInv, Threads
<1>2. pc[t] = "cvtOne"
  BY DEF CvtInPlace
<1>3. f \in Queued /\ f \in Block /\ mine[t] = f
  BY <1>0, <1>1, <1>2 DEF ThreadOK, HoldOK, HoldPCs, Queued
<1>4. /\ blk[f].ref = 1 /\ StoreOrFree(t, p, w, NULL)
      /\ tag' = IF last = f THEN "LastWriter" ELSE tag
      /\ kind' = [kind EXCEPT ![t] = "writer"] /\ waiter' = [waiter EXCEPT ![t] = NULL]
      /\ mine' = [mine EXCEPT ![t] = NULL] /\ pc' = [pc EXCEPT ![t] = "held"]
      /\ Overtake(t) /\ UNCHANGED <<last, first, seen, sync, status>>
  BY <1>0, <1>3 DEF CvtInPlace, StillAlone, Retag
<1>5. /\ q[f] \in Waiters /\ q[f].event = blk[f].event /\ q[f].type = "writer" /\ q[f].own
      /\ q[f].ref = blk[f].ref /\ q[f].next = blk[f].next
      /\ \A x \in Block \ {f} : q[x] = blk[x]
      /\ q \in [Block -> Waiters]
  <2>1. q[f] = [blk[f] EXCEPT !.type = "writer", !.own = TRUE, !.inserted = FALSE] /\ blk[f] \in Waiters
    BY <1>1, <1>3 DEF TypeOK
  <2>2. /\ q[f] \in Waiters /\ q[f].event = blk[f].event /\ q[f].type = "writer" /\ q[f].own
        /\ q[f].ref = blk[f].ref /\ q[f].next = blk[f].next
    <3> HIDE DEF q
    <3> QED BY <2>1, KindFacts DEF Kinds
  <2>3. \A x \in Block \ {f} : q[x] = blk[x]
    BY <1>1 DEF TypeOK
  <2>4. q \in [Block -> Waiters]
    BY <1>1, <2>2, <2>3 DEF TypeOK
  <2> QED BY <2>2, <2>3, <2>4
<1> HIDE DEF q
<1>6. n # NULL => n \in Queued /\ n # f /\ n \in Block
  BY <1>0, <1>1, <1>3 DEF QueueOK, Queued
<1>7. /\ p \in [Block -> Waiters] /\ p[f] = q[f]
      /\ \A x \in Block : x \notin Queued => p[x] = blk[x]
      /\ \A x \in Block \ {f} : /\ p[x].type = blk[x].type /\ p[x].own = blk[x].own
                                /\ p[x].ref = blk[x].ref /\ p[x].next = blk[x].next
                                /\ p[x].event = blk[x].event
  <2>1. CASE n # NULL /\ q[n].type = "writer"
    <3>1. p = [q EXCEPT ![n].inserted = TRUE]
      BY <2>1 DEF MarkOvertaken
    <3> HIDE DEF p
    <3>2. p[n] = [q[n] EXCEPT !.inserted = TRUE] /\ \A x \in Block \ {n} : p[x] = q[x]
      BY <1>5, <1>6, <2>1, <3>1
    <3>3. /\ p[n] \in Waiters /\ p[n].event = q[n].event /\ p[n].type = q[n].type
          /\ p[n].own = q[n].own /\ p[n].ref = q[n].ref /\ p[n].next = q[n].next
      <4>1. q[n] \in Waiters
        BY <1>5, <1>6, <2>1
      <4> QED BY <3>2, <4>1, InsertedFacts
    <3>4. p \in [Block -> Waiters]
      BY <1>5, <3>1, <3>2, <3>3
    <3>5. n \in Queued /\ n # f
      BY <1>6, <2>1
    <3>6. p[f] = q[f]
      BY <1>3, <3>2, <3>5
    <3>7. \A x \in Block : x \notin Queued => p[x] = blk[x]
      BY <1>3, <1>5, <3>2, <3>5
    <3>8. ASSUME NEW x \in Block, x # f
          PROVE  /\ p[x].type = blk[x].type /\ p[x].own = blk[x].own
                 /\ p[x].ref = blk[x].ref /\ p[x].next = blk[x].next
                 /\ p[x].event = blk[x].event
      <4>1. q[x] = blk[x]
        BY <1>5, <3>8
      <4>2. CASE x = n
        BY <3>3, <4>1, <4>2
      <4>3. CASE x # n
        BY <3>2, <4>1, <4>3
      <4> QED BY <4>2, <4>3
    <3> QED BY <3>4, <3>6, <3>7, <3>8
  <2>2. CASE ~ (n # NULL /\ q[n].type = "writer")
    <3>1. p = q
      BY <2>2 DEF MarkOvertaken
    <3> HIDE DEF p
    <3> QED BY <1>3, <1>5, <3>1
  <2> QED BY <2>1, <2>2
<1> HIDE DEF p
<1>8. waiter'[t] = NULL /\ kind'[t] = "writer" /\ pc'[t] = "held" /\ Apart(t) /\ Elsewhere(t)
  BY <1>1, <1>4 DEF TypeOK, Apart, Elsewhere
<1>9. w \in Block \cup {NULL} /\ w \notin Queued
      /\ (w # NULL => blk[w].type \in Kinds /\ \A u \in Thread \ {t} : waiter[u] # w)
  BY <1>0, <1>1, NullNoBlock DEF TypeOK, Queued, Hands, InHand, NoBlock
<1>10. /\ blk' \in [Block -> Waiters] /\ cache' \in [Thread -> Block \cup {NULL}]
       /\ avail' \in BOOLEAN
       /\ Hands' /\ Queued' = Queued \ {w, NULL}
       /\ \A x \in Block \ {w, NULL} : blk'[x] = p[x]
  <2>1. \A x \in Queued : p[x].type \in Kinds
    BY <1>5, <1>7 DEF Queued, Kinds
  <2>2. \A x \in {w, NULL} : x # NULL =>
           blk[x].type \in Kinds /\ \A u \in Thread \ {t} : waiter[u] # x
    BY <1>9
  <2>3. waiter[t] \in {w, NULL, NULL} /\ NULL \in Block \cup {NULL}
    BY <1>0
  <2> QED BY <1>1, <1>4, <1>7, <1>8, <1>9, <2>1, <2>2, <2>3, HandsSpared
<1>11. Queued' = Queued /\ \A x \in Queued : x \in Block /\ blk'[x] = p[x]
  BY <1>9, <1>10, NullNoBlock DEF Queued, NoBlock
<1>12. TypeOK'
  <2>1. pc' \in [Thread -> HoldPCs \cup {"idle", "look", "alloc", "lock", "wait",
                                   "own", "signal", "cvtWait"}]
    BY <1>1, <1>4 DEF TypeOK, HoldPCs
  <2>2. mine' \in [Thread -> Block \cup {NULL}] /\ waiter' \in [Thread -> Block \cup {NULL}]
        /\ kind' \in [Thread -> Kinds] /\ stale' \subseteq Thread
    BY <1>1, <1>4 DEF TypeOK, Kinds, Overtake
  <2>3. tag' \in {"Free", "LastReader", "LastWriter"}
    BY <1>1, <1>4 DEF TypeOK
  <2> QED BY <1>1, <1>4, <1>10, <2>1, <2>2, <2>3 DEF TypeOK
<1>13. \A u \in Thread \ {t} : waiter[u] # NULL => blk'[waiter[u]] = blk[waiter[u]]
  <2> SUFFICES ASSUME NEW u \in Thread \ {t}, waiter[u] # NULL PROVE blk'[waiter[u]] = blk[waiter[u]]
    OBVIOUS
  <2>1. waiter[u] \in Block /\ waiter[u] \notin Queued /\ waiter[u] # w
    BY <1>1, <1>9 DEF TypeOK, Queued
  <2> QED BY <1>7, <1>10, <2>1
<1>14. /\ blk'[f].type = "writer" /\ blk'[f].own /\ blk'[f].ref = 1
       /\ blk'[f].next = blk[f].next /\ blk'[f].event = blk[f].event
       /\ \A b \in Queued \ {f} : SameBlock(b) /\ blk'[b].event = blk[b].event
  BY <1>3, <1>4, <1>5, <1>7, <1>11 DEF SameBlock
<1>15. tag' = (IF last = f THEN LastState("writer") ELSE tag) /\ "writer" \in Kinds
       /\ last' = last /\ first' = first /\ pc[t] \in HoldPCs
  BY <1>2, <1>4 DEF LastState, Kinds, HoldPCs
<1> QED
  BY <1>0, <1>4, <1>8, <1>10, <1>11, <1>12, <1>13, <1>14, <1>15, Rekinded

\* The writer becomes a reader where it stands: before a writer, or at the end
\* of the queue.
LEMMA StepDowngrade ==
  ASSUME IInv, NEW t \in Thread,
         \/ ShLook(t) /\ blk[mine[t]].next # NULL /\ blk[blk[mine[t]].next].type = "writer"
         \/ ShLast(t) /\ waiter[t] = NULL
  PROVE  IInv'
<1>0. PICK f, w, n : f = first /\ w = waiter[t] /\ n = blk[f].next
  OBVIOUS
<1> DEFINE q == [blk EXCEPT ![f].type = "reader", ![f].own = TRUE, ![f].inserted = FALSE]
<1>1. TypeOK /\ ThreadOK(t) /\ Hands /\ QueueOK /\ Marked
  BY QueueFacts DEF IInv, Threads
<1>2. pc[t] \in {"sh", "shLast"}
  BY DEF ShLook, ShLast
<1>3. f \in Queued /\ f \in Block /\ mine[t] = f /\ kind[t] = "writer" /\ blk[f].type = "writer"
  BY <1>0, <1>1, <1>2 DEF ThreadOK, HoldOK, HoldPCs, Queued
<1>4. /\ n # NULL => blk[n].type = "writer"
      /\ kind' = [kind EXCEPT ![t] = "reader"] /\ waiter' = [waiter EXCEPT ![t] = NULL]
      /\ mine' = [mine EXCEPT ![t] = NULL] /\ pc' = [pc EXCEPT ![t] = "held"]
      /\ sync' = [sync EXCEPT ![t] = FALSE]
      /\ UNCHANGED <<first, seen, status, stale>>
      /\ \/ StoreOrFree(t, q, w, NULL) /\ n # NULL /\ UNCHANGED <<last, tag>>
         \/ /\ w = NULL /\ n = NULL /\ blk' = q /\ UNCHANGED <<cache, avail>>
            /\ last' = f /\ tag' = "LastReader"
  <2>1. CASE ShLook(t) /\ blk[mine[t]].next # NULL /\ blk[blk[mine[t]].next].type = "writer"
    <3>1. n # NULL /\ blk[n].type = "writer" /\ blk[n].type # "reader"
      BY <1>0, <1>3, <2>1
    <3>2. /\ kind' = [kind EXCEPT ![t] = "reader"] /\ waiter' = [waiter EXCEPT ![t] = NULL]
          /\ mine' = [mine EXCEPT ![t] = NULL] /\ pc' = [pc EXCEPT ![t] = "held"]
          /\ sync' = [sync EXCEPT ![t] = FALSE]
          /\ UNCHANGED <<queue, seen, status, stale>>
          /\ StoreOrFree(t, q, w, NULL)
      BY <1>0, <1>3, <2>1, <3>1 DEF ShLook
    <3> QED BY <3>1, <3>2 DEF queue
  <2>2. CASE ShLast(t) /\ waiter[t] = NULL
    BY <1>0, <1>3, <2>2 DEF ShLast
  <2> QED BY <2>1, <2>2
<1>5. /\ q[f] \in Waiters /\ q[f].event = blk[f].event /\ q[f].type = "reader" /\ q[f].own
      /\ q[f].ref = blk[f].ref /\ q[f].next = blk[f].next
      /\ \A x \in Block \ {f} : q[x] = blk[x]
      /\ q \in [Block -> Waiters]
  <2>1. q[f] = [blk[f] EXCEPT !.type = "reader", !.own = TRUE, !.inserted = FALSE] /\ blk[f] \in Waiters
    BY <1>1, <1>3 DEF TypeOK
  <2>2. /\ q[f] \in Waiters /\ q[f].event = blk[f].event /\ q[f].type = "reader" /\ q[f].own
        /\ q[f].ref = blk[f].ref /\ q[f].next = blk[f].next
    <3> HIDE DEF q
    <3> QED BY <2>1, KindFacts DEF Kinds
  <2>3. \A x \in Block \ {f} : q[x] = blk[x]
    BY <1>1 DEF TypeOK
  <2>4. q \in [Block -> Waiters]
    BY <1>1, <2>2, <2>3 DEF TypeOK
  <2> QED BY <2>2, <2>3, <2>4
<1> HIDE DEF q
<1>6. waiter'[t] = NULL /\ kind'[t] = "reader" /\ pc'[t] = "held" /\ Apart(t) /\ Elsewhere(t)
  BY <1>1, <1>4 DEF TypeOK, Apart, Elsewhere
<1>7. w \in Block \cup {NULL} /\ w \notin Queued
      /\ (w # NULL => blk[w].type \in Kinds /\ \A u \in Thread \ {t} : waiter[u] # w)
  BY <1>0, <1>1, NullNoBlock DEF TypeOK, Queued, Hands, InHand, NoBlock
<1>8. \A x \in Queued : q[x].type \in Kinds /\ x \in Block
  BY <1>5 DEF Queued, Kinds
<1>9. /\ blk' \in [Block -> Waiters] /\ cache' \in [Thread -> Block \cup {NULL}]
      /\ avail' \in BOOLEAN
      /\ Hands' /\ Queued' = Queued
      /\ \A x \in Block \ {w, NULL} : blk'[x] = q[x]
  <2>1. CASE StoreOrFree(t, q, w, NULL)
    <3>1. \A x \in {w, NULL} : x # NULL =>
             blk[x].type \in Kinds /\ \A u \in Thread \ {t} : waiter[u] # x
      BY <1>7
    <3>2. waiter[t] \in {w, NULL, NULL} /\ NULL \in Block \cup {NULL}
      BY <1>0
    <3>3. \A x \in Block : x \notin Queued => q[x] = blk[x]
      BY <1>3, <1>5
    <3>4. /\ blk' \in [Block -> Waiters] /\ cache' \in [Thread -> Block \cup {NULL}]
          /\ avail' \in BOOLEAN
          /\ Hands' /\ Queued' = Queued \ {w, NULL}
          /\ \A x \in Block \ {w, NULL} : blk'[x] = q[x]
      BY <1>1, <1>5, <1>6, <1>7, <1>8, <2>1, <3>1, <3>2, <3>3, HandsSpared
    <3> QED BY <1>7, <1>8, <3>4, NullNoBlock DEF NoBlock
  <2>2. CASE w = NULL /\ blk' = q /\ UNCHANGED <<cache, avail>>
    <3>1. \A x \in Block : x \notin Queued /\ x # waiter[t] => blk'[x] = blk[x]
      BY <1>3, <1>5, <2>2
    <3>2. Hands'
      BY <1>1, <1>6, <2>2, <3>1, HandsSame
    <3>3. waiter' = waiter
      BY <1>0, <1>1, <1>4, <2>2 DEF TypeOK
    <3>4. \A x \in Block : blk'[x].type \in Kinds <=> blk[x].type \in Kinds
      BY <1>3, <1>5, <2>2 DEF Kinds
    <3>5. Queued' = Queued
      BY <3>3, <3>4 DEF Queued
    <3>6. cache' \in [Thread -> Block \cup {NULL}] /\ avail' \in BOOLEAN
      BY <1>1, <2>2 DEF TypeOK
    <3> QED BY <1>5, <2>2, <3>2, <3>5, <3>6
  <2> QED BY <1>4, <2>1, <2>2
<1>10. \A x \in Queued : x \in Block /\ blk'[x] = q[x]
  BY <1>7, <1>8, <1>9, NullNoBlock DEF NoBlock
<1>11. last = f <=> n = NULL
  BY <1>0, <1>1, <1>3 DEF QueueOK
<1>12. last' = last /\ tag' = (IF last = f THEN LastState("reader") ELSE tag)
  BY <1>4, <1>11 DEF LastState
<1>13. TypeOK'
  <2>1. pc' \in [Thread -> HoldPCs \cup {"idle", "look", "alloc", "lock", "wait",
                                   "own", "signal", "cvtWait"}]
    BY <1>1, <1>4 DEF TypeOK, HoldPCs
  <2>2. mine' \in [Thread -> Block \cup {NULL}] /\ waiter' \in [Thread -> Block \cup {NULL}]
        /\ kind' \in [Thread -> Kinds] /\ sync' \in [Thread -> BOOLEAN]
    BY <1>1, <1>4 DEF TypeOK, Kinds
  <2>3. tag' \in {"Free", "LastReader", "LastWriter"}
    BY <1>1, <1>4 DEF TypeOK
  <2> QED BY <1>1, <1>4, <1>9, <1>12, <2>1, <2>2, <2>3 DEF TypeOK
<1>14. \A u \in Thread \ {t} : waiter[u] # NULL => blk'[waiter[u]] = blk[waiter[u]]
  <2> SUFFICES ASSUME NEW u \in Thread \ {t}, waiter[u] # NULL PROVE blk'[waiter[u]] = blk[waiter[u]]
    OBVIOUS
  <2>1. waiter[u] \in Block /\ waiter[u] \notin Queued /\ waiter[u] # w
    BY <1>1, <1>7 DEF TypeOK, Queued
  <2> QED BY <1>3, <1>5, <1>9, <2>1
<1>15. /\ blk[f].ref = 1 /\ blk'[f].type = "reader" /\ blk'[f].own /\ blk'[f].ref = 1
       /\ blk'[f].next = blk[f].next /\ blk'[f].event = blk[f].event
       /\ \A b \in Queued \ {f} : SameBlock(b) /\ blk'[b].event = blk[b].event
  <2>1. blk[f].ref = 1
    BY <1>3, CountFacts
  <2> QED BY <1>3, <1>5, <1>10, <2>1 DEF SameBlock
<1>16. /\ "reader" \in Kinds /\ first' = first /\ pc[t] \in HoldPCs
       /\ blk[f].next # NULL => blk[blk[f].next].type = "writer"
  BY <1>0, <1>2, <1>4 DEF Kinds, HoldPCs
<1> QED
  BY <1>0, <1>6, <1>9, <1>12, <1>13, <1>14, <1>15, <1>16, Rekinded

\* The writer's own block goes back to its cache, and another takes its place.
LEMMA StepReplace ==
  ASSUME IInv, NEW t \in Thread, ShLast(t), waiter[t] # NULL
  PROVE  IInv'
<1>0. PICK f, w : f = first /\ w = waiter[t]
  OBVIOUS
<1>1. TypeOK /\ ThreadOK(t) /\ Hands /\ QueueOK /\ Marked
  BY QueueFacts DEF IInv, Threads
<1>2. pc[t] = "shLast" /\ blk[mine[t]].next = NULL
  BY DEF ShLast
<1>3. /\ f \in Queued /\ f \in Block /\ mine[t] = f /\ kind[t] = "writer" /\ blk[f].type = "writer"
      /\ blk[f].next = NULL /\ On(t, f)
  BY <1>0, <1>1, <1>2 DEF ThreadOK, HoldOK, HoldPCs, Queued, On
<1>4. /\ w # NULL /\ w \in Block /\ w # f /\ InHand(blk[w]) /\ blk[w].type = "reader" /\ f # Embedded
      /\ \A u \in Thread \ {t} : waiter[u] # w
  BY <1>0, <1>1, <1>2, <1>3 DEF ThreadOK, HandOK, TypeOK, Hands, Queued
<1> DEFINE q == [blk EXCEPT ![w].own = TRUE]
<1>5. /\ first' = w /\ last' = w /\ tag' = "LastReader"
      /\ StoreOrFree(t, q, f, NULL)
      /\ kind' = [kind EXCEPT ![t] = "reader"] /\ waiter' = [waiter EXCEPT ![t] = NULL]
      /\ mine' = [mine EXCEPT ![t] = NULL] /\ sync' = [sync EXCEPT ![t] = FALSE]
      /\ pc' = [pc EXCEPT ![t] = "held"] /\ UNCHANGED <<seen, status, stale>>
  BY <1>0, <1>3, <1>4 DEF ShLast
<1>6. /\ q \in [Block -> Waiters] /\ q[w].type = "reader" /\ q[w].own
      /\ q[w].ref = 1 /\ q[w].next = NULL /\ \A x \in Block \ {w} : q[x] = blk[x]
  <2>1. q[w] = [blk[w] EXCEPT !.own = TRUE] /\ blk[w] \in Waiters /\ blk \in [Block -> Waiters]
    BY <1>1, <1>4 DEF TypeOK
  <2>2. q[w] \in Waiters /\ q[w].type = "reader" /\ q[w].own /\ q[w].ref = 1 /\ q[w].next = NULL
    BY <1>4, <2>1, OwnFacts DEF InHand
  <2> QED BY <1>4, <2>1, <2>2
<1> HIDE DEF q
<1>7. /\ avail' = avail /\ blk' \in [Block -> Waiters] /\ blk'[f].type \notin Kinds
      /\ \A x \in Block \ {f} : blk'[x] = q[x]
      /\ \/ cache' = cache
         \/ /\ cache' = [cache EXCEPT ![t] = f] /\ cache[t] = NULL
            /\ blk'[f].type = "idle"
  BY <1>1, <1>3, <1>4, <1>5, <1>6, SpareOne
<1>8. /\ \A x \in Block \ {f, w} : blk'[x] = blk[x]
      /\ blk'[w].type = "reader" /\ blk'[w].own /\ blk'[w].ref = 1 /\ blk'[w].next = NULL
  BY <1>4, <1>6, <1>7
<1>9. \A u \in Thread : cache'[u] = cache[u] \/ (u = t /\ cache'[u] = f /\ blk'[f].type = "idle")
  BY <1>1, <1>7 DEF TypeOK
<1>10. /\ waiter'[t] = NULL /\ kind'[t] = "reader" /\ pc'[t] = "held"
       /\ Apart(t) /\ Elsewhere(t)
  BY <1>1, <1>5 DEF TypeOK, Apart, Elsewhere
<1>11. Queued = {f}
  <2>1. IsLine(Queued, Nexts, f, last) /\ NULL \notin Queued /\ Queued # {} /\ Nexts[f] = NULL
    BY <1>0, <1>3, NullNoBlock DEF IInv, Lined, Queued, Nexts, NoBlock
  <2> HIDE DEF Queued, Nexts
  <2> QED BY <2>1, LineLast
<1>12. Queued' = {w}
  <2>1. w \in Queued'
    BY <1>4, <1>8, <1>10 DEF Queued, Elsewhere, Kinds
  <2>2. ASSUME NEW x \in Queued', x # w PROVE FALSE
    <3>1. x \in Block /\ x # f /\ blk'[x].type \in Kinds /\ \A u \in Thread : waiter'[u] # x
      BY <1>7, <2>2 DEF Queued, Kinds
    <3>2. blk[x].type \in Kinds /\ \A u \in Thread : waiter[u] # x
      BY <1>0, <1>8, <1>10, <2>2, <3>1 DEF Elsewhere
    <3> QED BY <1>11, <3>1, <3>2 DEF Queued
  <2> QED BY <2>1, <2>2
<1>13. TypeOK'
  <2>1. pc' \in [Thread -> HoldPCs \cup {"idle", "look", "alloc", "lock", "wait",
                                   "own", "signal", "cvtWait"}]
    BY <1>1, <1>5 DEF TypeOK, HoldPCs
  <2>2. mine' \in [Thread -> Block \cup {NULL}] /\ waiter' \in [Thread -> Block \cup {NULL}]
        /\ kind' \in [Thread -> Kinds] /\ sync' \in [Thread -> BOOLEAN]
        /\ cache' \in [Thread -> Block \cup {NULL}]
    BY <1>1, <1>3, <1>5, <1>7 DEF TypeOK, Kinds
  <2> QED BY <1>1, <1>4, <1>5, <1>7, <2>1, <2>2 DEF TypeOK
<1>14. \A u \in Thread \ {t} : waiter[u] # NULL => blk'[waiter[u]] = blk[waiter[u]]
  <2> SUFFICES ASSUME NEW u \in Thread \ {t}, waiter[u] # NULL PROVE blk'[waiter[u]] = blk[waiter[u]]
    OBVIOUS
  <2>1. waiter[u] \in Block /\ waiter[u] # f /\ waiter[u] # w
    BY <1>1, <1>3, <1>4 DEF TypeOK, Queued
  <2> QED BY <1>8, <2>1
<1>15. Hands'
  <2>1. \A u \in Thread : waiter'[u] # NULL => InHand(blk'[waiter'[u]])
    BY <1>1, <1>10, <1>14 DEF Hands, Elsewhere
  <2>2. \A u, v \in Thread : waiter'[u] # NULL /\ waiter'[u] = waiter'[v] => u = v
    BY <1>1, <1>10 DEF Hands, Elsewhere
  <2>3. \A x \in Block : blk[x].type = "idle" => x # f /\ blk'[x] = blk[x]
    BY <1>3, <1>4, <1>8
  <2>4. \A u \in Thread : cache[u] # NULL =>
          cache[u] \in Block /\ cache[u] # f /\ blk'[cache[u]].type = "idle" /\ cache[u] # Embedded
    BY <1>1, <2>3 DEF Hands, TypeOK
  <2>5. \A u \in Thread : cache'[u] # NULL => blk'[cache'[u]].type = "idle" /\ cache'[u] # Embedded
    BY <1>4, <1>9, <2>4
  <2>6. \A u, v \in Thread : cache'[u] # NULL /\ cache'[u] = cache'[v] => u = v
    BY <1>1, <1>9, <2>4 DEF Hands
  <2>7. avail' => blk'[Embedded].type = "idle"
    BY <1>1, <1>7, <2>3 DEF Hands, Block
  <2> QED BY <2>1, <2>2, <2>5, <2>6, <2>7 DEF Hands
<1>16. Lined'
  <2>1. Nexts'[w] = NULL
    BY <1>4, <1>8 DEF Nexts
  <2>2. IsLine({w}, Nexts', w, w)
    <3> HIDE DEF Nexts
    <3> QED BY <2>1, LineOne
  <2> QED BY <1>5, <1>12, <2>2 DEF Lined
<1>17. Marked'
  BY <1>4, <1>5, <1>8, <1>12 DEF Marked, LastState
<1>18. \A u \in Thread \ {t}, b \in Queued : ~ On(u, b)
  BY <1>0, <1>2, <1>3, <1>11, HoldFacts DEF HoldPCs
<1>19. \A u \in Thread \ {t} : pc[u] \notin WaitPCs \cup HoldPCs
  BY <1>0, <1>3, <1>11, <1>18 DEF On, IInv, Threads, ThreadOK, WaitOK
<1>20. Counts'
  <2>1. \A u \in Thread : On(u, w)' <=> u = t
    BY <1>5, <1>10, <1>19 DEF On, Apart, WaitPCs, HoldPCs
  <2>2. CountOK(w)'
    BY <1>8, <2>1, CountOnly
  <2> QED BY <1>12, <2>2, CountsByBlockNext
<1>21. ThreadOK(t)'
  BY <1>5, <1>8, <1>10, <1>12 DEF ThreadOK, HandOK, WaitOK, HoldOK, SignalOK, WaitPCs, HoldPCs
<1>22. (\A u \in Thread \ {t} : ThreadOK(u)') /\ Signals'
  <2>1. pc[t] \notin {"wait", "cvtWait"} /\ pc'[t] \notin SignalPCs
        /\ \A u \in Thread \ {t} : pc[u] # "shJoin"
    BY <1>2, <1>10, <1>19 DEF SignalPCs, HoldPCs
  <2> HIDE DEF On
  <2> QED BY <1>10, <1>14, <1>18, <1>19, <2>1, OthersKept
<1> QED BY <1>13, <1>15, <1>16, <1>17, <1>20, <1>21, <1>22 DEF IInv, Threads

\* The writer joins the readers behind it and gives up its own block.
LEMMA StepJoin ==
  ASSUME IInv, NEW t \in Thread, ShJoin(t)
  PROVE  IInv'
<1>0. PICK f, n, w : f = first /\ n = blk[f].next /\ w = waiter[t]
  OBVIOUS
<1> DEFINE q == [blk EXCEPT ![n].own = TRUE, ![n].ref = blk[n].ref + 1]
<1>1. TypeOK /\ ThreadOK(t) /\ Hands /\ QueueOK /\ Marked
  BY QueueFacts DEF IInv, Threads
<1>2. pc[t] = "shJoin"
  BY DEF ShJoin
<1>3. /\ f \in Queued /\ f \in Block /\ mine[t] = f /\ kind[t] = "writer" /\ blk[f].type = "writer"
      /\ On(t, f) /\ n # NULL /\ blk[n].type = "reader"
  BY <1>0, <1>1, <1>2 DEF ThreadOK, HoldOK, HoldPCs, Queued, On
<1>4. n \in Queued /\ n # f /\ n \in Block
  BY <1>0, <1>1, <1>3 DEF QueueOK, Queued
<1>5. /\ StoreOrFree(t, q, f, w) /\ first' = n
      /\ mine' = [mine EXCEPT ![t] = n]
      /\ kind' = [kind EXCEPT ![t] = "reader"] /\ waiter' = [waiter EXCEPT ![t] = NULL]
      /\ sync' = [sync EXCEPT ![t] = FALSE] /\ pc' = [pc EXCEPT ![t] = "shSignal"]
      /\ UNCHANGED <<last, tag, seen, status, stale>>
  <2>1. [blk EXCEPT ![n].own = TRUE, ![n].ref = @ + 1] = q
    BY <1>1, <1>4 DEF TypeOK
  <2>2. /\ StoreOrFree(t, [blk EXCEPT ![n].own = TRUE, ![n].ref = @ + 1], f, w) /\ first' = n
        /\ mine' = [mine EXCEPT ![t] = n]
        /\ kind' = [kind EXCEPT ![t] = "reader"] /\ waiter' = [waiter EXCEPT ![t] = NULL]
        /\ sync' = [sync EXCEPT ![t] = FALSE] /\ pc' = [pc EXCEPT ![t] = "shSignal"]
        /\ UNCHANGED <<last, tag, seen, status, stale>>
    BY <1>0, <1>3 DEF ShJoin
  <2> HIDE DEF q
  <2> QED BY <2>1, <2>2
<1>6. \A u \in Thread : On(u, f) => u = t
  BY <1>0, <1>2, <1>3, HoldFacts DEF HoldPCs
<1>7. \A u \in Thread \ {t} : pc[u] \notin HoldPCs
  BY <1>0, <1>6 DEF On
<1>8. blk[n].ref \in Nat
  BY <1>4, CountFacts
<1>9. /\ q[n] \in Waiters /\ q[n].event = blk[n].event /\ q[n].type = "reader"
      /\ q[n].own /\ q[n].next = blk[n].next /\ q[n].ref = blk[n].ref + 1
  <2>1. blk[n] \in Waiters /\ blk[n].ref + 1 \in Nat
    BY <1>1, <1>4, <1>8 DEF TypeOK
  <2>2. PICK r : r = [blk[n] EXCEPT !.own = TRUE]
    OBVIOUS
  <2>3. /\ r \in Waiters /\ r.event = blk[n].event /\ r.type = blk[n].type /\ r.own
        /\ r.next = blk[n].next /\ r.ref = blk[n].ref
    BY <2>1, <2>2, OwnFacts
  <2>4. q[n] = [r EXCEPT !.ref = blk[n].ref + 1]
    BY <1>1, <1>4, <2>2 DEF TypeOK
  <2> HIDE DEF q
  <2> QED BY <1>3, <2>1, <2>3, <2>4, RefFacts
<1>10. \A x \in Block \ {n} : q[x] = blk[x]
  BY <1>1 DEF TypeOK
<1>11. q \in [Block -> Waiters]
  BY <1>1, <1>9 DEF TypeOK
<1> HIDE DEF q
<1>12. /\ waiter'[t] = NULL /\ kind'[t] = "reader" /\ pc'[t] = "shSignal" /\ mine'[t] = n
       /\ Apart(t) /\ Elsewhere(t)
  BY <1>1, <1>5 DEF TypeOK, Apart, Elsewhere
<1>13. /\ NULL \notin Block /\ \A u \in Thread : waiter[u] # f
       /\ w \in Block \cup {NULL} /\ w \notin Queued
       /\ (w # NULL => blk[w].type \in Kinds /\ \A u \in Thread \ {t} : waiter[u] # w)
  BY <1>0, <1>1, <1>3, NullNoBlock DEF NoBlock, TypeOK, Queued, Hands, InHand
<1>14. /\ blk' \in [Block -> Waiters] /\ cache' \in [Thread -> Block \cup {NULL}]
       /\ avail' \in BOOLEAN
       /\ Hands' /\ Queued' = Queued \ {f, w}
       /\ \A x \in Block \ {f, w} : blk'[x] = q[x]
  <2>1. \A x \in Block : x \notin Queued => q[x] = blk[x]
    BY <1>4, <1>10
  <2>2. \A x \in Queued : q[x].type \in Kinds
    BY <1>9, <1>10 DEF Queued, Kinds
  <2>3. \A x \in {f, w} : x # NULL =>
           blk[x].type \in Kinds /\ \A u \in Thread \ {t} : waiter[u] # x
    BY <1>3, <1>13 DEF Kinds
  <2>4. waiter[t] \in {f, w, NULL} /\ f \in Block \cup {NULL}
    BY <1>0, <1>3
  <2> QED BY <1>1, <1>5, <1>11, <1>12, <1>13, <2>1, <2>2, <2>3, <2>4, HandsSpared
<1>15. Queued' = Queued \ {f} /\ \A x \in Queued' : x \in Block /\ x \in Queued /\ x # f /\ blk'[x] = q[x]
  BY <1>13, <1>14 DEF Queued
<1>16. \A x \in Queued' :
         /\ blk'[x].type = blk[x].type /\ blk'[x].next = blk[x].next
         /\ (x # n => blk'[x].ref = blk[x].ref)
         /\ blk'[x].event = blk[x].event /\ (blk'[x].own <=> x = n)
  <2> SUFFICES ASSUME NEW x \in Queued'
               PROVE  /\ blk'[x].type = blk[x].type /\ blk'[x].next = blk[x].next
                      /\ (x # n => blk'[x].ref = blk[x].ref)
                      /\ blk'[x].event = blk[x].event /\ (blk'[x].own <=> x = n)
    OBVIOUS
  <2>1. CASE x = n
    BY <1>3, <1>9, <1>15, <2>1
  <2>2. CASE x # n
    <3>1. blk'[x] = blk[x] /\ ~ blk[x].own
      BY <1>0, <1>1, <1>10, <1>15, <2>2 DEF Marked
    <3> QED BY <2>2, <3>1
  <2> QED BY <2>1, <2>2
<1>17. TypeOK'
  <2>1. pc' \in [Thread -> HoldPCs \cup {"idle", "look", "alloc", "lock", "wait",
                                   "own", "signal", "cvtWait"}]
    BY <1>1, <1>5 DEF TypeOK, HoldPCs
  <2>2. mine' \in [Thread -> Block \cup {NULL}] /\ waiter' \in [Thread -> Block \cup {NULL}]
        /\ kind' \in [Thread -> Kinds] /\ sync' \in [Thread -> BOOLEAN]
    BY <1>1, <1>4, <1>5 DEF TypeOK, Kinds
  <2> QED BY <1>1, <1>4, <1>5, <1>14, <2>1, <2>2 DEF TypeOK
<1>18. Lined'
  <2>1. Nexts[f] = n /\ \A b \in Queued : b # f => Nexts'[b] = Nexts[b]
    BY <1>0, <1>3, <1>15, <1>16 DEF Nexts
  <2>2. IsLine(Queued, Nexts, f, last) /\ NULL \notin Queued /\ Queued # {}
    BY <1>0, <1>3, <1>13 DEF IInv, Lined, Queued
  <2>3. IsLine(Queued \ {f}, Nexts', n, last)
    <3> HIDE DEF Queued, Nexts
    <3> QED BY <1>3, <2>1, <2>2, LineTail
  <2> QED BY <1>5, <1>15, <2>3 DEF Lined
<1>19. last \in Queued' /\ last # NULL
  BY <1>0, <1>1, <1>3, <1>13, <1>15 DEF QueueOK, Queued
<1>20. Marked'
  <2>1. tag' = IF last' = NULL THEN "Free" ELSE LastState(blk'[last'].type)
    BY <1>1, <1>5, <1>16, <1>19 DEF Marked
  <2>2. \A b \in Queued' : blk'[b].own <=> b = first'
    BY <1>5, <1>16
  <2>3. \A b \in Queued' : blk'[b].type = "reader" /\ blk'[b].next # NULL => blk'[blk'[b].next].type = "writer"
    <3>1. \A b \in Queued' : blk'[b].next # NULL => blk'[b].next \in Queued'
      BY <1>0, <1>1, <1>15, <1>16 DEF QueueOK
    <3> QED BY <1>1, <1>15, <1>16, <3>1 DEF Marked
  <2> QED BY <2>1, <2>2, <2>3 DEF Marked
<1>21. ~ On(t, n) /\ On(t, n)' /\ \A b \in Queued' \ {n}, u \in Thread : On(u, b)' <=> On(u, b)
  BY <1>0, <1>2, <1>4, <1>5, <1>7, <1>12, <1>15 DEF On, Apart, WaitPCs, HoldPCs
<1>22. \A u \in Thread \ {t} : On(u, n)' <=> On(u, n)
  BY <1>7, <1>12 DEF On, Apart
<1>23. Counts'
  <2>1. \A b \in Queued : CountOK(b)
    BY CountsByBlock DEF IInv
  <2>2. ASSUME NEW b \in Queued', b # n PROVE CountOK(b)'
    <3>1. CountOK(b) /\ blk'[b].ref = blk[b].ref /\ blk'[b].type = blk[b].type
      BY <1>15, <1>16, <2>1, <2>2
    <3> HIDE DEF Queued, CountOK, On
    <3> QED BY <1>21, <2>2, <3>1, CountKept
  <2>3. CountOK(n)'
    <3>1. n \in Queued' /\ blk'[n].ref = blk[n].ref + 1 /\ blk'[n].type = "reader" /\ CountOK(n)
      BY <1>3, <1>4, <1>9, <1>15, <1>16, <2>1
    <3> HIDE DEF Queued, CountOK, On
    <3> QED BY <1>8, <1>21, <1>22, <3>1, CountMore
  <2> QED BY <2>2, <2>3, CountsByBlockNext
<1>24. ThreadOK(t)'
  <2>1. n \in Queued' /\ blk'[n].type = "reader"
    BY <1>3, <1>4, <1>15, <1>16
  <2> QED BY <1>5, <1>12, <2>1 DEF ThreadOK, HandOK, WaitOK, HoldOK, SignalOK, WaitPCs, HoldPCs
<1>25. \A u \in Thread \ {t} : waiter[u] # NULL => blk'[waiter[u]] = blk[waiter[u]]
  <2> SUFFICES ASSUME NEW u \in Thread \ {t}, waiter[u] # NULL PROVE blk'[waiter[u]] = blk[waiter[u]]
    OBVIOUS
  <2>1. waiter[u] \in Block /\ waiter[u] # f /\ waiter[u] # n /\ waiter[u] # w
    BY <1>1, <1>4, <1>13 DEF TypeOK, Queued
  <2> QED BY <1>10, <1>14, <2>1
<1>26. (\A u \in Thread \ {t} : ThreadOK(u)') /\ Signals'
  <2>1. \A b \in Queued : (\E u \in Thread \ {t} : On(u, b)) => Stays(t, b)
    BY <1>0, <1>1, <1>6, <1>15, <1>16 DEF Stays, Marked
  <2>2. \A u \in Thread \ {t} : pc[u] \in SignalPCs => mine[u] # mine'[t]
    <3>1. \A u \in Thread \ {t} : pc[u] \in SignalPCs => mine[u] = f
      BY <1>0, <1>1, <1>7 DEF SignalPCs, HoldPCs, IInv, Threads, ThreadOK, SignalOK, Marked
    <3> QED BY <1>4, <1>12, <3>1
  <2>3. pc[t] \notin {"wait", "cvtWait"} /\ \A u \in Thread \ {t} : pc[u] # "shJoin"
    BY <1>2, <1>7 DEF HoldPCs
  <2> HIDE DEF On
  <2> QED BY <1>7, <1>12, <1>25, <2>1, <2>2, <2>3, OthersKept
<1> QED BY <1>14, <1>17, <1>18, <1>20, <1>23, <1>24, <1>26 DEF IInv, Threads

\* A converting reader leaves its block and queues a writer's behind it.
LEMMA StepInsert ==
  ASSUME IInv, NEW t \in Thread, CvtInsert(t)
  PROVE  IInv'
<1>0. PICK f, n, w : f = first /\ n = blk[f].next /\ w = waiter[t]
  OBVIOUS
<1>1. TypeOK /\ ThreadOK(t) /\ Hands /\ QueueOK /\ Marked
  BY QueueFacts DEF IInv, Threads
<1>2. pc[t] = "cvtMany" /\ blk[mine[t]].ref > 1
  BY DEF CvtInsert
<1>3. /\ f \in Queued /\ f \in Block /\ mine[t] = f /\ kind[t] = "reader" /\ blk[f].type = "reader"
      /\ On(t, f) /\ blk[f].ref > 1
  BY <1>0, <1>1, <1>2 DEF ThreadOK, HoldOK, HoldPCs, Queued, On
<1>4. /\ w # NULL /\ w \in Block /\ InHand(blk[w]) /\ blk[w].type = "writer" /\ w \notin Queued
      /\ blk[w].event # "set" /\ w # f /\ \A u \in Thread \ {t} : waiter[u] # w
  BY <1>0, <1>1, <1>2, <1>3 DEF ThreadOK, HandOK, TypeOK, Hands, Queued
<1>5. n # NULL => n \in Queued /\ n # f /\ n \in Block /\ n # w /\ blk[n].type = "writer"
  BY <1>0, <1>1, <1>3, <1>4 DEF QueueOK, Queued, Marked
<1>6. last = f <=> n = NULL
  BY <1>0, <1>1, <1>3 DEF QueueOK
<1>7. blk[f].ref \in Nat /\ blk[f].ref - 1 \in Nat
  BY <1>3, CountFacts
<1> DEFINE q == [blk EXCEPT ![w].next = n, ![f].next = w, ![f].ref = blk[f].ref - 1]
<1>8. /\ blk' = IF last = f THEN q ELSE MarkOvertaken(q, n)
      /\ last' = IF last = f THEN w ELSE last
      /\ tag' = IF last = f THEN "LastWriter" ELSE tag
      /\ mine' = [mine EXCEPT ![t] = w] /\ waiter' = [waiter EXCEPT ![t] = NULL]
      /\ pc' = [pc EXCEPT ![t] = "cvtWait"]
      /\ UNCHANGED <<first, avail, cache, kind, seen, sync, status, stale>>
  <2>1. [blk EXCEPT ![w].next = blk[f].next, ![f].next = w, ![f].ref = @ - 1] = q
    BY <1>0, <1>1, <1>3, <1>4 DEF TypeOK
  <2> HIDE DEF q
  <2> QED BY <1>0, <1>3, <2>1 DEF CvtInsert
<1>9. /\ q[f] \in Waiters /\ q[f].event = blk[f].event /\ q[f].type = "reader"
      /\ q[f].own = blk[f].own /\ q[f].next = w /\ q[f].ref = blk[f].ref - 1
  <2>1. blk[f] \in Waiters
    BY <1>1, <1>3 DEF TypeOK
  <2>2. PICK r : r = [blk[f] EXCEPT !.next = w]
    OBVIOUS
  <2>3. /\ r \in Waiters /\ r.event = blk[f].event /\ r.type = blk[f].type /\ r.own = blk[f].own
        /\ r.next = w /\ r.ref = blk[f].ref
    BY <1>4, <2>1, <2>2, NextFacts
  <2>4. q[f] = [r EXCEPT !.ref = blk[f].ref - 1]
    BY <1>1, <1>3, <1>4, <2>2 DEF TypeOK
  <2> HIDE DEF q
  <2> QED BY <1>3, <1>7, <2>3, <2>4, RefFacts
<1>10. /\ q[w] \in Waiters /\ q[w].event = blk[w].event /\ q[w].type = "writer"
       /\ ~ q[w].own /\ q[w].next = n /\ q[w].ref = 1
  <2>1. q[w] = [blk[w] EXCEPT !.next = n] /\ blk[w] \in Waiters /\ n \in Block \cup {NULL}
    BY <1>1, <1>4, <1>5 DEF TypeOK
  <2> HIDE DEF q
  <2> QED BY <1>4, <2>1, NextFacts DEF InHand
<1>11. \A x \in Block \ {f, w} : q[x] = blk[x]
  BY <1>1 DEF TypeOK
<1>12. q \in [Block -> Waiters]
  BY <1>1, <1>9, <1>10, <1>11 DEF TypeOK
<1> HIDE DEF q
<1>13. /\ blk' \in [Block -> Waiters] /\ blk'[f] = q[f] /\ blk'[w] = q[w]
       /\ \A x \in Block : x \notin Queued /\ x # w => blk'[x] = blk[x]
       /\ \A x \in Block \ {f, w} :
            /\ blk'[x].type = blk[x].type /\ blk'[x].own = blk[x].own /\ blk'[x].ref = blk[x].ref
            /\ blk'[x].next = blk[x].next /\ blk'[x].event = blk[x].event
  <2>1. CASE last = f
    BY <1>3, <1>8, <1>11, <1>12, <2>1
  <2>2. CASE last # f
    <3>1. n # NULL /\ blk' = [q EXCEPT ![n].inserted = TRUE]
      BY <1>5, <1>6, <1>8, <1>11, <2>2 DEF MarkOvertaken
    <3>2. blk'[n] = [q[n] EXCEPT !.inserted = TRUE] /\ \A x \in Block \ {n} : blk'[x] = q[x]
      BY <1>5, <1>12, <3>1
    <3>3. /\ blk'[n] \in Waiters /\ blk'[n].event = q[n].event /\ blk'[n].type = q[n].type
          /\ blk'[n].own = q[n].own /\ blk'[n].ref = q[n].ref /\ blk'[n].next = q[n].next
      <4>1. q[n] \in Waiters
        BY <1>5, <1>12, <3>1
      <4> QED BY <3>2, <4>1, InsertedFacts
    <3>4. blk' \in [Block -> Waiters]
      BY <1>12, <3>1, <3>2, <3>3
    <3>5. q[n] = blk[n]
      BY <1>5, <1>11, <3>1
    <3> QED BY <1>3, <1>4, <1>5, <1>11, <3>1, <3>2, <3>3, <3>4, <3>5
  <2> QED BY <2>1, <2>2
<1>14. /\ waiter'[t] = NULL /\ kind' = kind /\ pc'[t] = "cvtWait" /\ mine'[t] = w
       /\ Apart(t) /\ Elsewhere(t) /\ first' = first
  BY <1>1, <1>8 DEF TypeOK, Apart, Elsewhere
<1>15. Queued' = Queued \cup {w}
  <2>1. \A x \in Block : blk'[x].type = blk[x].type
    BY <1>3, <1>4, <1>9, <1>10, <1>13
  <2>2. w \in Queued'
    BY <1>4, <1>14, <2>1 DEF Queued, Elsewhere, Kinds
  <2>3. \A x \in Block : x # w => (\A u \in Thread : waiter'[u] # x) <=> (\A u \in Thread : waiter[u] # x)
    BY <1>0, <1>14, NullNoBlock DEF Elsewhere, NoBlock
  <2> QED BY <1>4, <2>1, <2>2, <2>3 DEF Queued
<1>16. TypeOK'
  <2>1. pc' \in [Thread -> HoldPCs \cup {"idle", "look", "alloc", "lock", "wait",
                                   "own", "signal", "cvtWait"}]
    BY <1>1, <1>8 DEF TypeOK
  <2>2. mine' \in [Thread -> Block \cup {NULL}] /\ waiter' \in [Thread -> Block \cup {NULL}]
    BY <1>1, <1>4, <1>8 DEF TypeOK
  <2>3. tag' \in {"Free", "LastReader", "LastWriter"} /\ last' \in Block \cup {NULL}
    BY <1>1, <1>4, <1>8 DEF TypeOK
  <2> QED BY <1>1, <1>8, <1>13, <2>1, <2>2, <2>3 DEF TypeOK
<1>17. Hands'
  <2>1. \A x \in Block : x \notin Queued /\ x # waiter[t] => blk'[x] = blk[x]
    BY <1>0, <1>13
  <2>2. UNCHANGED <<cache, avail>>
    BY <1>8
  <2> QED BY <1>1, <1>14, <2>1, <2>2, HandsSame
<1>18. Lined'
  <2>1. /\ Nexts'[f] = w /\ Nexts'[w] = n /\ Nexts[f] = n
        /\ \A b \in Queued : b # f => Nexts'[b] = Nexts[b]
    BY <1>0, <1>3, <1>4, <1>9, <1>10, <1>13 DEF Nexts, Queued
  <2>2. IsLine(Queued, Nexts, f, last) /\ NULL \notin Queued /\ Queued # {}
    BY <1>0, <1>3, NullNoBlock DEF IInv, Lined, Queued, NoBlock
  <2>3. CASE n = NULL
    <3>1. IsLine(Queued, Nexts, f, f) /\ last' = w
      BY <1>6, <1>8, <2>2, <2>3
    <3>2. IsLine(Queued \cup {w}, Nexts', f, w)
      <4> HIDE DEF Queued, Nexts
      <4> QED BY <1>4, <2>1, <2>2, <2>3, <3>1, LineAppend
    <3> QED BY <1>0, <1>14, <1>15, <3>1, <3>2 DEF Lined
  <2>4. CASE n # NULL
    <3>1. IsLine(Queued \cup {w}, Nexts', f, last)
      <4> HIDE DEF Queued, Nexts
      <4> QED BY <1>4, <2>1, <2>2, <2>4, LineInsert
    <3> QED BY <1>0, <1>6, <1>8, <1>14, <1>15, <2>4, <3>1 DEF Lined
  <2> QED BY <2>3, <2>4
<1>19. Marked'
  <2>1. last \in Queued /\ last # NULL
    BY <1>1, <1>3 DEF QueueOK
  <2>2. tag' = IF last' = NULL THEN "Free" ELSE LastState(blk'[last'].type)
    <3>1. CASE last = f
      BY <1>4, <1>8, <1>10, <1>13, <3>1 DEF LastState
    <3>2. CASE last # f
      BY <1>1, <1>4, <1>8, <1>13, <2>1, <3>2 DEF Marked, Queued
    <3> QED BY <3>1, <3>2
  <2>3. \A b \in Queued' : blk'[b].own <=> b = first'
    BY <1>0, <1>1, <1>3, <1>4, <1>9, <1>10, <1>13, <1>14, <1>15 DEF Marked, Queued
  <2>4. ASSUME NEW b \in Queued', blk'[b].type = "reader", blk'[b].next # NULL
        PROVE  blk'[blk'[b].next].type = "writer"
    <3>1. CASE b = f
      BY <1>9, <1>10, <1>13, <3>1
    <3>2. CASE b = w
      BY <1>10, <1>13, <2>4, <3>2
    <3>3. CASE b # f /\ b # w
      <4>1. b \in Queued /\ b \in Block /\ blk'[b].next = blk[b].next /\ blk'[b].type = blk[b].type
        BY <1>13, <1>15, <2>4, <3>3 DEF Queued
      <4>2. blk[b].next \in Queued /\ blk[b].next # f /\ blk[blk[b].next].type = "writer"
        BY <1>0, <1>1, <2>4, <4>1 DEF QueueOK, Marked
      <4> QED BY <1>4, <1>13, <4>1, <4>2 DEF Queued
    <3> QED BY <3>1, <3>2, <3>3
  <2> QED BY <2>2, <2>3, <2>4 DEF Marked
<1>20. Counts'
  <2>1. \A b \in Queued : CountOK(b)
    BY CountsByBlock DEF IInv
  <2>2. \A u \in Thread : ~ On(u, w)
    BY <1>0, <1>3, <1>4 DEF On, IInv, Threads, ThreadOK, WaitOK, HoldOK
  <2>3. /\ On(t, f) /\ ~ On(t, f)' /\ \A u \in Thread \ {t} : On(u, f)' <=> On(u, f)
        /\ \A u \in Thread : On(u, w)' <=> u = t
        /\ \A u \in Thread, b \in Queued \ {f} : On(u, b)' <=> On(u, b)
    BY <1>0, <1>2, <1>3, <1>4, <1>14, <2>2 DEF On, Apart, WaitPCs, HoldPCs
  <2>4. CountOK(w)'
    BY <1>10, <1>13, <2>3, CountOnly
  <2>5. CountOK(f)'
    <3>1. CountOK(f) /\ blk'[f].ref = blk[f].ref - 1 /\ blk'[f].type = "reader"
      BY <1>3, <1>9, <1>13, <2>1
    <3> HIDE DEF CountOK, On
    <3> QED BY <1>3, <1>7, <2>3, <3>1, CountLess
  <2>6. ASSUME NEW b \in Queued, b # f PROVE CountOK(b)'
    <3>1. CountOK(b) /\ blk'[b].ref = blk[b].ref /\ blk'[b].type = blk[b].type
      BY <1>4, <1>13, <2>1, <2>6 DEF Queued
    <3> HIDE DEF CountOK, On
    <3> QED BY <2>3, <2>6, <3>1, CountKept
  <2> QED BY <1>15, <2>4, <2>5, <2>6, CountsByBlockNext
<1>21. ThreadOK(t)'
  <2>1. WaitOK(t)'
    BY <1>4, <1>10, <1>13, <1>14, <1>15 DEF WaitOK, Asked
  <2> QED BY <1>14, <2>1 DEF ThreadOK, HandOK, HoldOK, SignalOK, HoldPCs
<1>22. \A u \in Thread \ {t} : waiter[u] # NULL => blk'[waiter[u]] = blk[waiter[u]]
  BY <1>1, <1>4, <1>13 DEF TypeOK, Queued
<1>23. (\A u \in Thread \ {t} : ThreadOK(u)') /\ Signals'
  <2>1. \A b \in Queued : Stays(t, b)
    BY <1>3, <1>4, <1>9, <1>13, <1>15 DEF Stays, Queued
  <2>2. pc[t] \notin {"wait", "cvtWait"} /\ pc'[t] \notin SignalPCs
    BY <1>2, <1>14 DEF SignalPCs
  <2>3. \A u \in Thread \ {t} : pc[u] # "shJoin"
    BY <1>0, <1>3 DEF IInv, Threads, ThreadOK, HoldOK, HoldPCs
  <2> QED BY <1>14, <1>22, <2>1, <2>2, <2>3, OthersKept
<1> QED BY <1>16, <1>17, <1>18, <1>19, <1>20, <1>21, <1>23 DEF IInv, Threads

-----------------------------------------------------------------------------
(* The theorems *)

LEMMA InitHolds == Init => IInv
<1> SUFFICES ASSUME Init PROVE IInv
  OBVIOUS
<1>1. \A b \in Block :
        blk[b] = IF b \in Heap THEN Fresh("free", "none")
                 ELSE IF b = Embedded THEN Fresh("idle", "none") ELSE Fresh("home", "reset")
  BY DEF Init
<1>2. \A b \in Block :
        /\ blk[b] \in Waiters
        /\ blk[b].type = IF b \in Heap THEN "free" ELSE IF b = Embedded THEN "idle" ELSE "home"
  BY <1>1, FreshFacts DEF BlockKinds, Events
<1>3. blk \in [Block -> Waiters]
  BY <1>2 DEF Init
<1>4. \A t \in Thread : cache[t] = NULL /\ waiter[t] = NULL /\ pc[t] = "idle"
  BY DEF Init
<1>5. SyncThreads \subseteq Block /\ SyncThreads \cap Heap = {} /\ Embedded \notin SyncThreads \cup Heap
      /\ Embedded \in Block
  BY SWMRAssumption DEF Block
<1>6. TypeOK
  <2>1. cache \in [Thread -> Block \cup {NULL}]
    BY <1>4, <1>5 DEF Init
  <2> QED BY <1>3, <2>1 DEF Init, TypeOK, HoldPCs, Kinds
<1>7. Hands
  BY <1>2, <1>4, <1>5 DEF Hands
<1>8. Queued = {}
  BY <1>2 DEF Queued, Kinds
<1>9. Lined
  BY <1>8, LineNone DEF Init, Lined
<1>10. Marked /\ Counts
  BY <1>8 DEF Init, Marked, Counts, RefCountExact
<1>11. Threads
  BY <1>4 DEF Threads, Signals, ThreadOK, HandOK, WaitOK, HoldOK, SignalOK, WaitPCs, HoldPCs
<1> QED BY <1>6, <1>7, <1>9, <1>10, <1>11 DEF IInv

LEMMA NextHolds == IInv /\ [Next]_vars => IInv'
<1> SUFFICES ASSUME IInv, [Next]_vars PROVE IInv'
  OBVIOUS
<1>1. CASE UNCHANGED vars
  <2>1. UNCHANGED <<last, tag, first, avail, blk, cache, pc, kind, waiter, mine, seen, sync, status, stale>>
    BY <1>1 DEF vars, queue, local
  <2>2. TypeOK' /\ Hands' /\ Lined' /\ Marked'
    BY <2>1 DEF IInv, TypeOK, Hands, Lined, Marked, Queued, Nexts
  <2>3. Counts'
    BY <2>1 DEF IInv, Counts, RefCountExact, Queued, Counted
  <2>4. Threads'
    BY <2>1 DEF IInv, Threads, Signals, ThreadOK, HandOK, WaitOK, HoldOK, SignalOK, Asked,
                JoinsReaders, Queued
  <2> QED BY <2>2, <2>3, <2>4 DEF IInv
<1>2. ASSUME NEW t \in Thread, Step(t) PROVE IInv'
  <2>1. CASE Look(t)
    BY <2>1, StepLook
  <2>2. CASE LockAllocate(t) \/ CvtAllocate(t) \/ ShAllocate(t)
    BY <2>2, StepAllocate
  <2>3. CASE LockRetry(t) \/ CvtRetry(t) \/ ShRetry(t)
    BY <2>3, StepRetry
  <2>4. CASE LockFree(t)
    BY <2>4, StepFree
  <2>5. CASE LockSharedOnLastReader(t)
    BY <2>5, StepShare
  <2>6. CASE LockQueue(t)
    BY <2>6, StepQueue
  <2>7. CASE LockWake(t)
    BY <2>7, StepWake
  <2>8. CASE LockReturn(t) \/ CvtReturn(t)
    BY <2>8, StepReturn
  <2>9. CASE UnlockShared(t) \/ UnlockExclusive(t)
    BY <2>9, StepLeave, StepPassOn
  <2>10. CASE SetEvent(t)
    BY <2>10, StepSetEvent
  <2>11. CASE CvtLook(t)
    BY <2>11, StepCvtLook
  <2>12. CASE CvtInPlace(t)
    BY <2>12, StepInPlace
  <2>13. CASE CvtInsert(t)
    BY <2>13, StepInsert
  <2>14. CASE ShLook(t)
    <3>1. \/ ShLooks(t)
          \/ blk[mine[t]].next # NULL /\ blk[blk[mine[t]].next].type = "writer"
      BY <2>14 DEF ShLook, ShLooks, NeedsBlock
    <3> QED BY <2>14, <3>1, StepShLook, StepDowngrade
  <2>15. CASE ShLast(t)
    BY <2>15, StepDowngrade, StepReplace
  <2>16. CASE ShJoin(t)
    BY <2>16, StepJoin
  <2> QED
    BY <1>2, <2>1, <2>2, <2>3, <2>4, <2>5, <2>6, <2>7, <2>8, <2>9, <2>10, <2>11, <2>12, <2>13,
       <2>14, <2>15, <2>16 DEF Step
<1>3. ASSUME NEW t \in Thread, Call(t) PROVE IInv'
  <2>1. CASE \E k \in Kinds : LockCall(t, k)
    BY <2>1, StepCall
  <2>2. CASE UnlockCall(t) \/ ConvertToExclusive(t) \/ \E s \in BOOLEAN : ConvertToShared(t, s)
    BY <2>2, StepBegin
  <2> QED BY <1>3, <2>1, <2>2 DEF Call
<1> QED BY <1>1, <1>2, <1>3 DEF Next

\* In every state of the lock the queue, the counts and what each thread knows
\* at its stage of a call fit together.
THEOREM IInvHolds == Spec => []IInv
BY InitHolds, NextHolds, PTL DEF Spec

\* The state has its type.
THEOREM TypeOKHolds == Spec => []TypeOK
<1>1. IInv => TypeOK
  BY DEF IInv
<1> QED BY <1>1, IInvHolds, PTL

\* Whatever threads lock, unlock and convert at the same time, and whatever
\* allocations fail on the way, an exclusive holder is the only holder.
THEOREM MutualExclusionHolds == Spec => []MutualExclusion
<1>1. IInv => MutualExclusion
  <2> SUFFICES ASSUME IInv, NEW t \in Thread, NEW u \in Thread, t # u, Holds(t, "writer"),
                      pc[u] \in HoldPCs
               PROVE  FALSE
    BY DEF MutualExclusion
  <2>1. \A v \in Thread : On(v, first) => v = t
    BY HoldFacts DEF Holds
  <2> QED BY <2>1 DEF On
<1> QED BY <1>1, IInvHolds, PTL

\* The queue is one chain from FirstWaiter to LastWaiter whose tag is the kind
\* of its last block, in which readers never follow readers and only the first
\* block owns the lock.
THEOREM QueueShapeHolds == Spec => []QueueShape
<1>1. IInv => QueueShape
  <2> SUFFICES ASSUME IInv PROVE QueueShape
    OBVIOUS
  <2>1. QueueOK /\ Marked /\ TypeOK
    BY QueueFacts DEF IInv
  <2>2. (last = NULL) <=> (tag = "Free")
    BY <2>1 DEF Marked, LastState
  <2>3. ASSUME NEW b \in Queued
        PROVE  Cardinality({p \in Queued : blk[p].next = b}) = IF b = first THEN 0 ELSE 1
    <3>1. b # NULL
      BY NullNoBlock DEF NoBlock, Queued
    <3>2. CASE b = first
      <4>1. {p \in Queued : blk[p].next = b} = {}
        BY <2>1, <3>1, <3>2 DEF QueueOK
      <4> HIDE DEF Queued
      <4> QED BY <3>2, <4>1, FS_EmptySet
    <3>3. CASE b # first
      <4>1. PICK a \in Queued : blk[a].next = b
        BY <2>1, <3>3 DEF QueueOK
      <4>2. {p \in Queued : blk[p].next = b} = {a}
        BY <2>1, <3>1, <4>1 DEF QueueOK
      <4> HIDE DEF Queued
      <4> QED BY <3>3, <4>2, FS_Singleton
    <3> QED BY <3>2, <3>3
  <2>4. ASSUME last # NULL
        PROVE  /\ {first, last} \subseteq Queued
               /\ tag = LastState(blk[last].type)
               /\ \A b \in Queued :
                    /\ (blk[b].next = NULL) <=> (b = last)
                    /\ blk[b].next # NULL => blk[b].next \in Queued
                    /\ (blk[b].next # NULL /\ blk[b].type = "reader")
                          => blk[blk[b].next].type = "writer"
                    /\ blk[b].own <=> (b = first)
    BY <2>1, <2>4 DEF QueueOK, Marked
  <2>5. (last = NULL) <=> (Queued = {})
    BY <2>1 DEF QueueOK
  <2> HIDE DEF Queued
  <2> QED BY <2>2, <2>3, <2>4, <2>5 DEF QueueShape
<1> QED BY <1>1, IInvHolds, PTL

\* RefCount of a queued block is the number of threads that rely on it: a
\* block is not freed under a waiter and does not outlive its last user.
THEOREM RefCountExactHolds == Spec => []RefCountExact
<1>1. IInv => RefCountExact
  BY DEF IInv, Counts
<1> QED BY <1>1, IInvHolds, PTL

\* FirstWaiter, which is written outside the queue lock, is right whenever a
\* holder reads it.
THEOREM FirstWaiterAgreesHolds == Spec => []FirstWaiterAgrees
<1>1. IInv => FirstWaiterAgrees
  <2> SUFFICES ASSUME IInv, NEW t \in Thread, pc[t] \in HoldPCs
               PROVE  /\ first \in Queued /\ blk[first].own
                      /\ blk[first].type = kind[t]
                      /\ pc[t] # "held" => mine[t] = first
    BY DEF FirstWaiterAgrees
  <2>1. HoldOK(t)
    BY DEF IInv, Threads, ThreadOK
  <2> QED BY <2>1, HoldFacts DEF HoldOK
<1> QED BY <1>1, IInvHolds, PTL

-----------------------------------------------------------------------------
(* Where the blocks are *)

\* A block that is not in use is in a cache, or at home in its THREAD.
Cached ==
  /\ \A b \in Block \ {Embedded} : blk[b].type = "idle" => \E t \in Thread : cache[t] = b
  /\ \A b \in Block : blk[b].type = "home" => b \in SyncThreads

\* The embedded block, unless its event could not be created.
EmbeddedKept == "event" \in Failures \/ avail \/ blk[Embedded].type \in Kinds

\* The block built into THREAD t has an event, and is at home, in the hands
\* of t, or in the queue for t: when t holds the lock shared by it, it is not
\* the last block, so nobody can join.
Placed(t) ==
  /\ blk[t].type \in Kinds \cup {"home"} /\ blk[t].event # "none"
  /\ \A u \in Thread \ {t} : waiter[u] # t
  /\ waiter[t] = t => pc[t] \in {"look", "lock"} /\ kind[t] = "writer"
  /\ t \in Queued => On(t, t)
  /\ t \in Queued /\ blk[t].type = "reader" =>
       pc[t] \in HoldPCs /\ last # t /\ \A u \in Thread : On(u, t) => u = t

\* When t converts to shared, it does not leave that block behind.
AsksBack(t) ==
  /\ pc[t] \in {"sh", "shAlloc", "shLast", "shJoin"} => sync[t]
  /\ pc[t] = "shLast" => waiter[t] # NULL \/ mine[t] = Embedded

AtHome(t) == Placed(t) /\ AsksBack(t)

HInv ==
  /\ IInv
  /\ Cached
  /\ EmbeddedKept
  /\ \A t \in SyncThreads : AtHome(t)

\* The step of t takes built-in blocks from home into its hands only, and
\* gives back no other than that of t.  No event is lost.
Spares(t) ==
  \A s \in SyncThreads :
    /\ blk'[s].event # "none"
    /\ blk[s].type = "home" => blk'[s].type = "home" \/ waiter'[t] = s
    /\ blk[s].type \in Kinds => blk'[s].type \in Kinds \/ (s = t /\ blk'[s].type = "home")

\* It leaves no block lying about.
Tidy(t) == Cached' /\ EmbeddedKept' /\ Spares(t)

\* Blocks as in q are in use and idle as they are now, and no event is lost.
Like(q) ==
  \A x \in Block :
    /\ q[x].type = blk[x].type \/ (q[x].type \in Kinds /\ blk[x].type \in Kinds)
    /\ q[x].event = "none" => blk[x].event = "none"

\* The kinds of blocks, and whose built-in blocks are.
SyncKinds ==
  /\ Embedded \in Block /\ Heap \subseteq Block /\ SyncThreads \subseteq Block
  /\ NULL \notin Block /\ Embedded \notin SyncThreads /\ Heap \cap SyncThreads = {}
  /\ SyncThreads \subseteq Thread /\ SyncThreads \subseteq CacheUsers
  /\ NULL \notin Thread /\ Embedded \notin Thread /\ Block \cap Thread = SyncThreads

LEMMA SyncFacts == SyncKinds
BY NullNoBlock, SWMRAssumption DEF SyncKinds, NoBlock, Block

\* A step of t changes only the local variables of t.
LEMMA EachApart ==
  ASSUME TypeOK, NEW t \in Thread, Step(t) \/ Call(t)
  PROVE  Apart(t) /\ \A u \in Thread \ {t} : sync'[u] = sync[u]
<1>1. CASE Call(t)
  BY <1>1 DEF TypeOK, Apart, Call, LockCall, UnlockCall, ConvertToExclusive, ConvertToShared
<1>2. CASE Look(t) \/ LockAllocate(t) \/ LockRetry(t) \/ LockFree(t)
  BY <1>2 DEF TypeOK, Apart, local, Look, LockAllocate, AllocateWaiter, LockRetry, LockFree
<1>3. CASE LockSharedOnLastReader(t) \/ LockQueue(t) \/ LockWake(t) \/ LockReturn(t)
  BY <1>3 DEF TypeOK, Apart, local, LockSharedOnLastReader, LockQueue, LockWake, LockReturn
<1>4. CASE UnlockShared(t) \/ UnlockExclusive(t) \/ SetEvent(t)
  BY <1>4 DEF TypeOK, Apart, UnlockShared, UnlockExclusive, PassOn, SetEvent
<1>5. CASE CvtLook(t) \/ CvtAllocate(t) \/ CvtInPlace(t) \/ CvtInsert(t) \/ CvtRetry(t) \/ CvtReturn(t)
  BY <1>5 DEF TypeOK, Apart, local, CvtLook, CvtAllocate, AllocateWaiter, CvtInPlace, CvtInsert,
              CvtRetry, CvtReturn
<1>6. CASE ShLook(t) \/ ShAllocate(t) \/ ShLast(t) \/ ShRetry(t) \/ ShJoin(t)
  BY <1>6 DEF TypeOK, Apart, local, ShLook, ShAllocate, AllocateWaiter, ShLast, ShRetry, ShJoin
<1> QED BY <1>1, <1>2, <1>3, <1>4, <1>5, <1>6 DEF Step

\* A thread that holds the lock by its built-in block holds it alone.
LEMMA HomeAlone ==
  ASSUME HInv, NEW s \in SyncThreads, s \in Queued, NEW t \in Thread, On(t, s)
  PROVE  t = s
<1>1. Placed(s) /\ IInv /\ s \in Thread
  BY SyncFacts DEF HInv, AtHome, SyncKinds
<1>2. On(s, s)
  BY <1>1 DEF Placed
<1>3. CASE blk[s].type = "reader"
  BY <1>1, <1>3 DEF Placed
<1>4. CASE blk[s].type = "writer"
  BY <1>1, <1>2, <1>4, CountFacts
<1> QED BY <1>3, <1>4 DEF Queued, Kinds

\* What is built into another THREAD is neither in the hand of t nor the
\* block by which it holds the lock.
LEMMA NotOthers ==
  ASSUME HInv, NEW t \in Thread, NEW s \in SyncThreads, s # t
  PROVE  waiter[t] # s /\ (pc[t] \in HoldPCs => first # s)
<1>1. Placed(s) /\ IInv
  BY DEF HInv, AtHome
<1>2. waiter[t] # s
  BY <1>1 DEF Placed
<1>3. ASSUME pc[t] \in HoldPCs, first = s PROVE FALSE
  <2>1. s \in Queued /\ On(t, s)
    BY <1>1, <1>3, HoldFacts DEF On
  <2> QED BY <2>1, HomeAlone
<1> QED BY <1>2, <1>3

\* The steps of a thread that holds the lock.
LEMMA HolderSteps ==
  ASSUME NEW t \in Thread,
         \/ UnlockShared(t) \/ UnlockExclusive(t) \/ CvtLook(t) \/ CvtAllocate(t)
         \/ CvtInPlace(t) \/ CvtInsert(t) \/ CvtRetry(t) \/ ShLook(t) \/ ShAllocate(t)
         \/ ShLast(t) \/ ShRetry(t) \/ ShJoin(t)
  PROVE  pc[t] \in HoldPCs
<1>1. CASE \/ UnlockShared(t) \/ UnlockExclusive(t) \/ CvtLook(t) \/ CvtAllocate(t)
           \/ CvtInPlace(t) \/ CvtInsert(t) \/ CvtRetry(t)
  BY <1>1 DEF HoldPCs, UnlockShared, UnlockExclusive, CvtLook, CvtAllocate, CvtInPlace, CvtInsert,
         CvtRetry
<1>2. CASE ShLook(t) \/ ShAllocate(t) \/ ShLast(t) \/ ShRetry(t) \/ ShJoin(t)
  BY <1>2 DEF HoldPCs, ShLook, ShAllocate, ShLast, ShRetry, ShJoin
<1> QED BY <1>1, <1>2

\* While s holds the lock alone, no other thread changes FirstWaiter.
LEMMA FirstStays ==
  ASSUME IInv, NEW t \in Thread, NEW s \in Thread \ {t}, Step(t) \/ Call(t),
         pc[s] \in HoldPCs, \A u \in Thread : On(u, first) => u = s
  PROVE  /\ first' = first /\ pc[t] \notin HoldPCs /\ tag # "Free"
         /\ ~ LockReturn(t) /\ ~ CvtReturn(t)
<1>1. pc[t] \notin HoldPCs
  BY DEF On
<1>2. tag # "Free"
  <2>1. first \in Queued /\ QueueOK /\ Marked
    BY HoldFacts, QueueFacts DEF IInv
  <2>2. last # NULL /\ last \in Queued
    BY <2>1 DEF QueueOK
  <2> QED BY <2>1, <2>2 DEF Marked, LastState
<1>3. ~ LockReturn(t) /\ ~ CvtReturn(t)
  <2>1. ASSUME pc[t] \in WaitPCs, pc[t] = "own" \/ blk[mine[t]].event = "set" PROVE FALSE
    BY <2>1, OwnsFirst
  <2> QED BY <2>1 DEF LockReturn, CvtReturn, WaitPCs
<1>4. ASSUME Call(t) PROVE first' = first
  BY <1>4 DEF Call, LockCall, UnlockCall, ConvertToExclusive, ConvertToShared, queue
<1>5. ASSUME Step(t) PROVE first' = first
  <2>1. \/ Look(t) \/ LockAllocate(t) \/ LockRetry(t) \/ LockFree(t)
        \/ LockSharedOnLastReader(t) \/ LockQueue(t) \/ LockWake(t) \/ SetEvent(t)
    BY <1>1, <1>3, <1>5, HolderSteps DEF Step
  <2> QED BY <1>2, <2>1 DEF queue, Look, LockAllocate, LockRetry, LockFree,
          LockSharedOnLastReader, LockQueue, LockWake, SetEvent
<1> QED BY <1>1, <1>2, <1>3, <1>4, <1>5

\* A thread that does not hold the lock brings to the end of the queue what
\* it has in hand, and comes to rely on that or on the last block.
LEMMA Comes ==
  ASSUME IInv, NEW t \in Thread, pc[t] \notin HoldPCs, tag # "Free", Step(t) \/ Call(t),
         ~ LockReturn(t), ~ CvtReturn(t)
  PROVE  /\ last' \in {last, waiter[t]}
         /\ pc'[t] \in WaitPCs => mine'[t] \in {last, waiter[t]} \/
                                  (pc[t] \in WaitPCs /\ mine'[t] = mine[t])
         /\ pc'[t] \notin HoldPCs
<1>1. TypeOK
  BY DEF IInv
<1>2. CASE Call(t)
  BY <1>1, <1>2 DEF TypeOK, HoldPCs, WaitPCs, Call, LockCall, UnlockCall, ConvertToExclusive,
        ConvertToShared, queue
<1>3. CASE Look(t) \/ LockAllocate(t) \/ LockRetry(t) \/ LockFree(t)
  BY <1>1, <1>3 DEF TypeOK, HoldPCs, WaitPCs, local, queue, Look, LockAllocate, AllocateWaiter,
        LockRetry, LockFree
<1>4. CASE LockSharedOnLastReader(t) \/ LockQueue(t) \/ LockWake(t)
  BY <1>1, <1>4 DEF TypeOK, HoldPCs, WaitPCs, local, queue, LockSharedOnLastReader, LockQueue,
        LockWake
<1>5. CASE SetEvent(t)
  BY <1>1, <1>5 DEF TypeOK, HoldPCs, WaitPCs, queue, SetEvent
<1> QED BY <1>2, <1>3, <1>4, <1>5, HolderSteps DEF Step

\* What t has in hand after its step: nothing, what it had, a block from its
\* cache or an allocated one, or what its call was lent.
LEMMA WaiterFrom ==
  ASSUME TypeOK, NEW t \in Thread, Step(t) \/ Call(t)
  PROVE  \/ waiter'[t] \in {NULL, waiter[t], cache[t], Embedded} \cup Heap
         \/ waiter'[t] = t /\ t \in SyncThreads /\ pc'[t] = "look" /\ kind'[t] = "writer"
<1>1. CASE Call(t)
  <2>1. ASSUME NEW k \in Kinds, LockCall(t, k)
        PROVE  waiter'[t] = cache[t] \/ waiter'[t] = NULL \/
               (waiter'[t] = t /\ t \in SyncThreads /\ pc'[t] = "look" /\ kind'[t] = "writer")
    BY <2>1 DEF TypeOK, LockCall, Offers
  <2> QED BY <1>1, <2>1 DEF Call, UnlockCall, ConvertToExclusive, ConvertToShared
<1>2. ASSUME NEW type, NEW needed, NEW success, NEW failure,
             AllocateWaiter(t, type, needed, success, failure)
      PROVE  waiter'[t] \in {waiter[t], Embedded} \cup Heap
  <2>1. NewBlock # NULL => NewBlock \in Heap
    BY DEF NewBlock, FreeBlocks
  <2> QED BY <1>2, <2>1 DEF AllocateWaiter, TypeOK
<1>3. CASE LockAllocate(t) \/ CvtAllocate(t) \/ ShAllocate(t)
  BY <1>2, <1>3 DEF LockAllocate, CvtAllocate, ShAllocate
<1>4. CASE Look(t) \/ LockRetry(t) \/ LockFree(t) \/ LockSharedOnLastReader(t) \/ LockQueue(t)
           \/ LockWake(t) \/ LockReturn(t)
  BY <1>4 DEF TypeOK, local, Look, LockRetry, LockFree, LockSharedOnLastReader, LockQueue, LockWake,
              LockReturn
<1>5. CASE UnlockShared(t) \/ UnlockExclusive(t) \/ SetEvent(t)
  BY <1>5 DEF UnlockShared, UnlockExclusive, SetEvent
<1>6. CASE CvtLook(t) \/ CvtInPlace(t) \/ CvtInsert(t) \/ CvtRetry(t) \/ CvtReturn(t)
  BY <1>6 DEF TypeOK, local, CvtLook, Passed, CvtInPlace, CvtInsert, CvtRetry, CvtReturn
<1>7. CASE ShLook(t) \/ ShLast(t) \/ ShRetry(t) \/ ShJoin(t)
  BY <1>7 DEF TypeOK, local, ShLook, ShLast, ShRetry, ShJoin
<1> QED BY <1>1, <1>3, <1>4, <1>5, <1>6, <1>7 DEF Step

\* Nobody but t comes to have its built-in block in hand.
LEMMA HandsApart ==
  ASSUME HInv, NEW t \in Thread, Step(t) \/ Call(t), NEW s \in SyncThreads
  PROVE  /\ \A u \in Thread \ {s} : waiter'[u] # s
         /\ waiter'[s] = s => waiter[s] = s \/ (pc'[s] = "look" /\ kind'[s] = "writer")
<1>1. Placed(s) /\ TypeOK /\ Hands /\ SyncKinds
  BY SyncFacts DEF HInv, IInv, AtHome
<1>2. cache[t] # s
  BY <1>1 DEF Hands, SyncKinds, Placed, Kinds
<1>3. s \notin {NULL, Embedded} \cup Heap
  BY <1>1 DEF SyncKinds
<1>4. \A u \in Thread \ {t} : waiter'[u] = waiter[u]
  BY <1>1, EachApart DEF Apart
<1>5. waiter'[t] = s => waiter[t] = s \/ (s = t /\ pc'[t] = "look" /\ kind'[t] = "writer")
  BY <1>1, <1>2, <1>3, WaiterFrom
<1> QED BY <1>1, <1>4, <1>5 DEF Placed, SyncKinds

\* The blocks built into other threads stay where they are.
LEMMA HomesKept ==
  ASSUME HInv, IInv', NEW t \in Thread, NEW s \in SyncThreads \ {t}, Step(t) \/ Call(t),
         Spares(t)
  PROVE  AtHome(s)'
<1>1. Placed(s) /\ AsksBack(s) /\ TypeOK /\ IInv /\ s \in Thread \ {t} /\ s # NULL /\ s \in Block
  BY SyncFacts DEF HInv, AtHome, IInv, SyncKinds
<1>2. Apart(t) /\ sync'[s] = sync[s]
  BY <1>1, EachApart
<1>3. /\ pc'[s] = pc[s] /\ kind'[s] = kind[s] /\ waiter'[s] = waiter[s] /\ mine'[s] = mine[s]
  BY <1>1, <1>2 DEF Apart
<1>4. AsksBack(s)'
  BY <1>1, <1>2, <1>3 DEF AsksBack
<1>5. \A u \in Thread \ {s} : waiter'[u] # s
  BY HandsApart
<1>6. s \in Queued' => s \in Queued
  <2> SUFFICES ASSUME s \in Queued', s \notin Queued PROVE FALSE
    OBVIOUS
  <2>1. blk'[s].type \in Kinds /\ waiter'[s] # s /\ waiter'[t] # s
    BY <1>1 DEF Queued
  <2>2. blk[s].type = "home"
    BY <1>1, <1>3, <2>1 DEF Queued, Placed
  <2> QED BY <2>1, <2>2 DEF Spares, Kinds
<1>7. ASSUME s \in Queued, pc[s] \in HoldPCs
      PROVE  first = s /\ first' = s /\ pc[t] \notin HoldPCs /\ tag # "Free"
             /\ ~ LockReturn(t) /\ ~ CvtReturn(t)
  <2>1. first = s
    BY <1>1, <1>7 DEF Placed, On, HoldPCs, WaitPCs
  <2>2. \A u \in Thread : On(u, first) => u = s
    BY <1>7, <2>1, HomeAlone
  <2> QED BY <1>1, <1>7, <2>1, <2>2, FirstStays
<1>8. s \in Queued' => On(s, s)'
  <2> SUFFICES ASSUME s \in Queued' PROVE On(s, s)'
    OBVIOUS
  <2>1. On(s, s)
    BY <1>1, <1>6 DEF Placed
  <2> QED BY <1>3, <1>6, <1>7, <2>1 DEF On
<1>9. ASSUME s \in Queued', blk'[s].type = "reader"
      PROVE  pc'[s] \in HoldPCs /\ last' # s /\ \A u \in Thread : On(u, s)' => u = s
  <2>1. s \in Queued /\ On(s, s) /\ On(s, s)'
    BY <1>1, <1>6, <1>8, <1>9 DEF Placed
  <2>2. blk[s].type = "reader"
    <3>1. WaitOK(s) /\ HoldOK(s) /\ WaitOK(s)' /\ HoldOK(s)'
      BY <1>1 DEF IInv, Threads, ThreadOK
    <3> QED BY <1>3, <1>7, <1>9, <2>1, <3>1 DEF On, WaitOK, HoldOK, Asked
  <2>3. pc[s] \in HoldPCs /\ last # s /\ \A u \in Thread : On(u, s) => u = s
    BY <1>1, <2>1, <2>2 DEF Placed
  <2>4. first' = s /\ pc[t] \notin HoldPCs /\ tag # "Free" /\ ~ LockReturn(t) /\ ~ CvtReturn(t)
    BY <1>7, <2>1, <2>3
  <2>5. /\ last' \in {last, waiter[t]}
        /\ pc'[t] \in WaitPCs => mine'[t] \in {last, waiter[t]} \/
                                  (pc[t] \in WaitPCs /\ mine'[t] = mine[t])
        /\ pc'[t] \notin HoldPCs
    BY <1>1, <2>4, Comes
  <2>6. waiter[t] # s
    BY <1>1 DEF Placed
  <2>7. ~ On(t, s)'
    BY <1>1, <2>3, <2>5, <2>6 DEF On
  <2>8. ASSUME NEW u \in Thread \ {t, s} PROVE ~ On(u, s)'
    BY <1>1, <1>2, <1>7, <2>1, <2>3 DEF On, Apart
  <2> QED BY <1>3, <2>3, <2>5, <2>6, <2>7, <2>8
<1>10. Placed(s)'
  <2>1. blk'[s].type \in Kinds \cup {"home"} /\ blk'[s].event # "none"
    <3>1. waiter'[t] = s => FALSE
      BY <1>1, <1>5
    <3> QED BY <1>1, <3>1 DEF Spares, Placed
  <2>2. waiter'[s] = s => pc'[s] \in {"look", "lock"} /\ kind'[s] = "writer"
    BY <1>1, <1>3 DEF Placed
  <2> QED BY <1>5, <1>8, <1>9, <2>1, <2>2 DEF Placed
<1> QED BY <1>4, <1>10 DEF AtHome

\* Blocks that were allocated or queued stay in use.
LEMMA Worked ==
  ASSUME HInv, NEW t \in Thread, UNCHANGED <<cache, avail>>, Like(blk')
  PROVE  Tidy(t)
<1>1. Cached'
  BY DEF HInv, Cached, Like, Kinds
<1>2. EmbeddedKept'
  BY SyncFacts DEF HInv, EmbeddedKept, Like, SyncKinds
<1>3. Spares(t)
  BY SyncFacts DEF HInv, Spares, AtHome, Placed, Like, SyncKinds, Kinds
<1> QED BY <1>1, <1>2, <1>3 DEF Tidy

\* StoreOrFreeSpareWaiter gives back what t had in hand or the block by which
\* it held the lock, and its own block goes home.
LEMMA GivenBack ==
  ASSUME HInv, NEW t \in Thread, NEW q, Like(q),
         NEW b \in Block \cup {NULL}, NEW c \in Block \cup {NULL}, c # t,
         StoreOrFree(t, q, b, c),
         {b, c} \subseteq {NULL, waiter[t]} \cup {x \in {first} : pc[t] \in HoldPCs}
  PROVE  Tidy(t) /\ (b = t => blk'[t].type = "home")
<1> DEFINE kept == Kept(t, b, c)
<1>1. /\ cache' = [cache EXCEPT ![t] = IF kept \in {NULL, t} THEN @ ELSE kept]
      /\ avail' = (avail \/ Embedded \in {b, c})
      /\ \A x \in Block \ {b, c} : blk'[x] = q[x]
      /\ \A x \in Block : x \in {b, c} =>
           blk'[x] = IF x \notin {kept, Embedded} THEN Fresh("free", "none")
                     ELSE Fresh(IF x = t THEN "home" ELSE "idle", q[x].event)
  BY DEF StoreOrFree, ReturnsEmbedded
<1>2. TypeOK /\ SyncKinds
  BY SyncFacts DEF HInv, IInv
<1>3. /\ kept # NULL => kept \in {b, c} /\ kept # Embedded /\ (cache[t] = NULL \/ kept = t)
      /\ b = t => kept = t
  BY <1>2 DEF Kept, ToCache, SyncKinds
<1> HIDE DEF kept
<1>4. \A u \in Thread :
        cache'[u] = IF u = t /\ kept \notin {NULL, t} THEN kept ELSE cache[u]
  BY <1>1, <1>2 DEF TypeOK
<1>5. \A x \in Block : x \in {b, c} =>
        /\ blk'[x].type = IF x \notin {kept, Embedded} THEN "free"
                          ELSE IF x = t THEN "home" ELSE "idle"
        /\ x \in {kept, Embedded} => blk'[x].event = q[x].event
  <2>1. \A k, e : Fresh(k, e).type = k /\ Fresh(k, e).event = e
    BY DEF Fresh
  <2> QED BY <1>1, <2>1
<1>6. Cached'
  <2>1. ASSUME NEW x \in Block \ {Embedded}, blk'[x].type = "idle"
        PROVE  \E u \in Thread : cache'[u] = x
    <3>1. CASE x \in {b, c}
      <4>1. x = kept /\ kept \notin {NULL, t}
        BY <1>2, <1>5, <2>1, <3>1 DEF SyncKinds
      <4> QED BY <1>4, <4>1
    <3>2. CASE x \notin {b, c}
      <4>1. blk[x].type = "idle" /\ x # NULL
        BY <1>1, <1>2, <2>1, <3>2 DEF Like, Kinds, SyncKinds
      <4>2. PICK u \in Thread : cache[u] = x
        BY <2>1, <4>1 DEF HInv, Cached
      <4>3. u = t => kept \in {NULL, t}
        BY <1>3, <4>1, <4>2
      <4> QED BY <1>4, <4>2, <4>3
    <3> QED BY <3>1, <3>2
  <2>2. ASSUME NEW x \in Block, blk'[x].type = "home" PROVE x \in SyncThreads
    <3>1. CASE x \in {b, c}
      BY <1>2, <1>5, <2>2, <3>1 DEF SyncKinds
    <3>2. CASE x \notin {b, c}
      <4>1. blk[x].type = "home"
        BY <1>1, <2>2, <3>2 DEF Like, Kinds
      <4> QED BY <4>1 DEF HInv, Cached
    <3> QED BY <3>1, <3>2
  <2> QED BY <2>1, <2>2 DEF Cached
<1>7. EmbeddedKept'
  BY <1>1, <1>2 DEF HInv, EmbeddedKept, Like, SyncKinds
<1>8. ASSUME b = t, t \in Block PROVE blk'[t].type = "home" /\ blk'[t].event = q[t].event
  BY <1>3, <1>5, <1>8
<1>9. Spares(t)
  <2> SUFFICES ASSUME NEW s \in SyncThreads
               PROVE  /\ blk'[s].event # "none"
                      /\ blk[s].type = "home" => blk'[s].type = "home" \/ waiter'[t] = s
                      /\ blk[s].type \in Kinds =>
                           blk'[s].type \in Kinds \/ (s = t /\ blk'[s].type = "home")
    BY DEF Spares
  <2>1. Placed(s) /\ s \in Block
    BY <1>2 DEF HInv, AtHome, SyncKinds
  <2>2. CASE s \notin {b, c}
    BY <1>1, <2>1, <2>2 DEF Like, Placed, Kinds
  <2>3. CASE s \in {b, c}
    <3>1. s = t /\ b = t
      BY <1>2, <2>3, NotOthers DEF SyncKinds
    <3> QED BY <1>8, <2>1, <3>1 DEF Like, Placed
  <2> QED BY <2>2, <2>3
<1>10. b = t => t \in Block
  BY <1>2 DEF SyncKinds
<1> QED BY <1>6, <1>7, <1>8, <1>9, <1>10 DEF Tidy

\* AllocateWaiter takes blocks that are in nobody's cache.
LEMMA Taken ==
  ASSUME HInv, NEW t \in Thread, NEW type \in Kinds, NEW needed, NEW success, NEW failure,
         AllocateWaiter(t, type, needed, success, failure), UNCHANGED cache
  PROVE  Tidy(t)
<1>1. TypeOK /\ SyncKinds
  BY SyncFacts DEF HInv, IInv
<1>2. CASE UNCHANGED blk /\ (avail' = avail \/ "event" \in Failures)
  <2>1. Cached' /\ EmbeddedKept'
    BY <1>2 DEF HInv, Cached, EmbeddedKept
  <2>2. Spares(t)
    BY <1>1, <1>2 DEF HInv, Spares, AtHome, Placed, SyncKinds
  <2> QED BY <2>1, <2>2 DEF Tidy
<1>3. ASSUME NEW b \in {NewBlock, Embedded}, b # NULL, avail' = (avail /\ b # Embedded),
             blk' = [blk EXCEPT ![b] = Fresh(type, Armed(b, needed))]
      PROVE  Tidy(t)
  <2>1. b \in Heap \cup {Embedded}
    BY <1>3 DEF NewBlock, FreeBlocks
  <2>2. blk'[b].type = type /\ \A x \in Block \ {b} : blk'[x] = blk[x]
    BY <1>1, <1>3, <2>1 DEF TypeOK, Fresh, SyncKinds
  <2>3. Cached'
    BY <2>2 DEF HInv, Cached, Kinds
  <2>4. EmbeddedKept'
    BY <1>1, <1>3, <2>2 DEF HInv, EmbeddedKept, SyncKinds
  <2>5. Spares(t)
    BY <1>1, <2>1, <2>2 DEF HInv, Spares, AtHome, Placed, SyncKinds
  <2> QED BY <2>3, <2>4, <2>5 DEF Tidy
<1> QED BY <1>2, <1>3 DEF AllocateWaiter

-----------------------------------------------------------------------------
(* The steps *)

\* Fields other than the kind do not matter, nor does one kind for the other.
LEMMA LikeSame == Like(blk)
BY DEF Like

LEMMA LikeOwn ==
  ASSUME blk \in [Block -> Waiters], NEW n \in Block
  PROVE  Like([blk EXCEPT ![n].own = TRUE])
BY DEF Like, Waiters

LEMMA LikeEvent ==
  ASSUME blk \in [Block -> Waiters], NEW n \in Block
  PROVE  Like([blk EXCEPT ![n].event = "reset"])
BY DEF Like, Waiters

LEMMA LikeRef ==
  ASSUME blk \in [Block -> Waiters], NEW n \in Block, NEW r
  PROVE  Like([blk EXCEPT ![n].ref = r])
BY DEF Like, Waiters

LEMMA LikeKind ==
  ASSUME blk \in [Block -> Waiters], NEW n \in Block, blk[n].type \in Kinds, NEW k \in Kinds,
         NEW q, q = [blk EXCEPT ![n].type = k, ![n].own = TRUE, ![n].inserted = FALSE]
  PROVE  Like(q) /\ q \in [Block -> Waiters]
<1>1. Like(q)
  BY DEF Like, Waiters
<1>2. q[n] \in Waiters
  <2>1. q[n] = [blk[n] EXCEPT !.type = k, !.own = TRUE, !.inserted = FALSE] /\ blk[n] \in Waiters
    OBVIOUS
  <2> QED BY <2>1, KindFacts, Zenon
<1>3. q \in [Block -> Waiters]
  <2>1. \A x \in Block : x # n => q[x] = blk[x]
    OBVIOUS
  <2>2. \A x \in Block : q[x] \in Waiters
    BY <1>2, <2>1
  <2>3. q = [x \in Block |-> q[x]]
    OBVIOUS
  <2> HIDE DEF Waiters
  <2> QED BY <2>2, <2>3
<1> QED BY <1>1, <1>3

\* The steps of a thread that does not hold the lock.
LEMMA OtherSteps ==
  ASSUME NEW t \in Thread,
         \/ Look(t) \/ LockAllocate(t) \/ LockRetry(t) \/ LockFree(t)
         \/ LockSharedOnLastReader(t) \/ LockQueue(t) \/ LockWake(t) \/ LockReturn(t)
         \/ CvtReturn(t) \/ \E k \in Kinds : LockCall(t, k)
  PROVE  pc[t] \notin HoldPCs
BY DEF HoldPCs, Look, LockAllocate, LockRetry, LockFree, LockSharedOnLastReader, LockQueue,
       LockWake, LockReturn, CvtReturn, LockCall

\* The steps of a waiting thread.
LEMMA WaiterSteps ==
  ASSUME NEW t \in Thread, Step(t) \/ Call(t), pc[t] \in WaitPCs
  PROVE  LockWake(t) \/ LockReturn(t) \/ CvtReturn(t)
<1>1. pc[t] \notin HoldPCs
  BY DEF WaitPCs, HoldPCs
<1>2. ~ Call(t) /\ ~ SetEvent(t)
  BY DEF WaitPCs, SetEvent, Call, LockCall, UnlockCall, ConvertToExclusive, ConvertToShared
<1>3. /\ ~ Look(t) /\ ~ LockAllocate(t) /\ ~ LockRetry(t) /\ ~ LockFree(t)
      /\ ~ LockSharedOnLastReader(t) /\ ~ LockQueue(t)
  BY DEF WaitPCs, Look, LockAllocate, LockRetry, LockFree, LockSharedOnLastReader, LockQueue
<1> QED BY <1>1, <1>2, <1>3, HolderSteps DEF Step

\* A thread with a built-in block asks for it back.
LEMMA OwnAsks ==
  ASSUME HInv, NEW t \in SyncThreads, Step(t) \/ Call(t)
  PROVE  AsksBack(t)'
<1>1. TypeOK /\ AsksBack(t) /\ t \in Thread
  BY SyncFacts DEF HInv, IInv, AtHome, SyncKinds
<1>2. CASE Call(t)
  BY <1>1, <1>2 DEF TypeOK, AsksBack, Call, LockCall, UnlockCall, ConvertToExclusive, ConvertToShared
<1>3. CASE ShLook(t)
  <2>1. sync[t] /\ Passed(t) = NULL
    BY <1>1, <1>3 DEF AsksBack, ShLook, Passed
  <2>2. CASE pc'[t] = "shLast"
    BY <1>1, <1>3, <2>1, <2>2 DEF TypeOK, AsksBack, ShLook, NeedsBlock
  <2>3. CASE pc'[t] \in {"shAlloc", "shJoin", "held"}
    BY <1>1, <1>3, <2>1, <2>3 DEF TypeOK, AsksBack, ShLook
  <2> QED BY <1>1, <1>3, <2>2, <2>3 DEF TypeOK, ShLook
<1>4. CASE ShAllocate(t)
  <2>1. pc'[t] = "held" \/ (pc'[t] = "shLast" /\ waiter'[t] # NULL /\ sync' = sync)
    BY <1>1, <1>4 DEF TypeOK, ShAllocate, AllocateWaiter
  <2> QED BY <1>1, <1>4, <2>1 DEF AsksBack, ShAllocate
<1>5. CASE ShRetry(t)
  BY <1>1, <1>5 DEF TypeOK, AsksBack, ShRetry, local
<1>6. CASE ~ Call(t) /\ ~ ShLook(t) /\ ~ ShAllocate(t) /\ ~ ShRetry(t)
  <2>1. CASE Look(t) \/ LockAllocate(t) \/ LockRetry(t) \/ LockFree(t)
             \/ LockSharedOnLastReader(t) \/ LockQueue(t) \/ LockWake(t) \/ LockReturn(t)
    BY <1>1, <2>1 DEF TypeOK, AsksBack, Look, LockAllocate, AllocateWaiter, LockRetry, LockFree,
          LockSharedOnLastReader, LockQueue, LockWake, LockReturn
  <2>2. CASE UnlockShared(t) \/ UnlockExclusive(t) \/ SetEvent(t)
    BY <1>1, <2>2 DEF TypeOK, AsksBack, UnlockShared, UnlockExclusive, PassOn, SetEvent
  <2>3. CASE CvtLook(t) \/ CvtAllocate(t) \/ CvtInPlace(t) \/ CvtInsert(t) \/ CvtRetry(t)
             \/ CvtReturn(t) \/ ShLast(t) \/ ShJoin(t)
    BY <1>1, <2>3 DEF TypeOK, AsksBack, CvtLook, CvtAllocate, AllocateWaiter, CvtInPlace, CvtInsert,
          CvtRetry, CvtReturn, ShLast, ShJoin
  <2> QED BY <1>6, <2>1, <2>2, <2>3 DEF Step
<1> QED BY <1>2, <1>3, <1>4, <1>5, <1>6

\* The block by which t holds the lock stays in its place, or goes home.
LEMMA OwnHeld ==
  ASSUME HInv, IInv', NEW t \in SyncThreads, Step(t) \/ Call(t), Spares(t),
         t \in Queued, pc[t] \in HoldPCs, first = t
  PROVE  \/ t \notin Queued'
         \/ /\ pc'[t] \in HoldPCs /\ first' = first /\ last' = last
            /\ blk'[t].type = "reader" => last # t
<1>1. Placed(t) /\ AsksBack(t) /\ TypeOK /\ IInv /\ ThreadOK(t) /\ SyncKinds
      /\ t \in Thread /\ t \in Block
  BY SyncFacts DEF HInv, AtHome, IInv, Threads, SyncKinds
<1>2. t # NULL /\ t # Embedded /\ waiter[t] # t /\ blk[t].type = kind[t]
      /\ (pc[t] # "held" => mine[t] = t) /\ blk[t].next \in Block \cup {NULL}
      /\ waiter[t] \in Block \cup {NULL} /\ blk \in [Block -> Waiters]
  BY <1>1 DEF SyncKinds, Queued, ThreadOK, HoldOK, TypeOK, Waiters
<1>3. blk[t].type = "reader" => blk[t].ref = 1
  <2> SUFFICES ASSUME blk[t].type = "reader" PROVE blk[t].ref = 1
    OBVIOUS
  <2>1. Counted(t) = {t}
    BY <1>1 DEF Placed, Counted, On, WaitPCs
  <2> QED BY <1>1, <2>1, FS_Singleton DEF IInv, Counts, RefCountExact
<1>4. ASSUME NEW q, Like(q), NEW c \in {NULL, waiter[t]}, StoreOrFree(t, q, t, c)
      PROVE  t \notin Queued'
  <2>1. blk'[t].type = "home"
    BY <1>1, <1>2, <1>4, GivenBack DEF SyncKinds
  <2> QED BY <2>1 DEF Queued, Kinds
<1>5. CASE UnlockShared(t) \/ UnlockExclusive(t)
  <2>1. PassOn(t) /\ mine[t] = t
    BY <1>2, <1>3, <1>5 DEF UnlockShared, UnlockExclusive
  <2>2. Like(blk) /\ \A n \in Block : Like([blk EXCEPT ![n].own = TRUE])
    BY <1>2, LikeSame, LikeOwn
  <2>3. PICK q : Like(q) /\ StoreOrFree(t, q, t, NULL)
    BY <1>2, <2>1, <2>2 DEF PassOn
  <2> QED BY <1>4, <2>3
<1>6. CASE ShJoin(t)
  <2> DEFINE n == blk[t].next
             q == [blk EXCEPT ![n].own = TRUE, ![n].ref = @ + 1]
  <2>1. mine[t] = t /\ n \in Block
    BY <1>1, <1>2, <1>6 DEF ShJoin, ThreadOK, HoldOK
  <2>2. Like(q)
    BY <1>2, <2>1 DEF Like, Waiters
  <2>3. StoreOrFree(t, q, t, waiter[t])
    BY <1>6, <2>1 DEF ShJoin
  <2> QED BY <1>4, <2>2, <2>3
<1>7. CASE ShLast(t)
  <2>1. mine[t] = t /\ waiter[t] # NULL
    BY <1>1, <1>2, <1>7 DEF ShLast, AsksBack
  <2>2. StoreOrFree(t, [blk EXCEPT ![waiter[t]].own = TRUE], t, NULL)
    BY <1>7, <2>1 DEF ShLast
  <2>3. waiter[t] \in Block
    BY <1>2, <2>1
  <2>4. Like([blk EXCEPT ![waiter[t]].own = TRUE])
    BY <1>2, <2>3, LikeOwn
  <2> QED BY <1>4, <2>2, <2>4
<1>8. ~ CvtInsert(t)
  BY <1>1, <1>2, <1>3 DEF CvtInsert, ThreadOK, HoldOK
<1>9. ASSUME pc'[t] \in HoldPCs, first' = first, last' = last,
             kind'[t] = "reader" => kind[t] = "reader" \/ blk[t].next # NULL
      PROVE  blk'[t].type = "reader" => last # t
  <2>1. blk'[t].type = kind'[t]
    BY <1>1, <1>9 DEF IInv, Threads, ThreadOK, HoldOK
  <2>2. blk[t].next # NULL => last # t
    BY <1>1, QueueFacts DEF IInv, QueueOK
  <2> QED BY <1>1, <1>2, <1>9, <2>1, <2>2 DEF Placed
<1>10. CASE UnlockCall(t) \/ ConvertToExclusive(t) \/ \E s \in BOOLEAN : ConvertToShared(t, s)
  <2>1. pc'[t] \in HoldPCs /\ first' = first /\ last' = last /\ kind'[t] = kind[t]
    BY <1>1, <1>2, <1>10 DEF UnlockCall, ConvertToExclusive, ConvertToShared, queue, TypeOK, HoldPCs
  <2> QED BY <1>9, <2>1
<1>11. CASE CvtLook(t) \/ CvtInPlace(t) \/ CvtRetry(t) \/ ShRetry(t) \/ CvtAllocate(t)
            \/ ShAllocate(t)
  <2>1. pc'[t] \in HoldPCs
    BY <1>1, <1>11 DEF CvtLook, CvtInPlace, CvtRetry, ShRetry, CvtAllocate, ShAllocate,
          AllocateWaiter, TypeOK, HoldPCs
  <2>2. first' = first /\ last' = last /\ (kind'[t] = "reader" => kind[t] = "reader")
    BY <1>1, <1>11 DEF CvtLook, CvtInPlace, CvtRetry, ShRetry, CvtAllocate, ShAllocate,
          queue, local, TypeOK
  <2> QED BY <1>9, <2>1, <2>2
<1>12. CASE SetEvent(t)
  <2>1. pc[t] = "shSignal"
    BY <1>12 DEF SetEvent, HoldPCs
  <2>2. pc'[t] \in HoldPCs /\ first' = first /\ last' = last /\ kind'[t] = kind[t]
    BY <1>1, <1>12, <2>1 DEF SetEvent, queue, TypeOK, HoldPCs
  <2> QED BY <1>9, <2>2
<1>13. CASE ShLook(t)
  <2>1. mine[t] = t
    BY <1>2, <1>13 DEF ShLook
  <2>2. pc'[t] \in HoldPCs /\ first' = first /\ last' = last
    BY <1>1, <1>13 DEF ShLook, queue, TypeOK, HoldPCs
  <2>3. kind'[t] = kind[t] \/ blk[t].next # NULL
    BY <1>13, <2>1 DEF ShLook
  <2> QED BY <1>9, <2>2, <2>3
<1>14. CASE Call(t)
  <2>1. ~ \E k \in Kinds : LockCall(t, k)
    BY <1>1, OtherSteps
  <2> QED BY <1>10, <1>14, <2>1 DEF Call
<1>15. CASE Step(t)
  BY <1>1, <1>5, <1>6, <1>7, <1>8, <1>11, <1>12, <1>13, <1>15, OtherSteps DEF Step
<1> QED BY <1>14, <1>15

\* The block built into t goes from home through its hands into the queue,
\* and home again.
LEMMA OwnPlaced ==
  ASSUME HInv, IInv', NEW t \in SyncThreads, Step(t) \/ Call(t), Spares(t)
  PROVE  Placed(t)'
<1>1. Placed(t) /\ TypeOK /\ IInv /\ ThreadOK(t) /\ SyncKinds /\ t \in Thread /\ t \in Block /\ t # NULL
  BY SyncFacts DEF HInv, AtHome, IInv, Threads, SyncKinds
<1>2. Apart(t) /\ (\A u \in Thread \ {t} : waiter'[u] # t)
  BY <1>1, EachApart, HandsApart
<1>3. waiter'[t] = t => waiter[t] = t \/ (pc'[t] = "look" /\ kind'[t] = "writer")
  BY <1>1, HandsApart
<1>4. blk'[t].event # "none"
  BY <1>1 DEF Spares
<1>5. blk'[t].type \in Kinds \cup {"home"}
  <2>1. blk'[t].type \in Kinds \cup {"home"} \/ waiter'[t] = t
    BY <1>1 DEF Spares, Placed
  <2>2. waiter'[t] = t => blk'[t].type \in Kinds
    BY <1>1 DEF IInv, Hands, InHand
  <2> QED BY <2>1, <2>2
<1>6. ASSUME waiter[t] # t, t \notin Queued PROVE Placed(t)'
  <2>1. blk[t].type = "home"
    BY <1>1, <1>6 DEF Placed, Queued
  <2>2. t \notin Queued'
    BY <1>1, <2>1 DEF Spares, Queued, Kinds
  <2> QED BY <1>2, <1>3, <1>4, <1>5, <1>6, <2>2 DEF Placed
<1>7. ASSUME waiter[t] = t PROVE Placed(t)'
  <2>1. pc[t] \in {"look", "lock"} /\ kind[t] = "writer" /\ pc[t] \notin HoldPCs
    BY <1>1, <1>7 DEF Placed, HoldPCs
  <2>2. Look(t) \/ LockRetry(t) \/ LockFree(t) \/ LockQueue(t)
    <3>1. ~ Call(t) /\ ~ SetEvent(t) /\ ~ LockAllocate(t) /\ ~ LockSharedOnLastReader(t)
      BY <2>1 DEF SetEvent, LockAllocate, LockSharedOnLastReader, Call, LockCall, UnlockCall,
            ConvertToExclusive, ConvertToShared
    <3>2. ~ LockWake(t) /\ ~ LockReturn(t) /\ ~ CvtReturn(t)
      BY <2>1 DEF LockWake, LockReturn, CvtReturn
    <3> QED BY <1>1, <2>1, <3>1, <3>2, HolderSteps DEF Step
  <2>3. CASE Look(t) \/ LockRetry(t)
    <3>1. \/ waiter'[t] = t /\ pc'[t] \in {"look", "lock"} /\ kind'[t] = "writer"
          \/ Look(t) /\ StoreOrFree(t, blk, t, NULL) /\ waiter'[t] = NULL
      BY <1>1, <1>7, <2>1, <2>3 DEF Look, LockRetry, local, TypeOK
    <3>2. CASE waiter'[t] = t /\ pc'[t] \in {"look", "lock"} /\ kind'[t] = "writer"
      <4>1. t \notin Queued'
        BY <1>1, <3>2 DEF Queued
      <4> QED BY <1>2, <1>4, <1>5, <3>2, <4>1 DEF Placed
    <3>3. CASE StoreOrFree(t, blk, t, NULL) /\ waiter'[t] = NULL
      <4>1. Like(blk)
        BY DEF Like
      <4>2. blk'[t].type = "home"
        BY <1>1, <1>7, <3>3, <4>1, GivenBack DEF SyncKinds
      <4>3. t \notin Queued'
        BY <4>2 DEF Queued, Kinds
      <4> QED BY <1>1, <1>2, <1>4, <1>5, <3>3, <4>3 DEF Placed
    <3> QED BY <3>1, <3>2, <3>3
  <2>4. CASE LockFree(t) \/ LockQueue(t)
    <3>1. /\ waiter'[t] # t /\ kind'[t] = "writer"
          /\ \/ pc'[t] = "held" /\ first' = t
             \/ pc'[t] = "wait" /\ mine'[t] = t
      BY <1>1, <1>7, <2>1, <2>4 DEF LockFree, LockQueue, TypeOK
    <3>2. On(t, t)'
      BY <3>1 DEF On, HoldPCs, WaitPCs
    <3>3. blk'[t].type = "writer"
      BY <1>1, <3>1 DEF IInv, Threads, ThreadOK, WaitOK, HoldOK, WaitPCs, HoldPCs, Asked
    <3> QED BY <1>2, <1>4, <1>5, <3>1, <3>2, <3>3 DEF Placed
  <2> QED BY <2>2, <2>3, <2>4
<1>8. ASSUME t \in Queued, pc[t] \in WaitPCs PROVE Placed(t)'
  <2>1. mine[t] = t /\ blk[t].type = "writer" /\ waiter[t] # t
    BY <1>1, <1>8 DEF Placed, On, WaitPCs, HoldPCs, Queued, Kinds
  <2>2. LockWake(t) \/ LockReturn(t) \/ CvtReturn(t)
    BY <1>1, <1>8, WaiterSteps
  <2>3. UNCHANGED <<blk, waiter>>
    BY <2>2 DEF LockWake, LockReturn, CvtReturn, local
  <2>4. CvtReturn(t) => first = t
    BY <1>1, <1>8, <2>1, OwnsFirst DEF CvtReturn
  <2>5. On(t, t)'
    BY <1>1, <2>1, <2>2, <2>4 DEF LockWake, LockReturn, CvtReturn, local, queue, On, TypeOK, HoldPCs,
          WaitPCs
  <2> QED BY <1>2, <1>4, <1>5, <2>1, <2>3, <2>5 DEF Placed
<1>9. ASSUME t \in Queued, pc[t] \in HoldPCs, first = t PROVE Placed(t)'
  <2>1. waiter[t] # t
    BY <1>1, <1>9 DEF Queued
  <2>2. CASE t \notin Queued'
    BY <1>2, <1>3, <1>4, <1>5, <2>1, <2>2 DEF Placed
  <2>3. CASE /\ pc'[t] \in HoldPCs /\ first' = first /\ last' = last
             /\ blk'[t].type = "reader" => last # t
    <3>1. On(t, t)'
      BY <1>9, <2>3 DEF On
    <3>2. ASSUME NEW u \in Thread, On(u, t)' PROVE u = t
      <4>1. u # t => On(u, t)
        BY <1>2, <2>3, <3>2 DEF On, Apart
      <4> QED BY <1>9, <4>1, HomeAlone
    <3> QED BY <1>2, <1>3, <1>4, <1>5, <2>1, <2>3, <3>1, <3>2 DEF Placed
  <2> QED BY <1>9, <2>2, <2>3, OwnHeld
<1>10. t \in Queued => On(t, t)
  BY <1>1 DEF Placed
<1> QED BY <1>6, <1>7, <1>8, <1>9, <1>10 DEF On

\* What is left to show of a step of t.
LEMMA HKept ==
  ASSUME HInv, IInv', NEW t \in Thread, Step(t) \/ Call(t), Tidy(t)
  PROVE  HInv'
<1>1. ASSUME NEW s \in SyncThreads PROVE AtHome(s)'
  <2>1. CASE s = t
    BY <2>1, OwnAsks, OwnPlaced DEF AtHome, Tidy
  <2>2. CASE s # t
    BY <2>2, HomesKept DEF Tidy
  <2> QED BY <2>1, <2>2
<1> QED BY <1>1 DEF HInv, Tidy

\* A call takes the block out of the cache.
LEMMA TidyCalls ==
  ASSUME HInv, NEW t \in Thread, Call(t)
  PROVE  Tidy(t)
<1>1. TypeOK /\ IInv /\ Hands /\ SyncKinds
  BY SyncFacts DEF HInv, IInv
<1>2. CASE UnlockCall(t) \/ ConvertToExclusive(t) \/ \E s \in BOOLEAN : ConvertToShared(t, s)
  <2>1. UNCHANGED <<cache, avail, blk>>
    BY <1>2 DEF UnlockCall, ConvertToExclusive, ConvertToShared
  <2>2. Like(blk')
    BY <2>1 DEF Like
  <2> QED BY <2>1, <2>2, Worked
<1>3. ASSUME NEW k \in Kinds, LockCall(t, k) PROVE Tidy(t)
  <2>1. PICK w \in Offers(t, k) :
          /\ waiter' = [waiter EXCEPT ![t] = w]
          /\ blk' = IF w = NULL THEN blk ELSE [blk EXCEPT ![w] = Fresh(k, @.event)]
    BY <1>3 DEF LockCall
  <2>2. /\ cache' = [cache EXCEPT ![t] = NULL] /\ avail' = avail
        /\ cache[t] # NULL => w = cache[t]
        /\ w # NULL => w \in Block /\ blk[w].type \in {"idle", "home"} /\ w # Embedded
    BY <1>1, <1>3 DEF LockCall, Offers, TypeOK, Hands, SyncKinds
  <2>3. \A x \in Block :
          \/ blk'[x] = blk[x] /\ (x # w \/ w = NULL)
          \/ x = w /\ blk'[x].type = k /\ blk'[x].event = blk[x].event
    BY <1>1, <2>1, <2>2 DEF TypeOK, Fresh
  <2>4. (\A u \in Thread \ {t} : cache'[u] = cache[u]) /\ waiter'[t] = w
    BY <1>1, <2>1, <2>2 DEF TypeOK
  <2>5. Cached'
    <3>1. ASSUME NEW x \in Block \ {Embedded}, blk'[x].type = "idle"
          PROVE  \E u \in Thread : cache'[u] = x
      <4>1. blk[x].type = "idle" /\ x # cache[t]
        BY <1>1, <2>2, <2>3, <3>1 DEF Kinds, SyncKinds
      <4>2. PICK u \in Thread : cache[u] = x
        BY <3>1, <4>1 DEF HInv, Cached
      <4> QED BY <2>4, <4>1, <4>2
    <3>2. ASSUME NEW x \in Block, blk'[x].type = "home" PROVE x \in SyncThreads
      BY <2>3, <3>2 DEF HInv, Cached, Kinds
    <3> QED BY <3>1, <3>2 DEF Cached
  <2>6. EmbeddedKept'
    BY <1>1, <2>2, <2>3 DEF HInv, EmbeddedKept, SyncKinds
  <2>7. Spares(t)
    BY <1>1, <2>2, <2>3, <2>4 DEF HInv, AtHome, Placed, Spares, SyncKinds, Kinds
  <2> QED BY <2>5, <2>6, <2>7 DEF Tidy
<1> QED BY <1>2, <1>3 DEF Call

\* Steps that allocate, return or lend no block.
LEMMA TidyQuiet ==
  ASSUME HInv, NEW t \in Thread,
         \/ LockRetry(t) \/ LockFree(t) \/ LockQueue(t) \/ LockWake(t) \/ LockReturn(t)
         \/ SetEvent(t) \/ CvtInsert(t) \/ CvtRetry(t) \/ CvtReturn(t) \/ ShRetry(t)
  PROVE  Tidy(t)
<1>1. TypeOK /\ IInv /\ ThreadOK(t) /\ blk \in [Block -> Waiters]
  BY DEF HInv, IInv, Threads, TypeOK
<1>2. UNCHANGED <<cache, avail>>
  BY DEF LockRetry, LockFree, LockQueue, LockWake, LockReturn, SetEvent, CvtInsert, CvtRetry,
         CvtReturn, ShRetry
<1>3. Like(blk')
  <2>1. CASE UNCHANGED blk
    BY <2>1, LikeSame
  <2>2. CASE LockFree(t)
    BY <1>1, <2>2 DEF LockFree, Like, Waiters
  <2>3. CASE LockQueue(t)
    BY <1>1, <2>3 DEF LockQueue, Like, Waiters
  <2>4. CASE SetEvent(t)
    BY <1>1, <2>4 DEF SetEvent, Like, Waiters
  <2>5. CASE CvtInsert(t)
    <3> DEFINE q == [blk EXCEPT ![waiter[t]].next = blk[mine[t]].next,
                                ![mine[t]].next = waiter[t], ![mine[t]].ref = @ - 1]
    <3>1. \A x \in Block : q[x].type = blk[x].type /\ q[x].event = blk[x].event
      BY <1>1 DEF Waiters
    <3>2. blk' = q \/ blk' = MarkOvertaken(q, blk[mine[t]].next)
      BY <2>5 DEF CvtInsert
    <3>3. q \in [Block -> Waiters]
      <4>1. blk[mine[t]].ref > 1 /\ \A x \in Block : blk[x].ref \in Nat
        BY <1>1, <2>5 DEF CvtInsert, Waiters
      <4>2. \A x \in Block : blk[x].next \in Block \cup {NULL} /\ waiter[t] \in Block \cup {NULL}
        BY <1>1 DEF TypeOK, Waiters
      <4>3. mine[t] \in Block
        BY <1>1, <2>5 DEF CvtInsert, ThreadOK, HoldOK, HoldPCs, Queued
      <4> QED BY <1>1, <4>1, <4>2, <4>3 DEF Waiters
    <3> HIDE DEF q
    <3>4. \A x \in Block : blk'[x].type = q[x].type /\ blk'[x].event = q[x].event
      BY <3>2, <3>3, InsertedFacts DEF MarkOvertaken
    <3> QED BY <3>1, <3>4 DEF Like
  <2> QED BY <2>1, <2>2, <2>3, <2>4, <2>5 DEF LockRetry, LockWake, LockReturn, CvtRetry, CvtReturn, ShRetry
<1> QED BY <1>2, <1>3, Worked

LEMMA TidyAllocate ==
  ASSUME HInv, NEW t \in Thread, LockAllocate(t) \/ CvtAllocate(t) \/ ShAllocate(t)
  PROVE  Tidy(t)
<1>1. TypeOK /\ UNCHANGED cache
  BY DEF HInv, IInv, LockAllocate, CvtAllocate, ShAllocate
<1>2. kind[t] \in Kinds
  BY <1>1 DEF TypeOK
<1>3. CASE LockAllocate(t)
  BY <1>1, <1>2, <1>3, Taken DEF LockAllocate
<1>4. CASE CvtAllocate(t)
  BY <1>1, <1>4, Taken DEF CvtAllocate, Kinds
<1>5. CASE ShAllocate(t)
  BY <1>1, <1>5, Taken DEF ShAllocate, Kinds
<1> QED BY <1>3, <1>4, <1>5

\* Blocks that were in hand go back.
LEMMA TidyLook ==
  ASSUME HInv, NEW t \in Thread, Look(t) \/ LockSharedOnLastReader(t)
  PROVE  Tidy(t)
<1>1. TypeOK /\ IInv /\ blk \in [Block -> Waiters] /\ waiter[t] \in Block \cup {NULL} /\ NULL \notin Block
      /\ NULL # t
  BY SyncFacts DEF HInv, IInv, TypeOK, SyncKinds
<1>2. CASE LockSharedOnLastReader(t)
  <2>1. last \in Block
    BY <1>1, <1>2, SyncFacts DEF LockSharedOnLastReader, IInv, Marked, TypeOK, LastState
  <2>2. blk[last].ref + 1 \in Nat
    BY <1>1, <2>1 DEF Waiters
  <2>3. Like([blk EXCEPT ![last].ref = @ + 1])
    BY <1>1, <2>1, LikeRef
  <2> QED BY <1>1, <1>2, <2>3, GivenBack DEF LockSharedOnLastReader
<1>3. CASE Look(t)
  <2>1. CASE StoreOrFree(t, blk, waiter[t], NULL)
    BY <1>1, <2>1, LikeSame, GivenBack
  <2>2. CASE /\ UNCHANGED <<cache, avail>>
             /\ \/ blk' = blk
                \/ waiter[t] # NULL /\ blk' = [blk EXCEPT ![waiter[t]].event = "reset"]
    <3>1. Like(blk')
      BY <1>1, <2>2, LikeSame, LikeEvent
    <3> QED BY <2>2, <3>1, Worked
  <2> QED BY <1>3, <2>1, <2>2 DEF Look
<1> QED BY <1>2, <1>3

\* The block by which t held the lock goes back, if it was the last holder.
LEMMA TidyUnlock ==
  ASSUME HInv, NEW t \in Thread, UnlockShared(t) \/ UnlockExclusive(t)
  PROVE  Tidy(t)
<1>1. TypeOK /\ IInv /\ blk \in [Block -> Waiters] /\ NULL \notin Block /\ HoldOK(t) /\ NULL # t
  BY SyncFacts DEF HInv, IInv, Threads, ThreadOK, TypeOK, SyncKinds
<1>2. pc[t] = "unlock"
  BY DEF UnlockShared, UnlockExclusive
<1>3. mine[t] = first /\ first \in Block /\ pc[t] \in HoldPCs
  BY <1>1, <1>2 DEF HoldOK, HoldPCs, Queued
<1>4. CASE PassOn(t)
  <2>1. blk[first].next \in Block \cup {NULL}
    BY <1>1, <1>3 DEF Waiters
  <2>2. Like(blk) /\ \A n \in Block : Like([blk EXCEPT ![n].own = TRUE])
    BY <1>1, LikeSame, LikeOwn
  <2>3. PICK q : Like(q) /\ StoreOrFree(t, q, first, NULL)
    BY <1>3, <1>4, <2>1, <2>2 DEF PassOn
  <2> QED BY <1>1, <1>3, <2>3, GivenBack
<1>5. CASE ~ PassOn(t)
  <2>1. UNCHANGED <<cache, avail>> /\ blk' = [blk EXCEPT ![first].ref = @ - 1]
    BY <1>3, <1>5 DEF UnlockShared, UnlockExclusive
  <2>2. \A x \in Block : blk'[x].type = blk[x].type /\ blk'[x].event = blk[x].event
    BY <1>1, <2>1 DEF Waiters
  <2> QED BY <2>1, <2>2, Worked DEF Like
<1> QED BY <1>4, <1>5

LEMMA TidyInPlace ==
  ASSUME HInv, NEW t \in Thread, CvtInPlace(t)
  PROVE  Tidy(t)
<1>1. TypeOK /\ IInv /\ blk \in [Block -> Waiters] /\ NULL \notin Block /\ HoldOK(t)
      /\ waiter[t] \in Block \cup {NULL} /\ NULL # t
  BY SyncFacts DEF HInv, IInv, Threads, ThreadOK, TypeOK, SyncKinds
<1>2. mine[t] = first /\ first \in Block /\ blk[first].type \in Kinds
  BY <1>1 DEF HoldOK, HoldPCs, Queued, CvtInPlace
<1>3. PICK q : q = [blk EXCEPT ![first].type = "writer", ![first].own = TRUE, ![first].inserted = FALSE]
  OBVIOUS
<1> DEFINE r == MarkOvertaken(q, blk[first].next)
<1>4. Like(q) /\ q \in [Block -> Waiters]
  <2>1. "writer" \in Kinds
    BY DEF Kinds
  <2> QED BY <1>1, <1>2, <1>3, <2>1, LikeKind, Zenon
<1>5. StoreOrFree(t, r, waiter[t], NULL)
  BY <1>2, <1>3 DEF CvtInPlace
<1>6. \A x \in Block : r[x].type = q[x].type /\ r[x].event = q[x].event
  BY <1>4, InsertedFacts DEF MarkOvertaken
<1> HIDE DEF r
<1>7. Like(r)
  BY <1>4, <1>6 DEF Like
<1> QED BY <1>1, <1>5, <1>7, GivenBack

\* A cached block is lent.
LEMMA TidyCvtLook ==
  ASSUME HInv, NEW t \in Thread, CvtLook(t)
  PROVE  Tidy(t)
<1>1. TypeOK /\ IInv /\ Hands /\ SyncKinds /\ blk \in [Block -> Waiters] /\ avail' = avail
      /\ waiter[t] \in Block \cup {NULL} /\ cache[t] \in Block \cup {NULL}
  BY SyncFacts DEF HInv, IInv, TypeOK, CvtLook
<1>2. CASE /\ cache' = cache
           /\ \/ blk' = blk
              \/ waiter[t] # NULL /\ blk' = [blk EXCEPT ![waiter[t]].event = "reset"]
  <2>1. Like(blk')
    BY <1>1, <1>2, LikeSame, LikeEvent
  <2> QED BY <1>1, <1>2, <2>1, Worked
<1>3. CASE /\ cache[t] # NULL /\ cache' = [cache EXCEPT ![t] = NULL]
           /\ blk' = [blk EXCEPT ![cache[t]] = Fresh("writer", "reset")]
  <2>1. \A x \in Block : IF x = cache[t] THEN blk'[x].type = "writer" /\ blk'[x].event = "reset"
                         ELSE blk'[x] = blk[x]
    BY <1>1, <1>3 DEF Fresh
  <2>2. \A u \in Thread \ {t} : cache'[u] = cache[u]
    BY <1>1, <1>3 DEF TypeOK
  <2>3. Cached'
    <3>1. ASSUME NEW x \in Block \ {Embedded}, blk'[x].type = "idle"
          PROVE  \E u \in Thread : cache'[u] = x
      <4>1. x # cache[t] /\ blk[x].type = "idle"
        BY <2>1, <3>1
      <4>2. PICK u \in Thread : cache[u] = x
        BY <4>1 DEF HInv, Cached
      <4> QED BY <2>2, <4>1, <4>2
    <3>2. ASSUME NEW x \in Block, blk'[x].type = "home" PROVE x \in SyncThreads
      BY <2>1, <3>2 DEF HInv, Cached
    <3> QED BY <3>1, <3>2 DEF Cached
  <2>4. EmbeddedKept'
    BY <1>1, <2>1 DEF HInv, EmbeddedKept, Kinds, SyncKinds
  <2>5. cache[t] \notin SyncThreads
    BY <1>1, <1>3 DEF HInv, AtHome, Placed, Hands, Kinds
  <2>6. Spares(t)
    BY <1>1, <2>1, <2>5 DEF HInv, AtHome, Placed, Spares, SyncKinds
  <2> QED BY <2>3, <2>4, <2>6 DEF Tidy
<1> QED BY <1>2, <1>3 DEF CvtLook, Passed

LEMMA TidyShLook ==
  ASSUME HInv, NEW t \in Thread, ShLook(t)
  PROVE  Tidy(t)
<1>1. TypeOK /\ IInv /\ blk \in [Block -> Waiters] /\ NULL \notin Block /\ HoldOK(t)
      /\ waiter[t] \in Block \cup {NULL} /\ pc[t] = "sh" /\ NULL # t
  BY SyncFacts DEF HInv, IInv, Threads, ThreadOK, TypeOK, SyncKinds, ShLook
<1>2. mine[t] = first /\ first \in Block /\ blk[first].type \in Kinds
  BY <1>1 DEF HoldOK, HoldPCs, Queued
<1>3. CASE UNCHANGED <<avail, blk, cache>>
  BY <1>3, LikeSame, Worked
<1>4. PICK q : q = [blk EXCEPT ![first].type = "reader", ![first].own = TRUE, ![first].inserted = FALSE]
  OBVIOUS
<1>5. CASE StoreOrFree(t, q, waiter[t], NULL)
  <2>1. "reader" \in Kinds
    BY DEF Kinds
  <2>2. Like(q)
    BY <1>1, <1>2, <1>4, <2>1, LikeKind, Zenon
  <2> QED BY <1>1, <1>5, <2>2, GivenBack
<1> QED BY <1>2, <1>3, <1>4, <1>5 DEF ShLook

LEMMA TidyShJoin ==
  ASSUME HInv, NEW t \in Thread, ShJoin(t)
  PROVE  Tidy(t)
<1>1. TypeOK /\ IInv /\ blk \in [Block -> Waiters] /\ NULL \notin Block /\ HoldOK(t)
      /\ waiter[t] \in Block \cup {NULL} /\ pc[t] \in HoldPCs
  BY SyncFacts DEF HInv, IInv, Threads, ThreadOK, TypeOK, SyncKinds, ShJoin, HoldPCs
<1>2. mine[t] = first /\ first \in Block /\ blk[first].next # NULL
  BY <1>1 DEF HoldOK, HoldPCs, Queued, ShJoin
<1>3. blk[first].next \in Block
  BY <1>1, <1>2 DEF Waiters
<1>4. blk[blk[first].next].ref + 1 \in Nat
  BY <1>1, <1>3 DEF Waiters
<1>5. Like([blk EXCEPT ![blk[first].next].own = TRUE, ![blk[first].next].ref = @ + 1])
  BY <1>1, <1>3, <1>4 DEF Like, Waiters
<1>6. waiter[t] # t
  BY <1>1, SyncFacts DEF ShJoin, HInv, AtHome, Placed, SyncKinds
<1> QED BY <1>1, <1>2, <1>5, <1>6, GivenBack DEF ShJoin

\* The block by which t holds the lock goes to its cache.
LEMMA TidyShLast ==
  ASSUME HInv, NEW t \in Thread, ShLast(t)
  PROVE  Tidy(t)
<1>1. TypeOK /\ IInv /\ blk \in [Block -> Waiters] /\ NULL \notin Block /\ HoldOK(t)
      /\ waiter[t] \in Block \cup {NULL} /\ pc[t] = "shLast" /\ NULL # t
  BY SyncFacts DEF HInv, IInv, Threads, ThreadOK, TypeOK, SyncKinds, ShLast
<1>2. mine[t] = first /\ first \in Block /\ blk[first].type \in Kinds /\ pc[t] \in HoldPCs
  BY <1>1 DEF HoldOK, HoldPCs, Queued
<1>3. CASE waiter[t] = NULL
  <2>1. blk' = [blk EXCEPT ![first].type = "reader", ![first].own = TRUE, ![first].inserted = FALSE]
    BY <1>2, <1>3 DEF ShLast
  <2>2. "reader" \in Kinds
    BY DEF Kinds
  <2>3. Like(blk')
    BY <1>1, <1>2, <2>1, <2>2, LikeKind, Zenon
  <2>4. UNCHANGED <<cache, avail>>
    BY <1>3 DEF ShLast
  <2> QED BY <2>3, <2>4, Worked
<1>4. CASE waiter[t] # NULL
  <2>1. StoreOrFree(t, [blk EXCEPT ![waiter[t]].own = TRUE], first, NULL)
    BY <1>2, <1>4 DEF ShLast
  <2>2. Like([blk EXCEPT ![waiter[t]].own = TRUE])
    BY <1>1, <1>4, LikeOwn
  <2> QED BY <1>1, <1>2, <2>1, <2>2, GivenBack
<1> QED BY <1>3, <1>4

LEMMA HInit == Init => HInv
<1> SUFFICES ASSUME Init PROVE HInv
  OBVIOUS
<1>1. IInv /\ SyncKinds
  BY InitHolds, SyncFacts
<1>2. \A x \in Block : blk[x].type = IF x \in Heap THEN "free"
                                     ELSE IF x = Embedded THEN "idle" ELSE "home"
  BY DEF Init, Fresh
<1>3. Cached
  BY <1>1, <1>2 DEF Init, Cached, Block, SyncKinds
<1>4. \A t \in SyncThreads : blk[t].event = "reset" /\ blk[t].type = "home" /\ t # NULL
  BY <1>1, <1>2 DEF Init, Fresh, SyncKinds
<1>5. \A t \in SyncThreads : AtHome(t)
  BY <1>1, <1>4 DEF Init, AtHome, Placed, AsksBack, Queued, Kinds, SyncKinds
<1>6. EmbeddedKept
  BY DEF Init, EmbeddedKept
<1> QED BY <1>1, <1>3, <1>5, <1>6 DEF HInv

LEMMA HNext == HInv /\ [Next]_vars => HInv'
<1> SUFFICES ASSUME HInv, [Next]_vars PROVE HInv'
  OBVIOUS
<1>1. IInv'
  BY NextHolds DEF HInv
<1>2. CASE UNCHANGED vars
  <2>1. UNCHANGED <<last, tag, first, avail, blk, cache, pc, kind, waiter, mine, sync>>
    BY <1>2 DEF vars, queue, local
  <2>2. Cached' /\ EmbeddedKept'
    BY <2>1 DEF HInv, Cached, EmbeddedKept
  <2>3. \A t \in SyncThreads : AtHome(t) => AtHome(t)'
    BY <2>1 DEF AtHome, Placed, AsksBack, Queued, On
  <2> QED BY <1>1, <2>2, <2>3 DEF HInv
<1>3. ASSUME NEW t \in Thread, Step(t) PROVE HInv'
  <2>1. Tidy(t)
    BY <1>3, TidyQuiet, TidyAllocate, TidyLook, TidyUnlock, TidyInPlace, TidyCvtLook, TidyShLook,
       TidyShJoin, TidyShLast DEF Step
  <2> QED BY <1>1, <1>3, <2>1, HKept
<1>4. ASSUME NEW t \in Thread, Call(t) PROVE HInv'
  BY <1>1, <1>4, TidyCalls, HKept
<1> QED BY <1>2, <1>3, <1>4 DEF Next

\* No block is lost: what is not in use is in a cache or free, the embedded
\* block is available or in use, and the block built into a THREAD is at
\* home, in the hands of that thread, or in the queue for it.
THEOREM HInvHolds == Spec => []HInv
BY HInit, HNext, PTL DEF Spec

-----------------------------------------------------------------------------
\* Of how many there is at most one.
LEMMA AtMostOne ==
  ASSUME NEW S, S \subseteq Thread, \A t, u \in S : t = u
  PROVE  Cardinality(S) = IF S = {} THEN 0 ELSE 1
<1>1. CASE S = {}
  BY <1>1, FS_EmptySet
<1>2. CASE S # {}
  <2>1. PICK t \in S : S = {t}
    BY <1>2
  <2> QED BY <1>2, <2>1, FS_Singleton
<1> QED BY <1>1, <1>2

\* Every block is in one place at most: the queue, one thread's hands, or one
\* cache; what is in none is free, or is at home in its THREAD.
THEOREM OnePlaceHolds == Spec => []OnePlace
<1>1. HInv => OnePlace
  <2> SUFFICES ASSUME HInv, NEW b \in Block
               PROVE  LET holders == {t \in Thread : waiter[t] = b}
                          caches == {t \in Thread : cache[t] = b}
                          places == Cardinality(holders) + Cardinality(caches)
                                    + (IF b \in Queued THEN 1 ELSE 0)
                          unused == IF b \in SyncThreads THEN "home" ELSE "free"
                      IN /\ places <= 1
                         /\ b = Embedded /\ avail => places = 0
                         /\ b # Embedded => (blk[b].type = unused <=> places = 0)
    BY DEF OnePlace
  <2>1. TypeOK /\ Hands /\ SyncKinds /\ b # NULL
    BY SyncFacts DEF HInv, IInv, SyncKinds
  <2> DEFINE holders == {t \in Thread : waiter[t] = b}
             caches == {t \in Thread : cache[t] = b}
             unused == IF b \in SyncThreads THEN "home" ELSE "free"
  <2>2. Cardinality(holders) = IF holders = {} THEN 0 ELSE 1
    BY <2>1, AtMostOne DEF Hands
  <2>3. Cardinality(caches) = IF caches = {} THEN 0 ELSE 1
    BY <2>1, AtMostOne DEF Hands
  <2>4. holders # {} => blk[b].type \in Kinds /\ b \notin Queued
    BY <2>1 DEF Hands, InHand, Queued
  <2>5. caches # {} => blk[b].type = "idle" /\ b # Embedded
    BY <2>1 DEF Hands
  <2>6. blk[b].type \in Kinds => holders # {} \/ b \in Queued
    BY DEF Queued
  <2>7. b \in Queued => blk[b].type \in Kinds
    BY DEF Queued
  <2>8. b # Embedded /\ blk[b].type = "idle" => caches # {}
    BY DEF HInv, Cached
  <2>9. b = Embedded /\ avail => blk[b].type = "idle"
    BY <2>1 DEF Hands
  <2>10. /\ unused \in {"home", "free"}
         /\ blk[b].type \in {"home", "free"} => blk[b].type = unused
    <3>1. b \in SyncThreads => blk[b].type # "free"
      BY DEF HInv, AtHome, Placed, Kinds
    <3>2. blk[b].type = "home" => b \in SyncThreads
      BY DEF HInv, Cached
    <3> QED BY <3>1, <3>2
  <2>11. blk[b].type \in {"free", "idle", "home", "reader", "writer"}
    BY <2>1 DEF TypeOK, Waiters, BlockKinds, Kinds
  <2> HIDE DEF holders, caches, unused
  <2>12. LET places == Cardinality(holders) + Cardinality(caches) + (IF b \in Queued THEN 1 ELSE 0)
         IN /\ places <= 1
            /\ b = Embedded /\ avail => places = 0
            /\ b # Embedded => (blk[b].type = unused <=> places = 0)
    BY <2>2, <2>3, <2>4, <2>5, <2>6, <2>7, <2>8, <2>9, <2>10, <2>11 DEF Kinds
  <2> QED BY <2>12 DEF holders, caches, unused
<1> QED BY <1>1, HInvHolds, PTL

\* The block built into a THREAD is back in the THREAD when the thread is
\* outside the lock.
THEOREM SyncWaiterHomeHolds == Spec => []SyncWaiterHome
<1>1. HInv => SyncWaiterHome
  <2> SUFFICES ASSUME HInv, NEW t \in SyncThreads, pc[t] = "idle" PROVE blk[t].type = "home"
    BY DEF SyncWaiterHome
  <2>1. Placed(t) /\ t \in Block
    BY SyncFacts DEF HInv, AtHome, SyncKinds
  <2>2. t \notin Queued /\ \A u \in Thread : waiter[u] # t
    BY <2>1 DEF Placed, On, WaitPCs, HoldPCs
  <2> QED BY <2>1, <2>2 DEF Placed, Queued
<1> QED BY <1>1, HInvHolds, PTL

\* Where events can be created, CachedWaiter is available when no thread is
\* in the lock.
THEOREM EmbeddedReturnedHolds ==
  ASSUME "event" \notin Failures
  PROVE  Spec => []EmbeddedReturned
<1>1. HInv => EmbeddedReturned
  <2> SUFFICES ASSUME HInv, \A t \in Thread : pc[t] = "idle", ~ avail PROVE FALSE
    BY DEF EmbeddedReturned
  <2>1. blk[Embedded].type \in Kinds /\ Embedded \in Block /\ NULL \notin Block /\ IInv
    BY SyncFacts DEF HInv, EmbeddedKept, SyncKinds
  <2>2. \A t \in Thread : waiter[t] = NULL
    BY DEF HInv, IInv, Threads, ThreadOK, HandOK
  <2>3. Embedded \in Queued
    BY <2>1, <2>2 DEF Queued
  <2>4. PICK t \in Thread : On(t, Embedded)
    BY <2>1, <2>3, CountFacts
  <2> QED BY <2>4 DEF On, WaitPCs, HoldPCs
<1> QED BY <1>1, HInvHolds, PTL

=============================================================================
