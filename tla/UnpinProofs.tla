----------------------------- MODULE UnpinProofs -----------------------------
(***************************************************************************)
(* For any objects, and however calls fail: an object that the resolver    *)
(* holds as pinned, but that is not locked, has its unpin under way        *)
(* (NoLostUnpin).                                                          *)
(*                                                                         *)
(* The list of requests does not matter for it, only the state of each     *)
(* request (UInv).  That the list and its count are what the states say    *)
(* (ListExact, WorkHasWorker) follows from a second invariant (LInv).      *)
(***************************************************************************)
EXTENDS UnpinRequests, WellFoundedInduction, SequenceTheorems, FiniteSetTheorems, TLAPS

\* The types that the argument needs.  How many requests the worker expects,
\* and what it takes for objects, does not matter.
Shapes ==
  /\ obj \in [Object -> Objects]
  /\ req \in [Object -> SUBSET Flags]
  /\ unlock = Idle \/ unlock \in [at : {"found", "notify"}, of : Object]
  /\ worker \in [at : {"none", "sleeping", "counted", "calling", "done", "answered"},
                 want : {worker.want}, batch : {worker.batch}, reply : Replies]
  /\ believed \subseteq Object

\* A thread that is to drop a lock has one to drop, and one that is to report
\* that there is none left is right.
LockHeld ==
  /\ unlock.at = "found" => obj[unlock.of].locks > 0
  /\ unlock.at = "notify" => obj[unlock.of].locks = 0
  /\ \A o \in Object : obj[o].at = "absent" => obj[o].locks = 0

\* What is pinned is locked, or about to be reported.
PinnedLocked(o) ==
  obj[o].pinned /\ obj[o].at = "tabled" =>
    obj[o].locks > 0 \/ (unlock.at = "notify" /\ unlock.of = o)

\* A request that is pending is with the worker.
PendingSent(o) ==
  "pending" \in req[o] =>
    o \in worker.batch /\ worker.at \in {"calling", "done", "answered"}

\* The resolver has not served the call, as far as the worker knows or will
\* know.
Unserved == worker.at = "calling" \/ (worker.at = "answered" /\ worker.reply # "ok")

\* Of an object that the resolver holds as pinned the process knows so, or it
\* has a request for it, which was not served since.
Promised(o) ==
  o \in believed =>
    /\ obj[o].at # "absent"
    /\ obj[o].at = "tabled" =>
         obj[o].pinned \/ "requested" \in req[o] \/ ("pending" \in req[o] /\ Unserved)

AllPromised == \A o \in Object : PinnedLocked(o) /\ PendingSent(o) /\ Promised(o)

UInv == Shapes /\ LockHeld /\ AllPromised

-----------------------------------------------------------------------------
LEMMA InitUInv == Init => UInv
<1> SUFFICES ASSUME Init PROVE UInv
  OBVIOUS
<1>1. Absent \in Objects
  BY UnpinAssumption DEF Absent, Objects
<1>2. Shapes
  BY <1>1 DEF Init, Shapes, NoWorker, Replies
<1>3. LockHeld
  BY DEF Init, LockHeld, Idle, Absent
<1>4. AllPromised
  BY DEF Init, AllPromised, PinnedLocked, PendingSent, Promised, Absent
<1> QED BY <1>2, <1>3, <1>4 DEF UInv

\* Objects are made, locked, found and unlocked.
LEMMA LocksKeep ==
  ASSUME UInv, NEW o \in Object,
         Marshal(o) \/ IncTableCnt(o) \/ FindToUnlock(o) \/ RevokeOID(o)
  PROVE  UInv'
<1> USE UnpinAssumption DEF UInv
<1>1. ASSUME NEW r \in Objects, obj' = [obj EXCEPT ![o] = r], UNCHANGED <<req, unlock, worker, believed>>
      PROVE  Shapes'
  BY <1>1 DEF Shapes
<1>5. AllPromised'
  BY DEF Shapes, AllPromised, PinnedLocked, PendingSent, Promised, Unserved, Objects, Absent,
         Marshal, IncTableCnt, FindToUnlock, RevokeOID
<1>2. CASE Marshal(o)
  <2>0. Absent \in Objects
    BY DEF Absent, Objects
  <2>1. [Absent EXCEPT !.at = "tabled"] \in Objects
    BY <2>0 DEF Objects
  <2>2. Shapes'
    BY <1>1, <1>2, <2>1 DEF Marshal
  <2>3. LockHeld'
    BY <1>2 DEF Marshal, LockHeld, Shapes, Objects, Absent, Idle
  <2> QED BY <2>2, <2>3, <1>5
<1>3. CASE IncTableCnt(o) \/ RevokeOID(o)
  <2>1. [obj[o] EXCEPT !.locks = @ + 1] \in Objects \/ ~ IncTableCnt(o)
    BY DEF Shapes, Objects, IncTableCnt
  <2>2. [obj[o] EXCEPT !.at = "revoked"] \in Objects
    BY DEF Shapes, Objects
  <2>3. Shapes'
    BY <1>1, <1>3, <2>1, <2>2 DEF IncTableCnt, RevokeOID
  <2>4. LockHeld'
    <3>1. /\ obj' = [obj EXCEPT ![o].locks = @ + 1] \/ obj' = [obj EXCEPT ![o].at = "revoked"]
          /\ obj[o].at = "tabled" /\ unlock' = unlock
      BY <1>3 DEF IncTableCnt, RevokeOID
    <3>2. \A p \in Object : obj[p].locks > 0 => obj'[p].locks > 0
      BY <3>1 DEF Shapes, Objects
    <3>3. \A p \in Object : obj'[p].at = "absent" => obj[p].at = "absent" /\ obj'[p] = obj[p]
      BY <3>1 DEF Shapes, Objects
    <3>4. unlock.at = "notify" => RevokeOID(o) /\ \A p \in Object : obj'[p].locks = obj[p].locks
      BY <1>3 DEF IncTableCnt, RevokeOID, Shapes, Objects
    <3> QED BY <3>1, <3>2, <3>3, <3>4 DEF LockHeld, Shapes, Idle
  <2> QED BY <2>3, <2>4, <1>5
<1>4. CASE FindToUnlock(o)
  <2>1. Shapes' /\ LockHeld'
    BY <1>4 DEF FindToUnlock, Shapes, LockHeld
  <2> QED BY <2>1, <1>5
<1> QED BY <1>2, <1>3, <1>4

LEMMA DecTableCntKeeps ==
  ASSUME UInv, DecTableCnt
  PROVE  UInv'
<1> USE UnpinAssumption DEF UInv
<1> DEFINE u == unlock.of
<1>1. u \in Object /\ obj[u].locks \in 1..MaxLocks /\ obj[u] \in Objects
  BY DEF DecTableCnt, Shapes, LockHeld, Idle, Objects
<1>2. /\ obj' = [obj EXCEPT ![u].locks = @ - 1]
      /\ UNCHANGED <<req, worker, believed>>
      /\ unlock' = Idle \/ (unlock' = [unlock EXCEPT !.at = "notify"] /\ obj[u].locks = 1)
      /\ unlock' = Idle => obj[u].locks > 1 \/ obj[u].at = "revoked"
      /\ unlock.at = "found"
  BY DEF DecTableCnt, Idle
<1>3. Shapes'
  BY <1>1, <1>2 DEF Shapes, Objects, Idle
<1>4. LockHeld'
  BY <1>1, <1>2 DEF LockHeld, Idle, Shapes, Objects
<1>5. AllPromised'
  <2> SUFFICES ASSUME NEW o \in Object
               PROVE  (PinnedLocked(o) /\ PendingSent(o) /\ Promised(o))'
    BY DEF AllPromised
  <2>1. PendingSent(o)' /\ Promised(o)'
    BY <1>1, <1>2 DEF Shapes, Objects, AllPromised, PendingSent, Promised, Unserved
  <2>2. PinnedLocked(o)'
    BY <1>1, <1>2 DEF Shapes, Objects, AllPromised, PinnedLocked, Idle
  <2> QED BY <2>1, <2>2
<1> QED BY <1>3, <1>4, <1>5

\* The last lock went: the request takes the place of the pin.
LEMMA NotifyOIDIsUnpinnedKeeps ==
  ASSUME UInv, NotifyOIDIsUnpinned
  PROVE  UInv'
<1> USE UnpinAssumption DEF UInv
<1> DEFINE u == unlock.of
<1>1. u \in Object /\ obj[u] \in Objects /\ req[u] \in SUBSET Flags /\ unlock.at = "notify"
  BY DEF NotifyOIDIsUnpinned, Shapes, Idle
<1>2. worker' = worker \/ (worker.at = "none" /\ worker' = [worker EXCEPT !.at = "sleeping"])
  BY DEF NotifyOIDIsUnpinned, NotifyWorkWaiting
<1>3. /\ obj' = [obj EXCEPT ![u].pinned = FALSE]
      /\ unlock' = Idle /\ believed' = believed
      /\ req' = IF obj[u].pinned THEN [req EXCEPT ![u] = @ \cup {"listed", "requested"}] ELSE req
  BY DEF NotifyOIDIsUnpinned, AddRequest
<1>4. Shapes'
  <2>1. worker' \in [at : {"none", "sleeping", "counted", "calling", "done", "answered"},
                     want : {worker'.want}, batch : {worker'.batch}, reply : Replies]
    BY <1>2 DEF Shapes
  <2> QED BY <1>1, <1>3, <2>1 DEF Shapes, Objects, Flags
<1>5. LockHeld'
  BY <1>1, <1>3 DEF LockHeld, Idle, Shapes, Objects
<1>6. AllPromised'
  <2> SUFFICES ASSUME NEW o \in Object
               PROVE  (PinnedLocked(o) /\ PendingSent(o) /\ Promised(o))'
    BY DEF AllPromised
  <2>0. PinnedLocked(o) /\ PendingSent(o) /\ Promised(o) /\ req[o] \in SUBSET Flags /\ obj[o] \in Objects
    BY DEF AllPromised, Shapes
  <2>1. PinnedLocked(o)'
    BY <1>1, <1>3, <2>0 DEF Shapes, Objects, PinnedLocked, Idle
  <2>2. PendingSent(o)'
    BY <1>1, <1>2, <1>3, <2>0 DEF Shapes, PendingSent
  <2>3. Unserved => Unserved'
    BY <1>2 DEF Shapes, Unserved
  <2>4. Promised(o)'
    BY <1>1, <1>3, <2>0, <2>3 DEF Shapes, Objects, Promised
  <2> QED BY <2>1, <2>2, <2>4
<1> QED BY <1>4, <1>5, <1>6

LEMMA PinnedObject ==
  ASSUME NEW r \in Objects
  PROVE  [r EXCEPT !.pinned = TRUE] \in Objects
BY DEF Objects

\* The objects that are reported as pinned are locked.
LEMMA RundownOidsKeeps ==
  ASSUME UInv, NEW B \in SUBSET Object, NEW a \in [B -> {"ok", "keep", "pinned"}],
         RundownOids(B, a)
  PROVE  UInv'
<1> USE UnpinAssumption DEF UInv
<1> DEFINE P == {o \in B : a[o] = "pinned"}
           R == {o \in P : Removable(o)}
<1>1. \A o \in P : o \in Object /\ obj[o].at = "tabled" /\ obj[o].locks > 0
  BY DEF RundownOids, CanRunDown
<1>2. /\ obj' = [o \in Object |-> IF o \in P THEN [obj[o] EXCEPT !.pinned = TRUE] ELSE obj[o]]
      /\ req' = [o \in Object |-> IF o \in R THEN {} ELSE req[o]]
      /\ believed' = believed \cup P
      /\ UNCHANGED <<unlock, worker>>
  BY DEF RundownOids, Unlisted
<1>3. \A o \in R : o \in P
  OBVIOUS
<1> HIDE DEF P, R
<1>4. Shapes'
  <2>1. \A o \in Object : obj[o] \in Objects /\ [obj[o] EXCEPT !.pinned = TRUE] \in Objects
    BY PinnedObject DEF Shapes
  <2>2. req' \in [Object -> SUBSET Flags]
    BY <1>2 DEF Shapes
  <2>3. believed' \subseteq Object
    BY <1>1, <1>2 DEF Shapes
  <2>4. obj' \in [Object -> Objects]
    BY <1>2, <2>1
  <2> QED BY <1>2, <2>2, <2>3, <2>4 DEF Shapes
<1>5. LockHeld'
  BY <1>2 DEF LockHeld, Shapes, Objects, Idle
<1>6. AllPromised'
  <2> SUFFICES ASSUME NEW o \in Object
               PROVE  (PinnedLocked(o) /\ PendingSent(o) /\ Promised(o))'
    BY DEF AllPromised
  <2>0. PinnedLocked(o) /\ PendingSent(o) /\ Promised(o) /\ obj[o] \in Objects
    BY DEF AllPromised, Shapes
  <2> QED BY <1>1, <1>2, <1>3, <2>0 DEF PinnedLocked, PendingSent, Promised, Unserved, Objects
<1> QED BY <1>4, <1>5, <1>6

\* Objects, or all of them, go.
LEMMA ObjectsGo ==
  ASSUME UInv, (\E o \in Object : ThreadCleanup(o) \/ Destroy(o)) \/ ProcessEnds
  PROVE  UInv'
<1> USE UnpinAssumption DEF UInv
<1>1. ASSUME NEW o \in Object, ThreadCleanup(o) PROVE UInv'
  <2>1. Shapes'
    BY <1>1 DEF ThreadCleanup, Unlisted, Shapes, Objects
  <2>2. LockHeld'
    BY <1>1 DEF ThreadCleanup, Shapes, LockHeld, Objects, Idle
  <2>3. AllPromised'
    BY <1>1 DEF ThreadCleanup, Unlisted, Shapes, AllPromised, PinnedLocked, PendingSent,
                Promised, Unserved, Objects
  <2> QED BY <2>1, <2>2, <2>3
<1>2. ASSUME NEW o \in Object, Destroy(o) PROVE UInv'
  <2>0. Absent \in Objects /\ {} \in SUBSET Flags
    BY DEF Absent, Objects
  <2>1. Shapes'
    BY <1>2, <2>0 DEF Destroy, Unlisted, Shapes
  <2>2. LockHeld'
    BY <1>2 DEF Destroy, Shapes, LockHeld, Objects, Absent, Idle
  <2>3. AllPromised'
    BY <1>2 DEF Destroy, Unlisted, Shapes, AllPromised, PinnedLocked, PendingSent,
                Promised, Unserved, Objects, Absent
  <2> QED BY <2>1, <2>2, <2>3
<1>3. ASSUME ProcessEnds PROVE UInv'
  BY <1>3 DEF ProcessEnds, Shapes, LockHeld, AllPromised, PinnedLocked, PendingSent, Promised,
              Unserved, Idle, NoWorker, Absent, Objects, Flags, Replies
<1> QED BY <1>1, <1>2, <1>3

\* The worker: what it takes becomes pending, what the resolver served is no
\* longer believed, and what failed is requested again.
LEMMA WorkerKeeps ==
  ASSUME UInv, Worker
  PROVE  UInv'
<1> USE UnpinAssumption DEF UInv
<1> USE DEF LockHeld
<1>1. ASSUME UNCHANGED <<obj, req, unlock, believed>>, worker.at \in {"sleeping", "counted"},
             worker' = NoWorker \/ worker' = [worker EXCEPT !.at = "counted", !.want = count]
      PROVE  UInv'
  <2>1. Shapes'
    <3>1. CASE worker' = NoWorker
      BY <1>1, <3>1 DEF NoWorker, Shapes, Replies
    <3>2. CASE worker' = [worker EXCEPT !.at = "counted", !.want = count]
      BY <1>1, <3>2 DEF Shapes
    <3> QED BY <1>1, <3>1, <3>2
  <2>2. AllPromised'
    BY <1>1 DEF AllPromised, PinnedLocked, PendingSent, Promised, Unserved, Shapes
  <2> QED BY <1>1, <2>1, <2>2
<1>2. CASE GetServerOidsToUnpin
  <2> DEFINE B == FirstOf(worker.want, list)
  <2>1. /\ req' = [o \in Object |-> IF o \in B THEN {"listed", "pending"} ELSE req[o]]
        /\ worker.at = "counted"
        /\ worker' = IF B = {} THEN [NoWorker EXCEPT !.at = "sleeping"]
                     ELSE [NoWorker EXCEPT !.at = "calling", !.batch = B]
        /\ UNCHANGED <<obj, unlock, believed>>
    BY <1>2 DEF GetServerOidsToUnpin
  <2> HIDE DEF B
  <2>2. Shapes'
    BY <2>1 DEF Shapes, NoWorker, Flags, Replies
  <2>3. AllPromised'
    BY <2>1 DEF AllPromised, PinnedLocked, PendingSent, Promised, Unserved, Shapes, NoWorker
  <2> QED BY <2>1, <2>2, <2>3
<1>3. CASE UnpinsHandled
  BY <1>3 DEF UnpinsHandled, Shapes, AllPromised, PinnedLocked, PendingSent, Promised, Unserved
<1>4. CASE BulkUpdateReturns
  <2>1. PICK reply \in Replies :
          /\ worker' = [worker EXCEPT !.at = "answered", !.reply = reply]
          /\ worker.at = "done" \/ (worker.at = "calling" /\ reply = "error")
    BY <1>4 DEF BulkUpdateReturns, Replies
  <2>2. UNCHANGED <<obj, req, unlock, believed>>
    BY <1>4 DEF BulkUpdateReturns
  <2>3. Shapes'
    BY <2>1, <2>2 DEF Shapes
  <2>4. AllPromised'
    BY <2>1, <2>2 DEF Shapes, AllPromised, PinnedLocked, PendingSent, Promised, Unserved
  <2> QED BY <2>2, <2>3, <2>4
<1>5. CASE NotifyUnpinOutcome
  BY <1>5 DEF NotifyUnpinOutcome, Settled, NoWorker, Shapes, AllPromised, PinnedLocked,
              PendingSent, Promised, Unserved, Flags, Replies
<1> QED BY <1>1, <1>2, <1>3, <1>4, <1>5 DEF Worker, WorkerExits, WorkerCounts

-----------------------------------------------------------------------------
\* The inductive invariant.
THEOREM UInvHolds == Spec => []UInv
<1>1. UInv /\ [Next]_vars => UInv'
  <2>1. ASSUME UInv, UNCHANGED vars PROVE UInv'
    BY <2>1 DEF vars, UInv, Shapes, LockHeld, AllPromised, PinnedLocked, PendingSent, Promised, Unserved
  <2> QED
    BY <2>1, LocksKeep, DecTableCntKeeps, NotifyOIDIsUnpinnedKeeps, RundownOidsKeeps, ObjectsGo,
       WorkerKeeps DEF Next
<1> QED BY <1>1, InitUInv, PTL DEF Spec

\* An object in the table that is not locked, but that the resolver holds as
\* pinned, is about to be reported, or its report is on the way or will be
\* repeated (CIDObject::NotifyOIDIsUnpinned, COIDTable).
THEOREM NoLostUnpinHolds == Spec => []NoLostUnpin
<1>1. UInv => NoLostUnpin
  <2> SUFFICES ASSUME UInv, NEW o \in believed, obj[o].at = "tabled", obj[o].locks = 0
               PROVE  \/ unlock = [at |-> "notify", of |-> o]
                      \/ "requested" \in req[o]
                      \/ "pending" \in req[o] /\ ~ (worker.at = "answered" /\ worker.reply = "ok")
    BY DEF NoLostUnpin
  <2>1. PinnedLocked(o) /\ Promised(o) /\ o \in Object
    BY DEF UInv, AllPromised, Shapes
  <2>2. unlock.at = "notify" /\ unlock.of = o => unlock = [at |-> "notify", of |-> o]
    BY DEF UInv, Shapes, Idle
  <2> QED BY <2>1, <2>2 DEF PinnedLocked, Promised, Unserved
<1> QED BY <1>1, UInvHolds, PTL
-----------------------------------------------------------------------------
(* Sequences without repetition, and what Without makes of them.           *)

\* Induction over a set of numbers.
LEMMA InductionSet ==
  ASSUME NEW T, 0 \in T, \A n \in Nat : n \in T => n + 1 \in T
  PROVE  Nat \subseteq T
<1> DEFINE R == {p \in Nat \X Nat : p[1] < p[2]}
           B == Nat \ T
<1> SUFFICES ASSUME B # {} PROVE FALSE
  BY DEF B
<1>1. IsWellFoundedOn(R, Nat)
  BY NatLessThanWellFounded, Zenon DEF R, OpToRel
<1>2. PICK n \in B : \A m \in B : <<m, n>> \notin R
  <2> HIDE DEF R
  <2>1. B \subseteq Nat
    OBVIOUS
  <2> HIDE DEF B
  <2> QED BY <1>1, <2>1, WFMin
<1>3. n \in Nat /\ n # 0 /\ n \notin T /\ n - 1 \in Nat
  OBVIOUS
<1>4. <<n - 1, n>> \in R
  BY <1>3 DEF R
<1>5. n - 1 \in T
  BY <1>2, <1>3, <1>4
<1> QED BY <1>3, <1>5

\* The recursion of Without.
Recursion(g, s, S, n) ==
  g = [i \in 0..n |-> IF i = 0 THEN <<>>
                      ELSE IF s[i] \in S THEN g[i - 1]
                      ELSE Append(g[i - 1], s[i])]

LEMMA RecursionWorks ==
  ASSUME NEW s, NEW S, NEW n \in Nat
  PROVE  \E g : Recursion(g, s, S, n)
<1> DEFINE T == {m \in Nat : \E g : Recursion(g, s, S, m)}
<1>1. 0 \in T
  <2>1. Recursion([i \in 0..0 |-> <<>>], s, S, 0)
    BY DEF Recursion
  <2> QED BY <2>1
<1>2. ASSUME NEW m \in Nat, m \in T PROVE m + 1 \in T
  <2>1. PICK g : Recursion(g, s, S, m)
    BY <1>2
  <2> DEFINE last == IF s[m + 1] \in S THEN g[m] ELSE Append(g[m], s[m + 1])
             h == [i \in 0..(m + 1) |-> IF i = m + 1 THEN last ELSE g[i]]
  <2>2. ASSUME NEW i \in 0..(m + 1)
        PROVE  h[i] = IF i = 0 THEN <<>> ELSE IF s[i] \in S THEN h[i - 1] ELSE Append(h[i - 1], s[i])
    <3>1. CASE i = m + 1
      <4>1. h[i] = last /\ i # 0 /\ i - 1 = m /\ h[i - 1] = g[m]
        BY <3>1
      <4> QED BY <3>1, <4>1
    <3>2. CASE i # m + 1
      <4>1. i \in 0..m /\ h[i] = g[i] /\ (i # 0 => h[i - 1] = g[i - 1])
        BY <3>2
      <4>2. g[i] = IF i = 0 THEN <<>> ELSE IF s[i] \in S THEN g[i - 1] ELSE Append(g[i - 1], s[i])
        BY <2>1, <4>1 DEF Recursion
      <4> QED BY <4>1, <4>2
    <3> QED BY <3>1, <3>2
  <2>3. Recursion(h, s, S, m + 1)
    <3> HIDE DEF last
    <3>1. h = [i \in 0..(m + 1) |-> h[i]]
      OBVIOUS
    <3> HIDE DEF h
    <3> QED BY <2>2, <3>1 DEF Recursion
  <2> QED BY <2>3
<1> HIDE DEF T
<1>3. n \in T
  BY <1>1, <1>2, InductionSet
<1> QED BY <1>3 DEF T

LEMMA WithoutRecursion ==
  ASSUME NEW s, NEW S, Len(s) \in Nat
  PROVE  \E g : Recursion(g, s, S, Len(s)) /\ Without(s, S) = g[Len(s)]
<1>1. \E g : Recursion(g, s, S, Len(s))
  BY RecursionWorks
<1>2. Recursion(CHOOSE g : Recursion(g, s, S, Len(s)), s, S, Len(s))
  BY <1>1, Zenon
<1>3. Without(s, S) = (CHOOSE g : Recursion(g, s, S, Len(s)))[Len(s)]
  BY Zenon DEF Without, Recursion
<1> QED BY <1>2, <1>3, Zenon

Has(s, x) == \E i \in 1..Len(s) : s[i] = x
Once(s) == \A i, j \in 1..Len(s) : s[i] = s[j] => i = j

\* What a list is after an element was appended.
LEMMA Appended ==
  ASSUME NEW A, NEW s \in Seq(A), NEW x \in A
  PROVE  /\ Append(s, x) \in Seq(A)
         /\ \A y : Has(Append(s, x), y) <=> Has(s, y) \/ y = x
         /\ Once(s) /\ ~ Has(s, x) => Once(Append(s, x))
<1> DEFINE u == Append(s, x)
<1>1. /\ u \in Seq(A) /\ Len(s) \in Nat /\ Len(u) = Len(s) + 1
      /\ \A i \in 1..Len(s) : u[i] = s[i]
      /\ u[Len(s) + 1] = x
  BY AppendProperties, LenProperties
<1> HIDE DEF u
<1>2. \A y : Has(u, y) <=> Has(s, y) \/ y = x
  <2> TAKE y
  <2>1. 1..Len(u) = 1..Len(s) \cup {Len(s) + 1}
    BY <1>1
  <2> QED BY <1>1, <2>1 DEF Has
<1>3. ASSUME Once(s), ~ Has(s, x) PROVE Once(u)
  BY <1>1, <1>3 DEF Once, Has
<1> QED BY <1>1, <1>2, <1>3 DEF u

LEMMA Prepended ==
  ASSUME NEW A, NEW s \in Seq(A), NEW x \in A
  PROVE  /\ <<x>> \o s \in Seq(A)
         /\ Len(<<x>> \o s) = Len(s) + 1
         /\ \A y : Has(<<x>> \o s, y) <=> Has(s, y) \/ y = x
         /\ Once(s) /\ ~ Has(s, x) => Once(<<x>> \o s)
<1> DEFINE u == <<x>> \o s
<1>1. /\ u \in Seq(A) /\ Len(s) \in Nat /\ Len(u) = Len(s) + 1
      /\ \A i \in 1..Len(s) : u[i + 1] = s[i]
      /\ u[1] = x
  <2>1. <<x>> \in Seq(A) /\ Len(<<x>>) = 1 /\ <<x>>[1] = x /\ Len(s) \in Nat
    BY LenProperties
  <2> QED BY <2>1, ConcatProperties
<1> HIDE DEF u
<1>2. \A i \in 1..Len(u) : i = 1 \/ (i - 1 \in 1..Len(s) /\ u[i] = s[i - 1])
  BY <1>1
<1>3. \A y : Has(u, y) <=> Has(s, y) \/ y = x
  <2> TAKE y
  <2>1. Has(u, y) => Has(s, y) \/ y = x
    BY <1>1, <1>2 DEF Has
  <2>2. Has(s, y) => Has(u, y)
    <3> SUFFICES ASSUME NEW i \in 1..Len(s), s[i] = y PROVE Has(u, y)
      BY DEF Has
    <3>1. i + 1 \in 1..Len(u) /\ u[i + 1] = y
      BY <1>1
    <3> QED BY <3>1 DEF Has
  <2>3. Has(u, x)
    <3>1. 1 \in 1..Len(u)
      BY <1>1
    <3> QED BY <1>1, <3>1 DEF Has
  <2> QED BY <2>1, <2>2, <2>3
<1>4. ASSUME Once(s), ~ Has(s, x) PROVE Once(u)
  <2> SUFFICES ASSUME NEW i \in 1..Len(u), NEW j \in 1..Len(u), u[i] = u[j] PROVE i = j
    BY DEF Once
  <2>1. ASSUME NEW k \in 1..Len(u), k # 1 PROVE u[k] # x
    BY <1>2, <1>4, <2>1 DEF Has
  <2>2. CASE i = 1 \/ j = 1
    BY <1>1, <2>1, <2>2
  <2>3. CASE i # 1 /\ j # 1
    <3>1. i - 1 = j - 1
      BY <1>2, <1>4, <2>3 DEF Once
    <3> QED BY <1>1, <3>1
  <2> QED BY <2>2, <2>3
<1> QED BY <1>1, <1>3, <1>4 DEF u

\* What Without leaves of a sequence.
LEMMA WithoutKeeps ==
  ASSUME NEW A, NEW s \in Seq(A), NEW S
  PROVE  /\ Without(s, S) \in Seq(A)
         /\ \A y : Has(Without(s, S), y) <=> Has(s, y) /\ y \notin S
         /\ Once(s) => Once(Without(s, S))
<1> DEFINE n == Len(s)
<1>1. n \in Nat /\ \A i \in 1..n : s[i] \in A
  BY LenProperties, ElementOfSeq
<1>2. PICK g : Recursion(g, s, S, n) /\ Without(s, S) = g[n]
  BY <1>1, WithoutRecursion
<1>3. \A i \in 0..n : g[i] = IF i = 0 THEN <<>> ELSE IF s[i] \in S THEN g[i - 1] ELSE Append(g[i - 1], s[i])
  BY <1>2 DEF Recursion
<1> DEFINE Good(i) == /\ g[i] \in Seq(A)
                      /\ \A y : Has(g[i], y) <=> (\E j \in 1..i : s[j] = y) /\ y \notin S
                      /\ Once(s) => Once(g[i])
           T == {i \in Nat : i <= n => Good(i)}
<1>4. 0 \in T
  <2>1. g[0] = <<>>
    BY <1>1, <1>3
  <2>2. Good(0)
    BY <2>1, EmptySeq DEF Has, Once
  <2> HIDE DEF Good
  <2> QED BY <2>2
<1>5. ASSUME NEW m \in Nat, m \in T PROVE m + 1 \in T
  <2> SUFFICES ASSUME m + 1 <= n PROVE Good(m + 1)
    OBVIOUS
  <2>1. Good(m) /\ m + 1 \in 1..n /\ (m + 1) - 1 = m
    BY <1>1, <1>5
  <2>2. \A y : (\E j \in 1..(m + 1) : s[j] = y) <=> (\E j \in 1..m : s[j] = y) \/ y = s[m + 1]
    <3>1. 1..(m + 1) = 1..m \cup {m + 1}
      OBVIOUS
    <3> QED BY <3>1
  <2>3. g[m + 1] = IF s[m + 1] \in S THEN g[m] ELSE Append(g[m], s[m + 1])
    BY <1>3, <2>1
  <2>4. CASE s[m + 1] \in S
    <3>1. g[m + 1] = g[m]
      BY <2>3, <2>4
    <3> QED BY <2>1, <2>2, <2>4, <3>1
  <2>5. CASE s[m + 1] \notin S
    <3>1. g[m + 1] = Append(g[m], s[m + 1]) /\ s[m + 1] \in A
      BY <1>1, <2>1, <2>3, <2>5
    <3>2. /\ g[m + 1] \in Seq(A)
          /\ \A y : Has(g[m + 1], y) <=> Has(g[m], y) \/ y = s[m + 1]
          /\ Once(g[m]) /\ ~ Has(g[m], s[m + 1]) => Once(g[m + 1])
      BY <2>1, <3>1, Appended
    <3>3. Once(s) => ~ Has(g[m], s[m + 1])
      <4> SUFFICES ASSUME Once(s), NEW j \in 1..m, s[j] = s[m + 1] PROVE FALSE
        BY <2>1
      <4>1. j \in 1..n /\ j # m + 1
        BY <1>1, <2>1
      <4> QED BY <2>1, <4>1 DEF Once
    <3> QED BY <2>1, <2>2, <2>5, <3>2, <3>3
  <2> QED BY <2>4, <2>5
<1>6. n \in T
  <2> HIDE DEF T
  <2> QED BY <1>1, <1>4, <1>5, InductionSet
<1>7. Good(n)
  BY <1>1, <1>6
<1> QED BY <1>2, <1>7 DEF Has

\* The elements of a sequence without repetition are as many as it is long.
Elements(s) == {s[i] : i \in 1..Len(s)}

LEMMA LengthCounts ==
  ASSUME NEW A, NEW s \in Seq(A), Once(s)
  PROVE  IsFiniteSet(Elements(s)) /\ Cardinality(Elements(s)) = Len(s)
<1>1. Len(s) \in Nat /\ s \in [1..Len(s) -> A] /\ DOMAIN s = 1..Len(s)
  BY LenProperties
<1>2. s \in [1..Len(s) -> Elements(s)]
  BY <1>1 DEF Elements
<1>3. s \in Bijection(1..Len(s), Elements(s))
  <2>1. \A i, j \in 1..Len(s) : s[i] = s[j] => i = j
    BY Zenon DEF Once
  <2>2. \A x \in Elements(s) : \E i \in 1..Len(s) : s[i] = x
    BY Zenon DEF Elements
  <2> QED BY <1>2, <2>1, <2>2 DEF Bijection, Injection, Surjection, IsInjective
<1>4. IsFiniteSet(1..Len(s)) /\ Cardinality(1..Len(s)) = Len(s)
  BY <1>1, FS_Interval
<1>5. ExistsBijection(1..Len(s), Elements(s))
  BY <1>3 DEF ExistsBijection
<1> QED BY <1>4, <1>5, FS_Bijection

\* So Without shortens it by those that it takes out.
LEMMA WithoutCounts ==
  ASSUME NEW A, NEW s \in Seq(A), NEW S, Once(s)
  PROVE  LET G == {x \in Elements(s) : x \in S}
         IN  /\ IsFiniteSet(G)
             /\ Len(Without(s, S)) = Len(s) - Cardinality(G)
<1> DEFINE u == Without(s, S)
           G == {x \in Elements(s) : x \in S}
<1>1. u \in Seq(A) /\ Once(u) /\ \A y : Has(u, y) <=> Has(s, y) /\ y \notin S
  BY WithoutKeeps
<1>2. Elements(u) = Elements(s) \ G
  BY <1>1 DEF Elements, Has
<1>3. IsFiniteSet(Elements(s)) /\ Cardinality(Elements(s)) = Len(s) /\ Cardinality(Elements(u)) = Len(u)
  BY <1>1, LengthCounts
<1>4. IsFiniteSet(G) /\ Elements(s) \cap G = G
  BY <1>3, FS_Subset
<1>5. Cardinality(Elements(s) \ G) = Cardinality(Elements(s)) - Cardinality(G)
  <2> HIDE DEF G
  <2>1. Cardinality(Elements(s) \ G) = Cardinality(Elements(s)) - Cardinality(Elements(s) \cap G)
    BY <1>3, <1>4, FS_Difference
  <2> QED BY <1>4, <2>1
<1> QED BY <1>2, <1>3, <1>4, <1>5

-----------------------------------------------------------------------------
(* The list of requests.                                                   *)

\* The list has the requests that are marked as listed, each once, and their
\* number is right.
Listed ==
  /\ list \in Seq(Object) /\ Once(list)
  /\ \A o \in Object : "listed" \in req[o] <=> Has(list, o)
  /\ count = Len(list)

\* What the flags of a request may be.
Flagged ==
  \A o \in Object : req[o] # {} => "listed" \in req[o] /\ req[o] \cap {"requested", "pending"} # {}

\* The worker has a batch only while a call is out.
Batched ==
  /\ worker \in Workers
  /\ worker.at \in {"none", "sleeping", "counted"} => worker.batch = {}

LInv == Listed /\ Flagged /\ Batched

LEMMA InitLInv == Init => LInv
<1> SUFFICES ASSUME Init PROVE LInv
  OBVIOUS
<1>1. Listed
  BY EmptySeq DEF Init, Listed, Once, Has
<1>2. Flagged /\ Batched
  BY DEF Init, Flagged, Batched, NoWorker, Workers, Replies
<1> QED BY <1>1, <1>2 DEF LInv

\* The list stays, ...
LEMMA ListStays ==
  ASSUME Listed, UNCHANGED <<list, count>>,
         \A o \in Object : "listed" \in req'[o] <=> "listed" \in req[o]
  PROVE  Listed'
BY DEF Listed, Once, Has

\* ... gets one more request, ...
LEMMA ListGrows ==
  ASSUME Listed, NEW o \in Object, "listed" \notin req[o],
         list' = <<o>> \o list, count' = count + 1,
         \A p \in Object : "listed" \in req'[p] <=> "listed" \in req[p] \/ p = o
  PROVE  Listed'
<1>1. /\ list' \in Seq(Object) /\ Len(list') = Len(list) + 1
      /\ \A y : Has(list', y) <=> Has(list, y) \/ y = o
      /\ Once(list')
  BY Prepended DEF Listed
<1> QED BY <1>1 DEF Listed, Has, Once

\* ... or loses those of the objects S.
LEMMA ListShrinks ==
  ASSUME Listed, NEW S \in SUBSET Object,
         list' = Without(list, S),
         count' = count - Cardinality({o \in S : "listed" \in req[o]}),
         \A o \in Object : "listed" \in req'[o] <=> "listed" \in req[o] /\ o \notin S
  PROVE  Listed'
<1>1. /\ list' \in Seq(Object)
      /\ \A y : Has(list', y) <=> Has(list, y) /\ y \notin S
      /\ Once(list')
  BY WithoutKeeps DEF Listed
<1>2. {x \in Elements(list) : x \in S} = {o \in S : "listed" \in req[o]}
  BY DEF Elements, Has, Listed
<1>3. count' = Len(list')
  BY <1>2, WithoutCounts DEF Listed
<1> QED BY <1>1, <1>3 DEF Listed, Has, Once

LEMMA UnlistedKeeps ==
  ASSUME Listed, Flagged, NEW S \in SUBSET Object, Unlisted(S)
  PROVE  Listed' /\ Flagged'
<1>1. \A o \in Object : req'[o] = IF o \in S THEN {} ELSE req[o]
  BY DEF Unlisted
<1>2. Listed'
  BY <1>1, ListShrinks DEF Unlisted
<1>3. Flagged'
  BY <1>1 DEF Flagged
<1> QED BY <1>2, <1>3

\* Steps that leave the requests and the worker alone.
LEMMA RequestsStay ==
  ASSUME LInv, UNCHANGED <<req, list, count, worker>>
  PROVE  LInv'
BY ListStays DEF LInv, Flagged, Batched

LEMMA NotifyKeepsList ==
  ASSUME LInv, UInv, NotifyOIDIsUnpinned
  PROVE  LInv'
<1> DEFINE u == unlock.of
<1>1. u \in Object /\ req[u] \in SUBSET Flags /\ req \in [Object -> SUBSET Flags]
  BY DEF NotifyOIDIsUnpinned, UInv, Shapes, Idle
<1>2. CASE obj[u].pinned
  <2>1. AddRequest(u) /\ NotifyWorkWaiting
    BY <1>2 DEF NotifyOIDIsUnpinned
  <2>2. req' = [req EXCEPT ![u] = @ \cup {"listed", "requested"}]
    BY <2>1 DEF AddRequest
  <2>3. Flagged'
    BY <1>1, <2>2 DEF LInv, Flagged
  <2>4. Listed'
    <3>1. CASE "listed" \in req[u]
      BY <1>1, <2>1, <2>2, <3>1, ListStays DEF LInv, AddRequest
    <3>2. CASE "listed" \notin req[u]
      BY <1>1, <2>1, <2>2, <3>2, ListGrows DEF LInv, AddRequest
    <3> QED BY <3>1, <3>2
  <2>5. Batched'
    BY <2>1 DEF NotifyWorkWaiting, LInv, Batched, Workers
  <2> QED BY <2>3, <2>4, <2>5 DEF LInv
<1>3. CASE ~ obj[u].pinned
  BY <1>3, RequestsStay DEF NotifyOIDIsUnpinned
<1> QED BY <1>2, <1>3

\* Objects are answered for, disconnected, deleted, or end with the process.
LEMMA ObjectsKeepList ==
  ASSUME LInv, UInv,
         \/ \E B \in SUBSET Object : \E a \in [B -> {"ok", "keep", "pinned"}] : RundownOids(B, a)
         \/ \E o \in Object : ThreadCleanup(o) \/ Destroy(o)
         \/ ProcessEnds
  PROVE  LInv'
<1>1. ASSUME NEW B \in SUBSET Object, NEW a \in [B -> {"ok", "keep", "pinned"}], RundownOids(B, a)
      PROVE  LInv'
  <2> DEFINE P == {o \in B : a[o] = "pinned"}
             S == {o \in P : Removable(o)}
  <2>1. Unlisted(S) /\ worker' = worker /\ S \in SUBSET Object
    BY <1>1 DEF RundownOids
  <2> HIDE DEF S
  <2> QED BY <2>1, UnlistedKeeps DEF LInv, Batched
<1>2. ASSUME NEW o \in Object, ThreadCleanup(o) PROVE LInv'
  <2>1. Unlisted({o}) /\ worker' = worker /\ {o} \in SUBSET Object
    BY <1>2 DEF ThreadCleanup
  <2> QED BY <2>1, UnlistedKeeps DEF LInv, Batched
<1>3. ASSUME NEW o \in Object, Destroy(o) PROVE LInv'
  <2>1. Unlisted({o}) /\ worker' = [worker EXCEPT !.batch = @ \ {o}] /\ {o} \in SUBSET Object
    BY <1>3 DEF Destroy
  <2>2. Batched'
    BY <2>1 DEF LInv, Batched, Workers
  <2> QED BY <2>1, <2>2, UnlistedKeeps DEF LInv
<1>4. ASSUME ProcessEnds PROVE LInv'
  <2>1. Listed'
    BY <1>4, EmptySeq DEF ProcessEnds, Listed, Once, Has
  <2>2. Flagged' /\ Batched'
    BY <1>4 DEF ProcessEnds, Flagged, Batched, NoWorker, Workers, Replies
  <2> QED BY <2>1, <2>2 DEF LInv
<1> QED BY <1>1, <1>2, <1>3, <1>4

LEMMA WorkerKeepsList ==
  ASSUME LInv, UInv, Worker
  PROVE  LInv'
<1>0. count \in Nat /\ req \in [Object -> SUBSET Flags]
  BY LenProperties DEF LInv, Listed, UInv, Shapes
<1>1. CASE WorkerExits \/ WorkerCounts \/ UnpinsHandled \/ BulkUpdateReturns
  <2>1. UNCHANGED <<req, list, count>>
    BY <1>1 DEF WorkerExits, WorkerCounts, UnpinsHandled, BulkUpdateReturns
  <2>2. CASE WorkerExits \/ WorkerCounts
    <3>1. worker.batch = {} /\ worker \in Workers
      BY <2>2 DEF LInv, Batched, WorkerExits, WorkerCounts
    <3>2. CASE WorkerExits
      <4>1. NoWorker \in Workers /\ NoWorker.batch = {}
        BY DEF NoWorker, Workers, Replies
      <4> QED BY <2>1, <3>2, <4>1, ListStays DEF WorkerExits, Batched, LInv, Flagged
    <3>3. CASE WorkerCounts
      <4>1. worker' = [worker EXCEPT !.at = "counted", !.want = count]
        BY <3>3 DEF WorkerCounts
      <4>2. Batched'
        BY <1>0, <3>1, <4>1 DEF Batched, Workers
      <4> QED BY <2>1, <4>2, ListStays DEF LInv, Flagged
    <3> QED BY <2>2, <3>2, <3>3
  <2>3. CASE UnpinsHandled \/ BulkUpdateReturns
    <3>1. worker \in Workers
      BY DEF LInv, Batched
    <3>2. Batched'
      BY <2>3, <3>1 DEF UnpinsHandled, BulkUpdateReturns, Batched, Workers, Replies
    <3> QED BY <2>1, <3>2, ListStays DEF LInv, Flagged
  <2> QED BY <1>1, <2>2, <2>3
<1>2. CASE GetServerOidsToUnpin
  <2> DEFINE B == FirstOf(worker.want, list)
  <2>1. /\ req' = [o \in Object |-> IF o \in B THEN {"listed", "pending"} ELSE req[o]]
        /\ worker' = IF B = {} THEN [NoWorker EXCEPT !.at = "sleeping"]
                     ELSE [NoWorker EXCEPT !.at = "calling", !.batch = B]
        /\ UNCHANGED <<list, count>>
    BY <1>2 DEF GetServerOidsToUnpin
  <2>2. \A o \in B : o \in Object /\ Has(list, o)
    <3>1. Len(list) \in Nat /\ \A i \in 1..Len(list) : list[i] \in Object
      BY LenProperties, ElementOfSeq DEF LInv, Listed
    <3>2. worker.want \in Nat
      BY DEF LInv, Batched, Workers
    <3> QED BY <3>1, <3>2 DEF FirstOf, Has
  <2> HIDE DEF B
  <2>3. Listed'
    BY <2>1, <2>2, ListStays DEF LInv, Listed
  <2>4. Flagged'
    BY <2>1 DEF LInv, Flagged
  <2>5. Batched'
    BY <2>1, <2>2 DEF Batched, Workers, NoWorker, Replies
  <2> QED BY <2>3, <2>4, <2>5 DEF LInv
<1>3. CASE NotifyUnpinOutcome
  <2> DEFINE P == {o \in Object : "pending" \in req[o]}
             G == {o \in P : Settled(o, worker.reply = "ok")}
  <2>1. /\ list' = Without(list, G)
        /\ count' = count - Cardinality(G)
        /\ req' = [o \in Object |-> IF o \in G THEN {}
                                    ELSE IF o \in P THEN {"listed", "requested"}
                                    ELSE req[o]]
        /\ worker' = [NoWorker EXCEPT !.at = "sleeping"]
    BY <1>3 DEF NotifyUnpinOutcome
  <2>2. G = {o \in G : "listed" \in req[o]} /\ G \in SUBSET Object /\ \A o \in P : "listed" \in req[o]
    BY DEF LInv, Flagged
  <2> HIDE DEF G, P
  <2>3. \A o \in Object : "listed" \in req'[o] <=> "listed" \in req[o] /\ o \notin G
    BY <2>1, <2>2
  <2>4. Listed'
    BY <2>1, <2>2, <2>3, ListShrinks DEF LInv
  <2>5. Flagged' /\ Batched'
    BY <2>1 DEF LInv, Flagged, Batched, NoWorker, Workers, Replies
  <2> QED BY <2>4, <2>5 DEF LInv
<1> QED BY <1>1, <1>2, <1>3 DEF Worker

\* The inductive invariant of the list.
THEOREM LInvHolds == Spec => []LInv
<1>1. LInv /\ UInv /\ [Next]_vars => LInv'
  <2> SUFFICES ASSUME LInv, UInv, [Next]_vars PROVE LInv'
    OBVIOUS
  <2>1. CASE UNCHANGED vars
    BY <2>1, RequestsStay DEF vars
  <2>2. ASSUME NEW o \in Object, Marshal(o) \/ IncTableCnt(o) \/ FindToUnlock(o) \/ RevokeOID(o)
        PROVE  LInv'
    BY <2>2, RequestsStay DEF Marshal, IncTableCnt, FindToUnlock, RevokeOID
  <2>3. CASE DecTableCnt
    BY <2>3, RequestsStay DEF DecTableCnt
  <2> QED BY <2>1, <2>2, <2>3, NotifyKeepsList, ObjectsKeepList, WorkerKeepsList DEF Next
<1> QED BY <1>1, InitLInv, UInvHolds, PTL DEF Spec

\* The objects, the requests, the thread that unlocks and the worker keep
\* their types (idobj.cxx, refcache.cxx).
THEOREM TypeOKHolds == Spec => []TypeOK
<1>1. UInv /\ LInv => TypeOK
  <2>1. Idle.of \in Object
    BY UnpinAssumption DEF Idle
  <2> QED BY <2>1, LenProperties DEF UInv, LInv, Shapes, Listed, Batched, TypeOK, Idle
<1> QED BY <1>1, UInvHolds, LInvHolds, PTL

\* The list of unpin requests has every request once that is to be sent or was
\* sent, and the count the worker exits by is its length (COIDTable).
THEOREM ListExactHolds == Spec => []ListExact
<1>1. UInv /\ LInv => ListExact
  <2> SUFFICES ASSUME UInv, LInv PROVE ListExact
    OBVIOUS
  <2> SUFFICES ASSUME NEW o \in Object
               PROVE  Cardinality({i \in 1..Len(list) : list[i] = o}) = IF "listed" \in req[o] THEN 1 ELSE 0
    BY DEF UInv, AllPromised, PendingSent, LInv, Listed, Flagged, Batched, ListExact
  <2>1. CASE "listed" \in req[o]
    <3>1. PICK i \in 1..Len(list) : list[i] = o
      BY <2>1 DEF LInv, Listed, Has
    <3>2. {j \in 1..Len(list) : list[j] = o} = {i}
      BY <3>1 DEF LInv, Listed, Once
    <3> QED BY <2>1, <3>2, FS_Singleton
  <2>2. CASE "listed" \notin req[o]
    <3>1. {i \in 1..Len(list) : list[i] = o} = {}
      BY <2>2 DEF LInv, Listed, Has
    <3> QED BY <2>2, <3>1, FS_EmptySet
  <2> QED BY <2>1, <2>2
<1> QED BY <1>1, UInvHolds, LInvHolds, PTL

\* If threads can be created, there is a worker as long as there are requests:
\* it exits only when there is none, under the lock under which they are made
\* (CROIDTable::WorkerThreadLoop).
THEOREM WorkHasWorkerHolds ==
  ASSUME ~ ThreadsFail
  PROVE  Spec => []WorkHasWorker
<1>1. Init => WorkHasWorker
  BY DEF Init, WorkHasWorker
<1>2. WorkHasWorker /\ LInv /\ UInv /\ [Next]_vars => WorkHasWorker'
  <2> SUFFICES ASSUME WorkHasWorker, LInv, UInv, [Next]_vars, worker'.at = "none" PROVE list' = <<>>
    BY DEF WorkHasWorker
  <2>1. worker.at = "none" => list = <<>>
    BY DEF WorkHasWorker
  <2>2. ASSUME NEW S, list' = Without(list, S), worker.at = "none" PROVE list' = <<>>
    <3>1. list' \in Seq(Object) /\ \A y : ~ Has(list', y)
      <4>1. \A y : ~ Has(<<>>, y)
        BY EmptySeq DEF Has
      <4>2. list' \in Seq(Object) /\ \A y : Has(list', y) <=> Has(list, y) /\ y \notin S
        BY <2>2, WithoutKeeps DEF LInv, Listed
      <4> QED BY <2>1, <2>2, <4>1, <4>2
    <3>2. Len(list') = 0
      <4>1. Len(list') \in Nat /\ (Len(list') # 0 => 1 \in 1..Len(list'))
        BY <3>1, LenProperties
      <4> QED BY <3>1, <4>1 DEF Has
    <3> QED BY <3>1, <3>2, EmptySeq
  <2>3. ASSUME UNCHANGED <<list, worker>> PROVE list' = <<>>
    BY <2>1, <2>3
  <2>4. CASE NotifyOIDIsUnpinned
    BY <2>3, <2>4 DEF NotifyOIDIsUnpinned, NotifyWorkWaiting, LInv, Batched, Workers
  <2>5. ASSUME NEW B \in SUBSET Object, NEW a \in [B -> {"ok", "keep", "pinned"}], RundownOids(B, a)
        PROVE  list' = <<>>
    BY <2>2, <2>5 DEF RundownOids, Unlisted
  <2>6. ASSUME NEW o \in Object, ThreadCleanup(o) \/ Destroy(o) PROVE list' = <<>>
    BY <2>2, <2>6 DEF ThreadCleanup, Destroy, Unlisted, LInv, Batched, Workers
  <2>7. CASE ProcessEnds
    BY <2>7 DEF ProcessEnds
  <2>8. CASE WorkerExits
    <3>1. Len(list) = 0 /\ list \in Seq(Object) /\ list' = list
      BY <2>8 DEF WorkerExits, LInv, Listed
    <3> QED BY <3>1, EmptySeq
  <2>9. CASE WorkerCounts \/ GetServerOidsToUnpin \/ UnpinsHandled \/ BulkUpdateReturns \/ NotifyUnpinOutcome
    BY <2>9 DEF WorkerCounts, GetServerOidsToUnpin, UnpinsHandled, BulkUpdateReturns,
                NotifyUnpinOutcome, NoWorker, LInv, Batched, Workers
  <2>10. ASSUME NEW o \in Object, Marshal(o) \/ IncTableCnt(o) \/ FindToUnlock(o) \/ RevokeOID(o)
         PROVE  list' = <<>>
    BY <2>3, <2>10 DEF Marshal, IncTableCnt, FindToUnlock, RevokeOID
  <2>11. CASE DecTableCnt
    BY <2>3, <2>11 DEF DecTableCnt
  <2> QED BY <2>3, <2>4, <2>5, <2>6, <2>7, <2>8, <2>9, <2>10, <2>11 DEF Next, Worker, vars
<1> QED BY <1>1, <1>2, UInvHolds, LInvHolds, PTL DEF Spec
=============================================================================
