---------------------------- MODULE ServerOidProofs ----------------------------
(***************************************************************************)
(* For any OIDs, apartments, processes, sets and calls: an OID counts the  *)
(* sets that hold it and its pin (RefsExact), it is listed exactly when it *)
(* may be run down (ListedExactly), and a call has every OID that is being *)
(* run down.  An OXID and a process count exactly what points to them      *)
(* (LifetimesExact), every call counts against the limit of its OXID until *)
(* it is settled, and the shared binding handle is open while calls use it *)
(* and no longer than the OXID (CallsExact).  Nothing is run down for time *)
(* that passed while the machine slept (SleepForgiven).                    *)
(*                                                                         *)
(* First, what each operation does to one OID; then how sets and calls     *)
(* change; then one lemma for each action that touches them.  After the    *)
(* theorems about OIDs come the counts, and after those the sleep.         *)
(***************************************************************************)
EXTENDS ServerOid, FiniteSetTheorems, TLAPS

\* What is true of every CServerOid between two steps.
Good(r) ==
  /\ r \in OidObjects
  /\ r.timer # "out" <=> r.alive /\ r.refs = 0 /\ ~ r.down
  /\ r.freed => r.refs > 0 /\ ~ r.down
  /\ r.refs > 0 \/ r.down => r.alive
  /\ r.pinned => r.refs > 0 /\ ~ r.down

\* The references of sets: all but that of the pin.
SetRefs(r) == r.refs - (IF r.pinned THEN 1 ELSE 0)

\* The fields of an OID.
LEMMA GoodTypes ==
  ASSUME NEW r, Good(r)
  PROVE  /\ r \in OidObjects /\ r.refs \in Nat /\ r.timer \in Timers
         /\ r.alive \in BOOLEAN /\ r.down \in BOOLEAN
         /\ r.freed \in BOOLEAN /\ r.pinned \in BOOLEAN
BY DEF Good, OidObjects

\* A deleted OID has no references.
LEMMA NoOidGood ==
  Good(NoOid) /\ SetRefs(NoOid) = 0 /\ ~ NoOid.down /\ ~ NoOid.pinned
BY DEF Good, NoOid, OidObjects, Timers, SetRefs

\* An OID without references is in no set and not pinned.
LEMMA UnusedGood ==
  ASSUME NEW r, Good(r), r.refs = 0
  PROVE  SetRefs(r) = 0
<1>1. ~ r.pinned
  BY GoodTypes DEF Good
<1>2. SetRefs(r) = r.refs - 0
  BY <1>1 DEF SetRefs
<1> QED BY <1>2

\* A set takes an OID.
LEMMA ReferenceGood ==
  ASSUME NEW r, Good(r), r.alive
  PROVE  /\ Good(Reference(r)) /\ SetRefs(Reference(r)) = SetRefs(r) + 1
         /\ (Reference(r).down <=> r.down) /\ Reference(r).alive
         /\ (Reference(r).pinned <=> r.pinned)
<1> DEFINE s == Reference(r)
<1>0. /\ r \in OidObjects /\ r.refs \in Nat /\ r.timer \in Timers
      /\ r.alive \in BOOLEAN /\ r.down \in BOOLEAN
      /\ r.freed \in BOOLEAN /\ r.pinned \in BOOLEAN
  BY GoodTypes
<1>1. CASE r.refs = 0
  <2>1. s = [r EXCEPT !.refs = 1, !.timer = "out"]
    BY <1>0, <1>1 DEF Reference
  <2> HIDE DEF s
  <2>n. 1 \in Nat
    BY <1>0, <1>1
  <2>a. s \in OidObjects
    BY <1>0, <2>1, <2>n DEF OidObjects, Timers
  <2>b. s.refs = 1 /\ s.timer = "out"
    BY <1>0, <1>1, <2>1 DEF OidObjects
  <2>2. s \in OidObjects /\ s.refs = 1 /\ s.timer = "out"
    BY <2>a, <2>b
  <2>3. /\ (s.alive <=> r.alive) /\ (s.down <=> r.down)
      /\ (s.freed <=> r.freed) /\ (s.pinned <=> r.pinned)
    BY <1>0, <1>1, <2>1 DEF OidObjects
  <2>4. Good(s)
    BY <1>0, <1>1, <2>2, <2>3 DEF Good, SetRefs
  <2>5. SetRefs(s) = SetRefs(r) + 1 /\ (s.down <=> r.down) /\ s.alive /\ (s.pinned <=> r.pinned)
    BY <1>0, <1>1, <2>2, <2>3 DEF SetRefs, Good
  <2> QED BY <2>4, <2>5 DEF s
<1>2. CASE r.refs # 0
  <2>1. s = [r EXCEPT !.refs = r.refs + 1, !.timer = r.timer]
    BY <1>0, <1>2 DEF Reference
  <2> HIDE DEF s
  <2>n. r.refs + 1 \in Nat
    BY <1>0, <1>2
  <2>a. s \in OidObjects
    BY <1>0, <2>1, <2>n DEF OidObjects, Timers
  <2>b. s.refs = r.refs + 1 /\ s.timer = r.timer
    BY <1>0, <1>2, <2>1 DEF OidObjects
  <2>2. s \in OidObjects /\ s.refs = r.refs + 1 /\ s.timer = r.timer
    BY <2>a, <2>b
  <2>3. /\ (s.alive <=> r.alive) /\ (s.down <=> r.down)
      /\ (s.freed <=> r.freed) /\ (s.pinned <=> r.pinned)
    BY <1>0, <1>2, <2>1 DEF OidObjects
  <2>4. Good(s)
    BY <1>0, <1>2, <2>2, <2>3 DEF Good, SetRefs
  <2>5. SetRefs(s) = SetRefs(r) + 1 /\ (s.down <=> r.down) /\ s.alive /\ (s.pinned <=> r.pinned)
    BY <1>0, <1>2, <2>2, <2>3 DEF SetRefs, Good
  <2> QED BY <2>4, <2>5 DEF s
<1> QED BY <1>1, <1>2

\* A reference is released.  The OID is deleted only with its last one.
LEMMA ReleaseGood ==
  ASSUME NEW r, NEW running, Good(r), SetRefs(r) > 0
  PROVE  /\ Good(Release(r, running)) /\ SetRefs(Release(r, running)) = SetRefs(r) - 1
         /\ (Release(r, running).down <=> r.down)
<1> DEFINE s == Release(r, running)
<1>0. /\ r \in OidObjects /\ r.refs \in Nat /\ r.timer \in Timers
      /\ r.alive \in BOOLEAN /\ r.down \in BOOLEAN
      /\ r.freed \in BOOLEAN /\ r.pinned \in BOOLEAN
      /\ r.refs > 0 /\ SetRefs(r) \in Nat
  BY GoodTypes DEF SetRefs
<1>1. CASE r.refs > 1
  <2>1. s = [r EXCEPT !.refs = r.refs - 1]
    BY <1>0, <1>1 DEF Release
  <2> HIDE DEF s
  <2>n. r.refs - 1 \in Nat
    BY <1>0, <1>1
  <2>a. s \in OidObjects
    BY <1>0, <2>1, <2>n DEF OidObjects, Timers
  <2>b. s.refs = r.refs - 1 /\ s.timer = r.timer
    BY <1>0, <1>1, <2>1 DEF OidObjects
  <2>2. s \in OidObjects /\ s.refs = r.refs - 1 /\ s.timer = r.timer
    BY <2>a, <2>b
  <2>3. /\ (s.alive <=> r.alive) /\ (s.down <=> r.down)
      /\ (s.freed <=> r.freed) /\ (s.pinned <=> r.pinned)
    BY <1>0, <1>1, <2>1 DEF OidObjects
  <2>4. Good(s)
    BY <1>0, <1>1, <2>2, <2>3 DEF Good, SetRefs
  <2>5. SetRefs(s) = SetRefs(r) - 1 /\ (s.down <=> r.down)
    BY <1>0, <1>1, <2>2, <2>3 DEF SetRefs, Good
  <2> QED BY <2>4, <2>5 DEF s
<1>2. CASE r.refs = 1 /\ r.down
  <2>1. s = [r EXCEPT !.refs = 0]
    BY <1>0, <1>2 DEF Release
  <2> HIDE DEF s
  <2>n. 0 \in Nat
    BY <1>0, <1>2
  <2>a. s \in OidObjects
    BY <1>0, <2>1, <2>n DEF OidObjects, Timers
  <2>b. s.refs = 0 /\ s.timer = r.timer
    BY <1>0, <1>2, <2>1 DEF OidObjects
  <2>2. s \in OidObjects /\ s.refs = 0 /\ s.timer = r.timer
    BY <2>a, <2>b
  <2>3. /\ (s.alive <=> r.alive) /\ (s.down <=> r.down)
      /\ (s.freed <=> r.freed) /\ (s.pinned <=> r.pinned)
    BY <1>0, <1>2, <2>1 DEF OidObjects
  <2>4. Good(s)
    BY <1>0, <1>2, <2>2, <2>3 DEF Good, SetRefs
  <2>5. SetRefs(s) = SetRefs(r) - 1 /\ (s.down <=> r.down)
    BY <1>0, <1>2, <2>2, <2>3 DEF SetRefs, Good
  <2> QED BY <2>4, <2>5 DEF s
<1>3. CASE r.refs = 1 /\ ~ r.down /\ (r.freed \/ ~ running)
  <2>1. s = NoOid
    BY <1>0, <1>3 DEF Release
  <2> QED BY <1>0, <1>3, <2>1, NoOidGood DEF SetRefs, Good
<1>4. CASE r.refs = 1 /\ ~ r.down /\ ~ (r.freed \/ ~ running)
  <2>1. s = [r EXCEPT !.refs = 0, !.timer = "fresh"]
    BY <1>0, <1>4 DEF Release
  <2> HIDE DEF s
  <2>n. 0 \in Nat
    BY <1>0, <1>4
  <2>a. s \in OidObjects
    BY <1>0, <2>1, <2>n DEF OidObjects, Timers
  <2>b. s.refs = 0 /\ s.timer = "fresh"
    BY <1>0, <1>4, <2>1 DEF OidObjects
  <2>2. s \in OidObjects /\ s.refs = 0 /\ s.timer = "fresh"
    BY <2>a, <2>b
  <2>3. /\ (s.alive <=> r.alive) /\ (s.down <=> r.down)
      /\ (s.freed <=> r.freed) /\ (s.pinned <=> r.pinned)
    BY <1>0, <1>4, <2>1 DEF OidObjects
  <2>4. Good(s)
    BY <1>0, <1>4, <2>2, <2>3 DEF Good, SetRefs
  <2>5. SetRefs(s) = SetRefs(r) - 1 /\ (s.down <=> r.down)
    BY <1>0, <1>4, <2>2, <2>3 DEF SetRefs, Good
  <2> QED BY <2>4, <2>5 DEF s
<1> QED BY <1>0, <1>1, <1>2, <1>3, <1>4

\* A ping that does not take an OID renews its timeout.
LEMMA KeepAliveGood ==
  ASSUME NEW r, Good(r), r.alive
  PROVE  /\ Good(KeepAlive(r)) /\ SetRefs(KeepAlive(r)) = SetRefs(r)
         /\ (KeepAlive(r).down <=> r.down)
<1> DEFINE s == KeepAlive(r)
<1>0. /\ r \in OidObjects /\ r.refs \in Nat /\ r.timer \in Timers
      /\ r.alive \in BOOLEAN /\ r.down \in BOOLEAN
      /\ r.freed \in BOOLEAN /\ r.pinned \in BOOLEAN
  BY GoodTypes
<1>1. CASE ~ r.down /\ r.refs = 0
  <2>1. s = [r EXCEPT !.timer = "fresh"]
    BY <1>0, <1>1 DEF KeepAlive
  <2> HIDE DEF s
  <2>n. r.refs \in Nat
    BY <1>0, <1>1
  <2>a. s \in OidObjects
    BY <1>0, <2>1, <2>n DEF OidObjects, Timers
  <2>b. s.refs = r.refs /\ s.timer = "fresh"
    BY <1>0, <1>1, <2>1 DEF OidObjects
  <2>2. s \in OidObjects /\ s.refs = r.refs /\ s.timer = "fresh"
    BY <2>a, <2>b
  <2>3. /\ (s.alive <=> r.alive) /\ (s.down <=> r.down)
      /\ (s.freed <=> r.freed) /\ (s.pinned <=> r.pinned)
    BY <1>0, <1>1, <2>1 DEF OidObjects
  <2>4. Good(s)
    BY <1>0, <1>1, <2>2, <2>3 DEF Good, SetRefs
  <2>5. SetRefs(s) = SetRefs(r) /\ (s.down <=> r.down)
    BY <1>0, <1>1, <2>2, <2>3 DEF SetRefs, Good
  <2> QED BY <2>4, <2>5 DEF s
<1>2. CASE r.down \/ r.refs # 0
  BY <1>2 DEF KeepAlive
<1> QED BY <1>1, <1>2

\* An unpin gives the reference of the pin back, and that of no set.
LEMMA UnpinGood ==
  ASSUME NEW r, NEW running, Good(r), r.pinned
  PROVE  /\ Good(Unpin(r, running)) /\ SetRefs(Unpin(r, running)) = SetRefs(r)
         /\ ~ Unpin(r, running).down
<1> DEFINE s == Unpin(r, running)
<1>0. /\ r \in OidObjects /\ r.refs \in Nat /\ r.timer \in Timers
      /\ r.alive \in BOOLEAN /\ r.down \in BOOLEAN
      /\ r.freed \in BOOLEAN /\ r.pinned \in BOOLEAN
      /\ r.refs > 0 /\ ~ r.down /\ r.alive
  BY GoodTypes DEF Good
<1>1. CASE r.refs > 1
  <2>1. s = [r EXCEPT !.refs = r.refs - 1, !.pinned = FALSE]
    BY <1>0, <1>1 DEF Unpin, Release, OidObjects
  <2> HIDE DEF s
  <2>n. r.refs - 1 \in Nat
    BY <1>0, <1>1
  <2>a. s \in OidObjects
    BY <1>0, <2>1, <2>n DEF OidObjects, Timers
  <2>b. s.refs = r.refs - 1 /\ s.timer = r.timer
    BY <1>0, <1>1, <2>1 DEF OidObjects
  <2>2. s \in OidObjects /\ s.refs = r.refs - 1 /\ s.timer = r.timer
    BY <2>a, <2>b
  <2>3. /\ (s.alive <=> r.alive) /\ (s.down <=> r.down)
      /\ (s.freed <=> r.freed) /\ (s.pinned <=> FALSE)
    BY <1>0, <1>1, <2>1 DEF OidObjects
  <2>4. Good(s)
    BY <1>0, <1>1, <2>2, <2>3 DEF Good, SetRefs
  <2>5. SetRefs(s) = SetRefs(r) /\ ~ s.down
    BY <1>0, <1>1, <2>2, <2>3 DEF SetRefs, Good
  <2> QED BY <2>4, <2>5 DEF s
<1>2. CASE r.refs = 1 /\ (r.freed \/ ~ running)
  <2>1. s = NoOid
    BY <1>0, <1>2 DEF Unpin, Release, OidObjects
  <2> QED BY <1>0, <1>2, <2>1, NoOidGood DEF SetRefs, Good
<1>3. CASE r.refs = 1 /\ ~ (r.freed \/ ~ running)
  <2>1. s = [[r EXCEPT !.pinned = FALSE] EXCEPT !.refs = 0, !.timer = "fresh"]
    BY <1>0, <1>3 DEF Unpin, Release, OidObjects
  <2> HIDE DEF s
  <2>n. 0 \in Nat
    BY <1>0, <1>3
  <2>a. s \in OidObjects
    BY <1>0, <2>1, <2>n DEF OidObjects, Timers
  <2>b. s.refs = 0 /\ s.timer = "fresh"
    BY <1>0, <1>3, <2>1 DEF OidObjects
  <2>2. s \in OidObjects /\ s.refs = 0 /\ s.timer = "fresh"
    BY <2>a, <2>b
  <2>3. /\ (s.alive <=> r.alive) /\ (s.down <=> r.down)
      /\ (s.freed <=> r.freed) /\ (s.pinned <=> FALSE)
    BY <1>0, <1>3, <2>1 DEF OidObjects
  <2>4. Good(s)
    BY <1>0, <1>3, <2>2, <2>3 DEF Good, SetRefs
  <2>5. SetRefs(s) = SetRefs(r) /\ ~ s.down
    BY <1>0, <1>3, <2>2, <2>3 DEF SetRefs, Good
  <2> QED BY <2>4, <2>5 DEF s
<1> QED BY <1>0, <1>1, <1>2, <1>3

\* A server frees an OID that is not being run down.
LEMMA FreeGood ==
  ASSUME NEW r, NEW running, Good(r), r.alive, ~ r.down
  PROVE  /\ Good(Free(r, running)) /\ SetRefs(Free(r, running)) = SetRefs(r)
         /\ ~ Free(r, running).down
<1> DEFINE s == [r EXCEPT !.freed = TRUE]
<1>0. /\ r \in OidObjects /\ r.refs \in Nat /\ r.timer \in Timers
      /\ r.alive \in BOOLEAN /\ r.down \in BOOLEAN
      /\ r.freed \in BOOLEAN /\ r.pinned \in BOOLEAN
  BY GoodTypes
<1>1. CASE r.refs = 0
  BY <1>0, <1>1, NoOidGood DEF Free, SetRefs, Good
<1>2. CASE r.refs # 0
  <2>1. s \in OidObjects /\ s.refs = r.refs /\ s.timer = r.timer
    BY <1>0 DEF OidObjects
  <2>2. /\ (s.alive <=> r.alive) /\ (s.down <=> r.down)
        /\ s.freed /\ (s.pinned <=> r.pinned)
    BY <1>0 DEF OidObjects
  <2>3. Free(r, running) = IF r.pinned THEN Unpin(s, running) ELSE s
    BY <1>2 DEF Free
  <2> HIDE DEF s
  <2>4. Good(s)
    BY <1>0, <1>2, <2>1, <2>2 DEF Good
  <2>5. SetRefs(s) = SetRefs(r) /\ ~ s.down
    BY <1>0, <2>1, <2>2 DEF SetRefs
  <2>6. CASE r.pinned
    <3>1. s.pinned
      BY <2>2, <2>6
    <3> QED BY <2>3, <2>4, <2>5, <2>6, <3>1, UnpinGood
  <2>7. CASE ~ r.pinned
    BY <2>3, <2>4, <2>5, <2>7
  <2> QED BY <2>6, <2>7
<1> QED BY <1>1, <1>2

\* The result of a rundown call, for an OID that is being run down: sets that
\* took it meanwhile keep it.
LEMMA ResultGood ==
  ASSUME NEW r, NEW answer, Good(r), r.down
  PROVE  /\ Good(Result(r, answer)) /\ SetRefs(Result(r, answer)) = SetRefs(r)
         /\ ~ Result(r, answer).down
<1> DEFINE s == Result(r, answer)
<1>0. /\ r \in OidObjects /\ r.refs \in Nat /\ r.timer \in Timers
      /\ r.alive \in BOOLEAN /\ r.down \in BOOLEAN
      /\ r.freed \in BOOLEAN /\ r.pinned \in BOOLEAN
      /\ ~ r.pinned /\ r.alive /\ ~ r.freed /\ r.timer = "out"
  BY GoodTypes DEF Good
<1>1. CASE answer = "pinned"
  <2>1. s = [r EXCEPT !.refs = r.refs + 1, !.pinned = TRUE, !.down = FALSE]
    BY <1>0, <1>1 DEF Result, Reference, OidObjects
  <2> HIDE DEF s
  <2>n. r.refs + 1 \in Nat
    BY <1>0, <1>1
  <2>a. s \in OidObjects
    BY <1>0, <2>1, <2>n DEF OidObjects, Timers
  <2>b. s.refs = r.refs + 1 /\ s.timer = r.timer
    BY <1>0, <1>1, <2>1 DEF OidObjects
  <2>2. s \in OidObjects /\ s.refs = r.refs + 1 /\ s.timer = r.timer
    BY <2>a, <2>b
  <2>3. /\ (s.alive <=> r.alive) /\ (s.down <=> FALSE)
      /\ (s.freed <=> r.freed) /\ (s.pinned <=> TRUE)
    BY <1>0, <1>1, <2>1 DEF OidObjects
  <2>4. Good(s)
    BY <1>0, <1>1, <2>2, <2>3 DEF Good, SetRefs
  <2>5. SetRefs(s) = SetRefs(r) /\ ~ s.down
    BY <1>0, <1>1, <2>2, <2>3 DEF SetRefs, Good
  <2> QED BY <2>4, <2>5 DEF s
<1>2. CASE answer # "pinned" /\ r.refs # 0
  <2>1. s = [r EXCEPT !.down = FALSE]
    BY <1>0, <1>2 DEF Result, Reference, OidObjects
  <2> HIDE DEF s
  <2>n. r.refs \in Nat
    BY <1>0, <1>2
  <2>a. s \in OidObjects
    BY <1>0, <2>1, <2>n DEF OidObjects, Timers
  <2>b. s.refs = r.refs /\ s.timer = r.timer
    BY <1>0, <1>2, <2>1 DEF OidObjects
  <2>2. s \in OidObjects /\ s.refs = r.refs /\ s.timer = r.timer
    BY <2>a, <2>b
  <2>3. /\ (s.alive <=> r.alive) /\ (s.down <=> FALSE)
      /\ (s.freed <=> r.freed) /\ (s.pinned <=> r.pinned)
    BY <1>0, <1>2, <2>1 DEF OidObjects
  <2>4. Good(s)
    BY <1>0, <1>2, <2>2, <2>3 DEF Good, SetRefs
  <2>5. SetRefs(s) = SetRefs(r) /\ ~ s.down
    BY <1>0, <1>2, <2>2, <2>3 DEF SetRefs, Good
  <2> QED BY <2>4, <2>5 DEF s
<1>3. CASE answer = "ok" /\ r.refs = 0
  <2>1. s = NoOid
    BY <1>0, <1>3 DEF Result, Reference, OidObjects
  <2> QED BY <1>0, <1>3, <2>1, NoOidGood DEF SetRefs, Good
<1>4. CASE answer \notin {"pinned", "ok"} /\ r.refs = 0
  <2>1. s = [r EXCEPT !.down = FALSE, !.timer = "fresh"]
    BY <1>0, <1>4 DEF Result, Reference, OidObjects
  <2> HIDE DEF s
  <2>n. r.refs \in Nat
    BY <1>0, <1>4
  <2>a. s \in OidObjects
    BY <1>0, <2>1, <2>n DEF OidObjects, Timers
  <2>b. s.refs = r.refs /\ s.timer = "fresh"
    BY <1>0, <1>4, <2>1 DEF OidObjects
  <2>2. s \in OidObjects /\ s.refs = r.refs /\ s.timer = "fresh"
    BY <2>a, <2>b
  <2>3. /\ (s.alive <=> r.alive) /\ (s.down <=> FALSE)
      /\ (s.freed <=> r.freed) /\ (s.pinned <=> r.pinned)
    BY <1>0, <1>4, <2>1 DEF OidObjects
  <2>4. Good(s)
    BY <1>0, <1>4, <2>2, <2>3 DEF Good, SetRefs
  <2>5. SetRefs(s) = SetRefs(r) /\ ~ s.down
    BY <1>0, <1>4, <2>2, <2>3 DEF SetRefs, Good
  <2> QED BY <2>4, <2>5 DEF s
<1> QED BY <1>1, <1>2, <1>3, <1>4

\* A call takes an OID from the list.
Taken(r) == [r EXCEPT !.down = TRUE, !.timer = "out"]

\* An OID that is taken from the list has no references, and gets none.
LEMMA TakenGood ==
  ASSUME NEW r, Good(r), r.timer # "out"
  PROVE  Good(Taken(r)) /\ SetRefs(Taken(r)) = SetRefs(r) /\ Taken(r).down
<1> DEFINE s == Taken(r)
<1>0. /\ r \in OidObjects /\ r.refs \in Nat /\ r.timer \in Timers
      /\ r.alive \in BOOLEAN /\ r.down \in BOOLEAN
      /\ r.freed \in BOOLEAN /\ r.pinned \in BOOLEAN
      /\ ~ r.pinned /\ r.alive /\ ~ r.freed /\ r.refs = 0 /\ ~ r.down
  BY GoodTypes DEF Good
<1>1. CASE TRUE
  <2>1. s = [r EXCEPT !.down = TRUE, !.timer = "out"]
    BY <1>0, <1>1 DEF Taken
  <2> HIDE DEF s
  <2>n. r.refs \in Nat
    BY <1>0, <1>1
  <2>a. s \in OidObjects
    BY <1>0, <2>1, <2>n DEF OidObjects, Timers
  <2>b. s.refs = r.refs /\ s.timer = "out"
    BY <1>0, <1>1, <2>1 DEF OidObjects
  <2>2. s \in OidObjects /\ s.refs = r.refs /\ s.timer = "out"
    BY <2>a, <2>b
  <2>3. /\ (s.alive <=> r.alive) /\ (s.down <=> TRUE)
      /\ (s.freed <=> r.freed) /\ (s.pinned <=> r.pinned)
    BY <1>0, <1>1, <2>1 DEF OidObjects
  <2>4. Good(s)
    BY <1>0, <1>1, <2>2, <2>3 DEF Good, SetRefs
  <2>5. SetRefs(s) = SetRefs(r) /\ s.down
    BY <1>0, <1>1, <2>2, <2>3 DEF SetRefs, Good
  <2> QED BY <2>4, <2>5 DEF s
<1> QED BY <1>1

-----------------------------------------------------------------------------
(* The invariant *)

\* The sets that hold an OID.
Holders(o) == {s \in PingSet : o \in set[s].members}

\* A call that is to settle an OID.
Has(c, o) == call[c].at \in Unsettled /\ o \in call[c].oids

Shapes ==
  /\ oid \in [Oid -> OidObjects]
  /\ set \in [PingSet -> Sets]
  /\ call \in [Call -> Calls]

AllGood == \A o \in Oid : Good(oid[o])

RefsRight == \A o \in Oid : SetRefs(oid[o]) = Cardinality(Holders(o))

\* An OID is being run down exactly while one call has it.
TakenOnce ==
  \A o \in Oid :
    /\ oid[o].down <=> \E c \in Call : Has(c, o)
    /\ \A c, d \in Call : Has(c, o) /\ Has(d, o) => c = d

IInv == Shapes /\ AllGood /\ RefsRight /\ TakenOnce

\* The holders of an OID can be counted.
LEMMA HoldersFinite ==
  ASSUME NEW o
  PROVE  IsFiniteSet(Holders(o)) /\ Cardinality(Holders(o)) \in Nat
<1>1. IsFiniteSet(PingSet)
  BY ServerOidAssumption
<1>2. Holders(o) \subseteq PingSet
  BY DEF Holders
<1> QED BY <1>1, <1>2, FS_Subset, FS_CardinalityType

\* Removing some elements of a finite set.
LEMMA SubsetRemoved ==
  ASSUME NEW H, IsFiniteSet(H), NEW K, K \subseteq H
  PROVE  /\ Cardinality(K) \in Nat /\ Cardinality(K) <= Cardinality(H)
         /\ Cardinality(K) = 0 <=> K = {}
         /\ Cardinality(H \ K) = Cardinality(H) - Cardinality(K)
<1>1. IsFiniteSet(K) /\ Cardinality(K) <= Cardinality(H)
  BY FS_Subset
<1>2. Cardinality(K) \in Nat /\ (Cardinality(K) = 0 <=> K = {})
  BY <1>1, FS_CardinalityType, FS_EmptySet
<1>3. H \cap K = K
  OBVIOUS
<1>4. Cardinality(H \ K) = Cardinality(H) - Cardinality(H \cap K)
  BY FS_Difference
<1> QED BY <1>1, <1>2, <1>3, <1>4

\* A set that holds an OID has a reference to it.
LEMMA HolderCounts ==
  ASSUME RefsRight, NEW s \in PingSet, NEW o \in Oid, o \in set[s].members
  PROVE  SetRefs(oid[o]) > 0
<1>1. s \in Holders(o)
  BY DEF Holders
<1>2. Cardinality(Holders(o)) # 0
  BY <1>1, HoldersFinite, FS_EmptySet
<1> QED BY <1>2, HoldersFinite DEF RefsRight

\* A pin counts among the references.
LEMMA SetRefsNat ==
  ASSUME NEW r, Good(r)
  PROVE  SetRefs(r) \in Nat
BY GoodTypes DEF Good, SetRefs

-----------------------------------------------------------------------------
(* What a step has to show *)

\* No set takes or drops an OID.
LEMMA SameHolders ==
  ASSUME RefsRight,
         \A s \in PingSet : set'[s].members = set[s].members,
         \A o \in Oid : SetRefs(oid'[o]) = SetRefs(oid[o])
  PROVE  RefsRight'
<1> SUFFICES ASSUME NEW o \in Oid
             PROVE  SetRefs(oid'[o]) = Cardinality(Holders(o)')
  BY DEF RefsRight, SetRefs
<1>1. Holders(o)' = Holders(o)
  BY DEF Holders
<1> QED BY <1>1 DEF RefsRight

\* One set now holds the OIDs M.
LEMMA OneSet ==
  ASSUME Shapes, RefsRight, NEW s \in PingSet, NEW M,
         \A t \in PingSet :
           set'[t].members = IF t = s THEN M ELSE set[t].members,
         \A o \in Oid :
           SetRefs(oid'[o]) = SetRefs(oid[o]) + (IF o \in M THEN 1 ELSE 0)
                              - (IF o \in set[s].members THEN 1 ELSE 0)
  PROVE  RefsRight'
<1> SUFFICES ASSUME NEW o \in Oid
             PROVE  SetRefs(oid'[o]) = Cardinality(Holders(o)')
  BY DEF RefsRight, SetRefs
<1>1. /\ SetRefs(oid[o]) = Cardinality(Holders(o))
      /\ Cardinality(Holders(o)) \in Nat /\ IsFiniteSet(Holders(o))
  BY HoldersFinite DEF RefsRight
<1>2. s \in Holders(o) <=> o \in set[s].members
  BY DEF Holders
<1>3. CASE o \in M
  <2>1. Holders(o)' = Holders(o) \cup {s}
    BY <1>3 DEF Holders
  <2>2. Cardinality(Holders(o)') =
          IF s \in Holders(o) THEN Cardinality(Holders(o)) ELSE Cardinality(Holders(o)) + 1
    BY <1>1, <2>1, FS_AddElement
  <2> QED BY <1>1, <1>2, <1>3, <2>2
<1>4. CASE o \notin M
  <2>1. Holders(o)' = Holders(o) \ {s}
    BY <1>4 DEF Holders
  <2>2. Cardinality(Holders(o)') =
          IF s \in Holders(o) THEN Cardinality(Holders(o)) - 1 ELSE Cardinality(Holders(o))
    BY <1>1, <2>1, FS_RemoveElement
  <2> QED BY <1>1, <1>2, <1>4, <2>2
<1> QED BY <1>3, <1>4

\* No call takes or settles an OID.
LEMMA SameCalls ==
  ASSUME TakenOnce,
         \A c \in Call, o \in Oid : Has(c, o)' <=> Has(c, o),
         \A o \in Oid : oid'[o].down <=> oid[o].down
  PROVE  TakenOnce'
BY DEF TakenOnce

\* A call settles its OIDs.
LEMMA CallSettles ==
  ASSUME TakenOnce, NEW c \in Call,
         call[c].at \in Unsettled,
         \A d \in Call, o \in Oid : Has(d, o)' <=> d # c /\ Has(d, o),
         \A o \in Oid : oid'[o].down <=> (oid[o].down /\ o \notin call[c].oids)
  PROVE  TakenOnce'
<1>1. \A o \in Oid : Has(c, o) <=> o \in call[c].oids
  BY DEF Has
<1> QED BY <1>1 DEF TakenOnce

\* A free slot becomes a call with the OIDs B.
LEMMA CallTakes ==
  ASSUME TakenOnce, NEW c \in Call, NEW B,
         call[c].at = "free",
         \A d \in Call, o \in Oid : Has(d, o)' <=> (d = c /\ o \in B) \/ (d # c /\ Has(d, o)),
         \A o \in B : ~ oid[o].down,
         \A o \in Oid : oid'[o].down <=> (oid[o].down \/ o \in B)
  PROVE  TakenOnce'
<1>1. \A o \in Oid : ~ Has(c, o)
  BY DEF Has, Unsettled
<1> QED BY <1>1 DEF TakenOnce

-----------------------------------------------------------------------------
(* Pings *)

\* Releasing the references of a set to S, which are all its own.
LEMMA Released ==
  ASSUME Shapes, AllGood, RefsRight, NEW s \in PingSet, NEW S, S \subseteq set[s].members
  PROVE  \A o \in Oid :
           LET r == ReleaseAll(oid, S)[o] IN
           /\ Good(r) /\ (r.down <=> oid[o].down)
           /\ SetRefs(r) = SetRefs(oid[o]) - (IF o \in S THEN 1 ELSE 0)
<1> TAKE o \in Oid
<1> DEFINE r == ReleaseAll(oid, S)[o]
<1>0. Good(oid[o]) /\ SetRefs(oid[o]) \in Nat
  BY SetRefsNat DEF AllGood
<1>1. CASE o \in S
  <2>1. r = Release(oid[o], oxid[OxidOf[o]].running)
    BY <1>1 DEF ReleaseAll
  <2>2. SetRefs(oid[o]) > 0
    BY <1>1, HolderCounts
  <2> QED BY <1>0, <1>1, <2>1, <2>2, ReleaseGood
<1>2. CASE o \notin S
  <2>1. r = oid[o]
    BY <1>2 DEF ReleaseAll
  <2> QED BY <1>0, <1>2, <2>1
<1> QED BY <1>1, <1>2

\* A set drops only OIDs that it holds.
LEMMA StaleInside ==
  ASSUME NEW s \in PingSet
  PROVE  Stale(s) \subseteq set[s].members
BY DEF Stale

\* The OIDs after a step.
LEMMA OidsTyped ==
  ASSUME NEW f, f = [o \in Oid |-> f[o]], \A o \in Oid : Good(f[o])
  PROVE  f \in [Oid -> OidObjects]
BY DEF Good

\* The sets after a ping of one of them.
LEMMA PingedSets ==
  ASSUME Shapes, NEW s \in PingSet, NEW M \in SUBSET Oid, Pinged(s, M)
  PROVE  /\ set' \in [PingSet -> Sets]
         /\ \A t \in PingSet : set'[t].members = IF t = s THEN M ELSE set[t].members
<1>1. PICK n \in 0..2 : set' = [set EXCEPT ![s] = [timer |-> "fresh", members |-> M, pings |-> n]]
  <2>1. \A k \in Nat : (k + 1) % 3 \in 0..2
    OBVIOUS
  <2>2. set[s].pings \in Nat
    BY DEF Shapes, Sets
  <2> QED BY <2>1, <2>2 DEF Pinged
<1>2. [timer |-> "fresh", members |-> M, pings |-> n] \in Sets
  BY DEF Sets, Timers
<1> QED BY <1>1, <1>2 DEF Shapes

\* _SimplePing releases the references of the OIDs it drops.
LEMMA SimplePingKeeps ==
  ASSUME IInv, NEW s \in PingSet, SimplePing(s)
  PROVE  IInv'
<1> DEFINE S == Stale(s)
<1> DEFINE M == set[s].members \ S
<1>1. /\ Pinged(s, M) /\ oid' = ReleaseAll(oid, S) /\ UNCHANGED call
  BY DEF SimplePing, Commit
<1>2. S \subseteq set[s].members /\ M \in SUBSET Oid
  BY StaleInside DEF IInv, Shapes, Sets
<1>3. \A o \in Oid : /\ Good(oid'[o]) /\ (oid'[o].down <=> oid[o].down)
                     /\ SetRefs(oid'[o]) = SetRefs(oid[o]) - (IF o \in S THEN 1 ELSE 0)
  BY <1>1, <1>2, Released DEF IInv
<1>4. /\ set' \in [PingSet -> Sets]
      /\ \A t \in PingSet : set'[t].members = IF t = s THEN M ELSE set[t].members
  BY <1>1, <1>2, PingedSets DEF IInv
<1>5. Shapes' /\ AllGood'
  <2>1. oid' = [o \in Oid |-> oid'[o]]
    BY <1>1 DEF ReleaseAll
  <2> QED BY <1>1, <1>3, <1>4, <2>1, OidsTyped DEF IInv, Shapes, AllGood, Good
<1>6. RefsRight'
  <2>1. \A o \in Oid :
          SetRefs(oid'[o]) = SetRefs(oid[o]) + (IF o \in M THEN 1 ELSE 0)
                             - (IF o \in set[s].members THEN 1 ELSE 0)
    <3> TAKE o \in Oid
    <3>1. SetRefs(oid[o]) \in Nat
      BY SetRefsNat DEF IInv, AllGood
    <3> QED BY <1>2, <1>3, <3>1
  <2> HIDE DEF M
  <2> QED BY <1>4, <2>1, OneSet DEF IInv
<1>7. TakenOnce'
  BY <1>1, <1>3, SameCalls DEF IInv, Has
<1> QED BY <1>5, <1>6, <1>7 DEF IInv

\* What a ping does to one OID: M are the set's OIDs after it.
LEMMA SwappedGood ==
  ASSUME IInv, NEW s \in PingSet, NEW A \in SUBSET Oid, NEW D \in SUBSET Oid, NEW o \in Oid
  PROVE  LET r == Swapped(s, A, D)[o]
             M == ((set[s].members \ Stale(s)) \cup
                   {p \in A : ReleaseAll(oid, Stale(s))[p].alive}) \ D
         IN /\ Good(r) /\ (r.down <=> oid[o].down)
            /\ SetRefs(r) = SetRefs(oid[o]) + (IF o \in M THEN 1 ELSE 0)
                            - (IF o \in set[s].members THEN 1 ELSE 0)
<1> DEFINE q1 == ReleaseAll(oid, Stale(s))
           kept == set[s].members \ Stale(s)
           added == {p \in A \ kept : q1[p].alive}
           M == (kept \cup {p \in A : q1[p].alive}) \ D
           q2 == [p \in Oid |-> IF p \in added THEN Reference(q1[p]) ELSE q1[p]]
           q3 == ReleaseAll(q2, D \cap (kept \cup added))
           r == IF o \in D \ (kept \cup added) /\ q3[o].alive
                THEN KeepAlive(q3[o]) ELSE q3[o]
           running == oxid[OxidOf[o]].running
<1>0. Swapped(s, A, D)[o] = r
  BY DEF Swapped
<1>1. /\ Good(q1[o]) /\ (q1[o].down <=> oid[o].down)
      /\ SetRefs(q1[o]) = SetRefs(oid[o]) - (IF o \in Stale(s) THEN 1 ELSE 0)
  BY StaleInside, Released DEF IInv
<1>2. /\ SetRefs(oid[o]) \in Nat /\ SetRefs(q1[o]) \in Nat
      /\ o \in set[s].members => SetRefs(oid[o]) > 0
  BY <1>1, SetRefsNat, HolderCounts DEF IInv, AllGood
<1>3. o \in M <=> (o \in kept \/ o \in added) /\ o \notin D
  OBVIOUS
<1>4. /\ o \in Stale(s) => o \in set[s].members
      /\ o \in kept <=> o \in set[s].members /\ o \notin Stale(s)
      /\ o \in added => o \notin kept /\ q1[o].alive
  BY StaleInside
<1>5. q2[o] = IF o \in added THEN Reference(q1[o]) ELSE q1[o]
  OBVIOUS
<1>6. q3[o] = IF o \in D /\ (o \in kept \/ o \in added) THEN Release(q2[o], running)
              ELSE q2[o]
  BY DEF ReleaseAll
<1> HIDE DEF q1, kept, added, M, q2, q3
<1>7. /\ Good(q2[o]) /\ (q2[o].down <=> oid[o].down)
      /\ SetRefs(q2[o]) = SetRefs(q1[o]) + (IF o \in added THEN 1 ELSE 0)
  <2>1. CASE o \in added
    BY <1>1, <1>4, <1>5, <2>1, ReferenceGood
  <2>2. CASE o \notin added
    BY <1>1, <1>2, <1>5, <2>2
  <2> QED BY <2>1, <2>2
<1>8. SetRefs(q2[o]) = SetRefs(oid[o]) + (IF o \in kept \/ o \in added THEN 1 ELSE 0)
                       - (IF o \in set[s].members THEN 1 ELSE 0)
  BY <1>1, <1>2, <1>4, <1>7
<1>9. /\ Good(q3[o]) /\ (q3[o].down <=> oid[o].down)
      /\ SetRefs(q3[o]) = SetRefs(oid[o]) + (IF o \in M THEN 1 ELSE 0)
                          - (IF o \in set[s].members THEN 1 ELSE 0)
  <2>1. CASE o \in D /\ (o \in kept \/ o \in added)
    <3>1. SetRefs(q2[o]) > 0
      BY <1>2, <1>8, <2>1
    <3>2. q3[o] = Release(q2[o], running)
      BY <1>6, <2>1
    <3>3. /\ Good(q3[o]) /\ SetRefs(q3[o]) = SetRefs(q2[o]) - 1
          /\ q3[o].down <=> q2[o].down
      BY <1>7, <3>1, <3>2, ReleaseGood
    <3> QED BY <1>2, <1>3, <1>7, <1>8, <2>1, <3>3
  <2>2. CASE ~ (o \in D /\ (o \in kept \/ o \in added))
    <3>1. q3[o] = q2[o]
      BY <1>6, <2>2
    <3>2. o \in M <=> (o \in kept \/ o \in added)
      BY <1>3, <2>2
    <3> QED BY <1>7, <1>8, <3>1, <3>2
  <2> QED BY <2>1, <2>2
<1>10. CASE o \in D \ (kept \cup added) /\ q3[o].alive
  <2>1. r = KeepAlive(q3[o])
    BY <1>10
  <2>2. /\ Good(KeepAlive(q3[o])) /\ SetRefs(KeepAlive(q3[o])) = SetRefs(q3[o])
        /\ KeepAlive(q3[o]).down <=> q3[o].down
    BY <1>9, <1>10, KeepAliveGood
  <2>3. /\ Good(r) /\ (r.down <=> oid[o].down)
        /\ SetRefs(r) = SetRefs(oid[o]) + (IF o \in M THEN 1 ELSE 0)
                        - (IF o \in set[s].members THEN 1 ELSE 0)
    BY <1>9, <2>1, <2>2
  <2> QED BY <1>0, <2>3 DEF M, kept, q1
<1>11. CASE ~ (o \in D \ (kept \cup added) /\ q3[o].alive)
  <2>1. r = q3[o]
    BY <1>11
  <2> QED BY <1>0, <1>9, <2>1 DEF M, kept, q1
<1> QED BY <1>10, <1>11

\* ComplexPingInternal: additions, then removals, each with its reference.
LEMMA ComplexPingKeeps ==
  ASSUME IInv, NEW s \in PingSet, NEW A \in SUBSET Oid, NEW D \in SUBSET Oid,
         ComplexPing(s, A, D)
  PROVE  IInv'
<1> DEFINE M == ((set[s].members \ Stale(s)) \cup
                 {p \in A : ReleaseAll(oid, Stale(s))[p].alive}) \ D
<1>1. /\ Pinged(s, M) /\ oid' = Swapped(s, A, D) /\ UNCHANGED call
  BY DEF ComplexPing, Commit
<1>2. M \in SUBSET Oid
  BY DEF IInv, Shapes, Sets
<1>3. \A o \in Oid : /\ Good(oid'[o]) /\ (oid'[o].down <=> oid[o].down)
                     /\ SetRefs(oid'[o]) = SetRefs(oid[o]) + (IF o \in M THEN 1 ELSE 0)
                                           - (IF o \in set[s].members THEN 1 ELSE 0)
  BY <1>1, SwappedGood
<1> HIDE DEF M
<1>4. /\ set' \in [PingSet -> Sets]
      /\ \A t \in PingSet : set'[t].members = IF t = s THEN M ELSE set[t].members
  BY <1>1, <1>2, PingedSets DEF IInv
<1>5. Shapes' /\ AllGood'
  <2>1. oid' = [o \in Oid |-> oid'[o]]
    BY <1>1 DEF Swapped
  <2> QED BY <1>1, <1>3, <1>4, <2>1, OidsTyped DEF IInv, Shapes, AllGood, Good
<1>6. RefsRight'
  BY <1>3, <1>4, OneSet DEF IInv
<1>7. TakenOnce'
  BY <1>1, <1>3, SameCalls DEF IInv, Has
<1> QED BY <1>5, <1>6, <1>7 DEF IInv

\* The set of a dead client releases all it holds.
LEMMA RundownSetKeeps ==
  ASSUME IInv, NEW s \in PingSet, RundownSet(s)
  PROVE  IInv'
<1> DEFINE S == set[s].members
<1>1. /\ set' = [set EXCEPT ![s] = NoSet]
      /\ oid' = ReleaseAll(oid, S) /\ UNCHANGED call
  BY DEF RundownSet, Commit
<1>2. NoSet \in Sets /\ NoSet.members = {}
  BY DEF NoSet, Sets, Timers
<1>3. \A o \in Oid : /\ Good(oid'[o]) /\ (oid'[o].down <=> oid[o].down)
                     /\ SetRefs(oid'[o]) = SetRefs(oid[o]) - (IF o \in S THEN 1 ELSE 0)
  BY <1>1, Released DEF IInv
<1>4. /\ set' \in [PingSet -> Sets]
      /\ \A t \in PingSet : set'[t].members = IF t = s THEN {} ELSE set[t].members
  BY <1>1, <1>2 DEF IInv, Shapes
<1>5. Shapes' /\ AllGood'
  <2>1. oid' = [o \in Oid |-> oid'[o]]
    BY <1>1 DEF ReleaseAll
  <2> QED BY <1>1, <1>3, <1>4, <2>1, OidsTyped DEF IInv, Shapes, AllGood, Good
<1>6. RefsRight'
  <2>1. \A o \in Oid :
          SetRefs(oid'[o]) = SetRefs(oid[o]) + (IF o \in {} THEN 1 ELSE 0)
                             - (IF o \in set[s].members THEN 1 ELSE 0)
    <3> TAKE o \in Oid
    <3>1. SetRefs(oid[o]) \in Nat
      BY SetRefsNat DEF IInv, AllGood
    <3> QED BY <1>3, <3>1
  <2> QED BY <1>4, <2>1, OneSet DEF IInv
<1>7. TakenOnce'
  BY <1>1, <1>3, SameCalls DEF IInv, Has
<1> QED BY <1>5, <1>6, <1>7 DEF IInv

\* After a resume all sets are pinged at once: each drops what it alone holds.
LEMMA PingAllSetsKeeps ==
  ASSUME IInv, PingAllSets
  PROVE  IInv'
<1> DEFINE S == {s \in PingSet : set[s].timer # "out"}
           stale == UNION {Stale(s) : s \in S}
           G(o) == {s \in S : o \in Stale(s)}
           gone(o) == Cardinality(G(o))
           cut(o) == [oid[o] EXCEPT !.refs = oid[o].refs - gone(o) + 1]
<1>1. /\ set' = [s \in PingSet |->
                   IF s \in S THEN [timer |-> "fresh", pings |-> (set[s].pings + 1) % 3,
                                    members |-> set[s].members \ Stale(s)]
                   ELSE set[s]]
      /\ oid' = [o \in Oid |-> IF o \notin stale THEN oid[o] ELSE Release(cut(o), FALSE)]
      /\ UNCHANGED call
  BY DEF PingAllSets, Commit
<1>2. ASSUME NEW o \in Oid
      PROVE  /\ Holders(o)' = Holders(o) \ G(o) /\ G(o) \subseteq Holders(o)
             /\ o \in stale <=> G(o) # {}
  BY <1>1, StaleInside DEF Holders
<1>3. ASSUME NEW o \in Oid
      PROVE  /\ gone(o) \in Nat /\ gone(o) <= Cardinality(Holders(o))
             /\ gone(o) = 0 <=> G(o) = {}
             /\ Cardinality(Holders(o)') = Cardinality(Holders(o)) - gone(o)
  <2> DEFINE H == Holders(o)
             K == G(o)
  <2>1. IsFiniteSet(H) /\ K \subseteq H /\ Holders(o)' = H \ K
    BY <1>2, HoldersFinite
  <2> HIDE DEF H, K
  <2>2. /\ Cardinality(K) \in Nat /\ Cardinality(K) <= Cardinality(H)
        /\ Cardinality(K) = 0 <=> K = {}
        /\ Cardinality(H \ K) = Cardinality(H) - Cardinality(K)
    BY <2>1, SubsetRemoved
  <2> QED BY <2>1, <2>2 DEF H, K
<1> HIDE DEF G, stale
<1>4. ASSUME NEW o \in Oid, o \in stale
      PROVE  /\ Good(oid'[o]) /\ (oid'[o].down <=> oid[o].down)
             /\ SetRefs(oid'[o]) = SetRefs(oid[o]) - gone(o)
  <2> DEFINE r == oid[o]
             c == cut(o)
  <2>0. /\ Good(r) /\ SetRefs(r) = Cardinality(Holders(o)) /\ SetRefs(r) \in Nat
        /\ gone(o) \in Nat /\ 0 < gone(o) /\ gone(o) <= SetRefs(r)
    BY <1>2, <1>3, <1>4, SetRefsNat DEF IInv, AllGood, RefsRight
  <2>1. /\ r \in OidObjects /\ r.refs \in Nat /\ SetRefs(r) <= r.refs
        /\ r.alive \in BOOLEAN /\ r.down \in BOOLEAN
        /\ r.freed \in BOOLEAN /\ r.pinned \in BOOLEAN
    BY <2>0, GoodTypes DEF SetRefs
  <2> DEFINE n == oid[o].refs - gone(o) + 1
  <2>2. n \in Nat /\ n > 0
    BY <2>0, <2>1
  <2> HIDE DEF gone
  <2>3. c = [r EXCEPT !.refs = n]
    OBVIOUS
  <2>4. n - r.refs = 1 - gone(o)
    BY <2>0, <2>1
  <2> HIDE DEF n, c, r
  <2>5. c \in OidObjects
    BY <2>1, <2>2, <2>3 DEF OidObjects
  <2>6. /\ c.refs = n /\ c.timer = r.timer
        /\ (c.alive <=> r.alive) /\ (c.down <=> r.down)
        /\ (c.freed <=> r.freed) /\ (c.pinned <=> r.pinned)
    BY <2>1, <2>3 DEF OidObjects
  <2>7. SetRefs(c) = SetRefs(r) - gone(o) + 1
    BY <2>0, <2>1, <2>2, <2>4, <2>6 DEF SetRefs
  <2>8. Good(c) /\ SetRefs(c) > 0
    <3>1. r.refs > 0
      BY <2>0, <2>1
    <3>2. SetRefs(c) > 0
      BY <2>0, <2>7
    <3>3. Good(c)
      BY <2>0, <2>1, <2>2, <2>5, <2>6, <3>1, <3>2 DEF Good, SetRefs
    <3> QED BY <3>2, <3>3
  <2>9. Good(Release(c, FALSE)) /\ (Release(c, FALSE).down <=> c.down)
    BY <2>8, ReleaseGood
  <2>10. oid'[o] = Release(c, FALSE)
    BY <1>1, <1>4 DEF c
  <2>11. SetRefs(Release(c, FALSE)) = SetRefs(r) - gone(o)
    <3> DEFINE d == Release(c, FALSE)
    <3>1. SetRefs(d) = SetRefs(c) - 1
      BY <2>8, ReleaseGood, Zenon
    <3> HIDE DEF d
    <3>2. SetRefs(d) = SetRefs(r) - gone(o)
      BY <2>0, <2>7, <3>1
    <3> QED BY <3>2 DEF d
  <2> QED BY <2>6, <2>9, <2>10, <2>11 DEF r
<1>5. ASSUME NEW o \in Oid, o \notin stale
      PROVE  /\ oid'[o] = oid[o] /\ Good(oid[o]) /\ SetRefs(oid[o]) \in Nat
             /\ gone(o) = 0
  BY <1>1, <1>2, <1>3, <1>5, SetRefsNat DEF IInv, AllGood
<1> HIDE DEF gone, cut
<1>6. \A o \in Oid : /\ Good(oid'[o]) /\ (oid'[o].down <=> oid[o].down)
                     /\ SetRefs(oid'[o]) = SetRefs(oid[o]) - gone(o)
  BY <1>4, <1>5
<1>7. Shapes' /\ AllGood'
  <2>1. oid' = [o \in Oid |-> oid'[o]]
    BY <1>1
  <2>2. \A s \in PingSet : set[s] \in Sets
    BY DEF IInv, Shapes
  <2>3. ASSUME NEW s \in PingSet
        PROVE  [timer |-> "fresh", pings |-> (set[s].pings + 1) % 3,
                members |-> set[s].members \ Stale(s)] \in Sets
    <3>1. set[s].pings \in Nat /\ set[s].members \subseteq Oid
      BY <2>2 DEF Sets
    <3>2. (set[s].pings + 1) % 3 \in 0..2
      BY <3>1
    <3> QED BY <3>1, <3>2 DEF Sets, Timers
  <2>4. set' \in [PingSet -> Sets]
    BY <1>1, <2>2, <2>3
  <2> QED BY <1>1, <1>6, <2>1, <2>4, OidsTyped DEF IInv, Shapes, AllGood
<1>8. RefsRight'
  <2> SUFFICES ASSUME NEW o \in Oid
               PROVE  SetRefs(oid'[o]) = Cardinality(Holders(o)')
    BY DEF RefsRight, SetRefs
  <2>1. SetRefs(oid[o]) = Cardinality(Holders(o))
    BY DEF IInv, RefsRight
  <2>2. Cardinality(Holders(o)') = Cardinality(Holders(o)) - gone(o)
    BY <1>3 DEF gone
  <2> QED BY <1>6, <2>1, <2>2
<1>9. TakenOnce'
  BY <1>1, <1>6, SameCalls DEF IInv, Has
<1> QED BY <1>7, <1>8, <1>9 DEF IInv

-----------------------------------------------------------------------------
(* Servers *)

\* Steps after which sets and calls hold what they held before.
LEMMA ServerStep ==
  ASSUME IInv, UNCHANGED <<set, call>>, NEW f, oid' = [o \in Oid |-> f[o]],
         \A o \in Oid : /\ Good(f[o]) /\ (f[o].down <=> oid[o].down)
                        /\ SetRefs(f[o]) = SetRefs(oid[o])
  PROVE  IInv'
<1>1. \A o \in Oid : /\ Good(oid'[o]) /\ (oid'[o].down <=> oid[o].down)
                     /\ SetRefs(oid'[o]) = SetRefs(oid[o])
  OBVIOUS
<1>2. Shapes' /\ AllGood'
  <2>1. oid' = [o \in Oid |-> oid'[o]]
    OBVIOUS
  <2> QED BY <1>1, <2>1, OidsTyped DEF IInv, Shapes, AllGood
<1>3. RefsRight'
  BY <1>1, SameHolders DEF IInv
<1>4. TakenOnce'
  BY <1>1, SameCalls DEF IInv, Has
<1> QED BY <1>2, <1>3, <1>4 DEF IInv

\* The creator's reference is released, and the OID listed.
LEMMA AllocateOidKeeps ==
  ASSUME IInv, NEW o \in Oid, AllocateOid(o)
  PROVE  IInv'
<1> DEFINE n == [NoOid EXCEPT !.alive = TRUE, !.refs = 1]
           f == [oid EXCEPT ![o] = Release(n, TRUE)]
<1>1. oid' = f /\ UNCHANGED <<set, call>> /\ ~ oid[o].alive
  BY DEF AllocateOid
<1>2. n \in OidObjects
  BY DEF NoOid, OidObjects, Timers
<1>3. /\ n.refs = 1 /\ n.timer = "out" /\ n.alive
      /\ ~ n.down /\ ~ n.freed /\ ~ n.pinned
  BY DEF NoOid
<1>4. /\ Good(Release(n, TRUE)) /\ SetRefs(Release(n, TRUE)) = 0
      /\ ~ Release(n, TRUE).down
  <2> HIDE DEF n
  <2>1. SetRefs(n) = 1
    BY <1>3 DEF SetRefs
  <2>2. Good(n)
    BY <1>2, <1>3 DEF Good
  <2>5. SetRefs(n) > 0
    BY <2>1
  <2> DEFINE m == Release(n, TRUE)
  <2>3. SetRefs(m) = SetRefs(n) - 1
    BY <2>2, <2>5, ReleaseGood, Zenon
  <2>4. Good(m) /\ (m.down <=> n.down)
    BY <2>2, <2>5, ReleaseGood, Zenon
  <2> HIDE DEF m
  <2>6. Good(m) /\ SetRefs(m) = 0 /\ ~ m.down
    BY <1>3, <2>1, <2>3, <2>4
  <2> QED BY <2>6 DEF m
<1>5. Good(oid[o]) /\ SetRefs(oid[o]) = 0 /\ ~ oid[o].down
  <2>1. Good(oid[o])
    BY DEF IInv, AllGood
  <2> QED BY <1>1, <2>1, GoodTypes DEF Good, SetRefs
<1> HIDE DEF n
<1>6. f = [p \in Oid |-> f[p]] /\ \A p \in Oid : f[p] = IF p = o THEN Release(n, TRUE) ELSE oid[p]
  BY DEF IInv, Shapes
<1> HIDE DEF f
<1>7. \A p \in Oid : /\ Good(f[p]) /\ (f[p].down <=> oid[p].down)
                     /\ SetRefs(f[p]) = SetRefs(oid[p])
  BY <1>4, <1>5, <1>6 DEF IInv, AllGood
<1> QED BY <1>1, <1>6, <1>7, ServerStep

\* FreeServerOids leaves an OID to the sets that hold it.
LEMMA FreeServerOidKeeps ==
  ASSUME IInv, NEW o \in Oid, FreeServerOid(o)
  PROVE  IInv'
<1> DEFINE f == [oid EXCEPT ![o] = Free(oid[o], TRUE)]
<1>1. oid' = f /\ UNCHANGED <<set, call>> /\ oid[o].alive /\ ~ oid[o].down
  BY DEF FreeServerOid, Commit
<1>2. /\ Good(Free(oid[o], TRUE)) /\ SetRefs(Free(oid[o], TRUE)) = SetRefs(oid[o])
      /\ ~ Free(oid[o], TRUE).down
  BY <1>1, FreeGood DEF IInv, AllGood
<1>3. f = [p \in Oid |-> f[p]] /\ \A p \in Oid : f[p] = IF p = o THEN Free(oid[o], TRUE) ELSE oid[p]
  BY DEF IInv, Shapes
<1> HIDE DEF f
<1>4. \A p \in Oid : /\ Good(f[p]) /\ (f[p].down <=> oid[p].down)
                     /\ SetRefs(f[p]) = SetRefs(oid[p])
  BY <1>1, <1>2, <1>3 DEF IInv, AllGood
<1> QED BY <1>1, <1>3, <1>4, ServerStep

\* One OID is unpinned or not.
LEMMA UnpinStep ==
  ASSUME AllGood, NEW o \in Oid, NEW running, NEW r,
         \/ oid[o].pinned /\ r = Unpin(oid[o], running)
         \/ r = oid[o]
  PROVE  /\ Good(r) /\ (r.down <=> oid[o].down) /\ SetRefs(r) = SetRefs(oid[o])
<1>1. Good(oid[o]) /\ (oid[o].pinned => ~ oid[o].down)
  BY DEF AllGood, Good
<1>2. CASE oid[o].pinned /\ r = Unpin(oid[o], running)
  BY <1>1, <1>2, UnpinGood
<1>3. CASE r = oid[o]
  BY <1>1, <1>3
<1> QED BY <1>2, <1>3

\* _BulkUpdateOIDs gives the pins back.
LEMMA UnpinOidsKeeps ==
  ASSUME IInv, NEW U, UnpinOids(U)
  PROVE  IInv'
<1> DEFINE hit == {o \in U : oid[o].alive /\ oid[o].pinned /\ oxid[OxidOf[o]].running}
           f == [o \in Oid |-> IF o \in hit THEN Unpin(oid[o], TRUE) ELSE oid[o]]
<1>1. oid' = f /\ UNCHANGED <<set, call>>
  BY DEF UnpinOids, Commit
<1>2. \A o \in Oid : \/ oid[o].pinned /\ f[o] = Unpin(oid[o], TRUE)
                     \/ f[o] = oid[o]
  OBVIOUS
<1>3. f = [o \in Oid |-> f[o]]
  OBVIOUS
<1> HIDE DEF f
<1>4. \A o \in Oid : /\ Good(f[o]) /\ (f[o].down <=> oid[o].down)
                     /\ SetRefs(f[o]) = SetRefs(oid[o])
  BY <1>2, UnpinStep DEF IInv
<1> QED BY <1>1, <1>3, <1>4, ServerStep

\* ScanForOrphanedPinnedOids, for one OID.
LEMMA OrphansGood ==
  ASSUME IInv, NEW X
  PROVE  \A o \in Oid :
           LET r == UnpinOrphans(oid, X)[o] IN
           /\ Good(r) /\ (r.down <=> oid[o].down) /\ SetRefs(r) = SetRefs(oid[o])
<1> TAKE o \in Oid
<1> DEFINE r == UnpinOrphans(oid, X)[o]
<1>1. \/ oid[o].pinned /\ r = Unpin(oid[o], FALSE)
      \/ r = oid[o]
  BY DEF UnpinOrphans
<1> HIDE DEF r
<1>2. /\ Good(r) /\ (r.down <=> oid[o].down) /\ SetRefs(r) = SetRefs(oid[o])
  BY <1>1, UnpinStep DEF IInv
<1> QED BY <1>2 DEF r

\* _ServerFreeOXIDAndOIDs deletes OIDs that no set holds.
LEMMA FreeOxidKeeps ==
  ASSUME IInv, NEW x \in Oxid, NEW F, FreeOxid(x, F)
  PROVE  IInv'
<1> DEFINE q == UnpinOrphans(oid, {x})
           freed == {o \in F : q[o].alive /\ ~ q[o].down /\ q[o].refs = 0}
           f == [o \in Oid |-> IF o \in freed THEN NoOid ELSE q[o]]
<1>1. oid' = f /\ UNCHANGED <<set, call>>
  BY DEF FreeOxid, Commit
<1>2. \A o \in Oid : /\ Good(q[o]) /\ (q[o].down <=> oid[o].down)
                     /\ SetRefs(q[o]) = SetRefs(oid[o])
  BY OrphansGood
<1>3. \A o \in Oid : \/ f[o] = q[o]
                     \/ f[o] = NoOid /\ ~ q[o].down /\ q[o].refs = 0
  OBVIOUS
<1>4. f = [o \in Oid |-> f[o]]
  OBVIOUS
<1> HIDE DEF f, q
<1>5. ASSUME NEW o \in Oid
      PROVE  /\ Good(f[o]) /\ (f[o].down <=> oid[o].down)
             /\ SetRefs(f[o]) = SetRefs(oid[o])
  <2>1. CASE f[o] = q[o]
    BY <1>2, <2>1
  <2>2. CASE f[o] = NoOid /\ ~ q[o].down /\ q[o].refs = 0
    <3>1. SetRefs(q[o]) = 0
      BY <1>2, <2>2, UnusedGood
    <3> QED BY <1>2, <2>2, <3>1, NoOidGood
  <2> QED BY <1>3, <2>1, <2>2
<1> QED BY <1>1, <1>4, <1>5, ServerStep

\* The death of a process deletes no OID that a set holds.
LEMMA ProcessRundownKeeps ==
  ASSUME IInv, NEW p \in Process, ProcessRundown(p)
  PROVE  IInv'
<1> DEFINE X == {x \in Oxid : ProcessOf[x] = p /\ oxid[x].running}
           f == UnpinOrphans(oid, X)
<1>1. oid' = f /\ UNCHANGED <<set, call>>
  BY DEF ProcessRundown, Commit
<1>2. f = [o \in Oid |-> f[o]]
  BY DEF UnpinOrphans
<1>3. \A o \in Oid : /\ Good(f[o]) /\ (f[o].down <=> oid[o].down)
                     /\ SetRefs(f[o]) = SetRefs(oid[o])
  BY OrphansGood
<1> HIDE DEF f
<1> QED BY <1>1, <1>2, <1>3, ServerStep

-----------------------------------------------------------------------------
(* Rundown calls *)

\* The fields of a call.
LEMMA CallTyped ==
  ASSUME IInv, NEW c \in Call
  PROVE  /\ call[c] \in Calls /\ call[c].at \in Stages /\ call[c].oids \subseteq Oid
         /\ call[c].oxid \in Oxid /\ call[c].helper \in BOOLEAN
         /\ call[c].answer \in [Oid -> {"ok", "keep", "pinned"}]
BY DEF IInv, Shapes, Calls

\* A free slot has no OIDs to settle.
LEMMA NoCallTyped == NoCall \in Calls /\ NoCall.at \notin Unsettled
<1>1. (CHOOSE x \in Oxid : TRUE) \in Oxid
  BY ServerOidAssumption
<1>2. AllAnswer("keep") \in [Oid -> {"ok", "keep", "pinned"}]
  BY DEF AllAnswer
<1> HIDE DEF AllAnswer
<1> QED BY <1>1, <1>2 DEF NoCall, Calls, Stages, Unsettled

\* A batch consists of listed OIDs.
LEMMA BatchListed ==
  ASSUME NEW x \in Oxid, NEW B \in Batches(x)
  PROVE  B \subseteq Oid /\ \A o \in B : oid[o].timer # "out"
BY DEF Batches, Eligible, OidsOf

\* A call takes a batch of OIDs.
LEMMA BatchTaken ==
  ASSUME IInv, NEW x \in Oxid, NEW B \in Batches(x), NEW c \in Call, call[c].at = "free",
         NEW k \in Calls, k.at = "sending", k.oids = B,
         oid' = [o \in Oid |-> IF o \in B THEN Taken(oid[o]) ELSE oid[o]],
         call' = [call EXCEPT ![c] = k], UNCHANGED set
  PROVE  IInv'
<1>1. B \subseteq Oid /\ \A o \in B : oid[o].timer # "out"
  BY BatchListed
<1>2. \A o \in B : ~ oid[o].down
  BY <1>1, GoodTypes DEF IInv, AllGood, Good
<1>3. ASSUME NEW o \in Oid
      PROVE  /\ Good(oid'[o]) /\ SetRefs(oid'[o]) = SetRefs(oid[o])
             /\ oid'[o].down <=> (oid[o].down \/ o \in B)
  <2>0. Good(oid[o])
    BY DEF IInv, AllGood
  <2>1. CASE o \in B
    <3>1. oid'[o] = Taken(oid[o])
      BY <2>1
    <3>2. Good(Taken(oid[o])) /\ SetRefs(Taken(oid[o])) = SetRefs(oid[o]) /\ Taken(oid[o]).down
      BY <1>1, <2>0, <2>1, TakenGood
    <3> QED BY <2>1, <3>1, <3>2
  <2>2. CASE o \notin B
    BY <2>0, <2>2
  <2> QED BY <2>1, <2>2
<1>4. Shapes' /\ AllGood'
  <2>1. oid' = [o \in Oid |-> oid'[o]]
    OBVIOUS
  <2>2. oid' \in [Oid -> OidObjects]
    BY <1>3, <2>1, OidsTyped
  <2>3. call' \in [Call -> Calls]
    BY DEF IInv, Shapes
  <2> QED BY <1>3, <2>2, <2>3 DEF IInv, Shapes, AllGood
<1>5. RefsRight'
  BY <1>3, SameHolders DEF IInv
<1>6. TakenOnce'
  <2>1. \A d \in Call, o \in Oid : Has(d, o)' <=> (d = c /\ o \in B) \/ (d # c /\ Has(d, o))
    BY DEF Has, Unsettled, IInv, Shapes
  <2> QED BY <1>2, <1>3, <2>1, CallTakes DEF IInv
<1> QED BY <1>4, <1>5, <1>6 DEF IInv

\* RundownOids sends a call, or settles the OIDs itself.
LEMMA StartKeeps ==
  ASSUME IInv, NEW x \in Oxid, NEW B \in Batches(x), NEW c \in Call, call[c].at = "free",
         NEW b, NEW helper \in BOOLEAN, StartRundown(x, B, c, b, helper), UNCHANGED set
  PROVE  IInv'
<1> DEFINE k == [at |-> "sending", oxid |-> x, oids |-> B,
                 answer |-> AllAnswer("keep"), helper |-> helper]
           answer == IF oxid[x].running THEN "keep" ELSE "ok"
           f == [o \in Oid |-> IF o \in B THEN Result(Taken(oid[o]), answer) ELSE oid[o]]
<1>1. CASE /\ oid' = [o \in Oid |-> IF o \in B THEN Taken(oid[o]) ELSE oid[o]]
           /\ call' = [call EXCEPT ![c] = k]
  <2>1. k \in Calls /\ k.at = "sending" /\ k.oids = B
    BY BatchListed DEF Calls, Stages, AllAnswer
  <2> HIDE DEF k
  <2> QED BY <1>1, <2>1, BatchTaken
<1>2. CASE oid' = f /\ UNCHANGED call
  <2>1. ASSUME NEW o \in Oid
        PROVE  /\ Good(f[o]) /\ (f[o].down <=> oid[o].down)
               /\ SetRefs(f[o]) = SetRefs(oid[o])
    <3>0. Good(oid[o])
      BY DEF IInv, AllGood
    <3>1. CASE o \in B
      <4>1. f[o] = Result(Taken(oid[o]), answer)
        BY <3>1
      <4>2. oid[o].timer # "out" /\ ~ oid[o].down
        BY <3>0, <3>1, BatchListed DEF Good
      <4>3. Good(Taken(oid[o])) /\ SetRefs(Taken(oid[o])) = SetRefs(oid[o]) /\ Taken(oid[o]).down
        BY <3>0, <4>2, TakenGood
      <4> HIDE DEF f, answer
      <4>4. /\ Good(f[o]) /\ SetRefs(f[o]) = SetRefs(Taken(oid[o])) /\ ~ f[o].down
        BY <4>1, <4>3, ResultGood
      <4> QED BY <4>2, <4>3, <4>4
    <3>2. CASE o \notin B
      BY <3>0, <3>2
    <3> QED BY <3>1, <3>2
  <2>2. oid' = [o \in Oid |-> f[o]]
    BY <1>2
  <2> HIDE DEF f
  <2> QED BY <1>2, <2>1, <2>2, ServerStep
<1> QED BY <1>1, <1>2 DEF StartRundown, Commit, Taken

\* A task thread and a helper thread start calls in the same way.
LEMMA TaskRundownKeeps ==
  ASSUME IInv, NEW x \in Oxid, NEW c \in Call, NEW B \in Batches(x),
         TaskRundown(x, B, c) \/ HelperRundown(x, B, c)
  PROVE  IInv'
BY StartKeeps DEF TaskRundown, HelperRundown

\* A call goes on without settling its OIDs.
LEMMA CallMoves ==
  ASSUME IInv, NEW c \in Call, NEW k \in Calls,
         UNCHANGED <<oid, set>>, call' = [call EXCEPT ![c] = k],
         k.at \in Unsettled <=> call[c].at \in Unsettled,
         k.at \in Unsettled => k.oids = call[c].oids
  PROVE  IInv'
<1>1. \A d \in Call : call'[d] = IF d = c THEN k ELSE call[d]
  BY DEF IInv, Shapes
<1>2. call' \in [Call -> Calls]
  BY DEF IInv, Shapes
<1>3. \A d \in Call, o \in Oid : Has(d, o)' <=> Has(d, o)
  BY <1>1 DEF Has
<1>4. TakenOnce'
  BY <1>3, SameCalls DEF IInv
<1>5. RefsRight'
  BY SameHolders DEF IInv
<1> QED BY <1>2, <1>4, <1>5 DEF IInv, Shapes, AllGood

\* The next stage of a call.
LEMMA ToKeeps ==
  ASSUME IInv, NEW c \in Call, NEW stage \in Stages,
         UNCHANGED <<oid, set>>, To(c, stage),
         stage \in Unsettled <=> call[c].at \in Unsettled
  PROVE  IInv'
<1> DEFINE k == [call[c] EXCEPT !.at = stage]
<1>1. k \in Calls /\ k.at = stage /\ k.oids = call[c].oids
  BY CallTyped DEF Calls
<1>2. call' = [call EXCEPT ![c] = k]
  BY DEF To
<1> HIDE DEF k
<1> QED BY <1>1, <1>2, CallMoves

\* The stages before and after the OIDs are settled.
LEMMA StagesKeep ==
  ASSUME IInv, NEW c \in Call,
         \/ TakeReferences(c) \/ NoMemory(c) \/ IssueFails(c)
         \/ Returned(c) \/ CheckForMore(c) \/ ReleaseRundownHandle(c)
  PROVE  IInv'
<1>1. ASSUME TakeReferences(c) PROVE IInv'
  BY <1>1, ToKeeps DEF TakeReferences, Stages, Unsettled
<1>2. ASSUME NoMemory(c) PROVE IInv'
  BY <1>2, ToKeeps DEF NoMemory, Stages, Unsettled
<1>3. ASSUME IssueFails(c) PROVE IInv'
  BY <1>3, ToKeeps DEF IssueFails, Commit, Stages, Unsettled
<1>4. ASSUME Returned(c) PROVE IInv'
  BY <1>4, ToKeeps DEF Returned, Stages, Unsettled
<1>5. ASSUME CheckForMore(c) PROVE IInv'
  BY <1>5, ToKeeps DEF CheckForMore, Stages, Unsettled
<1>6. ASSUME ReleaseRundownHandle(c) PROVE IInv'
  BY <1>6, ToKeeps DEF ReleaseRundownHandle, Stages, Unsettled
<1> QED BY <1>1, <1>2, <1>3, <1>4, <1>5, <1>6

\* The call goes out.
LEMMA IssueKeeps ==
  ASSUME IInv, NEW c \in Call, Issue(c)
  PROVE  IInv'
<1> DEFINE k == [call[c] EXCEPT !.at = "out", !.helper = FALSE]
<1>1. k \in Calls /\ k.at = "out" /\ k.oids = call[c].oids
  BY CallTyped DEF Calls, Stages
<1>2. call' = [call EXCEPT ![c] = k] /\ UNCHANGED <<oid, set>>
  BY DEF Issue, IInv, Shapes
<1>3. call[c].at \in Unsettled /\ "out" \in Unsettled
  BY DEF Issue, Unsettled
<1> HIDE DEF k
<1> QED BY <1>1, <1>2, <1>3, CallMoves

\* An answer comes in; the OIDs are not looked at before the lock is taken.
LEMMA AnswersKeep ==
  ASSUME IInv, NEW c \in Call, NEW stage \in {"replying", "answered"},
         NEW answer \in [Oid -> {"ok", "keep", "pinned"}],
         call[c].at \in {"out", "replying"}, UNCHANGED <<oid, set>>,
         call' = [call EXCEPT ![c].at = stage, ![c].answer = answer]
  PROVE  IInv'
<1> DEFINE k == [call[c] EXCEPT !.at = stage, !.answer = answer]
<1>1. k \in Calls /\ k.at = stage /\ k.oids = call[c].oids
  BY CallTyped DEF Calls, Stages
<1>2. call' = [call EXCEPT ![c] = k]
  BY DEF IInv, Shapes
<1>3. call[c].at \in Unsettled /\ stage \in Unsettled
  BY DEF Unsettled
<1> HIDE DEF k
<1> QED BY <1>1, <1>2, <1>3, CallMoves

\* The server answers ...
LEMMA ServerAnswersKeeps ==
  ASSUME IInv, NEW c \in Call, NEW a \in [Oid -> Answers], ServerAnswers(c, a)
  PROVE  IInv'
<1> DEFINE answer == [o \in Oid |-> IF o \in call[c].oids THEN a[o] ELSE "keep"]
<1>1. answer \in [Oid -> {"ok", "keep", "pinned"}]
  BY ServerOidAssumption
<1>2. /\ call' = [call EXCEPT ![c].at = "replying", ![c].answer = answer]
      /\ call[c].at \in {"out", "replying"} /\ UNCHANGED <<oid, set>>
  BY DEF ServerAnswers
<1> HIDE DEF answer
<1> QED BY <1>1, <1>2, AnswersKeep

\* ... or the call fails.
LEMMA ReturnedErrorKeeps ==
  ASSUME IInv, NEW c \in Call, ReturnedError(c)
  PROVE  IInv'
<1>1. PICK v \in {"ok", "keep"} :
        call' = [call EXCEPT ![c].at = "answered", ![c].answer = AllAnswer(v)]
  BY DEF ReturnedError
<1> DEFINE answer == AllAnswer(v)
<1>2. answer \in [Oid -> {"ok", "keep", "pinned"}]
  BY DEF AllAnswer
<1> HIDE DEF answer
<1>3. /\ call' = [call EXCEPT ![c].at = "answered", ![c].answer = answer]
      /\ call[c].at \in {"out", "replying"} /\ UNCHANGED <<oid, set>>
  BY <1>1 DEF ReturnedError, answer
<1> QED BY <1>2, <1>3, AnswersKeep

\* A call that ends has settled its OIDs.
LEMMA DropReferencesKeeps ==
  ASSUME IInv, NEW c \in Call, DropReferences(c)
  PROVE  IInv'
<1>1. /\ call' = [call EXCEPT ![c] = NoCall] /\ UNCHANGED <<oid, set>>
      /\ call[c].at \notin Unsettled
  BY DEF DropReferences, Commit, Unsettled
<1> QED BY <1>1, NoCallTyped, CallMoves

\* A call settles its OIDs: those that a set took meanwhile stay.
LEMMA Settled ==
  ASSUME IInv, NEW c \in Call, call[c].at \in Unsettled,
         NEW k \in Calls, k.at \notin Unsettled,
         call' = [call EXCEPT ![c] = k], UNCHANGED set, NEW answer,
         oid' = [o \in Oid |-> IF o \in call[c].oids THEN Result(oid[o], answer[o]) ELSE oid[o]]
  PROVE  IInv'
<1>1. \A o \in call[c].oids : o \in Oid /\ oid[o].down
  BY CallTyped DEF IInv, TakenOnce, Has
<1>2. ASSUME NEW o \in Oid
      PROVE  /\ Good(oid'[o]) /\ SetRefs(oid'[o]) = SetRefs(oid[o])
             /\ oid'[o].down <=> (oid[o].down /\ o \notin call[c].oids)
  <2>0. Good(oid[o])
    BY DEF IInv, AllGood
  <2>1. CASE o \in call[c].oids
    <3>1. oid'[o] = Result(oid[o], answer[o])
      BY <2>1
    <3>2. /\ Good(Result(oid[o], answer[o]))
          /\ SetRefs(Result(oid[o], answer[o])) = SetRefs(oid[o])
          /\ ~ Result(oid[o], answer[o]).down
      BY <1>1, <2>0, <2>1, ResultGood
    <3> QED BY <2>1, <3>1, <3>2
  <2>2. CASE o \notin call[c].oids
    BY <2>0, <2>2
  <2> QED BY <2>1, <2>2
<1>3. Shapes' /\ AllGood'
  <2>1. oid' = [o \in Oid |-> oid'[o]]
    OBVIOUS
  <2>2. oid' \in [Oid -> OidObjects]
    BY <1>2, <2>1, OidsTyped
  <2>3. call' \in [Call -> Calls]
    BY DEF IInv, Shapes
  <2> QED BY <1>2, <2>2, <2>3 DEF IInv, Shapes, AllGood
<1>4. RefsRight'
  BY <1>2, SameHolders DEF IInv
<1>5. TakenOnce'
  <2>1. \A d \in Call, o \in Oid : Has(d, o)' <=> d # c /\ Has(d, o)
    BY DEF Has, IInv, Shapes
  <2> QED BY <1>2, <2>1, CallSettles DEF IInv
<1> QED BY <1>3, <1>4, <1>5 DEF IInv

\* The OIDs of a call that was not sent wait again or are deleted.
LEMMA CallFailedKeeps ==
  ASSUME IInv, NEW c \in Call, CallFailed(c)
  PROVE  IInv'
<1> DEFINE v == IF oxid[call[c].oxid].running THEN "keep" ELSE "ok"
           answer == AllAnswer(v)
<1>1. /\ oid' = [o \in Oid |-> IF o \in call[c].oids THEN Result(oid[o], answer[o]) ELSE oid[o]]
      /\ call' = [call EXCEPT ![c] = NoCall] /\ UNCHANGED set
      /\ call[c].at \in Unsettled
  BY DEF CallFailed, Commit, Unsettled, AllAnswer
<1> HIDE DEF answer
<1> QED BY <1>1, NoCallTyped, Settled

\* ProcessRundownResults: each OID has its own answer.
LEMMA ProcessResultsKeeps ==
  ASSUME IInv, NEW c \in Call, ProcessResults(c)
  PROVE  IInv'
<1> DEFINE answer == call[c].answer
           k == [call[c] EXCEPT !.at = "check", !.oids = {}, !.answer = AllAnswer("keep")]
<1>1. /\ oid' = [o \in Oid |-> IF o \in call[c].oids THEN Result(oid[o], answer[o]) ELSE oid[o]]
      /\ UNCHANGED set /\ call[c].at \in Unsettled
  BY DEF ProcessResults, Commit, Unsettled
<1>2. call' = [call EXCEPT ![c] = k]
  BY DEF ProcessResults, IInv, Shapes
<1>3. AllAnswer("keep") \in [Oid -> {"ok", "keep", "pinned"}]
  BY DEF AllAnswer
<1>4. k \in Calls /\ k.at \notin Unsettled
  BY <1>3, CallTyped DEF Calls, Stages, Unsettled
<1> HIDE DEF answer, k
<1> QED BY <1>1, <1>2, <1>4, Settled

-----------------------------------------------------------------------------
(* Time, and the steps that touch no OID *)

\* The timeout of an OID expires.
LEMMA OidDueKeeps ==
  ASSUME IInv, NEW o \in Oid, OidDue(o)
  PROVE  IInv'
<1> DEFINE r == [oid[o] EXCEPT !.timer = Later]
           f == [oid EXCEPT ![o] = r]
<1>1. oid' = f /\ UNCHANGED <<set, call>> /\ oid[o].timer = "fresh"
  BY DEF OidDue
<1>2. Good(oid[o])
  BY DEF IInv, AllGood
<1>3. Later \in Timers /\ Later # "out"
  BY DEF Later, Timers
<1>4. Good(r) /\ (r.down <=> oid[o].down) /\ SetRefs(r) = SetRefs(oid[o])
  <2>1. r \in OidObjects
    BY <1>2, <1>3, GoodTypes DEF OidObjects
  <2>2. r.timer = Later /\ r.refs = oid[o].refs
    BY <1>2, GoodTypes DEF OidObjects
  <2>3. /\ (r.alive <=> oid[o].alive) /\ (r.down <=> oid[o].down)
        /\ (r.freed <=> oid[o].freed) /\ (r.pinned <=> oid[o].pinned)
    BY <1>2, GoodTypes DEF OidObjects
  <2> HIDE DEF r
  <2>4. Good(r)
    BY <1>1, <1>2, <1>3, <2>1, <2>2, <2>3 DEF Good
  <2>5. SetRefs(r) = SetRefs(oid[o])
    BY <2>2, <2>3 DEF SetRefs
  <2> QED BY <2>3, <2>4, <2>5
<1> HIDE DEF r
<1>5. f = [p \in Oid |-> f[p]] /\ \A p \in Oid : f[p] = IF p = o THEN r ELSE oid[p]
  BY DEF IInv, Shapes
<1> HIDE DEF f
<1>6. \A p \in Oid : /\ Good(f[p]) /\ (f[p].down <=> oid[p].down)
                     /\ SetRefs(f[p]) = SetRefs(oid[p])
  BY <1>4, <1>5 DEF IInv, AllGood
<1> QED BY <1>1, <1>5, <1>6, ServerStep

\* All listed OIDs stay in the list with a new timeout.
LEMMA ResetAllOidTimeoutsKeeps ==
  ASSUME IInv, ResetAllOidTimeouts
  PROVE  IInv'
<1> DEFINE f == [o \in Oid |-> IF oid[o].timer = "out" THEN oid[o]
                               ELSE [oid[o] EXCEPT !.timer = "fresh"]]
<1>1. oid' = f /\ UNCHANGED <<set, call>>
  BY DEF ResetAllOidTimeouts
<1>2. ASSUME NEW o \in Oid
      PROVE  /\ Good(f[o]) /\ (f[o].down <=> oid[o].down)
             /\ SetRefs(f[o]) = SetRefs(oid[o])
  <2>0. Good(oid[o])
    BY DEF IInv, AllGood
  <2>1. CASE oid[o].timer = "out"
    BY <2>0, <2>1
  <2>2. CASE oid[o].timer # "out"
    <3> DEFINE r == [oid[o] EXCEPT !.timer = "fresh"]
    <3>0. f[o] = r
      BY <2>2
    <3>1. r \in OidObjects
      BY <2>0, GoodTypes DEF OidObjects, Timers
    <3>2. r.timer = "fresh" /\ r.refs = oid[o].refs
      BY <2>0, GoodTypes DEF OidObjects
    <3>3. /\ (r.alive <=> oid[o].alive) /\ (r.down <=> oid[o].down)
          /\ (r.freed <=> oid[o].freed) /\ (r.pinned <=> oid[o].pinned)
      BY <2>0, GoodTypes DEF OidObjects
    <3> HIDE DEF r
    <3>4. Good(r)
      BY <2>0, <2>2, <3>1, <3>2, <3>3 DEF Good
    <3>5. SetRefs(r) = SetRefs(oid[o])
      BY <3>2, <3>3 DEF SetRefs
    <3> QED BY <3>0, <3>3, <3>4, <3>5
  <2> QED BY <2>1, <2>2
<1>3. oid' = [o \in Oid |-> f[o]]
  BY <1>1
<1> HIDE DEF f
<1> QED BY <1>1, <1>2, <1>3, ServerStep

\* The timeout of a set expires.
LEMMA SetDueKeeps ==
  ASSUME IInv, NEW s \in PingSet, SetDue(s)
  PROVE  IInv'
<1>1. set' = [set EXCEPT ![s] = [set[s] EXCEPT !.timer = Later]] /\ UNCHANGED <<oid, call>>
  BY DEF SetDue
<1>2. /\ [set[s] EXCEPT !.timer = Later] \in Sets
      /\ [set[s] EXCEPT !.timer = Later].members = set[s].members
  BY DEF IInv, Shapes, Sets, Later, Timers
<1>3. /\ set' \in [PingSet -> Sets]
      /\ \A t \in PingSet : set'[t].members = set[t].members
  BY <1>1, <1>2 DEF IInv, Shapes
<1>4. RefsRight'
  BY <1>1, <1>3, SameHolders DEF IInv
<1>5. TakenOnce'
  BY <1>1, SameCalls DEF IInv, Has
<1> QED BY <1>1, <1>3, <1>4, <1>5 DEF IInv, Shapes, AllGood

\* Steps that touch no OID, set or call.
LEMMA NothingTouched ==
  ASSUME IInv, UNCHANGED <<oid, set, call>>
  PROVE  IInv'
<1>1. Shapes' /\ AllGood'
  BY DEF IInv, Shapes, AllGood
<1>2. RefsRight'
  BY SameHolders DEF IInv
<1>3. TakenOnce'
  BY SameCalls DEF IInv, Has
<1> QED BY <1>1, <1>2, <1>3 DEF IInv

-----------------------------------------------------------------------------
(* The theorems *)

\* Nothing is registered at first.
LEMMA InitIInv == Init => IInv
<1> SUFFICES ASSUME Init PROVE IInv
  OBVIOUS
<1>1. Shapes
  <2>1. NoOid \in OidObjects /\ NoSet \in Sets /\ NoCall \in Calls
    BY NoOidGood, NoCallTyped DEF Good, NoSet, Sets, Timers
  <2> QED BY <2>1 DEF Init, Shapes
<1>2. AllGood
  BY NoOidGood DEF Init, AllGood
<1>3. RefsRight
  <2> SUFFICES ASSUME NEW o \in Oid PROVE SetRefs(oid[o]) = Cardinality(Holders(o))
    BY DEF RefsRight
  <2>1. Holders(o) = {}
    BY DEF Init, Holders, NoSet
  <2>2. SetRefs(oid[o]) = 0
    BY NoOidGood DEF Init
  <2> QED BY <2>1, <2>2, FS_EmptySet
<1>4. TakenOnce
  <2>1. \A c \in Call, o \in Oid : ~ Has(c, o)
    BY NoCallTyped DEF Init, Has
  <2>2. \A o \in Oid : ~ oid[o].down
    BY NoOidGood DEF Init
  <2> QED BY <2>1, <2>2 DEF TakenOnce
<1> QED BY <1>1, <1>2, <1>3, <1>4 DEF IInv

\* The calls of servers.
LEMMA ServerKeeps ==
  ASSUME IInv, Server
  PROVE  IInv'
<1>1. ASSUME NEW p \in Process, Connect(p) PROVE IInv'
  BY <1>1, NothingTouched DEF Connect
<1>2. ASSUME NEW p \in Process, ProcessRundown(p) PROVE IInv'
  BY <1>2, ProcessRundownKeeps
<1>3. ASSUME NEW x \in Oxid, AllocateOxid(x) PROVE IInv'
  BY <1>3, NothingTouched DEF AllocateOxid
<1>4. ASSUME NEW x \in Oxid, NEW F \in SUBSET OidsOf(x), FreeOxid(x, F) PROVE IInv'
  BY <1>4, FreeOxidKeeps
<1>5. ASSUME NEW x \in Oxid, BeginUseProtseq(x) \/ EndUseProtseq(x) PROVE IInv'
  BY <1>5, NothingTouched DEF BeginUseProtseq, EndUseProtseq, Commit
<1>6. ASSUME NEW o \in Oid, AllocateOid(o) PROVE IInv'
  BY <1>6, AllocateOidKeeps
<1>7. ASSUME NEW o \in Oid, FreeServerOid(o) PROVE IInv'
  BY <1>7, FreeServerOidKeeps
<1>8. ASSUME NEW U \in SUBSET Oid, UnpinOids(U) PROVE IInv'
  BY <1>8, UnpinOidsKeeps
<1> QED BY <1>1, <1>2, <1>3, <1>4, <1>5, <1>6, <1>7, <1>8 DEF Server

\* What clients do.
LEMMA ClientSteps ==
  ASSUME Client
  PROVE  \E s \in PingSet :
           \/ SimplePing(s) \/ RundownSet(s)
           \/ \E A, D \in SUBSET Oid : ComplexPing(s, A, D)
<1>1. SUBSET Registered \subseteq SUBSET Oid /\ \A s : SUBSET Missing(s) \subseteq SUBSET Oid
  BY DEF Missing, Registered
<1> QED BY <1>1 DEF Client

\* The pings of clients, and the end of their sets.
LEMMA ClientKeeps ==
  ASSUME IInv, Client
  PROVE  IInv'
BY ClientSteps, SimplePingKeeps, RundownSetKeeps, ComplexPingKeeps

\* The steps of rundown calls.
LEMMA RundownKeeps ==
  ASSUME IInv, Rundown
  PROVE  IInv'
<1>1. ASSUME NEW x \in Oxid, NEW c \in Call, NEW B \in Batches(x),
             TaskRundown(x, B, c) \/ HelperRundown(x, B, c)
      PROVE  IInv'
  BY <1>1, TaskRundownKeeps
<1>2. ASSUME NEW x \in Oxid, HelperIdle(x) \/ HelperDone(x) PROVE IInv'
  BY <1>2, NothingTouched DEF HelperIdle, HelperDone, Commit
<1>3. ASSUME NEW c \in Call,
             \/ TakeReferences(c) \/ NoMemory(c) \/ IssueFails(c)
             \/ Returned(c) \/ CheckForMore(c) \/ ReleaseRundownHandle(c)
      PROVE  IInv'
  BY <1>3, StagesKeep
<1>4. ASSUME NEW c \in Call,
             \/ Issue(c) \/ CallFailed(c) \/ ReturnedError(c)
             \/ ProcessResults(c) \/ DropReferences(c)
      PROVE  IInv'
  BY <1>4, IssueKeeps, CallFailedKeeps, ReturnedErrorKeeps, ProcessResultsKeeps,
     DropReferencesKeeps
<1>5. ASSUME NEW c \in Call, NEW a \in [Oid -> Answers], ServerAnswers(c, a) PROVE IInv'
  BY <1>5, ServerAnswersKeeps
<1> QED BY <1>1, <1>2, <1>3, <1>4, <1>5 DEF Rundown

\* Time and power.
LEMMA EnvironmentKeeps ==
  ASSUME IInv, Environment
  PROVE  IInv'
<1>1. ASSUME Suspend \/ CriticalSleep \/ Resume PROVE IInv'
  BY <1>1, NothingTouched DEF Suspend, CriticalSleep, Resume
<1> QED BY <1>1, OidDueKeeps, SetDueKeeps, PingAllSetsKeeps, ResetAllOidTimeoutsKeeps
        DEF Environment

\* The inductive invariant, of every step.
THEOREM IInvHolds == Spec => []IInv
<1>1. IInv /\ [Next]_vars => IInv'
  <2>1. CASE Next
    BY <2>1, ServerKeeps, ClientKeeps, RundownKeeps, EnvironmentKeeps DEF Next
  <2>2. CASE UNCHANGED vars
    BY <2>2, NothingTouched DEF vars
  <2> QED BY <2>1, <2>2
<1> QED BY <1>1, InitIInv, PTL DEF Spec

\* For any number of OIDs, sets and calls: an OID counts exactly the sets that
\* hold it and its pin, through every interleaving of pings, rundowns and
\* results (CServerOid::Reference and Release, ProcessRundownResultsInternal).
THEOREM RefsExactHolds == Spec => []RefsExact
<1>1. IInv => RefsExact
  <2> SUFFICES ASSUME IInv, NEW o \in Oid
               PROVE  /\ oid[o].refs = Cardinality({s \in PingSet : o \in set[s].members})
                                         + (IF oid[o].pinned THEN 1 ELSE 0)
                      /\ oid[o].refs > 0 => oid[o].alive
    BY DEF RefsExact
  <2>1. Good(oid[o]) /\ SetRefs(oid[o]) = Cardinality(Holders(o))
    BY DEF IInv, AllGood, RefsRight
  <2>2. Cardinality(Holders(o)) = Cardinality({s \in PingSet : o \in set[s].members})
    BY DEF Holders
  <2>3. oid[o].refs \in Nat
    BY <2>1, GoodTypes
  <2>4. oid[o].refs = SetRefs(oid[o]) + (IF oid[o].pinned THEN 1 ELSE 0)
    BY <2>3 DEF SetRefs
  <2>5. oid[o].refs > 0 => oid[o].alive
    BY <2>1 DEF Good
  <2> QED BY <2>1, <2>2, <2>4, <2>5
<1> QED BY <1>1, IInvHolds, PTL

\* For any number of OIDs, sets and calls: an OID is in gpServerOidPList
\* exactly when no one refers to it and no call has it, which is what
\* KeepAlive, RundownOidsHelper and SetRundown assert.
THEOREM ListedExactlyHolds == Spec => []ListedExactly
<1>1. IInv => ListedExactly
  BY DEF IInv, AllGood, Good, ListedExactly
<1> QED BY <1>1, IInvHolds, PTL

-----------------------------------------------------------------------------
(* What an OXID and a process count.  IInv is taken for granted before and  *)
(* after a step.  A step is then a change of a few weights: what one call,  *)
(* one OXID and one process contribute to the counts.                       *)


\* What is counted.
Alive(x) == {o \in OidsOf(x) : oid[o].alive}
Refers(x) == {c \in Call : call[c].at \in Referring /\ call[c].oxid = x}
Helping(x) == {c \in Call : call[c].helper /\ call[c].oxid = x}
Active(x) == {c \in Call : call[c].at \in Unsettled /\ call[c].oxid = x}
Dependents(p) == {x \in Oxid : ProcessOf[x] = p /\ Exists(x)}
Callers(p) == {c \in Call : call[c].at \in Referring /\ ProcessOf[call[c].oxid] = p}

\* What one call contributes to those counts.
RefW(k, x) == IF k.at \in Referring /\ k.oxid = x THEN 1 ELSE 0
HelpW(k, x) == IF k.helper /\ k.oxid = x THEN 1 ELSE 0
ActW(k, x) == IF k.at \in Unsettled /\ k.oxid = x THEN 1 ELSE 0
CallerW(k, p) == IF k.at \in Referring /\ ProcessOf[k.oxid] = p THEN 1 ELSE 0

\* What an OXID and a process record of themselves.
RunW(r) == (IF r.running THEN 1 ELSE 0) + r.items + r.leaving + r.guests
UpW(d) == IF d.up THEN 1 ELSE 0

OxidsCounted ==
  \A x \in Oxid :
    oxid[x].refs = RunW(oxid[x]) + Cardinality(Alive(x)) + Cardinality(Refers(x))
                   + Cardinality(Helping(x))

ProcsCounted ==
  \A p \in Process :
    proc[p].refs = UpW(proc[p]) + Cardinality(Dependents(p)) + Cardinality(Callers(p))

Typed == oxid \in [Oxid -> OxidObjects] /\ proc \in [Process -> Processes]

Lives == Typed /\ OxidsCounted /\ ProcsCounted

\* In the middle of a step a count may be any number.
OxidInts == [running : BOOLEAN, refs : Int, calls : Nat, handle : BOOLEAN,
             items : Nat, leaving : Nat, guests : Nat]
ProcInts == [up : BOOLEAN, refs : Int]

-----------------------------------------------------------------------------
(* Counting *)

\* All of them can be counted.
LEMMA Countable ==
  ASSUME NEW x, NEW p
  PROVE  /\ IsFiniteSet(Alive(x)) /\ Cardinality(Alive(x)) \in Nat
         /\ IsFiniteSet(Refers(x)) /\ Cardinality(Refers(x)) \in Nat
         /\ IsFiniteSet(Helping(x)) /\ Cardinality(Helping(x)) \in Nat
         /\ IsFiniteSet(Active(x)) /\ Cardinality(Active(x)) \in Nat
         /\ IsFiniteSet(Dependents(p)) /\ Cardinality(Dependents(p)) \in Nat
         /\ IsFiniteSet(Callers(p)) /\ Cardinality(Callers(p)) \in Nat
<1>1. IsFiniteSet(Oid) /\ IsFiniteSet(Oxid) /\ IsFiniteSet(Call)
  BY ServerOidAssumption
<1>2. Alive(x) \in SUBSET Oid /\ Dependents(p) \in SUBSET Oxid
  BY DEF Alive, OidsOf, Dependents
<1>3. /\ Refers(x) \in SUBSET Call /\ Helping(x) \in SUBSET Call
      /\ Active(x) \in SUBSET Call /\ Callers(p) \in SUBSET Call
  BY DEF Refers, Helping, Active, Callers
<1>4. /\ IsFiniteSet(Alive(x)) /\ IsFiniteSet(Dependents(p)) /\ IsFiniteSet(Refers(x))
      /\ IsFiniteSet(Helping(x)) /\ IsFiniteSet(Active(x)) /\ IsFiniteSet(Callers(p))
  BY <1>1, <1>2, <1>3, FS_Subset
<1> QED BY <1>4, FS_CardinalityType

\* The same after a step.
LEMMA CountableNext ==
  ASSUME NEW x, NEW p
  PROVE  /\ IsFiniteSet(Alive(x)') /\ Cardinality(Alive(x)') \in Nat
         /\ IsFiniteSet(Refers(x)') /\ Cardinality(Refers(x)') \in Nat
         /\ IsFiniteSet(Helping(x)') /\ Cardinality(Helping(x)') \in Nat
         /\ IsFiniteSet(Active(x)') /\ Cardinality(Active(x)') \in Nat
         /\ IsFiniteSet(Dependents(p)') /\ Cardinality(Dependents(p)') \in Nat
         /\ IsFiniteSet(Callers(p)') /\ Cardinality(Callers(p)') \in Nat
<1>1. IsFiniteSet(Oid) /\ IsFiniteSet(Oxid) /\ IsFiniteSet(Call)
  BY ServerOidAssumption
<1>2. Alive(x)' \in SUBSET Oid /\ Dependents(p)' \in SUBSET Oxid
  BY DEF Alive, OidsOf, Dependents
<1>3. /\ Refers(x)' \in SUBSET Call /\ Helping(x)' \in SUBSET Call
      /\ Active(x)' \in SUBSET Call /\ Callers(p)' \in SUBSET Call
  BY DEF Refers, Helping, Active, Callers
<1>4. /\ IsFiniteSet(Alive(x)') /\ IsFiniteSet(Dependents(p)') /\ IsFiniteSet(Refers(x)')
      /\ IsFiniteSet(Helping(x)') /\ IsFiniteSet(Active(x)') /\ IsFiniteSet(Callers(p)')
  BY <1>1, <1>2, <1>3, FS_Subset
<1> QED BY <1>4, FS_CardinalityType

\* Two finite sets that differ in one element at most.
LEMMA OneElement ==
  ASSUME NEW S, NEW T, NEW e, IsFiniteSet(S), IsFiniteSet(T), S \ {e} = T \ {e}
  PROVE  Cardinality(T) = Cardinality(S) - (IF e \in S THEN 1 ELSE 0) + (IF e \in T THEN 1 ELSE 0)
<1>1. Cardinality(S) \in Nat /\ Cardinality(T) \in Nat
  BY FS_CardinalityType
<1>2. Cardinality(S \ {e}) = IF e \in S THEN Cardinality(S) - 1 ELSE Cardinality(S)
  BY FS_RemoveElement
<1>3. Cardinality(T \ {e}) = IF e \in T THEN Cardinality(T) - 1 ELSE Cardinality(T)
  BY FS_RemoveElement
<1> QED BY <1>1, <1>2, <1>3

\* One call changes.
LEMMA CallWeights ==
  ASSUME Shapes, NEW c \in Call, NEW k \in Calls, call' = [call EXCEPT ![c] = k],
         NEW x, NEW p
  PROVE  /\ Cardinality(Refers(x)') = Cardinality(Refers(x)) - RefW(call[c], x) + RefW(k, x)
         /\ Cardinality(Helping(x)') = Cardinality(Helping(x)) - HelpW(call[c], x) + HelpW(k, x)
         /\ Cardinality(Active(x)') = Cardinality(Active(x)) - ActW(call[c], x) + ActW(k, x)
         /\ Cardinality(Callers(p)') = Cardinality(Callers(p)) - CallerW(call[c], p) + CallerW(k, p)
<1>1. /\ call'[c] = k /\ call[c] = call[c]
      /\ \A d \in Call : d # c => call'[d] = call[d]
  BY DEF Shapes
<1>2. Cardinality(Refers(x)') = Cardinality(Refers(x)) - RefW(call[c], x) + RefW(k, x)
  <2>1. Refers(x) \ {c} = Refers(x)' \ {c}
    BY <1>1 DEF Refers
  <2>2. c \in Refers(x) <=> call[c].at \in Referring /\ call[c].oxid = x
    BY DEF Refers
  <2>3. c \in Refers(x)' <=> k.at \in Referring /\ k.oxid = x
    BY <1>1 DEF Refers
  <2>4. Cardinality(Refers(x)') = Cardinality(Refers(x)) - (IF c \in Refers(x) THEN 1 ELSE 0)
                                  + (IF c \in Refers(x)' THEN 1 ELSE 0)
    BY <2>1, Countable, CountableNext, OneElement
  <2> QED BY <2>2, <2>3, <2>4 DEF RefW
<1>3. Cardinality(Helping(x)') = Cardinality(Helping(x)) - HelpW(call[c], x) + HelpW(k, x)
  <2>1. Helping(x) \ {c} = Helping(x)' \ {c}
    BY <1>1 DEF Helping
  <2>2. c \in Helping(x) <=> call[c].helper /\ call[c].oxid = x
    BY DEF Helping
  <2>3. c \in Helping(x)' <=> k.helper /\ k.oxid = x
    BY <1>1 DEF Helping
  <2>4. Cardinality(Helping(x)') = Cardinality(Helping(x)) - (IF c \in Helping(x) THEN 1 ELSE 0)
                                  + (IF c \in Helping(x)' THEN 1 ELSE 0)
    BY <2>1, Countable, CountableNext, OneElement
  <2> QED BY <2>2, <2>3, <2>4 DEF HelpW
<1>4. Cardinality(Active(x)') = Cardinality(Active(x)) - ActW(call[c], x) + ActW(k, x)
  <2>1. Active(x) \ {c} = Active(x)' \ {c}
    BY <1>1 DEF Active
  <2>2. c \in Active(x) <=> call[c].at \in Unsettled /\ call[c].oxid = x
    BY DEF Active
  <2>3. c \in Active(x)' <=> k.at \in Unsettled /\ k.oxid = x
    BY <1>1 DEF Active
  <2>4. Cardinality(Active(x)') = Cardinality(Active(x)) - (IF c \in Active(x) THEN 1 ELSE 0)
                                  + (IF c \in Active(x)' THEN 1 ELSE 0)
    BY <2>1, Countable, CountableNext, OneElement
  <2> QED BY <2>2, <2>3, <2>4 DEF ActW
<1>5. Cardinality(Callers(p)') = Cardinality(Callers(p)) - CallerW(call[c], p) + CallerW(k, p)
  <2>1. Callers(p) \ {c} = Callers(p)' \ {c}
    BY <1>1 DEF Callers
  <2>2. c \in Callers(p) <=> call[c].at \in Referring /\ ProcessOf[call[c].oxid] = p
    BY DEF Callers
  <2>3. c \in Callers(p)' <=> k.at \in Referring /\ ProcessOf[k.oxid] = p
    BY <1>1 DEF Callers
  <2>4. Cardinality(Callers(p)') = Cardinality(Callers(p)) - (IF c \in Callers(p) THEN 1 ELSE 0)
                                  + (IF c \in Callers(p)' THEN 1 ELSE 0)
    BY <2>1, Countable, CountableNext, OneElement
  <2> QED BY <2>2, <2>3, <2>4 DEF CallerW
<1> QED BY <1>2, <1>3, <1>4, <1>5

-----------------------------------------------------------------------------
(* What a step has to show *)

\* Commit settles the counts: what is deleted gives its reference back.
LEMMA Committed ==
  ASSUME Lives, NEW q, NEW b \in [Oxid -> OxidInts], NEW d \in [Process -> ProcInts],
         Commit(q, b, d),
         \A o \in Oid : q[o].alive => oid[o].alive,
         \A x \in Oxid : b[x].refs = RunW(b[x]) + Cardinality(Alive(x))
                                     + Cardinality(Refers(x)') + Cardinality(Helping(x)'),
         \A x \in Oxid : Exists(x) \/ b[x].refs = 0,
         \A p \in Process : d[p].refs = UpW(d[p]) + Cardinality(Dependents(p))
                                        + Cardinality(Callers(p)')
  PROVE  Lives'
<1> DEFINE deleted(x) == {o \in OidsOf(x) : oid[o].alive /\ ~ q[o].alive}
           left == [x \in Oxid |-> [b[x] EXCEPT !.refs = @ - Cardinality(deleted(x))]]
           ended(p) == {x \in Oxid : ProcessOf[x] = p /\ Exists(x) /\ left[x].refs = 0}
<1>1. /\ oid' = q /\ oxid' = left
      /\ proc' = [p \in Process |-> [d[p] EXCEPT !.refs = @ - Cardinality(ended(p))]]
  BY DEF Commit
<1>2. ASSUME NEW x \in Oxid
      PROVE  /\ Alive(x)' = Alive(x) \ deleted(x) /\ deleted(x) \subseteq Alive(x)
             /\ Cardinality(deleted(x)) \in Nat
             /\ Cardinality(Alive(x)') = Cardinality(Alive(x)) - Cardinality(deleted(x))
  <2>1. Alive(x)' = Alive(x) \ deleted(x) /\ deleted(x) \subseteq Alive(x)
    BY <1>1 DEF Alive, OidsOf
  <2> HIDE DEF deleted
  <2> QED BY <2>1, Countable, SubsetRemoved
<1> HIDE DEF deleted
<1>3. ASSUME NEW x \in Oxid
      PROVE  /\ oxid'[x] \in OxidObjects /\ RunW(oxid'[x]) = RunW(b[x])
             /\ oxid'[x].refs = RunW(oxid'[x]) + Cardinality(Alive(x)')
                                + Cardinality(Refers(x)') + Cardinality(Helping(x)')
             /\ oxid'[x].refs = b[x].refs - Cardinality(deleted(x))
  <2>1. b[x] \in OxidInts /\ Cardinality(deleted(x)) \in Nat
    BY <1>2
  <2>2. oxid'[x] = [b[x] EXCEPT !.refs = b[x].refs - Cardinality(deleted(x))]
    BY <1>1
  <2>3. /\ oxid'[x].refs = b[x].refs - Cardinality(deleted(x))
        /\ oxid'[x].items = b[x].items /\ oxid'[x].leaving = b[x].leaving
        /\ oxid'[x].guests = b[x].guests /\ (oxid'[x].running <=> b[x].running)
    BY <2>1, <2>2 DEF OxidInts
  <2>4. RunW(oxid'[x]) = RunW(b[x]) /\ RunW(b[x]) \in Nat
    BY <2>1, <2>3 DEF RunW, OxidInts
  <2>5. /\ Cardinality(Alive(x)) \in Nat /\ Cardinality(Alive(x)') \in Nat
        /\ Cardinality(Refers(x)') \in Nat /\ Cardinality(Helping(x)') \in Nat
    BY Countable, CountableNext
  <2>6. oxid'[x].refs = RunW(oxid'[x]) + Cardinality(Alive(x)')
                        + Cardinality(Refers(x)') + Cardinality(Helping(x)')
    BY <1>2, <2>1, <2>3, <2>4, <2>5
  <2>7. oxid'[x].refs \in Nat
    BY <2>4, <2>5, <2>6
  <2>8. oxid'[x] \in OxidObjects
    BY <2>1, <2>2, <2>3, <2>7 DEF OxidInts, OxidObjects
  <2> QED BY <2>3, <2>4, <2>6, <2>8
<1>4. ASSUME NEW x \in Oxid
      PROVE  Exists(x)' <=> Exists(x) /\ left[x].refs # 0
  <2>0. oxid'[x].refs \in Nat
    <3>1. oxid'[x] \in OxidObjects
      BY <1>3
    <3> QED BY <3>1 DEF OxidObjects
  <2>1. Exists(x)' <=> left[x].refs # 0
    <3>1. oxid' = left
      BY <1>1
    <3>2. Exists(x)' <=> oxid'[x].refs > 0
      BY DEF Exists
    <3> HIDE DEF left
    <3> QED BY <2>0, <3>1, <3>2
  <2>2. CASE ~ Exists(x)
    <3>1. b[x].refs = 0
      BY <2>2
    <3>2. oxid'[x].refs = 0 - Cardinality(deleted(x)) /\ oxid'[x].refs \in Nat
      BY <1>3, <3>1 DEF OxidObjects
    <3>3. oxid'[x].refs = 0
      BY <1>2, <3>2
    <3> QED BY <1>1, <2>1, <2>2, <3>3
  <2> QED BY <2>1, <2>2
<1>5. ASSUME NEW p \in Process
      PROVE  /\ Cardinality(ended(p)) \in Nat
             /\ Cardinality(Dependents(p)') = Cardinality(Dependents(p)) - Cardinality(ended(p))
  <2>1. Dependents(p)' = Dependents(p) \ ended(p) /\ ended(p) \subseteq Dependents(p)
    BY <1>4 DEF Dependents
  <2> HIDE DEF ended
  <2> QED BY <2>1, Countable, SubsetRemoved
<1> HIDE DEF left, ended
<1>6. ASSUME NEW p \in Process
      PROVE  /\ proc'[p] \in Processes
             /\ proc'[p].refs = UpW(proc'[p]) + Cardinality(Dependents(p)')
                                + Cardinality(Callers(p)')
  <2>1. d[p] \in ProcInts /\ Cardinality(ended(p)) \in Nat
    BY <1>5
  <2>2. proc'[p] = [d[p] EXCEPT !.refs = d[p].refs - Cardinality(ended(p))]
    BY <1>1
  <2>3. /\ proc'[p].refs = d[p].refs - Cardinality(ended(p))
        /\ (proc'[p].up <=> d[p].up) /\ UpW(d[p]) \in Nat
    BY <2>1, <2>2 DEF ProcInts, UpW
  <2>4. UpW(proc'[p]) = UpW(d[p])
    BY <2>3 DEF UpW
  <2>5. /\ Cardinality(Dependents(p)) \in Nat /\ Cardinality(Dependents(p)') \in Nat
        /\ Cardinality(Callers(p)') \in Nat
    BY Countable, CountableNext
  <2>6. proc'[p].refs = UpW(proc'[p]) + Cardinality(Dependents(p)') + Cardinality(Callers(p)')
    BY <1>5, <2>1, <2>3, <2>4, <2>5
  <2>7. proc'[p].refs \in Nat
    BY <2>3, <2>4, <2>5, <2>6
  <2> QED BY <2>1, <2>2, <2>3, <2>6, <2>7 DEF ProcInts, Processes
<1>7. Typed'
  <2>1. oxid' = [x \in Oxid |-> oxid'[x]] /\ proc' = [p \in Process |-> proc'[p]]
    BY <1>1 DEF left
  <2> QED BY <1>3, <1>6, <2>1 DEF Typed
<1> QED BY <1>3, <1>6, <1>7 DEF Lives, OxidsCounted, ProcsCounted

\* The same for a step that deletes nothing.
LEMMA Uncommitted ==
  ASSUME oxid' \in [Oxid -> OxidInts], proc' \in [Process -> ProcInts],
         \A x \in Oxid : oxid'[x].refs = RunW(oxid'[x]) + Cardinality(Alive(x)')
                                        + Cardinality(Refers(x)') + Cardinality(Helping(x)'),
         \A p \in Process : proc'[p].refs = UpW(proc'[p]) + Cardinality(Dependents(p)')
                                           + Cardinality(Callers(p)')
  PROVE  Lives'
<1>1. ASSUME NEW x \in Oxid PROVE oxid'[x] \in OxidObjects
  <2>1. RunW(oxid'[x]) \in Nat
    BY DEF RunW, OxidInts
  <2>2. oxid'[x].refs \in Nat
    BY <2>1, CountableNext
  <2> QED BY <2>2 DEF OxidInts, OxidObjects
<1>2. ASSUME NEW p \in Process PROVE proc'[p] \in Processes
  <2>1. UpW(proc'[p]) \in Nat
    BY DEF UpW
  <2>2. proc'[p].refs \in Nat
    BY <2>1, CountableNext
  <2> QED BY <2>2 DEF ProcInts, Processes
<1> QED BY <1>1, <1>2 DEF Lives, Typed, OxidsCounted, ProcsCounted

\* What Lives says of one OXID and one process.
LEMMA LivesTyped ==
  ASSUME Lives
  PROVE  /\ oxid \in [Oxid -> OxidInts] /\ proc \in [Process -> ProcInts]
         /\ \A x \in Oxid : /\ oxid[x] \in OxidObjects /\ oxid[x].refs \in Nat
                            /\ RunW(oxid[x]) \in Nat /\ oxid[x].calls \in Nat
                            /\ oxid[x].items \in Nat /\ oxid[x].leaving \in Nat
                            /\ oxid[x].guests \in Nat /\ oxid[x].running \in BOOLEAN
                            /\ oxid[x].handle \in BOOLEAN
         /\ \A p \in Process : /\ proc[p] \in Processes /\ proc[p].refs \in Nat
                               /\ UpW(proc[p]) \in Nat /\ proc[p].up \in BOOLEAN
BY DEF Lives, Typed, OxidObjects, OxidInts, Processes, ProcInts, RunW, UpW

\* The same calls refer to the same OXIDs.
LEMMA CallsAlike ==
  ASSUME UNCHANGED call, NEW x, NEW p
  PROVE  /\ Refers(x)' = Refers(x) /\ Helping(x)' = Helping(x)
         /\ Callers(p)' = Callers(p) /\ Active(x)' = Active(x)
BY DEF Refers, Helping, Callers, Active

\* A step that changes OIDs only.
LEMMA OidStep ==
  ASSUME Lives, NEW q, Commit(q, oxid, proc), UNCHANGED call,
         \A o \in Oid : q[o].alive => oid[o].alive
  PROVE  Lives'
<1>1. \A x \in Oxid : oxid[x].refs = RunW(oxid[x]) + Cardinality(Alive(x))
                                   + Cardinality(Refers(x)') + Cardinality(Helping(x)')
  BY CallsAlike DEF Lives, OxidsCounted
<1>2. \A x \in Oxid : Exists(x) \/ oxid[x].refs = 0
  BY LivesTyped DEF Exists
<1>3. \A p \in Process : proc[p].refs = UpW(proc[p]) + Cardinality(Dependents(p))
                                      + Cardinality(Callers(p)')
  BY CallsAlike DEF Lives, ProcsCounted
<1> QED BY <1>1, <1>2, <1>3, LivesTyped, Committed

\* A step that changes the record of one OXID, which is there, by what m and n
\* calls of it more or less contribute.
LEMMA OxidStep ==
  ASSUME Lives, NEW q, NEW x0 \in Oxid, NEW r \in OxidInts, NEW d \in [Process -> ProcInts],
         Commit(q, [oxid EXCEPT ![x0] = r], d), Exists(x0),
         \A o \in Oid : q[o].alive => oid[o].alive,
         NEW m \in Int, NEW n \in Int,
         \A x \in Oxid : Cardinality(Refers(x)') = Cardinality(Refers(x)) + (IF x = x0 THEN m ELSE 0),
         \A x \in Oxid : Cardinality(Helping(x)') = Cardinality(Helping(x)) + (IF x = x0 THEN n ELSE 0),
         r.refs = oxid[x0].refs + RunW(r) - RunW(oxid[x0]) + m + n,
         \A p \in Process : d[p].refs = UpW(d[p]) + Cardinality(Dependents(p)) + Cardinality(Callers(p)')
  PROVE  Lives'
<1> DEFINE b == [oxid EXCEPT ![x0] = r]
<1>1. b \in [Oxid -> OxidInts] /\ b[x0] = r /\ \A x \in Oxid : x # x0 => b[x] = oxid[x]
  BY LivesTyped
<1>2. Commit(q, b, d)
  OBVIOUS
<1> HIDE DEF b
<1>3. \A x \in Oxid : Exists(x) \/ b[x].refs = 0
  BY <1>1, LivesTyped DEF Exists
<1>4. ASSUME NEW x \in Oxid
      PROVE  b[x].refs = RunW(b[x]) + Cardinality(Alive(x)) + Cardinality(Refers(x)')
                         + Cardinality(Helping(x)')
  <2>1. oxid[x].refs = RunW(oxid[x]) + Cardinality(Alive(x)) + Cardinality(Refers(x))
                       + Cardinality(Helping(x))
    BY DEF Lives, OxidsCounted
  <2>2. /\ Cardinality(Refers(x)) \in Nat /\ Cardinality(Helping(x)) \in Nat
        /\ Cardinality(Alive(x)) \in Nat /\ RunW(oxid[x]) \in Nat
    BY Countable, LivesTyped
  <2>3. RunW(r) \in Nat
    BY DEF RunW, OxidInts
  <2>4. CASE x = x0
    BY <1>1, <2>1, <2>2, <2>3, <2>4
  <2>5. CASE x # x0
    <3>1. /\ Cardinality(Refers(x)') = Cardinality(Refers(x)) + 0
          /\ Cardinality(Helping(x)') = Cardinality(Helping(x)) + 0
      BY <2>5
    <3> QED BY <1>1, <2>1, <2>2, <2>5, <3>1
  <2> QED BY <2>4, <2>5
<1> QED BY <1>1, <1>2, <1>3, <1>4, Committed

-----------------------------------------------------------------------------
(* Steps that change OIDs *)

\* No operation on an OID makes one that was not there.
LEMMA ReleaseAlive ==
  ASSUME NEW r \in OidObjects, NEW running
  PROVE  Release(r, running).alive => r.alive
BY DEF Release, NoOid, OidObjects

LEMMA KeepAliveAlive ==
  ASSUME NEW r \in OidObjects
  PROVE  KeepAlive(r).alive <=> r.alive
BY DEF KeepAlive, OidObjects

LEMMA ReferenceAlive ==
  ASSUME NEW r \in OidObjects
  PROVE  Reference(r).alive <=> r.alive
BY DEF Reference, OidObjects

LEMMA UnpinAlive ==
  ASSUME NEW r \in OidObjects, NEW running
  PROVE  Unpin(r, running).alive => r.alive
<1>1. [r EXCEPT !.pinned = FALSE] \in OidObjects /\ ([r EXCEPT !.pinned = FALSE].alive <=> r.alive)
  BY DEF OidObjects
<1> DEFINE s == [r EXCEPT !.pinned = FALSE]
<1>2. Unpin(r, running) = Release(s, running) /\ s \in OidObjects /\ (s.alive <=> r.alive)
  BY <1>1 DEF Unpin
<1> HIDE DEF s
<1> QED BY <1>2, ReleaseAlive

LEMMA FreeAlive ==
  ASSUME NEW r \in OidObjects, NEW running
  PROVE  Free(r, running).alive => r.alive
<1> DEFINE s == [r EXCEPT !.freed = TRUE]
<1>1. s \in OidObjects /\ (s.alive <=> r.alive)
  BY DEF OidObjects
<1>2. Free(r, running) \in {NoOid, Unpin(s, running), s} /\ ~ NoOid.alive
  BY DEF Free, NoOid
<1> HIDE DEF s
<1> QED BY <1>1, <1>2, UnpinAlive

LEMMA ResultAlive ==
  ASSUME NEW r \in OidObjects, NEW answer
  PROVE  Result(r, answer).alive => r.alive
BY DEF Result, Reference, NoOid, OidObjects

\* The releases of a set.
LEMMA ReleaseAllAlive ==
  ASSUME NEW q, NEW S, NEW o \in Oid, q[o] \in OidObjects
  PROVE  ReleaseAll(q, S)[o].alive => q[o].alive
<1>1. ReleaseAll(q, S)[o] \in {q[o], Release(q[o], oxid[OxidOf[o]].running)}
  BY DEF ReleaseAll
<1> QED BY <1>1, ReleaseAlive

\* Pings, and the end of a set.
LEMMA SimplePingLives ==
  ASSUME IInv, Lives, NEW s \in PingSet, SimplePing(s)
  PROVE  Lives'
<1>1. Commit(ReleaseAll(oid, Stale(s)), oxid, proc) /\ UNCHANGED call
  BY DEF SimplePing
<1>2. \A o \in Oid : ReleaseAll(oid, Stale(s))[o].alive => oid[o].alive
  BY ReleaseAllAlive DEF IInv, Shapes
<1> QED BY <1>1, <1>2, OidStep

LEMMA RundownSetLives ==
  ASSUME IInv, Lives, NEW s \in PingSet, RundownSet(s)
  PROVE  Lives'
<1>1. Commit(ReleaseAll(oid, set[s].members), oxid, proc) /\ UNCHANGED call
  BY DEF RundownSet
<1>2. \A o \in Oid : ReleaseAll(oid, set[s].members)[o].alive => oid[o].alive
  BY ReleaseAllAlive DEF IInv, Shapes
<1> QED BY <1>1, <1>2, OidStep

LEMMA SwappedAlive ==
  ASSUME IInv, NEW s \in PingSet, NEW A \in SUBSET Oid, NEW D \in SUBSET Oid, NEW o \in Oid
  PROVE  Swapped(s, A, D)[o].alive => oid[o].alive
<1> DEFINE q1 == ReleaseAll(oid, Stale(s))
           kept == set[s].members \ Stale(s)
           added == {p \in A \ kept : q1[p].alive}
           q2 == [p \in Oid |-> IF p \in added THEN Reference(q1[p]) ELSE q1[p]]
           q3 == ReleaseAll(q2, D \cap (kept \cup added))
           r == IF o \in D \ (kept \cup added) /\ q3[o].alive
                THEN KeepAlive(q3[o]) ELSE q3[o]
           running == oxid[OxidOf[o]].running
<1>0. Swapped(s, A, D)[o] = r
  BY DEF Swapped
<1>1. /\ Good(q1[o]) /\ q1[o] \in OidObjects /\ (q1[o].alive => oid[o].alive)
      /\ o \in added => q1[o].alive
  <2>1. Good(q1[o])
    BY StaleInside, Released DEF IInv
  <2> QED BY <2>1, ReleaseAllAlive DEF Good, IInv, Shapes
<1>2. q2[o] = IF o \in added THEN Reference(q1[o]) ELSE q1[o]
  OBVIOUS
<1>3. q3[o] = IF o \in D \cap (kept \cup added) THEN Release(q2[o], running) ELSE q2[o]
  BY DEF ReleaseAll
<1>4. r = q3[o] \/ (q3[o].alive /\ r = KeepAlive(q3[o]))
  OBVIOUS
<1> HIDE DEF q1, kept, added, q2, q3, r
<1>5. q2[o] \in OidObjects /\ (q2[o].alive => oid[o].alive)
  <2>1. o \in added => Good(Reference(q1[o]))
    BY <1>1, ReferenceGood
  <2>2. o \in added => Reference(q1[o]) \in OidObjects
    BY <2>1 DEF Good
  <2> QED BY <1>1, <1>2, <2>2, ReferenceAlive
<1>6. q3[o].alive => oid[o].alive
  BY <1>3, <1>5, ReleaseAlive
<1>7. r.alive => oid[o].alive
  BY <1>4, <1>6
<1> QED BY <1>0, <1>7

LEMMA ComplexPingLives ==
  ASSUME IInv, Lives, NEW s \in PingSet, NEW A \in SUBSET Oid, NEW D \in SUBSET Oid,
         ComplexPing(s, A, D)
  PROVE  Lives'
<1>1. Commit(Swapped(s, A, D), oxid, proc) /\ UNCHANGED call
  BY DEF ComplexPing
<1> QED BY <1>1, SwappedAlive, OidStep

\* The pings of NotifyCOMOnResume.
LEMMA PingAllSetsLives ==
  ASSUME IInv, Lives, PingAllSets
  PROVE  Lives'
<1> DEFINE S == {s \in PingSet : set[s].timer # "out"}
           stale == UNION {Stale(s) : s \in S}
           gone(o) == Cardinality({s \in S : o \in Stale(s)})
           released(o) == [oid[o] EXCEPT !.refs = @ - gone(o) + 1]
           q == [o \in Oid |-> IF o \notin stale THEN oid[o] ELSE Release(released(o), FALSE)]
<1>1. Commit(q, oxid, proc) /\ UNCHANGED call
  BY DEF PingAllSets
<1>2. ASSUME NEW o \in Oid PROVE q[o].alive => oid[o].alive
  <2>1. oid[o] \in OidObjects
    BY DEF IInv, Shapes
  <2>2. released(o).alive <=> oid[o].alive
    BY <2>1 DEF OidObjects
  <2>3. Release(released(o), FALSE).alive => released(o).alive
    BY <2>1 DEF Release, NoOid, OidObjects
  <2> QED BY <2>2, <2>3
<1> HIDE DEF q
<1> QED BY <1>1, <1>2, OidStep

\* Unpins and frees.
LEMMA UnpinOidsLives ==
  ASSUME IInv, Lives, NEW U \in SUBSET Oid, UnpinOids(U)
  PROVE  Lives'
<1> DEFINE hit == {o \in U : oid[o].alive /\ oid[o].pinned /\ oxid[OxidOf[o]].running}
           q == [o \in Oid |-> IF o \in hit THEN Unpin(oid[o], TRUE) ELSE oid[o]]
<1>1. Commit(q, oxid, proc) /\ UNCHANGED call
  BY DEF UnpinOids
<1>2. ASSUME NEW o \in Oid PROVE q[o].alive => oid[o].alive
  <2>1. o \in hit /\ q[o].alive => oid[o].alive
    BY DEF hit
  <2>2. o \notin hit => q[o] = oid[o]
    OBVIOUS
  <2> QED BY <2>1, <2>2
<1> HIDE DEF q
<1> QED BY <1>1, <1>2, OidStep

LEMMA FreeServerOidLives ==
  ASSUME IInv, Lives, NEW o \in Oid, FreeServerOid(o)
  PROVE  Lives'
<1> DEFINE q == [oid EXCEPT ![o] = Free(oid[o], TRUE)]
<1>1. Commit(q, oxid, proc) /\ UNCHANGED call /\ oid[o].alive
  BY DEF FreeServerOid
<1>2. \A p \in Oid : p # o => q[p] = oid[p]
  BY DEF IInv, Shapes
<1> HIDE DEF q
<1>3. \A p \in Oid : q[p].alive => oid[p].alive
  BY <1>1, <1>2
<1> QED BY <1>1, <1>3, OidStep

\* The OIDs of OXIDs that end.
LEMMA OrphansAlive ==
  ASSUME IInv, NEW X, NEW o \in Oid
  PROVE  UnpinOrphans(oid, X)[o].alive => oid[o].alive
<1>1. UnpinOrphans(oid, X)[o] \in {oid[o], Unpin(oid[o], FALSE)}
  BY DEF UnpinOrphans
<1> QED BY <1>1, UnpinAlive DEF IInv, Shapes

\* An OXID that stops loses one reference.
LEMMA StoppedCounts ==
  ASSUME Lives, UNCHANGED call, NEW X \in SUBSET Oxid, \A x \in X : oxid[x].running
  PROVE  /\ Stopped(X) \in [Oxid -> OxidInts]
         /\ \A x \in Oxid : /\ Stopped(X)[x].refs = RunW(Stopped(X)[x]) + Cardinality(Alive(x))
                                 + Cardinality(Refers(x)') + Cardinality(Helping(x)')
                            /\ Exists(x) \/ Stopped(X)[x].refs = 0
<1>1. ASSUME NEW x \in Oxid
      PROVE  /\ Stopped(X)[x] \in OxidInts
             /\ Stopped(X)[x].refs = RunW(Stopped(X)[x]) + Cardinality(Alive(x))
                                     + Cardinality(Refers(x)') + Cardinality(Helping(x)')
             /\ Exists(x) \/ Stopped(X)[x].refs = 0
  <2>1. /\ oxid[x].refs = RunW(oxid[x]) + Cardinality(Alive(x)) + Cardinality(Refers(x)')
                          + Cardinality(Helping(x)')
        /\ oxid[x] \in OxidInts
    BY CallsAlike, LivesTyped DEF Lives, OxidsCounted
  <2>2. /\ Cardinality(Refers(x)') \in Nat /\ Cardinality(Helping(x)') \in Nat
        /\ Cardinality(Alive(x)) \in Nat
    BY Countable, CountableNext
  <2>3. CASE x \in X
    <3>1. Stopped(X)[x] = [oxid[x] EXCEPT !.running = FALSE, !.refs = oxid[x].refs - 1]
      BY <2>3 DEF Stopped
    <3>n. oxid[x].refs \in Int /\ oxid[x].refs - 1 \in Int
      BY <2>1 DEF OxidInts
    <3>m. Stopped(X)[x] \in OxidInts
      BY <2>1, <3>1, <3>n DEF OxidInts
    <3>2. /\ Stopped(X)[x].refs = oxid[x].refs - 1
          /\ Stopped(X)[x].items = oxid[x].items /\ Stopped(X)[x].leaving = oxid[x].leaving
          /\ Stopped(X)[x].guests = oxid[x].guests /\ ~ Stopped(X)[x].running
      BY <2>1, <3>1 DEF OxidInts
    <3>3. RunW(oxid[x]) = RunW(Stopped(X)[x]) + 1 /\ RunW(Stopped(X)[x]) \in Nat
      BY <2>1, <2>3, <3>2 DEF RunW, OxidInts
    <3>4. oxid[x].refs > 0
      BY <2>1, <2>2, <3>3
    <3> QED BY <2>1, <2>2, <3>n, <3>m, <3>2, <3>3, <3>4 DEF Exists
  <2>4. CASE x \notin X
    <3>1. Stopped(X)[x] = oxid[x]
      BY <2>4 DEF Stopped
    <3> QED BY <2>1, <3>1, LivesTyped DEF Exists
  <2> QED BY <2>3, <2>4
<1>2. Stopped(X) = [x \in Oxid |-> Stopped(X)[x]]
  BY DEF Stopped
<1> QED BY <1>1, <1>2

\* _ServerFreeOXIDAndOIDs.
LEMMA FreeOxidLives ==
  ASSUME IInv, Lives, NEW x \in Oxid, NEW F \in SUBSET OidsOf(x), FreeOxid(x, F)
  PROVE  Lives'
<1> DEFINE u == UnpinOrphans(oid, {x})
           freed == {o \in F : u[o].alive /\ ~ u[o].down /\ u[o].refs = 0}
           q == [o \in Oid |-> IF o \in freed THEN NoOid ELSE u[o]]
<1>1. Commit(q, Stopped({x}), proc) /\ UNCHANGED call /\ oxid[x].running
  BY DEF FreeOxid
<1>2. \A o \in Oid : q[o] \in {NoOid, u[o]} /\ ~ NoOid.alive
  BY DEF NoOid
<1> HIDE DEF q, u
<1>3. \A o \in Oid : q[o].alive => oid[o].alive
  BY <1>2, OrphansAlive DEF u
<1>4. {x} \in SUBSET Oxid /\ \A y \in {x} : oxid[y].running
  BY <1>1
<1>5. \A p \in Process : proc[p].refs = UpW(proc[p]) + Cardinality(Dependents(p))
                                      + Cardinality(Callers(p)')
  BY <1>1, CallsAlike DEF Lives, ProcsCounted
<1> DEFINE b == Stopped({x})
<1>6. /\ b \in [Oxid -> OxidInts]
      /\ \A y \in Oxid : b[y].refs = RunW(b[y]) + Cardinality(Alive(y))
                                 + Cardinality(Refers(y)') + Cardinality(Helping(y)')
      /\ \A y \in Oxid : Exists(y) \/ b[y].refs = 0
  BY <1>1, <1>4, StoppedCounts
<1>7. Commit(q, b, proc)
  BY <1>1
<1> HIDE DEF b
<1> QED BY <1>3, <1>5, <1>6, <1>7, LivesTyped, Committed

\* CProcess::Rundown.
LEMMA ProcessRundownLives ==
  ASSUME IInv, Lives, NEW p \in Process, ProcessRundown(p)
  PROVE  Lives'
<1> DEFINE X == {x \in Oxid : ProcessOf[x] = p /\ oxid[x].running}
           q == UnpinOrphans(oid, X)
           b == Stopped(X)
           d == [proc EXCEPT ![p] = [up |-> FALSE, refs |-> proc[p].refs - 1]]
<1>1. Commit(q, b, d) /\ UNCHANGED call /\ proc[p].up
  BY DEF ProcessRundown
<1>2. \A o \in Oid : q[o].alive => oid[o].alive
  BY OrphansAlive
<1>3. X \in SUBSET Oxid /\ \A y \in X : oxid[y].running
  OBVIOUS
<1> HIDE DEF X
<1>4. /\ b \in [Oxid -> OxidInts]
      /\ \A y \in Oxid : b[y].refs = RunW(b[y]) + Cardinality(Alive(y))
                                 + Cardinality(Refers(y)') + Cardinality(Helping(y)')
      /\ \A y \in Oxid : Exists(y) \/ b[y].refs = 0
  BY <1>1, <1>3, StoppedCounts
<1>5. d \in [Process -> ProcInts]
  BY LivesTyped DEF ProcInts
<1>6. ASSUME NEW e \in Process
      PROVE  d[e].refs = UpW(d[e]) + Cardinality(Dependents(e)) + Cardinality(Callers(e)')
  <2>1. /\ proc[e].refs = UpW(proc[e]) + Cardinality(Dependents(e)) + Cardinality(Callers(e)')
        /\ proc[e].refs \in Nat
    BY <1>1, CallsAlike, LivesTyped DEF Lives, ProcsCounted
  <2>2. Cardinality(Dependents(e)) \in Nat /\ Cardinality(Callers(e)') \in Nat
    BY Countable, CountableNext
  <2>3. d[e] = IF e = p THEN [up |-> FALSE, refs |-> proc[p].refs - 1] ELSE proc[e]
    BY LivesTyped
  <2>4. UpW(d[e]) = IF e = p THEN 0 ELSE UpW(proc[e])
    BY <2>3 DEF UpW
  <2>5. UpW(proc[p]) = 1
    BY <1>1 DEF UpW
  <2> HIDE DEF d
  <2> QED BY <2>1, <2>2, <2>3, <2>4, <2>5
<1> HIDE DEF q, b, d
<1> QED BY <1>1, <1>2, <1>4, <1>5, <1>6, Committed

-----------------------------------------------------------------------------
(* Steps that change an OXID *)

\* What refers to an OXID keeps it there.
LEMMA OxidThere ==
  ASSUME Lives, NEW x \in Oxid,
         \/ oxid[x].running \/ oxid[x].items > 0 \/ oxid[x].leaving > 0 \/ oxid[x].guests > 0
         \/ Alive(x) # {} \/ Refers(x) # {} \/ Helping(x) # {}
  PROVE  Exists(x)
<1>1. oxid[x].refs = RunW(oxid[x]) + Cardinality(Alive(x)) + Cardinality(Refers(x))
                     + Cardinality(Helping(x))
  BY DEF Lives, OxidsCounted
<1>2. /\ Cardinality(Alive(x)) \in Nat /\ (Alive(x) # {} => Cardinality(Alive(x)) > 0)
      /\ Cardinality(Refers(x)) \in Nat /\ (Refers(x) # {} => Cardinality(Refers(x)) > 0)
      /\ Cardinality(Helping(x)) \in Nat /\ (Helping(x) # {} => Cardinality(Helping(x)) > 0)
  BY Countable, FS_EmptySet
<1>3. /\ oxid[x].items \in Nat /\ oxid[x].leaving \in Nat /\ oxid[x].guests \in Nat
      /\ oxid[x].running \in BOOLEAN
  BY LivesTyped
<1>4. /\ RunW(oxid[x]) \in Nat
      /\ oxid[x].running \/ oxid[x].items > 0 \/ oxid[x].leaving > 0 \/ oxid[x].guests > 0
           => RunW(oxid[x]) > 0
  BY <1>3 DEF RunW
<1> QED BY <1>1, <1>2, <1>4 DEF Exists

\* Calls that stay as they are contribute as before.
LEMMA NoCallChanges ==
  ASSUME Lives, UNCHANGED call
  PROVE  /\ \A x \in Oxid : Cardinality(Refers(x)') = Cardinality(Refers(x)) + 0
         /\ \A x \in Oxid : Cardinality(Helping(x)') = Cardinality(Helping(x)) + 0
         /\ \A p \in Process : proc[p].refs = UpW(proc[p]) + Cardinality(Dependents(p))
                                              + Cardinality(Callers(p)')
<1>1. \A x \in Oxid : Cardinality(Refers(x)) \in Nat /\ Cardinality(Helping(x)) \in Nat
  BY Countable
<1> QED BY <1>1, CallsAlike DEF Lives, ProcsCounted

\* An OXID settles one of its references.
LEMMA OxidAlone ==
  ASSUME Lives, UNCHANGED call, NEW q, NEW x \in Oxid, NEW r \in OxidInts,
         Commit(q, [oxid EXCEPT ![x] = r], proc), Exists(x),
         \A o \in Oid : q[o].alive => oid[o].alive,
         r.refs = oxid[x].refs + RunW(r) - RunW(oxid[x])
  PROVE  Lives'
<1>1. /\ \A y \in Oxid : Cardinality(Refers(y)') = Cardinality(Refers(y)) + (IF y = x THEN 0 ELSE 0)
      /\ \A y \in Oxid : Cardinality(Helping(y)') = Cardinality(Helping(y)) + (IF y = x THEN 0 ELSE 0)
      /\ \A p \in Process : proc[p].refs = UpW(proc[p]) + Cardinality(Dependents(p))
                                           + Cardinality(Callers(p)')
  BY NoCallChanges
<1>2. r.refs = oxid[x].refs + RunW(r) - RunW(oxid[x]) + 0 + 0
  BY DEF OxidInts
<1>3. 0 \in Int
  OBVIOUS
<1> QED BY <1>1, <1>2, <1>3, LivesTyped, OxidStep

LEMMA EndUseProtseqLives ==
  ASSUME Lives, NEW x \in Oxid, EndUseProtseq(x)
  PROVE  Lives'
<1> DEFINE r == [oxid[x] EXCEPT !.refs = oxid[x].refs - 1, !.guests = oxid[x].guests - 1]
<1>0. oxid[x] \in OxidInts /\ oxid[x].guests > 0 /\ UNCHANGED call
  BY LivesTyped DEF EndUseProtseq
<1>1. oxid[x].refs - 1 \in Int /\ oxid[x].guests - 1 \in Nat
  BY <1>0 DEF OxidInts
<1>2. r \in OxidInts
  BY <1>0, <1>1 DEF OxidInts
<1>3. /\ r.refs = oxid[x].refs - 1 /\ r.guests = oxid[x].guests - 1
      /\ r.items = oxid[x].items /\ r.leaving = oxid[x].leaving
      /\ (r.running <=> oxid[x].running)
  BY <1>0 DEF OxidInts
<1>4. [oxid EXCEPT ![x].refs = @ - 1, ![x].guests = @ - 1] = [oxid EXCEPT ![x] = r]
  BY LivesTyped
<1> HIDE DEF r
<1>5. Commit(oid, [oxid EXCEPT ![x] = r], proc)
  BY <1>4 DEF EndUseProtseq
<1>6. r.refs = oxid[x].refs + RunW(r) - RunW(oxid[x])
  BY <1>0, <1>2, <1>3 DEF RunW, OxidInts
<1>7. Exists(x)
  BY <1>0, OxidThere
<1> QED BY <1>0, <1>2, <1>5, <1>6, <1>7, OxidAlone

LEMMA HelperDoneLives ==
  ASSUME Lives, NEW x \in Oxid, HelperDone(x)
  PROVE  Lives'
<1> DEFINE r == [oxid[x] EXCEPT !.leaving = oxid[x].leaving - 1, !.refs = oxid[x].refs - 1]
<1>0. oxid[x] \in OxidInts /\ oxid[x].leaving > 0 /\ UNCHANGED call
  BY LivesTyped DEF HelperDone
<1>1. oxid[x].refs - 1 \in Int /\ oxid[x].leaving - 1 \in Nat
  BY <1>0 DEF OxidInts
<1>2. r \in OxidInts
  BY <1>0, <1>1 DEF OxidInts
<1>3. /\ r.refs = oxid[x].refs - 1 /\ r.leaving = oxid[x].leaving - 1
      /\ r.items = oxid[x].items /\ r.guests = oxid[x].guests
      /\ (r.running <=> oxid[x].running)
  BY <1>0 DEF OxidInts
<1>4. [oxid EXCEPT ![x].leaving = @ - 1, ![x].refs = @ - 1] = [oxid EXCEPT ![x] = r]
  BY LivesTyped
<1> HIDE DEF r
<1>5. Commit(oid, [oxid EXCEPT ![x] = r], proc)
  BY <1>4 DEF HelperDone
<1>6. r.refs = oxid[x].refs + RunW(r) - RunW(oxid[x])
  BY <1>0, <1>2, <1>3 DEF RunW, OxidInts
<1>7. Exists(x)
  BY <1>0, OxidThere
<1> QED BY <1>0, <1>2, <1>5, <1>6, <1>7, OxidAlone

-----------------------------------------------------------------------------
(* Steps that delete nothing *)

\* The same OIDs and OXIDs are there.
LEMMA SameThere ==
  ASSUME \A o \in Oid : oid'[o].alive <=> oid[o].alive,
         \A x \in Oxid : Exists(x)' <=> Exists(x),
         NEW x, NEW p
  PROVE  Alive(x)' = Alive(x) /\ Dependents(p)' = Dependents(p)
BY DEF Alive, OidsOf, Dependents

\* One OXID takes a reference, or gives one from hand to hand.
LEMMA OxidQuiet ==
  ASSUME Lives, UNCHANGED <<call, proc>>, NEW x0 \in Oxid, NEW r \in OxidInts,
         oxid' = [oxid EXCEPT ![x0] = r], Exists(x0),
         \A o \in Oid : oid'[o].alive <=> oid[o].alive,
         r.refs > 0, r.refs = oxid[x0].refs + RunW(r) - RunW(oxid[x0])
  PROVE  Lives'
<1>1. /\ oxid' \in [Oxid -> OxidInts] /\ oxid'[x0] = r
      /\ \A x \in Oxid : x # x0 => oxid'[x] = oxid[x]
  BY LivesTyped
<1>2. \A x \in Oxid : Exists(x)' <=> Exists(x)
  BY <1>1 DEF Exists
<1>3. ASSUME NEW x \in Oxid
      PROVE  oxid'[x].refs = RunW(oxid'[x]) + Cardinality(Alive(x)')
                             + Cardinality(Refers(x)') + Cardinality(Helping(x)')
  <2>1. /\ oxid[x].refs = RunW(oxid[x]) + Cardinality(Alive(x)') + Cardinality(Refers(x)')
                          + Cardinality(Helping(x)')
        /\ RunW(oxid[x]) \in Nat
    BY <1>2, SameThere, CallsAlike, LivesTyped DEF Lives, OxidsCounted
  <2>2. RunW(r) \in Nat
    BY DEF RunW, OxidInts
  <2>3. /\ Cardinality(Alive(x)') \in Nat /\ Cardinality(Refers(x)') \in Nat
        /\ Cardinality(Helping(x)') \in Nat
    BY CountableNext
  <2> QED BY <1>1, <2>1, <2>2, <2>3
<1>4. \A p \in Process : proc'[p].refs = UpW(proc'[p]) + Cardinality(Dependents(p)')
                                         + Cardinality(Callers(p)')
  BY <1>2, SameThere, CallsAlike DEF Lives, ProcsCounted
<1> QED BY <1>1, <1>3, <1>4, LivesTyped, Uncommitted

LEMMA BeginUseProtseqLives ==
  ASSUME Lives, NEW x \in Oxid, BeginUseProtseq(x)
  PROVE  Lives'
<1> DEFINE r == [oxid[x] EXCEPT !.refs = oxid[x].refs + 1, !.guests = oxid[x].guests + 1]
<1>0. /\ oxid[x] \in OxidInts /\ oxid[x].refs \in Nat /\ oxid[x].running
      /\ UNCHANGED <<oid, call, proc>>
  BY LivesTyped DEF BeginUseProtseq
<1>1. oxid[x].refs + 1 \in Int /\ oxid[x].guests + 1 \in Nat
  BY <1>0 DEF OxidInts
<1>2. r \in OxidInts
  BY <1>0, <1>1 DEF OxidInts
<1>3. /\ r.refs = oxid[x].refs + 1 /\ r.guests = oxid[x].guests + 1
      /\ r.items = oxid[x].items /\ r.leaving = oxid[x].leaving
      /\ (r.running <=> oxid[x].running)
  BY <1>0 DEF OxidInts
<1>4. oxid' = [oxid EXCEPT ![x] = r]
  BY LivesTyped DEF BeginUseProtseq
<1> HIDE DEF r
<1>5. r.refs = oxid[x].refs + RunW(r) - RunW(oxid[x]) /\ r.refs > 0
  BY <1>0, <1>2, <1>3 DEF RunW, OxidInts
<1>6. Exists(x)
  BY <1>0, OxidThere
<1> QED BY <1>0, <1>2, <1>4, <1>5, <1>6, OxidQuiet

LEMMA HelperIdleLives ==
  ASSUME Lives, NEW x \in Oxid, HelperIdle(x)
  PROVE  Lives'
<1> DEFINE r == [oxid[x] EXCEPT !.items = oxid[x].items - 1, !.leaving = oxid[x].leaving + 1]
<1>0. /\ oxid[x] \in OxidInts /\ oxid[x].refs \in Nat /\ oxid[x].items > 0
      /\ UNCHANGED <<oid, call, proc>>
  BY LivesTyped DEF HelperIdle
<1>1. oxid[x].items - 1 \in Nat /\ oxid[x].leaving + 1 \in Nat
  BY <1>0 DEF OxidInts
<1>2. r \in OxidInts
  BY <1>0, <1>1 DEF OxidInts
<1>3. /\ r.refs = oxid[x].refs /\ r.items = oxid[x].items - 1
      /\ r.leaving = oxid[x].leaving + 1 /\ r.guests = oxid[x].guests
      /\ (r.running <=> oxid[x].running)
  BY <1>0 DEF OxidInts
<1>4. oxid' = [oxid EXCEPT ![x] = r]
  BY LivesTyped DEF HelperIdle
<1> HIDE DEF r
<1>5. Exists(x)
  BY <1>0, OxidThere
<1>6. r.refs = oxid[x].refs + RunW(r) - RunW(oxid[x]) /\ r.refs > 0
  BY <1>0, <1>2, <1>3, <1>5 DEF RunW, OxidInts, Exists
<1> QED BY <1>0, <1>2, <1>4, <1>5, <1>6, OxidQuiet

\* A new OID references its OXID.
LEMMA AllocateOidLives ==
  ASSUME IInv, Lives, NEW o \in Oid, AllocateOid(o)
  PROVE  Lives'
<1> DEFINE x0 == OxidOf[o]
           n == Release([NoOid EXCEPT !.alive = TRUE, !.refs = 1], TRUE)
           r == [oxid[x0] EXCEPT !.refs = oxid[x0].refs + 1]
<1>0. x0 \in Oxid /\ oxid[x0] \in OxidInts /\ oxid[x0].refs \in Nat
  BY ServerOidAssumption, LivesTyped
<1>1. /\ oxid[x0].running /\ ~ oid[o].alive /\ UNCHANGED <<call, proc>>
      /\ oid' = [oid EXCEPT ![o] = n] /\ oxid' = [oxid EXCEPT ![x0] = r]
  BY LivesTyped DEF AllocateOid
<1>2. n.alive
  BY DEF Release, NoOid
<1>3. oid'[o] = n /\ \A p \in Oid : p # o => oid'[p] = oid[p]
  BY <1>1 DEF IInv, Shapes
<1>4. oxid[x0].refs + 1 \in Int
  BY <1>0
<1>5. r \in OxidInts
  BY <1>0, <1>4 DEF OxidInts
<1>6. /\ r.refs = oxid[x0].refs + 1 /\ RunW(r) = RunW(oxid[x0])
  BY <1>0 DEF OxidInts, RunW
<1>7. oxid'[x0] = r /\ \A x \in Oxid : x # x0 => oxid'[x] = oxid[x]
  BY <1>0, <1>1, LivesTyped
<1>8. oxid' \in [Oxid -> OxidInts]
  BY <1>0, <1>1, <1>5, LivesTyped
<1>9. Exists(x0)
  BY <1>0, <1>1, OxidThere
<1> HIDE DEF n, r
<1>10. ASSUME NEW x \in Oxid
       PROVE  /\ Cardinality(Alive(x)') = Cardinality(Alive(x)) + (IF x = x0 THEN 1 ELSE 0)
              /\ Exists(x)' <=> Exists(x)
  <2>1. CASE x = x0
    <3>1. Alive(x)' = Alive(x) \cup {o} /\ o \notin Alive(x)
      BY <1>1, <1>2, <1>3, <2>1 DEF Alive, OidsOf
    <3>2. Cardinality(Alive(x)') = Cardinality(Alive(x)) + 1
      BY <3>1, Countable, FS_AddElement
    <3>3. Exists(x)'
      BY <1>0, <1>6, <1>7, <2>1 DEF Exists
    <3> QED BY <1>9, <2>1, <3>2, <3>3
  <2>2. CASE x # x0
    <3>1. Alive(x)' = Alive(x)
      BY <1>3, <2>2 DEF Alive, OidsOf
    <3>2. Cardinality(Alive(x)) \in Nat
      BY Countable
    <3>3. Exists(x)' <=> Exists(x)
      BY <1>7, <2>2 DEF Exists
    <3> QED BY <2>2, <3>1, <3>2, <3>3
  <2> QED BY <2>1, <2>2
<1>11. ASSUME NEW x \in Oxid
       PROVE  oxid'[x].refs = RunW(oxid'[x]) + Cardinality(Alive(x)')
                              + Cardinality(Refers(x)') + Cardinality(Helping(x)')
  <2>1. /\ oxid[x].refs = RunW(oxid[x]) + Cardinality(Alive(x)) + Cardinality(Refers(x)')
                          + Cardinality(Helping(x)')
        /\ RunW(oxid[x]) \in Nat
    BY <1>1, CallsAlike, LivesTyped DEF Lives, OxidsCounted
  <2>2. /\ Cardinality(Alive(x)) \in Nat /\ Cardinality(Refers(x)') \in Nat
        /\ Cardinality(Helping(x)') \in Nat
    BY Countable, CountableNext
  <2>3. oxid'[x].refs = oxid[x].refs + (IF x = x0 THEN 1 ELSE 0) /\ RunW(oxid'[x]) = RunW(oxid[x])
    <3>1. oxid[x].refs \in Nat
      BY LivesTyped
    <3> QED BY <1>6, <1>7, <3>1
  <2> QED BY <1>10, <2>1, <2>2, <2>3
<1>12. \A p \in Process : proc'[p].refs = UpW(proc'[p]) + Cardinality(Dependents(p)')
                                          + Cardinality(Callers(p)')
  <2>1. \A p \in Process : Dependents(p)' = Dependents(p)
    BY <1>10 DEF Dependents
  <2> QED BY <1>1, <2>1, CallsAlike DEF Lives, ProcsCounted
<1> QED BY <1>1, <1>8, <1>11, <1>12, LivesTyped, Uncommitted

\* A new OXID references its process.
LEMMA AllocateOxidLives ==
  ASSUME Lives, NEW x0 \in Oxid, AllocateOxid(x0)
  PROVE  Lives'
<1> DEFINE p0 == ProcessOf[x0]
           r == [NoOxid EXCEPT !.running = TRUE, !.refs = 1]
           d == [proc[p0] EXCEPT !.refs = proc[p0].refs + 1]
<1>0. p0 \in Process /\ proc[p0] \in ProcInts /\ proc[p0].refs \in Nat
  BY ServerOidAssumption, LivesTyped
<1>1. /\ ~ Exists(x0) /\ UNCHANGED <<oid, call>>
      /\ oxid' = [oxid EXCEPT ![x0] = r] /\ proc' = [proc EXCEPT ![p0] = d]
  BY LivesTyped DEF AllocateOxid
<1>2. r \in OxidInts /\ r.refs = 1 /\ RunW(r) = 1
  <2>1. NoOxid \in OxidInts
    BY DEF NoOxid, OxidInts
  <2>2. NoOxid.items = 0 /\ NoOxid.leaving = 0 /\ NoOxid.guests = 0
    BY DEF NoOxid
  <2> HIDE DEF NoOxid
  <2> DEFINE one == 1
  <2>n. one \in Int /\ r = [NoOxid EXCEPT !.running = TRUE, !.refs = one]
    OBVIOUS
  <2> HIDE DEF one
  <2>3. r \in OxidInts
    BY <2>1, <2>n DEF OxidInts
  <2>4. /\ r.refs = 1 /\ r.running
        /\ r.items = NoOxid.items /\ r.leaving = NoOxid.leaving /\ r.guests = NoOxid.guests
    BY <2>1 DEF OxidInts
  <2>5. RunW(r) = 1
    BY <2>2, <2>4 DEF RunW
  <2> QED BY <2>3, <2>4, <2>5
<1>3. proc[p0].refs + 1 \in Int
  BY <1>0
<1>4. d \in ProcInts
  BY <1>0, <1>3 DEF ProcInts
<1>5. d.refs = proc[p0].refs + 1 /\ UpW(d) = UpW(proc[p0])
  BY <1>0 DEF ProcInts, UpW
<1>6. /\ oxid' \in [Oxid -> OxidInts] /\ oxid'[x0] = r
      /\ \A x \in Oxid : x # x0 => oxid'[x] = oxid[x]
  BY <1>1, <1>2, LivesTyped
<1>7. /\ proc' \in [Process -> ProcInts] /\ proc'[p0] = d
      /\ \A p \in Process : p # p0 => proc'[p] = proc[p]
  BY <1>0, <1>1, <1>4, LivesTyped
<1> HIDE DEF r, d
<1>8. \A x \in Oxid : Exists(x)' <=> (Exists(x) \/ x = x0)
  BY <1>2, <1>6 DEF Exists
<1>9. ASSUME NEW x \in Oxid
      PROVE  oxid'[x].refs = RunW(oxid'[x]) + Cardinality(Alive(x)')
                             + Cardinality(Refers(x)') + Cardinality(Helping(x)')
  <2>0. Alive(x)' = Alive(x)
    BY <1>1 DEF Alive
  <2>1. oxid[x].refs = RunW(oxid[x]) + Cardinality(Alive(x)') + Cardinality(Refers(x)')
                       + Cardinality(Helping(x)')
    BY <1>1, <2>0, CallsAlike DEF Lives, OxidsCounted
  <2>2. /\ Cardinality(Alive(x)') \in Nat /\ Cardinality(Refers(x)') \in Nat
        /\ Cardinality(Helping(x)') \in Nat /\ RunW(oxid[x]) \in Nat /\ oxid[x].refs \in Nat
    BY CountableNext, LivesTyped
  <2>3. CASE x = x0
    <3>1. oxid[x].refs = 0
      BY <1>1, <2>2, <2>3 DEF Exists
    <3>2. /\ Cardinality(Alive(x)') = 0 /\ Cardinality(Refers(x)') = 0
          /\ Cardinality(Helping(x)') = 0
      BY <2>1, <2>2, <3>1
    <3>3. oxid'[x].refs = 1 /\ RunW(oxid'[x]) = 1
      BY <1>2, <1>6, <2>3
    <3> QED BY <3>2, <3>3
  <2>4. CASE x # x0
    BY <1>6, <2>1, <2>4
  <2> QED BY <2>3, <2>4
<1>10. ASSUME NEW p \in Process
       PROVE  proc'[p].refs = UpW(proc'[p]) + Cardinality(Dependents(p)')
                              + Cardinality(Callers(p)')
  <2>1. /\ proc[p].refs = UpW(proc[p]) + Cardinality(Dependents(p)) + Cardinality(Callers(p)')
        /\ UpW(proc[p]) \in Nat
    BY <1>1, CallsAlike, LivesTyped DEF Lives, ProcsCounted
  <2>2. /\ Cardinality(Dependents(p)) \in Nat /\ IsFiniteSet(Dependents(p))
        /\ Cardinality(Callers(p)') \in Nat
    BY Countable, CountableNext
  <2>3. CASE p = p0
    <3>1. Dependents(p)' = Dependents(p) \cup {x0} /\ x0 \notin Dependents(p)
      BY <1>1, <1>8, <2>3 DEF Dependents
    <3>2. Cardinality(Dependents(p)') = Cardinality(Dependents(p)) + 1
      BY <2>2, <3>1, FS_AddElement
    <3> QED BY <1>5, <1>7, <2>1, <2>2, <2>3, <3>2
  <2>4. CASE p # p0
    <3>1. Dependents(p)' = Dependents(p)
      BY <1>8, <2>4 DEF Dependents
    <3> QED BY <1>7, <2>1, <2>4, <3>1
  <2> QED BY <2>3, <2>4
<1> QED BY <1>6, <1>7, <1>9, <1>10, Uncommitted

\* A process that was not known has no OXIDs and no calls.
LEMMA ConnectLives ==
  ASSUME Lives, NEW p0 \in Process, Connect(p0)
  PROVE  Lives'
<1> DEFINE d == [up |-> TRUE, refs |-> 1]
<1>1. ~ Known(p0) /\ UNCHANGED <<oid, oxid, call>> /\ proc' = [proc EXCEPT ![p0] = d]
  BY DEF Connect
<1>2. d \in ProcInts /\ d.refs = 1 /\ UpW(d) = 1
  BY DEF ProcInts, UpW
<1>3. /\ proc' \in [Process -> ProcInts] /\ proc'[p0] = d
      /\ \A p \in Process : p # p0 => proc'[p] = proc[p]
  BY <1>1, <1>2, LivesTyped
<1> HIDE DEF d
<1>4. /\ \A x \in Oxid : Alive(x)' = Alive(x)
      /\ \A p \in Process : Dependents(p)' = Dependents(p)
  BY <1>1 DEF Alive, Dependents, Exists
<1>5. ASSUME NEW p \in Process
      PROVE  proc'[p].refs = UpW(proc'[p]) + Cardinality(Dependents(p)')
                             + Cardinality(Callers(p)')
  <2>1. /\ proc[p].refs = UpW(proc[p]) + Cardinality(Dependents(p)') + Cardinality(Callers(p)')
        /\ UpW(proc[p]) \in Nat /\ proc[p].refs \in Nat
    BY <1>1, <1>4, CallsAlike, LivesTyped DEF Lives, ProcsCounted
  <2>2. Cardinality(Dependents(p)') \in Nat /\ Cardinality(Callers(p)') \in Nat
    BY CountableNext
  <2>3. CASE p = p0
    <3>1. proc[p].refs = 0
      BY <1>1, <2>1, <2>3 DEF Known
    <3> QED BY <1>2, <1>3, <2>1, <2>2, <2>3, <3>1
  <2>4. CASE p # p0
    BY <1>3, <2>1, <2>4
  <2> QED BY <2>3, <2>4
<1>6. \A x \in Oxid : oxid'[x].refs = RunW(oxid'[x]) + Cardinality(Alive(x)')
                                      + Cardinality(Refers(x)') + Cardinality(Helping(x)')
  BY <1>1, <1>4, CallsAlike DEF Lives, OxidsCounted
<1> QED BY <1>1, <1>3, <1>5, <1>6, LivesTyped, Uncommitted

\* Steps of sets, timeouts and power.
LEMMA NothingCounted ==
  ASSUME Lives, UNCHANGED <<oxid, proc, call>>,
         \A o \in Oid : oid'[o].alive <=> oid[o].alive
  PROVE  Lives'
<1>1. /\ \A x \in Oxid : Alive(x)' = Alive(x)
      /\ \A p \in Process : Dependents(p)' = Dependents(p)
  BY SameThere DEF Exists
<1>2. /\ \A x \in Oxid : oxid'[x].refs = RunW(oxid'[x]) + Cardinality(Alive(x)')
                                         + Cardinality(Refers(x)') + Cardinality(Helping(x)')
      /\ \A p \in Process : proc'[p].refs = UpW(proc'[p]) + Cardinality(Dependents(p)')
                                            + Cardinality(Callers(p)')
  BY <1>1, CallsAlike DEF Lives, OxidsCounted, ProcsCounted
<1> QED BY <1>2, LivesTyped, Uncommitted

-----------------------------------------------------------------------------
(* Steps of calls *)

\* A call that is to settle OIDs has some, all of its OXID, and a helper
\* thread is not done with a call before it is sent.
CallShape ==
  \A c \in Call :
    /\ call[c].at \in Unsettled => call[c].oids # {} /\ call[c].oids \subseteq OidsOf(call[c].oxid)
    /\ call[c].helper => call[c].at \in {"sending", "referenced", "failed"}

\* The OXID of a call is there: by its OIDs until the call refers to it.
LEMMA CallThere ==
  ASSUME IInv, Lives, CallShape, NEW c \in Call, call[c].at # "free"
  PROVE  call[c].oxid \in Oxid /\ Exists(call[c].oxid)
<1> DEFINE x == call[c].oxid
<1>0. x \in Oxid /\ call[c].at \in Stages
  BY CallTyped
<1>1. CASE call[c].at \in Referring
  <2>1. c \in Refers(x)
    BY <1>1 DEF Refers
  <2> QED BY <1>0, <2>1, OxidThere
<1>2. CASE call[c].at \in {"sending", "failed"}
  <2>1. PICK o \in OidsOf(x) : o \in call[c].oids
    BY <1>2 DEF CallShape, Unsettled
  <2>2. o \in Oid /\ Has(c, o)
    BY <1>2, <2>1 DEF Has, Unsettled, OidsOf
  <2>3. oid[o].down
    BY <2>2 DEF IInv, TakenOnce
  <2>4. oid[o].alive
    BY <2>2, <2>3 DEF IInv, AllGood, Good
  <2>5. o \in Alive(x)
    BY <2>1, <2>4 DEF Alive
  <2> QED BY <1>0, <2>5, OxidThere
<1>3. call[c].at \in Referring \cup {"sending", "failed"}
  BY <1>0 DEF Referring
<1> QED BY <1>0, <1>1, <1>2, <1>3

\* A call that counts does so for one OXID.
Counts(k, x) == k.at \in Referring \/ k.helper => k.oxid = x

\* A call contributes 0 or 1, and only to its own OXID and process.
LEMMA Weights ==
  ASSUME NEW k, NEW x, NEW p
  PROVE  /\ RefW(k, x) \in {0, 1} /\ HelpW(k, x) \in {0, 1}
         /\ ActW(k, x) \in {0, 1} /\ CallerW(k, p) \in {0, 1}
BY DEF RefW, HelpW, ActW, CallerW

\* The weights of a call and of what it becomes.
LEMMA CallCounts ==
  ASSUME IInv, NEW c \in Call, NEW k \in Calls, call' = [call EXCEPT ![c] = k], NEW x0,
         Counts(call[c], x0), Counts(k, x0)
  PROVE  /\ \A x \in Oxid : Cardinality(Refers(x)') = Cardinality(Refers(x))
                 + (IF x = x0 THEN RefW(k, x0) - RefW(call[c], x0) ELSE 0)
         /\ \A x \in Oxid : Cardinality(Helping(x)') = Cardinality(Helping(x))
                 + (IF x = x0 THEN HelpW(k, x0) - HelpW(call[c], x0) ELSE 0)
         /\ \A p \in Process : Cardinality(Callers(p)') = Cardinality(Callers(p))
                 + (CallerW(k, p) - CallerW(call[c], p))
<1>1. ASSUME NEW x \in Oxid
      PROVE  /\ Cardinality(Refers(x)') = Cardinality(Refers(x))
                    + (IF x = x0 THEN RefW(k, x0) - RefW(call[c], x0) ELSE 0)
             /\ Cardinality(Helping(x)') = Cardinality(Helping(x))
                    + (IF x = x0 THEN HelpW(k, x0) - HelpW(call[c], x0) ELSE 0)
  <2>1. /\ Cardinality(Refers(x)') = Cardinality(Refers(x)) - RefW(call[c], x) + RefW(k, x)
        /\ Cardinality(Helping(x)') = Cardinality(Helping(x)) - HelpW(call[c], x) + HelpW(k, x)
    BY CallWeights DEF IInv
  <2>2. x # x0 => /\ RefW(call[c], x) = 0 /\ RefW(k, x) = 0
                  /\ HelpW(call[c], x) = 0 /\ HelpW(k, x) = 0
    BY DEF RefW, HelpW, Counts
  <2>3. /\ RefW(call[c], x) \in {0, 1} /\ RefW(k, x) \in {0, 1}
        /\ HelpW(call[c], x) \in {0, 1} /\ HelpW(k, x) \in {0, 1}
        /\ Cardinality(Refers(x)) \in Nat /\ Cardinality(Helping(x)) \in Nat
    BY Weights, Countable
  <2> QED BY <2>1, <2>2, <2>3
<1>2. ASSUME NEW p \in Process
      PROVE  Cardinality(Callers(p)') = Cardinality(Callers(p)) + (CallerW(k, p) - CallerW(call[c], p))
  <2>1. Cardinality(Callers(p)') = Cardinality(Callers(p)) - CallerW(call[c], p) + CallerW(k, p)
    BY CallWeights DEF IInv
  <2>2. CallerW(k, p) \in {0, 1} /\ CallerW(call[c], p) \in {0, 1} /\ Cardinality(Callers(p)) \in Nat
    BY Weights, Countable
  <2> QED BY <2>1, <2>2
<1> QED BY <1>1, <1>2

\* A step of a call that may delete objects.
LEMMA CallCommits ==
  ASSUME IInv, Lives, NEW c \in Call, NEW k \in Calls, call' = [call EXCEPT ![c] = k],
         NEW x0 \in Oxid, NEW q, NEW r \in OxidInts, NEW d \in [Process -> ProcInts],
         Commit(q, [oxid EXCEPT ![x0] = r], d), Exists(x0),
         \A o \in Oid : q[o].alive => oid[o].alive,
         Counts(call[c], x0), Counts(k, x0),
         r.refs = oxid[x0].refs + RunW(r) - RunW(oxid[x0])
                  + (RefW(k, x0) - RefW(call[c], x0)) + (HelpW(k, x0) - HelpW(call[c], x0)),
         \A p \in Process : /\ d[p].refs = proc[p].refs + (CallerW(k, p) - CallerW(call[c], p))
                            /\ UpW(d[p]) = UpW(proc[p])
  PROVE  Lives'
<1> DEFINE m == RefW(k, x0) - RefW(call[c], x0)
           n == HelpW(k, x0) - HelpW(call[c], x0)
<1>1. m \in Int /\ n \in Int
  BY Weights
<1>2. /\ \A x \in Oxid : Cardinality(Refers(x)') = Cardinality(Refers(x)) + (IF x = x0 THEN m ELSE 0)
      /\ \A x \in Oxid : Cardinality(Helping(x)') = Cardinality(Helping(x)) + (IF x = x0 THEN n ELSE 0)
      /\ \A p \in Process : Cardinality(Callers(p)') = Cardinality(Callers(p))
              + (CallerW(k, p) - CallerW(call[c], p))
  BY CallCounts
<1>3. r.refs = oxid[x0].refs + RunW(r) - RunW(oxid[x0]) + m + n
  OBVIOUS
<1> HIDE DEF m, n
<1>4. ASSUME NEW p \in Process
      PROVE  d[p].refs = UpW(d[p]) + Cardinality(Dependents(p)) + Cardinality(Callers(p)')
  <2>1. /\ proc[p].refs = UpW(proc[p]) + Cardinality(Dependents(p)) + Cardinality(Callers(p))
        /\ UpW(proc[p]) \in Nat
    BY LivesTyped DEF Lives, ProcsCounted
  <2>2. /\ Cardinality(Dependents(p)) \in Nat /\ Cardinality(Callers(p)) \in Nat
        /\ CallerW(k, p) \in {0, 1} /\ CallerW(call[c], p) \in {0, 1}
    BY Weights, Countable
  <2> QED BY <1>2, <2>1, <2>2
<1> QED BY <1>1, <1>2, <1>3, <1>4, OxidStep, SMTT(30)

\* A step of a call that deletes nothing.
LEMMA CallQuiet ==
  ASSUME IInv, Lives, NEW c \in Call, NEW k \in Calls, call' = [call EXCEPT ![c] = k],
         NEW x0 \in Oxid, NEW r \in OxidInts, Exists(x0), oxid' = [oxid EXCEPT ![x0] = r],
         proc' \in [Process -> ProcInts],
         \A o \in Oid : oid'[o].alive <=> oid[o].alive,
         Counts(call[c], x0), Counts(k, x0),
         r.refs > 0,
         r.refs = oxid[x0].refs + RunW(r) - RunW(oxid[x0])
                  + (RefW(k, x0) - RefW(call[c], x0)) + (HelpW(k, x0) - HelpW(call[c], x0)),
         \A p \in Process : /\ proc'[p].refs = proc[p].refs + (CallerW(k, p) - CallerW(call[c], p))
                            /\ UpW(proc'[p]) = UpW(proc[p])
  PROVE  Lives'
<1>1. /\ oxid' \in [Oxid -> OxidInts] /\ oxid'[x0] = r
      /\ \A x \in Oxid : x # x0 => oxid'[x] = oxid[x]
  BY LivesTyped
<1>2. \A x \in Oxid : Exists(x)' <=> Exists(x)
  BY <1>1 DEF Exists
<1>3. ASSUME NEW x \in Oxid
      PROVE  oxid'[x].refs = RunW(oxid'[x]) + Cardinality(Alive(x)')
                             + Cardinality(Refers(x)') + Cardinality(Helping(x)')
  <2>1. /\ oxid[x].refs = RunW(oxid[x]) + Cardinality(Alive(x)') + Cardinality(Refers(x))
                          + Cardinality(Helping(x))
        /\ RunW(oxid[x]) \in Nat
    BY <1>2, SameThere, LivesTyped DEF Lives, OxidsCounted
  <2>2. RunW(r) \in Nat
    BY DEF RunW, OxidInts
  <2>3. /\ Cardinality(Alive(x)') \in Nat /\ Cardinality(Refers(x)) \in Nat
        /\ Cardinality(Helping(x)) \in Nat
        /\ RefW(call[c], x) \in {0, 1} /\ RefW(k, x) \in {0, 1}
        /\ HelpW(call[c], x) \in {0, 1} /\ HelpW(k, x) \in {0, 1}
    BY Weights, Countable, CountableNext
  <2>4. /\ Cardinality(Refers(x)') = Cardinality(Refers(x))
                 + (IF x = x0 THEN RefW(k, x0) - RefW(call[c], x0) ELSE 0)
        /\ Cardinality(Helping(x)') = Cardinality(Helping(x))
                 + (IF x = x0 THEN HelpW(k, x0) - HelpW(call[c], x0) ELSE 0)
    BY CallCounts, ZenonT(60)
  <2>5. CASE x = x0
    BY <1>1, <2>1, <2>2, <2>3, <2>4, <2>5
  <2>6. CASE x # x0
    BY <1>1, <2>1, <2>2, <2>3, <2>4, <2>6
  <2> QED BY <2>5, <2>6
<1>4. ASSUME NEW p \in Process
      PROVE  proc'[p].refs = UpW(proc'[p]) + Cardinality(Dependents(p)') + Cardinality(Callers(p)')
  <2>1. /\ proc[p].refs = UpW(proc[p]) + Cardinality(Dependents(p)') + Cardinality(Callers(p))
        /\ UpW(proc[p]) \in Nat
    BY <1>2, SameThere, LivesTyped DEF Lives, ProcsCounted
  <2>2. /\ Cardinality(Dependents(p)') \in Nat /\ Cardinality(Callers(p)) \in Nat
        /\ CallerW(k, p) \in {0, 1} /\ CallerW(call[c], p) \in {0, 1}
    BY Weights, Countable, CountableNext
  <2>3. Cardinality(Callers(p)') = Cardinality(Callers(p)) + (CallerW(k, p) - CallerW(call[c], p))
    BY CallCounts, ZenonT(60)
  <2> QED BY <2>1, <2>2, <2>3
<1> QED BY <1>1, <1>3, <1>4, Uncommitted

\* The calls that close the shared binding handle, if they are the last.
Closing(x) == {c \in Call : call[c].at \in {"check", "handle"} /\ call[c].oxid = x}

CallsCounted ==
  \A x \in Oxid :
    /\ oxid[x].calls = Cardinality(Active(x))
    /\ oxid[x].calls <= MaxCalls
    /\ oxid[x].calls > 0 => oxid[x].handle
    /\ oxid[x].handle => oxid[x].calls > 0 \/ Closing(x) # {}

\* A call that is to settle OIDs is counted.
LEMMA ActiveCounted ==
  ASSUME Lives, CallsCounted, NEW c \in Call, call[c].at \in Unsettled, call[c].oxid \in Oxid
  PROVE  oxid[call[c].oxid].calls - 1 \in Nat
<1> DEFINE x == call[c].oxid
<1>1. c \in Active(x)
  BY DEF Active
<1>2. Cardinality(Active(x)) \in Nat /\ Cardinality(Active(x)) # 0
  BY <1>1, Countable, FS_EmptySet
<1> QED BY <1>2 DEF CallsCounted

\* A call at another stage.
Moved(c, stage) == [call[c] EXCEPT !.at = stage]

LEMMA MovedCall ==
  ASSUME IInv, NEW c \in Call, NEW stage \in Stages
  PROVE  /\ Moved(c, stage) \in Calls /\ Moved(c, stage).at = stage
         /\ Moved(c, stage).oxid = call[c].oxid /\ Moved(c, stage).oids = call[c].oids
         /\ Moved(c, stage).helper <=> call[c].helper
         /\ \A x \in Oxid : HelpW(Moved(c, stage), x) = HelpW(call[c], x)
<1>1. call[c] \in Calls
  BY CallTyped
<1>2. /\ Moved(c, stage) \in Calls /\ Moved(c, stage).at = stage
      /\ Moved(c, stage).oxid = call[c].oxid /\ Moved(c, stage).oids = call[c].oids
      /\ Moved(c, stage).helper <=> call[c].helper
  BY <1>1 DEF Moved, Calls
<1> QED BY <1>2 DEF HelpW

\* An OXID with another count of references.
WithRefs(x, n) == [oxid[x] EXCEPT !.refs = n]

LEMMA OxidRefs ==
  ASSUME Lives, NEW x \in Oxid, NEW n \in Int
  PROVE  /\ WithRefs(x, n) \in OxidInts /\ WithRefs(x, n).refs = n
         /\ RunW(WithRefs(x, n)) = RunW(oxid[x])
         /\ WithRefs(x, n).calls = oxid[x].calls
         /\ WithRefs(x, n).handle <=> oxid[x].handle
<1>1. oxid[x] \in OxidInts
  BY LivesTyped
<1>2. /\ WithRefs(x, n) \in OxidInts /\ WithRefs(x, n).refs = n
      /\ WithRefs(x, n).items = oxid[x].items /\ WithRefs(x, n).leaving = oxid[x].leaving
      /\ WithRefs(x, n).guests = oxid[x].guests
      /\ WithRefs(x, n).running <=> oxid[x].running
      /\ WithRefs(x, n).calls = oxid[x].calls
      /\ WithRefs(x, n).handle <=> oxid[x].handle
  BY <1>1 DEF WithRefs, OxidInts
<1> QED BY <1>2 DEF RunW

\* The processes when one of them has another count of references.
LEMMA ProcRefs ==
  ASSUME Lives, NEW p0 \in Process, NEW n \in Int
  PROVE  LET d == [proc EXCEPT ![p0].refs = n] IN
         /\ d \in [Process -> ProcInts]
         /\ \A p \in Process : /\ d[p].refs = IF p = p0 THEN n ELSE proc[p].refs
                               /\ UpW(d[p]) = UpW(proc[p])
<1> DEFINE e == [proc[p0] EXCEPT !.refs = n]
           d == [proc EXCEPT ![p0] = e]
<1>1. proc[p0] \in ProcInts /\ proc \in [Process -> ProcInts]
  BY LivesTyped
<1>2. e \in ProcInts /\ e.refs = n /\ (e.up <=> proc[p0].up)
  BY <1>1 DEF ProcInts
<1>3. UpW(e) = UpW(proc[p0])
  BY <1>2 DEF UpW
<1>4. [proc EXCEPT ![p0].refs = n] = d
  BY <1>1
<1> HIDE DEF e
<1> QED BY <1>1, <1>2, <1>3, <1>4

\* TakeReferences.
LEMMA TakeReferencesLives ==
  ASSUME IInv, Lives, CallShape, NEW c \in Call, TakeReferences(c)
  PROVE  Lives'
<1> DEFINE x == call[c].oxid
           k == Moved(c, "referenced")
           p0 == ProcessOf[x]
<1>0. /\ x \in Oxid /\ Exists(x) /\ p0 \in Process /\ call[c].at = "sending"
      /\ oxid[x].refs \in Nat /\ proc[p0].refs \in Nat
  BY CallThere, LivesTyped, ServerOidAssumption DEF TakeReferences
<1>1. /\ k \in Calls /\ k.at = "referenced" /\ k.oxid = x
      /\ HelpW(k, x) = HelpW(call[c], x)
  BY <1>0, MovedCall DEF Stages
<1>2. call' = [call EXCEPT ![c] = k]
  BY DEF TakeReferences, To, Moved
<1> DEFINE n == oxid[x].refs + 1
           r == WithRefs(x, n)
           j == proc[p0].refs + 1
<1>3. n \in Int /\ n > 0 /\ j \in Int
  BY <1>0
<1>4. oxid' = [oxid EXCEPT ![x] = r] /\ proc' = [proc EXCEPT ![p0].refs = j]
  BY <1>0, LivesTyped DEF TakeReferences, WithRefs
<1>5. r \in OxidInts /\ r.refs = n /\ RunW(r) = RunW(oxid[x]) /\ RunW(r) \in Nat
  BY <1>0, <1>3, OxidRefs, LivesTyped
<1>6. /\ proc' \in [Process -> ProcInts]
      /\ \A p \in Process : /\ proc'[p].refs = IF p = p0 THEN j ELSE proc[p].refs
                            /\ UpW(proc'[p]) = UpW(proc[p])
  BY <1>0, <1>3, <1>4, ProcRefs
<1>7. RefW(k, x) = 1 /\ RefW(call[c], x) = 0 /\ HelpW(call[c], x) \in {0, 1}
  BY <1>0, <1>1, Weights DEF RefW, Referring, Stages
<1>8. \A p \in Process : CallerW(k, p) = (IF p = p0 THEN 1 ELSE 0) /\ CallerW(call[c], p) = 0
  BY <1>0, <1>1 DEF CallerW, Referring, Stages
<1>9. Counts(call[c], x) /\ Counts(k, x)
  BY <1>1 DEF Counts
<1>10. UNCHANGED oid
  BY DEF TakeReferences
<1> HIDE DEF k, r
<1>11. /\ r.refs > 0
       /\ r.refs = oxid[x].refs + RunW(r) - RunW(oxid[x])
                   + (RefW(k, x) - RefW(call[c], x)) + (HelpW(k, x) - HelpW(call[c], x))
  BY <1>0, <1>1, <1>3, <1>5, <1>7
<1>12. \A p \in Process : /\ proc'[p].refs = proc[p].refs + (CallerW(k, p) - CallerW(call[c], p))
                          /\ UpW(proc'[p]) = UpW(proc[p])
  BY <1>0, <1>6, <1>8, LivesTyped
<1> QED BY <1>0, <1>1, <1>2, <1>4, <1>5, <1>6, <1>9, <1>10, <1>11, <1>12, CallQuiet

\* A call moves on and refers to its OXID as before, which changes no more
\* than what the OXID records of itself.
LEMMA CallSteps ==
  ASSUME IInv, Lives, CallShape, NEW c \in Call, call[c].at # "free",
         NEW k \in Calls, call' = [call EXCEPT ![c] = k], k.oxid = call[c].oxid,
         k.at \in Referring <=> call[c].at \in Referring,
         NEW r \in OxidInts, oxid' = [oxid EXCEPT ![call[c].oxid] = r],
         UNCHANGED <<oid, proc>>,
         oxid[call[c].oxid].refs <= r.refs,
         r.refs = oxid[call[c].oxid].refs + RunW(r) - RunW(oxid[call[c].oxid])
                  + (HelpW(k, call[c].oxid) - HelpW(call[c], call[c].oxid))
  PROVE  Lives'
<1> DEFINE x == call[c].oxid
<1>0. x \in Oxid /\ Exists(x) /\ oxid[x].refs \in Nat
  BY CallThere, LivesTyped
<1>1. /\ RefW(k, x) = RefW(call[c], x) /\ RefW(k, x) \in {0, 1}
      /\ HelpW(k, x) \in {0, 1} /\ HelpW(call[c], x) \in {0, 1}
  BY Weights DEF RefW
<1>2. \A p \in Process : CallerW(k, p) = CallerW(call[c], p) /\ CallerW(k, p) \in {0, 1}
  BY Weights DEF CallerW
<1>3. Counts(call[c], x) /\ Counts(k, x)
  BY DEF Counts
<1>4. /\ proc' \in [Process -> ProcInts]
      /\ \A p \in Process : proc[p].refs \in Nat /\ proc'[p] = proc[p]
  BY LivesTyped
<1>5. RunW(r) \in Nat /\ RunW(oxid[x]) \in Nat /\ r.refs \in Int
  BY <1>0, LivesTyped DEF RunW, OxidInts
<1>6. r.refs > 0
  BY <1>0, <1>5 DEF Exists
<1>7. r.refs = oxid[x].refs + RunW(r) - RunW(oxid[x])
               + (RefW(k, x) - RefW(call[c], x)) + (HelpW(k, x) - HelpW(call[c], x))
  BY <1>0, <1>1, <1>5
<1>8. \A p \in Process : /\ proc'[p].refs = proc[p].refs + (CallerW(k, p) - CallerW(call[c], p))
                         /\ UpW(proc'[p]) = UpW(proc[p])
  BY <1>2, <1>4
<1>9. oxid' = [oxid EXCEPT ![x] = r]
  OBVIOUS
<1> HIDE DEF x
<1> QED BY <1>0, <1>3, <1>4, <1>6, <1>7, <1>8, <1>9, CallQuiet

\* The same when the OXID changes nothing at all.
LEMMA CallOnly ==
  ASSUME IInv, Lives, CallShape, NEW c \in Call, call[c].at # "free",
         NEW k \in Calls, call' = [call EXCEPT ![c] = k], k.oxid = call[c].oxid,
         k.at \in Referring <=> call[c].at \in Referring,
         k.helper <=> call[c].helper,
         UNCHANGED <<oid, oxid, proc>>
  PROVE  Lives'
<1> DEFINE x == call[c].oxid
<1>0. x \in Oxid /\ oxid[x] \in OxidInts /\ oxid[x].refs \in Nat /\ RunW(oxid[x]) \in Nat
  BY CallThere, LivesTyped
<1>1. HelpW(k, x) = HelpW(call[c], x) /\ HelpW(k, x) \in {0, 1}
  BY Weights DEF HelpW
<1>2. oxid' = [oxid EXCEPT ![x] = oxid[x]]
  BY LivesTyped
<1>3. /\ oxid[x].refs <= oxid[x].refs
      /\ oxid[x].refs = oxid[x].refs + RunW(oxid[x]) - RunW(oxid[x])
                        + (HelpW(k, x) - HelpW(call[c], x))
  BY <1>0, <1>1
<1> QED BY <1>0, <1>2, <1>3, CallSteps

\* The stages that change no count.
LEMMA NoMemoryLives ==
  ASSUME IInv, Lives, CallShape, NEW c \in Call, NoMemory(c) \/ Returned(c)
  PROVE  Lives'
<1>1. PICK stage \in {"failed", "answered"} :
        /\ call[c].at = (IF stage = "failed" THEN "sending" ELSE "replying")
        /\ To(c, stage) /\ UNCHANGED <<oid, oxid, proc>>
  BY DEF NoMemory, Returned
<1> DEFINE k == Moved(c, stage)
<1>2. /\ k \in Calls /\ k.at = stage /\ k.oxid = call[c].oxid
      /\ k.helper <=> call[c].helper
  BY MovedCall DEF Stages
<1>3. call' = [call EXCEPT ![c] = k]
  BY <1>1 DEF To, Moved
<1>4. k.at \in Referring <=> call[c].at \in Referring
  BY <1>1, <1>2 DEF Referring, Stages
<1> HIDE DEF k
<1> QED BY <1>1, <1>2, <1>3, <1>4, CallOnly

LEMMA AnsweredLives ==
  ASSUME IInv, Lives, CallShape, NEW c \in Call, NEW stage \in {"replying", "answered"},
         NEW answer \in [Oid -> {"ok", "keep", "pinned"}],
         call[c].at \in {"out", "replying"}, UNCHANGED <<oid, oxid, proc>>,
         call' = [call EXCEPT ![c].at = stage, ![c].answer = answer]
  PROVE  Lives'
<1> DEFINE k == [call[c] EXCEPT !.at = stage, !.answer = answer]
<1>1. /\ k \in Calls /\ k.at = stage /\ k.oxid = call[c].oxid
      /\ k.helper <=> call[c].helper
  BY CallTyped DEF Calls, Stages
<1>2. call' = [call EXCEPT ![c] = k]
  BY DEF IInv, Shapes
<1>3. k.at \in Referring <=> call[c].at \in Referring
  BY <1>1 DEF Referring, Stages
<1> HIDE DEF k
<1> QED BY <1>1, <1>2, <1>3, CallOnly

LEMMA ServerAnswersLives ==
  ASSUME IInv, Lives, CallShape, NEW c \in Call, NEW a \in [Oid -> Answers], ServerAnswers(c, a)
  PROVE  Lives'
<1> DEFINE answer == [o \in Oid |-> IF o \in call[c].oids THEN a[o] ELSE "keep"]
<1>1. answer \in [Oid -> {"ok", "keep", "pinned"}]
  BY ServerOidAssumption
<1>2. /\ call' = [call EXCEPT ![c].at = "replying", ![c].answer = answer]
      /\ call[c].at \in {"out", "replying"} /\ UNCHANGED <<oid, oxid, proc>>
  BY DEF ServerAnswers
<1> HIDE DEF answer
<1> QED BY <1>1, <1>2, AnsweredLives

LEMMA ReturnedErrorLives ==
  ASSUME IInv, Lives, CallShape, NEW c \in Call, ReturnedError(c)
  PROVE  Lives'
<1>1. PICK v \in {"ok", "keep"} :
        call' = [call EXCEPT ![c].at = "answered", ![c].answer = AllAnswer(v)]
  BY DEF ReturnedError
<1> DEFINE answer == AllAnswer(v)
<1>2. answer \in [Oid -> {"ok", "keep", "pinned"}]
  BY DEF AllAnswer
<1> HIDE DEF answer
<1>3. /\ call' = [call EXCEPT ![c].at = "answered", ![c].answer = answer]
      /\ call[c].at \in {"out", "replying"} /\ UNCHANGED <<oid, oxid, proc>>
  BY <1>1 DEF ReturnedError, answer
<1> QED BY <1>2, <1>3, AnsweredLives

\* A helper thread that has sent its call keeps its reference a while.
LEMMA IssueLives ==
  ASSUME IInv, Lives, CallShape, NEW c \in Call, Issue(c)
  PROVE  Lives'
<1> DEFINE x == call[c].oxid
           k == [call[c] EXCEPT !.at = "out", !.helper = FALSE]
           m == oxid[x].leaving + 1
           r == IF call[c].helper THEN [oxid[x] EXCEPT !.leaving = m] ELSE oxid[x]
<1>0. /\ x \in Oxid /\ oxid[x] \in OxidInts /\ oxid[x].refs \in Nat /\ RunW(oxid[x]) \in Nat
      /\ call[c].at = "referenced" /\ oxid[x].leaving \in Nat
  BY CallThere, LivesTyped DEF Issue
<1>1. k \in Calls /\ k.at = "out" /\ k.oxid = x /\ ~ k.helper
  BY CallTyped DEF Calls, Stages
<1>2. call' = [call EXCEPT ![c] = k] /\ UNCHANGED <<oid, proc>>
  BY DEF Issue, IInv, Shapes
<1>3. oxid' = [oxid EXCEPT ![x] = r]
  BY <1>0, LivesTyped DEF Issue
<1>4. m \in Nat
  BY <1>0
<1>5. /\ r \in OxidInts /\ r.refs = oxid[x].refs
      /\ r.leaving = IF call[c].helper THEN m ELSE oxid[x].leaving
      /\ r.items = oxid[x].items /\ r.guests = oxid[x].guests
      /\ (r.running <=> oxid[x].running)
  BY <1>0, <1>4 DEF OxidInts
<1>6. k.at \in Referring <=> call[c].at \in Referring
  BY <1>0, <1>1 DEF Referring, Stages
<1>7. HelpW(k, x) = 0 /\ HelpW(call[c], x) = IF call[c].helper THEN 1 ELSE 0
  BY <1>1 DEF HelpW
<1> HIDE DEF k, r
<1>8. /\ oxid[x].refs <= r.refs
      /\ r.refs = oxid[x].refs + RunW(r) - RunW(oxid[x]) + (HelpW(k, x) - HelpW(call[c], x))
  BY <1>0, <1>5, <1>7 DEF RunW, OxidInts
<1> QED BY <1>0, <1>1, <1>2, <1>3, <1>5, <1>6, <1>8, CallSteps

\* A helper that is queued gets a reference.
LEMMA CheckForMoreLives ==
  ASSUME IInv, Lives, CallShape, NEW c \in Call, CheckForMore(c)
  PROVE  Lives'
<1> DEFINE x == call[c].oxid
           k == Moved(c, "handle")
           m == oxid[x].refs + 1
           n == oxid[x].items + 1
           more == [oxid[x] EXCEPT !.refs = m, !.items = n]
<1>0. /\ x \in Oxid /\ oxid[x] \in OxidInts /\ oxid[x].refs \in Nat /\ RunW(oxid[x]) \in Nat
      /\ call[c].at = "check" /\ oxid[x].items \in Nat
  BY CallThere, LivesTyped DEF CheckForMore
<1>1. /\ k \in Calls /\ k.at = "handle" /\ k.oxid = x /\ (k.helper <=> call[c].helper)
      /\ HelpW(k, x) = HelpW(call[c], x) /\ HelpW(k, x) \in {0, 1}
  BY <1>0, MovedCall, Weights DEF Stages
<1>2. call' = [call EXCEPT ![c] = k] /\ UNCHANGED <<oid, proc>>
  BY DEF CheckForMore, To, Moved
<1>3. k.at \in Referring <=> call[c].at \in Referring
  BY <1>0, <1>1 DEF Referring, Stages
<1> HIDE DEF k
<1>4. CASE UNCHANGED oxid
  BY <1>0, <1>1, <1>2, <1>3, <1>4, CallOnly
<1>5. CASE oxid' = [oxid EXCEPT ![x].refs = @ + 1, ![x].items = @ + 1]
  <2>1. oxid' = [oxid EXCEPT ![x] = more]
    BY <1>0, <1>5, LivesTyped
  <2>2. m \in Int /\ n \in Nat
    BY <1>0
  <2>3. /\ more \in OxidInts /\ more.refs = m /\ more.items = n
        /\ more.leaving = oxid[x].leaving /\ more.guests = oxid[x].guests
        /\ (more.running <=> oxid[x].running)
    BY <1>0, <2>2 DEF OxidInts
  <2> HIDE DEF more
  <2>4. /\ oxid[x].refs <= more.refs
        /\ more.refs = oxid[x].refs + RunW(more) - RunW(oxid[x])
                       + (HelpW(k, x) - HelpW(call[c], x))
    BY <1>0, <1>1, <2>3 DEF RunW, OxidInts
  <2> QED BY <1>0, <1>1, <1>2, <1>3, <2>1, <2>3, <2>4, CallSteps
<1> QED BY <1>4, <1>5 DEF CheckForMore

LEMMA ReleaseRundownHandleLives ==
  ASSUME IInv, Lives, CallShape, NEW c \in Call, ReleaseRundownHandle(c)
  PROVE  Lives'
<1> DEFINE x == call[c].oxid
           k == Moved(c, "drop")
           h == HandleLeft(oxid[x])
           r == [oxid[x] EXCEPT !.handle = h]
<1>0. /\ x \in Oxid /\ oxid[x] \in OxidInts /\ oxid[x].refs \in Nat /\ RunW(oxid[x]) \in Nat
      /\ call[c].at = "handle"
  BY CallThere, LivesTyped DEF ReleaseRundownHandle
<1>1. /\ k \in Calls /\ k.at = "drop" /\ k.oxid = x
      /\ HelpW(k, x) = HelpW(call[c], x) /\ HelpW(k, x) \in {0, 1}
  BY <1>0, MovedCall, Weights DEF Stages
<1>2. call' = [call EXCEPT ![c] = k] /\ UNCHANGED <<oid, proc>>
  BY DEF ReleaseRundownHandle, To, Moved
<1>3. k.at \in Referring <=> call[c].at \in Referring
  BY <1>0, <1>1 DEF Referring, Stages
<1>4. oxid' = [oxid EXCEPT ![x] = r] /\ h \in BOOLEAN
  BY <1>0, LivesTyped DEF ReleaseRundownHandle, HandleLeft
<1> HIDE DEF k, h
<1>5. /\ r \in OxidInts /\ r.refs = oxid[x].refs /\ r.items = oxid[x].items
      /\ r.leaving = oxid[x].leaving /\ r.guests = oxid[x].guests
      /\ (r.running <=> oxid[x].running)
  BY <1>0, <1>4 DEF OxidInts
<1> HIDE DEF r
<1>6. /\ oxid[x].refs <= r.refs
      /\ r.refs = oxid[x].refs + RunW(r) - RunW(oxid[x]) + (HelpW(k, x) - HelpW(call[c], x))
  BY <1>0, <1>1, <1>5 DEF RunW, OxidInts
<1> QED BY <1>0, <1>1, <1>2, <1>3, <1>4, <1>5, <1>6, CallSteps

\* A call gives back the references that it took.
LEMMA ReferencesReturned ==
  ASSUME IInv, Lives, CallShape, NEW c \in Call, call[c].at \in Referring,
         NEW k \in Calls, call' = [call EXCEPT ![c] = k], k.at \notin Referring,
         k.helper => k.oxid = call[c].oxid,
         HelpW(k, call[c].oxid) = HelpW(call[c], call[c].oxid),
         Commit(oid, [oxid EXCEPT ![call[c].oxid].refs = @ - 1],
                [proc EXCEPT ![ProcessOf[call[c].oxid]].refs = @ - 1])
  PROVE  Lives'
<1> DEFINE x == call[c].oxid
           p0 == ProcessOf[x]
           n == oxid[x].refs - 1
           r == WithRefs(x, n)
           j == proc[p0].refs - 1
           d == [proc EXCEPT ![p0].refs = j]
<1>0. /\ x \in Oxid /\ Exists(x) /\ p0 \in Process
      /\ oxid[x].refs \in Nat /\ proc[p0].refs \in Nat
  BY CallThere, LivesTyped, ServerOidAssumption DEF Referring
<1>1. n \in Int /\ j \in Int
  BY <1>0
<1>2. Commit(oid, [oxid EXCEPT ![x] = r], d)
  <2>1. [oxid EXCEPT ![x].refs = @ - 1] = [oxid EXCEPT ![x] = r]
    BY <1>0, LivesTyped DEF WithRefs
  <2>2. [proc EXCEPT ![p0].refs = @ - 1] = d
    BY <1>0, LivesTyped
  <2> HIDE DEF r, d
  <2> QED BY <2>1, <2>2
<1>3. r \in OxidInts /\ r.refs = n /\ RunW(r) = RunW(oxid[x]) /\ RunW(r) \in Nat
  BY <1>0, <1>1, OxidRefs, LivesTyped
<1> HIDE DEF j
<1>4. /\ d \in [Process -> ProcInts]
      /\ \A p \in Process : /\ d[p].refs = IF p = p0 THEN j ELSE proc[p].refs
                            /\ UpW(d[p]) = UpW(proc[p])
  BY <1>0, <1>1, ProcRefs
<1>5. RefW(k, x) = 0 /\ RefW(call[c], x) = 1 /\ HelpW(k, x) \in {0, 1}
  BY Weights DEF RefW
<1>6. \A p \in Process : CallerW(call[c], p) = (IF p = p0 THEN 1 ELSE 0) /\ CallerW(k, p) = 0
  BY DEF CallerW
<1>7. Counts(call[c], x) /\ Counts(k, x)
  BY DEF Counts
<1> USE DEF j
<1> HIDE DEF r, d
<1>8. r.refs = oxid[x].refs + RunW(r) - RunW(oxid[x])
               + (RefW(k, x) - RefW(call[c], x)) + (HelpW(k, x) - HelpW(call[c], x))
  BY <1>0, <1>3, <1>5
<1>9. \A p \in Process : /\ d[p].refs = proc[p].refs + (CallerW(k, p) - CallerW(call[c], p))
                         /\ UpW(d[p]) = UpW(proc[p])
  BY <1>0, <1>4, <1>6, LivesTyped, SMTT(30)
<1> HIDE DEF x, j
<1> QED BY <1>0, <1>2, <1>3, <1>4, <1>7, <1>8, <1>9, CallCommits

LEMMA IssueFailsLives ==
  ASSUME IInv, Lives, CallShape, NEW c \in Call, IssueFails(c)
  PROVE  Lives'
<1> DEFINE k == Moved(c, "failed")
<1>0. call[c].oxid \in Oxid /\ call[c].at = "referenced" /\ call[c].at \in Referring
  BY CallThere DEF IssueFails, Referring, Stages
<1>1. /\ k \in Calls /\ k.at = "failed" /\ k.oxid = call[c].oxid
      /\ HelpW(k, call[c].oxid) = HelpW(call[c], call[c].oxid)
  BY <1>0, MovedCall DEF Stages
<1>2. call' = [call EXCEPT ![c] = k]
  BY DEF IssueFails, To, Moved
<1>3. k.at \notin Referring
  BY <1>1 DEF Referring
<1> HIDE DEF k
<1> QED BY <1>0, <1>1, <1>2, <1>3, ReferencesReturned DEF IssueFails

LEMMA DropReferencesLives ==
  ASSUME IInv, Lives, CallShape, NEW c \in Call, DropReferences(c)
  PROVE  Lives'
<1>0. /\ call[c].oxid \in Oxid /\ call[c].at = "drop" /\ call[c].at \in Referring
      /\ ~ call[c].helper
  BY CallThere DEF DropReferences, Referring, Stages, CallShape
<1>1. NoCall \in Calls /\ NoCall.at \notin Referring /\ ~ NoCall.helper
  BY NoCallTyped DEF NoCall, Referring
<1>2. HelpW(NoCall, call[c].oxid) = HelpW(call[c], call[c].oxid)
  BY <1>0, <1>1 DEF HelpW
<1> HIDE DEF NoCall
<1> QED BY <1>0, <1>1, <1>2, ReferencesReturned DEF DropReferences

\* A call settles its OIDs, and its OXID counts it no longer.
LEMMA SettledLives ==
  ASSUME IInv, Lives, CallShape, CallsCounted, NEW c \in Call, call[c].at \in Unsettled,
         NEW k \in Calls, call' = [call EXCEPT ![c] = k],
         k.at \in Referring <=> call[c].at \in Referring,
         k.at \in Referring \/ k.helper => k.oxid = call[c].oxid,
         NEW answer,
         NEW r \in OxidInts,
         r.refs = oxid[call[c].oxid].refs + RunW(r) - RunW(oxid[call[c].oxid])
                  + (HelpW(k, call[c].oxid) - HelpW(call[c], call[c].oxid)),
         Commit([o \in Oid |-> IF o \in call[c].oids THEN Result(oid[o], answer[o]) ELSE oid[o]],
                [oxid EXCEPT ![call[c].oxid] = r], proc)
  PROVE  Lives'
<1> DEFINE x == call[c].oxid
           q == [o \in Oid |-> IF o \in call[c].oids THEN Result(oid[o], answer[o]) ELSE oid[o]]
<1>0. x \in Oxid /\ Exists(x) /\ oxid[x].refs \in Nat
  BY CallThere, LivesTyped DEF Unsettled
<1>1. ASSUME NEW o \in Oid PROVE q[o].alive => oid[o].alive
  <2>1. oid[o] \in OidObjects
    BY DEF IInv, Shapes
  <2> QED BY <2>1, ResultAlive
<1>2. Commit(q, [oxid EXCEPT ![x] = r], proc)
  OBVIOUS
<1>3. RefW(k, x) = RefW(call[c], x) /\ RefW(k, x) \in {0, 1}
  BY Weights DEF RefW
<1>4. \A p \in Process : CallerW(k, p) = CallerW(call[c], p) /\ CallerW(k, p) \in {0, 1}
  BY Weights DEF CallerW
<1>5. Counts(call[c], x) /\ Counts(k, x)
  BY DEF Counts
<1>6. RunW(r) \in Nat /\ RunW(oxid[x]) \in Nat /\ HelpW(k, x) \in {0, 1} /\ HelpW(call[c], x) \in {0, 1}
  <2>1. RunW(r) \in Nat
    BY DEF RunW, OxidInts
  <2>2. RunW(oxid[x]) \in Nat
    BY <1>0, LivesTyped
  <2> QED BY <2>1, <2>2, Weights
<1>7. r.refs = oxid[x].refs + RunW(r) - RunW(oxid[x])
               + (RefW(k, x) - RefW(call[c], x)) + (HelpW(k, x) - HelpW(call[c], x))
  BY <1>0, <1>3, <1>6
<1>8. \A p \in Process : /\ proc[p].refs = proc[p].refs + (CallerW(k, p) - CallerW(call[c], p))
                         /\ UpW(proc[p]) = UpW(proc[p])
  BY <1>4, LivesTyped
<1> HIDE DEF x, q
<1> QED BY <1>0, <1>1, <1>2, <1>5, <1>7, <1>8, LivesTyped, CallCommits

LEMMA CallFailedLives ==
  ASSUME IInv, Lives, CallShape, CallsCounted, NEW c \in Call, CallFailed(c)
  PROVE  Lives'
<1> DEFINE x == call[c].oxid
           v == IF oxid[x].running THEN "keep" ELSE "ok"
           answer == AllAnswer(v)
           left == [oxid[x] EXCEPT !.calls = @ - 1,
                           !.leaving = @ + (IF call[c].helper THEN 1 ELSE 0)]
           h == HandleLeft(left)
           l == oxid[x].calls - 1
           m == oxid[x].leaving + (IF call[c].helper THEN 1 ELSE 0)
           r == [left EXCEPT !.handle = h]
<1>0. /\ x \in Oxid /\ oxid[x] \in OxidInts /\ oxid[x].refs \in Nat /\ RunW(oxid[x]) \in Nat
      /\ call[c].at = "failed" /\ call[c].at \in Unsettled /\ oxid[x].leaving \in Nat
  BY CallThere, LivesTyped DEF CallFailed, Unsettled
<1>1. l \in Nat /\ m \in Nat
  BY <1>0, ActiveCounted
<1>2. /\ Commit([o \in Oid |-> IF o \in call[c].oids THEN Result(oid[o], answer[o]) ELSE oid[o]],
                [oxid EXCEPT ![x] = r], proc)
      /\ call' = [call EXCEPT ![c] = NoCall]
  BY DEF CallFailed, AllAnswer
<1>3. left \in OxidInts /\ left = [oxid[x] EXCEPT !.calls = l, !.leaving = m]
  <2>1. left = [oxid[x] EXCEPT !.calls = l, !.leaving = m]
    BY <1>0 DEF OxidInts
  <2> HIDE DEF left, l, m
  <2> QED BY <1>0, <1>1, <2>1 DEF OxidInts
<1> HIDE DEF left, answer
<1>4. /\ left.refs = oxid[x].refs /\ left.items = oxid[x].items
      /\ left.leaving = m /\ left.guests = oxid[x].guests
      /\ (left.running <=> oxid[x].running)
  BY <1>0, <1>1, <1>3 DEF OxidInts
<1>5. h \in BOOLEAN
  BY <1>3 DEF HandleLeft, OxidInts
<1> HIDE DEF h
<1>6. /\ r \in OxidInts /\ r.refs = left.refs /\ r.items = left.items
      /\ r.leaving = left.leaving /\ r.guests = left.guests
      /\ (r.running <=> left.running)
  BY <1>3, <1>5 DEF OxidInts
<1>7. NoCall \in Calls /\ NoCall.at \notin Referring /\ ~ NoCall.helper
  BY NoCallTyped DEF NoCall, Referring
<1>8. call[c].at \notin Referring
  BY <1>0 DEF Referring
<1>9. HelpW(NoCall, x) = 0 /\ HelpW(call[c], x) = IF call[c].helper THEN 1 ELSE 0
  BY <1>7 DEF HelpW
<1> HIDE DEF r, l
<1>10. r.refs = oxid[x].refs + RunW(r) - RunW(oxid[x]) + (HelpW(NoCall, x) - HelpW(call[c], x))
  BY <1>0, <1>1, <1>4, <1>6, <1>9 DEF RunW, OxidInts
<1> HIDE DEF NoCall, m
<1> QED BY <1>0, <1>2, <1>6, <1>7, <1>8, <1>10, SettledLives

LEMMA ProcessResultsLives ==
  ASSUME IInv, Lives, CallShape, CallsCounted, NEW c \in Call, ProcessResults(c)
  PROVE  Lives'
<1> DEFINE x == call[c].oxid
           answer == call[c].answer
           k == [call[c] EXCEPT !.at = "check", !.oids = {}, !.answer = AllAnswer("keep")]
           l == oxid[x].calls - 1
           r == [oxid[x] EXCEPT !.calls = l]
<1>0. /\ x \in Oxid /\ oxid[x] \in OxidInts /\ oxid[x].refs \in Nat /\ RunW(oxid[x]) \in Nat
      /\ call[c].at = "answered" /\ call[c].at \in Unsettled
  BY CallThere, LivesTyped DEF ProcessResults, Unsettled
<1>1. l \in Nat
  BY <1>0, ActiveCounted
<1>2. Commit([o \in Oid |-> IF o \in call[c].oids THEN Result(oid[o], answer[o]) ELSE oid[o]],
             [oxid EXCEPT ![x] = r], proc)
  <2>1. [oxid EXCEPT ![x].calls = @ - 1] = [oxid EXCEPT ![x] = r]
    BY <1>0, LivesTyped
  <2> HIDE DEF r
  <2> QED BY <2>1 DEF ProcessResults
<1>3. call' = [call EXCEPT ![c] = k]
  BY DEF ProcessResults, IInv, Shapes
<1>4. AllAnswer("keep") \in [Oid -> {"ok", "keep", "pinned"}]
  BY DEF AllAnswer
<1>5. k \in Calls /\ k.at = "check" /\ k.oxid = x /\ (k.helper <=> call[c].helper)
  BY <1>4, CallTyped DEF Calls, Stages
<1>6. k.at \in Referring <=> call[c].at \in Referring
  BY <1>0, <1>5 DEF Referring, Stages
<1> HIDE DEF k, answer
<1>7. HelpW(k, x) = HelpW(call[c], x) /\ HelpW(k, x) \in {0, 1}
  BY <1>5, Weights DEF HelpW
<1> HIDE DEF l
<1>8. /\ r \in OxidInts /\ r.refs = oxid[x].refs /\ r.items = oxid[x].items
      /\ r.leaving = oxid[x].leaving /\ r.guests = oxid[x].guests
      /\ (r.running <=> oxid[x].running)
  BY <1>0, <1>1 DEF OxidInts
<1> HIDE DEF r
<1>9. r.refs = oxid[x].refs + RunW(r) - RunW(oxid[x]) + (HelpW(k, x) - HelpW(call[c], x))
  BY <1>0, <1>7, <1>8 DEF RunW, OxidInts
<1> QED BY <1>0, <1>2, <1>3, <1>5, <1>6, <1>8, <1>9, SettledLives

\* A batch keeps its OXID.
LEMMA BatchThere ==
  ASSUME IInv, Lives, NEW x \in Oxid, NEW B \in Batches(x)
  PROVE  Exists(x) /\ B # {} /\ B \subseteq OidsOf(x)
<1>1. B # {} /\ B \subseteq Eligible(x)
  BY DEF Batches
<1>2. PICK o \in B : o \in Oid /\ o \in OidsOf(x) /\ oid[o].timer # "out"
  BY <1>1 DEF Eligible, OidsOf
<1>3. oid[o].alive
  BY <1>2 DEF IInv, AllGood, Good
<1>4. o \in Alive(x)
  BY <1>2, <1>3 DEF Alive
<1> QED BY <1>1, <1>4, OxidThere DEF Eligible

\* RundownOids sends a call: the helper's reference goes with it.
LEMMA CallStarts ==
  ASSUME IInv, Lives, CallShape, NEW x \in Oxid, Exists(x), NEW c \in Call, call[c].at = "free",
         NEW k \in Calls, k.at = "sending", k.oxid = x, call' = [call EXCEPT ![c] = k],
         UNCHANGED proc, \A o \in Oid : oid'[o].alive <=> oid[o].alive,
         NEW r \in OxidInts, oxid' = [oxid EXCEPT ![x] = r], r.refs = oxid[x].refs,
         RunW(oxid[x]) = RunW(r) + HelpW(k, x)
  PROVE  Lives'
<1>0. /\ oxid[x].refs \in Nat /\ RunW(oxid[x]) \in Nat /\ ~ call[c].helper
      /\ call[c].at \notin Referring
  BY LivesTyped DEF CallShape, Referring
<1>1. RefW(k, x) = 0 /\ RefW(call[c], x) = 0 /\ HelpW(call[c], x) = 0
  BY <1>0 DEF RefW, HelpW, Referring
<1>2. \A p \in Process : CallerW(k, p) = 0 /\ CallerW(call[c], p) = 0
  BY <1>0 DEF CallerW, Referring
<1>3. Counts(call[c], x) /\ Counts(k, x)
  BY <1>0 DEF Counts
<1>4. RunW(r) \in Nat /\ HelpW(k, x) \in {0, 1}
  <2>1. RunW(r) \in Nat
    BY DEF RunW, OxidInts
  <2> QED BY <2>1, Weights
<1>5. r.refs > 0
  BY <1>0 DEF Exists
<1>6. r.refs = oxid[x].refs + RunW(r) - RunW(oxid[x])
               + (RefW(k, x) - RefW(call[c], x)) + (HelpW(k, x) - HelpW(call[c], x))
  BY <1>0, <1>1, <1>4
<1>7. /\ proc' \in [Process -> ProcInts]
      /\ \A p \in Process : /\ proc'[p].refs = proc[p].refs + (CallerW(k, p) - CallerW(call[c], p))
                            /\ UpW(proc'[p]) = UpW(proc[p])
  BY <1>2, LivesTyped
<1> QED BY <1>3, <1>5, <1>6, <1>7, CallQuiet

\* The OXID as the thread that starts a call leaves it; w is 1 for a helper.
Before(x, w) == [oxid[x] EXCEPT !.items = @ - w]

\* The OXID when a call was made, and when there is none: a helper is done.
Sent(x, w) == [Before(x, w) EXCEPT !.calls = oxid[x].calls + 1, !.handle = TRUE]
Unsent(x, w) == [Before(x, w) EXCEPT !.leaving = @ + w]
NotSent(x, w) == [Unsent(x, w) EXCEPT !.handle = HandleLeft(Unsent(x, w))]

LEMMA BeforeCounts ==
  ASSUME Lives, NEW x \in Oxid, NEW w \in {0, 1}, w <= oxid[x].items
  PROVE  /\ Before(x, w) \in OxidInts
         /\ Before(x, w).items = oxid[x].items - w
         /\ Before(x, w).refs = oxid[x].refs /\ Before(x, w).calls = oxid[x].calls
         /\ Before(x, w).leaving = oxid[x].leaving
         /\ Before(x, w).guests = oxid[x].guests
         /\ (Before(x, w).running <=> oxid[x].running)
         /\ (Before(x, w).handle <=> oxid[x].handle)
<1> DEFINE n == oxid[x].items - w
<1>1. oxid[x] \in OxidInts /\ n \in Nat
  BY LivesTyped
<1>2. Before(x, w) = [oxid[x] EXCEPT !.items = n]
  BY DEF Before
<1> HIDE DEF n
<1>3. /\ Before(x, w) \in OxidInts
      /\ Before(x, w).items = n
      /\ Before(x, w).refs = oxid[x].refs /\ Before(x, w).calls = oxid[x].calls
      /\ Before(x, w).leaving = oxid[x].leaving
      /\ Before(x, w).guests = oxid[x].guests
      /\ (Before(x, w).running <=> oxid[x].running)
      /\ (Before(x, w).handle <=> oxid[x].handle)
  BY <1>1, <1>2 DEF OxidInts
<1> QED BY <1>3 DEF n

LEMMA SentCounts ==
  ASSUME Lives, NEW x \in Oxid, NEW w \in {0, 1}, w <= oxid[x].items
  PROVE  /\ Sent(x, w) \in OxidInts /\ Sent(x, w).refs = oxid[x].refs
         /\ RunW(oxid[x]) = RunW(Sent(x, w)) + w
         /\ Sent(x, w).calls = oxid[x].calls + 1 /\ Sent(x, w).handle
         /\ (Sent(x, w).running <=> oxid[x].running)
<1> DEFINE r == Sent(x, w)
           s == Before(x, w)
           l == oxid[x].calls + 1
<1>1. /\ s \in OxidInts /\ s.items = oxid[x].items - w
      /\ s.refs = oxid[x].refs
      /\ s.leaving = oxid[x].leaving /\ s.guests = oxid[x].guests
      /\ (s.running <=> oxid[x].running)
  BY BeforeCounts
<1>2. l \in Nat
  BY LivesTyped
<1>3. r = [s EXCEPT !.calls = l, !.handle = TRUE]
  BY DEF Sent
<1> HIDE DEF r, s, l
<1>4. /\ r \in OxidInts /\ r.refs = s.refs /\ r.items = s.items
      /\ r.leaving = s.leaving /\ r.guests = s.guests
      /\ (r.running <=> s.running) /\ r.calls = l /\ r.handle
  BY <1>1, <1>2, <1>3 DEF OxidInts
<1>5. /\ oxid[x].items \in Nat /\ oxid[x].leaving \in Nat /\ oxid[x].guests \in Nat
  BY LivesTyped
<1>6. RunW(oxid[x]) = RunW(r) + w
  BY <1>1, <1>4, <1>5 DEF RunW
<1> QED BY <1>1, <1>4, <1>6 DEF l, r

LEMMA NotSentCounts ==
  ASSUME Lives, NEW x \in Oxid, NEW w \in {0, 1}, w <= oxid[x].items
  PROVE  /\ NotSent(x, w) \in OxidInts
         /\ NotSent(x, w).refs = oxid[x].refs + RunW(NotSent(x, w)) - RunW(oxid[x])
         /\ NotSent(x, w).calls = oxid[x].calls
         /\ (NotSent(x, w).handle <=> oxid[x].handle /\ oxid[x].calls > 0)
         /\ (NotSent(x, w).running <=> oxid[x].running)
<1> DEFINE r == NotSent(x, w)
           left == Unsent(x, w)
           s == Before(x, w)
           m == oxid[x].leaving + w
           h == HandleLeft(left)
<1>1. /\ s \in OxidInts /\ s.items = oxid[x].items - w
      /\ s.refs = oxid[x].refs /\ s.calls = oxid[x].calls
      /\ s.leaving = oxid[x].leaving /\ s.guests = oxid[x].guests
      /\ (s.running <=> oxid[x].running) /\ (s.handle <=> oxid[x].handle)
  BY BeforeCounts
<1>2. m \in Nat
  BY LivesTyped
<1>3. left = [s EXCEPT !.leaving = m]
  BY <1>1 DEF Unsent
<1> HIDE DEF s, m, left
<1>4. /\ left \in OxidInts /\ left.refs = s.refs /\ left.items = s.items
      /\ left.leaving = m /\ left.guests = s.guests /\ left.calls = s.calls
      /\ (left.running <=> s.running) /\ (left.handle <=> s.handle)
  BY <1>1, <1>2, <1>3 DEF OxidInts
<1>5. h \in BOOLEAN /\ (h <=> oxid[x].handle /\ oxid[x].calls > 0)
  BY <1>1, <1>4 DEF HandleLeft
<1> HIDE DEF h
<1>6. r = [left EXCEPT !.handle = h]
  BY DEF NotSent, h, left
<1> HIDE DEF r
<1>7. /\ r \in OxidInts /\ r.refs = left.refs /\ r.items = left.items
      /\ r.leaving = left.leaving /\ r.guests = left.guests
      /\ (r.running <=> left.running) /\ r.calls = left.calls /\ (r.handle <=> h)
  BY <1>4, <1>5, <1>6 DEF OxidInts
<1>8. /\ oxid[x].items \in Nat /\ oxid[x].leaving \in Nat /\ oxid[x].guests \in Nat
      /\ oxid[x].refs \in Nat
  BY LivesTyped
<1>9. RunW(oxid[x]) = RunW(r) /\ RunW(r) \in Nat
  BY <1>1, <1>4, <1>7, <1>8 DEF RunW, m
<1>10. /\ r \in OxidInts /\ r.refs = oxid[x].refs + RunW(r) - RunW(oxid[x])
       /\ r.calls = oxid[x].calls /\ (r.handle <=> oxid[x].handle /\ oxid[x].calls > 0)
       /\ (r.running <=> oxid[x].running)
  BY <1>1, <1>4, <1>5, <1>7, <1>8, <1>9
<1> QED BY <1>10 DEF r

\* Results bring no OID back.
LEMMA BatchAlive ==
  ASSUME IInv, NEW B, NEW answer, NEW q,
         q = [o \in Oid |-> IF o \in B
                THEN Result([oid[o] EXCEPT !.down = TRUE, !.timer = "out"], answer)
                ELSE oid[o]],
         NEW o \in Oid
  PROVE  q[o].alive => oid[o].alive
<1> DEFINE t == [oid[o] EXCEPT !.down = TRUE, !.timer = "out"]
<1>1. t \in OidObjects /\ (t.alive <=> oid[o].alive)
  BY DEF IInv, Shapes, OidObjects, Timers
<1>2. q[o] = IF o \in B THEN Result(t, answer) ELSE oid[o]
  OBVIOUS
<1> HIDE DEF t
<1> QED BY <1>1, <1>2, ResultAlive

\* StartRundown, the two outcomes.
LEMMA StartSends ==
  ASSUME IInv, Lives, CallShape, NEW x \in Oxid, NEW B \in Batches(x),
         NEW c \in Call, call[c].at = "free",
         NEW w \in {0, 1}, w <= oxid[x].items,
         NEW k \in Calls, k.at = "sending", k.oxid = x, HelpW(k, x) = w,
         oxid' = [oxid EXCEPT ![x] = Sent(x, w)], call' = [call EXCEPT ![c] = k], UNCHANGED proc,
         \A o \in Oid : oid'[o].alive <=> oid[o].alive
  PROVE  Lives'
<1>1. Exists(x)
  BY BatchThere
<1>2. /\ Sent(x, w) \in OxidInts /\ Sent(x, w).refs = oxid[x].refs
      /\ RunW(oxid[x]) = RunW(Sent(x, w)) + HelpW(k, x)
  BY SentCounts
<1> QED BY <1>1, <1>2, CallStarts

LEMMA StartLives ==
  ASSUME IInv, Lives, CallShape, NEW x \in Oxid, NEW B \in Batches(x),
         NEW c \in Call, call[c].at = "free",
         NEW helper \in BOOLEAN, NEW w \in {0, 1}, w = (IF helper THEN 1 ELSE 0),
         w <= oxid[x].items,
         NEW b, b = [oxid EXCEPT ![x] = Before(x, w)],
         StartRundown(x, B, c, b, helper)
  PROVE  Lives'
<1>1. b[x] = Before(x, w)
  BY LivesTyped
<1> DEFINE answer == IF oxid[x].running THEN "keep" ELSE "ok"
           left == [b[x] EXCEPT !.leaving = @ + (IF helper THEN 1 ELSE 0)]
           r == [left EXCEPT !.handle = HandleLeft(left)]
           q == [o \in Oid |-> IF o \in B
                   THEN Result([oid[o] EXCEPT !.down = TRUE, !.timer = "out"], answer)
                   ELSE oid[o]]
           k == [at |-> "sending", oxid |-> x, oids |-> B,
                 answer |-> AllAnswer("keep"), helper |-> helper]
           taken == [o \in Oid |-> IF o \in B THEN [oid[o] EXCEPT !.down = TRUE, !.timer = "out"]
                                   ELSE oid[o]]
<1>2. CASE /\ oid' = taken
           /\ oxid' = [b EXCEPT ![x].calls = @ + 1, ![x].handle = TRUE]
           /\ call' = [call EXCEPT ![c] = k]
           /\ UNCHANGED proc
  <2>1. \A o \in Oid : taken[o].alive <=> oid[o].alive
    BY DEF IInv, Shapes, OidObjects
  <2>2. Before(x, w) \in OxidInts /\ Before(x, w).calls = oxid[x].calls
    BY BeforeCounts
  <2>3. [b EXCEPT ![x].calls = @ + 1, ![x].handle = TRUE] = [oxid EXCEPT ![x] = Sent(x, w)]
    BY <1>1, <2>2, LivesTyped DEF Sent
  <2>4. k \in Calls /\ k.at = "sending" /\ k.oxid = x
    BY BatchListed DEF Calls, Stages, AllAnswer
  <2>5. HelpW(k, x) = w
    BY DEF HelpW
  <2> HIDE DEF taken, k
  <2>7. \A o \in Oid : oid'[o].alive <=> oid[o].alive
    BY <1>2, <2>1
  <2>8. oxid' = [oxid EXCEPT ![x] = Sent(x, w)]
    BY <1>2, <2>3
  <2> QED BY <1>2, <2>4, <2>5, <2>7, <2>8, StartSends
<1>3. CASE Commit(q, [oxid EXCEPT ![x] = r], proc) /\ UNCHANGED call
  <2>1. left = Unsent(x, w)
    BY <1>1 DEF Unsent
  <2>2. r = NotSent(x, w)
    BY <2>1 DEF NotSent
  <2> HIDE DEF left, r
  <2>3. r \in OxidInts /\ r.refs = oxid[x].refs + RunW(r) - RunW(oxid[x])
    BY <2>2, NotSentCounts
  <2> HIDE DEF answer
  <2>4. \A o \in Oid : q[o].alive => oid[o].alive
    BY BatchAlive
  <2> HIDE DEF q
  <2>5. Exists(x)
    BY BatchThere
  <2> QED BY <1>3, <2>3, <2>4, <2>5, OxidAlone
<1> QED BY <1>2, <1>3 DEF StartRundown

\* A task thread and a helper thread start calls in the same way.
LEMMA TaskRundownStarts ==
  ASSUME Lives, NEW x \in Oxid, NEW c \in Call, NEW B \in Batches(x),
         TaskRundown(x, B, c) \/ HelperRundown(x, B, c)
  PROVE  /\ call[c].at = "free"
         /\ oxid[x].calls < MaxCalls
         /\ \E helper \in BOOLEAN, w \in {0, 1}, b \in [Oxid -> OxidInts] :
              /\ w = (IF helper THEN 1 ELSE 0) /\ w <= oxid[x].items
              /\ b = [oxid EXCEPT ![x] = Before(x, w)]
              /\ StartRundown(x, B, c, b, helper)
<1>0. oxid[x] \in OxidInts /\ oxid[x].items \in Nat /\ oxid \in [Oxid -> OxidInts]
  BY LivesTyped
<1>1. CASE TaskRundown(x, B, c)
  <2>1. Before(x, 0) = oxid[x]
    BY <1>0 DEF Before, OxidInts
  <2>2. oxid = [oxid EXCEPT ![x] = Before(x, 0)]
    BY <1>0, <2>1
  <2>3. StartRundown(x, B, c, oxid, FALSE)
    BY <1>1 DEF TaskRundown
  <2>4. FALSE \in BOOLEAN /\ 0 = (IF FALSE THEN 1 ELSE 0) /\ 0 \in {0, 1} /\ 0 <= oxid[x].items
    BY <1>0
  <2>5. \E helper \in BOOLEAN, w \in {0, 1}, b \in [Oxid -> OxidInts] :
          /\ w = (IF helper THEN 1 ELSE 0) /\ w <= oxid[x].items
          /\ b = [oxid EXCEPT ![x] = Before(x, w)]
          /\ StartRundown(x, B, c, b, helper)
    <3> oxid \in [Oxid -> OxidInts] BY <1>0
    <3> WITNESS FALSE \in BOOLEAN, 0 \in {0, 1}, oxid \in [Oxid -> OxidInts]
    <3> QED BY <2>2, <2>3, <2>4
  <2> QED BY <1>1, <2>5 DEF TaskRundown, OkayForMoreRundownCalls
<1>2. CASE HelperRundown(x, B, c)
  <2> DEFINE d == [oxid EXCEPT ![x].items = @ - 1]
  <2>2. d = [oxid EXCEPT ![x] = Before(x, 1)]
    BY <1>0 DEF Before
  <2>3. StartRundown(x, B, c, d, TRUE)
    BY <1>2 DEF HelperRundown
  <2>4. TRUE \in BOOLEAN /\ 1 = (IF TRUE THEN 1 ELSE 0) /\ 1 \in {0, 1} /\ 1 <= oxid[x].items
    BY <1>0, <1>2 DEF HelperRundown
  <2> d \in [Oxid -> OxidInts] BY <1>0, <2>4 DEF OxidInts
  <2> HIDE DEF d
  <2>5. \E helper \in BOOLEAN, w \in {0, 1}, b \in [Oxid -> OxidInts] :
          /\ w = (IF helper THEN 1 ELSE 0) /\ w <= oxid[x].items
          /\ b = [oxid EXCEPT ![x] = Before(x, w)]
          /\ StartRundown(x, B, c, b, helper)
    <3> WITNESS TRUE \in BOOLEAN, 1 \in {0, 1}, d \in [Oxid -> OxidInts]
    <3> QED BY <2>2, <2>3, <2>4
  <2> QED BY <1>2, <2>5 DEF HelperRundown, OkayForMoreRundownCalls
<1> QED BY <1>1, <1>2

LEMMA TaskRundownLives ==
  ASSUME IInv, Lives, CallShape, NEW x \in Oxid, NEW c \in Call, NEW B \in Batches(x),
         TaskRundown(x, B, c) \/ HelperRundown(x, B, c)
  PROVE  Lives'
<1>1. PICK helper \in BOOLEAN, w \in {0, 1}, b \in [Oxid -> OxidInts] :
        /\ w = (IF helper THEN 1 ELSE 0) /\ w <= oxid[x].items
        /\ b = [oxid EXCEPT ![x] = Before(x, w)]
        /\ StartRundown(x, B, c, b, helper)
  BY TaskRundownStarts
<1>2. call[c].at = "free"
  BY TaskRundownStarts
<1>3. helper \in BOOLEAN /\ w \in {0, 1}
  BY <1>1
<1> QED BY <1>1, <1>2, <1>3, StartLives, ZenonT(60)

-----------------------------------------------------------------------------
(* What calls are *)

\* A step that leaves the calls alone.
LEMMA SameShape ==
  ASSUME CallShape, UNCHANGED call
  PROVE  CallShape'
BY DEF CallShape

\* One call changes.
LEMMA OneShape ==
  ASSUME IInv, CallShape, NEW c \in Call, NEW k, call' = [call EXCEPT ![c] = k],
         k.at \in Unsettled => k.oids # {} /\ k.oids \subseteq OidsOf(k.oxid),
         k.helper => k.at \in {"sending", "referenced", "failed"}
  PROVE  CallShape'
<1>1. call'[c] = k /\ \A d \in Call : d # c => call'[d] = call[d]
  BY DEF IInv, Shapes
<1> QED BY <1>1 DEF CallShape

\* A call moves on.
LEMMA MovedShape ==
  ASSUME IInv, CallShape, NEW c \in Call, NEW stage \in Stages, To(c, stage),
         stage \in Unsettled => call[c].at \in Unsettled,
         call[c].at \in {"sending", "referenced", "failed"} =>
           stage \in {"sending", "referenced", "failed"}
  PROVE  CallShape'
<1> DEFINE k == Moved(c, stage)
<1>1. /\ k.at = stage /\ k.oxid = call[c].oxid /\ k.oids = call[c].oids
      /\ k.helper <=> call[c].helper
  BY MovedCall
<1>2. call' = [call EXCEPT ![c] = k]
  BY DEF To, Moved
<1> HIDE DEF k
<1>3. k.at \in Unsettled => k.oids # {} /\ k.oids \subseteq OidsOf(k.oxid)
  BY <1>1 DEF CallShape
<1>4. k.helper => k.at \in {"sending", "referenced", "failed"}
  BY <1>1 DEF CallShape
<1> QED BY <1>2, <1>3, <1>4, OneShape

\* A call that starts has the batch; the others have what they had, or none.
LEMMA TaskRundownShape ==
  ASSUME IInv, Lives, CallShape, NEW x \in Oxid, NEW c \in Call, NEW B \in Batches(x),
         TaskRundown(x, B, c) \/ HelperRundown(x, B, c)
  PROVE  CallShape'
<1>1. PICK helper \in BOOLEAN, w \in {0, 1}, b \in [Oxid -> OxidInts] : StartRundown(x, B, c, b, helper)
  BY TaskRundownStarts
<1> DEFINE k == [at |-> "sending", oxid |-> x, oids |-> B,
                 answer |-> AllAnswer("keep"), helper |-> helper]
<1>2. CASE call' = [call EXCEPT ![c] = k]
  <2>1. k.oids # {} /\ k.oids \subseteq OidsOf(k.oxid) /\ k.at = "sending"
    BY BatchThere
  <2> HIDE DEF k
  <2> QED BY <1>2, <2>1, OneShape
<1>3. CASE UNCHANGED call
  BY <1>3, SameShape
<1> QED BY <1>1, <1>2, <1>3 DEF StartRundown

LEMMA StagesShape ==
  ASSUME IInv, CallShape, NEW c \in Call,
         \/ TakeReferences(c) \/ NoMemory(c) \/ IssueFails(c)
         \/ Returned(c) \/ CheckForMore(c) \/ ReleaseRundownHandle(c)
  PROVE  CallShape'
<1>1. ASSUME TakeReferences(c) PROVE CallShape'
  BY <1>1, MovedShape DEF TakeReferences, Stages, Unsettled
<1>2. ASSUME NoMemory(c) PROVE CallShape'
  BY <1>2, MovedShape DEF NoMemory, Stages, Unsettled
<1>3. ASSUME IssueFails(c) PROVE CallShape'
  BY <1>3, MovedShape DEF IssueFails, Stages, Unsettled
<1>4. ASSUME Returned(c) PROVE CallShape'
  BY <1>4, MovedShape DEF Returned, Stages, Unsettled
<1>5. ASSUME CheckForMore(c) PROVE CallShape'
  BY <1>5, MovedShape DEF CheckForMore, Stages, Unsettled
<1>6. ASSUME ReleaseRundownHandle(c) PROVE CallShape'
  BY <1>6, MovedShape DEF ReleaseRundownHandle, Stages, Unsettled
<1> QED BY <1>1, <1>2, <1>3, <1>4, <1>5, <1>6

LEMMA IssueShape ==
  ASSUME IInv, CallShape, NEW c \in Call, Issue(c)
  PROVE  CallShape'
<1> DEFINE k == [call[c] EXCEPT !.at = "out", !.helper = FALSE]
<1>1. k.at = "out" /\ ~ k.helper /\ k.oids = call[c].oids /\ k.oxid = call[c].oxid
  BY CallTyped DEF Calls
<1>2. call' = [call EXCEPT ![c] = k] /\ call[c].at \in Unsettled
  BY DEF Issue, IInv, Shapes, Unsettled
<1> HIDE DEF k
<1>3. k.oids # {} /\ k.oids \subseteq OidsOf(k.oxid)
  BY <1>1, <1>2 DEF CallShape
<1> QED BY <1>1, <1>2, <1>3, OneShape

LEMMA AnswersShape ==
  ASSUME IInv, CallShape, NEW c \in Call, NEW stage \in {"replying", "answered"},
         NEW answer \in [Oid -> {"ok", "keep", "pinned"}],
         call[c].at \in {"out", "replying"},
         call' = [call EXCEPT ![c].at = stage, ![c].answer = answer]
  PROVE  CallShape'
<1> DEFINE k == [call[c] EXCEPT !.at = stage, !.answer = answer]
<1>1. /\ k.at = stage /\ k.oids = call[c].oids /\ k.oxid = call[c].oxid
      /\ (k.helper <=> call[c].helper)
  BY CallTyped DEF Calls
<1>2. call' = [call EXCEPT ![c] = k] /\ call[c].at \in Unsettled
  BY DEF IInv, Shapes, Unsettled
<1> HIDE DEF k
<1>3. k.oids # {} /\ k.oids \subseteq OidsOf(k.oxid) /\ ~ k.helper
  BY <1>1, <1>2 DEF CallShape
<1> QED BY <1>2, <1>3, OneShape

LEMMA ServerAnswersShape ==
  ASSUME IInv, CallShape, NEW c \in Call, NEW a \in [Oid -> Answers],
         ServerAnswers(c, a)
  PROVE  CallShape'
<1> DEFINE answer == [o \in Oid |-> IF o \in call[c].oids THEN a[o] ELSE "keep"]
<1>1. /\ call' = [call EXCEPT ![c].at = "replying", ![c].answer = answer]
      /\ call[c].at \in {"out", "replying"}
  BY DEF ServerAnswers
<1>2. answer \in [Oid -> {"ok", "keep", "pinned"}]
  BY ServerOidAssumption
<1> HIDE DEF answer
<1> QED BY <1>1, <1>2, AnswersShape

LEMMA ReturnedErrorShape ==
  ASSUME IInv, CallShape, NEW c \in Call, ReturnedError(c)
  PROVE  CallShape'
<1>1. PICK v \in {"ok", "keep"} :
        call' = [call EXCEPT ![c].at = "answered", ![c].answer = AllAnswer(v)]
  BY DEF ReturnedError
<1> DEFINE answer == AllAnswer(v)
<1>2. /\ call' = [call EXCEPT ![c].at = "answered", ![c].answer = answer]
      /\ call[c].at \in {"out", "replying"}
  BY <1>1 DEF ReturnedError
<1>3. answer \in [Oid -> {"ok", "keep", "pinned"}]
  BY DEF AllAnswer
<1> HIDE DEF answer
<1> QED BY <1>2, <1>3, AnswersShape

LEMMA SettledShape ==
  ASSUME IInv, CallShape, NEW c \in Call,
         CallFailed(c) \/ ProcessResults(c) \/ DropReferences(c)
  PROVE  CallShape'
<1>1. ASSUME call' = [call EXCEPT ![c] = NoCall] PROVE CallShape'
  <2>1. NoCall.at \notin Unsettled /\ ~ NoCall.helper
    BY NoCallTyped DEF NoCall
  <2> HIDE DEF NoCall
  <2> QED BY <1>1, <2>1, OneShape
<1>2. ASSUME ProcessResults(c) PROVE CallShape'
  <2> DEFINE k == [call[c] EXCEPT !.at = "check", !.oids = {}, !.answer = AllAnswer("keep")]
  <2>1. call' = [call EXCEPT ![c] = k]
    BY <1>2 DEF ProcessResults, IInv, Shapes
  <2>2. k.at = "check" /\ (k.helper <=> call[c].helper)
    BY CallTyped DEF Calls
  <2> HIDE DEF k
  <2>3. ~ k.helper /\ k.at \notin Unsettled
    BY <1>2, <2>2 DEF CallShape, ProcessResults, Unsettled
  <2> QED BY <2>1, <2>3, OneShape
<1> QED BY <1>1, <1>2 DEF CallFailed, DropReferences

-----------------------------------------------------------------------------
(* What an OXID counts of its calls *)

\* Commit changes no count of calls.
LEMMA CommitCalls ==
  ASSUME NEW q, NEW b \in [Oxid -> OxidInts], NEW d, Commit(q, b, d), NEW x \in Oxid
  PROVE  oxid'[x].calls = b[x].calls /\ (oxid'[x].handle <=> b[x].handle)
<1> DEFINE n == b[x].refs - Cardinality({o \in OidsOf(x) : oid[o].alive /\ ~ q[o].alive})
<1>1. oxid'[x] = [b[x] EXCEPT !.refs = n]
  BY DEF Commit
<1> HIDE DEF n
<1> QED BY <1>1 DEF OxidInts

\* The calls are the same, and a handle that is used stays open.
LEMMA SameCounted ==
  ASSUME CallsCounted, UNCHANGED call,
         \A x \in Oxid : /\ oxid'[x].calls = oxid[x].calls
                         /\ oxid'[x].handle => oxid[x].handle
                         /\ oxid[x].calls > 0 => oxid'[x].handle
  PROVE  CallsCounted'
<1>1. \A x \in Oxid : Active(x)' = Active(x) /\ Closing(x)' = Closing(x)
  BY DEF Active, Closing
<1> QED BY <1>1 DEF CallsCounted

\* The same for a step that commits other OIDs and the same OXIDs.
LEMMA CommitCounted ==
  ASSUME Lives, CallsCounted, UNCHANGED call, NEW q, NEW d, Commit(q, oxid, d)
  PROVE  CallsCounted'
<1>1. \A x \in Oxid : oxid'[x].calls = oxid[x].calls /\ (oxid'[x].handle <=> oxid[x].handle)
  BY CommitCalls, LivesTyped
<1>2. \A x \in Oxid : oxid[x].calls > 0 => oxid'[x].handle
  BY <1>1 DEF CallsCounted
<1> QED BY <1>1, <1>2, SameCounted

\* One call changes: its OXID counts it or not, and it may now be one that
\* closes the handle.
LEMMA OneCounted ==
  ASSUME IInv, CallsCounted, NEW c \in Call, NEW k \in Calls, call' = [call EXCEPT ![c] = k],
         NEW x0 \in Oxid, call[c].at = "free" \/ call[c].oxid = x0,
         k.at = "free" \/ k.oxid = x0,
         \A x \in Oxid : x # x0 => oxid'[x].calls = oxid[x].calls
                                   /\ (oxid'[x].handle <=> oxid[x].handle),
         oxid'[x0].calls = oxid[x0].calls - ActW(call[c], x0) + ActW(k, x0),
         oxid'[x0].calls <= MaxCalls,
         oxid'[x0].calls > 0 => oxid'[x0].handle,
         oxid'[x0].handle => \/ oxid'[x0].calls > 0 \/ k.at \in {"check", "handle"}
                             \/ /\ oxid[x0].handle /\ oxid[x0].calls = oxid'[x0].calls
                                /\ call[c].at \notin {"check", "handle"}
  PROVE  CallsCounted'
<1>1. call'[c] = k /\ \A d \in Call : d # c => call'[d] = call[d]
  BY DEF IInv, Shapes
<1> SUFFICES ASSUME NEW x \in Oxid
             PROVE  /\ oxid'[x].calls = Cardinality(Active(x)')
                    /\ oxid'[x].calls <= MaxCalls
                    /\ oxid'[x].calls > 0 => oxid'[x].handle
                    /\ oxid'[x].handle => oxid'[x].calls > 0 \/ Closing(x)' # {}
  BY DEF CallsCounted
<1>2. CASE x = x0
  <2>1. oxid'[x].calls = Cardinality(Active(x)')
    <3>1. Cardinality(Active(x0)') = Cardinality(Active(x0)) - ActW(call[c], x0) + ActW(k, x0)
      BY CallWeights, ZenonT(60) DEF IInv
    <3> QED BY <1>2, <3>1 DEF CallsCounted
  <2>2. k.at \in {"check", "handle"} => Closing(x)' # {}
    <3>1. k.at \in {"check", "handle"} => c \in Closing(x)'
      BY <1>1, <1>2 DEF Closing
    <3> QED BY <3>1
  <2>3. ASSUME oxid[x].handle, oxid[x].calls = oxid'[x].calls,
               call[c].at \notin {"check", "handle"}
        PROVE  oxid'[x].calls > 0 \/ Closing(x)' # {}
    <3>1. CASE oxid[x].calls > 0
      BY <2>3, <3>1
    <3>2. CASE ~ oxid[x].calls > 0
      <4>1. PICK d : d \in Closing(x)
        BY <2>3, <3>2 DEF CallsCounted
      <4>2. d # c
        BY <2>3, <4>1 DEF Closing
      <4>3. d \in Closing(x)'
        BY <1>1, <4>1, <4>2 DEF Closing
      <4> QED BY <4>3
    <3> QED BY <3>1, <3>2
  <2> QED BY <1>2, <2>1, <2>2, <2>3
<1>3. CASE x # x0
  <2>1. Active(x)' = Active(x)
    BY <1>1, <1>3 DEF Active, Unsettled
  <2>2. Closing(x)' = Closing(x)
    BY <1>1, <1>3 DEF Closing
  <2> QED BY <1>3, <2>1, <2>2 DEF CallsCounted
<1> QED BY <1>2, <1>3

\* The same when the step commits other OXIDs with the same counts of calls.
LEMMA CommitSame ==
  ASSUME CallsCounted, UNCHANGED call, NEW q, NEW b \in [Oxid -> OxidInts], NEW d, Commit(q, b, d),
         \A x \in Oxid : b[x].calls = oxid[x].calls /\ (b[x].handle <=> oxid[x].handle)
  PROVE  CallsCounted'
<1>1. \A x \in Oxid : oxid'[x].calls = oxid[x].calls /\ (oxid'[x].handle <=> oxid[x].handle)
  BY CommitCalls
<1>2. \A x \in Oxid : oxid[x].calls > 0 => oxid'[x].handle
  BY <1>1 DEF CallsCounted
<1> QED BY <1>1, <1>2, SameCounted

\* The OXIDs count the same calls, one of which moves on.
LEMMA CallCounted ==
  ASSUME IInv, Lives, CallsCounted, NEW c \in Call, NEW k \in Calls, call' = [call EXCEPT ![c] = k],
         call[c].at # "free", k.at = "free" \/ k.oxid = call[c].oxid,
         k.at \in Unsettled <=> call[c].at \in Unsettled,
         k.at \in {"check", "handle"} \/ call[c].at \notin {"check", "handle"},
         \A x \in Oxid : oxid'[x].calls = oxid[x].calls /\ (oxid'[x].handle <=> oxid[x].handle)
  PROVE  CallsCounted'
<1> DEFINE x0 == call[c].oxid
<1>1. x0 \in Oxid /\ oxid[x0].calls \in Nat
  BY CallTyped, LivesTyped
<1>2. ActW(k, x0) = ActW(call[c], x0) /\ ActW(k, x0) \in {0, 1}
  BY Weights DEF ActW, Unsettled
<1>3. oxid'[x0].calls = oxid[x0].calls - ActW(call[c], x0) + ActW(k, x0)
  BY <1>1, <1>2
<1>4. oxid'[x0].calls <= MaxCalls /\ (oxid'[x0].calls > 0 => oxid'[x0].handle)
  BY <1>1 DEF CallsCounted
<1>5. oxid'[x0].handle => \/ oxid'[x0].calls > 0 \/ k.at \in {"check", "handle"}
                          \/ /\ oxid[x0].handle /\ oxid[x0].calls = oxid'[x0].calls
                             /\ call[c].at \notin {"check", "handle"}
  BY <1>1
<1>6. call[c].oxid = x0
  OBVIOUS
<1>7. k.at = "free" \/ k.oxid = x0
  OBVIOUS
<1> HIDE DEF x0
<1> QED BY <1>1, <1>3, <1>4, <1>5, <1>6, <1>7, OneCounted

\* Steps of servers.
LEMMA StoppedCounted ==
  ASSUME Lives, CallsCounted, UNCHANGED call, NEW X \in SUBSET Oxid, \A x \in X : oxid[x].running,
         NEW q, NEW d, Commit(q, Stopped(X), d)
  PROVE  CallsCounted'
<1> DEFINE b == Stopped(X)
<1>2. b \in [Oxid -> OxidInts]
  BY StoppedCounts
<1>3. ASSUME NEW x \in Oxid
      PROVE  b[x].calls = oxid[x].calls /\ (b[x].handle <=> oxid[x].handle)
  <2>1. oxid[x] \in OxidInts
    BY LivesTyped
  <2>2. b[x] = IF x \in X THEN [oxid[x] EXCEPT !.running = FALSE, !.refs = oxid[x].refs - 1]
               ELSE oxid[x]
    BY DEF Stopped
  <2> HIDE DEF b
  <2> QED BY <2>1, <2>2 DEF OxidInts
<1>4. Commit(q, b, d)
  OBVIOUS
<1> HIDE DEF b
<1> QED BY <1>2, <1>3, <1>4, CommitSame

LEMMA ProcessRundownCounted ==
  ASSUME Lives, CallsCounted, NEW p \in Process, ProcessRundown(p)
  PROVE  CallsCounted'
<1> DEFINE X == {x \in Oxid : ProcessOf[x] = p /\ oxid[x].running}
           q == UnpinOrphans(oid, X)
           d == [proc EXCEPT ![p] = [up |-> FALSE, refs |-> @.refs - 1]]
<1>1. Commit(q, Stopped(X), d) /\ UNCHANGED call
  BY DEF ProcessRundown
<1>2. X \in SUBSET Oxid /\ \A x \in X : oxid[x].running
  OBVIOUS
<1> HIDE DEF X, q, d
<1> QED BY <1>1, <1>2, StoppedCounted

LEMMA FreeOxidCounted ==
  ASSUME Lives, CallsCounted, NEW x \in Oxid, NEW F \in SUBSET OidsOf(x), FreeOxid(x, F)
  PROVE  CallsCounted'
<1>1. PICK q : Commit(q, Stopped({x}), proc)
  BY DEF FreeOxid
<1>2. UNCHANGED call /\ oxid[x].running /\ {x} \in SUBSET Oxid
  BY DEF FreeOxid
<1> QED BY <1>1, <1>2, StoppedCounted

\* An OXID with other counts of what refers to it, but not of its calls.
Recounted(x, j, m, n, g) ==
  [oxid[x] EXCEPT !.refs = j, !.items = m, !.leaving = n, !.guests = g]

LEMMA RecountedSame ==
  ASSUME Lives, NEW x \in Oxid, NEW j \in Int, NEW m \in Nat, NEW n \in Nat, NEW g \in Nat
  PROVE  /\ [oxid EXCEPT ![x] = Recounted(x, j, m, n, g)] \in [Oxid -> OxidInts]
         /\ \A y \in Oxid :
              /\ [oxid EXCEPT ![x] = Recounted(x, j, m, n, g)][y].calls = oxid[y].calls
              /\ [oxid EXCEPT ![x] = Recounted(x, j, m, n, g)][y].handle <=> oxid[y].handle
<1> DEFINE r == Recounted(x, j, m, n, g)
<1>0. oxid[x] \in OxidInts /\ oxid \in [Oxid -> OxidInts]
  BY LivesTyped
<1>1. r \in OxidInts /\ r.calls = oxid[x].calls /\ (r.handle <=> oxid[x].handle)
  BY <1>0 DEF OxidInts, Recounted
<1> HIDE DEF r
<1>2. /\ [oxid EXCEPT ![x] = r] \in [Oxid -> OxidInts]
      /\ \A y \in Oxid : /\ [oxid EXCEPT ![x] = r][y].calls = oxid[y].calls
                         /\ [oxid EXCEPT ![x] = r][y].handle <=> oxid[y].handle
  BY <1>0, <1>1
<1> QED BY <1>2 DEF r

LEMMA EndUseProtseqCounted ==
  ASSUME Lives, CallsCounted, NEW x \in Oxid,
         \/ BeginUseProtseq(x) \/ EndUseProtseq(x) \/ HelperIdle(x) \/ HelperDone(x)
  PROVE  CallsCounted'
<1>0. oxid[x] \in OxidInts /\ oxid \in [Oxid -> OxidInts]
  BY LivesTyped
<1>1. ASSUME BeginUseProtseq(x) \/ HelperIdle(x) PROVE CallsCounted'
  <2>1. \A y \in Oxid : oxid'[y].calls = oxid[y].calls /\ (oxid'[y].handle <=> oxid[y].handle)
    BY <1>0, <1>1 DEF BeginUseProtseq, HelperIdle, OxidInts
  <2>2. UNCHANGED call
    BY <1>1 DEF BeginUseProtseq, HelperIdle
  <2>3. \A y \in Oxid : oxid[y].calls > 0 => oxid'[y].handle
    BY <2>1 DEF CallsCounted
  <2> QED BY <2>1, <2>2, <2>3, SameCounted
<1>2. ASSUME EndUseProtseq(x) \/ HelperDone(x) PROVE CallsCounted'
  <2>1. PICK j \in Int, m \in Nat, n \in Nat, g \in Nat :
          Commit(oid, [oxid EXCEPT ![x] = Recounted(x, j, m, n, g)], proc)
    <3>0. /\ oxid[x].refs - 1 \in Int /\ oxid[x].items \in Nat
          /\ oxid[x].leaving \in Nat /\ oxid[x].guests \in Nat
      BY <1>0 DEF OxidInts
    <3>1. CASE EndUseProtseq(x)
      <4>1. oxid[x].guests - 1 \in Nat
        BY <3>0, <3>1 DEF EndUseProtseq
      <4>2. [oxid EXCEPT ![x].refs = @ - 1, ![x].guests = @ - 1] =
              [oxid EXCEPT ![x] = Recounted(x, oxid[x].refs - 1, oxid[x].items,
                                            oxid[x].leaving, oxid[x].guests - 1)]
        BY <1>0 DEF OxidInts, Recounted
      <4>3. Commit(oid, [oxid EXCEPT ![x] = Recounted(x, oxid[x].refs - 1, oxid[x].items,
                                                      oxid[x].leaving, oxid[x].guests - 1)], proc)
        BY <3>1, <4>2 DEF EndUseProtseq
      <4> QED BY <3>0, <4>1, <4>3
    <3>2. CASE HelperDone(x)
      <4>1. oxid[x].leaving - 1 \in Nat
        BY <3>0, <3>2 DEF HelperDone
      <4>2. [oxid EXCEPT ![x].leaving = @ - 1, ![x].refs = @ - 1] =
              [oxid EXCEPT ![x] = Recounted(x, oxid[x].refs - 1, oxid[x].items,
                                            oxid[x].leaving - 1, oxid[x].guests)]
        BY <1>0 DEF OxidInts, Recounted
      <4>3. Commit(oid, [oxid EXCEPT ![x] = Recounted(x, oxid[x].refs - 1, oxid[x].items,
                                                      oxid[x].leaving - 1, oxid[x].guests)], proc)
        BY <3>2, <4>2 DEF HelperDone
      <4> QED BY <3>0, <4>1, <4>3
    <3> QED BY <1>2, <3>1, <3>2
  <2> DEFINE b == [oxid EXCEPT ![x] = Recounted(x, j, m, n, g)]
  <2>2. /\ b \in [Oxid -> OxidInts]
        /\ \A y \in Oxid : b[y].calls = oxid[y].calls /\ (b[y].handle <=> oxid[y].handle)
    BY RecountedSame
  <2>3. Commit(oid, b, proc) /\ UNCHANGED call
    BY <1>2, <2>1 DEF EndUseProtseq, HelperDone
  <2> HIDE DEF b
  <2> QED BY <2>2, <2>3, CommitSame
<1> QED BY <1>1, <1>2

\* A new OID, a new OXID and a new process have no calls.
LEMMA AllocatedCounted ==
  ASSUME IInv, Lives, CallShape, CallsCounted,
         \/ \E o \in Oid : AllocateOid(o)
         \/ \E x \in Oxid : AllocateOxid(x)
         \/ \E p \in Process : Connect(p)
  PROVE  CallsCounted'
<1>1. ASSUME NEW o \in Oid, AllocateOid(o) PROVE CallsCounted'
  <2>1. \A y \in Oxid : oxid'[y].calls = oxid[y].calls /\ (oxid'[y].handle <=> oxid[y].handle)
    BY <1>1, LivesTyped DEF AllocateOid, OxidInts
  <2>2. \A y \in Oxid : oxid[y].calls > 0 => oxid'[y].handle
    BY <2>1 DEF CallsCounted
  <2> QED BY <1>1, <2>1, <2>2, SameCounted DEF AllocateOid
<1>2. ASSUME NEW p \in Process, Connect(p) PROVE CallsCounted'
  <2>1. UNCHANGED <<oxid, call>>
    BY <1>2 DEF Connect
  <2> QED BY <2>1, SameCounted DEF CallsCounted
<1>3. ASSUME NEW x0 \in Oxid, AllocateOxid(x0) PROVE CallsCounted'
  <2>1. oxid[x0].calls = 0
    <3>1. ~ Exists(x0)
      BY <1>3 DEF AllocateOxid
    <3>2. Active(x0) = {}
      BY <3>1, CallThere DEF Active, Unsettled
    <3> QED BY <3>2, FS_EmptySet DEF CallsCounted
  <2>2. NoOxid.calls = 0 /\ ~ NoOxid.handle /\ NoOxid \in OxidObjects
    BY DEF NoOxid, OxidObjects
  <2> DEFINE r == [NoOxid EXCEPT !.running = TRUE, !.refs = 1]
  <2>3. r.calls = 0 /\ ~ r.handle
    <3> HIDE DEF NoOxid
    <3> QED BY <2>2 DEF OxidObjects
  <2>4. oxid' = [oxid EXCEPT ![x0] = r] /\ UNCHANGED call
    BY <1>3 DEF AllocateOxid
  <2> HIDE DEF r
  <2>5. ASSUME NEW y \in Oxid
        PROVE  /\ oxid'[y].calls = oxid[y].calls
               /\ oxid'[y].handle => oxid[y].handle
               /\ oxid[y].calls > 0 => oxid'[y].handle
    <3>1. oxid'[y] = IF y = x0 THEN r ELSE oxid[y]
      BY <2>4, LivesTyped
    <3> QED BY <2>1, <2>3, <3>1 DEF CallsCounted
  <2> QED BY <2>4, <2>5, SameCounted
<1> QED BY <1>1, <1>2, <1>3

-----------------------------------------------------------------------------
(* Steps of calls, counted *)

\* A call goes out.
LEMMA SentCounted ==
  ASSUME IInv, Lives, CallsCounted, NEW x \in Oxid, NEW c \in Call, call[c].at = "free",
         oxid[x].calls < MaxCalls, NEW k \in Calls, k.at = "sending", k.oxid = x,
         call' = [call EXCEPT ![c] = k],
         NEW r \in OxidInts, r.calls = oxid[x].calls + 1, r.handle,
         oxid' = [oxid EXCEPT ![x] = r]
  PROVE  CallsCounted'
<1>1. oxid[x].calls \in Nat /\ MaxCalls \in Nat
  BY LivesTyped, ServerOidAssumption
<1>2. ActW(k, x) = 1 /\ ActW(call[c], x) = 0
  BY DEF ActW, Unsettled
<1>3. oxid'[x].calls = oxid[x].calls + 1 /\ oxid'[x].handle
  BY LivesTyped
<1>4. \A y \in Oxid : y # x => oxid'[y].calls = oxid[y].calls
                               /\ (oxid'[y].handle <=> oxid[y].handle)
  BY LivesTyped
<1>5. oxid'[x].calls = oxid[x].calls - ActW(call[c], x) + ActW(k, x)
  BY <1>1, <1>2, <1>3
<1>6. oxid'[x].calls <= MaxCalls /\ oxid'[x].calls > 0
  BY <1>1, <1>3
<1> QED BY <1>3, <1>4, <1>5, <1>6, OneCounted

LEMMA TaskRundownCounted ==
  ASSUME IInv, Lives, CallShape, CallsCounted, NEW x \in Oxid, NEW c \in Call, NEW B \in Batches(x),
         TaskRundown(x, B, c) \/ HelperRundown(x, B, c)
  PROVE  CallsCounted'
<1>1. PICK helper \in BOOLEAN, w \in {0, 1}, b \in [Oxid -> OxidInts] :
        /\ w = (IF helper THEN 1 ELSE 0) /\ w <= oxid[x].items
        /\ b = [oxid EXCEPT ![x] = Before(x, w)]
        /\ StartRundown(x, B, c, b, helper)
  BY TaskRundownStarts
<1>2. call[c].at = "free" /\ oxid[x].calls < MaxCalls
  BY TaskRundownStarts
<1>3. b[x] = Before(x, w) /\ oxid[x].calls \in Nat /\ MaxCalls \in Nat
  BY <1>1, LivesTyped, ServerOidAssumption
<1> DEFINE answer == IF oxid[x].running THEN "keep" ELSE "ok"
           left == [b[x] EXCEPT !.leaving = @ + (IF helper THEN 1 ELSE 0)]
           r == [left EXCEPT !.handle = HandleLeft(left)]
           q == [o \in Oid |-> IF o \in B
                   THEN Result([oid[o] EXCEPT !.down = TRUE, !.timer = "out"], answer)
                   ELSE oid[o]]
           k == [at |-> "sending", oxid |-> x, oids |-> B,
                 answer |-> AllAnswer("keep"), helper |-> helper]
<1>4. CASE /\ oxid' = [b EXCEPT ![x].calls = @ + 1, ![x].handle = TRUE]
           /\ call' = [call EXCEPT ![c] = k]
  <2>1. Before(x, w) \in OxidInts /\ Before(x, w).calls = oxid[x].calls
    BY <1>1, BeforeCounts
  <2>2. oxid' = [oxid EXCEPT ![x] = Sent(x, w)]
    BY <1>1, <1>3, <1>4, <2>1, LivesTyped DEF Sent
  <2>3. Sent(x, w).calls = oxid[x].calls + 1 /\ Sent(x, w).handle
    BY <1>1, SentCounts
  <2>4. k \in Calls /\ k.at = "sending" /\ k.oxid = x
    BY BatchListed DEF Calls, Stages, AllAnswer
  <2> HIDE DEF k
  <2>5. call' = [call EXCEPT ![c] = k]
    BY <1>4
  <2>6. Sent(x, w) \in OxidInts
    BY <1>1, SentCounts
  <2> QED BY <1>2, <2>2, <2>3, <2>4, <2>5, <2>6, SentCounted
<1>5. CASE Commit(q, [oxid EXCEPT ![x] = r], proc) /\ UNCHANGED call
  <2>1. left = Unsent(x, w)
    BY <1>1, <1>3 DEF Unsent
  <2>2. r = NotSent(x, w)
    BY <2>1 DEF NotSent
  <2> HIDE DEF left, r
  <2>3. /\ r \in OxidInts /\ r.calls = oxid[x].calls
        /\ (r.handle <=> oxid[x].handle /\ oxid[x].calls > 0)
    BY <1>1, <2>2, NotSentCounts
  <2> DEFINE a == [oxid EXCEPT ![x] = r]
  <2>4. a \in [Oxid -> OxidInts] /\ a[x] = r /\ \A y \in Oxid : y # x => a[y] = oxid[y]
    BY <2>3, LivesTyped
  <2> HIDE DEF q
  <2>5. Commit(q, a, proc)
    BY <1>5
  <2> HIDE DEF a
  <2>6. \A y \in Oxid : oxid'[y].calls = a[y].calls /\ (oxid'[y].handle <=> a[y].handle)
    BY <2>4, <2>5, CommitCalls
  <2>7. \A y \in Oxid : /\ oxid'[y].calls = oxid[y].calls
                        /\ oxid'[y].handle => oxid[y].handle
                        /\ oxid[y].calls > 0 => oxid'[y].handle
    BY <2>3, <2>4, <2>6 DEF CallsCounted
  <2> QED BY <1>5, <2>7, SameCounted
<1> QED BY <1>1, <1>4, <1>5 DEF StartRundown

\* The stages at which the OXID's counts of calls stay the same.
LEMMA StagesCounted ==
  ASSUME IInv, Lives, CallsCounted, NEW c \in Call, NEW stage \in Stages, To(c, stage),
         call[c].at # "free", stage \in Unsettled <=> call[c].at \in Unsettled,
         stage \in {"check", "handle"} \/ call[c].at \notin {"check", "handle"},
         \A x \in Oxid : oxid'[x].calls = oxid[x].calls /\ (oxid'[x].handle <=> oxid[x].handle)
  PROVE  CallsCounted'
<1> DEFINE k == Moved(c, stage)
<1>1. k \in Calls /\ k.at = stage /\ k.oxid = call[c].oxid
  BY MovedCall
<1>2. call' = [call EXCEPT ![c] = k]
  BY DEF To, Moved
<1> HIDE DEF k
<1> QED BY <1>1, <1>2, CallCounted

LEMMA MovesCounted ==
  ASSUME IInv, Lives, CallShape, CallsCounted, NEW c \in Call,
         TakeReferences(c) \/ NoMemory(c) \/ Returned(c) \/ CheckForMore(c)
  PROVE  CallsCounted'
<1> DEFINE x == call[c].oxid
<1>0. x \in Oxid /\ oxid \in [Oxid -> OxidObjects]
  BY CallTyped DEF Lives, Typed
<1>1. CASE TakeReferences(c)
  <2>1. \A y \in Oxid : oxid'[y].calls = oxid[y].calls /\ (oxid'[y].handle <=> oxid[y].handle)
    BY <1>0, <1>1 DEF TakeReferences, OxidObjects
  <2> QED BY <1>1, <2>1, StagesCounted DEF TakeReferences, Stages, Unsettled
<1>2. CASE NoMemory(c)
  BY <1>2, StagesCounted DEF NoMemory, Stages, Unsettled
<1>3. CASE Returned(c)
  BY <1>3, StagesCounted DEF Returned, Stages, Unsettled
<1>4. CASE CheckForMore(c)
  <2>1. \A y \in Oxid : oxid'[y].calls = oxid[y].calls /\ (oxid'[y].handle <=> oxid[y].handle)
    BY <1>0, <1>4 DEF CheckForMore, OxidObjects
  <2> QED BY <1>4, <2>1, StagesCounted DEF CheckForMore, Stages, Unsettled
<1> QED BY <1>1, <1>2, <1>3, <1>4

LEMMA IssueCounted ==
  ASSUME IInv, Lives, CallsCounted, NEW c \in Call, Issue(c)
  PROVE  CallsCounted'
<1> DEFINE x == call[c].oxid
           k == [call[c] EXCEPT !.at = "out", !.helper = FALSE]
<1>0. x \in Oxid /\ oxid \in [Oxid -> OxidObjects]
  BY CallTyped DEF Lives, Typed
<1>1. k \in Calls /\ k.at = "out" /\ k.oxid = call[c].oxid
  BY CallTyped DEF Calls, Stages
<1>2. call' = [call EXCEPT ![c] = k] /\ call[c].at = "referenced"
  BY DEF Issue, IInv, Shapes
<1>3. \A y \in Oxid : oxid'[y].calls = oxid[y].calls /\ (oxid'[y].handle <=> oxid[y].handle)
  BY <1>0 DEF Issue, OxidObjects
<1> HIDE DEF k
<1> QED BY <1>1, <1>2, <1>3, CallCounted DEF Unsettled

LEMMA AnswersCounted ==
  ASSUME IInv, Lives, CallsCounted, NEW c \in Call, NEW stage \in {"replying", "answered"},
         NEW answer \in [Oid -> {"ok", "keep", "pinned"}],
         call[c].at \in {"out", "replying"}, UNCHANGED oxid,
         call' = [call EXCEPT ![c].at = stage, ![c].answer = answer]
  PROVE  CallsCounted'
<1> DEFINE k == [call[c] EXCEPT !.at = stage, !.answer = answer]
<1>1. k \in Calls /\ k.at = stage /\ k.oxid = call[c].oxid
  BY CallTyped DEF Calls, Stages
<1>2. call' = [call EXCEPT ![c] = k]
  BY DEF IInv, Shapes
<1> HIDE DEF k
<1> QED BY <1>1, <1>2, CallCounted DEF Unsettled

LEMMA ServerAnswersCounted ==
  ASSUME IInv, Lives, CallsCounted, NEW c \in Call, NEW a \in [Oid -> Answers],
         ServerAnswers(c, a)
  PROVE  CallsCounted'
<1> DEFINE answer == [o \in Oid |-> IF o \in call[c].oids THEN a[o] ELSE "keep"]
<1>1. /\ call' = [call EXCEPT ![c].at = "replying", ![c].answer = answer]
      /\ call[c].at \in {"out", "replying"} /\ UNCHANGED oxid
  BY DEF ServerAnswers
<1>2. answer \in [Oid -> {"ok", "keep", "pinned"}]
  BY ServerOidAssumption
<1> HIDE DEF answer
<1> QED BY <1>1, <1>2, AnswersCounted

LEMMA ReturnedErrorCounted ==
  ASSUME IInv, Lives, CallsCounted, NEW c \in Call, ReturnedError(c)
  PROVE  CallsCounted'
<1>1. PICK v \in {"ok", "keep"} :
        call' = [call EXCEPT ![c].at = "answered", ![c].answer = AllAnswer(v)]
  BY DEF ReturnedError
<1> DEFINE answer == AllAnswer(v)
<1>2. /\ call' = [call EXCEPT ![c].at = "answered", ![c].answer = answer]
      /\ call[c].at \in {"out", "replying"} /\ UNCHANGED oxid
  BY <1>1 DEF ReturnedError
<1>3. answer \in [Oid -> {"ok", "keep", "pinned"}]
  BY DEF AllAnswer
<1> HIDE DEF answer
<1> QED BY <1>2, <1>3, AnswersCounted

\* A call that gives its references back.
LEMMA ReturnedCounted ==
  ASSUME IInv, Lives, NEW x \in Oxid, NEW d, Commit(oid, [oxid EXCEPT ![x].refs = @ - 1], d)
  PROVE  \A y \in Oxid : oxid'[y].calls = oxid[y].calls /\ (oxid'[y].handle <=> oxid[y].handle)
<1> DEFINE n == oxid[x].refs - 1
           r == WithRefs(x, n)
           b == [oxid EXCEPT ![x] = r]
<1>1. n \in Int
  BY LivesTyped
<1>2. [oxid EXCEPT ![x].refs = @ - 1] = b
  BY LivesTyped DEF WithRefs
<1> HIDE DEF n
<1>3. r \in OxidInts /\ r.calls = oxid[x].calls /\ (r.handle <=> oxid[x].handle)
  BY <1>1, OxidRefs
<1> HIDE DEF r
<1>4. /\ b \in [Oxid -> OxidInts]
      /\ \A y \in Oxid : b[y].calls = oxid[y].calls /\ (b[y].handle <=> oxid[y].handle)
  BY <1>3, LivesTyped
<1>5. Commit(oid, b, d)
  BY <1>2
<1> HIDE DEF b
<1> QED BY <1>4, <1>5, CommitCalls

LEMMA ReferencesCounted ==
  ASSUME IInv, Lives, CallsCounted, NEW c \in Call, IssueFails(c) \/ DropReferences(c)
  PROVE  CallsCounted'
<1> DEFINE x == call[c].oxid
           d == [proc EXCEPT ![ProcessOf[x]].refs = @ - 1]
<1>0. x \in Oxid
  BY CallTyped
<1>1. Commit(oid, [oxid EXCEPT ![x].refs = @ - 1], d)
  BY DEF IssueFails, DropReferences
<1> HIDE DEF x, d
<1>2. \A y \in Oxid : oxid'[y].calls = oxid[y].calls /\ (oxid'[y].handle <=> oxid[y].handle)
  BY <1>0, <1>1, ReturnedCounted
<1>3. CASE IssueFails(c)
  BY <1>2, <1>3, StagesCounted DEF IssueFails, Stages, Unsettled
<1>4. CASE DropReferences(c)
  <2>1. NoCall \in Calls /\ NoCall.at = "free"
    BY NoCallTyped DEF NoCall
  <2> HIDE DEF NoCall
  <2> QED BY <1>2, <1>4, <2>1, CallCounted DEF DropReferences, Unsettled
<1> QED BY <1>3, <1>4

\* A call that settles its OIDs counts no longer.  The last one of an OXID
\* closes the handle, at once or when it comes to it.
LEMMA SettledCounted ==
  ASSUME IInv, Lives, CallsCounted, NEW c \in Call, call[c].at \in Unsettled,
         NEW k \in Calls, call' = [call EXCEPT ![c] = k], k.at \notin Unsettled,
         k.at = "free" \/ k.oxid = call[c].oxid,
         NEW q, NEW r \in OxidInts, r.calls = oxid[call[c].oxid].calls - 1,
         r.calls > 0 => r.handle,
         r.handle => r.calls > 0 \/ k.at \in {"check", "handle"},
         Commit(q, [oxid EXCEPT ![call[c].oxid] = r], proc)
  PROVE  CallsCounted'
<1> DEFINE x == call[c].oxid
           b == [oxid EXCEPT ![x] = r]
<1>0. x \in Oxid /\ oxid[x].calls \in Nat /\ MaxCalls \in Nat /\ oxid[x].calls <= MaxCalls
  BY CallTyped, LivesTyped, ServerOidAssumption DEF CallsCounted
<1>1. /\ b \in [Oxid -> OxidInts] /\ b[x] = r
      /\ \A y \in Oxid : y # x => b[y] = oxid[y]
  BY <1>0, LivesTyped
<1>2. ActW(call[c], x) = 1 /\ ActW(k, x) = 0
  BY DEF ActW
<1>3. Commit(q, b, proc) /\ call[c].oxid = x
  OBVIOUS
<1>4. r.calls = oxid[x].calls - 1 /\ (k.at = "free" \/ k.oxid = x)
  OBVIOUS
<1> HIDE DEF x, b
<1>5. \A y \in Oxid : oxid'[y].calls = b[y].calls /\ (oxid'[y].handle <=> b[y].handle)
  BY <1>1, <1>3, CommitCalls
<1>6. oxid'[x].calls = r.calls /\ (oxid'[x].handle <=> r.handle)
  BY <1>0, <1>1, <1>5
<1>7. \A y \in Oxid : y # x => oxid'[y].calls = oxid[y].calls
                               /\ (oxid'[y].handle <=> oxid[y].handle)
  BY <1>1, <1>5
<1>8. oxid'[x].calls = oxid[x].calls - ActW(call[c], x) + ActW(k, x)
  BY <1>0, <1>2, <1>4, <1>6
<1>9. oxid'[x].calls <= MaxCalls
  BY <1>0, <1>4, <1>6
<1> QED BY <1>0, <1>3, <1>4, <1>6, <1>7, <1>8, <1>9, OneCounted, ZenonT(60)

LEMMA CallFailedCounted ==
  ASSUME IInv, Lives, CallsCounted, NEW c \in Call, CallFailed(c)
  PROVE  CallsCounted'
<1> DEFINE x == call[c].oxid
           left == [oxid[x] EXCEPT !.calls = @ - 1,
                           !.leaving = @ + (IF call[c].helper THEN 1 ELSE 0)]
           h == HandleLeft(left)
           l == oxid[x].calls - 1
           m == oxid[x].leaving + (IF call[c].helper THEN 1 ELSE 0)
           r == [left EXCEPT !.handle = h]
<1>0. /\ x \in Oxid /\ oxid[x] \in OxidInts /\ oxid[x].leaving \in Nat
      /\ call[c].at \in Unsettled
  BY CallTyped, LivesTyped DEF CallFailed, Unsettled
<1>1. l \in Nat /\ m \in Nat
  BY <1>0, ActiveCounted
<1>2. PICK q : Commit(q, [oxid EXCEPT ![x] = r], proc)
  BY DEF CallFailed
<1>3. call' = [call EXCEPT ![c] = NoCall]
  BY DEF CallFailed
<1>4. left \in OxidInts /\ left.calls = l /\ (left.handle <=> oxid[x].handle)
  <2>1. left = [oxid[x] EXCEPT !.calls = l, !.leaving = m]
    BY <1>0 DEF OxidInts
  <2> HIDE DEF left, l, m
  <2> QED BY <1>0, <1>1, <2>1 DEF OxidInts
<1>5. oxid[x].calls > 0 => oxid[x].handle
  BY <1>0 DEF CallsCounted
<1>6. oxid[x].calls > l /\ l \in Nat /\ oxid[x].calls \in Nat
  BY <1>0, <1>1, LivesTyped
<1> HIDE DEF left
<1>7. h \in BOOLEAN /\ (h <=> l > 0)
  BY <1>4, <1>5, <1>6 DEF HandleLeft, OxidInts
<1> HIDE DEF h
<1>8. r \in OxidInts /\ r.calls = left.calls /\ (r.handle <=> h)
  BY <1>4, <1>7 DEF OxidInts
<1>9. r.calls = oxid[x].calls - 1 /\ (r.handle <=> r.calls > 0)
  BY <1>4, <1>7, <1>8
<1>10. NoCall \in Calls /\ NoCall.at = "free" /\ NoCall.at \notin Unsettled
  BY NoCallTyped DEF NoCall, Unsettled
<1> HIDE DEF r, l, NoCall
<1> QED BY <1>0, <1>2, <1>3, <1>8, <1>9, <1>10, SettledCounted

LEMMA ProcessResultsCounted ==
  ASSUME IInv, Lives, CallsCounted, NEW c \in Call, ProcessResults(c)
  PROVE  CallsCounted'
<1> DEFINE x == call[c].oxid
           k == [call[c] EXCEPT !.at = "check", !.oids = {}, !.answer = AllAnswer("keep")]
           l == oxid[x].calls - 1
           r == [oxid[x] EXCEPT !.calls = l]
<1>0. x \in Oxid /\ oxid[x] \in OxidInts /\ call[c].at \in Unsettled
  BY CallTyped, LivesTyped DEF ProcessResults, Unsettled
<1>1. l \in Nat /\ oxid[x].calls \in Nat
  BY <1>0, ActiveCounted, LivesTyped
<1>2. PICK q : Commit(q, [oxid EXCEPT ![x] = r], proc)
  <2>1. [oxid EXCEPT ![x].calls = @ - 1] = [oxid EXCEPT ![x] = r]
    BY <1>0, LivesTyped
  <2> HIDE DEF r
  <2> QED BY <2>1 DEF ProcessResults
<1>3. call' = [call EXCEPT ![c] = k]
  BY DEF ProcessResults, IInv, Shapes
<1>4. AllAnswer("keep") \in [Oid -> {"ok", "keep", "pinned"}]
  BY DEF AllAnswer
<1>5. k \in Calls /\ k.at = "check" /\ k.oxid = x
  BY <1>4, CallTyped DEF Calls, Stages
<1>6. r \in OxidInts /\ r.calls = l /\ (r.handle <=> oxid[x].handle)
  BY <1>0, <1>1 DEF OxidInts
<1>7. r.calls > 0 => r.handle
  BY <1>0, <1>1, <1>6 DEF CallsCounted
<1> HIDE DEF k, r
<1> QED BY <1>0, <1>2, <1>3, <1>5, <1>6, <1>7, SettledCounted DEF Unsettled

\* Only the last call closes the handle.
LEMMA ReleaseRundownHandleCounted ==
  ASSUME IInv, Lives, CallsCounted, NEW c \in Call, ReleaseRundownHandle(c)
  PROVE  CallsCounted'
<1> DEFINE x == call[c].oxid
           k == Moved(c, "drop")
<1>0. x \in Oxid /\ call[c].at = "handle" /\ oxid[x].calls \in Nat /\ oxid \in [Oxid -> OxidObjects]
  BY CallTyped, LivesTyped DEF ReleaseRundownHandle, Lives, Typed
<1>1. k \in Calls /\ k.at = "drop" /\ k.oxid = x
  BY MovedCall DEF Stages
<1>2. call' = [call EXCEPT ![c] = k]
  BY DEF ReleaseRundownHandle, To, Moved
<1>3. /\ oxid'[x].calls = oxid[x].calls
      /\ (oxid'[x].handle <=> oxid[x].handle /\ oxid[x].calls > 0)
      /\ \A y \in Oxid : y # x => oxid'[y].calls = oxid[y].calls
                                  /\ (oxid'[y].handle <=> oxid[y].handle)
  BY <1>0 DEF ReleaseRundownHandle, HandleLeft, OxidObjects
<1>4. ActW(k, x) = 0 /\ ActW(call[c], x) = 0
  BY <1>0, <1>1 DEF ActW, Unsettled
<1>5. oxid'[x].calls = oxid[x].calls - ActW(call[c], x) + ActW(k, x)
  BY <1>0, <1>3, <1>4
<1>6. oxid'[x].calls <= MaxCalls /\ (oxid'[x].calls > 0 => oxid'[x].handle)
  BY <1>0, <1>3 DEF CallsCounted
<1>7. oxid'[x].handle => oxid'[x].calls > 0
  BY <1>3
<1>8. call[c].oxid = x
  OBVIOUS
<1> HIDE DEF x, k
<1> QED BY <1>0, <1>1, <1>2, <1>3, <1>5, <1>6, <1>7, <1>8, OneCounted

-----------------------------------------------------------------------------
(* The counts are right in every state *)

\* Beside the invariant of the OIDs.
LInv == Lives /\ CallShape /\ CallsCounted

LEMMA InitLInv == Init => LInv
<1> SUFFICES ASSUME Init PROVE LInv
  OBVIOUS
<1>1. \A c \in Call : call[c] = NoCall
  BY DEF Init
<1>2. NoCall.at = "free" /\ ~ NoCall.helper
  BY DEF NoCall
<1> HIDE DEF NoCall
<1>3. CallShape
  BY <1>1, <1>2 DEF CallShape, Unsettled
<1>4. NoOxid \in OxidObjects /\ RunW(NoOxid) = 0 /\ NoOxid.refs = 0 /\ NoOxid.calls = 0
      /\ ~ NoOxid.handle
  BY DEF NoOxid, OxidObjects, RunW
<1>5. \A o \in Oid : ~ oid[o].alive
  BY DEF Init, NoOid
<1> HIDE DEF NoOxid
<1>6. \A x \in Oxid : oxid[x] = NoOxid
  BY DEF Init
<1>7. ASSUME NEW x \in Oxid
      PROVE  Alive(x) = {} /\ Refers(x) = {} /\ Helping(x) = {} /\ Active(x) = {}
  BY <1>1, <1>2, <1>5 DEF Alive, Refers, Helping, Active, OidsOf, Referring, Unsettled
<1>8. ASSUME NEW p \in Process
      PROVE  Dependents(p) = {} /\ Callers(p) = {}
  BY <1>1, <1>2, <1>4, <1>6 DEF Dependents, Callers, Exists, Referring
<1>9. Cardinality({}) = 0
  BY FS_EmptySet
<1>10. Lives
  <2>1. Typed
    BY <1>4 DEF Init, Typed, Processes
  <2>2. OxidsCounted
    BY <1>4, <1>6, <1>7, FS_EmptySet DEF OxidsCounted
  <2>3. ASSUME NEW p \in Process
        PROVE  proc[p].refs = UpW(proc[p]) + Cardinality(Dependents(p)) + Cardinality(Callers(p))
    <3>1. proc[p].refs = 0 /\ UpW(proc[p]) = 0
      BY DEF Init, UpW
    <3> QED BY <1>8, <1>9, <3>1
  <2> QED BY <2>1, <2>2, <2>3 DEF Lives, ProcsCounted
<1>11. CallsCounted
  <2>1. 0 <= MaxCalls
    BY ServerOidAssumption
  <2>2. \A x \in Oxid : Cardinality(Active(x)) = 0
    BY <1>7, <1>9
  <2> QED BY <1>4, <1>6, <2>1, <2>2 DEF CallsCounted
<1> QED BY <1>3, <1>10, <1>11 DEF LInv

LEMMA ServerCounts ==
  ASSUME IInv, LInv, Server
  PROVE  LInv'
<1> USE DEF LInv
<1>1. ASSUME NEW p \in Process, Connect(p) PROVE LInv'
  BY <1>1, ConnectLives, SameShape, AllocatedCounted DEF Connect
<1>2. ASSUME NEW p \in Process, ProcessRundown(p) PROVE LInv'
  BY <1>2, ProcessRundownLives, SameShape, ProcessRundownCounted DEF ProcessRundown
<1>3. ASSUME NEW x \in Oxid, AllocateOxid(x) PROVE LInv'
  BY <1>3, AllocateOxidLives, SameShape, AllocatedCounted DEF AllocateOxid
<1>4. ASSUME NEW x \in Oxid, NEW F \in SUBSET OidsOf(x), FreeOxid(x, F) PROVE LInv'
  BY <1>4, FreeOxidLives, SameShape, FreeOxidCounted DEF FreeOxid
<1>5. ASSUME NEW x \in Oxid, BeginUseProtseq(x) PROVE LInv'
  BY <1>5, BeginUseProtseqLives, SameShape, EndUseProtseqCounted DEF BeginUseProtseq
<1>6. ASSUME NEW x \in Oxid, EndUseProtseq(x) PROVE LInv'
  BY <1>6, EndUseProtseqLives, SameShape, EndUseProtseqCounted DEF EndUseProtseq
<1>7. ASSUME NEW o \in Oid, AllocateOid(o) PROVE LInv'
  BY <1>7, AllocateOidLives, SameShape, AllocatedCounted DEF AllocateOid
<1>8. ASSUME NEW o \in Oid, FreeServerOid(o) PROVE LInv'
  <2>1. \E q : Commit(q, oxid, proc)
    BY <1>8 DEF FreeServerOid
  <2>2. UNCHANGED call
    BY <1>8 DEF FreeServerOid
  <2> QED BY <1>8, <2>1, <2>2, FreeServerOidLives, SameShape, CommitCounted
<1>9. ASSUME NEW U \in SUBSET Oid, UnpinOids(U) PROVE LInv'
  <2>1. \E q : Commit(q, oxid, proc)
    BY <1>9 DEF UnpinOids
  <2>2. UNCHANGED call
    BY <1>9 DEF UnpinOids
  <2> QED BY <1>9, <2>1, <2>2, UnpinOidsLives, SameShape, CommitCounted
<1> QED BY <1>1, <1>2, <1>3, <1>4, <1>5, <1>6, <1>7, <1>8, <1>9 DEF Server

LEMMA ClientCounts ==
  ASSUME IInv, LInv, Client
  PROVE  LInv'
<1> USE DEF LInv
<1>1. ASSUME NEW s \in PingSet, SimplePing(s) PROVE LInv'
  <2>1. (\E q : Commit(q, oxid, proc)) /\ UNCHANGED call
    BY <1>1 DEF SimplePing
  <2> QED BY <1>1, <2>1, SimplePingLives, SameShape, CommitCounted
<1>2. ASSUME NEW s \in PingSet, RundownSet(s) PROVE LInv'
  <2>1. (\E q : Commit(q, oxid, proc)) /\ UNCHANGED call
    BY <1>2 DEF RundownSet
  <2> QED BY <1>2, <2>1, RundownSetLives, SameShape, CommitCounted
<1>3. ASSUME NEW s \in PingSet, NEW A \in SUBSET Oid, NEW D \in SUBSET Oid, ComplexPing(s, A, D)
      PROVE  LInv'
  <2>1. (\E q : Commit(q, oxid, proc)) /\ UNCHANGED call
    BY <1>3 DEF ComplexPing
  <2> QED BY <1>3, <2>1, ComplexPingLives, SameShape, CommitCounted
<1> QED BY <1>1, <1>2, <1>3, ClientSteps

LEMMA RundownCounts ==
  ASSUME IInv, LInv, Rundown
  PROVE  LInv'
<1> USE DEF LInv
<1>1. ASSUME NEW x \in Oxid, NEW c \in Call, NEW B \in Batches(x),
             TaskRundown(x, B, c) \/ HelperRundown(x, B, c)
      PROVE  LInv'
  BY <1>1, TaskRundownLives, TaskRundownShape, TaskRundownCounted
<1>2. ASSUME NEW x \in Oxid, HelperIdle(x) PROVE LInv'
  BY <1>2, HelperIdleLives, SameShape, EndUseProtseqCounted DEF HelperIdle
<1>3. ASSUME NEW x \in Oxid, HelperDone(x) PROVE LInv'
  BY <1>3, HelperDoneLives, SameShape, EndUseProtseqCounted DEF HelperDone
<1>4. ASSUME NEW c \in Call, NoMemory(c) \/ Returned(c) PROVE LInv'
  BY <1>4, NoMemoryLives, StagesShape, MovesCounted
<1>5. ASSUME NEW c \in Call, TakeReferences(c) PROVE LInv'
  BY <1>5, TakeReferencesLives, StagesShape, MovesCounted
<1>6. ASSUME NEW c \in Call, CheckForMore(c) PROVE LInv'
  BY <1>6, CheckForMoreLives, StagesShape, MovesCounted
<1>7. ASSUME NEW c \in Call, Issue(c) PROVE LInv'
  BY <1>7, IssueLives, IssueShape, IssueCounted
<1>8. ASSUME NEW c \in Call, IssueFails(c) PROVE LInv'
  BY <1>8, IssueFailsLives, StagesShape, ReferencesCounted
<1>9. ASSUME NEW c \in Call, CallFailed(c) PROVE LInv'
  BY <1>9, CallFailedLives, SettledShape, CallFailedCounted
<1>10. ASSUME NEW c \in Call, ProcessResults(c) PROVE LInv'
  BY <1>10, ProcessResultsLives, SettledShape, ProcessResultsCounted
<1>11. ASSUME NEW c \in Call, ReleaseRundownHandle(c) PROVE LInv'
  BY <1>11, ReleaseRundownHandleLives, StagesShape, ReleaseRundownHandleCounted
<1>12. ASSUME NEW c \in Call, DropReferences(c) PROVE LInv'
  BY <1>12, DropReferencesLives, SettledShape, ReferencesCounted
<1>13. ASSUME NEW c \in Call, NEW a \in [Oid -> Answers], ServerAnswers(c, a) PROVE LInv'
  BY <1>13, ServerAnswersLives, ServerAnswersShape, ServerAnswersCounted
<1>14. ASSUME NEW c \in Call, ReturnedError(c) PROVE LInv'
  BY <1>14, ReturnedErrorLives, ReturnedErrorShape, ReturnedErrorCounted
<1> QED BY <1>1, <1>2, <1>3, <1>4, <1>5, <1>6, <1>7, <1>8, <1>9, <1>10, <1>11, <1>12,
           <1>13, <1>14 DEF Rundown

LEMMA EnvironmentCounts ==
  ASSUME IInv, LInv, Environment
  PROVE  LInv'
<1> USE DEF LInv
<1>1. ASSUME UNCHANGED <<oxid, proc, call>>, \A o \in Oid : oid'[o].alive <=> oid[o].alive
      PROVE  LInv'
  <2>1. CallsCounted'
    BY <1>1, SameCounted DEF CallsCounted
  <2> QED BY <1>1, <2>1, NothingCounted, SameShape
<1>2. ASSUME NEW o \in Oid, OidDue(o) PROVE LInv'
  <2>1. \A p \in Oid : oid'[p].alive <=> oid[p].alive
    BY <1>2 DEF OidDue, IInv, Shapes, OidObjects
  <2> QED BY <1>1, <1>2, <2>1 DEF OidDue
<1>3. ASSUME NEW s \in PingSet, SetDue(s) PROVE LInv'
  BY <1>1, <1>3 DEF SetDue
<1>4. ASSUME Suspend \/ CriticalSleep \/ Resume PROVE LInv'
  BY <1>1, <1>4 DEF Suspend, CriticalSleep, Resume
<1>5. ASSUME PingAllSets PROVE LInv'
  <2>1. (\E q : Commit(q, oxid, proc)) /\ UNCHANGED call
    BY <1>5 DEF PingAllSets
  <2> QED BY <1>5, <2>1, PingAllSetsLives, SameShape, CommitCounted
<1>6. ASSUME ResetAllOidTimeouts PROVE LInv'
  <2>1. \A o \in Oid : oid'[o].alive <=> oid[o].alive
    BY <1>6 DEF ResetAllOidTimeouts, IInv, Shapes, OidObjects
  <2> QED BY <1>1, <1>6, <2>1 DEF ResetAllOidTimeouts
<1> QED BY <1>2, <1>3, <1>4, <1>5, <1>6 DEF Environment

\* The counts are right in every state.
THEOREM LInvHolds == Spec => [](IInv /\ LInv)
<1>1. Init => IInv /\ LInv
  BY InitIInv, InitLInv
<1>2. IInv /\ LInv /\ IInv' /\ [Next]_vars => LInv'
  <2>1. CASE Next
    BY <2>1, ServerCounts, ClientCounts, RundownCounts, EnvironmentCounts DEF Next
  <2>2. ASSUME IInv, LInv, UNCHANGED vars PROVE LInv'
    BY <2>2 DEF vars, LInv, Lives, Typed, OxidsCounted, ProcsCounted, CallShape, CallsCounted,
                Alive, Refers, Helping, Active, Dependents, Callers, Closing, Exists
  <2> QED BY <2>1, <2>2
<1> QED BY <1>1, <1>2, IInvHolds, PTL DEF Spec

\* Any number of apartments, calls and helper threads may come and go: an OXID
\* and a process count exactly what points to them, and the OXID of a call is
\* there at every stage of it (CServerOxid and CProcess, Reference and
\* Release; CServerOxid::RundownOids takes OIDs off the list first and
\* references the OXID for the call later).
THEOREM LifetimesExactHolds == Spec => []LifetimesExact
<1>1. IInv /\ LInv => LifetimesExact
  <2> SUFFICES ASSUME IInv, LInv PROVE LifetimesExact
    OBVIOUS
  <2> USE DEF LInv
  <2>1. ASSUME NEW x \in Oxid
        PROVE  /\ oxid[x].refs = (IF oxid[x].running THEN 1 ELSE 0)
                                 + Cardinality({o \in OidsOf(x) : oid[o].alive})
                                 + Cardinality(CallsOf(x, Referring))
                                 + Cardinality({c \in CallsOf(x, Stages) : call[c].helper})
                                 + oxid[x].items + oxid[x].leaving + oxid[x].guests
               /\ CallsOf(x, Stages \ {"free"}) # {} => Exists(x)
    <3>1. CallsOf(x, Referring) = Refers(x)
      BY DEF CallsOf, Refers
    <3>2. {c \in CallsOf(x, Stages) : call[c].helper} = Helping(x)
      BY CallTyped DEF CallsOf, Helping
    <3>3. {o \in OidsOf(x) : oid[o].alive} = Alive(x)
      BY DEF Alive
    <3>4. oxid[x].refs = RunW(oxid[x]) + Cardinality(Alive(x)) + Cardinality(Refers(x))
                         + Cardinality(Helping(x))
      BY DEF Lives, OxidsCounted
    <3>5. /\ oxid[x].items \in Nat /\ oxid[x].leaving \in Nat /\ oxid[x].guests \in Nat
          /\ Cardinality(Alive(x)) \in Nat /\ Cardinality(Refers(x)) \in Nat
          /\ Cardinality(Helping(x)) \in Nat
      BY LivesTyped, Countable
    <3>6. oxid[x].refs = (IF oxid[x].running THEN 1 ELSE 0) + Cardinality(Alive(x))
                         + Cardinality(Refers(x)) + Cardinality(Helping(x))
                         + oxid[x].items + oxid[x].leaving + oxid[x].guests
      BY <3>4, <3>5 DEF RunW
    <3>7. CallsOf(x, Stages \ {"free"}) # {} => Exists(x)
      BY CallThere DEF CallsOf
    <3> QED BY <3>1, <3>2, <3>3, <3>6, <3>7
  <2>2. ASSUME NEW p \in Process
        PROVE  proc[p].refs = (IF proc[p].up THEN 1 ELSE 0)
                 + Cardinality({x \in Oxid : ProcessOf[x] = p /\ Exists(x)})
                 + Cardinality(UNION {CallsOf(x, Referring) :
                                      x \in {y \in Oxid : ProcessOf[y] = p}})
    <3>1. UNION {CallsOf(x, Referring) : x \in {y \in Oxid : ProcessOf[y] = p}} = Callers(p)
      <4>1. \A c \in Call : call[c].oxid \in Oxid
        BY CallTyped
      <4> QED BY <4>1 DEF CallsOf, Callers
    <3>2. {x \in Oxid : ProcessOf[x] = p /\ Exists(x)} = Dependents(p)
      BY DEF Dependents
    <3>3. proc[p].refs = UpW(proc[p]) + Cardinality(Dependents(p)) + Cardinality(Callers(p))
      BY DEF Lives, ProcsCounted
    <3> QED BY <3>1, <3>2, <3>3 DEF UpW
  <2> QED BY <2>1, <2>2 DEF LifetimesExact
<1> QED BY <1>1, LInvHolds, PTL

\* For any number of OIDs and calls, and any batch size and limit: an OID that
\* is being run down is in exactly one call, which will settle it; a call
\* counts against the limit of its OXID until it is settled; and the shared
\* binding handle is open while calls use it and closed before the OXID goes
\* (CServerOxid::RundownOids, ProcessRundownResults, ReleaseRundownHandle).
THEOREM CallsExactHolds == Spec => []CallsExact
<1>1. IInv /\ LInv => CallsExact
  <2> SUFFICES ASSUME IInv, LInv PROVE CallsExact
    OBVIOUS
  <2> USE DEF LInv
  <2>1. ASSUME NEW o \in Oid
        PROVE  Cardinality({c \in Call : call[c].at \in Unsettled /\ o \in call[c].oids})
                 = IF oid[o].down THEN 1 ELSE 0
    <3> DEFINE S == {c \in Call : call[c].at \in Unsettled /\ o \in call[c].oids}
    <3>1. S = {c \in Call : Has(c, o)}
      BY DEF Has
    <3>2. CASE oid[o].down
      <4>1. PICK c \in Call : Has(c, o)
        BY <3>2 DEF IInv, TakenOnce
      <4>2. S = {c}
        BY <3>1, <4>1 DEF IInv, TakenOnce
      <4>3. Cardinality({c}) = 1
        BY FS_Singleton
      <4> QED BY <3>2, <4>2, <4>3
    <3>3. CASE ~ oid[o].down
      <4>1. S = {}
        BY <3>1, <3>3 DEF IInv, TakenOnce
      <4>2. Cardinality({}) = 0
        BY FS_EmptySet
      <4> QED BY <3>3, <4>1, <4>2
    <3> QED BY <3>2, <3>3
  <2>2. ASSUME NEW x \in Oxid
        PROVE  /\ oxid[x].calls = Cardinality(CallsOf(x, Unsettled))
               /\ oxid[x].calls <= MaxCalls
               /\ oxid[x].calls > 0 => oxid[x].handle
               /\ oxid[x].handle => Exists(x)
    <3>1. CallsOf(x, Unsettled) = Active(x)
      BY DEF CallsOf, Active
    <3>2. oxid[x].handle => \E c \in Call : call[c].at # "free" /\ call[c].oxid = x
      <4>1. oxid[x].calls > 0 => Active(x) # {}
        <5>1. Cardinality({}) = 0
          BY FS_EmptySet
        <5>2. oxid[x].calls = Cardinality(Active(x))
          BY DEF CallsCounted
        <5> QED BY <5>1, <5>2
      <4> QED BY <4>1 DEF CallsCounted, Active, Closing, Unsettled
    <3>3. oxid[x].handle => Exists(x)
      BY <3>2, CallThere
    <3> QED BY <3>1, <3>3 DEF CallsCounted
  <2> QED BY <2>1, <2>2 DEF CallsExact
<1> QED BY <1>1, LInvHolds, PTL

-----------------------------------------------------------------------------
(* Time that passed while the machine slept *)

\* A resume handles the sets first, then the OIDs, and then, if the sleep was
\* noticed, it lets the rundowns go on.
Forgiven ==
  /\ power \in Powers
  /\ ~ power.asleep => \A s \in PingSet : set[s].timer # "slept"
  /\ ~ power.asleep /\ power.resume # "pinged" => \A o \in Oid : oid[o].timer # "slept"
  /\ ~ power.asleep /\ power.resume = "no" => Running

\* An OID that is not overdue, whatever it counts.
Awake(r) ==
  r \in [alive : BOOLEAN, refs : Int, down : BOOLEAN, freed : BOOLEAN,
         pinned : BOOLEAN, timer : Timers \ {"slept"}]

LEMMA AwakeObject ==
  ASSUME NEW r \in OidObjects
  PROVE  Awake(r) <=> r.timer # "slept"
BY DEF Awake, OidObjects, Timers

\* No operation on an OID makes it overdue.
LEMMA AwakeOperations ==
  ASSUME NEW r, Awake(r), NEW running
  PROVE  /\ Awake(Release(r, running)) /\ Awake(KeepAlive(r)) /\ Awake(Reference(r))
         /\ Awake(Unpin(r, running)) /\ Awake(Free(r, running))
<1>0. Awake(NoOid)
  BY DEF Awake, NoOid, Timers
<1>1. ASSUME NEW s, Awake(s) PROVE Awake(Release(s, running))
  <2> DEFINE n == s.refs - 1
  <2>1. n \in Int /\ 0 \in Int /\ "fresh" \in Timers \ {"slept"}
    BY <1>1 DEF Awake, Timers
  <2>2. Awake([s EXCEPT !.refs = 0]) /\ Awake([s EXCEPT !.refs = 0, !.timer = "fresh"])
    BY <1>1, <2>1 DEF Awake
  <2> HIDE DEF n
  <2>3. Awake([s EXCEPT !.refs = n])
    BY <1>1, <2>1 DEF Awake
  <2> QED BY <1>0, <2>2, <2>3 DEF Release, n
<1>2. ASSUME NEW s, Awake(s) PROVE Awake(Unpin(s, running))
  <2>1. Awake([s EXCEPT !.pinned = FALSE])
    BY <1>2 DEF Awake
  <2> QED BY <1>1, <2>1 DEF Unpin
<1>3. Awake(KeepAlive(r)) /\ Awake(Reference(r))
  <2> DEFINE n == r.refs + 1
             m == IF r.refs = 0 THEN "out" ELSE r.timer
  <2>1. n \in Int /\ m \in Timers \ {"slept"} /\ "fresh" \in Timers \ {"slept"}
    BY DEF Awake, Timers
  <2>2. Awake([r EXCEPT !.timer = "fresh"])
    BY <2>1 DEF Awake
  <2> HIDE DEF n, m
  <2>3. Awake([r EXCEPT !.refs = n, !.timer = m])
    BY <2>1 DEF Awake
  <2> QED BY <2>2, <2>3 DEF KeepAlive, Reference, n, m
<1>4. Awake(Free(r, running))
  <2>1. Awake([r EXCEPT !.freed = TRUE])
    BY DEF Awake
  <2> QED BY <1>0, <1>2, <2>1 DEF Free
<1> QED BY <1>1, <1>2, <1>3, <1>4

\* Nor does the result of a call.
LEMMA AwakeResult ==
  ASSUME NEW r, Awake(r), NEW answer
  PROVE  Awake(Result(r, answer))
<1>1. Awake(NoOid) /\ Awake(Reference(r))
  BY AwakeOperations DEF Awake, NoOid, Timers
<1>2. /\ Awake([Reference(r) EXCEPT !.pinned = TRUE, !.down = FALSE])
      /\ Awake([r EXCEPT !.down = FALSE])
      /\ Awake([r EXCEPT !.down = FALSE, !.timer = "fresh"])
  BY <1>1 DEF Awake, Timers
<1> QED BY <1>1, <1>2 DEF Result

\* A step that makes nothing overdue, while the machine is in one state.
LEMMA KeepsForgiven ==
  ASSUME Forgiven, UNCHANGED power,
         \A o \in Oid : oid[o].timer # "slept" => oid'[o].timer # "slept",
         \A s \in PingSet : set[s].timer # "slept" => set'[s].timer # "slept"
  PROVE  Forgiven'
BY DEF Forgiven, Running

\* The same, by what it does to the OIDs.
LEMMA CommitForgiven ==
  ASSUME IInv, IInv', Forgiven, UNCHANGED power, NEW q, NEW b, NEW d, Commit(q, b, d),
         \A o \in Oid : Awake(oid[o]) => Awake(q[o]),
         \A s \in PingSet : set[s].timer # "slept" => set'[s].timer # "slept"
  PROVE  Forgiven'
<1>1. ASSUME NEW o \in Oid, oid[o].timer # "slept" PROVE oid'[o].timer # "slept"
  <2>1. oid[o] \in OidObjects /\ oid'[o] \in OidObjects /\ oid'[o] = q[o]
    BY DEF IInv, Shapes, Commit
  <2>2. Awake(oid[o])
    BY <1>1, <2>1, AwakeObject
  <2>3. Awake(oid'[o])
    BY <2>1, <2>2
  <2> QED BY <2>1, <2>3, AwakeObject
<1> QED BY <1>1, KeepsForgiven

LEMMA AwakeReleaseAll ==
  ASSUME NEW q, NEW S, NEW o \in Oid, Awake(q[o])
  PROVE  Awake(ReleaseAll(q, S)[o])
BY AwakeOperations DEF ReleaseAll

LEMMA AwakeSwapped ==
  ASSUME NEW s, NEW A, NEW D, NEW o \in Oid, Awake(oid[o])
  PROVE  Awake(Swapped(s, A, D)[o])
<1> DEFINE q1 == ReleaseAll(oid, Stale(s))
           kept == set[s].members \ Stale(s)
           added == {p \in A \ kept : q1[p].alive}
           q2 == [p \in Oid |-> IF p \in added THEN Reference(q1[p]) ELSE q1[p]]
           q3 == ReleaseAll(q2, D \cap (kept \cup added))
<1>1. Awake(q1[o])
  BY AwakeReleaseAll
<1> HIDE DEF q1, added
<1>2. Awake(q2[o])
  BY <1>1, AwakeOperations
<1> HIDE DEF q2
<1>3. Awake(q3[o])
  BY <1>2, AwakeReleaseAll
<1> HIDE DEF q3
<1>4. Swapped(s, A, D)[o] = IF o \in D \ (kept \cup added) /\ q3[o].alive
                            THEN KeepAlive(q3[o]) ELSE q3[o]
  BY DEF Swapped, q1, added, q2, q3
<1> QED BY <1>3, <1>4, AwakeOperations

LEMMA AwakeOrphans ==
  ASSUME NEW X, NEW o \in Oid, Awake(oid[o])
  PROVE  Awake(UnpinOrphans(oid, X)[o])
BY AwakeOperations DEF UnpinOrphans

\* A pinged set has a new timeout.
LEMMA PingedForgiven ==
  ASSUME IInv, NEW s \in PingSet, NEW M, Pinged(s, M)
  PROVE  \A t \in PingSet : set[t].timer # "slept" => set'[t].timer # "slept"
<1>1. PICK n : set' = [set EXCEPT ![s] = [timer |-> "fresh", members |-> M, pings |-> n]]
  BY DEF Pinged
<1> QED BY <1>1 DEF IInv, Shapes

\* The steps of servers and clients.
LEMMA ServerForgiven ==
  ASSUME IInv, IInv', Forgiven, Server
  PROVE  Forgiven'
<1>1. ASSUME NEW p \in Process, Connect(p) PROVE Forgiven'
  BY <1>1, KeepsForgiven DEF Connect
<1>2. ASSUME NEW p \in Process, ProcessRundown(p) PROVE Forgiven'
  <2>1. PICK X, b, d : Commit(UnpinOrphans(oid, X), b, d)
    BY <1>2 DEF ProcessRundown
  <2>2. UNCHANGED <<set, power>>
    BY <1>2 DEF ProcessRundown
  <2> QED BY <2>1, <2>2, AwakeOrphans, CommitForgiven
<1>3. ASSUME NEW x \in Oxid, AllocateOxid(x) PROVE Forgiven'
  BY <1>3, KeepsForgiven DEF AllocateOxid
<1>4. ASSUME NEW x \in Oxid, NEW F \in SUBSET OidsOf(x), FreeOxid(x, F) PROVE Forgiven'
  <2> DEFINE u == UnpinOrphans(oid, {x})
             freed == {o \in F : u[o].alive /\ ~ u[o].down /\ u[o].refs = 0}
             q == [o \in Oid |-> IF o \in freed THEN NoOid ELSE u[o]]
  <2>1. (\E b : Commit(q, b, proc)) /\ UNCHANGED <<set, power>>
    BY <1>4 DEF FreeOxid
  <2>2. Awake(NoOid)
    BY DEF Awake, NoOid, Timers
  <2>3. \A o \in Oid : Awake(oid[o]) => Awake(q[o])
    BY <2>2, AwakeOrphans
  <2> HIDE DEF q
  <2> QED BY <2>1, <2>3, CommitForgiven
<1>5. ASSUME NEW x \in Oxid, BeginUseProtseq(x) PROVE Forgiven'
  BY <1>5, KeepsForgiven DEF BeginUseProtseq
<1>6. ASSUME NEW x \in Oxid, EndUseProtseq(x) PROVE Forgiven'
  BY <1>6, KeepsForgiven DEF EndUseProtseq, Commit
<1>7. ASSUME NEW o \in Oid, AllocateOid(o) PROVE Forgiven'
  <2> DEFINE new == [NoOid EXCEPT !.alive = TRUE, !.refs = 1]
             n == Release(new, TRUE)
  <2>1. Awake(new)
    <3>1. new \in OidObjects
      BY DEF NoOid, OidObjects, Timers
    <3>2. new.timer = "out"
      BY DEF NoOid
    <3> HIDE DEF new
    <3> QED BY <3>1, <3>2, AwakeObject
  <2>2. oid' = [oid EXCEPT ![o] = n] /\ UNCHANGED <<set, power>> /\ oid \in [Oid -> OidObjects]
    BY <1>7 DEF AllocateOid, IInv, Shapes
  <2> HIDE DEF new
  <2>3. Awake(n)
    BY <2>1, AwakeOperations
  <2>4. n.timer # "slept"
    BY <2>3 DEF Awake
  <2> HIDE DEF n
  <2>5. \A p \in Oid : oid[p].timer # "slept" => oid'[p].timer # "slept"
    BY <2>2, <2>4
  <2> QED BY <2>2, <2>5, KeepsForgiven
<1>8. ASSUME NEW o \in Oid, FreeServerOid(o) PROVE Forgiven'
  <2> DEFINE n == Free(oid[o], TRUE)
             q == [oid EXCEPT ![o] = n]
  <2>1. Commit(q, oxid, proc) /\ UNCHANGED <<set, power>> /\ oid \in [Oid -> OidObjects]
    BY <1>8 DEF FreeServerOid, IInv, Shapes
  <2>2. Awake(oid[o]) => Awake(n)
    BY AwakeOperations
  <2> HIDE DEF n
  <2>3. \A p \in Oid : Awake(oid[p]) => Awake(q[p])
    BY <2>1, <2>2
  <2> HIDE DEF q
  <2> QED BY <2>1, <2>3, CommitForgiven
<1>9. ASSUME NEW U \in SUBSET Oid, UnpinOids(U) PROVE Forgiven'
  <2> DEFINE hit == {p \in U : oid[p].alive /\ oid[p].pinned /\ oxid[OxidOf[p]].running}
             q == [p \in Oid |-> IF p \in hit THEN Unpin(oid[p], TRUE) ELSE oid[p]]
  <2>1. Commit(q, oxid, proc) /\ UNCHANGED <<set, power>>
    BY <1>9 DEF UnpinOids
  <2>2. \A p \in Oid : Awake(oid[p]) => Awake(q[p])
    BY AwakeOperations
  <2> HIDE DEF q
  <2> QED BY <2>1, <2>2, CommitForgiven
<1> QED BY <1>1, <1>2, <1>3, <1>4, <1>5, <1>6, <1>7, <1>8, <1>9 DEF Server

LEMMA ClientForgiven ==
  ASSUME IInv, IInv', Forgiven, Client
  PROVE  Forgiven'
<1>1. ASSUME NEW s \in PingSet, SimplePing(s) PROVE Forgiven'
  <2>1. /\ Commit(ReleaseAll(oid, Stale(s)), oxid, proc) /\ UNCHANGED power
        /\ \A t \in PingSet : set[t].timer # "slept" => set'[t].timer # "slept"
    BY <1>1, PingedForgiven DEF SimplePing
  <2> QED BY <2>1, AwakeReleaseAll, CommitForgiven
<1>2. ASSUME NEW s \in PingSet, RundownSet(s) PROVE Forgiven'
  <2>1. NoSet.timer # "slept"
    BY DEF NoSet
  <2> HIDE DEF NoSet
  <2>2. /\ Commit(ReleaseAll(oid, set[s].members), oxid, proc) /\ UNCHANGED power
        /\ \A t \in PingSet : set[t].timer # "slept" => set'[t].timer # "slept"
    BY <1>2, <2>1 DEF RundownSet, IInv, Shapes
  <2> QED BY <2>2, AwakeReleaseAll, CommitForgiven
<1>3. ASSUME NEW s \in PingSet, NEW A \in SUBSET Oid, NEW D \in SUBSET Oid, ComplexPing(s, A, D)
      PROVE  Forgiven'
  <2>1. /\ Commit(Swapped(s, A, D), oxid, proc) /\ UNCHANGED power
        /\ \A t \in PingSet : set[t].timer # "slept" => set'[t].timer # "slept"
    BY <1>3, PingedForgiven DEF ComplexPing
  <2> QED BY <2>1, AwakeSwapped, CommitForgiven
<1> QED BY <1>1, <1>2, <1>3, ClientSteps

\* A rundown call takes OIDs off the list or gives them a new timeout.
LEMMA StartForgiven ==
  ASSUME IInv, IInv', Forgiven, NEW x \in Oxid, NEW B, NEW c, NEW b, NEW helper,
         StartRundown(x, B, c, b, helper), UNCHANGED <<set, power>>
  PROVE  Forgiven'
<1> DEFINE answer == IF oxid[x].running THEN "keep" ELSE "ok"
           out(o) == [oid[o] EXCEPT !.down = TRUE, !.timer = "out"]
           taken == [o \in Oid |-> IF o \in B THEN out(o) ELSE oid[o]]
           q == [o \in Oid |-> IF o \in B THEN Result(out(o), answer) ELSE oid[o]]
<1>1. ASSUME NEW o \in Oid PROVE Awake(out(o))
  <2>1. oid[o] \in OidObjects
    BY DEF IInv, Shapes
  <2>2. "out" \in Timers \ {"slept"} /\ TRUE \in BOOLEAN /\ Nat \subseteq Int
    BY DEF Timers
  <2> QED BY <2>1, <2>2 DEF Awake, OidObjects
<1> HIDE DEF out, answer
<1>2. \A o \in Oid : Awake(oid[o]) => Awake(q[o])
  BY <1>1, AwakeResult
<1>3. \A o \in Oid : oid[o].timer # "slept" => taken[o].timer # "slept"
  BY <1>1 DEF Awake
<1>4. CASE oid' = taken
  BY <1>3, <1>4, KeepsForgiven
<1>5. CASE \E a : Commit(q, a, proc)
  <2> HIDE DEF q
  <2> QED BY <1>2, <1>5, CommitForgiven
<1> QED BY <1>4, <1>5 DEF StartRundown, out, answer

LEMMA RundownForgiven ==
  ASSUME IInv, IInv', Forgiven, Rundown
  PROVE  Forgiven'
<1>1. ASSUME NEW x \in Oxid, NEW c \in Call, NEW B \in Batches(x),
             TaskRundown(x, B, c) \/ HelperRundown(x, B, c)
      PROVE  Forgiven'
  BY <1>1, StartForgiven DEF TaskRundown, HelperRundown
<1>2. ASSUME UNCHANGED <<oid, set, power>> PROVE Forgiven'
  BY <1>2, KeepsForgiven
<1>3. ASSUME NEW x \in Oxid, HelperIdle(x) \/ HelperDone(x) PROVE Forgiven'
  BY <1>2, <1>3 DEF HelperIdle, HelperDone, Commit
<1>4. ASSUME NEW c \in Call,
             \/ TakeReferences(c) \/ NoMemory(c) \/ Issue(c) \/ IssueFails(c) \/ Returned(c)
             \/ ReturnedError(c) \/ CheckForMore(c) \/ ReleaseRundownHandle(c)
             \/ DropReferences(c) \/ \E a \in [Oid -> Answers] : ServerAnswers(c, a)
      PROVE  Forgiven'
  BY <1>2, <1>4 DEF TakeReferences, NoMemory, Issue, IssueFails, Returned, ReturnedError,
     CheckForMore, ReleaseRundownHandle, DropReferences, ServerAnswers, Commit
<1>5. ASSUME NEW c \in Call, CallFailed(c) \/ ProcessResults(c) PROVE Forgiven'
  <2>1. \E answer, b : Commit([o \in Oid |-> IF o \in call[c].oids THEN Result(oid[o], answer[o])
                                             ELSE oid[o]], b, proc)
    <3>1. CASE CallFailed(c)
      <4> DEFINE v == IF oxid[call[c].oxid].running THEN "keep" ELSE "ok"
      <4>1. \A o \in Oid : AllAnswer(v)[o] = v
        BY DEF AllAnswer
      <4>2. [o \in Oid |-> IF o \in call[c].oids THEN Result(oid[o], v) ELSE oid[o]]
              = [o \in Oid |-> IF o \in call[c].oids THEN Result(oid[o], AllAnswer(v)[o])
                               ELSE oid[o]]
        BY <4>1
      <4>3. \E b : Commit([o \in Oid |-> IF o \in call[c].oids THEN Result(oid[o], v)
                                         ELSE oid[o]], b, proc)
        BY <3>1 DEF CallFailed
      <4> QED BY <4>2, <4>3
    <3>2. CASE ProcessResults(c)
      BY <3>2 DEF ProcessResults
    <3> QED BY <1>5, <3>1, <3>2
  <2>2. PICK answer :
          \E b : Commit([o \in Oid |-> IF o \in call[c].oids THEN Result(oid[o], answer[o])
                                       ELSE oid[o]], b, proc)
    BY <2>1
  <2> DEFINE q == [o \in Oid |-> IF o \in call[c].oids THEN Result(oid[o], answer[o]) ELSE oid[o]]
  <2>3. \A o \in Oid : Awake(oid[o]) => Awake(q[o])
    BY AwakeResult
  <2>4. \E b : Commit(q, b, proc)
    BY <2>2
  <2> HIDE DEF q
  <2>5. UNCHANGED <<set, power>>
    BY <1>5 DEF CallFailed, ProcessResults
  <2> QED BY <2>3, <2>4, <2>5, CommitForgiven
<1> QED BY <1>1, <1>3, <1>4, <1>5 DEF Rundown

\* Timeouts expire, and the machine is suspended and resumed.
LEMMA EnvironmentForgiven ==
  ASSUME IInv, Forgiven, Environment
  PROVE  Forgiven'
<1>0. oid \in [Oid -> OidObjects] /\ set \in [PingSet -> Sets]
  BY DEF IInv, Shapes
<1>1. ASSUME NEW o \in Oid, OidDue(o) PROVE Forgiven'
  <2>1. UNCHANGED <<set, power>> /\ oid' = [oid EXCEPT ![o].timer = Later]
    BY <1>1 DEF OidDue
  <2>2. CASE power.asleep
    BY <2>1, <2>2 DEF Forgiven, Running
  <2>3. CASE ~ power.asleep
    <3>1. \A p \in Oid : oid[p].timer # "slept" => oid'[p].timer # "slept"
      BY <1>0, <2>1, <2>3 DEF Later, OidObjects
    <3> QED BY <2>1, <3>1, KeepsForgiven
  <2> QED BY <2>2, <2>3
<1>2. ASSUME NEW s \in PingSet, SetDue(s) PROVE Forgiven'
  <2>1. UNCHANGED <<oid, power>> /\ set' = [set EXCEPT ![s].timer = Later]
    BY <1>2 DEF SetDue
  <2>2. CASE power.asleep
    BY <2>1, <2>2 DEF Forgiven, Running
  <2>3. CASE ~ power.asleep
    <3>1. \A t \in PingSet : set[t].timer # "slept" => set'[t].timer # "slept"
      BY <1>0, <2>1, <2>3 DEF Later, Sets
    <3> QED BY <2>1, <3>1, KeepsForgiven
  <2> QED BY <2>2, <2>3
<1>3. ASSUME Suspend \/ CriticalSleep PROVE Forgiven'
  <2>1. power' \in Powers /\ power'.asleep
    BY <1>3 DEF Suspend, CriticalSleep, Forgiven, Powers
  <2> QED BY <2>1 DEF Forgiven
<1>4. ASSUME PingAllSets PROVE Forgiven'
  <2>1. power' \in Powers /\ power'.resume = "pinged"
    BY <1>4 DEF PingAllSets, Forgiven, Powers
  <2>2. \A s \in PingSet : set'[s].timer # "slept"
    <3> DEFINE S == {s \in PingSet : set[s].timer # "out"}
               new(s) == [timer |-> "fresh", pings |-> (set[s].pings + 1) % 3,
                          members |-> set[s].members \ Stale(s)]
    <3>1. set' = [s \in PingSet |-> IF s \in S THEN new(s) ELSE set[s]]
      BY <1>4 DEF PingAllSets
    <3>2. \A s \in PingSet : new(s).timer = "fresh"
      OBVIOUS
    <3> HIDE DEF new
    <3> QED BY <3>1, <3>2
  <2> QED BY <2>1, <2>2 DEF Forgiven
<1>5. ASSUME ResetAllOidTimeouts PROVE Forgiven'
  <2>1. /\ power.resume = "pinged" /\ UNCHANGED set /\ power' \in Powers
        /\ power'.asleep = power.asleep /\ (power'.resume = "no" => Running')
    BY <1>5 DEF ResetAllOidTimeouts, Forgiven, Powers, Running
  <2>2. \A o \in Oid : oid'[o].timer # "slept"
    BY <1>0, <1>5 DEF ResetAllOidTimeouts, OidObjects
  <2> QED BY <2>1, <2>2 DEF Forgiven
<1>6. ASSUME Resume PROVE Forgiven'
  <2>1. /\ power.resume = "reset" /\ UNCHANGED <<oid, set>> /\ power' \in Powers
        /\ power'.asleep = power.asleep /\ Running'
    BY <1>6 DEF Resume, Forgiven, Powers, Running
  <2> QED BY <2>1 DEF Forgiven
<1> QED BY <1>1, <1>2, <1>3, <1>4, <1>5, <1>6 DEF Environment

\* The order of the resumption, as an invariant of every step.
THEOREM ForgivenHolds == Spec => []Forgiven
<1>1. Init => Forgiven
  <2>1. NoOid.timer # "slept" /\ NoSet.timer # "slept"
    BY DEF NoOid, NoSet
  <2> HIDE DEF NoOid, NoSet
  <2> QED BY <2>1 DEF Init, Forgiven, Powers, Running
<1>2. IInv /\ IInv' /\ Forgiven /\ [Next]_vars => Forgiven'
  <2>1. CASE Next
    BY <2>1, ServerForgiven, ClientForgiven, RundownForgiven, EnvironmentForgiven DEF Next
  <2>2. CASE UNCHANGED vars
    BY <2>2 DEF vars, Forgiven, Running
  <2> QED BY <2>1, <2>2
<1> QED BY <1>1, <1>2, IInvHolds, PTL DEF Spec

\* For any number of OIDs and sets, and whether or not the machine announced
\* that it would sleep: when NotifyCOMOnResume has ended, no timeout that passed
\* in the sleep is left, because the sets are pinged and the OIDs get new
\* timeouts, no other step carries such a timeout over, and rundowns are
\* allowed again.
THEOREM SleepForgivenHolds == Spec => []SleepForgiven
<1>1. Forgiven => SleepForgiven
  BY DEF Forgiven, SleepForgiven
<1> QED BY <1>1, ForgivenHolds, PTL

\* Every object has its type, and no count goes below zero.
THEOREM TypeOKHolds == Spec => []TypeOK
<1>1. IInv /\ LInv /\ Forgiven => TypeOK
  BY DEF IInv, Shapes, LInv, Lives, Typed, Forgiven, TypeOK
<1> QED BY <1>1, LInvHolds, ForgivenHolds, PTL

-----------------------------------------------------------------------------
(* What the steps of the resolver do to an OID that a server uses.  Other   *)
(* than by a server's own calls, an OID whose OXID runs, and that was not   *)
(* given up, is deleted only by an answer "ok" and pinned only by an answer *)
(* "pinned".  (The composition with a server process rests on it.)          *)

\* Records of OIDs, whatever they count.
OidInts == [alive : BOOLEAN, refs : Int, down : BOOLEAN, freed : BOOLEAN,
            pinned : BOOLEAN, timer : Timers]

\* An operation made s of the OID r: it does not revive or pin it, and does not
\* delete it or give it up while its OXID runs.
Kept(r, s, running) ==
  /\ s \in OidInts
  /\ s.alive => r.alive
  /\ s.pinned => r.pinned
  /\ running /\ r.alive /\ ~ r.freed => s.alive /\ ~ s.freed

\* One operation after another.
LEMMA KeptTwice ==
  ASSUME NEW r, NEW s, NEW t, NEW running, Kept(r, s, running), Kept(s, t, running)
  PROVE  Kept(r, t, running)
BY DEF Kept

\* The operations by which references come and go are of that kind.
LEMMA KeptByOperations ==
  ASSUME NEW r \in OidInts, NEW running
  PROVE  /\ Kept(r, r, running) /\ Kept(r, Release(r, running), running)
         /\ Kept(r, KeepAlive(r), running) /\ Kept(r, Reference(r), running)
         /\ Kept(r, Unpin(r, running), running)
<1>0. NoOid \in OidInts /\ ~ NoOid.alive /\ ~ NoOid.pinned
  BY DEF NoOid, OidInts, Timers
<1>1. ASSUME NEW s \in OidInts PROVE Kept(s, Release(s, running), running)
  <2> DEFINE n == s.refs - 1
  <2>1. n \in Int /\ 0 \in Int /\ "fresh" \in Timers
    BY DEF OidInts, Timers
  <2>2. Kept(s, [s EXCEPT !.refs = 0], running)
    BY <2>1 DEF Kept, OidInts
  <2>3. Kept(s, [s EXCEPT !.refs = 0, !.timer = "fresh"], running)
    BY <2>1 DEF Kept, OidInts
  <2> HIDE DEF n
  <2>4. Kept(s, [s EXCEPT !.refs = n], running)
    BY <2>1 DEF Kept, OidInts
  <2>5. s.freed \/ ~ running => Kept(s, NoOid, running)
    BY <1>0 DEF Kept
  <2> HIDE DEF NoOid
  <2> QED BY <2>2, <2>3, <2>4, <2>5 DEF Release, n
<1>2. Kept(r, Unpin(r, running), running)
  <2>1. Kept(r, [r EXCEPT !.pinned = FALSE], running)
    BY DEF Kept, OidInts
  <2>2. [r EXCEPT !.pinned = FALSE] \in OidInts
    BY <2>1 DEF Kept
  <2> QED BY <1>1, <2>1, <2>2, KeptTwice DEF Unpin
<1>3. Kept(r, KeepAlive(r), running) /\ Kept(r, Reference(r), running)
  <2> DEFINE n == r.refs + 1
             m == IF r.refs = 0 THEN "out" ELSE r.timer
  <2>1. n \in Int /\ m \in Timers /\ "fresh" \in Timers
    BY DEF OidInts, Timers
  <2>2. Kept(r, [r EXCEPT !.timer = "fresh"], running) /\ Kept(r, r, running)
    BY <2>1 DEF Kept, OidInts
  <2> HIDE DEF n, m
  <2>3. Kept(r, [r EXCEPT !.refs = n, !.timer = m], running)
    BY <2>1 DEF Kept, OidInts
  <2> QED BY <2>2, <2>3 DEF KeepAlive, Reference, n, m
<1>4. Kept(r, r, running)
  BY DEF Kept
<1> QED BY <1>1, <1>2, <1>3, <1>4

\* So are those on all OIDs.
LEMMA KeptByReleaseAll ==
  ASSUME NEW q, NEW S, NEW o \in Oid, q[o] \in OidInts
  PROVE  Kept(q[o], ReleaseAll(q, S)[o], oxid[OxidOf[o]].running)
BY KeptByOperations DEF ReleaseAll

LEMMA KeptBySwapped ==
  ASSUME NEW s, NEW A, NEW D, NEW o \in Oid, oid[o] \in OidInts
  PROVE  Kept(oid[o], Swapped(s, A, D)[o], oxid[OxidOf[o]].running)
<1> DEFINE q1 == ReleaseAll(oid, Stale(s))
           kept == set[s].members \ Stale(s)
           added == {p \in A \ kept : q1[p].alive}
           q2 == [p \in Oid |-> IF p \in added THEN Reference(q1[p]) ELSE q1[p]]
           q3 == ReleaseAll(q2, D \cap (kept \cup added))
           running == oxid[OxidOf[o]].running
<1>1. Kept(oid[o], q1[o], running)
  BY KeptByReleaseAll
<1>2. q1[o] \in OidInts
  BY <1>1 DEF Kept
<1> HIDE DEF q1, added, running
<1>3. Kept(q1[o], q2[o], running)
  BY <1>2, KeptByOperations
<1>4. q2[o] \in OidInts
  BY <1>3 DEF Kept
<1> HIDE DEF q2
<1>5. Kept(q2[o], q3[o], running)
  BY <1>4, KeptByReleaseAll DEF running
<1>6. q3[o] \in OidInts
  BY <1>5 DEF Kept
<1> HIDE DEF q3
<1>7. Swapped(s, A, D)[o] = IF o \in D \ (kept \cup added) /\ q3[o].alive
                            THEN KeepAlive(q3[o]) ELSE q3[o]
  BY DEF Swapped, q1, added, q2, q3
<1>8. Kept(q3[o], Swapped(s, A, D)[o], running)
  BY <1>6, <1>7, KeptByOperations
<1>9. Kept(oid[o], q3[o], running)
  BY <1>1, <1>3, <1>5, KeptTwice
<1> QED BY <1>8, <1>9, KeptTwice DEF running

\* An answer of the server that was not processed yet.
Waiting(o, answer) ==
  \E c \in Call : /\ call[c].at \in {"replying", "answered"}
                  /\ o \in call[c].oids /\ call[c].answer[o] = answer

\* What such a step does to one OID.
Quiet(o) ==
  LET x == OxidOf[o] IN
  /\ \A answer \in {"ok", "pinned"} : Waiting(o, answer)' => Waiting(o, answer)
  /\ oid'[o].alive => oid[o].alive
  /\ oid'[o].pinned => oid[o].pinned \/ Waiting(o, "pinned")
  /\ oxid[x].running /\ oid[o].alive /\ ~ oid[o].freed =>
       /\ oxid'[x].running
       /\ oid'[o].alive => ~ oid'[o].freed
       /\ oid'[o].alive \/ Waiting(o, "ok")

\* The types of one OID and its OXID.
LEMMA OidTyped ==
  ASSUME IInv, Lives, NEW o \in Oid
  PROVE  /\ oid[o] \in OidInts /\ oid[o] \in OidObjects
         /\ OxidOf[o] \in Oxid /\ oxid[OxidOf[o]] \in OxidInts
<1>1. oid[o] \in OidObjects
  BY DEF IInv, Shapes
<1>2. oid[o] \in OidInts
  BY <1>1 DEF OidObjects, OidInts
<1> QED BY <1>1, <1>2, ServerOidAssumption, LivesTyped

\* A step, by the OIDs and OXIDs that it leaves before the destructors.
LEMMA QuietCommit ==
  ASSUME NEW o \in Oid, OxidOf[o] \in Oxid, NEW q, NEW b \in [Oxid -> OxidInts], NEW d,
         Commit(q, b, d), oxid[OxidOf[o]].running => b[OxidOf[o]].running,
         \A answer \in {"ok", "pinned"} : Waiting(o, answer)' => Waiting(o, answer),
         q[o].alive => oid[o].alive,
         q[o].pinned => oid[o].pinned \/ Waiting(o, "pinned"),
         oxid[OxidOf[o]].running /\ oid[o].alive /\ ~ oid[o].freed =>
           (q[o].alive => ~ q[o].freed) /\ (q[o].alive \/ Waiting(o, "ok"))
  PROVE  Quiet(o)
<1> DEFINE x == OxidOf[o]
           n == b[x].refs - Cardinality({p \in OidsOf(x) : oid[p].alive /\ ~ q[p].alive})
<1>1. oid' = q /\ oxid'[x] = [b[x] EXCEPT !.refs = n]
  BY DEF Commit
<1> HIDE DEF n
<1>2. oxid'[x].running <=> b[x].running
  BY <1>1 DEF OxidInts
<1> QED BY <1>1, <1>2 DEF Quiet

\* The same when only the references of sets and pins come and go.
LEMMA QuietOperations ==
  ASSUME IInv, Lives, NEW o \in Oid, NEW q, NEW b \in [Oxid -> OxidInts], NEW d,
         Commit(q, b, d), oxid[OxidOf[o]].running => b[OxidOf[o]].running,
         UNCHANGED call, Kept(oid[o], q[o], oxid[OxidOf[o]].running)
  PROVE  Quiet(o)
<1>1. \A answer \in {"ok", "pinned"} : Waiting(o, answer)' => Waiting(o, answer)
  BY DEF Waiting
<1> QED BY <1>1, OidTyped, QuietCommit DEF Kept

\* A step that changes OXIDs only.
LEMMA QuietOxids ==
  ASSUME NEW o \in Oid, UNCHANGED oid, oxid[OxidOf[o]].running => oxid'[OxidOf[o]].running,
         \A answer \in {"ok", "pinned"} : Waiting(o, answer)' => Waiting(o, answer)
  PROVE  Quiet(o)
BY DEF Quiet

\* A call that goes on adds no answer.
LEMMA WaitingLess ==
  ASSUME IInv, NEW c \in Call, NEW k, call' = [call EXCEPT ![c] = k],
         \/ k.at \notin {"replying", "answered"}
         \/ call[c].at \in {"replying", "answered"} /\ k.oids = call[c].oids
                                                  /\ k.answer = call[c].answer
  PROVE  \A o, answer : Waiting(o, answer)' => Waiting(o, answer)
<1>1. \A e \in Call : call'[e] = IF e = c THEN k ELSE call[e]
  BY DEF IInv, Shapes
<1> QED BY <1>1 DEF Waiting

LEMMA WaitingMoved ==
  ASSUME IInv, NEW c \in Call, NEW stage \in Stages, To(c, stage),
         stage \in {"replying", "answered"} => call[c].at \in {"replying", "answered"}
  PROVE  \A o, answer : Waiting(o, answer)' => Waiting(o, answer)
<1> DEFINE k == [call[c] EXCEPT !.at = stage]
<1>1. k.at = stage /\ k.oids = call[c].oids /\ k.answer = call[c].answer
  BY CallTyped DEF Calls
<1>2. call' = [call EXCEPT ![c] = k]
  BY DEF To
<1> HIDE DEF k
<1> QED BY <1>1, <1>2, WaitingLess

\* An OID whose call was not sent waits another timeout, or is deleted with its
\* dead OXID.
LEMMA KeptByResult ==
  ASSUME NEW r \in OidInts, NEW running \in BOOLEAN
  PROVE  Kept(r, Result(r, IF running THEN "keep" ELSE "ok"), running)
<1>0. NoOid \in OidInts /\ ~ NoOid.alive /\ ~ NoOid.pinned
  BY DEF NoOid, OidInts, Timers
<1> HIDE DEF NoOid
<1>1. Kept(r, [r EXCEPT !.down = FALSE], running)
  BY DEF Kept, OidInts
<1>2. Kept(r, [r EXCEPT !.down = FALSE, !.timer = "fresh"], running)
  BY DEF Kept, OidInts, Timers
<1>3. ~ running => Kept(r, NoOid, running)
  BY <1>0 DEF Kept
<1> QED BY <1>1, <1>2, <1>3 DEF Result

\* Results of a call.
LEMMA KeptByAnswer ==
  ASSUME NEW r \in OidInts, NEW answer \in {"ok", "keep", "pinned"}
  PROVE  /\ Result(r, answer).alive => r.alive \/ answer = "pinned"
         /\ Result(r, answer).pinned => r.pinned \/ answer = "pinned"
         /\ r.alive /\ ~ r.freed =>
              /\ Result(r, answer).alive => ~ Result(r, answer).freed
              /\ Result(r, answer).alive \/ answer = "ok"
<1>0. ~ NoOid.alive /\ ~ NoOid.pinned
  BY DEF NoOid
<1> HIDE DEF NoOid
<1>1. Kept(r, Reference(r), TRUE) /\ Reference(r) \in OidInts
  BY KeptByOperations DEF Kept
<1>2. r.alive /\ ~ r.freed =>
        LET s == [Reference(r) EXCEPT !.pinned = TRUE, !.down = FALSE] IN s.alive /\ ~ s.freed
  BY <1>1 DEF Kept, OidInts
<1>3. LET s == [r EXCEPT !.down = FALSE] IN
        (s.alive <=> r.alive) /\ (s.freed <=> r.freed) /\ (s.pinned <=> r.pinned)
  BY DEF OidInts
<1>4. LET s == [r EXCEPT !.down = FALSE, !.timer = "fresh"] IN
        (s.alive <=> r.alive) /\ (s.freed <=> r.freed) /\ (s.pinned <=> r.pinned)
  BY DEF OidInts
<1>5. CASE answer = "pinned"
  BY <1>2, <1>5 DEF Result
<1>6. CASE answer # "pinned"
  BY <1>0, <1>3, <1>4, <1>6 DEF Result
<1> QED BY <1>5, <1>6

\* The steps of servers that leave the OID o to others.
LEMMA ServerQuiet ==
  ASSUME IInv, Lives, NEW o \in Oid,
         \/ \E p \in Process : Connect(p)
         \/ \E x \in Oxid : AllocateOxid(x)
         \/ \E p \in Oid \ {o} : AllocateOid(p) \/ FreeServerOid(p)
         \/ \E U \in SUBSET Oid : UnpinOids(U)
  PROVE  Quiet(o)
<1>0. oid[o] \in OidInts /\ OxidOf[o] \in Oxid /\ oxid \in [Oxid -> OxidInts]
  BY OidTyped, LivesTyped
<1>1. ASSUME NEW p \in Process, Connect(p) PROVE Quiet(o)
  BY <1>1, QuietOxids DEF Connect, Waiting
<1>2. ASSUME NEW x \in Oxid, AllocateOxid(x) PROVE Quiet(o)
  <2>1. [NoOxid EXCEPT !.running = TRUE, !.refs = 1].running
    BY DEF NoOxid
  <2> DEFINE new == [NoOxid EXCEPT !.running = TRUE, !.refs = 1]
  <2>2. oxid' = [oxid EXCEPT ![x] = new] /\ UNCHANGED <<oid, call>>
    BY <1>2 DEF AllocateOxid
  <2>3. new.running
    BY <2>1
  <2> HIDE DEF new
  <2>4. oxid[OxidOf[o]].running => oxid'[OxidOf[o]].running
    BY <1>0, <2>2, <2>3
  <2> QED BY <2>2, <2>4, QuietOxids DEF Waiting
<1>3. ASSUME NEW p \in Oid, p # o, AllocateOid(p) PROVE Quiet(o)
  <2> DEFINE new == Release([NoOid EXCEPT !.alive = TRUE, !.refs = 1], TRUE)
  <2>1. /\ oid' = [oid EXCEPT ![p] = new] /\ UNCHANGED call
        /\ oxid' = [oxid EXCEPT ![OxidOf[p]].refs = @ + 1]
    BY <1>3 DEF AllocateOid
  <2> HIDE DEF new
  <2>2. oid'[o] = oid[o]
    BY <1>3, <2>1 DEF IInv, Shapes
  <2>3. oxid'[OxidOf[o]].running <=> oxid[OxidOf[o]].running
    BY <1>0, <2>1 DEF OxidInts
  <2> QED BY <2>1, <2>2, <2>3 DEF Quiet, Waiting
<1>4. ASSUME NEW p \in Oid, p # o, FreeServerOid(p) PROVE Quiet(o)
  <2> DEFINE new == Free(oid[p], TRUE)
             q == [oid EXCEPT ![p] = new]
  <2>1. Commit(q, oxid, proc) /\ UNCHANGED call
    BY <1>4 DEF FreeServerOid
  <2> HIDE DEF new
  <2>2. q[o] = oid[o]
    BY <1>4 DEF IInv, Shapes
  <2> HIDE DEF q
  <2>3. Kept(oid[o], q[o], oxid[OxidOf[o]].running)
    BY <1>0, <2>2, KeptByOperations
  <2> QED BY <1>0, <2>1, <2>3, QuietOperations
<1>5. ASSUME NEW U \in SUBSET Oid, UnpinOids(U) PROVE Quiet(o)
  <2> DEFINE hit == {p \in U : oid[p].alive /\ oid[p].pinned /\ oxid[OxidOf[p]].running}
             q == [p \in Oid |-> IF p \in hit THEN Unpin(oid[p], TRUE) ELSE oid[p]]
  <2>1. Commit(q, oxid, proc) /\ UNCHANGED call
    BY <1>5 DEF UnpinOids
  <2>2. (q[o] = Unpin(oid[o], TRUE) /\ oxid[OxidOf[o]].running) \/ q[o] = oid[o]
    OBVIOUS
  <2> HIDE DEF q
  <2>3. Kept(oid[o], q[o], oxid[OxidOf[o]].running)
    <3>1. Kept(oid[o], Unpin(oid[o], TRUE), TRUE) /\ Kept(oid[o], oid[o], oxid[OxidOf[o]].running)
      BY <1>0, KeptByOperations
    <3> QED BY <2>2, <3>1 DEF Kept
  <2> QED BY <1>0, <2>1, <2>3, QuietOperations
<1> QED BY <1>1, <1>2, <1>3, <1>4, <1>5

\* The pings of clients, and the end of their sets.
LEMMA ClientQuiet ==
  ASSUME IInv, Lives, NEW o \in Oid, Client
  PROVE  Quiet(o)
<1>0. oid[o] \in OidInts /\ OxidOf[o] \in Oxid /\ oxid \in [Oxid -> OxidInts]
  BY OidTyped, LivesTyped
<1>1. ASSUME NEW S, Commit(ReleaseAll(oid, S), oxid, proc), UNCHANGED call PROVE Quiet(o)
  BY <1>0, <1>1, KeptByReleaseAll, QuietOperations
<1>2. ASSUME NEW s \in PingSet, SimplePing(s) \/ RundownSet(s) PROVE Quiet(o)
  BY <1>1, <1>2 DEF SimplePing, RundownSet
<1>3. ASSUME NEW s \in PingSet, NEW A \in SUBSET Oid, NEW D \in SUBSET Oid, ComplexPing(s, A, D)
      PROVE  Quiet(o)
  BY <1>0, <1>3, KeptBySwapped, QuietOperations DEF ComplexPing
<1> QED BY <1>2, <1>3, ClientSteps

\* Time and power.
LEMMA EnvironmentQuiet ==
  ASSUME IInv, Lives, NEW o \in Oid, Environment
  PROVE  Quiet(o)
<1>0. oid[o] \in OidInts /\ OxidOf[o] \in Oxid /\ oxid \in [Oxid -> OxidInts]
  BY OidTyped, LivesTyped
<1>1. ASSUME oid'[o] = oid[o] \/ (\E t : oid'[o] = [oid[o] EXCEPT !.timer = t]),
             UNCHANGED <<oxid, call>>
      PROVE  Quiet(o)
  <2>1. /\ oid'[o].alive <=> oid[o].alive
        /\ oid'[o].pinned <=> oid[o].pinned
        /\ oid'[o].freed <=> oid[o].freed
    BY <1>0, <1>1 DEF OidInts
  <2> QED BY <1>1, <2>1 DEF Quiet, Waiting
<1>2. ASSUME NEW p \in Oid, OidDue(p) PROVE Quiet(o)
  <2>1. oid' = [oid EXCEPT ![p] = [oid[p] EXCEPT !.timer = Later]] /\ UNCHANGED <<oxid, call>>
    BY <1>2 DEF OidDue
  <2>2. oid'[o] = oid[o] \/ oid'[o] = [oid[o] EXCEPT !.timer = Later]
    BY <2>1 DEF IInv, Shapes
  <2> QED BY <1>1, <2>1, <2>2
<1>3. ASSUME (\E s \in PingSet : SetDue(s)) \/ Suspend \/ CriticalSleep \/ Resume PROVE Quiet(o)
  BY <1>1, <1>3 DEF SetDue, Suspend, CriticalSleep, Resume
<1>4. ASSUME PingAllSets PROVE Quiet(o)
  <2> DEFINE S == {s \in PingSet : set[s].timer # "out"}
             stale == UNION {Stale(s) : s \in S}
             gone(p) == Cardinality({s \in S : p \in Stale(s)})
             fewer(p) == [oid[p] EXCEPT !.refs = @ - gone(p) + 1]
             q == [p \in Oid |-> IF p \notin stale THEN oid[p] ELSE Release(fewer(p), FALSE)]
  <2>1. Commit(q, oxid, proc) /\ UNCHANGED call
    BY <1>4 DEF PingAllSets
  <2>2. o \notin stale => q[o] = oid[o]
    OBVIOUS
  <2>3. o \in stale => q[o] = Release(fewer(o), FALSE) /\ ~ oxid[OxidOf[o]].running
    BY DEF Stale
  <2>4. o \in stale /\ q[o].alive => oid[o].alive
    <3> DEFINE n == oid[o].refs - gone(o) + 1
    <3>1. fewer(o) = [oid[o] EXCEPT !.refs = n]
      OBVIOUS
    <3> HIDE DEF n, fewer
    <3>2. (fewer(o).alive <=> oid[o].alive) /\ (fewer(o).pinned <=> oid[o].pinned)
      BY <1>0, <3>1 DEF OidInts
    <3> QED BY <2>3, <3>1, <3>2, <1>0 DEF Release, NoOid, OidInts
  <2>5. o \in stale /\ q[o].pinned => oid[o].pinned
    <3> DEFINE n == oid[o].refs - gone(o) + 1
    <3>1. fewer(o) = [oid[o] EXCEPT !.refs = n]
      OBVIOUS
    <3> HIDE DEF n, fewer
    <3>2. (fewer(o).alive <=> oid[o].alive) /\ (fewer(o).pinned <=> oid[o].pinned)
      BY <1>0, <3>1 DEF OidInts
    <3> QED BY <2>3, <3>1, <3>2, <1>0 DEF Release, NoOid, OidInts
  <2> HIDE DEF q, stale
  <2>6. \A answer \in {"ok", "pinned"} : Waiting(o, answer)' => Waiting(o, answer)
    BY <2>1 DEF Waiting
  <2>7. /\ q[o].alive => oid[o].alive
        /\ q[o].pinned => oid[o].pinned
        /\ oxid[OxidOf[o]].running /\ oid[o].alive /\ ~ oid[o].freed => q[o].alive /\ ~ q[o].freed
    BY <2>2, <2>3, <2>4, <2>5
  <2> QED BY <1>0, <2>1, <2>6, <2>7, QuietCommit
<1>5. ASSUME ResetAllOidTimeouts PROVE Quiet(o)
  BY <1>1, <1>5 DEF ResetAllOidTimeouts
<1> QED BY <1>2, <1>3, <1>4, <1>5 DEF Environment

\* Calls that start.
LEMMA StartQuiet ==
  ASSUME IInv, Lives, NEW o \in Oid, NEW x \in Oxid, NEW c \in Call, NEW B \in Batches(x),
         TaskRundown(x, B, c) \/ HelperRundown(x, B, c)
  PROVE  Quiet(o)
<1>0. oid[o] \in OidInts /\ OxidOf[o] \in Oxid /\ oxid \in [Oxid -> OxidInts]
  BY OidTyped, LivesTyped
<1>1. PICK helper \in BOOLEAN, w \in {0, 1}, b \in [Oxid -> OxidInts] :
        /\ w = (IF helper THEN 1 ELSE 0) /\ w <= oxid[x].items
        /\ b = [oxid EXCEPT ![x] = Before(x, w)]
        /\ StartRundown(x, B, c, b, helper)
  BY TaskRundownStarts
<1>2. b[x] = Before(x, w)
  BY <1>0, <1>1
<1>3. \A p \in B : OxidOf[p] = x
  BY DEF Batches, Eligible, OidsOf
<1> DEFINE answer == IF oxid[x].running THEN "keep" ELSE "ok"
           left == [b[x] EXCEPT !.leaving = @ + (IF helper THEN 1 ELSE 0)]
           r == [left EXCEPT !.handle = HandleLeft(left)]
           q == [p \in Oid |-> IF p \in B
                   THEN Result([oid[p] EXCEPT !.down = TRUE, !.timer = "out"], answer)
                   ELSE oid[p]]
           taken == [p \in Oid |-> IF p \in B THEN [oid[p] EXCEPT !.down = TRUE, !.timer = "out"]
                                   ELSE oid[p]]
           t == [oid[o] EXCEPT !.down = TRUE, !.timer = "out"]
           k == [at |-> "sending", oxid |-> x, oids |-> B,
                 answer |-> AllAnswer("keep"), helper |-> helper]
<1>4. Kept(oid[o], t, oxid[OxidOf[o]].running)
  <2>1. t = [oid[o] EXCEPT !.down = TRUE, !.timer = "out"]
    OBVIOUS
  <2> HIDE DEF t
  <2> QED BY <1>0, <2>1 DEF Kept, OidInts, Timers
<1>5. t \in OidInts
  BY <1>4 DEF Kept
<1>6. CASE /\ oid' = taken
           /\ oxid' = [b EXCEPT ![x].calls = @ + 1, ![x].handle = TRUE]
           /\ call' = [call EXCEPT ![c] = k]
           /\ UNCHANGED proc
  <2>1. taken[o] = t \/ taken[o] = oid[o]
    OBVIOUS
  <2>2. k.at = "sending"
    OBVIOUS
  <2> HIDE DEF taken, k, t
  <2>3. Kept(oid[o], oid'[o], oxid[OxidOf[o]].running)
    BY <1>0, <1>4, <1>6, <2>1, KeptByOperations
  <2>4. Before(x, w) \in OxidInts /\ Before(x, w).calls = oxid[x].calls
    BY <1>1, BeforeCounts
  <2>5. [b EXCEPT ![x].calls = @ + 1, ![x].handle = TRUE] = [oxid EXCEPT ![x] = Sent(x, w)]
    BY <1>1, <1>2, <2>4, LivesTyped DEF Sent
  <2>6. oxid' = [oxid EXCEPT ![x] = Sent(x, w)]
    BY <1>6, <2>5
  <2>7. oxid'[OxidOf[o]].running <=> oxid[OxidOf[o]].running
    BY <1>0, <1>1, <2>6, SentCounts
  <2>8. \A reply : Waiting(o, reply)' => Waiting(o, reply)
    BY <1>6, <2>2, WaitingLess
  <2> QED BY <2>3, <2>7, <2>8 DEF Quiet, Kept
<1>7. CASE Commit(q, [oxid EXCEPT ![x] = r], proc) /\ UNCHANGED call
  <2>1. left = Unsent(x, w)
    BY <1>1, <1>2 DEF Unsent
  <2>2. r = NotSent(x, w)
    BY <2>1 DEF NotSent
  <2>3. q[o] = IF o \in B THEN Result(t, answer) ELSE oid[o]
    OBVIOUS
  <2>4. oxid[x].running \in BOOLEAN
    BY LivesTyped
  <2> HIDE DEF left, r, q, t
  <2>5. r \in OxidInts /\ (r.running <=> oxid[x].running)
    BY <1>1, <2>2, NotSentCounts
  <2> DEFINE a == [oxid EXCEPT ![x] = r]
  <2>6. a \in [Oxid -> OxidInts] /\ (a[OxidOf[o]].running <=> oxid[OxidOf[o]].running)
    BY <1>0, <2>5
  <2>7. Commit(q, a, proc)
    BY <1>7
  <2> HIDE DEF a
  <2>8. Kept(t, Result(t, answer), oxid[x].running)
    BY <1>5, <2>4, KeptByResult
  <2> HIDE DEF answer
  <2>9. Kept(oid[o], q[o], oxid[OxidOf[o]].running)
    <3>1. CASE o \in B
      BY <1>3, <1>4, <2>3, <2>8, <3>1, KeptTwice
    <3>2. CASE o \notin B
      BY <1>0, <2>3, <3>2, KeptByOperations
    <3> QED BY <3>1, <3>2
  <2> QED BY <1>7, <2>6, <2>7, <2>9, QuietOperations
<1> QED BY <1>1, <1>6, <1>7, Zenon DEF StartRundown

\* A call goes through a stage in which it settles nothing.
LEMMA StagesQuiet ==
  ASSUME IInv, Lives, NEW o \in Oid, NEW c \in Call,
         \/ TakeReferences(c) \/ NoMemory(c) \/ Issue(c) \/ IssueFails(c) \/ Returned(c)
         \/ CheckForMore(c) \/ ReleaseRundownHandle(c) \/ DropReferences(c)
  PROVE  Quiet(o)
<1>0. /\ oid[o] \in OidInts /\ OxidOf[o] \in Oxid /\ oxid \in [Oxid -> OxidInts]
      /\ call[c].oxid \in Oxid
  BY OidTyped, LivesTyped, CallTyped
<1> DEFINE x == call[c].oxid
           less(n) == [oxid EXCEPT ![x].refs = n]
<1>1. ASSUME \A a : Waiting(o, a)' => Waiting(o, a), UNCHANGED oid,
             oxid'[OxidOf[o]].running <=> oxid[OxidOf[o]].running
      PROVE  Quiet(o)
  BY <1>1, QuietOxids
<1>2. ASSUME \A a : Waiting(o, a)' => Waiting(o, a), NEW d,
             Commit(oid, [oxid EXCEPT ![x].refs = @ - 1], d)
      PROVE  Quiet(o)
  <2> DEFINE n == oxid[x].refs - 1
             a == [oxid EXCEPT ![x].refs = n]
  <2>1. n \in Int
    BY <1>0, LivesTyped
  <2>2. Commit(oid, a, d)
    BY <1>2
  <2> HIDE DEF n
  <2>3. a \in [Oxid -> OxidInts] /\ (a[OxidOf[o]].running <=> oxid[OxidOf[o]].running)
    BY <1>0, <2>1 DEF OxidInts
  <2> HIDE DEF a
  <2> QED BY <1>0, <1>2, <2>2, <2>3, QuietCommit
<1>3. ASSUME TakeReferences(c) PROVE Quiet(o)
  <2>1. \A a : Waiting(o, a)' => Waiting(o, a)
    BY <1>3, WaitingMoved DEF TakeReferences, Stages
  <2>2. oxid' = [oxid EXCEPT ![x].refs = @ + 1] /\ UNCHANGED oid
    BY <1>3 DEF TakeReferences
  <2>3. oxid'[OxidOf[o]].running <=> oxid[OxidOf[o]].running
    BY <1>0, <2>2 DEF OxidInts
  <2> QED BY <1>1, <2>1, <2>2, <2>3
<1>4. ASSUME NoMemory(c) \/ Returned(c) PROVE Quiet(o)
  BY <1>1, <1>4, WaitingMoved DEF NoMemory, Returned, Stages
<1>5. ASSUME Issue(c) PROVE Quiet(o)
  <2> DEFINE k == [call[c] EXCEPT !.at = "out", !.helper = FALSE]
  <2>1. call' = [call EXCEPT ![c] = k]
    BY <1>5 DEF Issue
  <2>2. k.at = "out"
    BY CallTyped DEF Calls
  <2> HIDE DEF k
  <2>3. \A a : Waiting(o, a)' => Waiting(o, a)
    BY <2>1, <2>2, WaitingLess
  <2>4. oxid'[OxidOf[o]].running <=> oxid[OxidOf[o]].running
    BY <1>0, <1>5 DEF Issue, OxidInts
  <2> QED BY <1>1, <1>5, <2>3, <2>4 DEF Issue
<1>6. ASSUME IssueFails(c) PROVE Quiet(o)
  <2>1. \A a : Waiting(o, a)' => Waiting(o, a)
    BY <1>6, WaitingMoved DEF IssueFails, Stages
  <2> QED BY <1>2, <1>6, <2>1 DEF IssueFails
<1>7. ASSUME CheckForMore(c) PROVE Quiet(o)
  <2>1. \A a : Waiting(o, a)' => Waiting(o, a)
    BY <1>7, WaitingMoved DEF CheckForMore, Stages
  <2>2. oxid'[OxidOf[o]].running <=> oxid[OxidOf[o]].running
    BY <1>0, <1>7 DEF CheckForMore, OxidInts
  <2> QED BY <1>1, <1>7, <2>1, <2>2 DEF CheckForMore
<1>8. ASSUME ReleaseRundownHandle(c) PROVE Quiet(o)
  <2>1. \A a : Waiting(o, a)' => Waiting(o, a)
    BY <1>8, WaitingMoved DEF ReleaseRundownHandle, Stages
  <2>2. oxid'[OxidOf[o]].running <=> oxid[OxidOf[o]].running
    BY <1>0, <1>8 DEF ReleaseRundownHandle, OxidInts
  <2> QED BY <1>1, <1>8, <2>1, <2>2 DEF ReleaseRundownHandle
<1>9. ASSUME DropReferences(c) PROVE Quiet(o)
  <2>1. NoCall.at = "free"
    BY DEF NoCall
  <2>2. call' = [call EXCEPT ![c] = NoCall]
    BY <1>9 DEF DropReferences
  <2> HIDE DEF NoCall
  <2>3. \A a : Waiting(o, a)' => Waiting(o, a)
    BY <2>1, <2>2, WaitingLess
  <2> QED BY <1>2, <1>9, <2>3 DEF DropReferences
<1> QED BY <1>3, <1>4, <1>5, <1>6, <1>7, <1>8, <1>9

\* The OIDs of a call that was not sent, and those of one that was answered.
LEMMA SettledQuiet ==
  ASSUME IInv, Lives, CallShape, CallsCounted, NEW o \in Oid, NEW c \in Call,
         CallFailed(c) \/ ProcessResults(c)
  PROVE  Quiet(o)
<1>0. /\ oid[o] \in OidInts /\ OxidOf[o] \in Oxid /\ oxid \in [Oxid -> OxidInts]
      /\ call[c].oxid \in Oxid /\ oxid[OxidOf[o]].running \in BOOLEAN
      /\ call[c].answer \in [Oid -> {"ok", "keep", "pinned"}]
  BY OidTyped, LivesTyped, CallTyped
<1> DEFINE x == call[c].oxid
<1>1. o \in call[c].oids /\ call[c].at \in {"failed", "answered"} =>
        OxidOf[o] = x /\ oid[o].alive
  <2> SUFFICES ASSUME o \in call[c].oids, call[c].at \in {"failed", "answered"}
               PROVE  OxidOf[o] = x /\ oid[o].alive
    OBVIOUS
  <2>1. Has(c, o)
    BY DEF Has, Unsettled
  <2>2. oid[o].down
    BY <2>1 DEF IInv, TakenOnce
  <2>3. oid[o].alive
    BY <2>2 DEF IInv, AllGood, Good
  <2> QED BY <2>3 DEF CallShape, Unsettled, OidsOf
<1>2. ASSUME CallFailed(c) PROVE Quiet(o)
  <2> DEFINE answer == IF oxid[x].running THEN "keep" ELSE "ok"
             m == oxid[x].leaving + (IF call[c].helper THEN 1 ELSE 0)
             n == oxid[x].calls - 1
             r == [oxid[x] EXCEPT !.calls = n, !.leaving = m]
             a == [oxid EXCEPT ![x] = [r EXCEPT !.handle = HandleLeft(r)]]
             q == [p \in Oid |-> IF p \in call[c].oids THEN Result(oid[p], answer) ELSE oid[p]]
  <2>1. Commit(q, a, proc) /\ call' = [call EXCEPT ![c] = NoCall] /\ call[c].at = "failed"
    BY <1>2 DEF CallFailed
  <2>2. a \in [Oxid -> OxidInts] /\ (a[OxidOf[o]].running <=> oxid[OxidOf[o]].running)
    <3>0. oxid[x] \in OxidInts /\ HandleLeft(r) \in BOOLEAN
      BY <1>0, CallTyped, LivesTyped DEF HandleLeft
    <3>1. n \in Nat /\ m \in Nat
      BY <1>0, <2>1, ActiveCounted, LivesTyped DEF Unsettled
    <3> HIDE DEF n, m
    <3>2. r \in OxidInts /\ (r.running <=> oxid[x].running)
      BY <3>0, <3>1 DEF OxidInts
    <3> HIDE DEF r
    <3>3. HandleLeft(r) \in BOOLEAN
      BY <3>2 DEF HandleLeft, OxidInts
    <3>4. /\ [r EXCEPT !.handle = HandleLeft(r)] \in OxidInts
          /\ [r EXCEPT !.handle = HandleLeft(r)].running <=> oxid[x].running
      BY <3>2, <3>3 DEF OxidInts
    <3> QED BY <1>0, <3>4
  <2>3. \A reply : Waiting(o, reply)' => Waiting(o, reply)
    <3>1. NoCall.at = "free"
      BY DEF NoCall
    <3> HIDE DEF NoCall
    <3> QED BY <2>1, <3>1, WaitingLess
  <2>4. q[o] = IF o \in call[c].oids THEN Result(oid[o], answer) ELSE oid[o]
    OBVIOUS
  <2> HIDE DEF q, a
  <2>5. Kept(oid[o], q[o], oxid[OxidOf[o]].running)
    <3>1. CASE o \in call[c].oids
      BY <1>0, <1>1, <2>1, <2>4, <3>1, KeptByResult
    <3>2. CASE o \notin call[c].oids
      BY <1>0, <2>4, <3>2, KeptByOperations
    <3> QED BY <3>1, <3>2
  <2> QED BY <1>0, <2>1, <2>2, <2>3, <2>5, QuietCommit DEF Kept
<1>3. ASSUME ProcessResults(c) PROVE Quiet(o)
  <2> DEFINE k == [call[c] EXCEPT !.at = "check", !.oids = {}, !.answer = AllAnswer("keep")]
             n == oxid[x].calls - 1
             a == [oxid EXCEPT ![x].calls = n]
             q == [p \in Oid |-> IF p \in call[c].oids THEN Result(oid[p], call[c].answer[p])
                                 ELSE oid[p]]
  <2>1. Commit(q, a, proc) /\ call' = [call EXCEPT ![c] = k] /\ call[c].at = "answered"
    BY <1>3 DEF ProcessResults
  <2>2. a \in [Oxid -> OxidInts] /\ (a[OxidOf[o]].running <=> oxid[OxidOf[o]].running)
    <3>1. n \in Nat
      BY <1>0, <2>1, ActiveCounted, LivesTyped DEF Unsettled
    <3> HIDE DEF n
    <3> QED BY <1>0, <3>1 DEF OxidInts
  <2>3. \A reply : Waiting(o, reply)' => Waiting(o, reply)
    <3>1. k.at = "check"
      BY CallTyped DEF Calls
    <3> HIDE DEF k
    <3> QED BY <2>1, <3>1, WaitingLess
  <2>4. q[o] = IF o \in call[c].oids THEN Result(oid[o], call[c].answer[o]) ELSE oid[o]
    OBVIOUS
  <2>5. o \in call[c].oids => Waiting(o, call[c].answer[o])
    BY <2>1 DEF Waiting
  <2>6. call[c].answer[o] \in {"ok", "keep", "pinned"}
    BY <1>0
  <2> HIDE DEF q, a
  <2>7. /\ q[o].alive => oid[o].alive
        /\ q[o].pinned => oid[o].pinned \/ Waiting(o, "pinned")
        /\ oxid[OxidOf[o]].running /\ oid[o].alive /\ ~ oid[o].freed =>
             (q[o].alive => ~ q[o].freed) /\ (q[o].alive \/ Waiting(o, "ok"))
    <3>1. CASE o \in call[c].oids
      BY <1>0, <1>1, <2>1, <2>4, <2>5, <2>6, <3>1, KeptByAnswer
    <3>2. CASE o \notin call[c].oids
      BY <2>4, <3>2
    <3> QED BY <3>1, <3>2
  <2> QED BY <1>0, <2>1, <2>2, <2>3, <2>7, QuietCommit
<1> QED BY <1>2, <1>3

\* Helpers that find nothing to do, or are done.
LEMMA HelpersQuiet ==
  ASSUME IInv, Lives, NEW o \in Oid, NEW x \in Oxid, HelperIdle(x) \/ HelperDone(x)
  PROVE  Quiet(o)
<1>0. oid[o] \in OidInts /\ OxidOf[o] \in Oxid /\ oxid \in [Oxid -> OxidInts]
  BY OidTyped, LivesTyped
<1>1. ASSUME HelperIdle(x) PROVE Quiet(o)
  <2>1. oxid'[OxidOf[o]].running <=> oxid[OxidOf[o]].running
    BY <1>0, <1>1 DEF HelperIdle, OxidInts
  <2> QED BY <1>1, <2>1, QuietOxids DEF HelperIdle, Waiting
<1>2. ASSUME HelperDone(x) PROVE Quiet(o)
  <2> DEFINE m == oxid[x].leaving - 1
             n == oxid[x].refs - 1
             a == [oxid EXCEPT ![x].leaving = m, ![x].refs = n]
  <2>1. Commit(oid, a, proc) /\ UNCHANGED call /\ oxid[x].leaving > 0
    BY <1>2 DEF HelperDone
  <2>2. m \in Nat /\ n \in Int
    BY <2>1, LivesTyped
  <2> HIDE DEF m, n
  <2>3. a \in [Oxid -> OxidInts] /\ (a[OxidOf[o]].running <=> oxid[OxidOf[o]].running)
    BY <1>0, <2>2 DEF OxidInts
  <2>4. Kept(oid[o], oid[o], oxid[OxidOf[o]].running)
    BY <1>0, KeptByOperations
  <2> HIDE DEF a
  <2> QED BY <2>1, <2>3, <2>4, QuietOperations
<1> QED BY <1>1, <1>2

-----------------------------------------------------------------------------
(* Who deletes an OID *)

\* What ServerDecides says of one OID.
Decided(o) ==
  LET x == OxidOf[o] IN
    oxid[x].running /\ oxid'[x].running /\ oid[o].alive /\ ~ oid'[o].alive => Consented(o)

LEMMA QuietDecides ==
  ASSUME NEW o, Quiet(o)
  PROVE  Decided(o)
BY DEF Quiet, Waiting, Decided, Consented

\* An OXID is freed: the OIDs of others are left alone.
LEMMA StopQuiet ==
  ASSUME IInv, Lives, NEW o \in Oid, NEW x \in Oxid, NEW F \in SUBSET OidsOf(x), FreeOxid(x, F),
         OxidOf[o] # x
  PROVE  Quiet(o)
<1> DEFINE u == UnpinOrphans(oid, {x})
           freed == {p \in F : u[p].alive /\ ~ u[p].down /\ u[p].refs = 0}
           q == [p \in Oid |-> IF p \in freed THEN NoOid ELSE u[p]]
<1>0. oid[o] \in OidInts /\ OxidOf[o] \in Oxid /\ oxid \in [Oxid -> OxidInts]
  BY OidTyped, LivesTyped
<1>1. Commit(q, Stopped({x}), proc) /\ UNCHANGED call
  BY DEF FreeOxid
<1>2. u[o] = oid[o]
  BY DEF UnpinOrphans
<1>3. o \notin freed
  BY DEF OidsOf
<1>4. q[o] = oid[o]
  BY <1>2, <1>3
<1>5. Stopped({x}) \in [Oxid -> OxidInts] /\ Stopped({x})[OxidOf[o]] = oxid[OxidOf[o]]
  <2>1. Stopped({x}) \in [Oxid -> OxidInts]
    <3>1. \A y \in {x} : oxid[y].running
      BY DEF FreeOxid
    <3> QED BY <1>1, <3>1, StoppedCounts
  <2>2. Stopped({x})[OxidOf[o]] = oxid[OxidOf[o]]
    <3>1. OxidOf[o] \in Oxid /\ OxidOf[o] \notin {x}
      BY <1>0
    <3> HIDE DEF u, freed
    <3> QED BY <3>1, Zenon DEF Stopped
  <2> QED BY <2>1, <2>2
<1> HIDE DEF q
<1>6. Kept(oid[o], q[o], oxid[OxidOf[o]].running)
  BY <1>0, <1>4, KeptByOperations
<1> QED BY <1>1, <1>5, <1>6, QuietOperations

\* OXIDs stop running: only their OIDs are unpinned or deleted.
LEMMA StopDecides ==
  ASSUME IInv, Lives, NEW o \in Oid,
         \/ \E x \in Oxid : \E F \in SUBSET OidsOf(x) : FreeOxid(x, F)
         \/ \E p \in Process : ProcessRundown(p)
  PROVE  Decided(o)
<1>0. PICK X \in SUBSET Oxid : \E q, d :
        Commit(q, Stopped(X), d) /\ (OxidOf[o] \notin X => q[o] = oid[o])
  <2>1. ASSUME NEW x \in Oxid, NEW F \in SUBSET OidsOf(x), FreeOxid(x, F)
        PROVE  \E X \in SUBSET Oxid : \E q, d :
                 Commit(q, Stopped(X), d) /\ (OxidOf[o] \notin X => q[o] = oid[o])
    <3> DEFINE u == UnpinOrphans(oid, {x})
               freed == {p \in F : u[p].alive /\ ~ u[p].down /\ u[p].refs = 0}
               q == [p \in Oid |-> IF p \in freed THEN NoOid ELSE u[p]]
    <3>1. Commit(q, Stopped({x}), proc)
      BY <2>1 DEF FreeOxid
    <3>2. OxidOf[o] \notin {x} => u[o] = oid[o]
      BY DEF UnpinOrphans
    <3>3. OxidOf[o] \notin {x} => o \notin freed
      BY DEF OidsOf
    <3>4. OxidOf[o] \notin {x} => q[o] = oid[o]
      BY <3>2, <3>3
    <3> HIDE DEF q
    <3> QED BY <3>1, <3>4
  <2>2. ASSUME NEW p \in Process, ProcessRundown(p)
        PROVE  \E X \in SUBSET Oxid : \E q, d :
                 Commit(q, Stopped(X), d) /\ (OxidOf[o] \notin X => q[o] = oid[o])
    <3> DEFINE X == {x \in Oxid : ProcessOf[x] = p /\ oxid[x].running}
               d == [proc EXCEPT ![p] = [up |-> FALSE, refs |-> @.refs - 1]]
    <3>1. Commit(UnpinOrphans(oid, X), Stopped(X), d)
      BY <2>2 DEF ProcessRundown
    <3>2. OxidOf[o] \notin X => UnpinOrphans(oid, X)[o] = oid[o]
      BY DEF UnpinOrphans
    <3> HIDE DEF d, X
    <3>3. X \in SUBSET Oxid
      BY DEF X
    <3> QED BY <3>1, <3>2, <3>3
  <2> QED BY <2>1, <2>2
<1>1. PICK q, d : Commit(q, Stopped(X), d) /\ (OxidOf[o] \notin X => q[o] = oid[o])
  BY <1>0
<1>2. CASE OxidOf[o] \notin X
  BY <1>1, <1>2 DEF Commit, Decided
<1>3. CASE OxidOf[o] \in X
  <2> DEFINE x == OxidOf[o]
             deleted(y) == {p \in OidsOf(y) : oid[p].alive /\ ~ q[p].alive}
  <2>1. x \in Oxid /\ oxid[x] \in OxidInts
    BY OidTyped
  <2>2. Stopped(X)[x] = [oxid[x] EXCEPT !.running = FALSE, !.refs = @ - 1]
    BY <1>3, <2>1, Zenon DEF Stopped
  <2>3. oxid'[x] = [Stopped(X)[x] EXCEPT !.refs = @ - Cardinality(deleted(x))]
    BY <1>1, <2>1 DEF Commit
  <2> HIDE DEF deleted
  <2>4. ~ oxid'[x].running
    BY <2>1, <2>2, <2>3 DEF OxidInts
  <2> QED BY <2>4 DEF Decided
<1> QED BY <1>2, <1>3

\* As long as an OXID runs, its OIDs are deleted only if its server freed them
\* or answered a rundown call so (CServerOxid::ProcessRundownResultsInternal,
\* CServerOid::Release).
THEOREM ServerDecidesHolds == Spec => ServerDecides
<1>1. IInv /\ LInv /\ [Next]_vars => [\A o \in Oid : Decided(o)]_vars
  <2> SUFFICES ASSUME IInv, Lives, CallShape, CallsCounted, Next, NEW o \in Oid PROVE Decided(o)
    BY DEF LInv
  <2>1. ASSUME NEW c \in Call,
               \/ TakeReferences(c) \/ NoMemory(c) \/ Issue(c) \/ IssueFails(c) \/ Returned(c)
               \/ CheckForMore(c) \/ ReleaseRundownHandle(c) \/ DropReferences(c)
        PROVE  Decided(o)
    BY <2>1, StagesQuiet, QuietDecides
  <2>2. ASSUME NEW c \in Call, CallFailed(c) \/ ProcessResults(c) PROVE Decided(o)
    BY <2>2, SettledQuiet, QuietDecides
  <2>3. ASSUME NEW c \in Call, ReturnedError(c) \/ \E a \in [Oid -> Answers] : ServerAnswers(c, a)
        PROVE  Decided(o)
    BY <2>3 DEF ReturnedError, ServerAnswers, Decided
  <2>4. ASSUME NEW x \in Oxid, NEW c \in Call, NEW B \in Batches(x),
               TaskRundown(x, B, c) \/ HelperRundown(x, B, c)
        PROVE  Decided(o)
    BY <2>4, StartQuiet, QuietDecides
  <2>5. ASSUME NEW x \in Oxid, HelperIdle(x) \/ HelperDone(x) PROVE Decided(o)
    BY <2>5, HelpersQuiet, QuietDecides
  <2>6. CASE Rundown
    BY <2>1, <2>2, <2>3, <2>4, <2>5, <2>6, Zenon DEF Rundown
  <2>7. CASE Client
    BY <2>7, ClientQuiet, QuietDecides
  <2>8. CASE Environment
    BY <2>8, EnvironmentQuiet, QuietDecides
  <2>9. ASSUME NEW p \in Process, Connect(p) PROVE Decided(o)
    BY <2>9 DEF Connect, Decided
  <2>10. ASSUME NEW x \in Oxid, AllocateOxid(x) \/ BeginUseProtseq(x) PROVE Decided(o)
    BY <2>10 DEF AllocateOxid, BeginUseProtseq, Decided
  <2>11. ASSUME NEW x \in Oxid, EndUseProtseq(x) PROVE Decided(o)
    BY <2>11 DEF EndUseProtseq, Commit, Decided
  <2>12. ASSUME NEW p \in Oid, AllocateOid(p) \/ FreeServerOid(p) PROVE Decided(o)
    <3>1. CASE p # o
      BY <2>12, <3>1, ServerQuiet, QuietDecides
    <3>2. CASE p = o
      BY <2>12, <3>2 DEF AllocateOid, Decided, Consented
    <3> QED BY <3>1, <3>2
  <2>13. ASSUME NEW U \in SUBSET Oid, UnpinOids(U) PROVE Decided(o)
    BY <2>13, ServerQuiet, QuietDecides
  <2> QED
    BY <2>6, <2>7, <2>8, <2>9, <2>10, <2>11, <2>12, <2>13, StopDecides, Zenon DEF Next, Server
<1>2. ServerDecides <=> [][\A o \in Oid : Decided(o)]_vars
  BY DEF ServerDecides, Decided
<1> QED BY <1>1, <1>2, LInvHolds, PTL DEF Spec
=============================================================================
