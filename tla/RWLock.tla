------------------------------- MODULE RWLock -------------------------------
(***************************************************************************)
(* What a caller of SWMRLock is promised (the comments on LockShared,      *)
(* LockExclusive, Unlock, ConvertToExclusive and ConvertToShared in        *)
(* src/rpc/runtime/mtrt/swmr.hxx and swmr.cxx): a reader/writer lock whose *)
(* holders may trade one mode for the other, with no queue, no waiter      *)
(* block and no event.                                                     *)
(***************************************************************************)
CONSTANT Thread

VARIABLES
  mode,     \* what each thread holds
  stale,    \* upgrading threads that another exclusive owner has overtaken
  status    \* what the thread's last conversion to exclusive answered

vars == <<mode, stale, status>>

Modes == {"none", "shared", "exclusive", "upgrading"}

Statuses == {"ok", "moreWrites", "noMemory"}

TypeOK ==
  /\ mode \in [Thread -> Modes]
  /\ stale \subseteq Thread
  /\ status \in [Thread -> Statuses]

Init ==
  /\ mode = [t \in Thread |-> "none"]
  /\ stale = {}
  /\ status = [t \in Thread |-> "ok"]

\* No thread but t holds the lock in any mode.
Alone(t) == \A u \in Thread \ {t} : mode[u] \in {"none", "upgrading"}

\* Every thread still waiting to upgrade learns that t wrote before it.
Overtake(t) == stale' = (stale \cup {u \in Thread : mode[u] = "upgrading"}) \ {t}

AcquireShared(t) ==
  /\ mode[t] = "none"
  /\ \A u \in Thread : mode[u] # "exclusive"
  /\ mode' = [mode EXCEPT ![t] = "shared"]
  /\ UNCHANGED <<stale, status>>

AcquireExclusive(t) ==
  /\ mode[t] = "none"
  /\ Alone(t)
  /\ mode' = [mode EXCEPT ![t] = "exclusive"]
  /\ Overtake(t)
  /\ UNCHANGED status

Release(t) ==
  /\ mode[t] \in {"shared", "exclusive"}
  /\ mode' = [mode EXCEPT ![t] = "none"]
  /\ UNCHANGED <<stale, status>>

\* ConvertToExclusive by the only reader: the lock is never let go.
UpgradeAtOnce(t) ==
  /\ mode[t] = "shared"
  /\ Alone(t)
  /\ mode' = [mode EXCEPT ![t] = "exclusive"]
  /\ status' = [status EXCEPT ![t] = "ok"]
  /\ Overtake(t)

\* ConvertToExclusive beside other readers, which may still be on their way
\* back from the call that let them in: wait for them to leave.
UpgradeWait(t) ==
  /\ mode[t] = "shared"
  /\ mode' = [mode EXCEPT ![t] = "upgrading"]
  /\ UNCHANGED <<stale, status>>

\* RPC_S_OK promises that nobody wrote since the shared hold, and
\* ERROR_MORE_WRITES says that somebody did.
UpgradeDone(t) ==
  /\ mode[t] = "upgrading"
  /\ Alone(t)
  /\ mode' = [mode EXCEPT ![t] = "exclusive"]
  /\ status' = [status EXCEPT ![t] = IF t \in stale THEN "moreWrites" ELSE "ok"]
  /\ Overtake(t)

\* ConvertToShared: no other writer can come between the two holds.
Downgrade(t) ==
  /\ mode[t] = "exclusive"
  /\ mode' = [mode EXCEPT ![t] = "shared"]
  /\ UNCHANGED <<stale, status>>

\* A call that reports, or a caller that forgets, a status.
Report(t) ==
  /\ mode[t] # "upgrading"
  /\ \E s \in {"ok", "noMemory"} : status' = [status EXCEPT ![t] = s]
  /\ UNCHANGED <<mode, stale>>

Next ==
  \E t \in Thread :
    \/ AcquireShared(t) \/ AcquireExclusive(t) \/ Release(t)
    \/ UpgradeAtOnce(t) \/ UpgradeWait(t) \/ UpgradeDone(t)
    \/ Downgrade(t) \/ Report(t)

Spec == Init /\ [][Next]_vars
=============================================================================
