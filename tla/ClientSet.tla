------------------------------- MODULE ClientSet -------------------------------
(***************************************************************************)
(* The resolver of a client machine keeps the OIDs that processes of one   *)
(* user there hold on one server machine in a CClientSet, and the worker   *)
(* threads ping the server's resolver with it: with the changes since the  *)
(* last ping, if there are any (CClientSet::PingServer), or with the set   *)
(* ID alone.  Pings may be lost, answered too late, and executed again.    *)
(*                                                                         *)
(* A remote call is one step that ends in one of its outcomes: only the    *)
(* thread that pings looks at what it changes in the client, and other     *)
(* steps come before and after it.  Requests that stay in the network are  *)
(* in net.                                                                 *)
(***************************************************************************)
EXTENDS PingSets

CONSTANTS
  Locals,          \* whether the server machine may be this one
  Knowns,          \* what its table of OIDs may have
  Faults,          \* what may go wrong
  MaxChunk,        \* MAX_PING_CHUNK_SIZE
  MaxFailedPings,  \* simple pings that fail before the set gives up, less one
  MaxDenials,      \* denied complex pings before PingServer gives up, less one
  MaxFaults,       \* bound: how often something does
  MaxCopies,       \* bound: requests in the network
  MaxAge           \* bound: complex pings that a request in it outlives

ASSUME ClientSetAssumption ==
  /\ Locals \subseteq BOOLEAN /\ Knowns \subseteq SUBSET Oid
  /\ Faults \subseteq {"lost",     \* a request is not executed,
                       "late",     \* or not until later,
                       "twice",    \* or again later;
                       "noreply",  \* its answer is lost;
                       "busy",     \* the server, or RPC, has no resources;
                       "nomem",    \* the server has none to add an OID,
                       "nobuffer", \* the client none for the request,
                       "nobind",   \* or for a binding;
                       "denied"}   \* a security package fails
  /\ MaxChunk \in Nat \ {0}
  /\ MaxFailedPings \in Nat /\ MaxDenials \in Nat
  /\ MaxFaults \in Nat /\ MaxCopies \in Nat
  /\ MaxAge \in Nat /\ MaxAge + BaseNumberOfPings < SeqModulus

VARIABLES
  local,     \* _pMid->IsLocal()
  listed,    \* _blistOids, the CClientOid objects
  held,      \* those with _cClients > 0, not Out()
  in,        \* those with _fIn
  change,    \* _fChange
  setid,     \* _setid
  sequence,  \* _sequence
  failed,    \* _cFailedPings
  binding,   \* _hServer: "none", "secure", or "plain" when it is not _fSecure
  ping,      \* where the set is: in gpClientSetPList, or in PingServer
  net,       \* requests that may still be executed
  faults,    \* how often something went wrong
  newest,    \* history: pings sent since the newest one that a set accepted
  astray     \* history: OIDs of which In() may be wrong, see BeliefExact

client == <<listed, held, in, change, setid, sequence, failed, binding, ping>>
history == <<newest, astray>>
network == <<net, faults>>
vars == <<local, client, network, history, sets, known>>

Stages == {"none",     \* there is no CClientSet
           "queued", "due", "calling", "finish",
           "lost"}     \* in no list, and not being pinged

\* adds, dels: aAdds and aDels.  moreAdds, moreDels: those of calls to come.
\* denials: cFailedUnsecureCPings.  gone: history, deletions executed.
Pings == [at : Stages, adds : SUBSET Oid, dels : SUBSET Oid,
          moreAdds : SUBSET Oid, moreDels : SUBSET Oid,
          denials : 0..(MaxDenials + 1), ok : BOOLEAN, gone : SUBSET Oid]

At(stage) == [at |-> stage, adds |-> {}, dels |-> {}, moreAdds |-> {}, moreDels |-> {},
              denials |-> 0, ok |-> FALSE, gone |-> {}]

Copies == [request : Requests, age : 0..MaxAge]

Fault(kind) == kind \in Faults /\ faults < MaxFaults /\ faults' = faults + 1

Init ==
  /\ local \in Locals
  /\ listed = {} /\ held = {} /\ in = {}
  /\ change = TRUE /\ setid = NoSet /\ sequence = 0 /\ failed = 0 /\ binding = "none"
  /\ ping = At("none") /\ net = {} /\ faults = 0
  /\ newest = [s \in SetId |-> MaxAge + 1] /\ astray = {}
  /\ sets = [s \in SetId |-> Unused]
  /\ known \in Knowns

-----------------------------------------------------------------------------
(* The processes of the client machine *)

\* The additions of _BulkUpdateOIDs, when no process of this user has o: a
\* new CClientOid, perhaps of a new CClientSet, or one that nobody used.
Use(o) ==
  /\ o \notin held
  /\ held' = held \cup {o} /\ listed' = listed \cup {o}
  /\ change' = TRUE
  /\ failed' = IF o \in listed THEN failed ELSE 0
  /\ ping' = IF ping.at = "none" THEN At("queued") ELSE ping
  /\ UNCHANGED <<local, in, setid, sequence, binding, network, history, sets, known>>

\* The last process that used o dropped it.
Drop(o) ==
  /\ o \in held
  /\ held' = held \ {o}
  /\ change' = TRUE
  /\ UNCHANGED <<local, listed, in, setid, sequence, failed, binding, ping, network, history,
                 sets, known>>

-----------------------------------------------------------------------------
(* PingServer: the changes *)

Adds == held \ in
Dels == listed \ held

\* Collect them, and make a binding (to a machine with security) if there is
\* none.  No changes at all make no call, but to this machine.
Collect ==
  /\ ping.at = "due" /\ change
  /\ change' = FALSE
  /\ binding' = IF local \/ binding # "none" THEN binding ELSE "secure"
  /\ ping' = [At(IF local \/ Adds \cup Dels # {} THEN "calling" ELSE "finish") EXCEPT
                !.adds = Adds, !.dels = Dels, !.moreAdds = Adds, !.moreDels = Dels,
                !.ok = TRUE]
  /\ UNCHANGED <<local, listed, held, in, setid, sequence, failed, network, history, sets, known>>

\* No binding can be had, or its security cannot be set.
CollectUnbound ==
  /\ ping.at = "due" /\ change /\ ~ local /\ binding = "none"
  /\ Fault("nobind")
  /\ change' = FALSE
  /\ binding' \in {"none", "plain"}
  /\ ping' = [At("finish") EXCEPT !.adds = Adds, !.dels = Dels]
  /\ UNCHANGED <<local, listed, held, in, setid, sequence, failed, net, history, sets, known>>

\* No memory for the arrays of the ping: PingServer returns.
CollectUnbuffered ==
  /\ ping.at = "due" /\ change
  /\ Fault("nobuffer")
  /\ change' = FALSE
  /\ ping' = At("lost")
  /\ UNCHANGED <<local, listed, held, in, setid, sequence, failed, binding, net, history,
                 sets, known>>

-----------------------------------------------------------------------------
(* PingServer: one call of the loop *)

\* The next part of an array.
Chunks(S) ==
  {C \in SUBSET S : IF local \/ Cardinality(S) <= MaxChunk THEN C = S
                    ELSE Cardinality(C) = MaxChunk}

\* ComplexPing with the next sequence number, and a part of both arrays.
NextRequests ==
  {[setid |-> setid, sequence |-> (sequence + 1) % SeqModulus,
    secure |-> ~ local /\ binding = "secure", adds |-> A, dels |-> D] :
     A \in Chunks(ping.moreAdds), D \in Chunks(ping.moreDels)}

Older == {[m EXCEPT !.age = @ + 1] : m \in {n \in net : n.age < MaxAge}}

\* A request leaves nothing in the network, or a copy.
Gone == net' = Older /\ UNCHANGED faults

Leaves(r, fault) ==
  /\ Fault(fault) /\ ~ local /\ Cardinality(Older) < MaxCopies
  /\ net' = Older \cup {[request |-> r, age |-> 0]}

Since == [s \in SetId |-> IF newest[s] > MaxAge THEN newest[s] ELSE newest[s] + 1]

\* Only what is in the network is compared with newest.
Compared(since) == newest' = IF net' = {} THEN [s \in SetId |-> MaxAge + 1] ELSE since

\* A set ID that no client or request has.  When there is none the server's
\* table is full.
Free(s) == ~ sets[s].live /\ s # setid /\ \A m \in net : m.request.setid # s

\* The server applies a request that was sent age pings ago to the set s.
Serves(r, s, answer, age, since) ==
  \E A \in SUBSET r.adds :
    /\ Processes(r, A) /\ answer = Answer(r, A)
    /\ (s = r.setid /\ Applied(r, A)) \/ (Free(s) /\ Created(r, s, A))
    /\ Compared([since EXCEPT ![s] = age])

\* What is left after r was applied, or taken for applied.
Rest(r) == [ping EXCEPT !.moreAdds = @ \ r.adds, !.moreDels = @ \ r.dels]

\* Mutant: one call is enough.
ContinuedOnce(p) == [p EXCEPT !.at = "finish", !.ok = TRUE]

Continued(p) ==
  IF p.moreAdds \cup p.moreDels = {} THEN [p EXCEPT !.at = "finish", !.ok = TRUE] ELSE p

Abandoned(p) ==
  [p EXCEPT !.at = "finish", !.ok = FALSE, !.moreAdds = {}, !.moreDels = {}]

\* What was added or removed is where the client thinks it is.
AfterServing(r) ==
  /\ astray' = astray \ (r.adds \cup r.dels)
  /\ UNCHANGED <<local, listed, held, in, change, failed, known>>

\* The call succeeds.  That some OIDs were unknown does not matter.
CallSucceeds ==
  \E r \in NextRequests, s \in SetId, answer \in {"ok", "badoid"} :
    /\ ping.at = "calling"
    /\ Gone \/ Leaves(r, "twice")
    /\ Serves(r, s, answer, 0, Since)
    /\ setid' = s /\ sequence' = r.sequence
    /\ ping' = Continued([Rest(r) EXCEPT !.gone = @ \cup r.dels])
    /\ AfterServing(r) /\ UNCHANGED binding

\* It seems to: the server found its sequence number out of order.
CallIgnored ==
  \E r \in NextRequests :
    /\ ping.at = "calling"
    /\ Gone /\ Ignored(r) /\ Compared(Since)
    /\ sequence' = r.sequence
    /\ ping' = Continued(Rest(r))
    /\ astray' = astray \cup r.adds \cup r.dels
    /\ UNCHANGED <<local, listed, held, in, change, setid, failed, binding, known>>

\* The server has no memory for all the additions.
CallShort ==
  \E r \in NextRequests, s \in SetId :
    /\ ping.at = "calling"
    /\ Fault("nomem") /\ net' = Older
    /\ Serves(r, s, "nomem", 0, Since)
    /\ setid' = s /\ sequence' = r.sequence
    /\ ping' = Abandoned([ping EXCEPT !.gone = @ \cup r.dels])
    /\ AfterServing(r) /\ UNCHANGED binding

\* The server has forgotten the set: start again with a new one.
CallBadSet ==
  \E r \in NextRequests :
    /\ ping.at = "calling"
    /\ Gone /\ Refused(r, "badset") /\ Compared(Since)
    /\ setid' = NoSet /\ sequence' = 0
    /\ ping' = [ping EXCEPT !.moreAdds = ping.adds, !.moreDels = ping.dels, !.gone = {}]
    /\ astray' = astray \cup in
    /\ UNCHANGED <<local, listed, held, in, change, failed, binding, known>>

\* Access is denied, by a security package or by the set: start again without
\* security, a few times.
CallDenied ==
  \E r \in NextRequests :
    /\ ping.at = "calling"
    /\ \/ UNCHANGED faults /\ Refused(r, "noaccess")
       \/ r.secure /\ Fault("denied") /\ UNCHANGED sets
    /\ net' = Older /\ Compared(Since)
    /\ IF ping.denials > MaxDenials
       THEN /\ ping' = Abandoned(ping)
            /\ binding' = "none" /\ UNCHANGED sequence
       ELSE /\ ping' = [ping EXCEPT !.denials = @ + 1, !.moreAdds = ping.adds,
                                    !.moreDels = ping.dels]
            /\ binding' = "plain" /\ sequence' = r.sequence
    /\ UNCHANGED <<local, listed, held, in, change, setid, failed, astray, known>>

\* No resources for the call or for a new set.
CallBusy ==
  \E r \in NextRequests :
    /\ ping.at = "calling"
    /\ \/ (local => setid = NoSet) /\ Fault("busy")
       \/ setid = NoSet /\ (\A s \in SetId : ~ Free(s)) /\ UNCHANGED faults
    /\ net' = Older /\ Compared(Since)
    /\ sequence' = r.sequence
    /\ ping' = Abandoned(ping)
    /\ UNCHANGED <<local, listed, held, in, change, setid, failed, binding, astray, sets, known>>

\* Communication fails before the server has the request (it may get it later)
CallLost ==
  \E r \in NextRequests :
    /\ ping.at = "calling" /\ ~ local
    /\ (Fault("lost") /\ net' = Older) \/ Leaves(r, "late")
    /\ Compared(Since)
    /\ ping' = Abandoned(ping) /\ binding' = "none"
    /\ UNCHANGED <<local, listed, held, in, change, setid, sequence, failed, astray,
                   sets, known>>

\* or after that.
CallUnanswered ==
  \E r \in NextRequests, s \in SetId, answer \in {"ok", "badoid"} :
    /\ ping.at = "calling" /\ ~ local
    /\ Fault("noreply") /\ net' = Older
    /\ Serves(r, s, answer, 0, Since)
    /\ ping' = Abandoned([ping EXCEPT !.gone = @ \cup r.dels]) /\ binding' = "none"
    /\ AfterServing(r) /\ UNCHANGED <<setid, sequence>>

-----------------------------------------------------------------------------
(* PingServer: the end *)

\* Mutant: a deleted OID stays In().
FinishStillIn ==
  /\ ping.at = "finish" /\ ping.ok
  /\ in' = in \cup ping.adds
  /\ listed' = listed \ (ping.dels \ held)
  /\ change' = (change \/ ping.dels \cap held # {})
  /\ failed' = 0 /\ ping' = At("queued")
  /\ UNCHANGED <<local, held, setid, sequence, binding, network, history, sets, known>>

\* Mutant: an OID goes when it is Out(), although this ping did not remove it.
FinishDropsOut ==
  /\ ping.at = "finish" /\ ping.ok
  /\ listed' = held
  /\ in' = ((in \cup ping.adds) \ ping.dels) \cap held
  /\ change' = (change \/ ping.dels \cap held # {})
  /\ failed' = 0 /\ ping' = At("queued")
  /\ UNCHANGED <<local, held, setid, sequence, binding, network, history, sets, known>>

\* The ping succeeded.  The last OID takes the CClientSet with it.
Finish ==
  /\ ping.at = "finish" /\ ping.ok
  /\ in' = (in \cup ping.adds) \ ping.dels
  /\ listed' = listed \ (ping.dels \ held)
  /\ UNCHANGED <<local, held, network, newest, sets, known>>
  /\ IF listed' # {}
     THEN /\ change' = (change \/ ping.adds \ held # {} \/ ping.dels \cap held # {})
          /\ failed' = 0 /\ ping' = At("queued")
          /\ UNCHANGED <<setid, sequence, binding, astray>>
     ELSE /\ change' = TRUE /\ failed' = 0 /\ ping' = At("none") /\ setid' = NoSet
          /\ sequence' = 0 /\ binding' = "none" /\ astray' = {}

\* Mutant: nobody is told that there are still changes.
FinishForgotten ==
  /\ ping.at = "finish" /\ ~ ping.ok
  /\ ping' = At("queued")
  /\ astray' = astray \cup ping.gone
  /\ UNCHANGED <<local, listed, held, in, change, setid, sequence, failed, binding, network,
                 newest, sets, known>>

\* It failed, and the changes are collected again next time.
FinishFailed ==
  /\ ping.at = "finish" /\ ~ ping.ok
  /\ change' = TRUE
  /\ ping' = At("queued")
  /\ astray' = astray \cup ping.gone
  /\ UNCHANGED <<local, listed, held, in, setid, sequence, failed, binding, network, newest,
                 sets, known>>

-----------------------------------------------------------------------------
(* PingServer: no changes *)

\* A simple ping, which is given up after some failures in a row.  (A late
\* one would only renew the timeout of a set.)
Simple(ok) ==
  /\ ping.at = "due" /\ ~ change
  /\ local \/ failed <= MaxFailedPings
  /\ failed' = IF local THEN failed ELSE IF ok THEN 0 ELSE failed + 1
  /\ ping' = At("queued")
  /\ UNCHANGED <<local, listed, held, in, change, setid, sequence, binding, net, history, known>>

SimplePing ==
  /\ setid # NoSet /\ sets[setid].live
  /\ Renewed(setid) /\ UNCHANGED faults /\ Simple(TRUE)

SimpleBadSet ==
  /\ setid # NoSet => ~ sets[setid].live
  /\ UNCHANGED <<sets, faults>> /\ Simple(FALSE)

SimpleLost ==
  /\ ~ local /\ ping.at = "due" /\ Fault("lost")
  /\ UNCHANGED sets /\ Simple(FALSE)

SimpleUnanswered ==
  /\ ~ local /\ setid # NoSet /\ sets[setid].live /\ Fault("noreply")
  /\ Renewed(setid) /\ Simple(FALSE)

GivenUp ==
  /\ ping.at = "due" /\ ~ change /\ ~ local /\ failed > MaxFailedPings
  /\ ping' = At("queued")
  /\ UNCHANGED <<local, listed, held, in, change, setid, sequence, failed, binding, network,
                 history, sets, known>>

-----------------------------------------------------------------------------
(* The network, the server and time *)

\* A request that was given up, or a second copy of one, is executed.
Stray ==
  \E m \in net :
    /\ net' = net \ {m}
    /\ \/ /\ \E s \in SetId, answer \in {"ok", "badoid"} :
               Serves(m.request, s, answer, m.age, newest)
          /\ astray' = astray \cup m.request.dels
       \/ /\ Ignored(m.request) \/ \E answer \in {"badset", "noaccess"} : Refused(m.request, answer)
          /\ Compared(newest) /\ UNCHANGED astray
    /\ UNCHANGED <<local, client, faults, known>>

\* The server's resolver, of itself.
Expire ==
  /\ \E s \in SetId : RundownSet(s, local)
  /\ UNCHANGED <<local, client, network, history>>

\* A ping period passes.  The worker threads of the client keep to it.
Tick ==
  /\ ping.at \in {"none", "queued", "lost"}
  /\ ping' = IF ping.at = "queued" THEN At("due") ELSE ping
  /\ sets' = Aged
  /\ UNCHANGED <<local, listed, held, in, change, setid, sequence, failed, binding, network,
                 history, known>>

-----------------------------------------------------------------------------
Call ==
  \/ CallSucceeds \/ CallIgnored \/ CallShort \/ CallBadSet \/ CallDenied
  \/ CallBusy \/ CallLost \/ CallUnanswered

PingServer ==
  \/ Collect \/ CollectUnbound \/ CollectUnbuffered \/ Call \/ Finish \/ FinishFailed
  \/ SimplePing \/ SimpleBadSet \/ SimpleLost \/ SimpleUnanswered \/ GivenUp

Next ==
  \/ \E o \in Oid : Use(o) \/ Drop(o)
  \/ PingServer \/ Stray \/ Expire \/ Tick

Spec == Init /\ [][Next]_vars

\* Time passes, the worker threads of both machines run, a call ends, and a
\* request does not stay in the network for ever.  Processes need do nothing.
FairSpec ==
  Spec /\ WF_vars(PingServer) /\ WF_vars(Tick) /\ WF_vars(Stray) /\ WF_vars(Expire)

-----------------------------------------------------------------------------
(* Properties *)

TypeOK ==
  /\ local \in BOOLEAN
  /\ listed \subseteq Oid /\ held \subseteq listed /\ in \subseteq listed
  /\ change \in BOOLEAN /\ setid \in SetId \cup {NoSet}
  /\ sequence \in 0..(SeqModulus - 1) /\ failed \in 0..(MaxFailedPings + 1)
  /\ binding \in {"none", "secure", "plain"}
  /\ ping \in Pings /\ net \subseteq Copies /\ faults \in 0..MaxFaults
  /\ newest \in [SetId -> 0..(MaxAge + 1)] /\ astray \subseteq Oid
  /\ sets \in [SetId -> Sets] /\ known \subseteq Oid

\* coid.hxx: what is In() is in the remote set.  The exceptions are OIDs that
\* are astray, of a set that the server has forgotten, or of no use.
BeliefExact ==
  setid # NoSet /\ sets[setid].live =>
    (in \cap known) \ (astray \cup ping.gone) \subseteq sets[setid].oids

\* coid.hxx, as it is put there: an OID that is In() is in the remote set.
InMeansInSet ==
  ping.at = "queued" /\ setid # NoSet /\ sets[setid].live =>
    in \cap held \cap known \subseteq sets[setid].oids

\* Nothing that the set has is lost to the client, which could never remove it.
NothingLeaked ==
  setid # NoSet => sets[setid].oids \subseteq listed \cup astray

\* manager.cxx: no ping is processed after one that was sent later, nor twice.
PingsInOrder ==
  \A m \in net :
    LET s == m.request.setid IN
    s # NoSet /\ sets[s].live /\ Accepts(s, m.request.sequence) => m.age < newest[s]

\* A change that lasts is pinged until the server has it, whatever fails (but
\* for a set that is lost).
ChangesSent ==
  \A o \in Oid :
    /\ <>[](o \in held) => <>[](o \in in \/ ping.at = "lost")
    /\ <>[](o \notin held) => <>[](o \notin listed \/ ping.at = "lost")
=============================================================================
