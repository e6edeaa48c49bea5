----------------------------- MODULE OutboxRelay -----------------------------
(***************************************************************************)
(* The transactional outbox and its relay (internal/db/event_outbox.go,    *)
(* internal/events/relay.go).                                              *)
(*                                                                         *)
(* An ingest transaction writes an outbox row whose id is drawn before the *)
(* commit, so rows may become visible out of id order.  Replicas drain the *)
(* table to a Valkey stream under one database lease.  A pass of Drain is  *)
(* a sequence of bounded calls; call is the time spent in the current one, *)
(* age the time since the lease was last renewed by the replica (measured, *)
(* as in the code, from before the renewing call).  The lease row keeps    *)
(* past, the time since the start of the call that wrote it: the code's    *)
(* expires_at < now, with now read when the acquiring call began, is       *)
(* past > leaseTTL + call.  A batch is worked off in id order, so it is    *)
(* the set of the ids still to do.                                         *)
(*                                                                         *)
(* Punctual says that a call ends within its timeout and that nothing      *)
(* pauses the process between two calls.  attempts and last_error only     *)
(* report, and the audit write is part of the publishing call's time.      *)
(*                                                                         *)
(* An operator named Faulty... is a plausible bug in the definition that   *)
(* follows it; no specification uses it.                                   *)
(***************************************************************************)
EXTENDS Naturals, Sequences, FiniteSets

CONSTANTS
    Replicas,
    MaxRows,         \* bound: ids drawn
    batchSize,
    leaseTTL,
    leaseRenewEvery,
    storeTimeout,    \* longest database call
    publishTimeout,  \* longest XADD, with the audit write after it
    Punctual,
    MaxFaults,       \* bound: failed or unanswered calls, and crashes
    NoOne            \* the lease row is absent

ASSUME SizeAssumption == MaxRows \in Nat /\ batchSize \in Nat \ {0} /\ MaxFaults \in Nat
ASSUME NoOneAssumption == NoOne \notin Replicas
ASSUME PunctualAssumption == Punctual \in BOOLEAN
ASSUME TimeAssumption ==
    /\ {leaseTTL, leaseRenewEvery, storeTimeout, publishTimeout} \subseteq Nat

\* What the code's constants satisfy (60s, 20s, 10s and 5s + 1s): a row
\* started on a lease that was not due for renewal, and the renewal after
\* it, both end before the lease does; so does listing after acquiring.
ASSUME LeaseAssumption ==
    /\ leaseRenewEvery + publishTimeout + 2 * storeTimeout <= leaseTTL
    /\ publishTimeout + 3 * storeTimeout <= leaseTTL

VARIABLES
    row,     \* [1..MaxRows -> status of the outbox row]
    stream,  \* the Valkey stream: row ids in XADD order
    lease,   \* [holder, past]
    proc,    \* [Replicas -> the drain pass]
    faults,
    earlier  \* history: <<i, j>> when row i was committed before id j was drawn

vars == <<row, stream, lease, proc, faults, earlier>>

Ids == 1 .. MaxRows
Committed == {"pending", "published", "purged"}
Idle == [pc |-> "idle", batch |-> {}, full |-> FALSE, call |-> 0, age |-> 0]

\* Calls made on the strength of the lease.
Owning == {"list", "next", "renew", "xadd", "mark"}

\* Timers stop growing where nothing tells larger values apart.
Cap == 2 * leaseTTL + 1
Later(t) == IF t < Cap THEN t + 1 ELSE Cap

TypeOK ==
    /\ row \in [Ids -> {"none", "open", "aborted"} \cup Committed]
    /\ stream \in Seq(Ids)
    /\ lease \in [holder : Replicas \cup {NoOne, "crashed"}, past : Nat]
    /\ proc \in [Replicas -> [pc : Owning \cup {"idle", "acquire", "release"}, batch : SUBSET Ids,
                              full : BOOLEAN, call : Nat, age : Nat]]
    /\ faults \in Nat
    /\ earlier \subseteq Ids \X Ids

Init ==
    /\ row = [i \in Ids |-> "none"]
    /\ stream = <<>>
    /\ lease = [holder |-> NoOne, past |-> 0]
    /\ proc = [r \in Replicas |-> Idle]
    /\ faults = 0
    /\ earlier = {}

-----------------------------------------------------------------------------
(* Ingest. *)

\* The insert inside the open transaction draws the next id.
insertOutboxTx(j) ==
    /\ row[j] = "none"
    /\ \A i \in Ids : i < j => row[i] # "none"
    /\ row' = [row EXCEPT ![j] = "open"]
    /\ earlier' = earlier \cup {<<i, j>> : i \in {i \in Ids : row[i] \in Committed}}
    /\ UNCHANGED <<stream, lease, proc, faults>>

EndTx(j) ==
    /\ row[j] = "open"
    /\ \E s \in {"pending", "aborted"} : row' = [row EXCEPT ![j] = s]
    /\ UNCHANGED <<stream, lease, proc, faults, earlier>>

\* Published rows are kept for a week, far longer than any pass.
PurgePublishedOutbox(j) ==
    /\ row[j] = "published"
    /\ \A r \in Replicas : j \notin proc[r].batch
    /\ row' = [row EXCEPT ![j] = "purged"]
    /\ UNCHANGED <<stream, lease, proc, faults, earlier>>

-----------------------------------------------------------------------------
(* A pass of Drain. *)

Goto(r, pc) == proc' = [proc EXCEPT ![r].pc = pc, ![r].call = 0]

Done(p, i) == [p EXCEPT !.pc = "next", !.batch = @ \ {i}, !.call = 0]

Fail(r) ==
    /\ faults < MaxFaults
    /\ faults' = faults + 1
    /\ Goto(r, "release")

Drain(r) ==
    /\ proc[r].pc = "idle"
    /\ Goto(r, "acquire")
    /\ UNCHANGED <<row, stream, lease, faults, earlier>>

FaultyGrace(r) == lease.holder \in {NoOne, r} \/ lease.past > leaseRenewEvery

\* The upsert's WHERE clause.
Free(r) == lease.holder \in {NoOne, r} \/ lease.past > leaseTTL + proc[r].call

\* Acquire or renew: before every batch, and between rows when due.  A call
\* that fails may have been carried out.
AcquireOutboxLease(r) ==
    LET p == proc[r] IN
    /\ p.pc \in {"acquire", "renew"}
    /\ \/ /\ Free(r)
          /\ lease' = [holder |-> r, past |-> p.call]
          /\ proc' = [proc EXCEPT ![r].pc = IF p.pc = "acquire" THEN "list" ELSE "xadd",
                                  ![r].call = 0, ![r].age = p.call]
          /\ UNCHANGED faults
       \/ ~Free(r) /\ Goto(r, "release") /\ UNCHANGED <<lease, faults>>
       \/ Fail(r) /\ UNCHANGED lease
       \/ Free(r) /\ Fail(r) /\ lease' = [holder |-> r, past |-> p.call]
    /\ UNCHANGED <<row, stream, earlier>>

FaultyHighWater(S) == {i \in S : \A j \in Ids : row[j] \in {"published", "purged"} => j < i}

\* ORDER BY id LIMIT batchSize over the unpublished rows.
Listed(S) == {i \in S : Cardinality({j \in S : j <= i}) <= batchSize}

PendingOutbox(r) ==
    LET q == Listed({i \in Ids : row[i] = "pending"}) IN
    /\ proc[r].pc = "list"
    /\ \/ /\ proc' = [proc EXCEPT ![r].pc = IF q = {} THEN "release" ELSE "next",
                                  ![r].batch = q, ![r].full = Cardinality(q) = batchSize,
                                  ![r].call = 0]
          /\ UNCHANGED faults
       \/ Fail(r)
    /\ UNCHANGED <<row, stream, lease, earlier>>

\* renew(false), or the end of the batch: a full one is followed by another.
NextRow(r) ==
    LET p == proc[r] IN
    /\ p.pc = "next"
    /\ Goto(r, CASE p.batch = {} /\ p.full  -> "acquire"
                 [] p.batch = {} /\ ~p.full -> "release"
                 [] p.batch # {} /\ p.age < leaseRenewEvery  -> "xadd"
                 [] p.batch # {} /\ p.age >= leaseRenewEvery -> "renew")
    /\ UNCHANGED <<row, stream, lease, faults, earlier>>

FaultyNewestFirst(S, i) == i \in S /\ \A j \in S : i >= j

First(S, i) == i \in S /\ \A j \in S : i <= j

\* Answered, refused, or appended with the answer lost.
XAdd(r) ==
    /\ proc[r].pc = "xadd"
    /\ \E i \in Ids :
          /\ First(proc[r].batch, i)
          /\ \/ stream' = Append(stream, i) /\ Goto(r, "mark") /\ UNCHANGED faults
             \/ Fail(r) /\ UNCHANGED stream
             \/ Fail(r) /\ stream' = Append(stream, i)
    /\ UNCHANGED <<row, lease, earlier>>

\* By id alone: a row that another replica marked is marked again.
MarkOutboxPublished(r) ==
    /\ proc[r].pc = "mark"
    /\ \E i \in Ids :
          /\ First(proc[r].batch, i)
          /\ \/ /\ row' = [row EXCEPT ![i] = "published"]
                /\ proc' = [proc EXCEPT ![r] = Done(@, i)]
                /\ UNCHANGED faults
             \/ Fail(r) /\ UNCHANGED row
             \/ Fail(r) /\ row' = [row EXCEPT ![i] = "published"]
    /\ UNCHANGED <<stream, lease, earlier>>

\* The deferred hand-over; a release that fails leaves the lease to expire.
ReleaseOutboxLease(r) ==
    /\ proc[r].pc = "release"
    /\ proc' = [proc EXCEPT ![r] = Idle]
    /\ \/ /\ lease' = IF lease.holder = r THEN [holder |-> NoOne, past |-> 0] ELSE lease
          /\ UNCHANGED faults
       \/ /\ faults < MaxFaults /\ faults' = faults + 1
          /\ UNCHANGED lease
    /\ UNCHANGED <<row, stream, earlier>>

\* A restarted process has a new holder name (relayHolder).
Crash(r) ==
    /\ proc[r].pc # "idle"
    /\ faults < MaxFaults
    /\ faults' = faults + 1
    /\ proc' = [proc EXCEPT ![r] = Idle]
    /\ lease' = IF lease.holder = r THEN [lease EXCEPT !.holder = "crashed"] ELSE lease
    /\ UNCHANGED <<row, stream, earlier>>

-----------------------------------------------------------------------------
(* Time. *)

Timeout(pc) ==
    CASE pc \in {"acquire", "list", "renew", "mark"} -> storeTimeout
      [] pc = "release" -> 2 * storeTimeout  \* after recording the failure
      [] pc = "xadd" -> publishTimeout
      [] pc = "next" -> 0
      [] pc = "idle" -> 0

Aged(p) == IF p.pc = "idle" THEN p ELSE [p EXCEPT !.call = Later(@), !.age = Later(@)]

Tick ==
    /\ Punctual => \A r \in Replicas : proc[r].pc # "idle" => proc[r].call < Timeout(proc[r].pc)
    /\ proc' = [r \in Replicas |-> Aged(proc[r])]
    /\ lease' = IF lease.holder = NoOne THEN lease ELSE [lease EXCEPT !.past = Later(@)]
    /\ UNCHANGED <<row, stream, faults, earlier>>

Step(r) ==
    \/ Drain(r) \/ AcquireOutboxLease(r) \/ PendingOutbox(r) \/ NextRow(r)
    \/ XAdd(r) \/ MarkOutboxPublished(r) \/ ReleaseOutboxLease(r)

Next ==
    \/ \E j \in Ids : insertOutboxTx(j) \/ EndTx(j) \/ PurgePublishedOutbox(j)
    \/ \E r \in Replicas : Step(r) \/ Crash(r)
    \/ Tick

Spec == Init /\ [][Next]_vars

\* Run wakes every safetyInterval, every call ends, and time passes.  The
\* ingest side need do nothing.
Fairness == SF_vars(Tick) /\ \A r \in Replicas : WF_vars(Step(r))

FairSpec == Spec /\ Fairness

-----------------------------------------------------------------------------
(* Properties. *)

InStream(i) == \E k \in DOMAIN stream : stream[k] = i
Copies(i) == Cardinality({k \in DOMAIN stream : stream[k] = i})

\* A row marked published is on the stream, whichever pass marked it, and
\* a rolled-back or uncommitted ingest publishes nothing.
PublishedMeansSent ==
    \A i \in Ids :
        /\ row[i] \in {"published", "purged"} => InStream(i)
        /\ InStream(i) => row[i] \in Committed

\* A row committed before a later one was written reaches the stream before
\* it, across batches, failed passes, crashes and hand-overs of the lease.
\* It does not rest on the lease: every pass lists all unpublished rows in
\* id order and stops at the first failure.
FirstPublishedInOrder ==
    \A p \in earlier : \A k \in DOMAIN stream :
        stream[k] = p[2] => \E m \in 1 .. k : stream[m] = p[1]

\* The stream tells the truth of the table, in order: what is marked was sent,
\* what was sent is committed, and no row overtakes an earlier one.
StreamIsFaithful == PublishedMeansSent /\ FirstPublishedInOrder

\* The lease outlasts every call made under it, so two replicas never
\* publish at the same time (relay.go: "a replica that lost ownership must
\* stop before another one publishes the same rows").
OnePublisher ==
    \A r, s \in Replicas : proc[r].pc \in Owning /\ proc[s].pc \in Owning => r = s

\* A row is repeated on the stream only after a failure: an answer that was
\* lost, a mark that failed, a crash in between.
RepeatedOnlyAfterFault == \A i \in Ids : Copies(i) <= 1 + faults

\* Replicas publish in turns, and a second copy of a row has a failure behind it.
PublishersTakeTurns == OnePublisher /\ RepeatedOnlyAfterFault

\* Every committed row reaches the stream once the outages end, also when a
\* replica dies holding the lease.
EveryRowPublished == \A i \in Ids : row[i] = "pending" ~> InStream(i)
=============================================================================
