-------------------------- MODULE OutboxRelayProofs --------------------------
(***************************************************************************)
(* Proofs about OutboxRelay, for every set of replicas, number of rows,    *)
(* batch size, number of failures and choice of the four durations that    *)
(* satisfies LeaseAssumption.                                              *)
(***************************************************************************)
EXTENDS OutboxRelay, TLAPS

\* A pass as TypeOK describes it.
Pass == [pc : Owning \cup {"idle", "acquire", "release"}, batch : SUBSET Ids,
         full : BOOLEAN, call : Nat, age : Nat]

LEMMA IdleIsPass == Idle \in Pass
  BY DEF Idle, Pass, Owning

LEMMA LaterType == ASSUME NEW t \in Nat PROVE Later(t) \in Nat
  BY TimeAssumption DEF Later, Cap

\* A timer that is not past the lease is not capped.
LEMMA LaterCounts == ASSUME NEW t \in Nat, t <= leaseTTL PROVE Later(t) = t + 1
  BY TimeAssumption DEF Later, Cap

LEMMA AgedType == ASSUME NEW p \in Pass PROVE Aged(p) \in Pass
  BY LaterType DEF Aged, Pass

-----------------------------------------------------------------------------
(* Types. *)

\* A replica that goes on to another call keeps its pass well-formed.
LEMMA GotoType ==
    ASSUME proc \in [Replicas -> Pass], NEW r \in Replicas,
           NEW pc \in Owning \cup {"idle", "acquire", "release"}, Goto(r, pc)
    PROVE  proc' \in [Replicas -> Pass]
<1>1. [proc[r] EXCEPT !.pc = pc, !.call = 0] \in Pass
  BY DEF Pass
<1>2. proc' = [proc EXCEPT ![r] = [proc[r] EXCEPT !.pc = pc, !.call = 0]]
  BY DEF Goto
<1> QED
  BY <1>1, <1>2

\* Where a replica goes between two rows.
LEMMA NextRowCases ==
    ASSUME proc \in [Replicas -> Pass], NEW r \in Replicas, NextRow(r)
    PROVE  \/ Goto(r, "acquire")
           \/ Goto(r, "release")
           \/ Goto(r, "xadd") /\ proc[r].batch # {} /\ proc[r].age < leaseRenewEvery
           \/ Goto(r, "renew") /\ proc[r].batch # {}
<1>1. proc[r].full \in BOOLEAN /\ proc[r].age \in Nat /\ leaseRenewEvery \in Nat
  BY TimeAssumption DEF Pass
<1>2. CASE proc[r].batch = {} /\ proc[r].full
  BY <1>2 DEF NextRow
<1>3. CASE proc[r].batch = {} /\ ~proc[r].full
  BY <1>3 DEF NextRow
<1>4. CASE proc[r].batch # {} /\ proc[r].age < leaseRenewEvery
  <2>1. ~(proc[r].age >= leaseRenewEvery)
    BY <1>1, <1>4
  <2> QED
    BY <1>4, <2>1 DEF NextRow
<1>5. CASE proc[r].batch # {} /\ proc[r].age >= leaseRenewEvery
  <2>1. ~(proc[r].age < leaseRenewEvery)
    BY <1>1, <1>5
  <2> QED
    BY <1>5, <2>1 DEF NextRow
<1> QED
  BY <1>1, <1>2, <1>3, <1>4, <1>5

LEMMA InitTypeOK == Init => TypeOK
  BY IdleIsPass DEF Init, TypeOK, Pass

LEMMA NextTypeOK == TypeOK /\ [Next]_vars => TypeOK'
<1> SUFFICES ASSUME TypeOK, [Next]_vars PROVE TypeOK'
  OBVIOUS
<1>p. proc \in [Replicas -> Pass]
  BY DEF TypeOK, Pass
<1>1. ASSUME NEW j \in Ids, insertOutboxTx(j) PROVE TypeOK'
  <2>1. earlier' \subseteq Ids \X Ids
    BY <1>1 DEF TypeOK, insertOutboxTx
  <2> QED
    BY <1>1, <2>1 DEF TypeOK, insertOutboxTx
<1>2. ASSUME NEW j \in Ids, EndTx(j) PROVE TypeOK'
  BY <1>2 DEF TypeOK, EndTx, Committed
<1>3. ASSUME NEW j \in Ids, PurgePublishedOutbox(j) PROVE TypeOK'
  BY <1>3 DEF TypeOK, PurgePublishedOutbox, Committed
<1>f. ASSUME NEW r \in Replicas, Fail(r)
      PROVE  proc' \in [Replicas -> Pass] /\ faults' \in Nat
  BY <1>f, <1>p, GotoType DEF TypeOK, Fail
<1>4. ASSUME NEW r \in Replicas, Drain(r) PROVE TypeOK'
  <2>1. proc' \in [Replicas -> Pass]
    BY <1>4, <1>p, GotoType DEF Drain
  <2> QED
    BY <1>4, <2>1 DEF TypeOK, Drain, Pass
<1>5. ASSUME NEW r \in Replicas, AcquireOutboxLease(r) PROVE TypeOK'
  <2> DEFINE q == [proc[r] EXCEPT !.pc = IF proc[r].pc = "acquire" THEN "list" ELSE "xadd",
                                  !.call = 0, !.age = proc[r].call]
  <2>1. q \in Pass /\ proc[r].call \in Nat
    BY <1>p DEF Pass, Owning
  <2>2. [holder |-> r, past |-> proc[r].call] \in [holder : Replicas \cup {NoOne, "crashed"}, past : Nat]
    BY <2>1
  <2>3. \/ proc' = [proc EXCEPT ![r] = q] /\ UNCHANGED faults
        \/ Goto(r, "release") /\ UNCHANGED faults
        \/ Fail(r)
    BY <1>5 DEF AcquireOutboxLease
  <2>4. proc' \in [Replicas -> Pass] /\ faults' \in Nat
    <3>1. CASE proc' = [proc EXCEPT ![r] = q] /\ UNCHANGED faults
      BY <3>1, <2>1, <1>p DEF TypeOK
    <3>2. CASE Goto(r, "release") /\ UNCHANGED faults
      BY <3>2, <1>p, GotoType DEF TypeOK
    <3> QED
      BY <2>3, <3>1, <3>2, <1>f
  <2> QED
    BY <1>5, <2>2, <2>4 DEF TypeOK, AcquireOutboxLease, Pass
<1>6. ASSUME NEW r \in Replicas, PendingOutbox(r) PROVE TypeOK'
  <2> DEFINE b == Listed({i \in Ids : row[i] = "pending"})
  <2> DEFINE q == [proc[r] EXCEPT !.pc = IF b = {} THEN "release" ELSE "next",
                                  !.batch = b, !.full = Cardinality(b) = batchSize, !.call = 0]
  <2>1. b \subseteq Ids
    BY DEF Listed
  <2>2. q \in Pass
    BY <2>1, <1>p DEF Pass, Owning
  <2>3. \/ proc' = [proc EXCEPT ![r] = q] /\ UNCHANGED faults
        \/ Fail(r)
    BY <1>6 DEF PendingOutbox
  <2>4. proc' \in [Replicas -> Pass] /\ faults' \in Nat
    BY <2>2, <2>3, <1>p, <1>f DEF TypeOK
  <2> QED
    BY <1>6, <2>4 DEF TypeOK, PendingOutbox, Pass
<1>7. ASSUME NEW r \in Replicas, NextRow(r) PROVE TypeOK'
  <2>1. \E pc \in {"acquire", "release", "xadd", "renew"} : Goto(r, pc)
    BY <1>7, <1>p, NextRowCases
  <2>2. proc' \in [Replicas -> Pass]
    BY <2>1, <1>p, GotoType DEF Owning
  <2> QED
    BY <1>7, <2>2 DEF TypeOK, NextRow, Pass
<1>8. ASSUME NEW r \in Replicas, XAdd(r) PROVE TypeOK'
  <2>1. proc' \in [Replicas -> Pass] /\ faults' \in Nat
    BY <1>8, <1>p, <1>f, GotoType DEF TypeOK, XAdd, Owning
  <2>2. stream' \in Seq(Ids)
    <3>1. PICK i \in Ids : stream' = Append(stream, i) \/ stream' = stream
      BY <1>8 DEF XAdd
    <3>2. stream \in Seq(Ids)
      BY DEF TypeOK
    <3> QED
      BY <3>1, <3>2
  <2> QED
    BY <1>8, <2>1, <2>2 DEF TypeOK, XAdd, Pass
<1>9. ASSUME NEW r \in Replicas, MarkOutboxPublished(r) PROVE TypeOK'
  <2>1. PICK i \in Ids : /\ row' = [row EXCEPT ![i] = "published"] \/ UNCHANGED row
                         /\ \/ proc' = [proc EXCEPT ![r] = Done(proc[r], i)] /\ UNCHANGED faults
                            \/ Fail(r)
    BY <1>9 DEF MarkOutboxPublished
  <2>2. Done(proc[r], i) \in Pass
    BY <1>p DEF Done, Pass, Owning
  <2>3. proc' \in [Replicas -> Pass] /\ faults' \in Nat
    BY <2>1, <2>2, <1>p, <1>f DEF TypeOK
  <2>4. row' \in [Ids -> {"none", "open", "aborted"} \cup Committed]
    BY <2>1 DEF TypeOK, Committed
  <2> QED
    BY <1>9, <2>3, <2>4 DEF TypeOK, MarkOutboxPublished, Pass
<1>10. ASSUME NEW r \in Replicas, ReleaseOutboxLease(r) PROVE TypeOK'
  <2>1. proc' \in [Replicas -> Pass]
    BY <1>10, <1>p, IdleIsPass DEF ReleaseOutboxLease
  <2> QED
    BY <1>10, <2>1 DEF TypeOK, ReleaseOutboxLease, Pass
<1>11. ASSUME NEW r \in Replicas, Crash(r) PROVE TypeOK'
  <2>1. proc' \in [Replicas -> Pass]
    BY <1>11, <1>p, IdleIsPass DEF Crash
  <2>2. lease' \in [holder : Replicas \cup {NoOne, "crashed"}, past : Nat]
    BY <1>11 DEF TypeOK, Crash
  <2>3. faults' \in Nat /\ UNCHANGED <<row, stream, earlier>>
    BY <1>11 DEF TypeOK, Crash
  <2> QED
    BY <2>1, <2>2, <2>3 DEF TypeOK, Pass
<1>12. ASSUME Tick PROVE TypeOK'
  <2>1. proc' \in [Replicas -> Pass]
    BY <1>12, <1>p, AgedType DEF Tick
  <2>2. lease' \in [holder : Replicas \cup {NoOne, "crashed"}, past : Nat]
    BY <1>12, LaterType DEF TypeOK, Tick
  <2> QED
    BY <1>12, <2>1, <2>2 DEF TypeOK, Tick, Pass
<1>13. CASE UNCHANGED vars
  BY <1>13 DEF TypeOK, vars
<1> QED
  BY <1>1, <1>2, <1>3, <1>4, <1>5, <1>6, <1>7, <1>8, <1>9, <1>10, <1>11, <1>12, <1>13
     DEF Next, Step

-----------------------------------------------------------------------------
(* The lease. *)

\* The time since the last renewal, by the call the replica is in: a row is
\* begun on a lease younger than leaseRenewEvery, or just renewed by a call
\* of at most storeTimeout.
InTime(p) ==
    LET Within(t) == p.age <= leaseRenewEvery + t \/ p.age <= storeTimeout + t IN
    /\ p.pc = "list"  => p.age <= storeTimeout + p.call
    /\ p.pc = "xadd"  => Within(p.call)
    /\ p.pc = "mark"  => Within(publishTimeout + p.call)
    /\ p.pc = "next"  => Within(publishTimeout + storeTimeout)
    /\ p.pc = "renew" => Within(publishTimeout + storeTimeout + p.call)

Bounded(p) == p.pc # "idle" => p.call <= Timeout(p.pc)

\* A replica acting on the lease is its holder, agrees with the lease row on
\* its age, and is in time.
Holds(r) ==
    proc[r].pc \in Owning =>
        lease.holder = r /\ lease.past = proc[r].age /\ InTime(proc[r])

LeaseInv ==
    /\ Punctual
    /\ TypeOK
    /\ \A r \in Replicas : Bounded(proc[r]) /\ Holds(r)

LEMMA TimeoutType == ASSUME NEW p \in Pass PROVE Timeout(p.pc) \in Nat
  BY TimeAssumption DEF Timeout, Pass, Owning

\* In time is before the lease expires.
LEMMA InTimeIsLeased ==
    ASSUME NEW p \in Pass, p.pc \in Owning, Bounded(p), InTime(p)
    PROVE  p.age <= leaseTTL
  BY TimeAssumption, LeaseAssumption DEF Pass, Owning, Bounded, InTime, Timeout

\* While a replica acts on the lease, the upsert refuses every other.
LEMMA OthersRefused ==
    ASSUME LeaseInv, NEW r \in Replicas, NEW s \in Replicas, proc[r].pc \in Owning, r # s
    PROVE  ~Free(s)
<1>1. proc[r] \in Pass /\ proc[s] \in Pass
  BY DEF LeaseInv, TypeOK, Pass
<1>2. lease.holder = r /\ lease.past <= leaseTTL
  BY <1>1, InTimeIsLeased DEF LeaseInv, Holds
<1>3. lease.past \in Nat /\ proc[s].call \in Nat
  BY <1>1 DEF LeaseInv, TypeOK, Pass
<1> QED
  BY <1>2, <1>3, NoOneAssumption, TimeAssumption DEF Free

LEMMA InitLeaseInv == Punctual /\ Init => LeaseInv
  BY InitTypeOK DEF Init, Idle, LeaseInv, Bounded, Holds, Owning

\* A step of replica r leaves every other replica's hold on the lease alone,
\* because it leaves the lease alone while another acts on it.
LEMMA OthersKeepLease ==
    ASSUME LeaseInv, NEW r \in Replicas, Step(r) \/ Crash(r),
           NEW s \in Replicas, s # r
    PROVE  (Bounded(proc[s]) /\ Holds(s))'
<1>1. proc'[s] = proc[s]
  BY DEF LeaseInv, TypeOK, Step, Crash, Drain, AcquireOutboxLease, PendingOutbox, NextRow, XAdd,
         MarkOutboxPublished, ReleaseOutboxLease, Goto, Fail
<1>2. CASE proc[s].pc \notin Owning
  BY <1>1, <1>2 DEF LeaseInv, Bounded, Holds
<1>3. CASE proc[s].pc \in Owning
  <2>1. ~Free(r) /\ lease.holder = s
    BY <1>3, OthersRefused DEF LeaseInv, Holds
  <2>2. lease' = lease
    BY <2>1 DEF Step, Crash, Drain, AcquireOutboxLease, PendingOutbox, NextRow, XAdd,
         MarkOutboxPublished, ReleaseOutboxLease, Goto, Fail
  <2> QED
    BY <1>1, <1>3, <2>2 DEF LeaseInv, Bounded, Holds, InTime
<1> QED
  BY <1>2, <1>3

\* A replica that goes on to a call outside the lease.
LEMMA GotoOutside ==
    ASSUME proc \in [Replicas -> Pass], NEW r \in Replicas, NEW pc \in {"acquire", "release"}, Goto(r, pc)
    PROVE  (Bounded(proc[r]) /\ Holds(r))'
<1>1. proc'[r] = [proc[r] EXCEPT !.pc = pc, !.call = 0]
  BY DEF Goto
<1>2. proc'[r].pc = pc /\ proc'[r].call = 0
  BY <1>1 DEF Pass
<1> QED
  BY <1>2, TimeAssumption DEF Bounded, Holds, Owning, Timeout

\* A replica that goes on to pc under the lease, in time for it.
LEMMA GotoInside ==
    ASSUME LeaseInv, NEW r \in Replicas, NEW pc \in Owning, Goto(r, pc), UNCHANGED lease,
           proc[r].pc \in Owning, InTime([proc[r] EXCEPT !.pc = pc, !.call = 0])
    PROVE  (Bounded(proc[r]) /\ Holds(r))'
<1> DEFINE q == [proc[r] EXCEPT !.pc = pc, !.call = 0]
<1>1. proc[r] \in Pass /\ proc'[r] = q
  BY DEF LeaseInv, TypeOK, Pass, Goto
<1>2. q.pc = pc /\ q.call = 0 /\ q.age = proc[r].age
  BY <1>1 DEF Pass
<1>3. Bounded(q)
  BY <1>2, TimeAssumption DEF Bounded, Timeout, Owning
<1>4. lease'.holder = r /\ lease'.past = q.age
  BY <1>2 DEF LeaseInv, Holds
<1> HIDE DEF q
<1>5. Bounded(proc'[r]) /\ InTime(proc'[r])
  BY <1>1, <1>3 DEF q
<1> QED
  BY <1>1, <1>4, <1>5 DEF Holds, Bounded, InTime

\* A step of replica r keeps its own hold on the lease, or ends it.
LEMMA OwnStepKeepsLease ==
    ASSUME LeaseInv, NEW r \in Replicas, Step(r) \/ Crash(r)
    PROVE  (Bounded(proc[r]) /\ Holds(r))'
<1>p. proc \in [Replicas -> Pass] /\ proc[r] \in Pass
  BY DEF LeaseInv, TypeOK, Pass
<1>b. Bounded(proc[r]) /\ Holds(r)
  BY DEF LeaseInv
<1>t. proc[r].age \in Nat /\ proc[r].call \in Nat /\ leaseRenewEvery \in Nat
      /\ storeTimeout \in Nat /\ publishTimeout \in Nat
  BY <1>p, TimeAssumption DEF Pass
<1>f. ASSUME Fail(r) PROVE (Bounded(proc[r]) /\ Holds(r))'
  BY <1>f, <1>p, GotoOutside DEF Fail
<1>i. ASSUME proc' = [proc EXCEPT ![r] = Idle] PROVE (Bounded(proc[r]) /\ Holds(r))'
  BY <1>i, <1>p DEF Idle, Bounded, Holds, Owning
<1>1. CASE Drain(r)
  BY <1>1, <1>p, GotoOutside DEF Drain
<1>2. CASE AcquireOutboxLease(r)
  <2> DEFINE q == [proc[r] EXCEPT !.pc = IF proc[r].pc = "acquire" THEN "list" ELSE "xadd",
                                  !.call = 0, !.age = proc[r].call]
  <2>1. CASE proc' = [proc EXCEPT ![r] = q] /\ lease' = [holder |-> r, past |-> proc[r].call]
    <3>1. proc'[r] = q
      BY <2>1, <1>p
    <3>2. /\ q.pc = (IF proc[r].pc = "acquire" THEN "list" ELSE "xadd")
          /\ q.call = 0 /\ q.age = proc[r].call
      BY <1>p DEF Pass
    <3>3. proc[r].call <= storeTimeout
      BY <1>2, <1>b DEF AcquireOutboxLease, Bounded, Timeout
    <3> HIDE DEF q
    <3>4. Bounded(q) /\ InTime(q)
      BY <3>2, <3>3, <1>t DEF Bounded, InTime, Timeout
    <3> QED
      BY <2>1, <3>1, <3>2, <3>4 DEF Bounded, Holds, InTime
  <2>2. CASE Goto(r, "release")
    BY <2>2, <1>p, GotoOutside
  <2> QED
    BY <1>2, <2>1, <2>2, <1>f DEF AcquireOutboxLease
<1>3. CASE PendingOutbox(r)
  <2> DEFINE b == Listed({i \in Ids : row[i] = "pending"})
  <2> DEFINE q == [proc[r] EXCEPT !.pc = IF b = {} THEN "release" ELSE "next",
                                  !.batch = b, !.full = Cardinality(b) = batchSize, !.call = 0]
  <2>1. CASE proc' = [proc EXCEPT ![r] = q]
    <3>1. proc'[r] = q /\ lease' = lease
      BY <1>3, <2>1, <1>p DEF PendingOutbox
    <3>2. q.pc \in {"release", "next"} /\ q.call = 0 /\ q.age = proc[r].age
      BY <1>p DEF Pass
    <3>3. lease.holder = r /\ lease.past = proc[r].age /\ proc[r].age <= 2 * storeTimeout
      <4>1. proc[r].pc = "list"
        BY <1>3 DEF PendingOutbox
      <4>2. lease.holder = r /\ lease.past = proc[r].age /\ proc[r].age <= storeTimeout + proc[r].call
        BY <4>1, <1>b DEF Holds, InTime, Owning
      <4>3. proc[r].call <= storeTimeout
        BY <4>1, <1>b DEF Bounded, Timeout
      <4> QED
        BY <4>2, <4>3, <1>t
    <3> HIDE DEF q
    <3>4. Bounded(q) /\ InTime(q)
      BY <3>2, <3>3, <1>t DEF Bounded, InTime, Timeout
    <3> QED
      BY <3>1, <3>2, <3>3, <3>4 DEF Bounded, Holds, InTime
  <2> QED
    BY <1>3, <2>1, <1>f DEF PendingOutbox
<1>4. CASE NextRow(r)
  <2>1. CASE Goto(r, "acquire") \/ Goto(r, "release")
    BY <2>1, <1>p, GotoOutside
  <2>2. CASE Goto(r, "xadd") /\ proc[r].age < leaseRenewEvery
    <3>1. InTime([proc[r] EXCEPT !.pc = "xadd", !.call = 0])
      BY <2>2, <1>p, <1>t DEF InTime, Pass
    <3> QED
      BY <1>4, <2>2, <3>1, GotoInside DEF NextRow, Owning
  <2>3. CASE Goto(r, "renew")
    <3>1. InTime([proc[r] EXCEPT !.pc = "renew", !.call = 0])
      BY <1>4, <1>p, <1>t, <1>b DEF NextRow, Holds, Owning, InTime, Pass
    <3> QED
      BY <1>4, <2>3, <3>1, GotoInside DEF NextRow, Owning
  <2> QED
    BY <1>4, <1>p, NextRowCases, <2>1, <2>2, <2>3
<1>5. CASE XAdd(r)
  <2>1. CASE Goto(r, "mark")
    <3> DEFINE q == [proc[r] EXCEPT !.pc = "mark", !.call = 0]
    <3>1. q.pc = "mark" /\ q.call = 0 /\ q.age = proc[r].age
      BY <1>p DEF Pass
    <3>2. \/ proc[r].age <= leaseRenewEvery + publishTimeout
          \/ proc[r].age <= storeTimeout + publishTimeout
      BY <1>5, <1>b, <1>t DEF XAdd, Holds, Bounded, Timeout, Owning, InTime
    <3> HIDE DEF q
    <3>3. InTime(q)
      BY <3>1, <3>2, <1>t DEF InTime
    <3> QED
      BY <1>5, <2>1, <3>3, GotoInside DEF XAdd, Owning, q
  <2> QED
    BY <1>5, <2>1, <1>f DEF XAdd
<1>6. CASE MarkOutboxPublished(r)
  <2>1. CASE \E i \in Ids : proc' = [proc EXCEPT ![r] = Done(proc[r], i)]
    <3>1. PICK i \in Ids : proc' = [proc EXCEPT ![r] = Done(proc[r], i)]
      BY <2>1
    <3> DEFINE q == Done(proc[r], i)
    <3>2. proc'[r] = q /\ lease' = lease
      BY <1>6, <3>1, <1>p DEF MarkOutboxPublished
    <3>3. q.pc = "next" /\ q.call = 0 /\ q.age = proc[r].age
      BY <1>p DEF Pass, Done
    <3>4. /\ lease.holder = r /\ lease.past = proc[r].age
          /\ \/ proc[r].age <= leaseRenewEvery + publishTimeout + storeTimeout
             \/ proc[r].age <= storeTimeout + publishTimeout + storeTimeout
      BY <1>6, <1>b, <1>t DEF MarkOutboxPublished, Bounded, Holds, InTime, Timeout, Owning
    <3> HIDE DEF q
    <3>5. Bounded(q) /\ InTime(q)
      BY <3>3, <3>4, <1>t DEF Bounded, InTime, Timeout
    <3> QED
      BY <3>2, <3>3, <3>4, <3>5 DEF Bounded, Holds, InTime
  <2> QED
    BY <1>6, <2>1, <1>f DEF MarkOutboxPublished
<1> QED
  BY <1>1, <1>2, <1>3, <1>4, <1>5, <1>6, <1>i DEF Step, Crash, ReleaseOutboxLease

\* Time passes for the replica and for the lease row alike.
LEMMA TickKeepsLease ==
    ASSUME LeaseInv, Tick, NEW r \in Replicas
    PROVE  (Bounded(proc[r]) /\ Holds(r))'
<1> DEFINE p == proc[r]
<1>p. p \in Pass /\ Bounded(p) /\ Holds(r) /\ proc'[r] = Aged(p)
  BY DEF LeaseInv, TypeOK, Pass, Tick
<1>1. CASE p.pc = "idle"
  BY <1>1, <1>p DEF Aged, Bounded, Holds, Owning
<1>2. CASE p.pc # "idle"
  <2>1. p.call < Timeout(p.pc) /\ Timeout(p.pc) \in Nat /\ p.call \in Nat /\ p.age \in Nat
    BY <1>2, <1>p, TimeoutType DEF LeaseInv, Tick, Pass
  <2>2. Timeout(p.pc) <= leaseTTL
    BY <1>p, <1>2, TimeAssumption, LeaseAssumption DEF Timeout, Pass, Owning
  <2>3. Later(p.call) = p.call + 1
    BY <2>1, <2>2, TimeAssumption, LaterCounts
  <2>4. proc'[r].pc = p.pc /\ proc'[r].call = p.call + 1 /\ proc'[r].age = Later(p.age)
    BY <1>2, <1>p, <2>3 DEF Aged, Pass
  <2>5. Bounded(proc'[r])
    BY <2>1, <2>4 DEF Bounded
  <2>6. CASE p.pc \in Owning
    <3>1. p.age <= leaseTTL /\ lease.holder = r /\ lease.past = p.age /\ InTime(p)
      BY <1>p, <2>6, InTimeIsLeased DEF Holds
    <3>2. Later(p.age) = p.age + 1
      BY <2>1, <3>1, LaterCounts
    <3>3. lease'.holder = r /\ lease'.past = p.age + 1
      BY <3>1, <3>2, NoOneAssumption DEF LeaseInv, TypeOK, Tick
    <3> HIDE DEF p
    <3>4. p.pc # "next"
      BY <2>1 DEF Timeout
    <3>5. InTime(proc'[r])
      BY <2>1, <2>4, <3>1, <3>2, <3>4, TimeAssumption DEF InTime
    <3> QED
      BY <2>4, <2>5, <3>2, <3>3, <3>5 DEF Bounded, Holds, InTime
  <2>7. CASE p.pc \notin Owning
    BY <2>4, <2>5, <2>7 DEF Bounded, Holds
  <2> QED
    BY <2>6, <2>7
<1> QED
  BY <1>1, <1>2

LEMMA NextLeaseInv == LeaseInv /\ [Next]_vars => LeaseInv'
<1> SUFFICES ASSUME LeaseInv, [Next]_vars PROVE LeaseInv'
  OBVIOUS
<1>1. TypeOK' /\ Punctual
  BY NextTypeOK DEF LeaseInv
<1>2. ASSUME NEW s \in Replicas PROVE (Bounded(proc[s]) /\ Holds(s))'
  <2>1. CASE \E r \in Replicas : Step(r) \/ Crash(r)
    BY <2>1, OthersKeepLease, OwnStepKeepsLease
  <2>2. CASE Tick
    BY <2>2, TickKeepsLease
  <2>3. CASE UNCHANGED <<lease, proc>>
    BY <2>3 DEF LeaseInv, Bounded, Holds, InTime
  <2> QED
    BY <2>1, <2>2, <2>3 DEF Next, vars, insertOutboxTx, EndTx, PurgePublishedOutbox
<1> QED
  BY <1>1, <1>2 DEF LeaseInv

\* While calls end within their timeouts, no two replicas publish at the same
\* time: the renewals of relay.go keep the lease row younger than leaseTTL
\* for as long as a pass acts on it.
THEOREM LeaseExcludes == Punctual /\ Spec => []OnePublisher
<1>1. LeaseInv => OnePublisher
  BY DEF LeaseInv, Holds, OnePublisher
<1> QED
  BY <1>1, InitLeaseInv, NextLeaseInv, PTL DEF Spec

\* Every variable keeps its type.
THEOREM RelayTypes == Spec => []TypeOK
  BY InitTypeOK, NextTypeOK, PTL DEF Spec

-----------------------------------------------------------------------------
(* Order and loss.  Neither rests on the lease or on Punctual. *)

\* Ids are drawn in order.
Drawn == \A i, j \in Ids : i < j /\ row[j] # "none" => row[i] # "none"

\* A pass works on committed rows, and marks a row it has sent.
Batches ==
    \A r \in Replicas :
        /\ \A i \in proc[r].batch : row[i] \in Committed
        /\ proc[r].pc = "mark" => \A i \in Ids : First(proc[r].batch, i) => InStream(i)

\* What was committed before j was drawn has a lower id, and is either ahead
\* of j in the batch that holds j, or sent.
Ahead ==
    \A i, j \in Ids : <<i, j>> \in earlier =>
        /\ i < j /\ row[i] \in Committed /\ row[j] # "none"
        /\ \A r \in Replicas : j \in proc[r].batch => i \in proc[r].batch \/ InStream(i)

InOrder ==
    \A i, j \in Ids : <<i, j>> \in earlier =>
        \A k \in DOMAIN stream : stream[k] = j => \E m \in 1 .. k : stream[m] = i

OrderInv == TypeOK /\ Drawn /\ PublishedMeansSent /\ Batches /\ Ahead /\ InOrder

LEMMA InitOrderInv == Init => OrderInv
<1> SUFFICES ASSUME Init PROVE OrderInv
  OBVIOUS
<1>1. DOMAIN stream = {} /\ earlier = {} /\ \A i \in Ids : row[i] = "none"
  BY DEF Init
<1>2. \A r \in Replicas : proc[r].batch = {} /\ proc[r].pc = "idle"
  BY DEF Init, Idle
<1> QED
  BY <1>1, <1>2, InitTypeOK DEF OrderInv, Drawn, PublishedMeansSent, Batches, Ahead, InOrder, InStream

\* A step that neither writes a row nor the stream, and in which a pass keeps
\* its batch without reaching "mark", or drops it.
LEMMA QuietStep ==
    ASSUME OrderInv, TypeOK', UNCHANGED <<row, stream, earlier>>,
           \A r \in Replicas :
               \/ proc'[r].batch = proc[r].batch /\ proc'[r].pc \in {proc[r].pc, "acquire", "release", "xadd", "renew", "list"}
               \/ proc'[r].batch = {}
    PROVE  OrderInv'
<1>1. Drawn' /\ PublishedMeansSent' /\ InOrder'
  BY DEF OrderInv, Drawn, PublishedMeansSent, InOrder, InStream
<1>2. ASSUME NEW r \in Replicas
      PROVE  /\ \A i \in proc'[r].batch : row[i] \in Committed
             /\ proc'[r].pc = "mark" => \A i \in Ids : First(proc'[r].batch, i) => InStream(i)
             /\ \A i, j \in Ids : <<i, j>> \in earlier =>
                    (j \in proc'[r].batch => i \in proc'[r].batch \/ InStream(i))
  <2>1. CASE proc'[r].batch = {}
    BY <2>1 DEF First
  <2>2. CASE proc'[r].batch = proc[r].batch /\ (proc'[r].pc = "mark" => proc[r].pc = "mark")
    BY <2>2 DEF OrderInv, Batches, Ahead
  <2> QED
    BY <2>1, <2>2
<1>3. Batches'
  BY <1>2 DEF Batches, InStream
<1>4. Ahead'
  BY <1>2 DEF OrderInv, Ahead, InStream
<1> QED
  BY <1>1, <1>3, <1>4 DEF OrderInv

\* A step of the ingest side or of the purge, which keeps a committed row
\* committed and never takes an id back.
LEMMA RowStep ==
    ASSUME OrderInv, UNCHANGED <<stream, proc>>,
           \A i \in Ids : row[i] \in Committed => row'[i] \in Committed
    PROVE  Batches' /\ \A i \in Ids : InStream(i) => row'[i] \in Committed
<1>1. \A r \in Replicas : proc[r].batch \subseteq Ids
  BY DEF OrderInv, TypeOK
<1> QED
  BY <1>1 DEF OrderInv, Batches, PublishedMeansSent, InStream

LEMMA InsertKeepsOrder ==
    ASSUME OrderInv, TypeOK', NEW j \in Ids, insertOutboxTx(j)
    PROVE  OrderInv'
<1>1. /\ UNCHANGED <<stream, proc>> /\ row[j] = "none" /\ row'[j] = "open"
      /\ \A i \in Ids : i # j => row'[i] = row[i]
      /\ \A i \in Ids : i < j => row[i] # "none"
  BY DEF OrderInv, TypeOK, insertOutboxTx
<1>2. \A a, b \in Ids : <<a, b>> \in earlier' <=> <<a, b>> \in earlier \/ (b = j /\ row[a] \in Committed)
  BY DEF insertOutboxTx
<1>3. Batches' /\ \A i \in Ids : InStream(i) => row'[i] \in Committed
  BY <1>1, RowStep DEF Committed
<1>4. PublishedMeansSent'
  BY <1>1, <1>3 DEF OrderInv, PublishedMeansSent, InStream
<1>5. Drawn'
  BY <1>1 DEF OrderInv, Drawn, Ids
<1>6. ~InStream(j) /\ \A r \in Replicas : j \notin proc[r].batch
  BY <1>1 DEF OrderInv, PublishedMeansSent, Batches, Committed
<1>7. \A a \in Ids : row[a] \in Committed => a < j
  BY <1>1 DEF OrderInv, Drawn, Ids, Committed
<1>8. Ahead'
  BY <1>1, <1>2, <1>6, <1>7 DEF OrderInv, Ahead, InStream, Committed
<1>9. InOrder'
  BY <1>1, <1>2, <1>6 DEF OrderInv, InOrder, InStream
<1> QED
  BY <1>3, <1>4, <1>5, <1>8, <1>9 DEF OrderInv

LEMMA EndTxKeepsOrder ==
    ASSUME OrderInv, TypeOK', NEW j \in Ids, EndTx(j)
    PROVE  OrderInv'
<1>1. /\ UNCHANGED <<stream, proc, earlier>> /\ row[j] = "open" /\ row'[j] \in {"pending", "aborted"}
      /\ \A i \in Ids : i # j => row'[i] = row[i]
  BY DEF OrderInv, TypeOK, EndTx
<1>2. Batches' /\ \A i \in Ids : InStream(i) => row'[i] \in Committed
  BY <1>1, RowStep DEF Committed
<1>3. PublishedMeansSent'
  BY <1>1, <1>2 DEF OrderInv, PublishedMeansSent, InStream
<1>4. Drawn'
  BY <1>1 DEF OrderInv, Drawn
<1>5. Ahead' /\ InOrder'
  BY <1>1 DEF OrderInv, Ahead, InOrder, InStream, Committed
<1> QED
  BY <1>2, <1>3, <1>4, <1>5 DEF OrderInv

LEMMA PurgeKeepsOrder ==
    ASSUME OrderInv, TypeOK', NEW j \in Ids, PurgePublishedOutbox(j)
    PROVE  OrderInv'
<1>1. /\ UNCHANGED <<stream, proc, earlier>> /\ row[j] = "published" /\ row'[j] = "purged"
      /\ \A i \in Ids : i # j => row'[i] = row[i]
  BY DEF OrderInv, TypeOK, PurgePublishedOutbox
<1>2. Batches' /\ \A i \in Ids : InStream(i) => row'[i] \in Committed
  BY <1>1, RowStep DEF Committed
<1>3. PublishedMeansSent'
  BY <1>1, <1>2 DEF OrderInv, PublishedMeansSent, InStream
<1>4. Drawn'
  BY <1>1 DEF OrderInv, Drawn
<1>5. Ahead' /\ InOrder'
  BY <1>1 DEF OrderInv, Ahead, InOrder, InStream, Committed
<1> QED
  BY <1>2, <1>3, <1>4, <1>5 DEF OrderInv

\* From here on rows and copies are counted.
INSTANCE FiniteSetTheorems

\* A batch holds every unpublished row below one that it holds.
LEMMA ListedBelow ==
    ASSUME NEW S \in SUBSET Ids, NEW i \in S, NEW j \in Listed(S), i < j
    PROVE  i \in Listed(S)
<1> DEFINE Upto(x) == {y \in S : y <= x}
<1>1. Upto(i) \subseteq Upto(j)
  <2>1. i \in Int /\ j \in Int /\ \A y \in S : y \in Int
    BY DEF Ids, Listed
  <2>2. ASSUME NEW y \in S, y <= i PROVE y <= j
    BY <2>1, <2>2
  <2> QED
    BY <2>2
<1>2. IsFiniteSet(Ids)
  BY SizeAssumption, FS_Interval DEF Ids
<1>3. Upto(j) \in SUBSET Ids
  OBVIOUS
<1>4. IsFiniteSet(Upto(j))
  BY <1>2, <1>3, FS_Subset
<1>5. Cardinality(Upto(i)) <= Cardinality(Upto(j)) /\ IsFiniteSet(Upto(i))
  BY <1>1, <1>4, FS_Subset
<1>6. Cardinality(Upto(i)) \in Nat /\ Cardinality(Upto(j)) \in Nat
  BY <1>4, <1>5, FS_CardinalityType
<1>7. Cardinality(Upto(j)) <= batchSize
  BY DEF Listed
<1>8. Cardinality(Upto(i)) <= batchSize
  BY <1>5, <1>6, <1>7, SizeAssumption
<1> QED
  BY <1>8 DEF Listed

LEMMA ListKeepsOrder ==
    ASSUME OrderInv, TypeOK', NEW r \in Replicas, PendingOutbox(r)
    PROVE  OrderInv'
<1> DEFINE S == {i \in Ids : row[i] = "pending"}
<1>p. proc \in [Replicas -> Pass]
  BY DEF OrderInv, TypeOK, Pass
<1>u. UNCHANGED <<row, stream, earlier>> /\ proc[r].pc = "list"
  BY DEF PendingOutbox
<1>1. CASE Fail(r)
  <2>1. \A x \in Replicas : proc'[x].batch = proc[x].batch /\ proc'[x].pc \in {proc[x].pc, "release"}
    BY <1>1, <1>p DEF Fail, Goto, Pass
  <2> QED
    BY <2>1, <1>u, QuietStep
<1>2. CASE ~Fail(r)
  <2>1. \A x \in Replicas : x # r => proc'[x] = proc[x]
    BY <1>2, <1>p DEF PendingOutbox
  <2>2. proc'[r].batch = Listed(S) /\ proc'[r].pc # "mark"
    <3> DEFINE q == [proc[r] EXCEPT !.pc = IF Listed(S) = {} THEN "release" ELSE "next",
                                    !.batch = Listed(S), !.full = Cardinality(Listed(S)) = batchSize,
                                    !.call = 0]
    <3>1. proc' = [proc EXCEPT ![r] = q]
      BY <1>2 DEF PendingOutbox
    <3>2. q.batch = Listed(S) /\ q.pc # "mark"
      BY <1>p DEF Pass
    <3> HIDE DEF q
    <3> QED
      BY <1>p, <3>1, <3>2
  <2>3. Drawn' /\ PublishedMeansSent' /\ InOrder'
    BY <1>u DEF OrderInv, Drawn, PublishedMeansSent, InOrder, InStream
  <2>4. Batches'
    BY <1>u, <2>1, <2>2 DEF OrderInv, Batches, InStream, Listed, Committed
  <2>5. ASSUME NEW i \in Ids, NEW j \in Ids, <<i, j>> \in earlier, j \in Listed(S)
        PROVE  i \in Listed(S) \/ InStream(i)
    <3>1. i < j /\ row[i] \in Committed
      BY <2>5 DEF OrderInv, Ahead
    <3>2. CASE row[i] = "pending"
      BY <2>5, <3>1, <3>2, ListedBelow
    <3>3. CASE row[i] # "pending"
      BY <3>1, <3>3 DEF OrderInv, PublishedMeansSent, Committed
    <3> QED
      BY <3>2, <3>3
  <2>6. Ahead'
    BY <1>u, <2>1, <2>2, <2>5 DEF OrderInv, Ahead, InStream
  <2> QED
    BY <2>3, <2>4, <2>6 DEF OrderInv
<1> QED
  BY <1>1, <1>2

\* What is on the stream after an append.
LEMMA AppendFacts ==
    ASSUME stream \in Seq(Ids), NEW i \in Ids, stream' = Append(stream, i)
    PROVE  /\ DOMAIN stream \subseteq DOMAIN stream' /\ DOMAIN stream \subseteq Nat
           /\ \A k \in DOMAIN stream : stream'[k] = stream[k] /\ k <= Len(stream)
           /\ \A k \in DOMAIN stream' : k \in DOMAIN stream \/ (k = Len(stream) + 1 /\ stream'[k] = i)
           /\ \A x \in Ids : InStream(x)' <=> InStream(x) \/ x = i
<1>1. /\ DOMAIN stream \subseteq DOMAIN stream' /\ DOMAIN stream \subseteq Nat
      /\ \A k \in DOMAIN stream : stream'[k] = stream[k] /\ k <= Len(stream)
      /\ \A k \in DOMAIN stream' : k \in DOMAIN stream \/ (k = Len(stream) + 1 /\ stream'[k] = i)
      /\ Len(stream) + 1 \in DOMAIN stream' /\ stream'[Len(stream) + 1] = i
  OBVIOUS
<1>2. ASSUME NEW x \in Ids, InStream(x) PROVE InStream(x)'
  BY <1>1, <1>2 DEF InStream
<1>3. InStream(i)'
  BY <1>1 DEF InStream
<1>4. ASSUME NEW x \in Ids, InStream(x)' PROVE InStream(x) \/ x = i
  <2>1. PICK k \in DOMAIN stream' : stream'[k] = x
    BY <1>4 DEF InStream
  <2> QED
    BY <1>1, <2>1 DEF InStream
<1> QED
  BY <1>1, <1>2, <1>3, <1>4

\* Appending the first row of a batch: what had to come before it was ahead of
\* it in the batch, so it is sent already.
LEMMA AppendKeepsOrder ==
    ASSUME OrderInv, TypeOK', NEW r \in Replicas, NEW i \in Ids, First(proc[r].batch, i),
           stream' = Append(stream, i), UNCHANGED <<row, earlier>>,
           \A x \in Replicas : proc'[x].batch = proc[x].batch
                               /\ (x # r => proc'[x].pc = proc[x].pc)
    PROVE  OrderInv'
<1>s. stream \in Seq(Ids) /\ Len(stream) \in Nat
  BY DEF OrderInv, TypeOK
<1>1. i \in proc[r].batch /\ row[i] \in Committed
  BY DEF First, OrderInv, Batches
<1>2. Drawn' /\ PublishedMeansSent'
  BY <1>s, <1>1, AppendFacts DEF OrderInv, Drawn, PublishedMeansSent
<1>3. \A x \in Ids : First(proc[r].batch, x) => x = i
  BY DEF First, Ids
<1>4. Batches'
  BY <1>s, <1>3, AppendFacts DEF OrderInv, Batches, First
<1>5. Ahead'
  BY <1>s, AppendFacts DEF OrderInv, Ahead
<1>6. ASSUME NEW a \in Ids, <<a, i>> \in earlier PROVE InStream(a)
  <2>1. a < i /\ (a \in proc[r].batch \/ InStream(a))
    BY <1>1, <1>6 DEF OrderInv, Ahead
  <2>2. a \notin proc[r].batch
    BY <2>1 DEF First, Ids
  <2> QED
    BY <2>1, <2>2
<1>7. ASSUME NEW a \in Ids, NEW b \in Ids, <<a, b>> \in earlier, NEW k \in DOMAIN stream', stream'[k] = b
      PROVE  \E m \in 1 .. k : stream'[m] = a
  <2>1. CASE k \in DOMAIN stream
    <3>1. PICK m \in 1 .. k : stream[m] = a
      BY <1>7, <2>1, <1>s, AppendFacts DEF OrderInv, InOrder
    <3> QED
      BY <3>1, <2>1, <1>s
  <2>2. CASE k = Len(stream) + 1 /\ b = i
    <3>1. PICK m \in DOMAIN stream : stream[m] = a
      BY <1>6, <1>7, <2>2 DEF InStream
    <3> QED
      BY <3>1, <2>2, <1>s
  <2> QED
    <3>1. k \in DOMAIN stream \/ (k = Len(stream) + 1 /\ stream'[k] = i)
      BY <1>s, AppendFacts
    <3> QED
      BY <1>7, <2>1, <2>2, <3>1
<1>8. InOrder'
  BY <1>7 DEF InOrder
<1> QED
  BY <1>2, <1>4, <1>5, <1>8 DEF OrderInv

\* Marking the first row of a batch, which is on the stream.
LEMMA MarkKeepsOrder ==
    ASSUME OrderInv, TypeOK', NEW r \in Replicas, NEW i \in Ids, First(proc[r].batch, i),
           proc[r].pc = "mark", row' = [row EXCEPT ![i] = "published"], UNCHANGED <<stream, earlier>>,
           proc'[r].batch \in {proc[r].batch, proc[r].batch \ {i}}, proc'[r].pc # "mark",
           \A x \in Replicas : x # r => proc'[x] = proc[x]
    PROVE  OrderInv'
<1>1. InStream(i) /\ row[i] \in Committed
  BY DEF OrderInv, Batches, First
<1>2. row'[i] = "published" /\ \A x \in Ids : x # i => row'[x] = row[x]
  BY DEF OrderInv, TypeOK
<1>3. \A x \in Replicas : proc'[x].batch \subseteq proc[x].batch /\ proc[x].batch \subseteq Ids
  BY DEF OrderInv, TypeOK
<1>4. Drawn' /\ PublishedMeansSent'
  BY <1>1, <1>2 DEF OrderInv, Drawn, PublishedMeansSent, InStream, Committed
<1>5. Batches'
  BY <1>1, <1>2, <1>3 DEF OrderInv, Batches, InStream, Committed, First
<1>6. Ahead' /\ InOrder'
  BY <1>1, <1>2 DEF OrderInv, Ahead, InOrder, InStream, Committed
<1> QED
  BY <1>4, <1>5, <1>6 DEF OrderInv

LEMMA NextOrderInv == OrderInv /\ [Next]_vars => OrderInv'
<1> SUFFICES ASSUME OrderInv, [Next]_vars PROVE OrderInv'
  OBVIOUS
<1>t. TypeOK'
  BY NextTypeOK DEF OrderInv
<1>p. proc \in [Replicas -> Pass]
  BY DEF OrderInv, TypeOK, Pass
<1>q. ASSUME UNCHANGED <<row, stream, earlier>>, NEW r \in Replicas,
             \A x \in Replicas : x # r => proc'[x] = proc[x],
             \/ \E pc \in {"acquire", "release", "xadd", "renew"} : Goto(r, pc)
             \/ proc'[r].batch = {}
             \/ proc'[r].batch = proc[r].batch /\ proc'[r].pc \in {"list", "xadd"}
      PROVE  OrderInv'
  <2>1. \A x \in Replicas :
            \/ proc'[x].batch = proc[x].batch /\ proc'[x].pc \in {proc[x].pc, "acquire", "release", "xadd", "renew", "list"}
            \/ proc'[x].batch = {}
    BY <1>q, <1>p DEF Goto, Pass
  <2> QED
    BY <1>q, <1>t, <2>1, QuietStep
<1>1. ASSUME NEW j \in Ids, insertOutboxTx(j) \/ EndTx(j) \/ PurgePublishedOutbox(j) PROVE OrderInv'
  BY <1>1, <1>t, InsertKeepsOrder, EndTxKeepsOrder, PurgeKeepsOrder
<1>2. ASSUME NEW r \in Replicas, Drain(r) \/ NextRow(r) PROVE OrderInv'
  <2>1. \E pc \in {"acquire", "release", "xadd", "renew"} : Goto(r, pc)
    BY <1>2, <1>p, NextRowCases DEF Drain
  <2> QED
    BY <1>2, <2>1, <1>p, <1>q DEF Drain, NextRow, Goto
<1>3. ASSUME NEW r \in Replicas, AcquireOutboxLease(r) PROVE OrderInv'
  <2>1. CASE Goto(r, "release")
    BY <1>3, <2>1, <1>p, <1>q DEF AcquireOutboxLease, Goto
  <2>2. CASE ~Goto(r, "release")
    <3>1. /\ proc'[r].batch = proc[r].batch /\ proc'[r].pc \in {"list", "xadd"}
          /\ \A x \in Replicas : x # r => proc'[x] = proc[x]
      BY <1>3, <2>2, <1>p DEF AcquireOutboxLease, Fail, Pass
    <3> QED
      BY <1>3, <3>1, <1>q DEF AcquireOutboxLease
  <2> QED
    BY <2>1, <2>2
<1>4. ASSUME NEW r \in Replicas, PendingOutbox(r) PROVE OrderInv'
  BY <1>4, <1>t, ListKeepsOrder
<1>5. ASSUME NEW r \in Replicas, XAdd(r) PROVE OrderInv'
  <2>1. PICK i \in Ids : /\ First(proc[r].batch, i)
                         /\ \/ stream' = Append(stream, i)
                            \/ Goto(r, "release") /\ UNCHANGED stream
                         /\ Goto(r, "mark") \/ Goto(r, "release")
    BY <1>5 DEF XAdd, Fail
  <2>2. CASE Goto(r, "release") /\ UNCHANGED stream
    BY <1>5, <2>2, <1>p, <1>q DEF XAdd, Goto
  <2>3. CASE stream' = Append(stream, i)
    <3>1. \A x \in Replicas : proc'[x].batch = proc[x].batch /\ (x # r => proc'[x].pc = proc[x].pc)
      BY <2>1, <1>p DEF Goto, Pass
    <3> QED
      BY <1>5, <2>1, <2>3, <3>1, <1>t, AppendKeepsOrder DEF XAdd
  <2> QED
    BY <2>1, <2>2, <2>3
<1>6. ASSUME NEW r \in Replicas, MarkOutboxPublished(r) PROVE OrderInv'
  <2>1. PICK i \in Ids : /\ First(proc[r].batch, i)
                         /\ \/ row' = [row EXCEPT ![i] = "published"]
                            \/ Goto(r, "release") /\ UNCHANGED row
                         /\ proc' = [proc EXCEPT ![r] = Done(proc[r], i)] \/ Goto(r, "release")
    BY <1>6 DEF MarkOutboxPublished, Fail
  <2>2. CASE Goto(r, "release") /\ UNCHANGED row
    BY <1>6, <2>2, <1>p, <1>q DEF MarkOutboxPublished, Goto
  <2>3. CASE row' = [row EXCEPT ![i] = "published"]
    <3>1. /\ proc'[r].batch \in {proc[r].batch, proc[r].batch \ {i}} /\ proc'[r].pc # "mark"
          /\ \A x \in Replicas : x # r => proc'[x] = proc[x]
      <4>1. CASE proc' = [proc EXCEPT ![r] = Done(proc[r], i)]
        BY <4>1, <1>p DEF Done, Pass
      <4>2. CASE Goto(r, "release")
        BY <4>2, <1>p DEF Goto, Pass
      <4> QED
        BY <2>1, <4>1, <4>2
    <3>2. proc[r].pc = "mark" /\ UNCHANGED <<stream, earlier>>
      BY <1>6 DEF MarkOutboxPublished
    <3> QED
      BY <2>1, <2>3, <3>1, <3>2, <1>t, MarkKeepsOrder
  <2> QED
    BY <2>1, <2>2, <2>3
<1>7. ASSUME NEW r \in Replicas, ReleaseOutboxLease(r) \/ Crash(r) PROVE OrderInv'
  <2>1. proc'[r].batch = {} /\ \A x \in Replicas : x # r => proc'[x] = proc[x]
    BY <1>7, <1>p DEF ReleaseOutboxLease, Crash, Idle
  <2> QED
    BY <1>7, <2>1, <1>q DEF ReleaseOutboxLease, Crash
<1>8. CASE Tick
  <2>1. \A x \in Replicas : proc'[x].batch = proc[x].batch /\ proc'[x].pc = proc[x].pc
    BY <1>8, <1>p DEF Tick, Aged, Pass
  <2> QED
    BY <1>8, <1>t, <2>1, QuietStep DEF Tick
<1>9. CASE UNCHANGED vars
  BY <1>9, <1>t, QuietStep DEF vars
<1> QED
  BY <1>1, <1>2, <1>3, <1>4, <1>5, <1>6, <1>7, <1>8, <1>9 DEF Next, Step

\* A row marked published is on the stream, and nothing that was not
\* committed is, for any number of replicas that list, publish and mark at
\* the same time.
THEOREM NothingMarkedUnsent == Spec => []PublishedMeansSent
  BY InitOrderInv, NextOrderInv, PTL DEF Spec, OrderInv

\* Drain publishes in commit order even where passes overlap: the pass that
\* sends a row has sent, or seen marked as sent, all that was committed
\* before the row was written.
THEOREM PublishedInOrder == Spec => []FirstPublishedInOrder
<1>1. OrderInv => FirstPublishedInOrder
  <2> SUFFICES ASSUME OrderInv, NEW p \in earlier PROVE
        \A k \in DOMAIN stream : stream[k] = p[2] => \E m \in 1 .. k : stream[m] = p[1]
    BY DEF FirstPublishedInOrder
  <2>1. p = <<p[1], p[2]>> /\ p[1] \in Ids /\ p[2] \in Ids
    BY DEF OrderInv, TypeOK
  <2> QED
    BY <2>1 DEF OrderInv, InOrder
<1> QED
  BY <1>1, InitOrderInv, NextOrderInv, PTL DEF Spec

\* Both together: the stream is a faithful account of the outbox.
THEOREM StreamStaysFaithful == Spec => []StreamIsFaithful
  BY NothingMarkedUnsent, PublishedInOrder, PTL DEF StreamIsFaithful

-----------------------------------------------------------------------------
(* Copies.  A pass that has the lease finds its rows unpublished, so every   *)
(* copy of a row but the last has used up a failure.                         *)

Marking(i) == \E r \in Replicas : proc[r].pc = "mark" /\ First(proc[r].batch, i)
Settled(i) == row[i] \in {"published", "purged"} \/ Marking(i)

\* What the pass under way has still to send, nobody has marked.
Fresh ==
    \A r \in Replicas : proc[r].pc \in {"next", "renew", "xadd", "mark"} =>
        \A i \in proc[r].batch : row[i] = "pending"

Counted == \A i \in Ids : Copies(i) <= faults + (IF Settled(i) THEN 1 ELSE 0)

CopyInv == LeaseInv /\ Fresh /\ Counted

LEMMA CopiesType ==
    ASSUME TypeOK, NEW i
    PROVE  IsFiniteSet({k \in DOMAIN stream : stream[k] = i}) /\ Copies(i) \in Nat
<1>1. stream \in Seq(Ids) /\ DOMAIN stream = 1 .. Len(stream) /\ Len(stream) \in Nat
  BY DEF TypeOK
<1>2. IsFiniteSet(1 .. Len(stream))
  BY <1>1, FS_Interval
<1>3. {k \in DOMAIN stream : stream[k] = i} \subseteq 1 .. Len(stream)
  BY <1>1
<1>4. IsFiniteSet({k \in DOMAIN stream : stream[k] = i})
  BY <1>2, <1>3, FS_Subset
<1> QED
  BY <1>4, FS_CardinalityType DEF Copies

\* XADD adds one copy of the row it sends, and none of any other.
LEMMA CopiesAppend ==
    ASSUME TypeOK, NEW i \in Ids, stream' = Append(stream, i)
    PROVE  /\ Copies(i)' = Copies(i) + 1
           /\ \A j \in Ids : j # i => Copies(j)' = Copies(j)
<1>1. stream \in Seq(Ids) /\ Len(stream) \in Nat /\ DOMAIN stream = 1 .. Len(stream)
  BY DEF TypeOK
<1>2. /\ DOMAIN stream' = 1 .. Len(stream) + 1
      /\ stream'[Len(stream) + 1] = i
      /\ \A k \in 1 .. Len(stream) : stream'[k] = stream[k]
  BY <1>1
<1>3. {k \in DOMAIN stream' : stream'[k] = i}
        = {k \in DOMAIN stream : stream[k] = i} \cup {Len(stream) + 1}
  BY <1>1, <1>2
<1>4. Len(stream) + 1 \notin {k \in DOMAIN stream : stream[k] = i}
  BY <1>1
<1>5. Copies(i)' = Copies(i) + 1
  <2> DEFINE S == {k \in DOMAIN stream : stream[k] = i}
             x == Len(stream) + 1
  <2>1. IsFiniteSet(S) /\ x \notin S
    BY <1>4, CopiesType
  <2> HIDE DEF S, x
  <2>2. Cardinality(S \cup {x}) = Cardinality(S) + 1
    BY <2>1, FS_AddElement
  <2> USE DEF S, x
  <2> QED
    BY <1>3, <2>2 DEF Copies
<1>6. ASSUME NEW j \in Ids, j # i PROVE Copies(j)' = Copies(j)
  <2>1. {k \in DOMAIN stream' : stream'[k] = j} = {k \in DOMAIN stream : stream[k] = j}
    BY <1>1, <1>2, <1>6
  <2> QED
    BY <2>1 DEF Copies
<1> QED
  BY <1>5, <1>6

LEMMA CountKept ==
    ASSUME TypeOK, Counted, UNCHANGED stream,
           \/ faults' = faults + 1
           \/ faults' = faults /\ \A i \in Ids : Settled(i) => Settled(i)'
    PROVE  Counted'
<1> SUFFICES ASSUME NEW i \in Ids
             PROVE  Copies(i)' <= faults' + (IF Settled(i)' THEN 1 ELSE 0)
  BY DEF Counted
<1>1. Copies(i)' = Copies(i) /\ Copies(i) \in Nat /\ faults \in Nat
  BY CopiesType DEF Copies, TypeOK
<1>2. Copies(i) <= faults + (IF Settled(i) THEN 1 ELSE 0)
  BY DEF Counted
<1> HIDE DEF Settled, Copies
<1>3. CASE faults' = faults + 1
  BY <1>1, <1>2, <1>3
<1>4. CASE faults' = faults /\ (Settled(i) => Settled(i)')
  BY <1>1, <1>2, <1>4
<1> QED
  BY <1>3, <1>4


\* The pass that works on rows is the only one.
LEMMA OnlyOne ==
    ASSUME LeaseInv, NEW r \in Replicas, NEW s \in Replicas,
           proc[r].pc \in Owning, proc[s].pc \in Owning
    PROVE  r = s
  BY DEF LeaseInv, Holds

\* A step that writes neither a row nor the stream, in which no pass moves on
\* to "mark", and one leaves it only with a failure.
LEMMA QuietCopies ==
    ASSUME CopyInv, UNCHANGED <<row, stream>>,
           \A s \in Replicas :
               \/ /\ proc'[s].batch = proc[s].batch
                  /\ proc'[s].pc = proc[s].pc \/ proc[s].pc \in {"next", "renew"}
               \/ proc'[s].pc \in {"idle", "acquire", "list", "release"}
               \/ \A i \in proc'[s].batch : row[i] = "pending",
           \A s \in Replicas : proc'[s].pc = "mark" => proc[s].pc = "mark",
           \/ faults' = faults + 1
           \/ faults' = faults /\ \A s \in Replicas : proc[s].pc = "mark" =>
                proc'[s].pc = "mark" /\ proc'[s].batch = proc[s].batch
    PROVE  Fresh' /\ Counted'
<1>1. Fresh'
  BY DEF CopyInv, Fresh
<1>2. faults' # faults + 1 => \A i \in Ids : Settled(i) => Settled(i)'
  BY DEF Settled, Marking
<1> QED
  BY <1>1, <1>2, CountKept DEF CopyInv, LeaseInv

LEMMA NextCopyInv == CopyInv /\ [Next]_vars => CopyInv'
<1> SUFFICES ASSUME CopyInv, [Next]_vars PROVE Fresh' /\ Counted'
  BY NextLeaseInv DEF CopyInv
<1>t. TypeOK /\ TypeOK' /\ LeaseInv /\ Fresh /\ Counted
  BY NextTypeOK DEF CopyInv, LeaseInv
<1>p. /\ \A r \in Replicas : proc[r].batch \subseteq Ids
      /\ faults \in Nat
      /\ proc = [r \in Replicas |-> proc[r]]
  BY <1>t DEF TypeOK
<1>g. ASSUME NEW r \in Replicas, NEW pc, Goto(r, pc)
      PROVE  /\ proc'[r].pc = pc /\ proc'[r].batch = proc[r].batch
             /\ \A s \in Replicas : s # r => proc'[s] = proc[s]
  BY <1>t, <1>g DEF TypeOK, Goto
<1>1. ASSUME NEW j \in Ids, insertOutboxTx(j) PROVE Fresh' /\ Counted'
  <2>1. /\ UNCHANGED <<stream, proc, faults>> /\ row[j] = "none"
        /\ \A i \in Ids : i # j => row'[i] = row[i]
    BY <1>t, <1>1 DEF TypeOK, insertOutboxTx
  <2>2. Fresh'
    BY <1>t, <1>p, <2>1 DEF Fresh
  <2>3. \A i \in Ids : Settled(i) => Settled(i)'
    BY <2>1 DEF Settled, Marking
  <2> QED
    BY <1>t, <2>1, <2>2, <2>3, CountKept
<1>2. ASSUME NEW j \in Ids, EndTx(j) PROVE Fresh' /\ Counted'
  <2>1. /\ UNCHANGED <<stream, proc, faults>> /\ row[j] = "open"
        /\ \A i \in Ids : i # j => row'[i] = row[i]
    BY <1>t, <1>2 DEF TypeOK, EndTx
  <2>2. Fresh'
    BY <1>t, <1>p, <2>1 DEF Fresh
  <2>3. \A i \in Ids : Settled(i) => Settled(i)'
    BY <2>1 DEF Settled, Marking
  <2> QED
    BY <1>t, <2>1, <2>2, <2>3, CountKept
<1>3. ASSUME NEW j \in Ids, PurgePublishedOutbox(j) PROVE Fresh' /\ Counted'
  <2>1. /\ UNCHANGED <<stream, proc, faults>> /\ row[j] = "published" /\ row'[j] = "purged"
        /\ \A i \in Ids : i # j => row'[i] = row[i]
    BY <1>t, <1>3 DEF TypeOK, PurgePublishedOutbox
  <2>2. Fresh'
    BY <1>t, <1>p, <2>1 DEF Fresh
  <2>3. \A i \in Ids : Settled(i) => Settled(i)'
    BY <2>1 DEF Settled, Marking
  <2> QED
    BY <1>t, <2>1, <2>2, <2>3, CountKept
<1>4. ASSUME NEW r \in Replicas, Drain(r) PROVE Fresh' /\ Counted'
  <2>1. /\ UNCHANGED <<row, stream, faults>> /\ proc[r].pc = "idle" /\ proc'[r].pc = "acquire"
        /\ \A s \in Replicas : s # r => proc'[s] = proc[s]
    BY <1>g, <1>4 DEF Drain
  <2> QED
    BY <2>1, QuietCopies
<1>5. ASSUME NEW r \in Replicas, AcquireOutboxLease(r) PROVE Fresh' /\ Counted'
  <2>1. /\ UNCHANGED <<row, stream>> /\ proc[r].pc \in {"acquire", "renew"}
        /\ faults' = faults + 1 \/ faults' = faults
    BY <1>5 DEF AcquireOutboxLease, Fail
  <2>2. /\ proc'[r].batch = proc[r].batch
        /\ proc'[r].pc \in {"list", "release"} \/ (proc'[r].pc = "xadd" /\ proc[r].pc = "renew")
        /\ \A s \in Replicas : s # r => proc'[s] = proc[s]
    <3>1. CASE \E pc \in {"release"} : Goto(r, pc)
      BY <3>1, <1>g
    <3>2. CASE proc' = [proc EXCEPT ![r].pc = IF proc[r].pc = "acquire" THEN "list" ELSE "xadd",
                                  ![r].call = 0, ![r].age = proc[r].call]
      BY <3>2, <1>t, <2>1 DEF TypeOK
    <3> QED
      BY <1>5, <3>1, <3>2 DEF AcquireOutboxLease, Fail
  <2> QED
    BY <2>1, <2>2, QuietCopies
<1>6. ASSUME NEW r \in Replicas, PendingOutbox(r) PROVE Fresh' /\ Counted'
  <2>1. /\ UNCHANGED <<row, stream>> /\ proc[r].pc = "list"
        /\ faults' = faults + 1 \/ faults' = faults
    BY <1>6 DEF PendingOutbox, Fail
  <2>2. /\ proc'[r].pc \in {"next", "release"}
        /\ proc'[r].pc = "next" => \A i \in proc'[r].batch : row[i] = "pending"
        /\ \A s \in Replicas : s # r => proc'[s] = proc[s]
    <3>1. CASE \E pc \in {"release"} : Goto(r, pc)
      BY <3>1, <1>g
    <3>2. ASSUME NEW q, q = Listed({i \in Ids : row[i] = "pending"}),
                 proc' = [proc EXCEPT ![r].pc = IF q = {} THEN "release" ELSE "next",
                                  ![r].batch = q, ![r].full = Cardinality(q) = batchSize,
                                  ![r].call = 0]
          PROVE  /\ proc'[r].pc \in {"next", "release"}
                 /\ proc'[r].pc = "next" => \A i \in proc'[r].batch : row[i] = "pending"
                 /\ \A s \in Replicas : s # r => proc'[s] = proc[s]
      <4>1. \A i \in q : row[i] = "pending"
        BY <3>2 DEF Listed
      <4> QED
        BY <3>2, <4>1, <1>t DEF TypeOK
    <3> QED
      BY <1>6, <3>1, <3>2 DEF PendingOutbox, Fail
  <2> QED
    BY <2>1, <2>2, QuietCopies
<1>7. ASSUME NEW r \in Replicas, NextRow(r) PROVE Fresh' /\ Counted'
  <2>1. PICK pc \in {"acquire", "release", "xadd", "renew"} : Goto(r, pc)
    BY <1>7, <1>t, NextRowCases DEF TypeOK, Pass
  <2>2. UNCHANGED <<row, stream, faults>> /\ proc[r].pc = "next"
    BY <1>7 DEF NextRow
  <2> QED
    BY <1>g, <2>1, <2>2, QuietCopies
<1>8. ASSUME NEW r \in Replicas, XAdd(r) PROVE Fresh' /\ Counted'
  <2>1. PICK i \in Ids :
           /\ First(proc[r].batch, i)
           /\ \/ stream' = Append(stream, i) /\ Goto(r, "mark") /\ UNCHANGED faults
              \/ Fail(r) /\ UNCHANGED stream
              \/ Fail(r) /\ stream' = Append(stream, i)
    BY <1>8 DEF XAdd
  <2>2. UNCHANGED row /\ proc[r].pc = "xadd" /\ i \in proc[r].batch
    BY <1>8, <2>1 DEF XAdd, First
  <2>3. \E pc \in {"mark", "release"} : Goto(r, pc)
    BY <2>1 DEF Fail
  <2>4. Fresh'
    BY <1>t, <1>g, <2>2, <2>3 DEF Fresh
  <2>5. CASE Fail(r) /\ UNCHANGED stream
    BY <1>t, <2>4, <2>5, CountKept DEF Fail
  <2>6. CASE stream' = Append(stream, i)
    <3>1. \A s \in Replicas : proc[s].pc # "mark"
      BY <1>t, <2>2, OnlyOne DEF Owning
    <3>2. ~Settled(i) /\ Copies(i) <= faults /\ Copies(i) \in Nat
      <4>1. ~Settled(i)
        BY <1>t, <2>2, <3>1 DEF Settled, Marking, Fresh
      <4>2. Copies(i) \in Nat
        BY <1>t, CopiesType
      <4> QED
        BY <1>t, <1>p, <4>1, <4>2 DEF Counted
    <3>3. Copies(i)' = Copies(i) + 1 /\ \A j \in Ids : j # i => Copies(j)' = Copies(j)
      BY <1>t, <2>6, CopiesAppend
    <3>4. \/ faults' = faults + 1
          \/ faults' = faults /\ Settled(i)'
      <4>1. CASE Fail(r)
        BY <4>1 DEF Fail
      <4>2. CASE Goto(r, "mark") /\ UNCHANGED faults
        BY <1>g, <2>1, <4>2 DEF Settled, Marking
      <4> QED
        BY <2>1, <4>1, <4>2
    <3>5. \A j \in Ids : Settled(j) => Settled(j)'
      BY <2>2, <3>1 DEF Settled, Marking
    <3>6. ASSUME NEW j \in Ids
          PROVE  Copies(j)' <= faults' + (IF Settled(j)' THEN 1 ELSE 0)
      <4>1. Copies(j) <= faults + (IF Settled(j) THEN 1 ELSE 0) /\ Copies(j) \in Nat
        BY <1>t, CopiesType DEF Counted
      <4> HIDE DEF Copies, Settled
      <4>2. CASE j = i
        BY <1>p, <3>2, <3>3, <3>4, <4>2
      <4>3. CASE j # i
        BY <1>p, <3>3, <3>4, <3>5, <4>1, <4>3
      <4> QED
        BY <4>2, <4>3
    <3> QED
      BY <2>4, <3>6 DEF Counted
  <2> QED
    BY <2>1, <2>5, <2>6
<1>9. ASSUME NEW r \in Replicas, MarkOutboxPublished(r) PROVE Fresh' /\ Counted'
  <2>1. PICK i \in Ids :
           /\ First(proc[r].batch, i)
           /\ \/ /\ row' = [row EXCEPT ![i] = "published"]
                 /\ proc' = [proc EXCEPT ![r] = Done(proc[r], i)]
                 /\ UNCHANGED faults
              \/ Fail(r) /\ UNCHANGED row
              \/ Fail(r) /\ row' = [row EXCEPT ![i] = "published"]
    BY <1>9 DEF MarkOutboxPublished
  <2>2. UNCHANGED stream /\ proc[r].pc = "mark" /\ i \in proc[r].batch
    BY <1>9, <2>1 DEF MarkOutboxPublished, First
  <2>3. /\ \A j \in Ids : j # i => row'[j] = row[j]
        /\ \A s \in Replicas : s # r => proc'[s] = proc[s] /\ proc[s].pc \notin Owning
        /\ \/ proc'[r].pc = "next" /\ proc'[r].batch = proc[r].batch \ {i}
           \/ proc'[r].pc = "release"
    <3>1. \A s \in Replicas : s # r => proc[s].pc \notin Owning
      BY <1>t, <2>2, OnlyOne DEF Owning
    <3>2. CASE proc' = [proc EXCEPT ![r] = Done(proc[r], i)] /\ row' = [row EXCEPT ![i] = "published"]
      BY <1>t, <3>1, <3>2 DEF TypeOK, Done
    <3>3. CASE Goto(r, "release") /\ (row' = [row EXCEPT ![i] = "published"] \/ UNCHANGED row)
      BY <1>t, <1>g, <3>1, <3>3 DEF TypeOK
    <3> QED
      BY <2>1, <3>2, <3>3 DEF Fail
  <2>4. Fresh'
    <3> SUFFICES ASSUME NEW s \in Replicas, proc'[s].pc \in {"next", "renew", "xadd", "mark"},
                        NEW j \in proc'[s].batch
                 PROVE  row'[j] = "pending"
      BY DEF Fresh
    <3>1. s = r
      BY <2>3 DEF Owning
    <3>2. j \in proc[r].batch /\ j # i
      BY <2>3, <3>1
    <3> QED
      BY <1>t, <1>p, <2>2, <2>3, <3>2 DEF Fresh
  <2>5. faults' = faults + 1 \/ (faults' = faults /\ row'[i] = "published")
    BY <1>t, <2>1 DEF Fail, TypeOK
  <2>6. CASE faults' = faults /\ row'[i] = "published"
    <3>1. ASSUME NEW j \in Ids, Settled(j), j # i PROVE Settled(j)'
      <4>1. ~Marking(j)
        <5> SUFFICES ASSUME NEW s \in Replicas, proc[s].pc = "mark", First(proc[s].batch, j)
                     PROVE  FALSE
          BY DEF Marking
        <5>1. s = r
          BY <2>3 DEF Owning
        <5> QED
          BY <2>1, <3>1, <5>1 DEF First, Ids
      <4> QED
        BY <2>3, <3>1, <4>1 DEF Settled
    <3>2. Settled(i)'
      BY <2>6 DEF Settled
    <3> QED
      BY <1>t, <2>2, <2>4, <2>6, <3>1, <3>2, CountKept
  <2> QED
    BY <1>t, <2>2, <2>4, <2>5, <2>6, CountKept
<1>10. ASSUME NEW r \in Replicas, ReleaseOutboxLease(r) PROVE Fresh' /\ Counted'
  <2>1. /\ UNCHANGED <<row, stream>> /\ proc[r].pc = "release" /\ proc'[r].pc = "idle"
        /\ faults' = faults + 1 \/ faults' = faults
        /\ \A s \in Replicas : s # r => proc'[s] = proc[s]
    BY <1>p, <1>10 DEF ReleaseOutboxLease, Idle
  <2> QED
    BY <2>1, QuietCopies
<1>11. ASSUME NEW r \in Replicas, Crash(r) PROVE Fresh' /\ Counted'
  <2>1. /\ UNCHANGED <<row, stream>> /\ faults' = faults + 1 /\ proc'[r].pc = "idle"
        /\ \A s \in Replicas : s # r => proc'[s] = proc[s]
    BY <1>p, <1>11 DEF Crash, Idle
  <2> QED
    BY <2>1, QuietCopies
<1>12. ASSUME Tick PROVE Fresh' /\ Counted'
  <2>1. UNCHANGED <<row, stream, faults>>
    BY <1>12 DEF Tick
  <2>2. \A s \in Replicas : proc'[s].pc = proc[s].pc /\ proc'[s].batch = proc[s].batch
    <3> SUFFICES ASSUME NEW s \in Replicas
                 PROVE  proc'[s].pc = proc[s].pc /\ proc'[s].batch = proc[s].batch
      OBVIOUS
    <3>1. proc'[s] = Aged(proc[s]) /\ proc[s] \in Pass
      BY <1>12, <1>t DEF Tick, TypeOK, Pass
    <3> QED
      BY <3>1 DEF Aged, Pass
  <2> QED
    BY <2>1, <2>2, QuietCopies
<1>13. CASE UNCHANGED vars
  <2>1. UNCHANGED <<row, stream, faults, proc>>
    BY <1>13 DEF vars
  <2> QED
    BY <2>1, QuietCopies
<1> QED
  BY <1>1, <1>2, <1>3, <1>4, <1>5, <1>6, <1>7, <1>8, <1>9, <1>10, <1>11, <1>12, <1>13
     DEF Next, Step

LEMMA InitCopyInv == Punctual /\ Init => CopyInv
<1> SUFFICES ASSUME Punctual, Init PROVE CopyInv
  OBVIOUS
<1>1. LeaseInv
  BY InitLeaseInv
<1>2. Fresh
  BY DEF Init, Idle, Fresh
<1>3. ASSUME NEW i \in Ids PROVE Copies(i) = 0
  <2>1. {k \in DOMAIN stream : stream[k] = i} = {}
    BY DEF Init
  <2> QED
    BY <2>1, FS_EmptySet DEF Copies
<1>4. faults = 0
  BY DEF Init
<1>5. Counted
  BY <1>3, <1>4 DEF Counted
<1> QED
  BY <1>1, <1>2, <1>5 DEF CopyInv

\* Replicas publish in turns, and every further copy of a row has a failed
\* call or a crash behind it: a pass that has the lease lists rows nobody has
\* marked, and nobody else marks them while it does (Drain, drainBatch).
THEOREM PublishersAlternate == Punctual /\ Spec => []PublishersTakeTurns
<1>1. ASSUME CopyInv PROVE RepeatedOnlyAfterFault
  <2> SUFFICES ASSUME NEW i \in Ids PROVE Copies(i) <= 1 + faults
    BY DEF RepeatedOnlyAfterFault
  <2>1. Copies(i) <= faults + (IF Settled(i) THEN 1 ELSE 0)
    BY <1>1 DEF CopyInv, Counted
  <2>2. Copies(i) \in Nat /\ faults \in Nat
    BY <1>1, CopiesType DEF CopyInv, LeaseInv, TypeOK
  <2> QED
    BY <2>1, <2>2
<1> QED
  BY <1>1, InitCopyInv, NextCopyInv, LeaseExcludes, PTL DEF Spec, PublishersTakeTurns
=============================================================================
