--------------------------- MODULE AgentJobsProofs ---------------------------
(***************************************************************************)
(* Proofs about AgentJobs, for every set of jobs, accounts and replicas    *)
(* and every bound.                                                        *)
(***************************************************************************)
EXTENDS AgentJobs, TLAPS

\* The kinds of transaction a replica can have open.
LEMMA TxKinds ==
    ASSUME TypeOK, NEW r \in Replicas
    PROVE  \/ tx[r] = Idle
           \/ /\ tx[r].phase = "open" /\ tx[r].user \in Users
              /\ tx[r].runtime \in Runtimes /\ tx[r].room \in Nat
           \/ /\ tx[r].phase = "selected" /\ tx[r].user \in Users
              /\ tx[r].runtime \in Runtimes /\ tx[r].room \in Nat
              /\ tx[r].heads \in SUBSET Jobs /\ tx[r].into \in [Jobs -> Jobs \cup {0}]
  BY Zenon DEF TypeOK, Idle, Runtimes, Live, Terminal, Statuses

\* The fields of an envelope.
LEMMA ClaimFields ==
    ASSUME TypeOK, NEW c \in claims
    PROVE  /\ c.job \in Jobs /\ c.attempt \in Nat \ {0} /\ c.replica \in Replicas
           /\ c.issued \in BOOLEAN /\ c.serial \in Nat
<1>1. c \in [job : Jobs, attempt : Nat \ {0}, replica : Replicas, issued : BOOLEAN, serial : Nat]
  BY Zenon DEF TypeOK
<1> QED
  BY <1>1, Zenon

\* Init establishes the types.
LEMMA InitTypeOK == Init => TypeOK
  BY BoundAssumption DEF Init, TypeOK, Idle, Runtimes, Live, Terminal, Statuses

\* The room of a claim is an integer, and a natural number once it is checked;
\* shown by RoomType below, where jobs are counted.
RoomsTyped == \A u, rt : Room(u, rt) \in Int /\ (HasRoom(u, rt) => Room(u, rt) \in Nat)

\* Every action keeps the types.
LEMMA NextTypes == RoomsTyped /\ TypeOK /\ [Next]_vars => TypeOK'
<1> SUFFICES ASSUME RoomsTyped, TypeOK, [Next]_vars PROVE TypeOK'
  OBVIOUS
<1>1. ASSUME NEW j \in Jobs, NEW st \in Statuses, InsertEventEnqueueJobAndTouch(j, st) PROVE TypeOK'
  BY <1>1, Zenon
     DEF TypeOK, Idle, Runtimes, Live, Terminal, Statuses, InsertEventEnqueueJobAndTouch, rowLog, claimVars
<1>2. ASSUME NEW j \in Jobs, DeadlinePasses(j) PROVE TypeOK'
  BY <1>2, Zenon
     DEF TypeOK, Idle, Runtimes, Live, Terminal, Statuses, DeadlinePasses, rowLog, claimVars
<1>3. ASSUME NEW j \in Jobs, RecordMessageDelete(j) \/ SweepAgentMessageBodies(j) PROVE TypeOK'
  BY <1>3, SMTT(30)
     DEF TypeOK, Idle, Runtimes, Live, Terminal, Statuses, RecordMessageDelete, SweepAgentMessageBodies, IgnorePending, rowLog, claimVars
<1>4. ASSUME NEW u \in Users, NEW to \in Runtimes, DecideRuntime(u, to) PROVE TypeOK'
  BY <1>4, Zenon
     DEF TypeOK, Idle, Runtimes, Live, Terminal, Statuses, DecideRuntime, rowVars, rowLog, claimVars
<1>5. ASSUME NEW u \in Users, purgeAgentJobs(u) PROVE TypeOK'
  BY <1>5, Zenon
     DEF TypeOK, Idle, Runtimes, Live, Terminal, Statuses, purgeAgentJobs, rowLog, claimVars
<1>6. ASSUME NEW r \in Replicas, NEW u \in Users, NEW rt \in Runtimes, reserveInflight(r, u, rt)
      PROVE TypeOK'
  BY <1>6, BoundAssumption, Zenon
     DEF RoomsTyped, TypeOK, Idle, Runtimes, Live, Terminal, Statuses, reserveInflight, rowVars, rowLog, claimVars
<1>7. ASSUME NEW r \in Replicas, SelectDue(r) PROVE TypeOK'
  BY <1>7, TxKinds, SMTT(30)
     DEF TypeOK, Idle, Runtimes, Live, Terminal, Statuses, SelectDue, rowVars, rowLog, claimVars
<1>8. ASSUME NEW r \in Replicas, CommitClaim(r) PROVE TypeOK'
  <2>1. tx[r].heads \in SUBSET Jobs /\ tx[r].into \in [Jobs -> Jobs \cup {0}] /\ tx[r].runtime \in Runtimes
    BY <1>8, TxKinds DEF CommitClaim, Idle
  <2>2. claims' \subseteq [job : Jobs, attempt : Nat \ {0}, replica : Replicas,
                          issued : BOOLEAN, serial : Nat]
    <3>1. ASSUME NEW j \in tx[r].heads
          PROVE  [job |-> j, attempt |-> attempts[j] + 1, replica |-> r,
                  issued |-> FALSE, serial |-> serial + 1]
                   \in [job : Jobs, attempt : Nat \ {0}, replica : Replicas,
                        issued : BOOLEAN, serial : Nat]
      BY <2>1, <3>1 DEF TypeOK
    <3>2. claims \subseteq [job : Jobs, attempt : Nat \ {0}, replica : Replicas,
                            issued : BOOLEAN, serial : Nat]
      BY Zenon DEF TypeOK
    <3>3. claims' = claims \cup {[job |-> j, attempt |-> attempts[j] + 1, replica |-> r,
                                  issued |-> FALSE, serial |-> serial + 1] : j \in tx[r].heads}
      BY <1>8, Zenon DEF CommitClaim
    <3> QED
      BY <3>1, <3>2, <3>3, Zenon
  <2> QED
    BY <1>8, <2>1, <2>2, SMTT(30)
       DEF TypeOK, Idle, Runtimes, Live, Terminal, Statuses, CommitClaim, TurnOf
<1>9. ASSUME NEW r \in Replicas, RollbackClaim(r) PROVE TypeOK'
  BY <1>9, Zenon
     DEF TypeOK, Idle, Runtimes, Live, Terminal, Statuses, RollbackClaim, rowVars, rowLog, claimVars
<1>10. ASSUME NEW c \in claims, IssueClaim(c) PROVE TypeOK'
  <2> DEFINE d == [c EXCEPT !.issued = TRUE]
             ClaimType == [job : Jobs, attempt : Nat \ {0}, replica : Replicas,
                           issued : BOOLEAN, serial : Nat]
  <2>1. c \in ClaimType
    BY Zenon DEF TypeOK
  <2>2. d \in ClaimType
    BY <2>1, Zenon
  <2>3. claims' = (claims \ {c}) \cup {d} /\ claims \subseteq ClaimType
    BY <1>10, Zenon DEF IssueClaim, TypeOK
  <2> HIDE DEF d
  <2>4. claims' \subseteq ClaimType
    BY <2>2, <2>3, Zenon
  <2> QED
    BY <1>10, <2>4, Zenon DEF TypeOK, IssueClaim, rowVars, rowLog
<1>11. ASSUME NEW c \in claims, ReleaseUnissuedClaim(c) PROVE TypeOK'
  <2>1. c.job \in Jobs /\ c.attempt - 1 \in Nat
    BY ClaimFields
  <2>2. attempts' \in [Jobs -> Nat]
    <3>1. attempts \in [Jobs -> Nat]
      BY Zenon DEF TypeOK
    <3>2. attempts' = [attempts EXCEPT ![c.job] = c.attempt - 1]
      BY <1>11, Zenon DEF ReleaseUnissuedClaim, UnderClaim
    <3> QED
      BY <2>1, <3>1, <3>2, Zenon
  <2> QED
    BY <1>11, <2>1, <2>2, Zenon
       DEF TypeOK, Idle, Runtimes, Live, Terminal, Statuses, ReleaseUnissuedClaim
<1>12. ASSUME NEW c \in claims, NEW forward \in BOOLEAN, InsertAgentAction(c, forward) PROVE TypeOK'
  BY <1>12, SMTT(30)
     DEF TypeOK, Idle, Runtimes, Live, Terminal, Statuses, InsertAgentAction, rowVars, rowLog, claimVars, routeJobEventTx, TurnJobs
<1>13. ASSUME NEW c \in claims, NEW st \in Terminal, EndJob(c, st) PROVE TypeOK'
  BY <1>13, SMTT(30)
     DEF TypeOK, Idle, Runtimes, Live, Terminal, Statuses, EndJob, finishOpenAttempt, Newest, claimVars, routeJobEventTx, TurnJobs
<1>14. ASSUME NEW c \in claims, RetryAgentJob(c) PROVE TypeOK'
  BY <1>14, SMTT(30)
     DEF TypeOK, Idle, Runtimes, Live, Terminal, Statuses, RetryAgentJob, finishOpenAttempt, Newest, claimVars, routeJobEventTx, TurnJobs
<1>15. ASSUME RequeueStaleAgentJobs PROVE TypeOK'
  BY <1>15, SMTT(30)
     DEF TypeOK, Idle, Runtimes, Live, Terminal, Statuses, RequeueStaleAgentJobs, claimVars, routeJobEventTx, TurnJobs
<1>16. ASSUME RouteUnclaimedAgentJobs PROVE TypeOK'
  BY <1>16, SMTT(30)
     DEF TypeOK, Idle, Runtimes, Live, Terminal, Statuses, RouteUnclaimedAgentJobs, rowLog, claimVars, routeJobEventTx, TurnJobs
<1>17. CASE UNCHANGED vars
  BY <1>17, Zenon
     DEF TypeOK, Idle, Runtimes, Live, Terminal, Statuses, vars, rowVars, rowLog, claimVars
<1> QED
  BY <1>1, <1>2, <1>3, <1>4, <1>5, <1>6, <1>7, <1>8, <1>9, <1>10, <1>11, <1>12, <1>13,
     <1>14, <1>15, <1>16, <1>17, Zenon
     DEF Next, Claim, Worker, CompleteAgentJob, CompleteAgentJobWithResult
-----------------------------------------------------------------------------
\* Why conversations stay serial.  The claim reads a snapshot and commits
\* later, so its reason to take a job must still hold then: a selected head is
\* pending until its claim ends, and every earlier job of its conversation is
\* over for good (not merely "not pending": it cannot arrive late either).
Over == Terminal \cup {"purged"}

ArrivalOrder ==
    \A i, j \in Jobs : UserOf[i] = UserOf[j] /\ i < j /\ status[j] # "absent"
                         => status[i] # "absent"

LockedPending == \A r \in Replicas, j \in Jobs : LockedBy(r, j) => status[j] = "pending"

HeadsFirst ==
    \A r \in Replicas : tx[r].phase = "selected" =>
        \A j \in tx[r].heads, p \in Jobs : SameConv(p, j) /\ p < j => status[p] \in Over

LocksDisjoint ==
    \A q, r \in Replicas, j \in Jobs : LockedBy(q, j) /\ LockedBy(r, j) => q = r

SerialInv ==
    /\ ArrivalOrder
    /\ LockedPending
    /\ HeadsFirst
    /\ LocksDisjoint
    /\ ConversationSerial

LEMMA InitSerial == Init => SerialInv
  BY DEF Init, Idle, SerialInv, ArrivalOrder, LockedPending, HeadsFirst, LocksDisjoint,
         LockedBy, ConversationSerial

\* What a step that leaves the claims alone may do to a job's status: ingest it
\* in order, or move an unlocked job back to pending or out of the queue.
QuietMove(j) ==
    status'[j] # status[j] =>
        /\ \A r \in Replicas : ~LockedBy(r, j)
        /\ status'[j] \in {"pending"} \cup Over
        /\ status[j] \in Over => status'[j] \in Over
        /\ status[j] = "absent" =>
             \A i \in Jobs : UserOf[i] = UserOf[j] /\ i < j => status[i] # "absent"

LEMMA QuietStep ==
    ASSUME TypeOK, SerialInv, tx' = tx, \A j \in Jobs : QuietMove(j)
    PROVE  SerialInv'
<1> USE DEF SerialInv, QuietMove
<1>1. \A r, j : LockedBy(r, j)' <=> LockedBy(r, j)
  BY Zenon DEF LockedBy
<1>2. ArrivalOrder'
  BY Zenon DEF ArrivalOrder, Over, Terminal
<1>3. LockedPending'
  BY <1>1, Zenon DEF LockedPending
<1>4. HeadsFirst'
  BY <1>1, Zenon DEF HeadsFirst, TypeOK
<1>5. LocksDisjoint'
  BY <1>1, Zenon DEF LocksDisjoint
<1>6. ConversationSerial'
  <2> SUFFICES ASSUME NEW i \in Jobs, NEW j \in Jobs, SameConv(i, j), i < j,
                      status'[j] = "processing"
               PROVE  status'[i] \notin Live
    BY Zenon DEF ConversationSerial
  <2>1. status[j] = "processing" /\ UserOf[i] = UserOf[j]
    BY OwnerAssumption, Zenon DEF Over, Terminal
  <2>2. status[i] \notin Live /\ status[i] # "absent"
    BY <2>1, Zenon DEF ConversationSerial, ArrivalOrder
  <2>3. status[i] \in Over
    BY <2>2, Zenon DEF TypeOK, Statuses, Over
  <2> QED
    BY <2>3, Zenon DEF Over, Terminal, Live
<1> QED
  BY <1>2, <1>3, <1>4, <1>5, <1>6, Zenon

\* A step that only opens or drops the transaction of one replica.
LEMMA UnlockStep ==
    ASSUME TypeOK, SerialInv, NEW r \in Replicas, NEW t, t.phase # "selected",
           tx' = [tx EXCEPT ![r] = t], status' = status
    PROVE  SerialInv'
<1>1. \A q \in Replicas : tx'[q] = IF q = r THEN t ELSE tx[q]
  BY Zenon DEF TypeOK
<1>2. \A q \in Replicas, j \in Jobs : LockedBy(q, j)' => LockedBy(q, j)
  BY <1>1, Zenon DEF LockedBy
<1> QED
  BY <1>1, <1>2 DEF SerialInv, ArrivalOrder, LockedPending, HeadsFirst, LocksDisjoint,
                    ConversationSerial

\* Selecting: the candidates are unlocked and first in their conversations.
LEMMA SelectStep ==
    ASSUME TypeOK, SerialInv, NEW r \in Replicas, SelectDue(r)
    PROVE  SerialInv'
<1>1. PICK S \in SUBSET {j \in Jobs : Claimable(j, tx[r].user, tx[r].runtime)} :
        /\ S \cap Locked = {}
        /\ Coalesce => \A h \in S : Followers(h) \cap Locked = {}
        /\ \E into \in [Jobs -> S \cup {0}] :
             /\ Turns(S, into)
             /\ tx' = [tx EXCEPT ![r] =
                         [phase |-> "selected", user |-> tx[r].user,
                          runtime |-> tx[r].runtime, room |-> tx[r].room,
                          heads |-> S, into |-> into]]
  BY Zenon DEF SelectDue
<1>2. PICK into \in [Jobs -> S \cup {0}] :
        /\ Turns(S, into)
        /\ tx' = [tx EXCEPT ![r] =
                    [phase |-> "selected", user |-> tx[r].user,
                     runtime |-> tx[r].runtime, room |-> tx[r].room,
                     heads |-> S, into |-> into]]
  BY <1>1, Zenon
<1>3. status' = status
  BY Zenon DEF SelectDue, rowVars
<1>4. \A q \in Replicas : q # r => tx'[q] = tx[q]
  BY <1>2, Zenon DEF TypeOK
<1>5. tx'[r].phase = "selected" /\ tx'[r].heads = S /\ tx'[r].into = into
  BY <1>2, Zenon DEF TypeOK
<1>6. ASSUME NEW j \in Jobs, LockedBy(r, j)' PROVE status[j] = "pending" /\ j \notin Locked
  <2>1. CASE j \in S
    BY <1>1, <2>1, Zenon DEF Claimable
  <2>2. CASE into[j] # 0
    BY <1>1, <1>2, <2>2 DEF Turns, Followers
  <2> QED
    BY <1>5, <1>6, <2>1, <2>2, Zenon DEF LockedBy
<1>7. LockedPending'
  BY <1>3, <1>4, <1>6, Zenon DEF LockedPending, LockedBy, SerialInv
<1>8. HeadsFirst'
  <2> SUFFICES ASSUME NEW q \in Replicas, tx'[q].phase = "selected", NEW j \in tx'[q].heads,
                      NEW p \in Jobs, SameConv(p, j), p < j
               PROVE  status[p] \in Over
    BY <1>3, Zenon DEF HeadsFirst
  <2>1. CASE q # r
    BY <1>4, <2>1, Zenon DEF SerialInv, HeadsFirst
  <2>2. CASE q = r
    <3>1. j \in Jobs /\ Claimable(j, tx[r].user, tx[r].runtime)
      BY <1>1, <1>5, <2>2, Zenon
    <3>2. status[p] \notin Live /\ status[p] # "absent"
      BY <3>1, OwnerAssumption, Zenon DEF Claimable, HeadOfLine, Live, SerialInv, ArrivalOrder
    <3> QED
      BY <3>2, Zenon DEF TypeOK, Statuses, Over
  <2> QED
    BY <2>1, <2>2, Zenon
<1>9. LocksDisjoint'
  BY <1>4, <1>6 DEF LocksDisjoint, LockedBy, Locked, SerialInv
<1> QED
  BY <1>3, <1>7, <1>8, <1>9, Zenon DEF SerialInv, ArrivalOrder, ConversationSerial

\* Committing: the heads still are what the select saw.
LEMMA CommitStep ==
    ASSUME TypeOK, SerialInv, NEW r \in Replicas, CommitClaim(r)
    PROVE  SerialInv'
<1>1. tx[r].phase = "selected"
  BY Zenon DEF CommitClaim
<1>2. \A j \in Jobs : status'[j] = IF j \in tx[r].heads THEN "processing"
                                   ELSE IF tx[r].into[j] # 0 THEN "coalesced" ELSE status[j]
  BY Zenon DEF CommitClaim
<1>3. /\ \A q \in Replicas : q # r => tx'[q] = tx[q]
      /\ tx'[r].phase = "idle"
  BY Zenon DEF CommitClaim, TypeOK, Idle
<1>4. \A j \in Jobs : ~LockedBy(r, j) => status'[j] = status[j]
  BY <1>1, <1>2, Zenon DEF LockedBy
<1>5. \A j \in Jobs : LockedBy(r, j) => status[j] = "pending"
  BY Zenon DEF SerialInv, LockedPending
<1>6. tx[r].heads \subseteq Jobs /\ \A j \in tx[r].heads : LockedBy(r, j)
  BY <1>1, TxKinds DEF LockedBy, Idle
<1>7. ArrivalOrder'
  BY <1>2, <1>4, <1>5, Zenon DEF SerialInv, ArrivalOrder
<1>8. \A q \in Replicas, j \in Jobs : LockedBy(q, j)' => q # r /\ LockedBy(q, j)
  BY <1>3, Zenon DEF LockedBy
<1>9. LockedPending'
  BY <1>4, <1>8, Zenon DEF SerialInv, LockedPending, LocksDisjoint
<1>10. LocksDisjoint'
  BY <1>8, Zenon DEF SerialInv, LocksDisjoint
<1>11. \A p \in Jobs : status[p] \in Over => status'[p] = status[p]
  BY <1>4, <1>5, Zenon DEF Over, Terminal
<1>12. HeadsFirst'
  <2> SUFFICES ASSUME NEW q \in Replicas, tx'[q].phase = "selected", NEW j \in tx'[q].heads,
                      NEW p \in Jobs, SameConv(p, j), p < j
               PROVE  status'[p] \in Over
    BY Zenon DEF HeadsFirst
  <2>1. tx'[q] = tx[q]
    BY <1>3, Zenon
  <2>2. status[p] \in Over
    BY <2>1, Zenon DEF SerialInv, HeadsFirst
  <2> QED
    BY <1>11, <2>2, Zenon
<1>13. ConversationSerial'
  <2> SUFFICES ASSUME NEW i \in Jobs, NEW j \in Jobs, SameConv(i, j), i < j,
                      status'[j] = "processing"
               PROVE  status'[i] \notin Live
    BY Zenon DEF ConversationSerial
  <2>1. CASE j \in tx[r].heads
    <3>1. status[i] \in Over
      BY <1>1, <2>1, Zenon DEF SerialInv, HeadsFirst
    <3> QED
      BY <1>11, <3>1, Zenon DEF Over, Terminal, Live
  <2>2. CASE j \notin tx[r].heads
    <3>1. status[j] = "processing"
      BY <1>2, <2>2, Zenon
    <3>2. status[i] \notin Live
      BY <3>1, Zenon DEF SerialInv, ConversationSerial
    <3>3. ~LockedBy(r, i)
      BY <1>5, <3>2, Zenon DEF Live
    <3> QED
      BY <1>4, <3>2, <3>3, Zenon
  <2> QED
    BY <2>1, <2>2, Zenon
<1> QED
  BY <1>7, <1>9, <1>10, <1>12, <1>13, Zenon DEF SerialInv

\* Every step keeps conversations serial.
LEMMA NextSerial == TypeOK /\ SerialInv /\ [Next]_vars => SerialInv'
<1> SUFFICES ASSUME TypeOK, SerialInv, [Next]_vars PROVE SerialInv'
  OBVIOUS
<1> USE DEF QuietMove, Over, Terminal
<1>1. ASSUME NEW j \in Jobs, NEW st \in Statuses, InsertEventEnqueueJobAndTouch(j, st)
      PROVE SerialInv'
  <2>1. \A i \in Jobs : QuietMove(i)
    BY <1>1, Zenon DEF InsertEventEnqueueJobAndTouch, TypeOK, SerialInv, LockedPending
  <2> QED
    BY <1>1, <2>1, QuietStep, Zenon DEF InsertEventEnqueueJobAndTouch
<1>2. ASSUME NEW j \in Jobs, DeadlinePasses(j) PROVE SerialInv'
  BY <1>2, QuietStep, Zenon DEF DeadlinePasses
<1>3. ASSUME NEW j \in Jobs, RecordMessageDelete(j) \/ SweepAgentMessageBodies(j) PROVE SerialInv'
  <2>1. IgnorePending(j)
    BY <1>3, Zenon DEF RecordMessageDelete, SweepAgentMessageBodies
  <2>2. \A i \in Jobs : QuietMove(i)
    BY <2>1, Zenon DEF IgnorePending, TypeOK, Locked
  <2> QED
    BY <2>1, <2>2, QuietStep, Zenon DEF IgnorePending
<1>4. ASSUME NEW u \in Users, NEW to \in Runtimes, DecideRuntime(u, to) PROVE SerialInv'
  BY <1>4, QuietStep, Zenon DEF DecideRuntime, rowVars
<1>5. ASSUME NEW u \in Users, purgeAgentJobs(u) PROVE SerialInv'
  <2>1. \A i \in Jobs : QuietMove(i)
    BY <1>5, Zenon DEF purgeAgentJobs, TypeOK, Locked
  <2> QED
    BY <1>5, <2>1, QuietStep, Zenon DEF purgeAgentJobs
<1>6. ASSUME NEW r \in Replicas, NEW u \in Users, NEW rt \in Runtimes, reserveInflight(r, u, rt)
      PROVE SerialInv'
  BY <1>6, UnlockStep, Zenon DEF reserveInflight, rowVars
<1>7. ASSUME NEW r \in Replicas, RollbackClaim(r) PROVE SerialInv'
  BY <1>7, UnlockStep, Zenon DEF RollbackClaim, rowVars, Idle
<1>8. ASSUME NEW c \in claims, \/ IssueClaim(c)
                               \/ \E forward \in BOOLEAN : InsertAgentAction(c, forward)
      PROVE SerialInv'
  BY <1>8, QuietStep, Zenon DEF IssueClaim, InsertAgentAction, rowVars
<1>9. ASSUME NEW c \in claims, \/ ReleaseUnissuedClaim(c)
                               \/ \E st \in Terminal : EndJob(c, st)
                               \/ RetryAgentJob(c)
      PROVE SerialInv'
  <2>1. UnderClaim(c) /\ tx' = tx
    BY <1>9, Zenon DEF ReleaseUnissuedClaim, EndJob, RetryAgentJob
  <2>2. /\ \A i \in Jobs : i # c.job => status'[i] = status[i]
        /\ status'[c.job] \in {"pending"} \cup Over
    BY <1>9, ClaimFields, Zenon DEF ReleaseUnissuedClaim, EndJob, RetryAgentJob, TypeOK
  <2>3. \A r \in Replicas : ~LockedBy(r, c.job)
    BY <2>1, ClaimFields, Zenon DEF UnderClaim, SerialInv, LockedPending
  <2>4. \A i \in Jobs : QuietMove(i)
    BY <2>1, <2>2, <2>3, Zenon DEF UnderClaim
  <2> QED
    BY <2>1, <2>4, QuietStep, Zenon
<1>10. ASSUME RequeueStaleAgentJobs PROVE SerialInv'
  <2>1. \A i \in Jobs : QuietMove(i)
    BY <1>10, Zenon DEF RequeueStaleAgentJobs, Stale, TypeOK, SerialInv, LockedPending
  <2> QED
    BY <1>10, <2>1, QuietStep, Zenon DEF RequeueStaleAgentJobs
<1>11. ASSUME RouteUnclaimedAgentJobs PROVE SerialInv'
  <2>1. \A i \in Jobs : QuietMove(i)
    BY <1>11, Zenon DEF RouteUnclaimedAgentJobs, TypeOK, Locked
  <2> QED
    BY <1>11, <2>1, QuietStep, Zenon DEF RouteUnclaimedAgentJobs
<1>12. CASE UNCHANGED vars
  BY <1>12, QuietStep, Zenon DEF vars, rowVars
<1> QED
  BY <1>1, <1>2, <1>3, <1>4, <1>5, <1>6, <1>7, <1>8, <1>9, <1>10, <1>11, <1>12,
     SelectStep, CommitStep, Zenon
     DEF Next, Claim, Worker, CompleteAgentJob, CompleteAgentJobWithResult
-----------------------------------------------------------------------------
(* Attempts and claims are exact, turns are frozen and whole, and the managed *)
(* pool keeps its cap.  Everything rests on SerialInv: the rows a claim       *)
(* selected are pending and locked until it ends.                             *)

\* Attempts.  What the row of a job says fits its attempt rows: a job that has
\* not arrived has no history, a job in flight has used an attempt it had, and a
\* job in the queue has one left.
RowExact(j) ==
    /\ status[j] = "absent" =>
         /\ attempts[j] = 0 /\ maxAttempts[j] = MaxAttempts
         /\ running[j] = {} /\ finished[j] = {}
    /\ status[j] = "processing" =>
         /\ 1 <= attempts[j] /\ attempts[j] <= maxAttempts[j]
         /\ running[j] = {attempts[j]} /\ finished[j] = 1 .. attempts[j] - 1
    /\ status[j] \in {"pending"} \cup Terminal =>
         running[j] = {} /\ finished[j] = 1 .. attempts[j]
    /\ status[j] = "pending" => attempts[j] < maxAttempts[j]

RowsExact == \A j \in Jobs : RowExact(j)

\* No envelope is ahead of its job.
ClaimBound == \A c \in claims : c.attempt <= attempts[c.job]

ClaimsInv == ClaimBound /\ ClaimIdentity /\ NewestClaimActs

LEMMA ExactImplies == TypeOK /\ RowsExact /\ ClaimsInv => ClaimsAreExact
  BY Zenon DEF TypeOK, RowsExact, RowExact, ClaimsInv, ClaimsAreExact, AttemptHistory,
         PendingHasAttempt, Statuses, Live

LEMMA InitExact == Init => RowsExact /\ ClaimsInv
  BY BoundAssumption
     DEF Init, RowsExact, RowExact, ClaimsInv, ClaimBound, ClaimIdentity, NewestClaimActs, Terminal

\* The only open attempt is the newest, and closing it completes the history.
LEMMA CloseNewest ==
    ASSUME NEW a \in Nat \ {0}
    PROVE  /\ Newest({a}) = {a} /\ {a} \ Newest({a}) = {}
           /\ (1 .. a - 1) \cup {a} = 1 .. a
<1>1. Newest({a}) = {a}
  BY DEF Newest
<1> QED
  BY <1>1

LEMMA RowKept ==
    ASSUME NEW j \in Jobs, RowExact(j),
           status'[j] = status[j], attempts'[j] = attempts[j], maxAttempts'[j] = maxAttempts[j],
           running'[j] = running[j], finished'[j] = finished[j]
    PROVE  RowExact(j)'
  BY Zenon DEF RowExact

\* A job that leaves the queue unrun keeps its (closed) history.
LEMMA RowLeaves ==
    ASSUME NEW j \in Jobs, RowExact(j), status[j] = "pending",
           status'[j] \in Terminal \cup {"pending"}, status'[j] = "pending" => status[j] = "pending",
           attempts'[j] = attempts[j], maxAttempts'[j] = maxAttempts[j],
           running'[j] = running[j], finished'[j] = finished[j]
    PROVE  RowExact(j)'
  BY Zenon DEF RowExact, Terminal

\* A step that starts no attempt and hands out no claim.
LEMMA ClaimsKept ==
    ASSUME TypeOK, ClaimsInv, claims' = claims, latest' = latest, attempts' = attempts,
           \A j \in Jobs : status'[j] = "processing" => status[j] = "processing"
    PROVE  ClaimsInv'
  BY ClaimFields, Zenon DEF ClaimsInv, ClaimBound, ClaimIdentity, NewestClaimActs, UnderClaim

\* Committing a claim opens the next attempt of each head, which was pending.
LEMMA CommitExact ==
    ASSUME TypeOK, SerialInv, RowsExact, ClaimsInv, NEW r \in Replicas, CommitClaim(r)
    PROVE  RowsExact' /\ ClaimsInv'
<1> DEFINE S == tx[r].heads
           New(j) == [job |-> j, attempt |-> attempts[j] + 1, replica |-> r,
                      issued |-> FALSE, serial |-> serial + 1]
<1>1. /\ tx[r].phase = "selected" /\ S \subseteq Jobs
      /\ \A j \in Jobs : j \in S \/ tx[r].into[j] # 0 => status[j] = "pending"
  <2>1. tx[r].phase = "selected"
    BY Zenon DEF CommitClaim
  <2>2. S \subseteq Jobs
    BY <2>1, TxKinds DEF Idle
  <2>3. LockedPending
    BY Zenon DEF SerialInv
  <2> QED
    BY <2>1, <2>2, <2>3, Zenon DEF LockedPending, LockedBy
<1>2. RowsExact'
  <2> SUFFICES ASSUME NEW j \in Jobs PROVE RowExact(j)'
    BY Zenon DEF RowsExact
  <2>1. /\ RowExact(j) /\ attempts[j] \in Nat /\ maxAttempts[j] \in Nat
        /\ maxAttempts'[j] = maxAttempts[j] /\ finished'[j] = finished[j]
    BY Zenon DEF RowsExact, TypeOK, CommitClaim
  <2>2. CASE j \in S
    <3>1. /\ status'[j] = "processing" /\ attempts'[j] = attempts[j] + 1
          /\ running'[j] = running[j] \cup {attempts[j] + 1}
      BY <2>2, Zenon DEF CommitClaim
    <3>2. /\ running[j] = {} /\ finished[j] = 1 .. attempts[j]
          /\ attempts[j] < maxAttempts[j]
      BY <1>1, <2>1, <2>2, Zenon DEF RowExact
    <3>3. attempts'[j] - 1 = attempts[j] /\ 1 <= attempts'[j] /\ attempts'[j] <= maxAttempts'[j]
      BY <2>1, <3>1, <3>2
    <3>4. running'[j] = {attempts'[j]} /\ finished'[j] = 1 .. attempts'[j] - 1
      BY <2>1, <3>1, <3>2, <3>3, Zenon
    <3> QED
      BY <3>1, <3>3, <3>4, Zenon DEF RowExact, Terminal
  <2>3. CASE j \notin S /\ tx[r].into[j] # 0
    <3>1. status'[j] = "coalesced" /\ attempts'[j] = attempts[j] /\ running'[j] = running[j]
      BY <2>3, Zenon DEF CommitClaim
    <3> QED
      BY <1>1, <2>1, <2>3, <3>1, RowLeaves, Zenon DEF Terminal
  <2>4. CASE j \notin S /\ tx[r].into[j] = 0
    <3>1. status'[j] = status[j] /\ attempts'[j] = attempts[j] /\ running'[j] = running[j]
      BY <2>4, Zenon DEF CommitClaim
    <3> QED
      BY <2>1, <3>1, RowKept, Zenon
  <2> QED
    BY <2>2, <2>3, <2>4, Zenon
<1>3. claims' = claims \cup {New(j) : j \in S}
  BY Zenon DEF CommitClaim
<1>4. ASSUME NEW j \in Jobs
      PROVE  /\ attempts[j] \in Nat
             /\ j \in S => attempts'[j] = attempts[j] + 1 /\ latest'[j] = serial + 1
             /\ j \notin S => attempts'[j] = attempts[j] /\ latest'[j] = latest[j]
             /\ j \notin S /\ status'[j] = "processing" => status[j] = "processing"
  <2>1. attempts[j] \in Nat
    BY Zenon DEF TypeOK
  <2> QED
    BY <2>1, Zenon DEF CommitClaim
<1>5. ASSUME NEW c \in claims
      PROVE  c.job \in Jobs /\ c.attempt \in Nat /\ c.attempt <= attempts[c.job]
  BY ClaimFields, Zenon DEF ClaimsInv, ClaimBound
<1>6. ASSUME NEW c \in claims' PROVE c \in claims \/ \E j \in S : c = New(j)
  BY <1>3, Zenon
<1>7. ASSUME NEW j \in S
      PROVE  New(j).job = j /\ New(j).attempt = attempts[j] + 1 /\ New(j).serial = serial + 1
  OBVIOUS
<1> HIDE DEF New
<1>8. ClaimBound'
  <2> SUFFICES ASSUME NEW c \in claims' PROVE c.attempt <= attempts'[c.job]
    BY Zenon DEF ClaimBound
  <2>1. CASE c \in claims
    BY <1>4, <1>5, <2>1
  <2>2. ASSUME NEW j \in S, c = New(j) PROVE c.attempt <= attempts'[c.job]
    BY <1>1, <1>4, <1>7, <2>2
  <2> QED
    BY <1>6, <2>1, <2>2, Zenon
<1>9. ClaimIdentity'
  <2> SUFFICES ASSUME NEW c \in claims', NEW d \in claims', c.job = d.job, c.attempt = d.attempt
               PROVE  c = d
    BY Zenon DEF ClaimIdentity
  <2>1. CASE c \in claims /\ d \in claims
    BY <2>1, Zenon DEF ClaimsInv, ClaimIdentity
  <2> QED
    BY <1>1, <1>4, <1>5, <1>6, <1>7, <2>1
<1>10. NewestClaimActs'
  <2> SUFFICES ASSUME NEW c \in claims', status'[c.job] = "processing",
                      attempts'[c.job] = c.attempt
               PROVE  c.serial = latest'[c.job]
    BY Zenon DEF NewestClaimActs, UnderClaim
  <2>1. CASE c \in claims
    <3>1. c.job \notin S
      BY <1>4, <1>5, <2>1
    <3>2. c.job \in Jobs /\ UnderClaim(c)
      BY <1>4, <1>5, <2>1, <3>1, Zenon DEF UnderClaim
    <3> QED
      BY <1>4, <2>1, <3>1, <3>2, Zenon DEF ClaimsInv, NewestClaimActs
  <2>2. ASSUME NEW j \in S, c = New(j) PROVE c.serial = latest'[c.job]
    BY <1>1, <1>4, <1>7, <2>2
  <2> QED
    BY <1>6, <2>1, <2>2, Zenon
<1> QED
  BY <1>2, <1>8, <1>9, <1>10, Zenon DEF ClaimsInv

\* An undone claim gives its number back, and its envelope disappears with it.
LEMMA ReleaseExact ==
    ASSUME TypeOK, RowsExact, ClaimsInv, NEW c \in claims, ReleaseUnissuedClaim(c)
    PROVE  RowsExact' /\ ClaimsInv'
<1>1. /\ c.job \in Jobs /\ c.attempt \in Nat \ {0}
      /\ status[c.job] = "processing" /\ attempts[c.job] = c.attempt
  BY ClaimFields, Zenon DEF ReleaseUnissuedClaim, UnderClaim
<1>2. /\ \A j \in Jobs : j # c.job => /\ status'[j] = status[j] /\ attempts'[j] = attempts[j]
                                     /\ running'[j] = running[j]
      /\ status'[c.job] = "pending" /\ attempts'[c.job] = c.attempt - 1
      /\ running'[c.job] = running[c.job] \ {c.attempt}
      /\ maxAttempts' = maxAttempts /\ finished' = finished /\ latest' = latest
      /\ claims' = claims \ {c}
  BY <1>1, Zenon DEF ReleaseUnissuedClaim, TypeOK
<1>3. RowsExact'
  <2> SUFFICES ASSUME NEW j \in Jobs PROVE RowExact(j)'
    BY Zenon DEF RowsExact
  <2>1. CASE j = c.job
    BY <1>1, <1>2, <2>1 DEF RowsExact, RowExact, Terminal, TypeOK
  <2>2. CASE j # c.job
    BY <1>2, <2>2, RowKept, Zenon DEF RowsExact
  <2> QED
    BY <2>1, <2>2, Zenon
<1>4. ASSUME NEW d \in claims'
      PROVE  /\ d \in claims /\ d # c /\ d.job \in Jobs /\ d.attempt \in Nat
             /\ d.attempt <= attempts[d.job]
  BY <1>2, ClaimFields, Zenon DEF ClaimsInv, ClaimBound
<1>5. ClaimBound'
  <2> SUFFICES ASSUME NEW d \in claims' PROVE d.attempt <= attempts'[d.job]
    BY Zenon DEF ClaimBound
  <2>1. d.job = c.job => d.attempt # c.attempt
    BY <1>4, Zenon DEF ClaimsInv, ClaimIdentity
  <2> QED
    BY <1>1, <1>2, <1>4, <2>1
<1>6. ClaimIdentity' /\ NewestClaimActs'
  BY <1>2, <1>4 DEF ClaimsInv, ClaimIdentity, NewestClaimActs, UnderClaim
<1> QED
  BY <1>3, <1>5, <1>6, Zenon DEF ClaimsInv

\* Handing an envelope out changes nothing the fences compare.
LEMMA IssueExact ==
    ASSUME TypeOK, RowsExact, ClaimsInv, NEW c \in claims, IssueClaim(c)
    PROVE  RowsExact' /\ ClaimsInv'
<1> DEFINE e == [c EXCEPT !.issued = TRUE]
<1>1. e.job = c.job /\ e.attempt = c.attempt /\ e.serial = c.serial
  BY DEF TypeOK
<1>2. claims' = (claims \ {c}) \cup {e}
  BY Zenon DEF IssueClaim
<1>3. /\ status' = status /\ attempts' = attempts /\ maxAttempts' = maxAttempts
      /\ running' = running /\ finished' = finished /\ latest' = latest
  BY Zenon DEF IssueClaim, rowVars, rowLog
<1>4. RowsExact'
  BY <1>3, Zenon DEF RowsExact, RowExact
<1> HIDE DEF e
<1> QED
  BY <1>1, <1>2, <1>3, <1>4
     DEF ClaimsInv, ClaimBound, ClaimIdentity, NewestClaimActs, UnderClaim

\* The worker's end of an attempt, and the sweep's, close the open attempt row.
LEMMA FinishExact ==
    ASSUME TypeOK, RowsExact, ClaimsInv, NEW c \in claims, UnderClaim(c), finishOpenAttempt(c.job),
           NEW st \in Terminal \cup {"pending"}, st = "pending" => ~Exhausted(c.job),
           status' = [status EXCEPT ![c.job] = st],
           UNCHANGED <<attempts, maxAttempts, claims, latest>>
    PROVE  RowsExact' /\ ClaimsInv'
<1>1. /\ c.job \in Jobs /\ c.attempt \in Nat \ {0}
      /\ status[c.job] = "processing" /\ attempts[c.job] = c.attempt
  BY ClaimFields, Zenon DEF UnderClaim
<1>2. RowsExact'
  <2> SUFFICES ASSUME NEW j \in Jobs PROVE RowExact(j)'
    BY Zenon DEF RowsExact
  <2>1. CASE j = c.job
    <3>1. running[j] = {c.attempt} /\ finished[j] = 1 .. c.attempt - 1
      BY <1>1, <2>1, Zenon DEF RowsExact, RowExact
    <3>2. /\ running'[j] = running[j] \ Newest(running[j])
          /\ finished'[j] = finished[j] \cup Newest(running[j])
      BY <2>1, Zenon DEF finishOpenAttempt, TypeOK
    <3>3. running'[j] = {} /\ finished'[j] = 1 .. c.attempt
      BY <1>1, <3>1, <3>2, CloseNewest
    <3>4. status'[j] = st
      BY <1>1, <2>1, Zenon DEF TypeOK
    <3> QED
      BY <1>1, <2>1, <3>3, <3>4 DEF RowExact, Terminal, Exhausted, TypeOK
  <2>2. CASE j # c.job
    BY <2>2, RowKept, Zenon DEF RowsExact, finishOpenAttempt, TypeOK
  <2> QED
    BY <2>1, <2>2, Zenon
<1> QED
  BY <1>1, <1>2, ClaimsKept, Zenon DEF Terminal, TypeOK

LEMMA SweepExact ==
    ASSUME TypeOK, RowsExact, ClaimsInv, RequeueStaleAgentJobs
    PROVE  RowsExact' /\ ClaimsInv'
<1>1. RowsExact'
  <2> SUFFICES ASSUME NEW j \in Jobs PROVE RowExact(j)'
    BY Zenon DEF RowsExact
  <2>1. RowExact(j) /\ attempts[j] \in Nat /\ maxAttempts[j] \in Nat /\ attempts'[j] = attempts[j]
    BY Zenon DEF RowsExact, TypeOK, RequeueStaleAgentJobs
  <2>2. CASE Stale(j)
    <3>0. /\ attempts[j] \in Nat \ {0}
          /\ running[j] = {attempts[j]} /\ finished[j] = 1 .. attempts[j] - 1
      BY <2>1, <2>2 DEF RowExact, Stale
    <3>1. finished'[j] = finished[j] \cup running[j] /\ running'[j] = {}
      BY <2>2, Zenon DEF RequeueStaleAgentJobs
    <3>2. /\ status'[j] \in {"dead_letter", "pending"}
          /\ status'[j] = "pending" => attempts[j] < maxAttempts'[j]
      BY <2>1, <2>2 DEF RequeueStaleAgentJobs, Exhausted
    <3>3. running'[j] = {} /\ finished'[j] = 1 .. attempts'[j]
      BY <2>1, <3>0, <3>1, CloseNewest, Zenon
    <3> QED
      BY <2>1, <3>2, <3>3, Zenon DEF RowExact, Terminal
  <2>3. CASE ~Stale(j)
    BY <2>1, <2>3, RowKept, Zenon DEF RequeueStaleAgentJobs
  <2> QED
    BY <2>2, <2>3, Zenon
<1> QED
  BY <1>1, ClaimsKept, Zenon DEF RequeueStaleAgentJobs, claimVars

\* Every step keeps attempts and claims exact.
LEMMA NextExact ==
    TypeOK /\ SerialInv /\ RowsExact /\ ClaimsInv /\ [Next]_vars => RowsExact' /\ ClaimsInv'
<1> SUFFICES ASSUME TypeOK, SerialInv, RowsExact, ClaimsInv, [Next]_vars
             PROVE  RowsExact' /\ ClaimsInv'
  OBVIOUS
<1> DEFINE Still == UNCHANGED <<attempts, maxAttempts, running, finished, claims, latest>>
<1>0. ASSUME Still, status' = status PROVE RowsExact' /\ ClaimsInv'
  BY <1>0, RowKept, ClaimsKept, Zenon DEF RowsExact
<1>1. ASSUME NEW j \in Jobs, NEW st \in Statuses, InsertEventEnqueueJobAndTouch(j, st)
      PROVE  RowsExact' /\ ClaimsInv'
  <2>1. Still /\ status[j] = "absent" /\ st \in {"pending", "ignored"}
    BY <1>1, Zenon DEF InsertEventEnqueueJobAndTouch, rowLog, claimVars
  <2>2. \A i \in Jobs : status'[i] = IF i = j THEN st ELSE status[i]
    BY <1>1, Zenon DEF InsertEventEnqueueJobAndTouch, TypeOK
  <2>3. RowExact(j)'
    <3>1. 1 .. 0 = {}
      OBVIOUS
    <3>2. /\ attempts'[j] = 0 /\ maxAttempts'[j] = MaxAttempts
          /\ running'[j] = {} /\ finished'[j] = {}
      BY <2>1, Zenon DEF RowsExact, RowExact
    <3> QED
      BY <2>1, <2>2, <3>1, <3>2, BoundAssumption DEF RowExact, Terminal
  <2>4. RowsExact'
    BY <2>1, <2>2, <2>3, RowKept, Zenon DEF RowsExact
  <2> QED
    BY <2>1, <2>2, <2>4, ClaimsKept, Zenon
<1>2. ASSUME NEW j \in Jobs, IgnorePending(j) PROVE RowsExact' /\ ClaimsInv'
  <2>1. Still /\ status[j] = "pending"
    BY <1>2, Zenon DEF IgnorePending, rowLog, claimVars
  <2>2. \A i \in Jobs : status'[i] = IF i = j THEN "ignored" ELSE status[i]
    BY <1>2, Zenon DEF IgnorePending, TypeOK
  <2>3. RowsExact'
    BY <2>1, <2>2, RowKept, RowLeaves, Zenon DEF RowsExact, Terminal
  <2> QED
    BY <2>1, <2>2, <2>3, ClaimsKept, Zenon
<1>3. ASSUME NEW u \in Users, purgeAgentJobs(u) PROVE RowsExact' /\ ClaimsInv'
  <2>1. UNCHANGED <<attempts, maxAttempts, claims, latest>>
    BY <1>3, Zenon DEF purgeAgentJobs, claimVars
  <2>2. ASSUME NEW j \in Jobs PROVE RowExact(j)' /\ (status'[j] = "processing" => status[j] = "processing")
    <3>1. /\ status'[j] = IF UserOf[j] = u /\ status[j] # "absent" THEN "purged" ELSE status[j]
          /\ running'[j] = IF UserOf[j] = u THEN {} ELSE running[j]
          /\ finished'[j] = IF UserOf[j] = u THEN {} ELSE finished[j]
      BY <1>3, Zenon DEF purgeAgentJobs
    <3> QED
      BY <2>1, <3>1, Zenon DEF RowsExact, RowExact, Terminal
  <2> QED
    BY <2>1, <2>2, ClaimsKept, Zenon DEF RowsExact
<1>4. ASSUME RouteUnclaimedAgentJobs PROVE RowsExact' /\ ClaimsInv'
  <2>1. Still
    BY <1>4, Zenon DEF RouteUnclaimedAgentJobs, rowLog, claimVars
  <2>2. \A j \in Jobs : status'[j] = status[j] \/ (status[j] = "pending" /\ status'[j] = "routed")
    BY <1>4, Zenon DEF RouteUnclaimedAgentJobs
  <2>3. RowsExact'
    BY <2>1, <2>2, RowKept, RowLeaves, Zenon DEF RowsExact, Terminal
  <2> QED
    BY <2>1, <2>2, <2>3, ClaimsKept, Zenon
<1>5. ASSUME NEW c \in claims, \/ \E st \in Terminal : EndJob(c, st)
                               \/ RetryAgentJob(c)
      PROVE  RowsExact' /\ ClaimsInv'
  BY <1>5, FinishExact, Zenon DEF EndJob, RetryAgentJob, claimVars, Terminal
<1>6. ASSUME \/ \E j \in Jobs : DeadlinePasses(j)
             \/ \E u \in Users, to \in Runtimes : DecideRuntime(u, to)
             \/ \E r \in Replicas, u \in Users, rt \in Runtimes : reserveInflight(r, u, rt)
             \/ \E r \in Replicas : SelectDue(r) \/ RollbackClaim(r)
             \/ \E c \in claims, forward \in BOOLEAN : InsertAgentAction(c, forward)
             \/ UNCHANGED vars
      PROVE  RowsExact' /\ ClaimsInv'
  <2>1. Still /\ status' = status
    BY <1>6, Zenon DEF DeadlinePasses, DecideRuntime, reserveInflight, SelectDue, RollbackClaim,
                InsertAgentAction, vars, rowVars, rowLog, claimVars
  <2> QED
    BY <2>1, <1>0, Zenon
<1> HIDE DEF Still
<1> QED
  BY <1>1, <1>2, <1>3, <1>4, <1>5, <1>6, CommitExact, ReleaseExact, IssueExact, SweepExact, Zenon
     DEF Next, Claim, Worker, CompleteAgentJob, CompleteAgentJobWithResult,
         RecordMessageDelete, SweepAgentMessageBodies
-----------------------------------------------------------------------------
\* Turns.  A frozen head came first in its conversation, its members have left
\* the queue, and a selected claim adds members only to a head without a turn.
HeadCameFirst ==
    \A j, p \in Jobs : head[j] = j /\ SameConv(p, j) /\ p < j => status[p] \in Over

MembersLeft ==
    \A j \in Jobs : head[j] \notin {0, j} =>
        status[j] \in {"coalesced", "purged"} /\ head[head[j]] = head[j]

TurnsSelected ==
    \A r \in Replicas : tx[r].phase = "selected" =>
        \A m \in Jobs : tx[r].into[m] # 0 =>
            /\ Coalesce
            /\ tx[r].into[m] \in tx[r].heads
            /\ SameConv(tx[r].into[m], m) /\ tx[r].into[m] < m
            /\ head[tx[r].into[m]] = 0

PlainOutbox ==
    ~OperatorRouting => \A j \in Jobs : status[j] # "absent" => j \in outbox

TurnInv == HeadCameFirst /\ MembersLeft /\ TurnsSelected /\ PlainOutbox /\ TurnsAreWhole

LEMMA InitTurn == Init => TurnInv
<1> SUFFICES ASSUME Init PROVE TurnInv
  OBVIOUS
<1>1. /\ \A j \in Jobs : status[j] = "absent" /\ head[j] = 0 /\ j # 0
      /\ \A r \in Replicas : tx[r].phase # "selected"
  BY JobsAssumption, Zenon DEF Init, Idle
<1>2. HeadCameFirst /\ MembersLeft /\ TurnsSelected
  BY <1>1, Zenon DEF HeadCameFirst, MembersLeft, TurnsSelected
<1>3. PlainOutbox /\ TurnsAreWhole
  BY <1>1, Zenon DEF PlainOutbox, TurnsAreWhole, CoalescedHasHead, FailedTurnForwarded
<1> QED
  BY <1>2, <1>3, Zenon DEF TurnInv

Failed == {"failed", "dead_letter", "routed"}

\* Routing the turns of S puts the whole turn of each of them into the outbox;
\* without operator routing it is there since ingest.
LEMMA RoutedTurn ==
    ASSUME TypeOK, TurnInv, NEW S \in SUBSET Jobs, NEW h \in S, status[h] # "absent"
    PROVE  TurnJobs(h) \subseteq routeJobEventTx(S) /\ outbox \subseteq routeJobEventTx(S)
<1>1. CASE OperatorRouting
  BY <1>1, Zenon DEF routeJobEventTx
<1>2. CASE ~OperatorRouting
  <2>1. \A j \in TurnJobs(h) : j \in Jobs /\ status[j] # "absent"
    BY JobsAssumption, Zenon DEF TurnJobs, TurnInv, MembersLeft
  <2> QED
    BY <1>2, <2>1, Zenon DEF routeJobEventTx, TurnInv, PlainOutbox
<1> QED
  BY <1>1, <1>2, Zenon

\* A step that leaves turns and claims alone.
LEMMA TurnQuiet ==
    ASSUME TypeOK, TurnInv, head' = head, tx' = tx, outbox \subseteq outbox',
           \A j \in Jobs :
             /\ status[j] \in Over => status'[j] \in Over
             /\ status[j] \in {"coalesced", "purged"} => status'[j] \in {status[j], "purged"}
             /\ status'[j] = "coalesced" => status[j] = "coalesced"
             /\ ~OperatorRouting /\ status[j] = "absent" /\ status'[j] # "absent" => j \in outbox'
             /\ status'[j] \in Failed /\ status[j] \notin Failed => TurnJobs(j) \subseteq outbox'
    PROVE  TurnInv'
<1>1. HeadCameFirst'
  BY Zenon DEF TurnInv, HeadCameFirst
<1>2. MembersLeft'
  BY Zenon DEF TurnInv, MembersLeft
<1>3. TurnsSelected'
  BY Zenon DEF TurnInv, TurnsSelected
<1>4. PlainOutbox'
  BY Zenon DEF TurnInv, PlainOutbox
<1>5. CoalescedHasHead'
  BY Zenon DEF TurnInv, TurnsAreWhole, CoalescedHasHead
<1>6. FailedTurnForwarded'
  BY Zenon DEF TurnInv, TurnsAreWhole, FailedTurnForwarded, TurnJobs, Failed
<1> QED
  BY <1>1, <1>2, <1>3, <1>4, <1>5, <1>6, Zenon DEF TurnInv, TurnsAreWhole

LEMMA TurnUnlock ==
    ASSUME TypeOK, TurnInv, NEW r \in Replicas, NEW t, t.phase # "selected",
           tx' = [tx EXCEPT ![r] = t], UNCHANGED <<status, head, outbox>>
    PROVE  TurnInv'
<1>1. \A q \in Replicas : tx'[q] = IF q = r THEN t ELSE tx[q]
  BY Zenon DEF TypeOK
<1>2. TurnsSelected'
  BY <1>1 DEF TurnInv, TurnsSelected
<1> QED
  BY <1>2, Zenon DEF TurnInv, HeadCameFirst, MembersLeft, PlainOutbox, TurnsAreWhole,
              CoalescedHasHead, FailedTurnForwarded, TurnJobs

LEMMA TurnSelect ==
    ASSUME TypeOK, TurnInv, NEW r \in Replicas, SelectDue(r)
    PROVE  TurnInv'
<1>1. PICK S \in SUBSET Jobs :
        \E into \in [Jobs -> S \cup {0}] :
             /\ Turns(S, into)
             /\ tx' = [tx EXCEPT ![r] =
                         [phase |-> "selected", user |-> tx[r].user,
                          runtime |-> tx[r].runtime, room |-> tx[r].room,
                          heads |-> S, into |-> into]]
  BY Zenon DEF SelectDue
<1>2. PICK into \in [Jobs -> S \cup {0}] :
        /\ Turns(S, into)
        /\ tx' = [tx EXCEPT ![r] =
                    [phase |-> "selected", user |-> tx[r].user,
                     runtime |-> tx[r].runtime, room |-> tx[r].room,
                     heads |-> S, into |-> into]]
  BY <1>1, Zenon
<1>3. UNCHANGED <<status, head, outbox>>
  BY Zenon DEF SelectDue, rowVars
<1>4. /\ \A q \in Replicas : q # r => tx'[q] = tx[q]
      /\ tx'[r].heads = S /\ tx'[r].into = into
  BY <1>2, Zenon DEF TypeOK
<1>5. ASSUME NEW m \in Jobs, into[m] # 0
      PROVE  /\ Coalesce /\ into[m] \in S /\ SameConv(into[m], m) /\ into[m] < m
             /\ head[into[m]] = 0
  BY <1>2, <1>5, JobsAssumption, Zenon DEF Turns, Followers, SameConv
<1>6. TurnsSelected'
  BY <1>3, <1>4, <1>5 DEF TurnInv, TurnsSelected
<1>7. HeadCameFirst' /\ MembersLeft' /\ PlainOutbox'
  BY <1>3, Zenon DEF TurnInv, HeadCameFirst, MembersLeft, PlainOutbox
<1>8. TurnsAreWhole'
  BY <1>3, Zenon DEF TurnInv, TurnsAreWhole, CoalescedHasHead, FailedTurnForwarded, TurnJobs
<1> QED
  BY <1>6, <1>7, <1>8, Zenon DEF TurnInv

\* What a commit does to a turn: a head that had none gets one of itself and its
\* members, no head is a member, and no row in a turn changes it.
LEMMA CommitTurns ==
    ASSUME TypeOK, SerialInv, TurnInv, NEW r \in Replicas, CommitClaim(r)
    PROVE  /\ tx[r].heads \subseteq Jobs
           /\ \A j \in tx[r].heads : /\ status[j] = "pending" /\ tx[r].into[j] = 0
                                     /\ head[j] \in {0, j}
                                     /\ head'[j] = IF Coalesce THEN j ELSE head[j]
           /\ \A j \in Jobs : tx[r].into[j] # 0 =>
                /\ Coalesce /\ status[j] = "pending" /\ head[j] = 0
                /\ tx[r].into[j] \in tx[r].heads /\ head'[j] = tx[r].into[j]
                /\ SameConv(tx[r].into[j], j) /\ tx[r].into[j] < j
                /\ head[tx[r].into[j]] = 0
           /\ \A j \in Jobs : j \notin tx[r].heads /\ tx[r].into[j] = 0 => head'[j] = head[j]
<1>1. /\ tx[r].phase = "selected" /\ tx[r].heads \subseteq Jobs
      /\ \A j \in Jobs : j \in tx[r].heads \/ tx[r].into[j] # 0 => status[j] = "pending"
  <2>1. tx[r].phase = "selected"
    BY Zenon DEF CommitClaim
  <2>2. tx[r].heads \subseteq Jobs
    BY <2>1, TxKinds DEF Idle
  <2>3. LockedPending
    BY Zenon DEF SerialInv
  <2> QED
    BY <2>1, <2>2, <2>3, Zenon DEF LockedPending, LockedBy
<1>2. \A j \in Jobs : head'[j] = TurnOf(j, tx[r].heads, tx[r].into)
  BY Zenon DEF CommitClaim
<1>3. ASSUME NEW j \in Jobs, tx[r].into[j] # 0
      PROVE  /\ Coalesce /\ tx[r].into[j] \in tx[r].heads
             /\ SameConv(tx[r].into[j], j) /\ tx[r].into[j] < j /\ head[tx[r].into[j]] = 0
             /\ tx[r].into[j] \in Jobs /\ status[tx[r].into[j]] \notin Over
  <2>1. /\ Coalesce /\ tx[r].into[j] \in tx[r].heads
        /\ SameConv(tx[r].into[j], j) /\ tx[r].into[j] < j /\ head[tx[r].into[j]] = 0
    BY <1>1, <1>3, Zenon DEF TurnInv, TurnsSelected
  <2> QED
    BY <1>1, <2>1, Zenon DEF Over, Terminal
<1>4. \A j \in tx[r].heads : tx[r].into[j] = 0
  BY <1>1, <1>3, Zenon DEF SerialInv, HeadsFirst
<1>5. \A j \in Jobs : status[j] = "pending" => head[j] \in {0, j}
  BY Zenon DEF TurnInv, MembersLeft
<1>6. \A j \in Jobs : tx[r].into[j] # 0 => head[j] = 0
  <2> SUFFICES ASSUME NEW j \in Jobs, tx[r].into[j] # 0, head[j] = j PROVE FALSE
    BY <1>1, <1>5, Zenon
  <2> QED
    BY <1>3, Zenon DEF TurnInv, HeadCameFirst
<1> QED
  BY <1>1, <1>2, <1>3, <1>4, <1>5, <1>6, Zenon DEF TurnOf

LEMMA TurnCommit ==
    ASSUME TypeOK, SerialInv, TurnInv, NEW r \in Replicas, CommitClaim(r)
    PROVE  TurnInv'
<1> DEFINE S == tx[r].heads
           into == tx[r].into
<1>1. /\ S \subseteq Jobs
      /\ \A j \in S : /\ status[j] = "pending" /\ into[j] = 0 /\ head[j] \in {0, j}
                      /\ head'[j] = IF Coalesce THEN j ELSE head[j]
      /\ \A j \in Jobs : into[j] # 0 =>
           /\ Coalesce /\ status[j] = "pending" /\ head[j] = 0
           /\ into[j] \in S /\ head'[j] = into[j]
           /\ SameConv(into[j], j) /\ into[j] < j /\ head[into[j]] = 0
      /\ \A j \in Jobs : j \notin S /\ into[j] = 0 => head'[j] = head[j]
  BY CommitTurns
<1>2. \A j \in Jobs : status'[j] = IF j \in S THEN "processing"
                                   ELSE IF into[j] # 0 THEN "coalesced" ELSE status[j]
  BY Zenon DEF CommitClaim
<1>3. /\ \A q \in Replicas : q # r => tx'[q] = tx[q]
      /\ tx'[r].phase = "idle" /\ outbox' = outbox
  BY Zenon DEF CommitClaim, TypeOK, Idle
<1>4. tx[r].phase = "selected"
  BY Zenon DEF CommitClaim
<1> HIDE DEF S, into
<1>5. \A j \in Jobs : status[j] \in Over => status'[j] = status[j] /\ head'[j] = head[j]
  BY <1>1, <1>2, Zenon DEF Over, Terminal
<1>6. HeadCameFirst'
  <2> SUFFICES ASSUME NEW j \in Jobs, NEW p \in Jobs, head'[j] = j, SameConv(p, j), p < j
               PROVE  status'[p] \in Over
    BY Zenon DEF HeadCameFirst
  <2>1. CASE j \in S
    <3>1. status[p] \in Over
      BY <1>4, <2>1, Zenon DEF SerialInv, HeadsFirst, S
    <3> QED
      BY <1>5, <3>1, Zenon
  <2>2. CASE j \notin S
    <3>1. head[j] = j
      BY <1>1, <2>2, JobsAssumption, Zenon
    <3>2. status[p] \in Over
      BY <3>1, Zenon DEF TurnInv, HeadCameFirst
    <3> QED
      BY <1>5, <3>2, Zenon
  <2> QED
    BY <2>1, <2>2, Zenon
<1>7. MembersLeft'
  <2> SUFFICES ASSUME NEW j \in Jobs, head'[j] \notin {0, j}
               PROVE  status'[j] \in {"coalesced", "purged"} /\ head'[head'[j]] = head'[j]
    BY Zenon DEF MembersLeft
  <2>1. CASE into[j] # 0
    <3>1. j \notin S /\ head'[j] = into[j] /\ into[j] \in S /\ Coalesce
      BY <1>1, <2>1, Zenon
    <3> QED
      BY <1>1, <1>2, <2>1, <3>1, Zenon
  <2>2. CASE into[j] = 0
    <3>1. j \notin S /\ head'[j] = head[j]
      BY <1>1, <2>2, Zenon
    <3>2. /\ status[j] \in {"coalesced", "purged"} /\ head[head[j]] = head[j]
          /\ head[j] \in Jobs
      BY <3>1, Zenon DEF TurnInv, MembersLeft, TypeOK
    <3>3. head[j] \in S => head'[head[j]] = head[j]
      BY <1>1, <3>2, Zenon
    <3>4. into[head[j]] = 0
      BY <1>1, <3>2, JobsAssumption, Zenon
    <3> QED
      BY <1>1, <1>2, <2>2, <3>1, <3>2, <3>3, <3>4
  <2> QED
    BY <2>1, <2>2, Zenon
<1>8. TurnsSelected'
  <2> SUFFICES ASSUME NEW q \in Replicas, tx'[q].phase = "selected", NEW m \in Jobs,
                      tx'[q].into[m] # 0
               PROVE  /\ Coalesce /\ tx'[q].into[m] \in tx'[q].heads
                      /\ SameConv(tx'[q].into[m], m) /\ tx'[q].into[m] < m
                      /\ head'[tx'[q].into[m]] = 0
    BY Zenon DEF TurnsSelected
  <2>1. q # r /\ tx'[q] = tx[q]
    BY <1>3, Zenon
  <2>2. /\ Coalesce /\ tx[q].into[m] \in tx[q].heads
        /\ SameConv(tx[q].into[m], m) /\ tx[q].into[m] < m
        /\ head[tx[q].into[m]] = 0
    BY <2>1, Zenon DEF TurnInv, TurnsSelected
  <2>3. tx[q].into[m] \in Jobs /\ LockedBy(q, tx[q].into[m])
    BY <2>1, <2>2, TxKinds DEF LockedBy, Idle
  <2>4. ~LockedBy(r, tx[q].into[m])
    BY <2>1, <2>3, Zenon DEF SerialInv, LocksDisjoint
  <2>5. head'[tx[q].into[m]] = head[tx[q].into[m]]
    BY <1>1, <1>4, <2>3, <2>4, Zenon DEF LockedBy, S, into
  <2> QED
    BY <2>1, <2>2, <2>5, Zenon
<1>9. PlainOutbox'
  BY <1>1, <1>2, <1>3, Zenon DEF TurnInv, PlainOutbox
<1>10. CoalescedHasHead'
  <2> SUFFICES ASSUME NEW j \in Jobs, status'[j] = "coalesced"
               PROVE  /\ head'[j] \in Jobs /\ head'[j] < j /\ SameConv(head'[j], j)
                      /\ head'[head'[j]] = head'[j] /\ status'[head'[j]] # "coalesced"
    BY Zenon DEF CoalescedHasHead
  <2>1. CASE into[j] # 0
    <3>1. head'[j] = into[j] /\ into[j] \in S /\ Coalesce /\ SameConv(into[j], j) /\ into[j] < j
      BY <1>1, <2>1, Zenon
    <3>2. PICK h \in Jobs : h = into[j] /\ h \in S
      BY <1>1, <3>1, Zenon
    <3>3. head'[h] = h /\ status'[h] = "processing"
      BY <1>1, <1>2, <3>1, <3>2, Zenon
    <3> QED
      BY <3>1, <3>2, <3>3, Zenon
  <2>2. CASE into[j] = 0
    <3>1. j \notin S /\ status[j] = "coalesced" /\ head'[j] = head[j]
      BY <1>1, <1>2, <2>2, Zenon
    <3>2. /\ head[j] \in Jobs /\ head[j] < j /\ SameConv(head[j], j)
          /\ head[head[j]] = head[j] /\ status[head[j]] # "coalesced"
      BY <3>1, Zenon DEF TurnInv, TurnsAreWhole, CoalescedHasHead
    <3>3. into[head[j]] = 0
      BY <1>1, <3>2, JobsAssumption
    <3>4. head'[head[j]] = head[j]
      BY <1>1, <3>2, <3>3, Zenon
    <3> QED
      BY <1>2, <3>1, <3>2, <3>3, <3>4, Zenon
  <2> QED
    BY <2>1, <2>2, Zenon
<1>11. FailedTurnForwarded'
  <2> SUFFICES ASSUME NEW h \in Jobs, status'[h] \in Failed, NEW j \in Jobs,
                      j = h \/ head'[j] = h
               PROVE  j \in outbox
    BY <1>3, Zenon DEF FailedTurnForwarded, TurnJobs, Failed
  <2>1. h \notin S /\ status[h] \in Failed
    BY <1>2, Zenon DEF Failed
  <2>2. j = h \/ head[j] = h
    BY <1>1, <2>1
  <2> QED
    BY <2>1, <2>2, Zenon DEF TurnInv, TurnsAreWhole, FailedTurnForwarded, TurnJobs, Failed
<1> QED
  BY <1>6, <1>7, <1>8, <1>9, <1>10, <1>11, Zenon DEF TurnInv, TurnsAreWhole

\* Every step keeps turns whole.
LEMMA NextTurn == TypeOK /\ SerialInv /\ TurnInv /\ [Next]_vars => TurnInv'
<1> SUFFICES ASSUME TypeOK, SerialInv, TurnInv, [Next]_vars PROVE TurnInv'
  OBVIOUS
<1> USE DEF Over, Terminal, Failed
<1>1. ASSUME NEW j \in Jobs, NEW st \in Statuses, InsertEventEnqueueJobAndTouch(j, st)
      PROVE  TurnInv'
  <2>1. /\ status[j] = "absent" /\ st \in {"pending", "ignored"} /\ head' = head /\ tx' = tx
        /\ outbox \subseteq outbox'
        /\ ~OperatorRouting => j \in outbox'
    BY <1>1, Zenon DEF InsertEventEnqueueJobAndTouch
  <2>2. \A i \in Jobs : status'[i] = IF i = j THEN st ELSE status[i]
    BY <1>1, Zenon DEF InsertEventEnqueueJobAndTouch, TypeOK
  <2> QED
    BY <2>1, <2>2, TurnQuiet, Zenon
<1>2. ASSUME NEW j \in Jobs, IgnorePending(j) PROVE TurnInv'
  <2>1. status[j] = "pending" /\ UNCHANGED <<head, tx, outbox>>
    BY <1>2, Zenon DEF IgnorePending
  <2>2. \A i \in Jobs : status'[i] = IF i = j THEN "ignored" ELSE status[i]
    BY <1>2, Zenon DEF IgnorePending, TypeOK
  <2> QED
    BY <2>1, <2>2, TurnQuiet, Zenon
<1>3. ASSUME NEW u \in Users, purgeAgentJobs(u) PROVE TurnInv'
  <2>1. UNCHANGED <<head, tx, outbox>>
    BY <1>3, Zenon DEF purgeAgentJobs
  <2>2. \A j \in Jobs : status'[j] = IF UserOf[j] = u /\ status[j] # "absent"
                                   THEN "purged" ELSE status[j]
    BY <1>3, Zenon DEF purgeAgentJobs
  <2>3. \A j \in Jobs :
          /\ status[j] \in Over => status'[j] \in Over
          /\ status[j] \in {"coalesced", "purged"} => status'[j] \in {status[j], "purged"}
          /\ status'[j] = "coalesced" => status[j] = "coalesced"
          /\ ~(status[j] = "absent" /\ status'[j] # "absent")
          /\ status'[j] \in Failed => status[j] \in Failed
    BY <2>2, Zenon
  <2> QED
    BY <2>1, <2>3, TurnQuiet, Zenon
<1>4. ASSUME RouteUnclaimedAgentJobs PROVE TurnInv'
  <2>1. head' = head /\ tx' = tx
    BY <1>4, Zenon DEF RouteUnclaimedAgentJobs
  <2>2. PICK S \in SUBSET {j \in Jobs : status[j] = "pending" /\ attempts[j] = 0} :
          /\ status' = [j \in Jobs |-> IF j \in S THEN "routed" ELSE status[j]]
          /\ outbox' = routeJobEventTx(S)
    BY <1>4, Zenon DEF RouteUnclaimedAgentJobs
  <2>3. \A j \in Jobs : status'[j] = IF j \in S THEN "routed" ELSE status[j]
    BY <2>2, Zenon
  <2>4. \A h \in S : status[h] = "pending" /\ TurnJobs(h) \subseteq outbox'
    BY <2>2, RoutedTurn, Zenon
  <2>5. outbox \subseteq outbox'
    BY <2>2, Zenon DEF routeJobEventTx
  <2> QED
    BY <2>1, <2>3, <2>4, <2>5, TurnQuiet, Zenon
<1>5. ASSUME NEW c \in claims, NEW st \in Statuses, status[c.job] = "processing",
             st \in {"pending", "completed", "ignored"} \cup Failed,
             status' = [status EXCEPT ![c.job] = st], UNCHANGED <<head, tx>>,
             outbox' = IF st \in Failed THEN routeJobEventTx({c.job}) ELSE outbox
      PROVE  TurnInv'
  <2>1. c.job \in Jobs
    BY ClaimFields, Zenon
  <2>2. \A i \in Jobs : status'[i] = IF i = c.job THEN st ELSE status[i]
    BY <1>5, <2>1, Zenon DEF TypeOK
  <2>3. outbox \subseteq outbox'
    BY <1>5, Zenon DEF routeJobEventTx
  <2>4. st \in Failed => TurnJobs(c.job) \subseteq outbox'
    BY <1>5, <2>1, RoutedTurn, Zenon
  <2> QED
    BY <1>5, <2>1, <2>2, <2>3, <2>4, TurnQuiet, Zenon
<1>6. ASSUME NEW c \in claims, NEW st \in Terminal, EndJob(c, st) PROVE TurnInv'
  BY <1>5, <1>6, Zenon DEF EndJob, UnderClaim, Statuses
<1>7. ASSUME NEW c \in claims, RetryAgentJob(c) PROVE TurnInv'
  <2>1. CASE Exhausted(c.job)
    BY <1>5, <1>7, <2>1, Zenon DEF RetryAgentJob, UnderClaim, Statuses
  <2>2. CASE ~Exhausted(c.job)
    BY <1>5, <1>7, <2>2, Zenon DEF RetryAgentJob, UnderClaim, Statuses, Live
  <2> QED
    BY <2>1, <2>2, Zenon
<1>8. ASSUME NEW c \in claims, ReleaseUnissuedClaim(c) PROVE TurnInv'
  BY <1>5, <1>8, Zenon DEF ReleaseUnissuedClaim, UnderClaim, Statuses, Live
<1>9. ASSUME RequeueStaleAgentJobs PROVE TurnInv'
  <2> DEFINE dead == {j \in {i \in Jobs : Stale(i)} \ {i \in {k \in Jobs : Stale(k)} : ~RuntimeFence(i)} :
                        Exhausted(j)}
  <2>1. UNCHANGED <<head, tx>> /\ outbox' = routeJobEventTx(dead)
    BY <1>9, Zenon DEF RequeueStaleAgentJobs
  <2>2. \A j \in Jobs : status'[j] = IF j \in dead THEN "dead_letter"
                                     ELSE IF Stale(j) THEN "pending" ELSE status[j]
    BY <1>9, Zenon DEF RequeueStaleAgentJobs
  <2>3. \A h \in dead : status[h] = "processing" /\ TurnJobs(h) \subseteq outbox'
    BY <2>1, RoutedTurn, Zenon DEF Stale
  <2>4. outbox \subseteq outbox'
    BY <2>1, Zenon DEF routeJobEventTx
  <2>5. \A j \in Jobs : Stale(j) => status[j] = "processing"
    BY Zenon DEF Stale
  <2> HIDE DEF dead
  <2> QED
    BY <2>1, <2>2, <2>3, <2>4, <2>5, TurnQuiet, Zenon
<1>10. ASSUME NEW c \in claims, NEW forward \in BOOLEAN, InsertAgentAction(c, forward)
       PROVE  TurnInv'
  BY <1>10, TurnQuiet, Zenon DEF InsertAgentAction, rowVars, routeJobEventTx
<1>11. ASSUME \/ \E j \in Jobs : DeadlinePasses(j)
              \/ \E u \in Users, to \in Runtimes : DecideRuntime(u, to)
              \/ \E c \in claims : IssueClaim(c)
              \/ UNCHANGED vars
       PROVE  TurnInv'
  <2>1. UNCHANGED <<status, head, tx, outbox>>
    BY <1>11, Zenon DEF DeadlinePasses, DecideRuntime, IssueClaim, vars, rowVars
  <2> QED
    BY <2>1, TurnQuiet, Zenon
<1>12. ASSUME NEW r \in Replicas, NEW u \in Users, NEW rt \in Runtimes, reserveInflight(r, u, rt)
       PROVE  TurnInv'
  BY <1>12, TurnUnlock, Zenon DEF reserveInflight, rowVars
<1>13. ASSUME NEW r \in Replicas, RollbackClaim(r) PROVE TurnInv'
  BY <1>13, TurnUnlock, Zenon DEF RollbackClaim, rowVars, Idle
<1> QED
  BY <1>1, <1>2, <1>3, <1>4, <1>6, <1>7, <1>8, <1>9, <1>10, <1>11, <1>12, <1>13,
     TurnSelect, TurnCommit, Zenon
     DEF Next, Claim, Worker, CompleteAgentJob, CompleteAgentJobWithResult,
         RecordMessageDelete, SweepAgentMessageBodies
-----------------------------------------------------------------------------
\* What a commit, the only writer of head, does to a frozen turn: nothing.
LEMMA FrozenByCommit ==
    ASSUME TypeOK, SerialInv, TurnInv, NEW r \in Replicas, CommitClaim(r), NEW j \in Jobs,
           head[j] # 0
    PROVE  head'[j] = head[j] /\ (head[j] = j => TurnJobs(j)' = TurnJobs(j))
<1>1. \A i \in Jobs : head[i] # 0 => head'[i] = head[i]
  BY CommitTurns, Zenon
<1>2. ASSUME head[j] = j, NEW i \in Jobs PROVE head'[i] = j <=> head[i] = j
  <2>1. CASE head[i] # 0
    BY <1>1, <2>1, Zenon
  <2>2. CASE head[i] = 0 /\ head'[i] = j /\ i = j
    BY <1>2, <2>2, Zenon
  <2>3. CASE head[i] = 0 /\ head'[i] = j /\ i # j
    <3>1. i \notin tx[r].heads
      BY <2>3, CommitTurns, JobsAssumption, Zenon
    <3>2. tx[r].into[i] = j
      BY <2>3, <3>1, CommitTurns, JobsAssumption, Zenon
    <3> QED
      BY <1>2, <3>2, CommitTurns, JobsAssumption
  <2>4. head[i] = 0 => head[i] # j
    BY JobsAssumption, Zenon
  <2> QED
    BY <2>1, <2>2, <2>3, <2>4, Zenon
<1> QED
  BY <1>1, <1>2, Zenon DEF TurnJobs

\* No step moves a terminal job, except the deletion of its account.
LEMMA TerminalStep ==
    ASSUME TypeOK, SerialInv, [Next]_vars, NEW j \in Jobs, status[j] \in Terminal
    PROVE  status'[j] \in {status[j], "purged"}
<1> USE DEF Terminal
<1>1. ASSUME NEW i \in Jobs, NEW st \in Statuses, InsertEventEnqueueJobAndTouch(i, st)
      PROVE  status'[j] = status[j]
  BY <1>1, Zenon DEF InsertEventEnqueueJobAndTouch, TypeOK
<1>2. ASSUME NEW i \in Jobs, IgnorePending(i) PROVE status'[j] = status[j]
  BY <1>2, Zenon DEF IgnorePending, TypeOK
<1>3. ASSUME NEW u \in Users, purgeAgentJobs(u) PROVE status'[j] \in {status[j], "purged"}
  BY <1>3, Zenon DEF purgeAgentJobs
<1>4. ASSUME RouteUnclaimedAgentJobs PROVE status'[j] = status[j]
  BY <1>4, Zenon DEF RouteUnclaimedAgentJobs
<1>5. ASSUME NEW c \in claims, \/ \E st \in Terminal : EndJob(c, st)
                               \/ RetryAgentJob(c) \/ ReleaseUnissuedClaim(c)
      PROVE  status'[j] = status[j]
  <2>1. c.job \in Jobs /\ status[c.job] = "processing"
    BY <1>5, ClaimFields, Zenon DEF EndJob, RetryAgentJob, ReleaseUnissuedClaim, UnderClaim
  <2>2. \A i \in Jobs : i # c.job => status'[i] = status[i]
    BY <1>5, Zenon DEF EndJob, RetryAgentJob, ReleaseUnissuedClaim, TypeOK
  <2> QED
    BY <2>1, <2>2, Zenon
<1>6. ASSUME RequeueStaleAgentJobs PROVE status'[j] = status[j]
  BY <1>6, Zenon DEF RequeueStaleAgentJobs, Stale
<1>7. ASSUME NEW r \in Replicas, CommitClaim(r) PROVE status'[j] = status[j]
  <2>1. ~LockedBy(r, j)
    BY Zenon DEF SerialInv, LockedPending
  <2>2. /\ tx[r].phase = "selected"
        /\ status'[j] = IF j \in tx[r].heads THEN "processing"
                        ELSE IF tx[r].into[j] # 0 THEN "coalesced" ELSE status[j]
    BY <1>7, Zenon DEF CommitClaim
  <2> QED
    BY <2>1, <2>2, Zenon DEF LockedBy
<1>8. ASSUME \/ \E i \in Jobs : DeadlinePasses(i)
             \/ \E u \in Users, to \in Runtimes : DecideRuntime(u, to)
             \/ \E r \in Replicas, u \in Users, rt \in Runtimes : reserveInflight(r, u, rt)
             \/ \E r \in Replicas : SelectDue(r) \/ RollbackClaim(r)
             \/ \E c \in claims : IssueClaim(c) \/ \E forward \in BOOLEAN : InsertAgentAction(c, forward)
             \/ UNCHANGED vars
      PROVE  status'[j] = status[j]
  BY <1>8, Zenon DEF DeadlinePasses, DecideRuntime, reserveInflight, SelectDue, RollbackClaim,
              IssueClaim, InsertAgentAction, vars, rowVars
<1> QED
  BY <1>1, <1>2, <1>3, <1>4, <1>5, <1>6, <1>7, <1>8, Zenon
     DEF Next, Claim, Worker, CompleteAgentJob, CompleteAgentJobWithResult,
         RecordMessageDelete, SweepAgentMessageBodies

\* Only a commit writes head.
LEMMA HeadStep ==
    ASSUME [Next]_vars, head' # head
    PROVE  \E r \in Replicas : CommitClaim(r)
  BY DEF Next, Claim, Worker, CompleteAgentJob, CompleteAgentJobWithResult, EndJob,
         InsertEventEnqueueJobAndTouch, DeadlinePasses, RecordMessageDelete,
         SweepAgentMessageBodies, IgnorePending, DecideRuntime, purgeAgentJobs,
         reserveInflight, SelectDue, RollbackClaim, IssueClaim, ReleaseUnissuedClaim,
         InsertAgentAction, RetryAgentJob, RequeueStaleAgentJobs, RouteUnclaimedAgentJobs,
         vars, rowVars
-----------------------------------------------------------------------------
\* From here on jobs are counted: the room of a claim and the cap of the pool.
INSTANCE FiniteSetTheorems

\* An account's processing jobs are finitely many, so a claim can count them.
LEMMA ProcessingFinite ==
    ASSUME NEW u
    PROVE  IsFiniteSet(Processing(u)) /\ Cardinality(Processing(u)) \in Nat
<1>1. Processing(u) \in SUBSET Jobs
  BY Zenon DEF Processing
<1> QED
  BY <1>1, JobsAssumption, FS_Subset, FS_CardinalityType, Zenon

\* The room of a claim is an integer, and a natural number once it is checked.
LEMMA RoomType == RoomsTyped
  BY ProcessingFinite, BoundAssumption DEF RoomsTyped, Room, HasRoom

\* So every action keeps the types.
LEMMA NextTypeOK == TypeOK /\ [Next]_vars => TypeOK'
  BY RoomType, NextTypes, Zenon
-----------------------------------------------------------------------------
\* The cap.  The advisory lock leaves each account one pool claim, whose room
\* still fits, and which selects jobs of that account within the room.
OnePoolClaim ==
    \A q, r \in Replicas :
        /\ tx[q].phase # "idle" /\ tx[q].runtime = "managed"
        /\ tx[r].phase # "idle" /\ tx[r].runtime = "managed"
        /\ tx[q].user = tx[r].user
        => q = r

RoomFits ==
    \A r \in Replicas, u \in Users :
        tx[r].phase # "idle" /\ tx[r].runtime = "managed" /\ tx[r].user = u =>
            Cardinality(ManagedProcessing(u)) + tx[r].room <= MaxInflight

SelectedFits ==
    \A r \in Replicas : tx[r].phase = "selected" =>
        /\ \A j \in tx[r].heads : UserOf[j] = tx[r].user
        /\ Cardinality(tx[r].heads) <= tx[r].room

CapInv == OnePoolClaim /\ RoomFits /\ SelectedFits /\ ManagedInflightCap

LEMMA ManagedFinite ==
    ASSUME NEW u
    PROVE  /\ IsFiniteSet(ManagedProcessing(u)) /\ Cardinality(ManagedProcessing(u)) \in Nat
           /\ Cardinality(ManagedProcessing(u)) <= Cardinality(Processing(u))
<1>1. ManagedProcessing(u) \in SUBSET Processing(u)
  BY Zenon DEF ManagedProcessing
<1> QED
  BY <1>1, ProcessingFinite, FS_Subset, FS_CardinalityType, Zenon

LEMMA InitCap == Init => CapInv
<1> SUFFICES ASSUME Init PROVE CapInv
  OBVIOUS
<1>1. OnePoolClaim /\ RoomFits /\ SelectedFits
  BY Zenon DEF Init, Idle, OnePoolClaim, RoomFits, SelectedFits
<1>2. ASSUME NEW u \in Users PROVE Cardinality(ManagedProcessing(u)) <= MaxInflight
  <2>1. ManagedProcessing(u) = {}
    BY Zenon DEF Init, ManagedProcessing, Processing
  <2> QED
    BY <2>1, FS_EmptySet, BoundAssumption
<1> QED
  BY <1>1, <1>2, Zenon DEF CapInv, ManagedInflightCap

\* Jobs only leave an account's managed in-flight set.
LEMMA CapShrinks ==
    ASSUME NEW u,
           \A j \in Jobs : status'[j] = "processing" /\ jobRuntime'[j] = "managed" =>
                          status[j] = "processing" /\ jobRuntime[j] = "managed"
    PROVE  /\ Cardinality(ManagedProcessing(u)') <= Cardinality(ManagedProcessing(u))
           /\ Cardinality(ManagedProcessing(u)') \in Nat
<1>1. ManagedProcessing(u)' \in SUBSET ManagedProcessing(u)
  BY Zenon DEF ManagedProcessing, Processing
<1> QED
  BY <1>1, ManagedFinite, FS_Subset, FS_CardinalityType, Zenon

\* A step that starts no managed job, and changes the claim of replica r at most:
\* t, its new transaction, respects the lock, the room and the selection.
LEMMA CapQuiet ==
    ASSUME TypeOK, CapInv, NEW r \in Replicas, NEW t, tx' = [tx EXCEPT ![r] = t],
           \A j \in Jobs : status'[j] = "processing" /\ jobRuntime'[j] = "managed" =>
                          status[j] = "processing" /\ jobRuntime[j] = "managed",
           t.phase # "idle" /\ t.runtime = "managed" =>
               /\ t.user \in Users
               /\ \A q \in Replicas \ {r} :
                     ~(tx[q].phase # "idle" /\ tx[q].user = t.user /\ tx[q].runtime = "managed")
               /\ t.room \in Nat
               /\ Cardinality(ManagedProcessing(t.user)) + t.room <= MaxInflight,
           t.phase = "selected" =>
               /\ \A j \in t.heads : UserOf[j] = t.user
               /\ Cardinality(t.heads) <= t.room
    PROVE  CapInv'
<1>1. \A q \in Replicas : tx'[q] = IF q = r THEN t ELSE tx[q]
  BY Zenon DEF TypeOK
<1>2. OnePoolClaim'
  BY <1>1 DEF CapInv, OnePoolClaim
<1>3. SelectedFits'
  BY <1>1 DEF CapInv, SelectedFits
<1>4. ManagedInflightCap'
  BY CapShrinks, ManagedFinite, BoundAssumption DEF CapInv, ManagedInflightCap
<1>5. RoomFits'
  <2> SUFFICES ASSUME NEW q \in Replicas, NEW u \in Users, tx'[q].phase # "idle",
                      tx'[q].runtime = "managed", tx'[q].user = u
               PROVE  Cardinality(ManagedProcessing(u)') + tx'[q].room <= MaxInflight
    BY Zenon DEF RoomFits
  <2>1. /\ tx'[q].room \in Nat
        /\ Cardinality(ManagedProcessing(u)) + tx'[q].room <= MaxInflight
    <3>1. CASE q = r
      BY <1>1, <3>1, Zenon
    <3>2. CASE q # r
      <4>1. tx'[q] = tx[q]
        BY <1>1, <3>2, Zenon
      <4> QED
        BY <4>1, TxKinds DEF CapInv, RoomFits, Idle
    <3> QED
      BY <3>1, <3>2, Zenon
  <2> QED
    BY <2>1, CapShrinks, ManagedFinite, BoundAssumption, SMTT(30)
<1> QED
  BY <1>2, <1>3, <1>4, <1>5, Zenon DEF CapInv

\* The same for a step that leaves the claims alone.
LEMMA CapStill ==
    ASSUME TypeOK, CapInv, tx' = tx,
           \A j \in Jobs : status'[j] = "processing" /\ jobRuntime'[j] = "managed" =>
                          status[j] = "processing" /\ jobRuntime[j] = "managed"
    PROVE  CapInv'
<1>1. OnePoolClaim' /\ SelectedFits'
  BY Zenon DEF CapInv, OnePoolClaim, SelectedFits
<1>2. ManagedInflightCap'
  BY CapShrinks, ManagedFinite, BoundAssumption DEF CapInv, ManagedInflightCap
<1>3. RoomFits'
  <2> SUFFICES ASSUME NEW q \in Replicas, NEW u \in Users, tx[q].phase # "idle",
                      tx[q].runtime = "managed", tx[q].user = u
               PROVE  Cardinality(ManagedProcessing(u)') + tx[q].room <= MaxInflight
    BY Zenon DEF RoomFits
  <2>1. /\ tx[q].room \in Nat
        /\ Cardinality(ManagedProcessing(u)) + tx[q].room <= MaxInflight
    BY TxKinds DEF CapInv, RoomFits, Idle
  <2> QED
    BY <2>1, CapShrinks, ManagedFinite, BoundAssumption, SMTT(30)
<1> QED
  BY <1>1, <1>2, <1>3, Zenon DEF CapInv

\* Opening a claim: it counted under the lock.
LEMMA CapReserve ==
    ASSUME TypeOK, CapInv, NEW r \in Replicas, NEW u \in Users, NEW rt \in Runtimes,
           reserveInflight(r, u, rt)
    PROVE  CapInv'
<1> DEFINE t == [phase |-> "open", user |-> u, runtime |-> rt,
                 room |-> IF Room(u, rt) < Limit THEN Room(u, rt) ELSE Limit]
<1>1. /\ tx' = [tx EXCEPT ![r] = t] /\ status' = status /\ jobRuntime' = jobRuntime
      /\ rt = "managed" => managedClaimLock(u)
      /\ HasRoom(u, rt)
  BY Zenon DEF reserveInflight, rowVars
<1>2. t.phase = "open" /\ t.user = u /\ t.runtime = rt /\ t.room \in Nat /\ t.room <= Room(u, rt)
  BY <1>1, RoomType, BoundAssumption, SMTT(30) DEF RoomsTyped
<1> HIDE DEF t
<1>3. rt = "managed" => Cardinality(ManagedProcessing(u)) + t.room <= MaxInflight
  BY <1>2, ManagedFinite, ProcessingFinite, BoundAssumption DEF Room
<1> QED
  BY <1>1, <1>2, <1>3, CapQuiet, Zenon DEF managedClaimLock

\* Selecting: within the room, and from the account.
LEMMA CapSelect ==
    ASSUME TypeOK, CapInv, NEW r \in Replicas, SelectDue(r)
    PROVE  CapInv'
<1>1. PICK S \in SUBSET {j \in Jobs : Claimable(j, tx[r].user, tx[r].runtime)} :
        /\ Cardinality(S) <= tx[r].room
        /\ \E into \in [Jobs -> S \cup {0}] :
             tx' = [tx EXCEPT ![r] =
                         [phase |-> "selected", user |-> tx[r].user,
                          runtime |-> tx[r].runtime, room |-> tx[r].room,
                          heads |-> S, into |-> into]]
  BY Zenon DEF SelectDue
<1>2. PICK into \in [Jobs -> S \cup {0}] :
        tx' = [tx EXCEPT ![r] = [phase |-> "selected", user |-> tx[r].user,
                                 runtime |-> tx[r].runtime, room |-> tx[r].room,
                                 heads |-> S, into |-> into]]
  BY <1>1, Zenon
<1>3. PICK t : /\ t.phase = "selected" /\ t.user = tx[r].user /\ t.runtime = tx[r].runtime
               /\ t.room = tx[r].room /\ t.heads = S /\ tx' = [tx EXCEPT ![r] = t]
  BY <1>2, Zenon
<1>4. tx[r].phase = "open" /\ status' = status /\ jobRuntime' = jobRuntime
  BY Zenon DEF SelectDue, rowVars
<1>5. tx[r].room \in Nat /\ tx[r].user \in Users
  BY <1>4, TxKinds DEF Idle
<1>6. t.phase # "idle" /\ t.runtime = "managed" =>
        /\ t.user \in Users
        /\ \A q \in Replicas \ {r} :
             ~(tx[q].phase # "idle" /\ tx[q].user = t.user /\ tx[q].runtime = "managed")
        /\ t.room \in Nat
        /\ Cardinality(ManagedProcessing(t.user)) + t.room <= MaxInflight
  BY <1>3, <1>4, <1>5, Zenon DEF CapInv, OnePoolClaim, RoomFits
<1>7. t.phase = "selected" =>
        (\A j \in t.heads : UserOf[j] = t.user) /\ Cardinality(t.heads) <= t.room
  BY <1>1, <1>3, Zenon DEF Claimable
<1> QED
  BY <1>3, <1>4, <1>6, <1>7, CapQuiet

\* Committing: an own claim starts no managed job; a pool claim starts as many as
\* its room, which no other claim of the account has used meanwhile.
LEMMA CapCommit ==
    ASSUME TypeOK, SerialInv, CapInv, NEW r \in Replicas, CommitClaim(r)
    PROVE  CapInv'
<1>0. /\ tx[r].phase = "selected" /\ tx[r].heads \in SUBSET Jobs /\ tx[r].user \in Users
      /\ tx[r].runtime \in Runtimes /\ tx[r].room \in Nat
  <2>1. tx[r].phase = "selected"
    BY Zenon DEF CommitClaim
  <2>2. Idle.phase # "selected"
    BY Zenon DEF Idle
  <2> QED
    BY <2>1, <2>2, TxKinds
<1>1. PICK S \in SUBSET Jobs, v \in Users :
        /\ tx[r].phase = "selected" /\ tx[r].heads = S /\ tx[r].user = v
        /\ tx[r].runtime \in Runtimes /\ tx[r].room \in Nat
  BY <1>0, Zenon
<1>2. /\ \A j \in Jobs : jobRuntime'[j] = IF j \in S THEN tx[r].runtime ELSE jobRuntime[j]
      /\ \A j \in Jobs : j \notin S /\ status'[j] = "processing" => status[j] = "processing"
      /\ tx' = [tx EXCEPT ![r] = Idle]
  BY <1>1, Zenon DEF CommitClaim
<1>3. CASE tx[r].runtime # "managed"
  <2>1. \A j \in Jobs : status'[j] = "processing" /\ jobRuntime'[j] = "managed" =>
                        status[j] = "processing" /\ jobRuntime[j] = "managed"
    BY <1>2, <1>3, Zenon
  <2>2. Idle.phase = "idle"
    BY Zenon DEF Idle
  <2> QED
    BY <1>2, <2>1, <2>2, CapQuiet
<1>4. CASE tx[r].runtime = "managed"
  <2>1. /\ Cardinality(ManagedProcessing(v)) + tx[r].room <= MaxInflight
        /\ Cardinality(S) <= tx[r].room /\ \A j \in S : UserOf[j] = v
    BY <1>1, <1>4, Zenon DEF CapInv, RoomFits, SelectedFits
  <2>2. \A u : u # v => ManagedProcessing(u)' \in SUBSET ManagedProcessing(u)
    BY <1>2, <2>1, Zenon DEF ManagedProcessing, Processing
  <2>3. \A u : u # v => /\ Cardinality(ManagedProcessing(u)') <= Cardinality(ManagedProcessing(u))
                        /\ Cardinality(ManagedProcessing(u)') \in Nat
    BY <2>2, ManagedFinite, FS_Subset, FS_CardinalityType
  <2>4. Cardinality(ManagedProcessing(v)') <= MaxInflight
    <3>1. ManagedProcessing(v)' \in SUBSET (ManagedProcessing(v) \cup S)
      BY <1>1, <1>2, Zenon DEF ManagedProcessing, Processing
    <3>2. IsFiniteSet(S) /\ Cardinality(S) \in Nat
      BY <1>1, JobsAssumption, FS_Subset, FS_CardinalityType
    <3>3. /\ IsFiniteSet(ManagedProcessing(v) \cup S)
          /\ Cardinality(ManagedProcessing(v) \cup S) <= Cardinality(ManagedProcessing(v)) + Cardinality(S)
          /\ Cardinality(ManagedProcessing(v) \cup S) \in Nat
      <4> DEFINE A == ManagedProcessing(v)
      <4>1. IsFiniteSet(A) /\ Cardinality(A) \in Nat
        BY ManagedFinite, Zenon
      <4> HIDE DEF A
      <4>2. /\ IsFiniteSet(A \cup S) /\ IsFiniteSet(A \cap S)
            /\ Cardinality(A \cup S) = Cardinality(A) + Cardinality(S) - Cardinality(A \cap S)
        BY <3>2, <4>1, FS_Union, FS_Intersection
      <4>3. Cardinality(A \cap S) \in Nat /\ Cardinality(A \cup S) \in Nat
        BY <4>2, FS_CardinalityType, Zenon
      <4> QED
        BY <3>2, <4>1, <4>2, <4>3 DEF A
    <3>4. /\ Cardinality(ManagedProcessing(v)') <= Cardinality(ManagedProcessing(v) \cup S)
          /\ Cardinality(ManagedProcessing(v)') \in Nat
      BY <3>1, <3>3, FS_Subset, FS_CardinalityType
    <3>5. Cardinality(ManagedProcessing(v)) \in Nat /\ tx[r].room \in Nat /\ MaxInflight \in Nat
      BY <1>1, ManagedFinite, BoundAssumption
    <3> QED
      BY <2>1, <3>2, <3>3, <3>4, <3>5
  <2>5. /\ \A q \in Replicas : q # r => tx'[q] = tx[q]
        /\ tx'[r].phase = "idle"
    BY <1>2, Zenon DEF TypeOK, Idle
  <2>6. OnePoolClaim' /\ SelectedFits'
    BY <2>5 DEF CapInv, OnePoolClaim, SelectedFits
  <2>7. ManagedInflightCap'
    <3> SUFFICES ASSUME NEW u \in Users PROVE Cardinality(ManagedProcessing(u)') <= MaxInflight
      BY Zenon DEF ManagedInflightCap
    <3>1. CASE u = v
      BY <2>4, <3>1, Zenon
    <3>2. CASE u # v
      BY <2>3, <3>2, ManagedFinite, BoundAssumption DEF CapInv, ManagedInflightCap
    <3> QED
      BY <3>1, <3>2, Zenon
  <2>8. RoomFits'
    <3> SUFFICES ASSUME NEW q \in Replicas, NEW u \in Users, tx'[q].phase # "idle",
                        tx'[q].runtime = "managed", tx'[q].user = u
                 PROVE  Cardinality(ManagedProcessing(u)') + tx'[q].room <= MaxInflight
      BY Zenon DEF RoomFits
    <3>1. q # r /\ tx'[q] = tx[q]
      BY <2>5, Zenon
    <3>2. u # v
      BY <1>1, <1>4, <3>1 DEF CapInv, OnePoolClaim
    <3>3. /\ tx[q].room \in Nat
          /\ Cardinality(ManagedProcessing(u)) + tx[q].room <= MaxInflight
      <4>1. tx[q].phase # "idle" /\ tx[q].runtime = "managed" /\ tx[q].user = u
        BY <3>1
      <4>2. tx[q].room \in Nat
        <5>1. Idle.phase = "idle"
          BY Zenon DEF Idle
        <5> QED
          BY <4>1, <5>1, TxKinds
      <4> QED
        BY <4>1, <4>2, Zenon DEF CapInv, RoomFits
    <3> QED
      BY <2>3, <3>1, <3>2, <3>3, ManagedFinite, BoundAssumption
  <2> QED
    BY <2>6, <2>7, <2>8 DEF CapInv
<1> QED
  BY <1>3, <1>4, Zenon

\* Every step keeps the cap.
LEMMA NextCap == TypeOK /\ SerialInv /\ CapInv /\ [Next]_vars => CapInv'
<1> SUFFICES ASSUME TypeOK, SerialInv, CapInv, [Next]_vars PROVE CapInv'
  OBVIOUS
<1>0. ASSUME NEW j \in Jobs, NEW st \in Statuses, InsertEventEnqueueJobAndTouch(j, st)
      PROVE CapInv'
  <2>1. \A i \in Jobs : status'[i] = "processing" => status[i] = "processing"
    BY <1>0, Zenon DEF InsertEventEnqueueJobAndTouch, TypeOK
  <2> QED
    BY <1>0, <2>1, CapStill DEF InsertEventEnqueueJobAndTouch
<1>1. ASSUME NEW j \in Jobs, IgnorePending(j) PROVE CapInv'
  <2>1. \A i \in Jobs : status'[i] = "processing" => status[i] = "processing"
    BY <1>1, Zenon DEF IgnorePending, TypeOK
  <2> QED
    BY <1>1, <2>1, CapStill, Zenon DEF IgnorePending
<1>2. ASSUME NEW u \in Users, purgeAgentJobs(u) PROVE CapInv'
  <2>1. \A i \in Jobs : status'[i] = IF UserOf[i] = u /\ status[i] # "absent"
                                     THEN "purged" ELSE status[i]
    BY <1>2, Zenon DEF purgeAgentJobs
  <2> QED
    BY <1>2, <2>1, CapStill DEF purgeAgentJobs
<1>3. ASSUME RouteUnclaimedAgentJobs \/ RequeueStaleAgentJobs PROVE CapInv'
  <2>1. \A i \in Jobs : status'[i] = "processing" => status[i] = "processing"
    BY <1>3, Zenon DEF RouteUnclaimedAgentJobs, RequeueStaleAgentJobs
  <2> QED
    BY <1>3, <2>1, CapStill DEF RouteUnclaimedAgentJobs, RequeueStaleAgentJobs
<1>4. ASSUME NEW c \in claims, \/ \E st \in Terminal : EndJob(c, st)
                               \/ RetryAgentJob(c) \/ ReleaseUnissuedClaim(c)
      PROVE  CapInv'
  <2>1. \A i \in Jobs : status'[i] = "processing" => status[i] = "processing"
    BY <1>4 DEF EndJob, RetryAgentJob, ReleaseUnissuedClaim, TypeOK
  <2> QED
    BY <1>4, <2>1, CapStill DEF EndJob, RetryAgentJob, ReleaseUnissuedClaim
<1>5. ASSUME \/ \E j \in Jobs : DeadlinePasses(j)
             \/ \E u \in Users, to \in Runtimes : DecideRuntime(u, to)
             \/ \E c \in claims : IssueClaim(c) \/ \E forward \in BOOLEAN : InsertAgentAction(c, forward)
             \/ UNCHANGED vars
      PROVE  CapInv'
  <2>1. UNCHANGED <<status, jobRuntime, tx>>
    BY <1>5, Zenon DEF DeadlinePasses, DecideRuntime, IssueClaim, InsertAgentAction, vars, rowVars
  <2> QED
    BY <2>1, CapStill, Zenon
<1>6. ASSUME NEW r \in Replicas, RollbackClaim(r) PROVE CapInv'
  BY <1>6, CapQuiet, Zenon DEF RollbackClaim, rowVars, Idle
<1> QED
  BY <1>0, <1>1, <1>2, <1>3, <1>4, <1>5, <1>6, CapReserve, CapSelect, CapCommit
     DEF Next, Claim, Worker, CompleteAgentJob, CompleteAgentJobWithResult,
         RecordMessageDelete, SweepAgentMessageBodies
-----------------------------------------------------------------------------
\* The results.

\* The queue is always well typed.
THEOREM AlwaysTypeOK == Spec => []TypeOK
  BY InitTypeOK, NextTypeOK, PTL DEF Spec

\* In every behaviour, for any number of replicas claiming at once, each
\* conversation is answered one message at a time and in arrival order.
THEOREM ConversationsStaySerial == Spec => []ConversationSerial
<1>1. Spec => [](TypeOK /\ SerialInv)
  BY InitTypeOK, NextTypeOK, InitSerial, NextSerial, PTL DEF Spec
<1>2. TypeOK /\ SerialInv => ConversationSerial
  BY Zenon DEF SerialInv
<1> QED
  BY <1>1, <1>2, PTL

\* For any jobs, replicas and bounds, and any mix of timeouts, retries, late
\* answers and undone claims: the attempt rows are exactly the job's history,
\* (job, attempt) names one claim, only the newest claim of a job passes the
\* fence of the completion writers, and a job in the queue has an attempt left.
THEOREM ClaimsStayExact == Spec => []ClaimsAreExact
<1>1. Spec => [](TypeOK /\ SerialInv /\ RowsExact /\ ClaimsInv)
  BY InitTypeOK, NextTypeOK, InitSerial, NextSerial, InitExact, NextExact, PTL DEF Spec
<1> QED
  BY <1>1, ExactImplies, PTL

\* Types, serial conversations and whole turns, together.
LEMMA AlwaysTurns == Spec => [](TypeOK /\ SerialInv /\ TurnInv)
  BY InitTypeOK, NextTypeOK, InitSerial, NextSerial, InitTurn, NextTurn, PTL DEF Spec

\* Every coalesced message belongs to a claimed head of its conversation, and
\* no message of a failed, dead-lettered or routed turn is missing from the
\* outbox, with and without operator routing, for any coalescing.
THEOREM TurnsStayWhole == Spec => []TurnsAreWhole
  BY AlwaysTurns, PTL DEF TurnInv

\* A terminal job never runs again nor changes its outcome, and a turn frozen by
\* its first claim keeps exactly its messages through every retry, requeue and
\* undone claim, for any number of replicas.
THEOREM HistoryStaysFixed == Spec => HistoryIsFixed
<1>1. TypeOK /\ SerialInv /\ TurnInv /\ [Next]_vars =>
        [\A j \in Jobs : status[j] \in Terminal => status'[j] \in {status[j], "purged"}]_vars
  BY TerminalStep, Zenon
<1>2. TypeOK /\ SerialInv /\ TurnInv /\ [Next]_vars =>
        [\A j \in Jobs : head[j] # 0 =>
           head'[j] = head[j] /\ (head[j] = j => TurnJobs(j)' = TurnJobs(j))]_vars
  <2> SUFFICES ASSUME TypeOK, SerialInv, TurnInv, [Next]_vars, NEW j \in Jobs, head[j] # 0
               PROVE  head'[j] = head[j] /\ (head[j] = j => TurnJobs(j)' = TurnJobs(j))
    OBVIOUS
  <2>1. CASE head' = head
    BY <2>1, Zenon DEF TurnJobs
  <2>2. CASE head' # head
    BY <2>2, HeadStep, FrozenByCommit, Zenon
  <2> QED
    BY <2>1, <2>2, Zenon
<1> QED
  BY <1>1, <1>2, AlwaysTurns, PTL DEF Spec, HistoryIsFixed, TerminalIsFinal, TurnsAreFrozen

\* However many replicas claim for the managed pool at once, and whatever own
\* claims, late answers and runtime switches happen between a claim's count and
\* its commit, no account has more than MaxInflight managed jobs in flight.
THEOREM PoolKeepsItsCap == Spec => []ManagedInflightCap
<1>1. Spec => [](TypeOK /\ SerialInv /\ CapInv)
  BY InitTypeOK, NextTypeOK, InitSerial, NextSerial, InitCap, NextCap, PTL DEF Spec
<1>2. CapInv => ManagedInflightCap
  BY Zenon DEF CapInv
<1> QED
  BY <1>1, <1>2, PTL
=============================================================================
