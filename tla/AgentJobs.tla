------------------------------ MODULE AgentJobs ------------------------------
(***************************************************************************)
(* The durable job queue of the communication agent                        *)
(* (internal/db/agent_jobs.go, agent_turn_claim.go, and the statements of  *)
(* the ingest, deletion, retention and outbox code that write agent_jobs). *)
(*                                                                         *)
(* One incoming Telegram message is one job.  Replicas of the server claim *)
(* due jobs for a worker, workers answer under the claim identity (job id, *)
(* attempt), and a sweep recovers claims whose worker went silent.  A      *)
(* claim runs in three steps, because its transaction is what other        *)
(* replicas interleave with: it opens (taking the account's advisory lock  *)
(* and counting the jobs in flight when the claim is capped), it selects   *)
(* and row-locks due jobs, and it commits.  Every other operation is one   *)
(* transaction whose first write is a compare-and-set on the job row, and  *)
(* is one step here; it waits for the row locks of an open claim.          *)
(*                                                                         *)
(* Clocks are abstract: elapsed[j] says that the one deadline the job's    *)
(* status gives meaning to has passed (next_run_at of a pending job, the   *)
(* visibility timeout of a processing one).                                *)
(*                                                                         *)
(* An operator named Faulty... is a plausible bug in the definition that   *)
(* follows it; no specification uses it.  Replacing that definition by it  *)
(* must break the property the README names.                               *)
(***************************************************************************)
EXTENDS Integers, FiniteSets

CONSTANTS
    Jobs,            \* agent_jobs.id: positive, increasing in arrival order
    Users,           \* accounts
    Replicas,        \* server processes
    UserOf,          \* [Jobs -> Users]
    ConvOf,          \* the job's conversation, or NoConv
    NoConv,
    NoReplica,       \* claimed_by is NULL
    MaxAttempts,     \* max_attempts of a new job (the schema's default, 5)
    MaxInflight,     \* the managed pool's cap per account
    Limit,           \* jobs one claim asks for
    Coalesce,        \* turn coalescing is configured (turnCfg # nil)
    OperatorRouting, \* failed events are forwarded to the operator
    AllowLegacy,     \* AllowLegacyJobCompletion
    MaxClaims        \* bound: committed claims in one behaviour

SameConv(i, j) == ConvOf[i] # NoConv /\ ConvOf[i] = ConvOf[j]

ASSUME JobsAssumption == Jobs \subseteq Nat \ {0} /\ IsFiniteSet(Jobs)
ASSUME OwnerAssumption ==
    /\ UserOf \in [Jobs -> Users]
    /\ \A i, j \in Jobs : SameConv(i, j) => UserOf[i] = UserOf[j]
ASSUME BoundAssumption ==
    /\ {MaxAttempts, MaxInflight, Limit} \subseteq Nat \ {0}
    /\ MaxClaims \in Nat
ASSUME FlagAssumption == {Coalesce, OperatorRouting, AllowLegacy} \subseteq BOOLEAN
ASSUME ReplicaAssumption == NoReplica \notin Replicas

VARIABLES
    status,       \* agent_jobs.status; "absent" before ingest, "purged" after deletion
    attempts,     \* agent_jobs.attempts
    maxAttempts,  \* agent_jobs.max_attempts
    jobRuntime,   \* agent_jobs.runtime, stamped by the last claim ("null" before)
    claimedBy,    \* agent_jobs.claimed_by
    elapsed,      \* the job's current deadline has passed
    head,         \* the turn: 0, the job itself (a frozen head), or coalesced_into
    running,      \* attempt numbers with an open agent_job_attempts row
    finished,     \* attempt numbers with a closed row
    acted,        \* jobs with a durable action or lead
    outbox,       \* jobs whose event is in event_outbox
    runtime,      \* agent_profiles.runtime per account
    tx,           \* the claim transaction each replica has open
    claims,       \* envelopes of committed claims, still held by a replica or handed out
    latest,       \* history: the serial number of the job's newest claim
    serial        \* history: committed claims so far

rowVars   == <<status, attempts, maxAttempts, jobRuntime, claimedBy, elapsed, head>>
rowLog    == <<running, finished>>
claimVars == <<claims, latest, serial>>
vars == <<rowVars, rowLog, acted, outbox, runtime, tx, claimVars>>

Runtimes == {"own", "managed"}
Live     == {"pending", "processing"}
Terminal == {"completed", "failed", "dead_letter", "ignored", "coalesced", "routed"}
Statuses == Live \cup Terminal \cup {"absent", "purged"}

Idle == [phase |-> "idle"]

\* Rows a selected, uncommitted claim holds FOR UPDATE.
LockedBy(r, j) == tx[r].phase = "selected" /\ (j \in tx[r].heads \/ tx[r].into[j] # 0)

Locked == {j \in Jobs : \E r \in Replicas : LockedBy(r, j)}

Processing(u) == {j \in Jobs : UserOf[j] = u /\ status[j] = "processing"}

\* The head's job and the members its turn froze: what routeJobEventTx forwards.
TurnJobs(h) == {j \in Jobs : j = h \/ head[j] = h}

FaultyRouteHeadsOnly(S) == IF OperatorRouting THEN outbox \cup S ELSE outbox

\* The outbox once the turns of the jobs S have been forwarded.
routeJobEventTx(S) ==
    IF OperatorRouting THEN outbox \cup UNION {TurnJobs(h) : h \in S} ELSE outbox

TypeOK ==
    /\ status \in [Jobs -> Statuses]
    /\ attempts \in [Jobs -> Nat]
    /\ maxAttempts \in [Jobs -> Nat]
    /\ jobRuntime \in [Jobs -> Runtimes \cup {"null"}]
    /\ claimedBy \in [Jobs -> Replicas \cup {NoReplica}]
    /\ elapsed \in [Jobs -> BOOLEAN]
    /\ head \in [Jobs -> Jobs \cup {0}]
    /\ running \in [Jobs -> SUBSET Nat]
    /\ finished \in [Jobs -> SUBSET Nat]
    /\ acted \subseteq Jobs
    /\ outbox \subseteq Jobs
    /\ runtime \in [Users -> Runtimes]
    /\ tx \in [Replicas ->
          {Idle}
          \cup [phase : {"open"}, user : Users, runtime : Runtimes, room : Nat]
          \cup [phase : {"selected"}, user : Users, runtime : Runtimes, room : Nat,
                heads : SUBSET Jobs, into : [Jobs -> Jobs \cup {0}]]]
    /\ claims \subseteq [job : Jobs, attempt : Nat \ {0}, replica : Replicas,
                         issued : BOOLEAN, serial : Nat]
    /\ latest \in [Jobs -> Nat]
    /\ serial \in Nat

Init ==
    /\ status = [j \in Jobs |-> "absent"]
    /\ attempts = [j \in Jobs |-> 0]
    /\ maxAttempts = [j \in Jobs |-> MaxAttempts]
    /\ jobRuntime = [j \in Jobs |-> "null"]
    /\ claimedBy = [j \in Jobs |-> NoReplica]
    /\ elapsed = [j \in Jobs |-> FALSE]
    /\ head = [j \in Jobs |-> 0]
    /\ running = [j \in Jobs |-> {}]
    /\ finished = [j \in Jobs |-> {}]
    /\ acted = {} /\ outbox = {}
    /\ runtime \in [Users -> Runtimes]
    /\ tx = [r \in Replicas |-> Idle]
    /\ claims = {} /\ latest = [j \in Jobs |-> 0] /\ serial = 0
-----------------------------------------------------------------------------
\* One transaction stores the event, its job and (operator routing off) its
\* outbox row.  A job of a conversation that is not active, or whose message
\* was already deleted, is born ignored.  The listener of an account hands its
\* updates over one at a time, so ids follow the commit order.
InsertEventEnqueueJobAndTouch(j, st) ==
    /\ status[j] = "absent"
    /\ \A i \in Jobs : UserOf[i] = UserOf[j] /\ i < j => status[i] # "absent"
    /\ st \in {"pending", "ignored"}
    /\ status' = [status EXCEPT ![j] = st]
    /\ elapsed' = [elapsed EXCEPT ![j] = TRUE]
    /\ outbox' = IF OperatorRouting THEN outbox ELSE outbox \cup {j}
    /\ UNCHANGED <<attempts, maxAttempts, jobRuntime, claimedBy, head, rowLog,
                   acted, runtime, tx, claimVars>>

\* A job's deadline passes: its backoff is over, or its claim has outlived the
\* visibility timeout.
DeadlinePasses(j) ==
    /\ status[j] \in Live /\ ~elapsed[j]
    /\ elapsed' = [elapsed EXCEPT ![j] = TRUE]
    /\ UNCHANGED <<status, attempts, maxAttempts, jobRuntime, claimedBy, head,
                   rowLog, acted, outbox, runtime, tx, claimVars>>

\* The owner moves the account to the other runtime (DecideRuntime, and the
\* profile UPDATE it leads to).
DecideRuntime(u, to) ==
    /\ runtime[u] # to
    /\ runtime' = [runtime EXCEPT ![u] = to]
    /\ UNCHANGED <<rowVars, rowLog, acted, outbox, tx, claimVars>>
-----------------------------------------------------------------------------
FaultyNoClaimLock(u) == TRUE

\* The account's advisory lock is free: no pool claim of it is open.
managedClaimLock(u) ==
    \A q \in Replicas : tx[q].phase # "idle" => ~(tx[q].user = u /\ tx[q].runtime = "managed")

Room(u, rt) == IF rt = "managed" THEN MaxInflight - Cardinality(Processing(u)) ELSE Limit

HasRoom(u, rt) == Room(u, rt) > 0

\* The part of a claim before its select.  A pool claim takes the account's
\* advisory lock, which it holds until it ends, counts the account's jobs in
\* flight, and gives up when none may be added; an own claim is not capped.
reserveInflight(r, u, rt) ==
    /\ tx[r].phase = "idle"
    /\ rt = "managed" => managedClaimLock(u)
    /\ HasRoom(u, rt)
    /\ tx' = [tx EXCEPT ![r] =
                [phase |-> "open", user |-> u, runtime |-> rt,
                 room |-> IF Room(u, rt) < Limit THEN Room(u, rt) ELSE Limit]]
    /\ UNCHANGED <<rowVars, rowLog, acted, outbox, runtime, claimVars>>

FaultyPendingOnly(j) ==
    \A p \in Jobs : SameConv(p, j) => ~(status[p] = "pending" /\ p < j)

\* No job of the conversation is in flight and no earlier one is waiting.
HeadOfLine(j) ==
    \A p \in Jobs : SameConv(p, j) =>
        ~(status[p] = "processing" \/ (status[p] = "pending" /\ p < j))

\* The claim's candidate predicate, without the lock.
Claimable(j, u, rt) ==
    /\ status[j] = "pending" /\ elapsed[j]
    /\ UserOf[j] = u /\ runtime[u] = rt
    /\ HeadOfLine(j)

\* Jobs that may still join the turn of h.
Followers(h) == {f \in Jobs : /\ SameConv(f, h) /\ f > h
                              /\ status[f] = "pending" /\ attempts[f] = 0}

FaultyThawedTurns(S, into) ==
    \A m \in Jobs : into[m] # 0 => Coalesce /\ m \in Followers(into[m])

\* Which messages the coalescer puts into the turns of the heads S: an initial
\* run of the followers of each head, none for a turn already frozen.
Turns(S, into) ==
    \A m \in Jobs : into[m] # 0 =>
        /\ Coalesce /\ head[into[m]] = 0
        /\ m \in Followers(into[m])
        /\ \A f \in Followers(into[m]) : f < m => into[f] = into[m]

\* SELECT ... FOR UPDATE SKIP LOCKED LIMIT room, then (coalescing) the
\* followers under a blocking lock.  Without coalescing the claim takes as many
\* due jobs as it has room for; with it only those whose turn is ready.
SelectDue(r) ==
    /\ tx[r].phase = "open"
    /\ LET due == {j \in Jobs : Claimable(j, tx[r].user, tx[r].runtime)} \ Locked
       IN  \E S \in SUBSET due :
             /\ S # {} /\ Cardinality(S) <= tx[r].room
             /\ Coalesce \/ S = due \/ Cardinality(S) = tx[r].room
             /\ Coalesce => \A h \in S : Followers(h) \cap Locked = {}
             /\ \E into \in [Jobs -> S \cup {0}] :
                  /\ Turns(S, into)
                  /\ tx' = [tx EXCEPT ![r] =
                              [phase |-> "selected", user |-> tx[r].user,
                               runtime |-> tx[r].runtime, room |-> tx[r].room,
                               heads |-> S, into |-> into]]
    /\ UNCHANGED <<rowVars, rowLog, acted, outbox, runtime, claimVars>>

\* turn_id and coalesced_into as the claim writes them.
TurnOf(j, S, into) ==
    IF Coalesce /\ j \in S THEN j ELSE IF into[j] # 0 THEN into[j] ELSE head[j]

\* The claim commits: the heads are processing under a new attempt, each with
\* an open attempt row; the members of their turns are coalesced.
CommitClaim(r) ==
    LET S == tx[r].heads
        into == tx[r].into
    IN  /\ tx[r].phase = "selected"
        /\ serial < MaxClaims
        /\ status' = [j \in Jobs |-> IF j \in S THEN "processing"
                                     ELSE IF into[j] # 0 THEN "coalesced" ELSE status[j]]
        /\ attempts' = [j \in Jobs |-> IF j \in S THEN attempts[j] + 1 ELSE attempts[j]]
        /\ jobRuntime' = [j \in Jobs |-> IF j \in S THEN tx[r].runtime ELSE jobRuntime[j]]
        /\ claimedBy' = [j \in Jobs |-> IF j \in S THEN r ELSE claimedBy[j]]
        /\ elapsed' = [j \in Jobs |-> j \notin S /\ elapsed[j]]
        /\ head' = [j \in Jobs |-> TurnOf(j, S, into)]
        /\ running' = [j \in Jobs |-> IF j \in S THEN running[j] \cup {attempts[j] + 1}
                                      ELSE running[j]]
        /\ claims' = claims \cup {[job |-> j, attempt |-> attempts[j] + 1, replica |-> r,
                                   issued |-> FALSE, serial |-> serial + 1] : j \in S}
        /\ latest' = [j \in Jobs |-> IF j \in S THEN serial + 1 ELSE latest[j]]
        /\ serial' = serial + 1
        /\ tx' = [tx EXCEPT ![r] = Idle]
        /\ UNCHANGED <<maxAttempts, finished, acted, outbox, runtime>>

\* The claim finds nothing to take, fails, or its replica dies: it rolls back.
RollbackClaim(r) ==
    /\ tx[r].phase # "idle"
    /\ tx' = [tx EXCEPT ![r] = Idle]
    /\ UNCHANGED <<rowVars, rowLog, acted, outbox, runtime, claimVars>>
-----------------------------------------------------------------------------
\* The replica hands the envelope to the worker that asked.  It may do so long
\* after the claim committed: minting the job token calls the signer.
IssueClaim(c) ==
    /\ ~c.issued
    /\ claims' = (claims \ {c}) \cup {[c EXCEPT !.issued = TRUE]}
    /\ UNCHANGED <<rowVars, rowLog, acted, outbox, runtime, tx, latest, serial>>

FaultyStatusOnly(c) == status[c.job] = "processing"

\* The claim identity every worker-facing write compares.
UnderClaim(c) == status[c.job] = "processing" /\ attempts[c.job] = c.attempt

\* The pool could not mint a job token: the claim is undone, its attempt number
\* is given back and its attempt row deleted.
ReleaseUnissuedClaim(c) ==
    LET j == c.job
    IN  /\ ~c.issued /\ jobRuntime[j] = "managed"
        /\ UnderClaim(c) /\ claimedBy[j] = c.replica
        /\ status' = [status EXCEPT ![j] = "pending"]
        /\ attempts' = [attempts EXCEPT ![j] = @ - 1]
        /\ claimedBy' = [claimedBy EXCEPT ![j] = NoReplica]
        /\ elapsed' = [elapsed EXCEPT ![j] = FALSE]
        /\ running' = [running EXCEPT ![j] = @ \ {c.attempt}]
        /\ claims' = claims \ {c}
        /\ UNCHANGED <<maxAttempts, jobRuntime, head, finished, acted, outbox,
                       runtime, tx, latest, serial>>

\* completeRuntimeFence: the account still runs what the attempt was claimed for.
RuntimeFence(j) == jobRuntime[j] \in {"null", runtime[UserOf[j]]}

\* The newest open attempt row, which finishOpenAttempt closes.
Newest(S) == {a \in S : \A b \in S : b <= a}

finishOpenAttempt(j) ==
    /\ running' = [running EXCEPT ![j] = @ \ Newest(@)]
    /\ finished' = [finished EXCEPT ![j] = @ \cup Newest(running[j])]

\* The worker proposes an action (or stores a lead) for its job.  Denied and
\* parked replies are forwarded to the operator in the same transaction.
InsertAgentAction(c, forward) ==
    /\ c.issued /\ UnderClaim(c)
    /\ c.job \notin acted
    /\ acted' = acted \cup {c.job}
    /\ outbox' = IF forward THEN routeJobEventTx({c.job}) ELSE outbox
    /\ UNCHANGED <<rowVars, rowLog, runtime, tx, claimVars>>

\* A worker ends its job.  failed forwards the turn to the operator.
EndJob(c, st) ==
    /\ c.issued /\ UnderClaim(c) /\ RuntimeFence(c.job)
    /\ st \in {"completed", "failed", "ignored"}
    /\ status' = [status EXCEPT ![c.job] = st]
    /\ finishOpenAttempt(c.job)
    /\ outbox' = IF st = "failed" THEN routeJobEventTx({c.job}) ELSE outbox
    /\ UNCHANGED <<attempts, maxAttempts, jobRuntime, claimedBy, elapsed, head,
                   acted, runtime, tx, claimVars>>

\* The request form of workers older than result linkage.
CompleteAgentJob(c, st) == AllowLegacy /\ EndJob(c, st)

\* completed needs an exact durable result of this job; the others carry none.
CompleteAgentJobWithResult(c, st) == (st = "completed" => c.job \in acted) /\ EndJob(c, st)

Exhausted(j) == attempts[j] >= maxAttempts[j]

\* A transient failure: back to the queue with a backoff, or to dead_letter
\* once the attempts are used up.  No runtime fence here.
RetryAgentJob(c) ==
    LET j == c.job
        dead == Exhausted(j)
    IN  /\ c.issued /\ UnderClaim(c)
        /\ status' = [status EXCEPT ![j] = IF dead THEN "dead_letter" ELSE "pending"]
        /\ elapsed' = [elapsed EXCEPT ![j] = FALSE]
        /\ finishOpenAttempt(j)
        /\ outbox' = IF dead THEN routeJobEventTx({j}) ELSE outbox
        /\ UNCHANGED <<attempts, maxAttempts, jobRuntime, claimedBy, head, acted,
                       runtime, tx, claimVars>>
-----------------------------------------------------------------------------
FaultyStaleUnlessExhausted(j) == status[j] = "processing" /\ elapsed[j] /\ ~Exhausted(j)

Stale(j) == status[j] = "processing" /\ elapsed[j]

\* The visibility sweep, one transaction of three updates in this order: stale
\* jobs the runtime fence would refuse go back to pending with an attempt to
\* spare, exhausted ones to dead_letter, the rest to pending.  All their open
\* attempt rows are closed, and the dead ones' turns forwarded.
RequeueStaleAgentJobs ==
    LET stale == {j \in Jobs : Stale(j)}
        fenced == {j \in stale : ~RuntimeFence(j)}
        dead == {j \in stale \ fenced : Exhausted(j)}
    IN  /\ stale # {}
        /\ status' = [j \in Jobs |-> IF j \in dead THEN "dead_letter"
                                     ELSE IF j \in stale THEN "pending" ELSE status[j]]
        /\ maxAttempts' = [j \in Jobs |->
                             IF j \in fenced /\ Exhausted(j) THEN attempts[j] + 1
                             ELSE maxAttempts[j]]
        /\ running' = [j \in Jobs |-> IF j \in stale THEN {} ELSE running[j]]
        /\ finished' = [j \in Jobs |-> IF j \in stale THEN finished[j] \cup running[j]
                                       ELSE finished[j]]
        /\ outbox' = routeJobEventTx(dead)
        /\ UNCHANGED <<attempts, jobRuntime, claimedBy, elapsed, head, acted,
                       runtime, tx, claimVars>>

\* Jobs never claimed for too long go to the operator.  Which of them are old
\* enough, and not held by a budget pause, is any choice S.
RouteUnclaimedAgentJobs ==
    /\ OperatorRouting
    /\ \E S \in SUBSET {j \in Jobs : status[j] = "pending" /\ attempts[j] = 0} :
          /\ S # {} /\ S \cap Locked = {}
          /\ \A j \in S : HeadOfLine(j)
          /\ status' = [j \in Jobs |-> IF j \in S THEN "routed" ELSE status[j]]
          /\ outbox' = routeJobEventTx(S)
    /\ UNCHANGED <<attempts, maxAttempts, jobRuntime, claimedBy, elapsed, head,
                   rowLog, acted, runtime, tx, claimVars>>

\* A pending job is closed unrun: its message was deleted, or the retention
\* sweep is about to null its payload.
IgnorePending(j) ==
    /\ status[j] = "pending" /\ j \notin Locked
    /\ status' = [status EXCEPT ![j] = "ignored"]
    /\ UNCHANGED <<attempts, maxAttempts, jobRuntime, claimedBy, elapsed, head,
                   rowLog, acted, outbox, runtime, tx, claimVars>>

RecordMessageDelete(j) == IgnorePending(j)

SweepAgentMessageBodies(j) == IgnorePending(j)

\* Account deletion drops the jobs, everything tied to them and the profile.  It
\* first locks every job row of the account, so it waits for an open claim.
\* Outbox rows, which hold no content, stay.
purgeAgentJobs(u) ==
    LET mine == {j \in Jobs : UserOf[j] = u}
    IN  /\ mine \cap Locked = {} /\ \E j \in mine : status[j] \notin {"absent", "purged"}
        /\ status' = [j \in Jobs |-> IF j \in mine /\ status[j] # "absent"
                                     THEN "purged" ELSE status[j]]
        /\ running' = [j \in Jobs |-> IF j \in mine THEN {} ELSE running[j]]
        /\ finished' = [j \in Jobs |-> IF j \in mine THEN {} ELSE finished[j]]
        /\ acted' = acted \ mine
        /\ runtime' = [runtime EXCEPT ![u] = "own"]
        /\ UNCHANGED <<attempts, maxAttempts, jobRuntime, claimedBy, elapsed, head,
                       outbox, tx, claimVars>>

Claim(r) ==
    \/ \E u \in Users, rt \in Runtimes : reserveInflight(r, u, rt)
    \/ SelectDue(r)
    \/ CommitClaim(r)
    \/ RollbackClaim(r)

Worker(c) ==
    \/ IssueClaim(c)
    \/ ReleaseUnissuedClaim(c)
    \/ \E forward \in BOOLEAN : InsertAgentAction(c, forward)
    \/ \E st \in Terminal : CompleteAgentJob(c, st)
    \/ \E st \in Terminal : CompleteAgentJobWithResult(c, st)
    \/ RetryAgentJob(c)

Next ==
    \/ \E j \in Jobs, st \in Statuses : InsertEventEnqueueJobAndTouch(j, st)
    \/ \E j \in Jobs : \/ DeadlinePasses(j)
                       \/ RecordMessageDelete(j)
                       \/ SweepAgentMessageBodies(j)
    \/ \E u \in Users : \/ \E to \in Runtimes : DecideRuntime(u, to)
                        \/ purgeAgentJobs(u)
    \/ \E r \in Replicas : Claim(r)
    \/ \E c \in claims : Worker(c)
    \/ RequeueStaleAgentJobs
    \/ RouteUnclaimedAgentJobs

Spec == Init /\ [][Next]_vars

\* Time passes and the sweep runs every minute: nothing else is promised.
Fairness == WF_vars(RequeueStaleAgentJobs) /\ \A j \in Jobs : WF_vars(DeadlinePasses(j))

FairSpec == Spec /\ Fairness
-----------------------------------------------------------------------------
\* A conversation is answered in arrival order, one message at a time: while a
\* job is processing, no earlier job of its conversation is pending or
\* processing (the NOT EXISTS of the claim, under concurrent replicas).
ConversationSerial ==
    \A i, j \in Jobs : SameConv(i, j) /\ i < j /\ status[j] = "processing"
                         => status[i] \notin Live

\* However many pool claims run at once, an account never has more than
\* MaxInflight jobs processing under the managed runtime (reserveInflight).
ManagedProcessing(u) == {j \in Processing(u) : jobRuntime[j] = "managed"}

ManagedInflightCap == \A u \in Users : Cardinality(ManagedProcessing(u)) <= MaxInflight

\* The attempt rows tell the job's history: exactly the current attempt is open
\* while the job is processing, every earlier one is closed, and no number is
\* missing or used twice, whatever mix of timeouts, retries and undone claims
\* led here (finishOpenAttempt, closeAttempts, ReleaseUnissuedClaim).
AttemptHistory ==
    \A j \in Jobs : status[j] \notin {"absent", "purged"} =>
        IF status[j] = "processing"
        THEN running[j] = {attempts[j]} /\ finished[j] = 1 .. attempts[j] - 1
        ELSE running[j] = {} /\ finished[j] = 1 .. attempts[j]

\* (job, attempt) names one claim: two envelopes that exist at the same time
\* never share it, although ReleaseUnissuedClaim hands attempt numbers back.
ClaimIdentity ==
    \A c, d \in claims : c.job = d.job /\ c.attempt = d.attempt => c = d

\* A worker whose envelope passes the compare-and-set of the completion writers
\* holds the job's newest claim, never one the sweep took away from it.
NewestClaimActs == \A c \in claims : UnderClaim(c) => c.serial = latest[c.job]

\* A job back in the queue always has an attempt left: a runtime switch that
\* cut the last attempt short does not strand it (RequeueStaleAgentJobs).
PendingHasAttempt == \A j \in Jobs : status[j] = "pending" => attempts[j] < maxAttempts[j]

\* Attempts and claims stay exact through timeouts, retries and undone claims:
\* the attempt rows are the job's history, (job, attempt) names one claim, only
\* the newest claim acts, and a job in the queue has an attempt left.
ClaimsAreExact == AttemptHistory /\ ClaimIdentity /\ NewestClaimActs /\ PendingHasAttempt

\* No message of a failed turn disappears: when a job failed, was dead-lettered
\* or was routed away, the event of every message of its turn is in the outbox.
FailedTurnForwarded ==
    \A h \in Jobs : status[h] \in {"failed", "dead_letter", "routed"} => TurnJobs(h) \subseteq outbox

\* A coalesced message belongs to a real turn: its head is an earlier job of the
\* same conversation that was claimed as a head and is not coalesced itself.
CoalescedHasHead ==
    \A j \in Jobs : status[j] = "coalesced" =>
        /\ head[j] \in Jobs /\ head[j] < j /\ SameConv(head[j], j)
        /\ head[head[j]] = head[j] /\ status[head[j]] # "coalesced"

\* The messages of a turn share its fate: each belongs to a claimed head of its
\* conversation, and all of them reach the operator when the head fails.
TurnsAreWhole == CoalescedHasHead /\ FailedTurnForwarded

\* A terminal job never runs again and never changes its outcome (every writer's
\* status compare-and-set); only account deletion removes it.
TerminalIsFinal ==
    [][\A j \in Jobs : status[j] \in Terminal => status'[j] \in {status[j], "purged"}]_vars

\* A turn is frozen by its first claim: retries, requeues and undone claims
\* serve the same messages (claimCoalesced).
TurnsAreFrozen ==
    [][\A j \in Jobs : head[j] # 0 =>
         head'[j] = head[j] /\ (head[j] = j => TurnJobs(j)' = TurnJobs(j))]_vars

\* What a claim or an outcome has fixed stays: turns are frozen and ends final.
HistoryIsFixed == TerminalIsFinal /\ TurnsAreFrozen

\* A job whose worker went silent does not stay processing for ever.
SilentWorkerRecovered ==
    \A j \in Jobs : status[j] = "processing" ~> status[j] # "processing"
=============================================================================
