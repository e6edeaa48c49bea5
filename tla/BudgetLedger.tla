--------------------------- MODULE BudgetLedger ---------------------------
(***************************************************************************)
(* The spend ledger of managed jobs.  Server replicas answer pool polls:   *)
(* they list the accounts with due work, and for each one claim a job in a *)
(* transaction that holds the global budget lock, sums the ledger over     *)
(* three windows and reserves the per-job amount.  A claim whose token     *)
(* could not be minted is undone.  Workers report what a run cost, once,   *)
(* late or never; the sweep holds what nobody will report.  An account     *)
(* whose window is used up is paused until the window ends and its owner   *)
(* is told.                                                                *)
(*                                                                         *)
(* A day is a number and a month DaysPerMonth of them; amounts are small   *)
(* integers.  The grace and visibility periods are not timed: a sweep may  *)
(* find any claim stale and any ended attempt past its grace.              *)
(***************************************************************************)
EXTENDS Integers, Sequences, FiniteSets, FiniteSetsExt

CONSTANTS Replicas, Accounts, Jobs, None,
          MaxAttempts,      \* of a job, [Jobs -> Nat]
          MaxInflight,
          PerJob,           \* what a claim reserves for its run
          Plans,            \* records owner (of a job), dayCap and monthCap (of an
                            \* account, its own or the default), globalDay; costs
                            \* (what a run may cost, more than PerJob by its last
                            \* call), and the bounds lastDay and crashes
          DaysPerMonth, ClaimNotAfter

VARIABLES plan, day, job, usage, issued, paused, told, poll, lock, crashes

vars == <<plan, day, job, usage, issued, paused, told, poll, lock, crashes>>

Attempts(j) == 1..MaxAttempts[j]
Rows == UNION {{j} \X Attempts(j) : j \in Jobs}
Windows == <<"global_day", "account_month", "account_day">>

NoRow == [status |-> "none", day |-> 0, cost |-> 0]
Idle == [pc |-> "idle", todo |-> {}, acct |-> None, now |-> 0, sums |-> <<>>,
         claim |-> None]

MonthOf(d) == d \div DaysPerMonth
WindowEnd(scope, d) ==
  IF scope = "account_month" THEN (MonthOf(d) + 1) * DaysPerMonth ELSE d + 1

-----------------------------------------------------------------------------
Init ==
  /\ plan \in Plans
  /\ day = 0
  /\ job = [j \in Jobs |-> [status |-> "pending", attempts |-> 0, by |-> None, cost |-> 0]]
  /\ usage = [w \in Rows |-> NoRow]
  /\ issued = {}                       \* the attempts whose token left the server
  /\ paused = [a \in Accounts |-> 0]
  /\ told = [a \in Accounts |-> <<>>]
  /\ poll = [r \in Replicas |-> Idle]
  /\ lock = None
  /\ crashes = plan.crashes

\* Every variable holds a value of its kind.
TypeOK ==
  /\ plan \in Plans
  /\ day \in 0..plan.lastDay
  /\ \A j \in Jobs : /\ job[j].status \in {"pending", "processing", "done", "dead_letter"}
                     /\ job[j].attempts \in 0..MaxAttempts[j]
                     /\ job[j].by \in Replicas \cup {None}
  /\ \A w \in Rows : usage[w].status \in {"none", "reserved", "held", "settled"}
  /\ issued \subseteq Rows
  /\ \A r \in Replicas : poll[r].pc \in {"idle", "listed", "locked", "minting"}
  /\ lock \in Replicas \cup {None}

-----------------------------------------------------------------------------
(* The sums of the ledger. *)

InWindow(w, scope, a, d) ==
  /\ usage[w].status # "none"
  /\ scope = "account_month" => usage[w].day >= MonthOf(d) * DaysPerMonth
  /\ scope # "account_month" => usage[w].day >= d
  /\ scope # "global_day" => plan.owner[w[1]] = a

Durable(w) ==
  CASE usage[w].status = "settled" -> usage[w].cost
    [] usage[w].status = "held" -> PerJob
    [] OTHER -> 0
Inflight(w) == IF usage[w].status = "reserved" THEN PerJob ELSE 0

usageSums(scope, a, d) ==
  LET rows == {w \in Rows : InWindow(w, scope, a, d)}
  IN [durable |-> MapThenSumSet(Durable, rows), inflight |-> MapThenSumSet(Inflight, rows)]

Cap(scope, a) ==
  CASE scope = "global_day" -> plan.globalDay
    [] scope = "account_month" -> plan.monthCap[a]
    [] scope = "account_day" -> plan.dayCap[a]

\* Whether a window with these sums has a slot for one more job.
slots(scope, a, used) == Cap(scope, a) - used >= PerJob
HasSlot(scope, a, sum) == slots(scope, a, sum.durable + sum.inflight)
HasDurableSlot(scope, a, sum) == slots(scope, a, sum.durable)

-----------------------------------------------------------------------------
(* A poll lists the accounts it may serve. *)

JobsOf(a) == {j \in Jobs : plan.owner[j] = a}
PendingJobs(a) == {j \in JobsOf(a) : job[j].status = "pending"}
Processing(a) == {j \in JobsOf(a) : job[j].status = "processing"}

\* The global day has room for one more reservation, counted by what each row
\* will cost at most.
budgetCandidateFilter(a) ==
  /\ paused[a] <= day
  /\ HasSlot("global_day", a, usageSums("global_day", a, day))

ListManagedClaimCandidates ==
  {a \in Accounts : /\ PendingJobs(a) # {}
                    /\ Cardinality(Processing(a)) < MaxInflight
                    /\ budgetCandidateFilter(a)}

\* A poll that finds nobody to serve is answered at once and changes nothing.
handlePoolClaim(r) ==
  /\ poll[r].pc = "idle"
  /\ ListManagedClaimCandidates # {}
  /\ poll' = [poll EXCEPT ![r].pc = "listed", ![r].todo = ListManagedClaimCandidates]
  /\ UNCHANGED <<plan, day, job, usage, issued, paused, told, lock, crashes>>

\* The poll answers: its page is done, it has its limit or the worker hung up.
AnswerPoll(r) ==
  /\ poll[r].pc = "listed"
  /\ poll' = [poll EXCEPT ![r] = Idle]
  /\ UNCHANGED <<plan, day, job, usage, issued, paused, told, lock, crashes>>

NextCandidate(r) == [poll[r] EXCEPT !.pc = "listed", !.acct = None, !.now = 0, !.sums = <<>>, !.claim = None]

\* The account is skipped: its worker tokens are revoked, or its instructions
\* or tools cannot be built.
SkipCandidate(r) ==
  /\ poll[r].pc = "listed"
  /\ \E a \in poll[r].todo : poll' = [poll EXCEPT ![r].todo = @ \ {a}]
  /\ UNCHANGED <<plan, day, job, usage, issued, paused, told, lock, crashes>>

-----------------------------------------------------------------------------
(* The claim transaction. *)

lockManagedBudget(r) == lock = None

\* The lock is taken, the jobs in flight are counted, the clock is read.
BeginClaim(r) ==
  /\ poll[r].pc = "listed"
  /\ lockManagedBudget(r)
  /\ \E a \in poll[r].todo :
       IF Cardinality(Processing(a)) >= MaxInflight \/ day >= ClaimNotAfter
       THEN /\ poll' = [poll EXCEPT ![r].todo = @ \ {a}]
            /\ UNCHANGED lock
       ELSE /\ poll' = [poll EXCEPT ![r] = [@ EXCEPT !.pc = "locked", !.todo = @ \ {a},
                                                     !.acct = a, !.now = day]]
            /\ lock' = r
  /\ UNCHANGED <<plan, day, job, usage, issued, paused, told, crashes>>

\* The windows are summed one statement after the other; reports and sweeps
\* commit in between.
SumWindow(r) ==
  /\ poll[r].pc = "locked"
  /\ Len(poll[r].sums) < Len(Windows)
  /\ poll' = [poll EXCEPT ![r].sums =
                Append(@, usageSums(Windows[Len(@) + 1], poll[r].acct, poll[r].now))]
  /\ UNCHANGED <<plan, day, job, usage, issued, paused, told, lock, crashes>>

Summed(r) == poll[r].pc = "locked" /\ Len(poll[r].sums) = Len(Windows)
Room(r) == \A i \in DOMAIN Windows : HasSlot(Windows[i], poll[r].acct, poll[r].sums[i])
UsedUp(r) == {i \in DOMAIN Windows : ~HasDurableSlot(Windows[i], poll[r].acct, poll[r].sums[i])}

insertReservation(w) == [usage EXCEPT ![w] = [status |-> "reserved", day |-> day, cost |-> 0]]

\* The claim and its reservation commit together.  A row the attempt already
\* has makes the insert, and with it the claim, fail.
ClaimManaged(r) ==
  /\ Summed(r) /\ Room(r)
  /\ \/ \E j \in PendingJobs(poll[r].acct) :
          LET w == <<j, job[j].attempts + 1>>
          IN /\ usage[w].status = "none"
             /\ job' = [job EXCEPT ![j] = [@ EXCEPT !.status = "processing",
                                                    !.attempts = @ + 1, !.by = r]]
             /\ usage' = insertReservation(w)
             /\ poll' = [poll EXCEPT ![r] = [NextCandidate(r) EXCEPT !.pc = "minting", !.claim = w]]
     \/ /\ \A j \in PendingJobs(poll[r].acct) :
             usage[<<j, job[j].attempts + 1>>].status # "none"
        /\ poll' = [poll EXCEPT ![r] = NextCandidate(r)]
        /\ UNCHANGED <<job, usage>>
  /\ lock' = None
  /\ UNCHANGED <<plan, day, issued, paused, told, crashes>>

\* The accounts whose pause moves forward; each of them is told.
pauseForBudget(as, end) == {a \in as : paused[a] < end}

Exhausted(r) ==
  /\ Summed(r) /\ ~Room(r) /\ UsedUp(r) # {}
  /\ LET scope == Windows[Min(UsedUp(r))]
         end == WindowEnd(scope, poll[r].now)
         as == pauseForBudget(IF scope = "global_day"
                              THEN {a \in Accounts : PendingJobs(a) # {}}
                              ELSE {poll[r].acct}, end)
     IN /\ paused' = [a \in Accounts |-> IF a \in as THEN end ELSE paused[a]]
        /\ told' = [a \in Accounts |-> IF a \in as THEN Append(told[a], end) ELSE told[a]]
  /\ poll' = [poll EXCEPT ![r] = NextCandidate(r)]
  /\ lock' = None
  /\ UNCHANGED <<plan, day, job, usage, issued, crashes>>

\* Only runs in flight stand in the way: nothing is written.
Deferred(r) ==
  /\ Summed(r) /\ ~Room(r) /\ UsedUp(r) = {}
  /\ poll' = [poll EXCEPT ![r] = NextCandidate(r)]
  /\ lock' = None
  /\ UNCHANGED <<plan, day, job, usage, issued, paused, told, crashes>>

-----------------------------------------------------------------------------
(* The token of the claim. *)

MintJobToken(r) ==
  /\ poll[r].pc = "minting"
  /\ issued' = issued \cup {poll[r].claim}
  /\ poll' = [poll EXCEPT ![r] = NextCandidate(r)]
  /\ UNCHANGED <<plan, day, job, usage, paused, told, lock, crashes>>

FaultyReleasedRows(w) == usage

ReleasedRows(w) ==
  IF usage[w].status = "reserved" THEN [usage EXCEPT ![w] = NoRow] ELSE usage

\* No token left the server: the attempt never happened.
ReleaseUnissuedClaim(r) ==
  /\ poll[r].pc = "minting"
  /\ LET w == poll[r].claim  j == w[1]
     IN IF job[j].status = "processing" /\ job[j].attempts = w[2] /\ job[j].by = r
        THEN /\ job' = [job EXCEPT ![j] = [@ EXCEPT !.status = "pending",
                                                    !.attempts = @ - 1, !.by = None]]
             /\ usage' = ReleasedRows(w)
        ELSE UNCHANGED <<job, usage>>
  /\ poll' = [poll EXCEPT ![r] = NextCandidate(r)]
  /\ UNCHANGED <<plan, day, issued, paused, told, lock, crashes>>

\* The replica is lost: an open transaction rolls back, a claim stays.
Crash(r) ==
  /\ crashes > 0
  /\ poll[r].pc \in {"locked", "minting"}
  /\ poll' = [poll EXCEPT ![r] = Idle]
  /\ lock' = IF lock = r THEN None ELSE lock
  /\ crashes' = crashes - 1
  /\ UNCHANGED <<plan, day, job, usage, issued, paused, told>>

-----------------------------------------------------------------------------
(* Workers. *)

CurrentAttempt(w) == job[w[1]].attempts = w[2]

\* A settled row answers a repeated report and is not written again; a report
\* of an attempt that is no longer the job's is refused.
RecordAgentJobUsage(w, c) ==
  /\ CurrentAttempt(w)
  /\ usage[w].status # "settled"
  /\ usage' = [usage EXCEPT ![w] = [status |-> "settled", cost |-> c,
                 day |-> IF usage[w].status = "none" THEN day ELSE usage[w].day]]
  /\ job' = [job EXCEPT ![w[1]].cost = c]

\* The costs a worker may report: only a run that was issued has one, and only
\* one that was observed and is not negative is sent.
recordRunCost(w) == IF w \in issued THEN plan.costs \cap Nat ELSE {}

\* The report arrives, perhaps after the job ended or its claim expired.
handleReportJobCost(w) ==
  /\ \E c \in recordRunCost(w) : RecordAgentJobUsage(w, c)
  /\ UNCHANGED <<plan, day, issued, paused, told, poll, lock, crashes>>

\* The worker completes, fails or retries the job under its claim.
EndAttempt(w) ==
  /\ w \in issued
  /\ job[w[1]].status = "processing" /\ job[w[1]].attempts = w[2]
  /\ \E s \in {"done", IF w[2] >= MaxAttempts[w[1]] THEN "dead_letter" ELSE "pending"} :
       job' = [job EXCEPT ![w[1]] = [@ EXCEPT !.status = s, !.by = None]]
  /\ UNCHANGED <<plan, day, usage, issued, paused, told, poll, lock, crashes>>

-----------------------------------------------------------------------------
(* The sweep. *)

holdReservations(stale) ==
  [w \in Rows |-> IF w[1] \in stale /\ usage[w].status = "reserved"
                  THEN [usage[w] EXCEPT !.status = "held"] ELSE usage[w]]

holdEndedReservations(rows, graced) ==
  [w \in Rows |-> IF /\ rows[w].status = "reserved" /\ w[1] \in graced
                     /\ job[w[1]].status # "processing" \/ job[w[1]].attempts # w[2]
                  THEN [rows[w] EXCEPT !.status = "held"] ELSE rows[w]]

\* One sweep: stale claims go back to pending or are given up and their
\* reservations are held; so are those of the jobs past their grace.
RequeueStaleAgentJobs(stale, graced) ==
  /\ stale \subseteq {j \in Jobs : job[j].status = "processing"}
  /\ job' = [j \in Jobs |->
               IF j \in stale
               THEN [job[j] EXCEPT !.by = None,
                       !.status = IF job[j].attempts >= MaxAttempts[j] THEN "dead_letter" ELSE "pending"]
               ELSE job[j]]
  /\ usage' = holdEndedReservations(holdReservations(stale), graced)
  /\ UNCHANGED <<plan, day, issued, paused, told, poll, lock, crashes>>

Midnight ==
  /\ day < plan.lastDay
  /\ day' = day + 1
  /\ UNCHANGED <<plan, job, usage, issued, paused, told, poll, lock, crashes>>

-----------------------------------------------------------------------------
Sweep == \E stale, graced \in SUBSET Jobs : RequeueStaleAgentJobs(stale, graced)

PollStep(r) ==
  \/ handlePoolClaim(r) \/ AnswerPoll(r) \/ SkipCandidate(r)
  \/ BeginClaim(r) \/ SumWindow(r) \/ ClaimManaged(r) \/ Exhausted(r) \/ Deferred(r)
  \/ MintJobToken(r) \/ ReleaseUnissuedClaim(r)

Next ==
  \/ \E r \in Replicas : PollStep(r) \/ Crash(r)
  \/ \E w \in Rows : handleReportJobCost(w) \/ EndAttempt(w)
  \/ Sweep
  \/ Midnight

Spec == Init /\ [][Next]_vars

-----------------------------------------------------------------------------
\* What an issued run has spent at most, apart from its last model call.
Spend(w) == IF usage[w].status = "settled" THEN Min({usage[w].cost, PerJob}) ELSE PerJob

\* What the runs of a day or month really spend stays within the account's
\* caps and the global cap: replicas claim at once, claims are undone, reports
\* are late or lost and midnight passes inside a claim.  Only the last model
\* call of an issued run, which the runner checks afterwards, may pass a cap.
SpendWithinCaps ==
  \A d \in 0..day, a \in Accounts :
    LET OfDay(as) == {w \in Rows : w \in issued /\ usage[w].day = d /\ plan.owner[w[1]] \in as}
        OfMonth == {w \in Rows : w \in issued /\ MonthOf(usage[w].day) = MonthOf(d)
                                 /\ plan.owner[w[1]] = a}
    IN /\ MapThenSumSet(Spend, OfDay(Accounts)) <= plan.globalDay
       /\ MapThenSumSet(Spend, OfDay({a})) <= plan.dayCap[a]
       /\ MapThenSumSet(Spend, OfMonth) <= plan.monthCap[a]

\* Every issued run is in the ledger, and the attempt number the next claim of
\* a job takes has no row yet: otherwise its insert would fail at every claim
\* and the job would be stuck.
LedgerFollowsClaims ==
  /\ \A w \in Rows : w \in issued => usage[w].status # "none"
  /\ \A j \in Jobs : job[j].status = "pending" /\ job[j].attempts < MaxAttempts[j] =>
       usage[<<j, job[j].attempts + 1>>].status = "none"

\* An owner is told once of each budget window that pauses the assistant,
\* however many claims of however many replicas find it used up.
ToldOncePerWindow ==
  \A a \in Accounts : \A i, k \in DOMAIN told[a] : i < k => told[a][i] < told[a][k]

\* A job shows the cost of its last settled attempt: a late report of an
\* earlier attempt never replaces it.
CostIsTheLatest ==
  \A j \in Jobs :
    LET settled == {n \in Attempts(j) : usage[<<j, n>>].status = "settled"}
    IN settled # {} => job[j].cost = usage[<<j, Max(settled)>>].cost
=============================================================================
