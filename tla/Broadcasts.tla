----------------------------- MODULE Broadcasts -----------------------------
(***************************************************************************)
(* A client broadcast from its preparation to the last recipient:          *)
(* internal/broadcast (service, policy, worker), the campaign and delivery *)
(* rows of internal/db, and the operators' surfaces in internal/web and    *)
(* internal/mcp.                                                           *)
(*                                                                         *)
(* One campaign of one category; every server process runs a worker, and   *)
(* two of them overlap during a deploy.  The age of a claim is 0 while a   *)
(* send may still start under it, 1 when less than sendTimeout of the      *)
(* lease is left, 2 when it is over.  A row is due when next_attempt_at    *)
(* has passed.                                                             *)
(***************************************************************************)
EXTENDS Naturals, FiniteSets

CONSTANTS
    Workers, Users,
    DefaultPref,            \* what defaultPref says of the category
    RecipientLimit, BatchSize, MaxAttempts,
    Budgets                 \* bound: pairs <<changes by people, faults>>

VARIABLES
    camp,                   \* the campaign's state
    edited,                 \* its text no longer has the stored hash
    lapsed,                 \* expires_at has passed
    facts,                  \* per user: consent, reachability, captured identity
    row,                    \* broadcast_deliveries, by user
    worker,
    got,                    \* messages a user really received
    since,                  \* users eligible at some moment since their row was claimed
    late,                   \* sends a worker began after the campaign stopped
    ops, faults

vars == <<camp, edited, lapsed, facts, row, worker, got, since, late, ops, faults>>
people == <<ops, facts, since>>
history == <<got, late>>

Nobody == "nobody"
Final == {"none", "delivered", "failed", "skipped"}
Ended == {"completed", "cancelled", "expired"}

Idle == [pc |-> "idle", left |-> {}, cur |-> Nobody, age |-> 0, bad |-> FALSE, result |-> ""]
Row(status, attempts, due, reason) ==
    [status |-> status, attempts |-> attempts, due |-> due, age |-> 0, reason |-> reason]

TypeOK ==
    /\ camp \in {"none", "prepared", "approved", "sending"} \cup Ended
    /\ \A u \in Users :
          /\ row[u].status \in {"pending", "sending"} \cup Final
          /\ row[u].attempts \in 0..MaxAttempts
          /\ row[u].age > 0 => row[u].status # "pending"
    /\ \A w \in Workers : worker[w].left \subseteq Users /\ worker[w].cur \in Users \cup {Nobody}

Init ==
    /\ camp = "none" /\ edited = FALSE /\ lapsed = FALSE
    /\ facts = [u \in Users |-> [pref |-> "subscribed", reach |-> "unknown", captured |-> TRUE]]
    /\ row = [u \in Users |-> Row("none", 0, FALSE, "")]
    /\ worker = [w \in Workers |-> Idle]
    /\ got = [u \in Users |-> 0] /\ since = {} /\ late = [w \in Workers |-> 0]
    /\ \E b \in Budgets : ops = b[1] /\ faults = b[2]

-----------------------------------------------------------------------------
\* Who a campaign may reach.

\* An explicit choice wins over the default of the category.
ResolvePrefState(p) == IF p = "unset" THEN DefaultPref ELSE p

Evaluate(f) ==
    /\ f.captured
    /\ ResolvePrefState(f.pref) = "subscribed"
    /\ f.reach \notin {"blocked", "cannot_initiate"}

Resolve == {u \in Users : Evaluate(facts[u])}

-----------------------------------------------------------------------------
\* Operators.  An MCP caller may prepare and cancel; approval is only taken
\* from a browser sign-in on the same origin.

Actors == [surface : {"mcp", "web"}, operator : BOOLEAN, browser : BOOLEAN]

broadcastActor(a) == a.surface = "mcp" /\ a.operator
authorize(a) == a.surface = "web" /\ a.browser /\ a.operator

Prepare ==
    /\ camp = "none"
    /\ \E a \in Actors : broadcastActor(a)
    /\ Resolve # {} /\ Cardinality(Resolve) <= RecipientLimit
    /\ camp' = "prepared"
    /\ UNCHANGED <<edited, lapsed, row, worker, faults, people, history>>

\* The page posts back the hashes it showed; a prepared campaign past its
\* expiry is closed by the attempt to approve it.
Approve ==
    /\ \E a \in Actors : authorize(a)
    /\ camp = "prepared" /\ ~edited
    /\ camp' = IF lapsed THEN "expired" ELSE "approved"
    /\ UNCHANGED <<edited, lapsed, row, worker, faults, people, history>>

CancelBroadcastCampaign ==
    /\ \E a \in Actors : authorize(a) \/ broadcastActor(a)
    /\ camp \in {"prepared", "approved", "sending"} /\ ops > 0
    /\ camp' = "cancelled" /\ ops' = ops - 1
    /\ UNCHANGED <<edited, lapsed, facts, since, row, worker, faults, history>>

Lapse ==
    /\ camp = "prepared" /\ ~lapsed
    /\ lapsed' = TRUE
    /\ UNCHANGED <<camp, edited, row, worker, faults, people, history>>

\* The stored text is changed under the campaign; nothing in the program does it.
Edit ==
    /\ camp \in {"prepared", "approved", "sending"} /\ ~edited /\ faults > 0
    /\ edited' = TRUE /\ faults' = faults - 1
    /\ UNCHANGED <<camp, lapsed, row, worker, people, history>>

-----------------------------------------------------------------------------
\* Recipients change while the campaign runs.

ChangeFacts(u, f) ==
    /\ ops > 0 /\ ops' = ops - 1
    /\ facts[u] # f
    /\ facts' = [facts EXCEPT ![u] = f]
    /\ since' = IF Evaluate(f) /\ row[u].status = "sending" THEN since \cup {u} ELSE since
    /\ UNCHANGED <<camp, edited, lapsed, row, worker, faults, history>>

SetNotificationPrefs(u) ==
    \E s \in {"subscribed", "unsubscribed"} : ChangeFacts(u, [facts[u] EXCEPT !.pref = s])

RecordInboundBotReachability(u) ==
    \E s \in {"reachable", "blocked"} : ChangeFacts(u, [facts[u] EXCEPT !.reach = s])

\* Deleting the account keeps the users row and forgets the rest.
purgeNotificationState(u) == ChangeFacts(u, [pref |-> "unset", reach |-> "unknown", captured |-> FALSE])

-----------------------------------------------------------------------------
\* The delivery rows.  Every update names the state it leaves; the attempts of
\* a final row and the reason of a pending one are not kept.

FinishBroadcastDelivery(rows, u, status, reason) ==
    IF rows[u].status = "sending"
    THEN [rows EXCEPT ![u] = Row(status, 0, FALSE, reason)] ELSE rows

RetryBroadcastDelivery(rows, u) ==
    IF rows[u].status = "sending" THEN [rows EXCEPT ![u] = Row("pending", @.attempts, FALSE, "")] ELSE rows

ReleaseBroadcastDelivery(rows, us) ==
    [u \in Users |-> IF u \in us /\ rows[u].status = "sending"
                     THEN Row("pending", rows[u].attempts - 1, TRUE, rows[u].reason) ELSE rows[u]]

FaultyFailStale(rows) == rows

FailStaleBroadcastDeliveries(rows) ==
    [u \in Users |-> IF rows[u].status = "sending" /\ rows[u].age = 2
                     THEN Row("failed", 0, FALSE, "outcome_unknown") ELSE rows[u]]

SkipCancelledBroadcastDeliveries(rows) ==
    [u \in Users |-> IF rows[u].status = "pending" /\ camp = "cancelled"
                     THEN Row("skipped", 0, FALSE, "cancelled") ELSE rows[u]]

CompleteBroadcastCampaigns ==
    IF camp = "sending" /\ \A u \in Users : row[u].status \in Final THEN "completed" ELSE camp

retry(rows, u) ==
    IF rows[u].attempts >= MaxAttempts THEN FinishBroadcastDelivery(rows, u, "failed", "retries_exhausted")
    ELSE RetryBroadcastDelivery(rows, u)

-----------------------------------------------------------------------------
\* The worker.  One Tick: sweep, start approved campaigns, claim a batch,
\* deliver it, complete.

Go(w, pc) == worker' = [worker EXCEPT ![w].pc = pc]

\* The sweeps, the expiry and the reads of startApproved.
Tick(w) ==
    /\ worker[w].pc = "idle"
    /\ row' = FailStaleBroadcastDeliveries(row)
    /\ camp' = IF camp = "prepared" /\ lapsed THEN "expired" ELSE camp
    /\ worker' = [worker EXCEPT ![w] =
          IF camp = "approved" THEN [Idle EXCEPT !.pc = "start", !.left = Resolve, !.bad = edited]
          ELSE [Idle EXCEPT !.pc = "claim"]]
    /\ UNCHANGED <<edited, lapsed, faults, people, history>>

StartBroadcastCampaign(us) ==
    [u \in Users |-> IF u \in us /\ row[u].status = "none" THEN Row("pending", 0, TRUE, "") ELSE row[u]]

startApproved(w) ==
    LET us == worker[w].left
        to == IF worker[w].bad \/ Cardinality(us) > RecipientLimit THEN "cancelled"
              ELSE IF us = {} THEN "completed" ELSE "sending"
    IN /\ worker[w].pc = "start"
       /\ camp' = IF camp = "approved" THEN to ELSE camp
       /\ row' = IF camp = "approved" /\ to = "sending" THEN StartBroadcastCampaign(us) ELSE row
       /\ worker' = [worker EXCEPT ![w] = [Idle EXCEPT !.pc = "claim"]]
       /\ UNCHANGED <<edited, lapsed, faults, people, history>>

Due == {u \in Users : row[u].status = "pending" /\ row[u].due /\ camp = "sending"}

ClaimBroadcastDeliveries(w) ==
    /\ worker[w].pc = "claim"
    /\ \E us \in SUBSET Due :
          /\ Cardinality(us) = IF Cardinality(Due) < BatchSize THEN Cardinality(Due) ELSE BatchSize
          /\ row' = [u \in Users |-> IF u \in us THEN Row("sending", row[u].attempts + 1, FALSE, row[u].reason)
                                     ELSE SkipCancelledBroadcastDeliveries(row)[u]]
          /\ since' = (since \ us) \cup (us \cap Resolve)
          /\ worker' = [worker EXCEPT ![w] = [Idle EXCEPT !.pc = IF us = {} THEN "done" ELSE "next", !.left = us]]
    /\ UNCHANGED <<camp, edited, lapsed, facts, ops, faults, history>>

\* What follows a row: the next of the batch, or the end of the tick.
Next1(w, left) ==
    [worker EXCEPT ![w].pc = IF left = {} THEN "done" ELSE "next", ![w].left = left, ![w].cur = Nobody, ![w].result = ""]

StillSending == camp = "sending"

\* deliver, first part: the campaign as it is now decides whether this row goes on.
deliver(w, u) ==
    LET left == worker[w].left \ {u}
    IN /\ worker[w].pc = "next" /\ u \in worker[w].left
       /\ IF StillSending /\ ~edited
          THEN /\ worker' = [worker EXCEPT ![w].pc = "facts", ![w].left = left, ![w].cur = u]
               /\ UNCHANGED <<camp, row>>
          ELSE /\ camp' = IF camp = "sending" THEN "cancelled" ELSE camp
               /\ row' = FinishBroadcastDelivery(row, u, "skipped", "cancelled")
               /\ worker' = Next1(w, left)
       /\ UNCHANGED <<edited, lapsed, faults, people, history>>

leaseExhausted(w) == worker[w].age > 0

\* release hands rows back; the tick then ends, with the error or without.
release(w, pc) ==
    /\ row' = ReleaseBroadcastDelivery(row, worker[w].left \cup {worker[w].cur})
    /\ worker' = [worker EXCEPT ![w] = [Idle EXCEPT !.pc = pc]]

Eligible(w) == Evaluate(facts[worker[w].cur])

\* deliver, second part: the recipient as they are now.
deliverFacts(w) ==
    LET u == worker[w].cur
    IN /\ worker[w].pc = "facts"
       /\ \/ /\ ~Eligible(w)
             /\ row' = FinishBroadcastDelivery(row, u, "skipped", "ineligible")
             /\ worker' = Next1(w, worker[w].left)
          \/ /\ Eligible(w) /\ leaseExhausted(w)
             /\ release(w, "done")
          \/ /\ Eligible(w) /\ ~leaseExhausted(w)
             /\ Go(w, "wait") /\ UNCHANGED row
       /\ UNCHANGED <<camp, edited, lapsed, faults, people, history>>

\* deliver, third part: the rate limiter has let it through.
deliverSend(w) ==
    /\ worker[w].pc = "wait"
    /\ IF leaseExhausted(w)
       THEN release(w, "done") /\ UNCHANGED late
       ELSE /\ Go(w, "flight") /\ UNCHANGED row
            /\ late' = IF camp = "sending" THEN late ELSE [late EXCEPT ![w] = @ + 1]
    /\ UNCHANGED <<camp, edited, lapsed, got, faults, people>>

\* What Telegram and the network can make of one send.  The last two look
\* alike to the worker: no answer within sendTimeout.
Outcomes == {"ok", "blocked", "transient", "rejected", "lost_after", "lost_before"}
Arrives(o) == o \in {"ok", "lost_after"}
Answer(o) == IF o \in {"lost_after", "lost_before"} THEN "none" ELSE o

SendMessage(w, o) ==
    /\ worker[w].pc = "flight"
    /\ worker' = [worker EXCEPT ![w].pc = "record", ![w].result = Answer(o)]
    /\ got' = IF Arrives(o) THEN [got EXCEPT ![worker[w].cur] = @ + 1] ELSE got
    /\ UNCHANGED <<camp, edited, lapsed, row, late, faults, people>>

ClassifyDelivery(o, old) == CASE o = "ok" -> "reachable" [] o = "blocked" -> "blocked" [] OTHER -> old

FaultyRecorded(u, o) ==
    CASE o = "ok"        -> FinishBroadcastDelivery(row, u, "delivered", "")
      [] o = "blocked"   -> FinishBroadcastDelivery(row, u, "failed", "bot_blocked")
      [] o = "rejected"  -> FinishBroadcastDelivery(row, u, "failed", "rejected")
      [] OTHER           -> retry(row, u)

recorded(u, o) ==
    CASE o = "ok"        -> FinishBroadcastDelivery(row, u, "delivered", "")
      [] o = "blocked"   -> FinishBroadcastDelivery(row, u, "failed", "bot_blocked")
      [] o = "transient" -> retry(row, u)
      [] o = "rejected"  -> FinishBroadcastDelivery(row, u, "failed", "rejected")
      [] OTHER           -> FinishBroadcastDelivery(row, u, "failed", "outcome_unknown")

record(w) ==
    LET u == worker[w].cur  o == worker[w].result
    IN /\ worker[w].pc = "record"
       /\ facts' = [facts EXCEPT ![u].reach = ClassifyDelivery(o, @)]
       /\ since' = since \ {u}
       /\ row' = recorded(u, o)
       /\ worker' = Next1(w, worker[w].left)
       /\ UNCHANGED <<camp, edited, lapsed, ops, faults, history>>

Complete(w) ==
    /\ worker[w].pc = "done"
    /\ camp' = CompleteBroadcastCampaigns
    /\ worker' = [worker EXCEPT ![w] = Idle]
    /\ UNCHANGED <<edited, lapsed, row, faults, people, history>>

-----------------------------------------------------------------------------
\* Faults.

Batch(w) == worker[w].left \cup ({worker[w].cur} \cap Users)

\* A read fails before the send: the row is retried, the rest handed back,
\* unless those writes fail too.
storeFault(w) ==
    LET u == IF worker[w].cur = Nobody THEN CHOOSE x \in worker[w].left : TRUE ELSE worker[w].cur
    IN /\ worker[w].pc \in {"next", "facts"} /\ faults > 0
       /\ faults' = faults - 1
       /\ row' \in {row, ReleaseBroadcastDelivery(retry(row, u), Batch(w) \ {u})}
       /\ worker' = [worker EXCEPT ![w] = Idle]
       /\ UNCHANGED <<camp, edited, lapsed, people, history>>

\* The outcome of a send cannot be written: the row stays claimed.
RecordFails(w) ==
    /\ worker[w].pc = "record" /\ faults > 0
    /\ faults' = faults - 1
    /\ row' = ReleaseBroadcastDelivery(row, worker[w].left)
    /\ worker' = [worker EXCEPT ![w] = Idle]
    /\ UNCHANGED <<camp, edited, lapsed, people, history>>

\* A shutdown cancels what has not been sent; a send in flight is awaited.
Shutdown(w) ==
    /\ worker[w].pc \in {"next", "facts", "wait"} /\ faults > 0
    /\ faults' = faults - 1
    /\ release(w, "down")
    /\ UNCHANGED <<camp, edited, lapsed, people, history>>

Crash(w) ==
    /\ worker[w].pc \notin {"down", "idle"} /\ faults > 0
    /\ faults' = faults - 1
    /\ worker' = [worker EXCEPT ![w] = [Idle EXCEPT !.pc = "down"]]
    /\ \/ got' = got
       \/ worker[w].pc = "flight" /\ got' = [got EXCEPT ![worker[w].cur] = @ + 1]
    /\ UNCHANGED <<camp, edited, lapsed, row, late, people>>

Restart(w) ==
    /\ worker[w].pc = "down"
    /\ worker' = [worker EXCEPT ![w] = Idle]
    /\ UNCHANGED <<camp, edited, lapsed, row, faults, people, history>>

\* A worker is slow.  A send ends within sendTimeout, so the lease cannot run
\* out under it.
Stall(w) ==
    LET a == worker[w].age + 1
    IN /\ worker[w].pc \in {"next", "facts", "wait", "flight", "record"}
       /\ a <= 2 /\ ~(worker[w].pc = "flight" /\ a = 2)
       /\ a = 1 => faults > 0
       /\ faults' = IF a = 1 THEN faults - 1 ELSE faults
       /\ worker' = [worker EXCEPT ![w].age = a]
       /\ row' = [u \in Users |-> IF u \in Batch(w) /\ row[u].status = "sending" THEN [row[u] EXCEPT !.age = a]
                                  ELSE row[u]]
       /\ UNCHANGED <<camp, edited, lapsed, people, history>>

\* A claim whose worker is gone grows old; a retry becomes due.
Ages(u) ==
    /\ row[u].status = "sending" /\ row[u].age < 2 /\ \A w \in Workers : u \notin Batch(w)
    /\ row' = [row EXCEPT ![u].age = 2]
    /\ UNCHANGED <<camp, edited, lapsed, worker, faults, people, history>>

BecomesDue(u) ==
    /\ row[u].status = "pending" /\ ~row[u].due
    /\ row' = [row EXCEPT ![u].due = TRUE]
    /\ UNCHANGED <<camp, edited, lapsed, worker, faults, people, history>>

-----------------------------------------------------------------------------
Step(w) ==
    \/ Tick(w) \/ startApproved(w) \/ ClaimBroadcastDeliveries(w) \/ Complete(w) \/ Restart(w)
    \/ deliverFacts(w) \/ deliverSend(w) \/ record(w)
    \/ \E u \in Users : deliver(w, u)
    \/ \E o \in Outcomes : SendMessage(w, o)

Next ==
    \/ Prepare \/ Approve \/ CancelBroadcastCampaign \/ Lapse \/ Edit
    \/ \E u \in Users : SetNotificationPrefs(u) \/ RecordInboundBotReachability(u) \/ purgeNotificationState(u)
    \/ \E w \in Workers : Step(w) \/ storeFault(w) \/ RecordFails(w) \/ Shutdown(w) \/ Crash(w) \/ Stall(w)
    \/ \E u \in Users : Ages(u) \/ BecomesDue(u)

Spec == Init /\ [][Next]_vars

\* The worker's loop goes on and is restarted; time passes for rows.
FairSpec ==
    /\ Spec
    /\ \A w \in Workers : WF_vars(Step(w))
    /\ \A u \in Users : WF_vars(Ages(u)) /\ WF_vars(BecomesDue(u))

-----------------------------------------------------------------------------
\* Two workers, crashes, slow claims and lost answers send nobody the same
\* campaign twice, and a row says delivered, skipped or refused only when that
\* is what happened; a send that may have happened is outcome_unknown.
DeliveriesAreTrue ==
    \A u \in Users :
        /\ got[u] <= 1
        /\ row[u].status = "delivered" => got[u] = 1
        /\ row[u].status \in {"none", "pending", "skipped"} => got[u] = 0
        /\ row[u].status = "failed" /\ row[u].reason # "outcome_unknown" => got[u] = 0

\* Nobody who had opted out, become unreachable or deleted the account before
\* their row was claimed is sent the message (worker.deliver re-reads them).
OptOutIsHeard ==
    \A w \in Workers : worker[w].pc = "flight" => worker[w].cur \in since

\* A cancelled campaign stops: a worker finishes at most the one recipient it
\* was already working on, however much of its batch is left.
CancelStopsTheBatch == \A w \in Workers : late[w] <= 1

\* A campaign is completed only when every recipient's row is final, and none
\* of them is sent or queued again afterwards.
CompletedIsFinal ==
    camp = "completed" => \A u \in Users : row[u].status \in Final

\* An approved campaign is delivered, skipped or closed for every recipient in
\* the end, with workers crashing, restarting and failing to write.
EveryCampaignEnds ==
    camp = "approved" ~> (camp \in Ended /\ \A u \in Users : row[u].status \in Final)
=============================================================================
