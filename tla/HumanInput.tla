----------------------------- MODULE HumanInput -----------------------------
(***************************************************************************)
(* The clarification questions of an agent and the answers of its owner    *)
(* (internal/humaninput, internal/db/human_input.go, and the notifier of   *)
(* internal/agent/control that carries them).  The platform (mctl-api, an  *)
(* external service) holds a request and replaces it by newer versions,    *)
(* each with its own hash.  A poller lists the pending requests and        *)
(* queues one message per version; notifier sweeps, several of which may   *)
(* run at once, deliver the messages; the owner answers with the code of a *)
(* version, and the command handler submits the answer.  Poller, notifiers *)
(* and commands interleave at every statement of the database and at every *)
(* call of the platform, and a call may fail or lose its answer.           *)
(***************************************************************************)
EXTENDS Naturals, FiniteSets

CONSTANTS
    Requests,     \* ids of requests the platform may hold for the owner
    MaxVersion,   \* versions of a request
    Notifiers,    \* concurrent notifier sweeps
    Commands,     \* owner commands that may be in progress at once
    Scenarios     \* triples: owner commands, faults, the questions' kinds

VARIABLES
    kind,         \* the response type of each version
    asks,         \* the platform's record of each request
    rows,         \* human_input_deliveries.state of each version, "none" without a row
    notes,        \* owner_notifications.status of each version's message
    lease,        \* TRUE while claimed_until of the message is in the future
    randomID,     \* owner_notifications.random_id, 0 before the first claim
    shown,        \* random ids under which Telegram took the message
    told,         \* what the owner has been told of each version
    asleep,       \* human_input_actors.dormant_until is in the future
    poll,         \* the poller: its program counter and its snapshots
    sweep,        \* the notifier sweeps
    cmd,          \* the commands in progress
    ops, faults   \* commands and faults still allowed

vars == <<kind, asks, rows, notes, lease, randomID, shown, told, asleep, poll,
          sweep, cmd, ops, faults>>
store == <<rows, notes, lease, randomID>>

Versions == 1..MaxVersion
Questions == Requests \X Versions
Open == {"queued", "sent", "submitted", "unconfirmed"}
Closed == {"answered", "inactive", "superseded"}

IdlePoll == [pc |-> "idle", listed |-> {}, todo |-> {}]
IdleSweep == [pc |-> "idle", q |-> <<>>]
IdleCmd == [pc |-> "idle", q |-> <<>>, saw |-> "none", after |-> FALSE,
            want |-> "none", say |-> "none"]

TypeOK ==
    /\ kind \in [Questions -> {"choice", "text", "other"}]
    /\ asks \in [Requests -> [v : 0..MaxVersion,
                              st : {"none", "pending", "resolved", "expired", "gone"},
                              by : {"none", "owner", "other"},
                              for : 0..MaxVersion]]
    /\ rows \in [Questions -> {"none"} \cup Open \cup Closed]
    /\ notes \in [Questions -> {"none", "pending", "sent", "failed"}]
    /\ lease \in [Questions -> BOOLEAN]
    /\ \A q \in Questions : randomID[q] \in Nat /\ shown[q] \subseteq Nat
    /\ told \in [Questions -> SUBSET {"yours", "inactive", "resolved"}]
    /\ asleep \in BOOLEAN
    /\ poll.pc \in {"idle", "enqueue", "settle"}
    /\ \A n \in Notifiers : sweep[n].pc \in {"idle", "send", "record"}
    /\ \A c \in Commands : cmd[c].pc \in {"idle", "get", "post", "reread", "write"}

Init ==
    /\ asks = [r \in Requests |-> [v |-> 0, st |-> "none", by |-> "none", for |-> 0]]
    /\ rows = [q \in Questions |-> "none"]
    /\ notes = [q \in Questions |-> "none"]
    /\ lease = [q \in Questions |-> FALSE]
    /\ randomID = [q \in Questions |-> 0]
    /\ shown = [q \in Questions |-> {}]
    /\ told = [q \in Questions |-> {}]
    /\ asleep = FALSE
    /\ poll = IdlePoll
    /\ sweep = [n \in Notifiers |-> IdleSweep]
    /\ cmd = [c \in Commands |-> IdleCmd]
    /\ \E s \in Scenarios : ops = s[1] /\ faults = s[2] /\ kind = s[3]

------------------------------------------------------------------------------
(* The platform, from docs/contracts and the calls of internal/workctx.       *)

Pending(q) == asks[q[1]].st = "pending" /\ asks[q[1]].v = q[2]

\* An agent stops and asks, or asks again in other words: a newer version
\* replaces the one before.
PlatformAsks(r) ==
    /\ asks[r].st \in {"none", "pending"}
    /\ asks[r].by = "none"
    /\ asks[r].v < MaxVersion
    /\ asks' = [asks EXCEPT ![r] = [v |-> @.v + 1, st |-> "pending", by |-> "none", for |-> 0]]
    /\ UNCHANGED <<kind, store, shown, told, asleep, poll, sweep, cmd, ops, faults>>

\* Another eligible human answers, the request expires, or it stops being
\* visible to this owner.  A recorded answer is confirmed by the workflow.
PlatformMoves(r) ==
    /\ asks[r].st = "pending"
    /\ \/ asks[r].by = "none" /\ asks' = [asks EXCEPT ![r].st = "resolved", ![r].by = "other"]
       \/ asks[r].by = "none" /\ asks' = [asks EXCEPT ![r].st = "expired"]
       \/ asks[r].by = "none" /\ asks' = [asks EXCEPT ![r].st = "gone"]
       \/ asks[r].by = "owner" /\ asks' = [asks EXCEPT ![r].st = "resolved"]
    /\ UNCHANGED <<kind, store, shown, told, asleep, poll, sweep, cmd, ops, faults>>

------------------------------------------------------------------------------
(* The delivery rows.                                                         *)

\* MarkHumanInputDelivery: a compare-and-set from the open states.
Marked(q, state) == rows[q] \in Open /\ rows[q] # state

\* MarkOwnerNotificationFailed: from pending only.
MarkOwnerNotificationFailed(q) ==
    /\ notes' = IF notes[q] = "pending" THEN [notes EXCEPT ![q] = "failed"] ELSE notes
    /\ lease' = IF notes[q] = "pending" THEN [lease EXCEPT ![q] = FALSE] ELSE lease

\* The mark, and its last statement: the message of a row that was still
\* queued is retired.  A claim between the two is a claim before both, since
\* a claim does not read the row.
MarkHumanInputDelivery(q, state) ==
    IF Marked(q, state)
    THEN /\ rows' = [rows EXCEPT ![q] = state]
         /\ IF rows[q] = "queued" /\ state \in Closed \ {"answered"}
            THEN MarkOwnerNotificationFailed(q)
            ELSE UNCHANGED <<notes, lease>>
    ELSE UNCHANGED <<rows, notes, lease>>

Tell(q, what) == told' = [told EXCEPT ![q] = @ \cup what]

FaultyUpsertable(q) ==
    \A p \in Questions : p[1] = q[1] => rows[p] = "none"
\* UpsertHumanInputDeliveryTx inserts a row for a triple that has none.
Upsertable(q) == rows[q] = "none"

------------------------------------------------------------------------------
(* The poller (Poller.pollActor, one actor).                                  *)

\* undeliverable: a question of another type, with no usable options or not
\* open to this owner is reported and not delivered.
Deliverable(q) == kind[q] # "other"

\* ListHumanInput answers with the pending requests of the actor.
PollList ==
    /\ poll.pc = "idle"
    /\ ~asleep
    /\ LET now == {q \in Questions : Pending(q)}
       IN poll' = [poll EXCEPT !.pc = "enqueue", !.listed = now, !.todo = {q \in now : Deliverable(q)}]
    /\ UNCHANGED <<kind, asks, store, shown, told, asleep, sweep, cmd, ops, faults>>

\* A link refusal makes the actor dormant; dormant_until passes later, or the
\* owner runs a command that enrols the actor again (UpsertHumanInputActor).
PollRefused ==
    /\ poll.pc = "idle"
    /\ ~asleep
    /\ faults > 0
    /\ asleep' = TRUE
    /\ faults' = faults - 1
    /\ UNCHANGED <<kind, asks, store, shown, told, poll, sweep, cmd, ops>>

ActorWakes ==
    /\ asleep
    /\ asleep' = FALSE
    /\ UNCHANGED <<kind, asks, store, shown, told, poll, sweep, cmd, ops, faults>>

\* SupersedeHumanInputDeliveries, one row of the loop: an open row of the same
\* request under another hash is closed.
Others(q) == {p \in Questions : p[1] = q[1] /\ p[2] # q[2] /\ rows[p] \in Open}

PollSupersede ==
    /\ poll.pc = "enqueue"
    /\ \E q \in poll.todo : \E p \in Others(q) : MarkHumanInputDelivery(p, "superseded")
    /\ UNCHANGED <<kind, asks, randomID, shown, told, asleep, poll, sweep, cmd, ops, faults>>

\* The insert of the row and of its message, one transaction.
PollEnqueue ==
    /\ poll.pc = "enqueue"
    /\ \E q \in poll.todo :
          /\ Others(q) = {}
          /\ IF Upsertable(q)
             THEN /\ rows' = [rows EXCEPT ![q] = "queued"]
                  /\ notes' = [notes EXCEPT ![q] = "pending"]
             ELSE UNCHANGED <<rows, notes>>
          /\ poll' = [poll EXCEPT !.todo = @ \ {q}]
    /\ UNCHANGED <<kind, asks, lease, randomID, shown, told, asleep, sweep, cmd, ops, faults>>

\* ListOpenHumanInputDeliveries: the open rows the list did not name, each
\* with its state as read now.
PollListOpen ==
    /\ poll.pc = "enqueue"
    /\ poll.todo = {}
    /\ LET absent == {q \in Questions : rows[q] \in Open} \ poll.listed
       IN poll' = IF absent = {} THEN IdlePoll
                  ELSE [pc |-> "settle", listed |-> {}, todo |-> {<<q, rows[q]>> : q \in absent}]
    /\ UNCHANGED <<kind, asks, store, shown, told, asleep, sweep, cmd, ops, faults>>

\* Which rows a resolved request closes as the owner's own answer.
OwnAnswer(was) == was = "submitted"

\* What settleAbsent makes of the canonical read for an open row in state was:
\* <<new state, what the owner is told>>; the same state leaves the row open.
SettleAbsent(q, was) ==
    LET a == asks[q[1]]
    IN  IF a.st = "gone" THEN <<"inactive", "inactive">>
        ELSE IF a.v # q[2] THEN <<"superseded", "inactive">>
        ELSE IF a.st = "resolved"
             THEN IF OwnAnswer(was) THEN <<"answered", "yours">>
                  ELSE <<"inactive", IF was = "unconfirmed" THEN "resolved" ELSE "inactive">>
        ELSE IF a.st = "expired" THEN <<"inactive", "inactive">>
        ELSE <<rows[q], "none">>

PollLeft(e) == IF poll.todo = {e} THEN IdlePoll ELSE [poll EXCEPT !.todo = @ \ {e}]

\* settleAbsent: the canonical read and the mark; the follow-up message goes
\* out only when the mark changed a row that had been delivered.
PollSettle ==
    /\ poll.pc = "settle"
    /\ \E e \in poll.todo :
          LET q == e[1]
              out == SettleAbsent(q, e[2])
          IN  /\ MarkHumanInputDelivery(q, out[1])
              /\ Tell(q, IF Marked(q, out[1]) /\ e[2] # "queued" THEN {out[2]} ELSE {})
              /\ poll' = PollLeft(e)
    /\ UNCHANGED <<kind, asks, randomID, shown, asleep, sweep, cmd, ops, faults>>

\* A failed canonical read, or a spent settle budget, leaves the row for a
\* later poll.
PollReadFails ==
    /\ poll.pc = "settle"
    /\ faults > 0
    /\ faults' = faults - 1
    /\ \E e \in poll.todo : poll' = PollLeft(e)
    /\ UNCHANGED <<kind, asks, store, shown, told, asleep, sweep, cmd, ops>>

------------------------------------------------------------------------------
(* The notifier (Notifier.DeliverPending), one notification per sweep.        *)

FaultyCandidate(q) == Cardinality(shown[q]) + 1
\* ClaimOwnerNotification keeps the random id of an earlier attempt.
Candidate(q) == IF randomID[q] # 0 THEN randomID[q] ELSE Cardinality(shown[q]) + 1

Claim(n) ==
    /\ sweep[n].pc = "idle" /\ n = CHOOSE m \in Notifiers : sweep[m].pc = "idle"
    /\ \E q \in Questions :
          /\ notes[q] = "pending"
          /\ ~lease[q]
          /\ lease' = [lease EXCEPT ![q] = TRUE]
          /\ randomID' = [randomID EXCEPT ![q] = Candidate(q)]
          /\ sweep' = [sweep EXCEPT ![n] = [pc |-> "send", q |-> q]]
    /\ UNCHANGED <<kind, asks, rows, notes, shown, told, asleep, poll, cmd, ops, faults>>

\* claimed_until passes.  That the sweep which claimed is still at work by then
\* counts as a fault.
LeaseExpires(q) ==
    /\ lease[q]
    /\ notes[q] = "pending"
    /\ lease' = [lease EXCEPT ![q] = FALSE]
    /\ \/ /\ \A n \in Notifiers : sweep[n].q # q
          /\ UNCHANGED faults
       \/ /\ \E n \in Notifiers : sweep[n].q = q
          /\ faults > 0
          /\ faults' = faults - 1
    /\ UNCHANGED <<kind, asks, rows, notes, randomID, shown, told, asleep, poll, sweep, cmd, ops>>

\* SendToSelfWithRandomID: Telegram takes a random id once; a second send
\* answers that it was already delivered, which counts as delivered.
Send(n) ==
    /\ sweep[n].pc = "send"
    /\ LET q == sweep[n].q
       IN shown' = [shown EXCEPT ![q] = @ \cup {randomID[q]}]
    /\ sweep' = [sweep EXCEPT ![n].pc = "record"]
    /\ UNCHANGED <<kind, asks, store, told, asleep, poll, cmd, ops, faults>>

\* The send fails, or is taken and its answer lost, or the process stops; an
\* old notification is then marked failed.
SendFails(n) ==
    /\ sweep[n].pc = "send"
    /\ faults > 0
    /\ faults' = faults - 1
    /\ LET q == sweep[n].q
       IN  /\ \/ shown' = [shown EXCEPT ![q] = @ \cup {randomID[q]}]
              \/ UNCHANGED shown
           /\ \/ UNCHANGED <<notes, lease>>
              \/ MarkOwnerNotificationFailed(q)
    /\ sweep' = [sweep EXCEPT ![n] = IdleSweep]
    /\ UNCHANGED <<kind, asks, rows, randomID, told, asleep, poll, cmd, ops>>

\* MarkOwnerNotificationSent, from pending only, and then
\* SetHumanInputDeliveryMessageID, from queued only.
Record(n) ==
    /\ sweep[n].pc = "record"
    /\ LET q == sweep[n].q
       IN  /\ notes' = IF notes[q] = "pending" THEN [notes EXCEPT ![q] = "sent"] ELSE notes
           /\ lease' = [lease EXCEPT ![q] = FALSE]
           /\ rows' = IF rows[q] = "queued" THEN [rows EXCEPT ![q] = "sent"] ELSE rows
    /\ sweep' = [sweep EXCEPT ![n] = IdleSweep]
    /\ UNCHANGED <<kind, asks, randomID, shown, told, asleep, poll, cmd, ops, faults>>

\* The process stops after the send, or between the two records.
SweepStops(n) ==
    /\ sweep[n].pc = "record"
    /\ faults > 0
    /\ faults' = faults - 1
    /\ LET q == sweep[n].q
       IN  \/ UNCHANGED <<notes, lease>>
           \/ /\ notes[q] = "pending"
              /\ notes' = [notes EXCEPT ![q] = "sent"]
              /\ lease' = [lease EXCEPT ![q] = FALSE]
    /\ sweep' = [sweep EXCEPT ![n] = IdleSweep]
    /\ UNCHANGED <<kind, asks, rows, randomID, shown, told, asleep, poll, cmd, ops>>

------------------------------------------------------------------------------
(* The owner's commands (Handler.Answer and Handler.Status).                  *)

Free(c) == cmd[c].pc = "idle" /\ c = CHOOSE d \in Commands : cmd[d].pc = "idle"

\* Of the row's state a command keeps what its later branches tell apart.
Saw(q) == IF rows[q] \in {"submitted", "unconfirmed"} THEN rows[q] ELSE "sent"

\* The owner types the code of a message they have; the handler reads the row.
\* A closed row is answered from the row alone.
StartAnswer(c, q) ==
    /\ Free(c)
    /\ ops > 0
    /\ shown[q] # {}
    /\ ops' = ops - 1
    /\ IF rows[q] \in Closed
       THEN /\ Tell(q, IF rows[q] = "answered" THEN {} ELSE {"inactive"})
            /\ UNCHANGED cmd
       ELSE /\ cmd' = [cmd EXCEPT ![c] = [IdleCmd EXCEPT
                         !.pc = IF kind[q] = "choice" THEN "get" ELSE "post",
                         !.q = q, !.saw = Saw(q)]]
            /\ UNCHANGED told
    /\ UNCHANGED <<kind, asks, store, shown, asleep, poll, sweep, faults>>

StartStatus(c, q) ==
    /\ Free(c)
    /\ ops > 0
    /\ shown[q] # {}
    /\ ops' = ops - 1
    /\ asleep' = FALSE
    /\ cmd' = [cmd EXCEPT ![c] = [IdleCmd EXCEPT !.pc = "reread", !.q = q, !.saw = Saw(q)]]
    /\ UNCHANGED <<kind, asks, store, shown, told, poll, sweep, faults>>

\* Handler.settle on a view of the row's own version, the row as the command
\* read it: <<state to write, what the reply says>>.
Settle(st, saw, after) ==
    CASE st = "resolved" /\ saw = "unconfirmed" /\ ~after -> <<"inactive", "resolved">>
      [] st = "resolved" /\ (after \/ saw = "submitted") ->
             <<"answered", IF after THEN "resolved" ELSE "yours">>
      [] st = "resolved" /\ ~after /\ saw \notin {"submitted", "unconfirmed"} ->
             <<"inactive", "resolved">>
      [] st = "pending" -> <<IF after /\ saw # "submitted" THEN "unconfirmed" ELSE "none", "none">>
      [] st = "expired" -> <<"inactive", "inactive">>

\* A canonical read as Answer, Status and canonicalText all use it.
Canonical(q, saw, after) ==
    LET a == asks[q[1]]
    IN  IF a.st = "gone" THEN <<"inactive", "inactive">>
        ELSE IF a.v # q[2] THEN <<"superseded", "inactive">>
        ELSE Settle(a.st, saw, after)

Ended(c) == cmd' = [cmd EXCEPT ![c] = IdleCmd]
Write(c, out) == cmd' = [cmd EXCEPT ![c].pc = "write", ![c].want = out[1], ![c].say = out[2]]

\* A single-choice answer reads the question first, for the option's text.
ReadQuestion(c) ==
    /\ cmd[c].pc = "get"
    /\ LET q == cmd[c].q
       IN  IF Pending(q)
           THEN cmd' = [cmd EXCEPT ![c].pc = "post"]
           ELSE Write(c, Canonical(q, cmd[c].saw, FALSE))
    /\ UNCHANGED <<kind, asks, store, shown, told, asleep, poll, sweep, ops, faults>>

\* The answer names the hash of the row its code belongs to.
SubmittedHash(q) == q[2]

\* RespondHumanInput, and what the platform makes of it: an answer to the
\* version it holds is recorded, and confirmed now or later.
Respond(c) ==
    /\ cmd[c].pc = "post"
    /\ LET q == cmd[c].q
           a == asks[q[1]]
       IN  \/ /\ SubmittedHash(q) = a.v /\ a.st = "pending" /\ a.by \in {"none", "owner"}
              /\ \/ /\ asks' = [asks EXCEPT ![q[1]].st = "resolved", ![q[1]].by = "owner",
                                            ![q[1]].for = IF @ = 0 THEN q[2] ELSE @]
                    /\ Write(c, <<"answered", "yours">>)
                 \/ /\ asks' = [asks EXCEPT ![q[1]].by = "owner",
                                            ![q[1]].for = IF @ = 0 THEN q[2] ELSE @]
                    /\ Write(c, <<"submitted", "none">>)
           \/ /\ SubmittedHash(q) = a.v /\ a.st = "resolved" /\ a.by = "owner"
              /\ Write(c, <<"answered", "yours">>)
              /\ UNCHANGED asks
           \/ /\ SubmittedHash(q) = a.v
              /\ a.st \in {"resolved", "expired"} /\ a.by # "owner"
              /\ Write(c, <<"inactive", "inactive">>)
              /\ UNCHANGED asks
           \/ /\ SubmittedHash(q) # a.v /\ a.st # "gone"
              /\ Write(c, <<"superseded", "inactive">>)
              /\ UNCHANGED asks
           \* a 404 on the answer is an API error below 500: nothing is marked
           \/ /\ a.st = "gone"
              /\ Ended(c)
              /\ UNCHANGED asks
    /\ UNCHANGED <<kind, store, shown, told, asleep, poll, sweep, ops, faults>>

\* A call of the platform that fails: before anything is submitted the command
\* ends; a submission whose answer is lost is re-read, whether or not the
\* platform took it; a failed re-read after a submission leaves it unconfirmed.
CallFails(c) ==
    /\ cmd[c].pc \in {"get", "post", "reread"}
    /\ faults > 0
    /\ faults' = faults - 1
    /\ LET q == cmd[c].q
           a == asks[q[1]]
       IN  CASE cmd[c].pc = "get" -> Ended(c) /\ UNCHANGED asks
             [] cmd[c].pc = "post" ->
                  /\ cmd' = [cmd EXCEPT ![c].pc = "reread", ![c].after = TRUE]
                  /\ \/ UNCHANGED asks
                     \/ /\ SubmittedHash(q) = a.v /\ a.st = "pending" /\ a.by = "none"
                        /\ asks' = [asks EXCEPT ![q[1]].by = "owner", ![q[1]].for = q[2]]
             [] cmd[c].pc = "reread" ->
                  /\ IF cmd[c].after /\ cmd[c].saw # "submitted"
                     THEN Write(c, <<"unconfirmed", "none">>) ELSE Ended(c)
                  /\ UNCHANGED asks
    /\ UNCHANGED <<kind, store, shown, told, asleep, poll, sweep, ops>>

\* canonicalText.
Reread(c) ==
    /\ cmd[c].pc = "reread"
    /\ Write(c, Canonical(cmd[c].q, cmd[c].saw, cmd[c].after))
    /\ UNCHANGED <<kind, asks, store, shown, told, asleep, poll, sweep, ops, faults>>

\* markTerminal and the reply, which does not wait for what the mark changed.
WriteAndReply(c) ==
    /\ cmd[c].pc = "write"
    /\ LET q == cmd[c].q
           want == cmd[c].want
       IN  /\ IF want = "none" THEN UNCHANGED <<rows, notes, lease>>
              ELSE MarkHumanInputDelivery(q, want)
           /\ Tell(q, {cmd[c].say} \ {"none"})
    /\ Ended(c)
    /\ UNCHANGED <<kind, asks, randomID, shown, asleep, poll, sweep, ops, faults>>

------------------------------------------------------------------------------
Poller ==
    PollList \/ PollSupersede \/ PollEnqueue \/ PollListOpen \/ PollSettle

Notifier(n) == Claim(n) \/ Send(n) \/ Record(n)

Handler(c) ==
    ReadQuestion(c) \/ Respond(c) \/ Reread(c) \/ WriteAndReply(c)

Next ==
    \/ \E r \in Requests : PlatformAsks(r) \/ PlatformMoves(r)
    \/ Poller
    \/ PollRefused \/ ActorWakes \/ PollReadFails
    \/ \E n \in Notifiers : Notifier(n) \/ SendFails(n) \/ SweepStops(n)
    \/ \E q \in Questions : LeaseExpires(q)
    \/ \E c \in Commands :
          \/ \E q \in Questions : StartAnswer(c, q) \/ StartStatus(c, q)
          \/ Handler(c)
          \/ CallFails(c)

Spec == Init /\ [][Next]_vars

\* The poller and the notifier run on tickers for the life of the process, a
\* dormant actor is listed again when its backoff has passed, leases expire by
\* the clock, and a started command runs to its reply.  Nothing makes the
\* platform or the owner act.
FairSpec ==
    /\ Spec
    /\ WF_vars(Poller)
    /\ WF_vars(ActorWakes)
    /\ \A n \in Notifiers : WF_vars(Notifier(n))
    /\ \A q \in Questions : WF_vars(LeaseExpires(q))
    /\ \A c \in Commands : WF_vars(Handler(c))

------------------------------------------------------------------------------
(* Properties.                                                                *)

\* The owner is told that an answer is theirs ("Answered by you", "Your answer
\* was confirmed", "Answered. Agent will resume.") only when the platform holds
\* this owner's answer to that very version, whatever was lost or overtaken.
YoursIsYours ==
    \A q \in Questions :
        "yours" \in told[q] => asks[q[1]].by = "owner" /\ asks[q[1]].v = q[2]

\* An answer counts only for the version whose message the owner had when they
\* gave it: the platform never records it for a newer wording.
AnswerFitsQuestion ==
    \A r \in Requests : asks[r].by = "owner" => asks[r].for = asks[r].v

\* One version of a question appears once in Saved Messages, through lost
\* answers, restarts and sweeps that overlap after a lease ran out.
OneMessage == \A q \in Questions : Cardinality(shown[q]) <= 1

\* A question that stays pending and can be shown reaches the owner, unless its message was
\* given up as too old; an older version never blocks a newer one.
QuestionsArrive ==
    \A q \in Questions :
        (Pending(q) /\ Deliverable(q)) ~> (shown[q] # {} \/ notes[q] = "failed" \/ ~Pending(q))

\* A row whose version no longer waits for an answer is closed in the end, so
\* its code stops being answerable, delivered or not.
RowsSettle ==
    \A q \in Questions :
        (rows[q] \in Open /\ ~Pending(q)) ~> rows[q] \in Closed
==============================================================================
