----------------------------- MODULE ActionSend ------------------------------
(***************************************************************************)
(* From an approved draft to a message in the peer's chat                  *)
(* (internal/agent/executor, internal/db/agent_actions.go and              *)
(* agent_delivery.go, the echo handling of internal/agent/listener).       *)
(*                                                                         *)
(* Executor threads run send() and recoverOne().  Each database statement  *)
(* they issue is a compare-and-set on the action's row and one step here;  *)
(* pc names the statement or RPC a thread issues next, and what it read    *)
(* before it (seen, rid, known) is kept in the thread, so it may be stale  *)
(* when it is used.  Telegram is external: it delivers a random_id at most *)
(* once, may refuse, throttle, or stay silent about a request that it      *)
(* delivers later or never.  The listener sees the echo of every delivered *)
(* message and must tell it from a message the owner typed.  Bodies of     *)
(* different actions differ, so an echo identifies its action.             *)
(*                                                                         *)
(* Clocks are flags of the row: stuck (updated_at is older than            *)
(* StuckGrace), lapsed (older than ApprovalTTL), held (retry_not_before is *)
(* in the future).  A thread that crashes, and one whose database call     *)
(* fails, both stop where they are and leave the row as it is.             *)
(*                                                                         *)
(* An operator named Faulty... is a plausible bug in the definition that   *)
(* follows it; no specification uses it.                                   *)
(***************************************************************************)
EXTENDS Naturals, FiniteSets

CONSTANTS
    Actions,             \* agent_actions rows of one conversation
    Executors,           \* threads that run send() or recoverOne()
    MaxSendAttempts,
    MaxAutonomousTurns,
    Overlap,             \* FALSE: one process, and a send ends within StuckGrace
    Redelivery,          \* gotd may hand the listener the same echo again
    MaxCrashes,          \* bound: crashes and failed database calls
    MaxRandomIds,        \* bound: random ids drawn for one action
    MaxOwnerSteps        \* bound: what the owner does in the chat

ASSUME BoundAssumption ==
    /\ {MaxSendAttempts, MaxAutonomousTurns, MaxRandomIds} \subseteq Nat \ {0}
    /\ {MaxCrashes, MaxOwnerSteps} \subseteq Nat
ASSUME ActionAssumption == Actions # {}
ASSUME FlagAssumption == {Overlap, Redelivery} \subseteq BOOLEAN

VARIABLES
    row,        \* [Actions -> the agent_actions row]
    proc,       \* [Executors -> the thread's local state]
    delivered,  \* [Actions -> the random ids Telegram put in the chat]
    late,       \* requests nobody waits for any more, as <<action, random id>>
    marker,     \* actions whose message id has a sent marker
    echo,       \* [Actions -> {"none", "due", "seen"}]
    lis,        \* the listener's local state
    takenOver,  \* the conversation's state is taken_over
    turns,      \* conversations.autonomous_turns
    history,    \* [Actions -> agent-outgoing conversation_messages rows]
    alerts,     \* [Actions -> delivery_unknown alerts queued]
    crashes, ownerSteps,
    unreviewed, \* history: reservations nobody reviewed, since the last reset
    settled     \* history: a takeover has denied the pending drafts

db       == <<row, turns, history, alerts>>
external == <<delivered, late, echo>>
owner    == <<lis, takenOver, ownerSteps, settled>>
vars     == <<db, external, owner, proc, marker, crashes, unreviewed>>

Statuses == {"none", "pending_approval", "approved", "executing", "executed",
             "rejected", "expired", "denied", "delivery_unknown"}

terminalActionStatuses == {"executed", "rejected", "expired", "denied", "delivery_unknown"}

NoAction == CHOOSE a \in Actions : TRUE
Idle == [pc |-> "idle", act |-> NoAction, path |-> "send", rid |-> 0, seen |-> 0, known |-> FALSE]
Quiet == [at |-> "idle", act |-> NoAction, seen |-> "none"]

RowType == [status : Statuses, review : {"allow", "require_approval"},
            rid : Nat, attempts : Nat, noted : BOOLEAN,
            stuck : BOOLEAN, lapsed : BOOLEAN, held : BOOLEAN]

\* Where a thread is before it has reserved the send, and after.
Early == {"load", "reserve", "deny"}
Past == {"note", "rpc", "mark", "record", "flood", "refused", "recover", "unknown", "withhold"}

ThreadType == [pc : Early \cup Past \cup {"idle"}, act : Actions, path : {"send", "recover"},
               rid : Nat, seen : Nat, known : BOOLEAN]

ListenerType == [at : {"idle", "match", "apply", "takeover", "denyPending", "resetTurns"},
                 act : Actions, seen : Statuses]

TypeOK ==
    /\ row \in [Actions -> RowType]
    /\ proc \in [Executors -> ThreadType]
    /\ delivered \in [Actions -> SUBSET Nat]
    /\ late \subseteq Actions \X Nat
    /\ marker \subseteq Actions
    /\ echo \in [Actions -> {"none", "due", "seen"}]
    /\ lis \in ListenerType
    /\ takenOver \in BOOLEAN
    /\ turns \in Nat
    /\ history \in [Actions -> Nat]
    /\ alerts \in [Actions -> Nat]
    /\ crashes \in Nat /\ ownerSteps \in Nat /\ unreviewed \in Nat
    /\ settled \in BOOLEAN

Init ==
    /\ row = [a \in Actions |->
                [status |-> "none", review |-> "allow", rid |-> 0, attempts |-> 0,
                 noted |-> FALSE, stuck |-> FALSE, lapsed |-> FALSE, held |-> FALSE]]
    /\ proc = [e \in Executors |-> Idle]
    /\ delivered = [a \in Actions |-> {}]
    /\ late = {}
    /\ marker = {}
    /\ echo = [a \in Actions |-> "none"]
    /\ lis = Quiet
    /\ takenOver = FALSE
    /\ turns = 0
    /\ history = [a \in Actions |-> 0]
    /\ alerts = [a \in Actions |-> 0]
    /\ crashes = 0 /\ ownerSteps = 0 /\ unreviewed = 0
    /\ settled = FALSE

-----------------------------------------------------------------------------
(* Steps of a row. *)

\* A status change stamps updated_at, which restarts both clocks.
MoveTo(r, s) == [r EXCEPT !.status = s, !.stuck = FALSE, !.lapsed = FALSE]

\* The compare-and-set every transition goes through.
CompareAndSet(a, from, to) ==
    row' = [row EXCEPT ![a] = IF @.status = from THEN MoveTo(@, to) ELSE @]

Goto(e, pc) == proc' = [proc EXCEPT ![e].pc = pc]
Stop(e)     == proc' = [proc EXCEPT ![e] = Idle]

-----------------------------------------------------------------------------
(* The draft, the owner's decision on it, and the clocks. *)

\* propose_reply stores the policy's first verdict with the draft.
InsertAgentAction(a) ==
    /\ row[a].status = "none"
    /\ \E r \in {<<"approved", "allow">>, <<"pending_approval", "require_approval">>,
                 <<"denied", "allow">>} :
           row' = [row EXCEPT ![a].status = r[1], ![a].review = r[2]]
    /\ UNCHANGED <<turns, history, alerts, external, owner, proc, marker, crashes, unreviewed>>

\* /mctl approve: past its TTL the draft expires, under another install
\* revision it is denied, otherwise it is approved and sent at once.
Approve(e, a) ==
    /\ proc[e].pc = "idle"
    /\ row[a].status = "pending_approval"
    /\ \/ /\ row[a].lapsed
          /\ CompareAndSet(a, "pending_approval", "expired")
          /\ UNCHANGED proc
       \/ /\ ~row[a].lapsed
          /\ CompareAndSet(a, "pending_approval", "denied")
          /\ UNCHANGED proc
       \/ /\ ~row[a].lapsed
          /\ CompareAndSet(a, "pending_approval", "approved")
          /\ proc' = [proc EXCEPT ![e] = [Idle EXCEPT !.pc = "load", !.act = a]]
    /\ UNCHANGED <<turns, history, alerts, external, owner, marker, crashes, unreviewed>>

Reject(a) ==
    /\ row[a].status = "pending_approval"
    /\ CompareAndSet(a, "pending_approval", "rejected")
    /\ UNCHANGED <<turns, history, alerts, external, owner, proc, marker, crashes, unreviewed>>

ExpireStaleAgentActions(a) ==
    /\ row[a].status = "pending_approval"
    /\ row[a].lapsed
    /\ CompareAndSet(a, "pending_approval", "expired")
    /\ UNCHANGED <<turns, history, alerts, external, owner, proc, marker, crashes, unreviewed>>

Busy(a) == \E e \in Executors : proc[e].pc # "idle" /\ proc[e].act = a

GraceEnds(a) ==
    /\ row[a].status = "executing" /\ ~row[a].stuck
    /\ Overlap \/ ~Busy(a)
    /\ row' = [row EXCEPT ![a].stuck = TRUE]
    /\ UNCHANGED <<turns, history, alerts, external, owner, proc, marker, crashes, unreviewed>>

TTLEnds(a) ==
    /\ \/ row[a].status = "pending_approval"
       \/ row[a].status = "executing" /\ row[a].stuck
    /\ ~row[a].lapsed
    /\ row' = [row EXCEPT ![a].lapsed = TRUE]
    /\ UNCHANGED <<turns, history, alerts, external, owner, proc, marker, crashes, unreviewed>>

FloodWaitEnds(a) ==
    /\ row[a].held
    /\ row' = [row EXCEPT ![a].held = FALSE]
    /\ UNCHANGED <<turns, history, alerts, external, owner, proc, marker, crashes, unreviewed>>

-----------------------------------------------------------------------------
(* send(): the first attempt. *)

FaultyBudgetOnly(a, t) == row[a].review = "allow" /\ t >= MaxAutonomousTurns

\* policy.Evaluate on the conversation as it is read now.  A taken-over chat
\* denies; a spent turn budget only stops a draft nobody reviewed.
MustStop(a, t) ==
    \/ takenOver
    \/ row[a].review = "allow" /\ t >= MaxAutonomousTurns

ProcessApproved(e, a) ==
    /\ proc[e].pc = "idle"
    /\ row[a].status = "approved"
    /\ proc' = [proc EXCEPT ![e] = [Idle EXCEPT !.pc = "load", !.act = a]]
    /\ UNCHANGED <<db, external, owner, marker, crashes, unreviewed>>

\* Every other refusal (pause, kill switch, restricted field, an empty draft,
\* a closed send gate) denies the draft in the same way, so "deny" is always
\* possible; a read that fails is a crash.
EvaluatePolicy(e) ==
    /\ proc[e].pc = "load"
    /\ \/ Goto(e, "deny")
       \/ ~MustStop(proc[e].act, turns) /\ Goto(e, "reserve")
    /\ UNCHANGED <<db, external, owner, marker, crashes, unreviewed>>

DenyApproved(e) ==
    /\ proc[e].pc = "deny"
    /\ CompareAndSet(proc[e].act, "approved", "denied")
    /\ Stop(e)
    /\ UNCHANGED <<turns, history, alerts, external, owner, marker, crashes, unreviewed>>

FaultyPolicyWasEnough(a) == FALSE

\* The budget is read again under the conversation lock.
OverBudget(a) == row[a].review = "allow" /\ turns >= MaxAutonomousTurns

Charge(a) ==
    /\ turns' = turns + 1
    /\ unreviewed' = IF row[a].review = "allow" THEN unreviewed + 1 ELSE unreviewed

\* One transaction: budget, superseded source, then approved -> executing
\* with the random id, the final body and one reserved turn.
ReserveAgentActionSend(e) ==
    LET a == proc[e].act IN
    /\ proc[e].pc = "reserve"
    /\ \/ /\ Goto(e, "deny")        \* superseded, or over either budget
          /\ UNCHANGED <<row, turns, unreviewed>>
       \/ /\ ~OverBudget(a)
          /\ row[a].status # "approved"
          /\ Stop(e)
          /\ UNCHANGED <<row, turns, unreviewed>>
       \/ /\ ~OverBudget(a)
          /\ row[a].status = "approved"
          /\ row[a].rid < MaxRandomIds
          /\ row' = [row EXCEPT ![a] = [MoveTo(row[a], "executing") EXCEPT !.rid = @ + 1]]
          /\ proc' = [proc EXCEPT ![e].pc = "note", ![e].rid = row[a].rid + 1]
          /\ Charge(a)
    /\ UNCHANGED <<history, alerts, external, owner, marker, crashes>>

FaultyUncounted(e) ==
    LET a == proc[e].act IN
    /\ proc[e].pc = "note"
    /\ IF row[a].status = "executing" THEN Goto(e, "rpc") ELSE Stop(e)
    /\ UNCHANGED <<db, external, owner, marker, crashes, unreviewed>>

\* The attempt is counted before the RPC, and only while the row executes.
NoteAgentActionSendAttempt(e) ==
    LET a == proc[e].act IN
    /\ proc[e].pc = "note"
    /\ IF row[a].status = "executing"
       THEN /\ row' = [row EXCEPT ![a].attempts = @ + 1]
            /\ proc' = [proc EXCEPT ![e].pc = "rpc", ![e].seen = row[a].attempts + 1]
       ELSE Stop(e) /\ UNCHANGED row
    /\ UNCHANGED <<turns, history, alerts, external, owner, marker, crashes, unreviewed>>

-----------------------------------------------------------------------------
(* Telegram. *)

Deliver(a, rid) ==
    /\ delivered' = [delivered EXCEPT ![a] = @ \cup {rid}]
    /\ echo' = [echo EXCEPT ![a] = IF rid \in delivered[a] THEN @ ELSE "due"]

\* A new random id is put in the chat and answered with the message id; a
\* known one is refused, and the executor then looks the message up.
SendMessage(e) ==
    LET p == proc[e] IN
    /\ p.pc = "rpc"
    /\ \/ /\ p.rid \notin delivered[p.act]
          /\ Goto(e, "mark")
       \/ /\ p.rid \in delivered[p.act]
          /\ \/ Goto(e, "mark")
             \/ Goto(e, "record")
    /\ Deliver(p.act, p.rid)
    /\ UNCHANGED <<db, late, owner, marker, crashes, unreviewed>>

\* FLOOD_WAIT, or an error of the closed list of refusals: nothing was sent.
RefuseMessage(e) ==
    /\ proc[e].pc = "rpc"
    /\ Goto(e, "flood") \/ Goto(e, "refused")
    /\ UNCHANGED <<db, external, owner, marker, crashes, unreviewed>>

FaultyRevert(e) ==
    LET p == proc[e] IN
    /\ p.pc = "rpc"
    /\ late' = late \cup {<<p.act, p.rid>>}
    /\ CompareAndSet(p.act, "executing", "approved")
    /\ Stop(e)
    /\ UNCHANGED <<turns, history, alerts, delivered, echo, owner, marker, crashes, unreviewed>>

\* Any other error says nothing about the message.  send() leaves the row
\* executing; recoverOne gives up once the attempts are spent.
LoseAnswer(e) ==
    LET p == proc[e] IN
    /\ p.pc = "rpc"
    /\ late' = late \cup {<<p.act, p.rid>>}
    /\ IF p.path = "recover" /\ p.seen >= MaxSendAttempts
       THEN Goto(e, "unknown")
       ELSE Stop(e)
    /\ UNCHANGED <<db, delivered, echo, owner, marker, crashes, unreviewed>>

LateMessage ==
    /\ \E m \in late :
          /\ late' = late \ {m}
          /\ \/ Deliver(m[1], m[2])
             \/ UNCHANGED <<delivered, echo>>
    /\ UNCHANGED <<db, owner, proc, marker, crashes, unreviewed>>

-----------------------------------------------------------------------------
(* What an answer does to the row. *)

MarkSent(e) ==
    /\ proc[e].pc = "mark"
    /\ marker' = marker \cup {proc[e].act}
    /\ proc' = [proc EXCEPT ![e].pc = "record", ![e].known = TRUE]
    /\ UNCHANGED <<db, external, owner, crashes, unreviewed>>

\* One transaction: the row leaves from, its message id is the one given or
\* the one an echo noted, and the reply enters the conversation's history.
Recorded(a, from, known) ==
    IF row[a].status = from
    THEN /\ row' = [row EXCEPT ![a] = [MoveTo(row[a], "executed") EXCEPT !.noted = @ \/ known]]
         /\ history' = [history EXCEPT ![a] = @ + 1]
    ELSE UNCHANGED <<row, history>>

RecordAgentActionSent(e) ==
    /\ proc[e].pc = "record"
    /\ Recorded(proc[e].act, "executing", proc[e].known)
    /\ Stop(e)
    /\ UNCHANGED <<turns, alerts, external, owner, marker, crashes, unreviewed>>

FaultyAlwaysWithhold(n) == "withhold"

\* settleRefusal: take the attempt back, then end the action when nothing
\* more can be tried.  The count it gets back decides how.
Settle(n) == IF n > 0 THEN "unknown" ELSE "withhold"

Unnoted(n) == IF n > 0 THEN n - 1 ELSE 0

FaultyEndlessFlood(e) ==
    LET a == proc[e].act
        n == Unnoted(row[a].attempts)
    IN
    /\ proc[e].pc \in {"flood", "refused"}
    /\ row' = [row EXCEPT ![a].attempts = n, ![a].held = TRUE]
    /\ IF proc[e].pc = "flood" THEN Stop(e) ELSE Goto(e, Settle(n))
    /\ UNCHANGED <<turns, history, alerts, external, owner, marker, crashes, unreviewed>>

UnnoteAgentActionSendAttempt(e) ==
    LET a == proc[e].act
        flood == proc[e].pc = "flood"
        n == Unnoted(row[a].attempts)
    IN
    /\ proc[e].pc \in {"flood", "refused"}
    /\ IF row[a].status # "executing"
       THEN Stop(e) /\ UNCHANGED row
       ELSE /\ row' = [row EXCEPT ![a].attempts = n, ![a].held = flood]
            /\ IF flood /\ ~row[a].lapsed THEN Stop(e) ELSE Goto(e, Settle(n))
    /\ UNCHANGED <<turns, history, alerts, external, owner, marker, crashes, unreviewed>>

DenyExecuting(e) ==
    /\ proc[e].pc = "withhold"
    /\ CompareAndSet(proc[e].act, "executing", "denied")
    /\ Stop(e)
    /\ UNCHANGED <<turns, history, alerts, external, owner, marker, crashes, unreviewed>>

\* An echo that proved delivery meanwhile wins over giving up.
GivesUp(a) == row[a].status = "executing" /\ ~row[a].noted

MarkAgentActionDeliveryUnknown(e) ==
    LET a == proc[e].act IN
    /\ proc[e].pc = "unknown"
    /\ IF GivesUp(a)
       THEN /\ row' = [row EXCEPT ![a] = MoveTo(@, "delivery_unknown")]
            /\ alerts' = [alerts EXCEPT ![a] = @ + 1]
       ELSE UNCHANGED <<row, alerts>>
    /\ Stop(e)
    /\ UNCHANGED <<turns, history, external, owner, marker, crashes, unreviewed>>

-----------------------------------------------------------------------------
(* RecoverStuck and recoverOne. *)

ListStuckExecutingActions == {a \in Actions : row[a].status = "executing" /\ row[a].stuck /\ ~row[a].held}

\* Each listed row is recovered on the values it was listed with.
RecoverStuck(e, a) ==
    /\ proc[e].pc = "idle"
    /\ a \in ListStuckExecutingActions
    /\ Overlap \/ \A f \in Executors : proc[f].path # "recover" \/ proc[f].pc = "idle"
    /\ proc' = [proc EXCEPT ![e] =
                  [pc |-> "recover", act |-> a, path |-> "recover", rid |-> row[a].rid,
                   seen |-> row[a].attempts, known |-> row[a].noted]]
    /\ UNCHANGED <<db, external, owner, marker, crashes, unreviewed>>

\* The action's own turn is already charged, so policy is asked without it.
OtherTurns == IF turns > 0 THEN turns - 1 ELSE 0

\* The order of the checks in recoverOne: a proven delivery, spent attempts,
\* policy and restricted fields, the send gate, then the retry.
recoverOne(e) ==
    LET p == proc[e] IN
    /\ p.pc = "recover"
    /\ IF p.known /\ p.seen > 0 THEN Goto(e, "record")
       ELSE IF p.seen >= MaxSendAttempts THEN Goto(e, "unknown")
       ELSE \/ Goto(e, Settle(p.seen))          \* refused, or gate closed past the TTL
            \/ /\ ~MustStop(p.act, OtherTurns)
               /\ \/ Goto(e, "note")
                  \/ ~row[p.act].lapsed /\ Stop(e)   \* gate closed for now
    /\ UNCHANGED <<db, external, owner, marker, crashes, unreviewed>>

Crash(e) ==
    /\ proc[e].pc # "idle"
    /\ crashes < MaxCrashes
    /\ crashes' = crashes + 1
    /\ late' = IF proc[e].pc = "rpc" THEN late \cup {<<proc[e].act, proc[e].rid>>} ELSE late
    /\ Stop(e)
    /\ UNCHANGED <<db, delivered, echo, owner, marker, unreviewed>>

-----------------------------------------------------------------------------
(* The listener: echoes, the owner's own messages, takeover and release. *)

\* onMessage asks for the sent marker first; it is one-shot.
ConsumeSent(a) ==
    /\ lis.at = "idle"
    /\ echo[a] = "due" \/ (Redelivery /\ echo[a] = "seen")
    /\ echo' = [echo EXCEPT ![a] = "seen"]
    /\ marker' = marker \ {a}
    /\ lis' = IF a \in marker THEN lis ELSE [lis EXCEPT !.at = "match", !.act = a]
    /\ UNCHANGED <<db, delivered, late, takenOver, ownerSteps, settled,
                   proc, crashes, unreviewed>>

\* Which rows an unmarked echo may belong to.
Unconfirmed(r) ==
    /\ ~r.noted
    /\ \/ r.status \in {"executing", "delivery_unknown"} /\ r.attempts > 0
       \/ r.status = "executed"

SelectUnconfirmed ==
    /\ lis.at = "match"
    /\ lis' = IF Unconfirmed(row[lis.act])
              THEN [lis EXCEPT !.at = "apply", !.seen = row[lis.act].status]
              ELSE [lis EXCEPT !.at = "takeover"]
    /\ UNCHANGED <<db, external, takenOver, ownerSteps, settled, proc, marker, crashes, unreviewed>>

MatchUnconfirmedAgentSend ==
    LET a == lis.act IN
    /\ lis.at = "apply"
    /\ CASE lis.seen = "delivery_unknown" -> Recorded(a, "delivery_unknown", TRUE)
         [] lis.seen # "delivery_unknown" ->
              /\ row' = [row EXCEPT ![a].noted = @ \/ row[a].status = lis.seen]
              /\ UNCHANGED history
    /\ lis' = Quiet
    /\ UNCHANGED <<turns, alerts, external, takenOver, ownerSteps, settled,
                   proc, marker, crashes, unreviewed>>

\* The owner types in the chat, or sends /mctl takeover or /mctl continue.
OwnerSteps ==
    /\ lis.at = "idle"
    /\ ownerSteps < MaxOwnerSteps
    /\ ownerSteps' = ownerSteps + 1
    /\ \/ /\ lis' = [lis EXCEPT !.at = "takeover"]
          /\ UNCHANGED <<takenOver, settled>>
       \/ /\ takenOver' = FALSE
          /\ settled' = FALSE
          /\ lis' = [lis EXCEPT !.at = "resetTurns"]
    /\ UNCHANGED <<db, external, proc, marker, crashes, unreviewed>>

SetConversationTakenOver ==
    /\ lis.at = "takeover"
    /\ takenOver' = TRUE
    /\ lis' = [lis EXCEPT !.at = "denyPending"]
    /\ UNCHANGED <<db, external, ownerSteps, settled, proc, marker, crashes, unreviewed>>

Draft(a) == row[a].status \in {"pending_approval", "approved"}

\* One UPDATE; the listener only logs its failure and goes on.
DenyPendingActionsForConversation ==
    /\ lis.at = "denyPending"
    /\ \/ /\ row' = [a \in Actions |-> IF Draft(a) THEN MoveTo(row[a], "denied") ELSE row[a]]
          /\ settled' = takenOver
       \/ UNCHANGED <<row, settled>>
    /\ lis' = Quiet
    /\ UNCHANGED <<turns, history, alerts, external, takenOver, ownerSteps,
                   proc, marker, crashes, unreviewed>>

ResetAutonomousTurns ==
    /\ lis.at = "resetTurns"
    /\ turns' = 0
    /\ unreviewed' = 0
    /\ lis' = Quiet
    /\ UNCHANGED <<row, history, alerts, external, takenOver, ownerSteps, settled,
                   proc, marker, crashes>>

-----------------------------------------------------------------------------
Thread(e) ==
    \/ EvaluatePolicy(e) \/ DenyApproved(e) \/ ReserveAgentActionSend(e)
    \/ NoteAgentActionSendAttempt(e)
    \/ SendMessage(e) \/ RefuseMessage(e) \/ LoseAnswer(e)
    \/ MarkSent(e) \/ RecordAgentActionSent(e)
    \/ UnnoteAgentActionSendAttempt(e) \/ DenyExecuting(e)
    \/ MarkAgentActionDeliveryUnknown(e)
    \/ recoverOne(e)

Listener ==
    \/ \E a \in Actions : ConsumeSent(a)
    \/ SelectUnconfirmed \/ MatchUnconfirmedAgentSend
    \/ OwnerSteps \/ SetConversationTakenOver
    \/ DenyPendingActionsForConversation \/ ResetAutonomousTurns

Next ==
    \/ \E a \in Actions :
          \/ InsertAgentAction(a) \/ Reject(a) \/ ExpireStaleAgentActions(a)
          \/ GraceEnds(a) \/ TTLEnds(a) \/ FloodWaitEnds(a)
          \/ \E e \in Executors : Approve(e, a) \/ ProcessApproved(e, a) \/ RecoverStuck(e, a)
    \/ \E e \in Executors : Thread(e) \/ Crash(e)
    \/ LateMessage
    \/ Listener

Spec == Init /\ [][Next]_vars

\* The sweeps run every minute, a thread that started goes on, an RPC returns
\* something, and time passes.  Nothing is assumed of Telegram's answers, of
\* the owner or of the listener.
Fairness ==
    /\ \A e \in Executors : WF_vars(Thread(e))
    /\ \A a \in Actions :
          /\ WF_vars(GraceEnds(a)) /\ WF_vars(TTLEnds(a)) /\ WF_vars(FloodWaitEnds(a))
          /\ WF_vars(\E e \in Executors : ProcessApproved(e, a))
          /\ WF_vars(\E e \in Executors : RecoverStuck(e, a))

FairSpec == Spec /\ Fairness

-----------------------------------------------------------------------------
(* Properties. *)

\* A request with the reply's text has gone out and may still arrive.
OnItsWay(a) ==
    \/ \E m \in late : m[1] = a
    \/ \E e \in Executors : proc[e].pc = "rpc" /\ proc[e].act = a

\* The peer never gets a reply twice, whatever crashes, retries and lost
\* answers happen: every RPC of an action carries the one random id that
\* ReserveAgentActionSend persisted before the first of them.
AtMostOnce == \A a \in Actions : Cardinality(delivered[a]) <= 1

\* NoteAgentActionSendAttempt runs before the RPC and the unnote takes back
\* only an attempt that sent nothing, so an executing row with no attempt
\* counted has never had a request that could have been delivered.
AttemptsCoverRequests ==
    \A a \in Actions :
        row[a].status = "executing" /\ (delivered[a] # {} \/ OnItsWay(a)) => row[a].attempts > 0

\* However many sweeps, sends and echoes finish the same action, its reply
\* enters the conversation's history once, and only if the peer has it.
ExecutedRecordedOnce ==
    \A a \in Actions :
        /\ history[a] = (IF row[a].status = "executed" THEN 1 ELSE 0)
        /\ row[a].status = "executed" => delivered[a] # {}

\* The owner hears about an unconfirmed send exactly once, and not at all
\* when the action ended any other way without giving up.
UnknownAlertedOnce ==
    \A a \in Actions :
        /\ alerts[a] <= 1
        /\ row[a].status = "delivery_unknown" => alerts[a] = 1
        /\ alerts[a] = 1 => row[a].status \in {"delivery_unknown", "executed"}

\* What the rows of an action say agrees with what was sent: attempts counted
\* before every request, one history entry for a reply the peer has, one alert
\* for a send nobody can confirm.
SendsAreRecorded == AttemptsCoverRequests /\ ExecutedRecordedOnce /\ UnknownAlertedOnce

\* Replies nobody reviewed never outnumber the conversation's turn budget,
\* although policy reads the counter long before the reservation: the
\* reservation reads it again under the conversation lock.
TurnBudgetHolds == unreviewed <= MaxAutonomousTurns

\* Once a takeover has denied the pending drafts, no reply is reserved until
\* /mctl continue: a send that passed policy before the takeover loses its
\* compare-and-set, a later draft fails policy.
TakeoverStopsReplies ==
    [][settled /\ settled' =>
         \A a \in Actions : row'[a].status = "executing" => row[a].status = "executing"]_vars

\* Every approved draft reaches an end: the attempts, the approval TTL on a
\* closed gate, and the TTL on flood waits bound the retries.
EverySendSettles ==
    \A a \in Actions :
        row[a].status \in {"approved", "executing"} ~> row[a].status \in terminalActionStatuses

\* The row is an honest account of the send (module SendOutcome).
Outcome(s) ==
    CASE s = "executed" -> "sent"
      [] s = "delivery_unknown" -> "unknown"
      [] s \in {"denied", "rejected", "expired"} -> "withheld"
      [] OTHER -> "open"

Abstract == INSTANCE SendOutcome WITH
    peer <- [a \in Actions |-> delivered[a] # {}],
    outcome <- [a \in Actions |-> Outcome(row[a].status)]

\* With one process whose sends end within the grace window, every status
\* the owner is shown is true of the peer's chat, now and later.
HonestOutcome == Abstract!Spec
=============================================================================
