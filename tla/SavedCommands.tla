--------------------------- MODULE SavedCommands ---------------------------
(***************************************************************************)
(* The owner's /mctl commands in Saved Messages.  A command reaches the    *)
(* server twice: as a live update and through a poller of the chat's       *)
(* history, which keeps a durable cursor.  One mutex per account lets one  *)
(* of them run the command; the command is recorded once it has run, so a  *)
(* failed reply or a crash makes the poller run it again.                  *)
(*                                                                         *)
(* Modelled are pause, unpause, takeover and continue, the commands that   *)
(* only read ("show"), and the work commands, which talk to the platform's *)
(* work items under idempotency keys and keep a binding per thread.        *)
(* Messages are numbered in the order they were typed.  The platform is    *)
(* external: it replays the answer of a key it has seen.                   *)
(***************************************************************************)
EXTENDS Integers, Sequences, FiniteSets, FiniteSetsExt, SequencesExt

CONSTANTS Issues, None,
          PageSize,       \* messages one read of the history returns
          Scenarios       \* records script (a sequence of commands), faults, crashes and
                          \* moves (of the platform)

VARIABLES script, typed, pushed,      \* what was typed and delivered as an update
          cursor, batch,              \* the poller
          events, act,                \* the recorded commands and the one running
          paused, conv,               \* the account's pause and the state of a conversation
          bind, order,                \* bindings by root message, least recent first
          item, reqs, notes,          \* the platform
          answer,                     \* the last answer to each command
          budget,                     \* bounds on faults, crashes and platform moves
          ran                         \* history: commands that took effect

state == <<paused, conv, bind, order, item, reqs, notes, answer, ran>>
vars == <<script, typed, pushed, cursor, batch, events, act, budget, state>>

Msgs == 1..Len(script)
Kind(m) == script[m].cmd
Free == act = None
NoBinding == [issue |-> None, state |-> None, request |-> None, row |-> 0]

Init ==
  /\ \E s \in Scenarios :
       /\ script = s.script
       /\ budget = [faults |-> s.faults, crashes |-> s.crashes, moves |-> s.moves]
  /\ typed = 0 /\ pushed = 0
  /\ cursor = -1 /\ batch = <<>>
  /\ events = {} /\ act = None
  /\ paused = FALSE /\ conv = "active"
  /\ bind = [m \in Msgs |-> NoBinding] /\ order = <<>>
  /\ item = [i \in Issues |-> [state |-> "none", version |-> 0]]
  /\ reqs = <<>> /\ notes = {}
  /\ answer = [m \in Msgs |-> <<None, None>>]
  /\ ran = {}

Fault == budget.faults > 0 /\ budget' = [budget EXCEPT !.faults = @ - 1]

-----------------------------------------------------------------------------
(* The owner types, Telegram delivers. *)

Type ==
  /\ typed < Len(script)
  /\ typed' = typed + 1
  /\ UNCHANGED <<script, pushed, cursor, batch, events, act, budget, state>>

\* The poller leaves alone the messages older than its first activation.
initializeSavedHistoryCursor ==
  /\ cursor = -1
  /\ cursor' = typed
  /\ UNCHANGED <<script, typed, pushed, batch, events, act, budget, state>>

\* The owner writes to the peer: the conversation is theirs.
OwnerWrites ==
  /\ budget.moves > 0 /\ conv = "active"
  /\ budget' = [budget EXCEPT !.moves = @ - 1]
  /\ conv' = "taken_over"
  /\ UNCHANGED <<script, typed, pushed, cursor, batch, events, act,
                 paused, bind, order, item, reqs, notes, answer, ran>>

\* A message that is no command of the owner's: a note, a forward, an answer.
IsCommand(m) == Kind(m) # "text"

\* status, leads, conversations and show only answer.
Reads(m) == Kind(m) = "show"

\* The step a command begins with.
FirstStep(m) ==
  CASE Kind(m) = "open" -> "binding"
    [] Kind(m) \in {"note", "resume", "status"} -> "latest"
    [] Reads(m) -> "reply"
    [] OTHER -> "write"

\* A note, or a command that was recorded, is not run.
Ignored(m) == ~IsCommand(m) \/ m \in events

persistExtracted(by, m) ==
  act' = [by |-> by, msg |-> m, step |-> FirstStep(m), root |-> None, issue |-> None,
          seen |-> [state |-> None, version |-> 0], request |-> None]

\* A live update is handled, or never arrives.
onMessage ==
  /\ Free /\ pushed < typed
  /\ pushed' = pushed + 1
  /\ \/ ~Ignored(pushed + 1) /\ persistExtracted("push", pushed + 1)
     \/ act' = None
  /\ UNCHANGED <<script, typed, cursor, batch, events, budget, state>>

pollSavedHistory ==
  /\ batch = <<>> /\ cursor >= 0 /\ cursor < typed
  /\ batch' = [i \in 1..Min({PageSize, typed - cursor}) |-> cursor + i]
  /\ UNCHANGED <<script, typed, pushed, cursor, events, act, budget, state>>

AdvanceSavedCommandCursor(m) == cursor' = Max({cursor, m})

\* The poller runs the next message of its page, or passes it.  A command that
\* ran and was recorded is passed here, by the same step that passes a repeat.
PollNext ==
  /\ Free /\ batch # <<>>
  /\ LET m == Head(batch)
     IN IF Ignored(m)
        THEN AdvanceSavedCommandCursor(m) /\ batch' = Tail(batch) /\ UNCHANGED act
        ELSE persistExtracted("poll", m) /\ UNCHANGED <<cursor, batch>>
  /\ UNCHANGED <<script, typed, pushed, events, budget, state>>

AdvanceFails ==
  /\ Free /\ batch # <<>> /\ Ignored(Head(batch))
  /\ Fault /\ batch' = <<>>
  /\ UNCHANGED <<script, typed, pushed, cursor, events, act, state>>

\* The running command ends with an error: the poller gives up its page and
\* does not cross the command.
NotFinished ==
  /\ act' = None
  /\ batch' = IF act.by = "poll" THEN <<>> ELSE batch
  /\ UNCHANGED cursor

Crash ==
  /\ budget.crashes > 0 /\ act # None
  /\ budget' = [budget EXCEPT !.crashes = @ - 1]
  /\ act' = None /\ batch' = <<>>
  /\ UNCHANGED <<script, typed, pushed, cursor, events, state>>

At(step) == act # None /\ act.step = step
Goes(step) == act' = [act EXCEPT !.step = step]
Running == UNCHANGED <<script, typed, pushed, cursor, batch, events>>

\* A statement of the command's own database fails: the command ends unrecorded.
StoreFails ==
  /\ act # None /\ act.step \in {"write", "binding", "latest", "upsert", "set", "touch", "record"}
  /\ Fault /\ NotFinished
  /\ UNCHANGED <<script, typed, pushed, events, state>>

\* The command answers.  A lost reply leaves it unrecorded.
Answers(what) == act' = [act EXCEPT !.step = "reply"] /\ answer' = [answer EXCEPT ![act.msg] = <<what, act.request>>]

Reply ==
  /\ At("reply") /\ Goes("record")
  /\ Running /\ UNCHANGED <<budget, state>>

ReplyFails ==
  /\ At("reply") /\ Fault /\ NotFinished
  /\ UNCHANGED <<script, typed, pushed, events, state>>

insertAuditEvent ==
  /\ At("record")
  /\ events' = events \cup {act.msg} /\ act' = None
  /\ UNCHANGED <<script, typed, pushed, cursor, batch, budget, state>>

-----------------------------------------------------------------------------
(* pause, unpause, takeover, continue: one write, then the reply.  What the
   code writes after it, the turn counter or the denials, fails like the reply. *)

handlePause(s) == [s EXCEPT !.paused = TRUE]
handleUnpause(s) == [s EXCEPT !.paused = FALSE]
handleTakeover(s) == [s EXCEPT !.conv = "taken_over"]
handleContinue(s) == [s EXCEPT !.conv = "active"]

Instructed(m, s) ==
  CASE Kind(m) = "pause" -> handlePause(s)
    [] Kind(m) = "unpause" -> handleUnpause(s)
    [] Kind(m) = "takeover" -> handleTakeover(s)
    [] Kind(m) = "continue" -> handleContinue(s)

HandleControl ==
  /\ At("write")
  /\ LET new == Instructed(act.msg, [paused |-> paused, conv |-> conv])
     IN paused' = new.paused /\ conv' = new.conv
  /\ ran' = ran \cup {act.msg}
  /\ Answers("done")
  /\ Running /\ UNCHANGED <<budget, bind, order, item, reqs, notes>>

-----------------------------------------------------------------------------
(* The platform.  A request made under a key it has seen is replayed. *)

IdempotencyKey(msg, op, version) == <<msg, op, version>>

Find(key) == SelectSeq(reqs, LAMBDA q : q.key = key)
Open(i) == \E n \in DOMAIN reqs : reqs[n].issue = i /\ reqs[n].state = "pending"

\* What the platform answers to a request at the state version the caller saw.
Verdict(i, key, version) ==
  CASE Find(key) # <<>> -> IF Find(key)[1].issue = i THEN "replayed" ELSE "key_reused"
    [] Find(key) = <<>> /\ Open(i) -> "open"
    [] Find(key) = <<>> /\ ~Open(i) /\ item[i].version # version -> "conflict"
    [] OTHER -> "accepted"

\* The platform ends a request or closes the item.  A refusal does not move
\* the item's version.
PlatformMoves ==
  /\ budget.moves > 0
  /\ budget' = [budget EXCEPT !.moves = @ - 1]
  /\ \E i \in Issues :
       \/ \E n \in DOMAIN reqs, s \in {"fulfilled", "rejected"} :
            /\ reqs[n].issue = i /\ reqs[n].state = "pending"
            /\ reqs' = [reqs EXCEPT ![n].state = s]
            /\ item' = [item EXCEPT ![i].version = IF s = "fulfilled" THEN @ + 1 ELSE @]
       \/ /\ item[i].state = "active"
          /\ item' = [item EXCEPT ![i] = [state |-> "closed", version |-> @.version + 1]]
          /\ UNCHANGED reqs
  /\ Running /\ UNCHANGED <<act, paused, conv, bind, order, notes, answer, ran>>

\* A call to the platform fails, or was carried out and its answer is lost: the
\* owner is told that it failed, and the command is done.
Calls == {"create", "get", "request", "append", "reread", "retry", "upsert", "set"}

RelayFails ==
  /\ act # None /\ act.step \in Calls
  /\ Fault /\ Answers("failed")
  /\ Running /\ UNCHANGED <<paused, conv, bind, order, item, reqs, notes, ran>>

-----------------------------------------------------------------------------
(* /mctl work <issue>. *)

FaultyReused(b) == TRUE

\* A binding answers for the command only when a request is known.
Reused(b) == b.request # None

GetWorkItemBinding(m) == bind[m]

handleOpen ==
  /\ At("binding")
  /\ LET b == GetWorkItemBinding(act.msg)
     IN IF b.state = "active" /\ Reused(b)
        THEN Answers("bound")
        ELSE Goes("create") /\ UNCHANGED answer
  /\ Running
  /\ UNCHANGED <<budget, paused, conv, bind, order, item, reqs, notes, ran>>

CreateWorkItem ==
  /\ At("create")
  /\ LET i == script[act.msg].issue
         new == item[i].state = "none" \/ (item[i].state = "closed" /\ act.msg \notin ran)
     IN /\ item' = IF new THEN [item EXCEPT ![i] = [state |-> "active", version |-> @.version + 1]]
                   ELSE item
        /\ act' = [act EXCEPT !.step = "upsert", !.issue = i, !.seen = item'[i]]
  /\ ran' = ran \cup {act.msg}
  /\ Running /\ UNCHANGED <<budget, paused, conv, bind, order, reqs, notes, answer>>

\* Rows updated together are as recent as one another; their ids decide.
Recent(roots) ==
  SelectSeq(order, LAMBDA m : m \notin roots)
    \o SetToSortSeq(roots, LAMBDA a, b : bind'[a].row < bind'[b].row)

UpsertWorkItemBinding ==
  /\ At("upsert")
  /\ bind' = [bind EXCEPT ![act.msg] =
                 [issue |-> act.issue, state |-> act.seen.state, request |-> None,
                  row |-> IF @.row = 0 THEN Len(order) + 1 ELSE @.row]]
  /\ order' = Recent({act.msg})
  /\ act' = [act EXCEPT !.step = "request", !.root = act.msg]
  /\ Running /\ UNCHANGED <<budget, paused, conv, item, reqs, notes, answer, ran>>

-----------------------------------------------------------------------------
(* The commands about the binding used last. *)

LatestWorkItemBinding ==
  /\ At("latest")
  /\ IF order = <<>> THEN Answers("unbound")
     ELSE /\ act' = [act EXCEPT !.root = Last(order), !.issue = bind[Last(order)].issue,
                                !.step = IF Kind(act.msg) = "note" THEN "append" ELSE "get"]
          /\ UNCHANGED answer
  /\ Running
  /\ UNCHANGED <<budget, paused, conv, bind, order, item, reqs, notes, ran>>

handleNote ==
  /\ At("append")
  /\ LET other == \E n \in notes : n[1] = act.msg /\ n[2] # act.issue
     IN /\ notes' = IF other THEN notes ELSE notes \cup {<<act.msg, act.issue>>}
        /\ Answers(IF other THEN "failed" ELSE "noted")
  /\ Running /\ UNCHANGED <<budget, paused, conv, bind, order, item, reqs, ran>>

GetWorkItem(kind, from, to) ==
  /\ At(from) /\ Kind(act.msg) = kind
  /\ act' = [act EXCEPT !.seen = item[act.issue], !.step = to]
  /\ Running /\ UNCHANGED <<budget, state>>

handleResume == GetWorkItem("resume", "get", "request")
ReadAgain == GetWorkItem("resume", "reread", "retry")
handleWorkStatus == GetWorkItem("status", "get", "touch")

TouchWorkItemBindingState ==
  /\ At("touch")
  /\ LET roots == {m \in Msgs : bind[m].issue = act.issue}
     IN /\ bind' = [m \in Msgs |-> IF m \in roots THEN [bind[m] EXCEPT !.state = act.seen.state]
                                   ELSE bind[m]]
        /\ order' = Recent(roots)
  /\ Answers("status")
  /\ Running /\ UNCHANGED <<budget, paused, conv, item, reqs, notes, ran>>

-----------------------------------------------------------------------------
(* The execution request of an open or of a resume. *)

RequestKey(msg) ==
  IF Kind(msg) = "open" THEN IdempotencyKey(msg, "start", 0)
  ELSE IdempotencyKey(msg, "resume", act.seen.version)

\* One retry after a version conflict, of a resume only.
RequestExecution ==
  /\ act # None /\ act.step \in {"request", "retry"}
  /\ LET key == RequestKey(act.msg)
         v == Verdict(act.issue, key, act.seen.version)
     IN /\ reqs' = IF v = "accepted"
                   THEN Append(reqs, [key |-> key, issue |-> act.issue, by |-> act.msg,
                                      state |-> "pending"])
                   ELSE reqs
        /\ CASE v \in {"accepted", "replayed"} ->
                  /\ act' = [act EXCEPT !.step = "set", !.request = key]
                  /\ UNCHANGED answer
             [] v = "conflict" /\ Kind(act.msg) = "resume" /\ act.step = "request" ->
                  Goes("reread") /\ UNCHANGED answer
             [] OTHER -> Answers("failed")
  /\ Running /\ UNCHANGED <<budget, paused, conv, bind, order, item, notes, ran>>

SetWorkItemBindingRequest ==
  /\ At("set")
  /\ bind' = [bind EXCEPT ![act.root].request = act.request]
  /\ order' = Recent({act.root})
  /\ Answers("bound")
  /\ Running /\ UNCHANGED <<budget, paused, conv, item, reqs, notes, ran>>

-----------------------------------------------------------------------------
Handler ==
  \/ Reply \/ insertAuditEvent \/ HandleControl
  \/ handleOpen \/ CreateWorkItem \/ UpsertWorkItemBinding
  \/ LatestWorkItemBinding \/ handleNote \/ handleResume \/ ReadAgain
  \/ handleWorkStatus \/ TouchWorkItemBindingState
  \/ RequestExecution \/ SetWorkItemBindingRequest

Next ==
  \/ Type \/ initializeSavedHistoryCursor \/ OwnerWrites
  \/ onMessage \/ pollSavedHistory \/ PollNext
  \/ Handler
  \/ AdvanceFails \/ StoreFails \/ ReplyFails \/ RelayFails \/ Crash
  \/ PlatformMoves

Spec == Init /\ [][Next]_vars

\* The poller keeps its ticks and a running command goes on.
FairSpec ==
  /\ Spec
  /\ WF_vars(pollSavedHistory) /\ WF_vars(PollNext) /\ WF_vars(Handler)

-----------------------------------------------------------------------------
RequestsOf(m) == {n \in DOMAIN reqs : reqs[n].by = m}

\* An open command starts its issue's work at most once, through both delivery
\* paths, crashes and repeats; and when the owner is told that it is bound, the
\* issue's work has been requested, even when a crash came before the request.
StartedOnce ==
  \A m \in Msgs : Kind(m) = "open" =>
    /\ Cardinality(RequestsOf(m)) <= 1
    /\ answer[m][1] = "bound" => \E n \in DOMAIN reqs : reqs[n].issue = script[m].issue

\* A resume is answered with the request that resume made, never with the
\* rejection of an earlier one kept in the platform's idempotency cache.
ResumeIsFresh ==
  \A m \in Msgs : Kind(m) = "resume" /\ answer[m][1] = "bound" =>
    \E n \in RequestsOf(m) : reqs[n].key = answer[m][2]

\* A command that is ahead of the cursor is not lost: a failed reply, a failed
\* statement or a crash only delays it.
NothingLost ==
  \A m \in 1..3 :
    (m \in Msgs /\ 0 <= cursor /\ cursor < m /\ m <= typed /\ Kind(m) # "text")
      ~> (m \in events)
=============================================================================
