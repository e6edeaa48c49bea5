------------------------------ MODULE WorkerRun ------------------------------
(***************************************************************************)
(* The agent worker (internal/agentworker, cmd/agent-worker) and the part   *)
(* of the agent API its runs call (internal/agentapi/actions.go, events.go, *)
(* misc.go, conversations.go).                                              *)
(*                                                                          *)
(* A worker holds Slots concurrency slots, polls for as many jobs as it has *)
(* free slots, and runs each job in its own goroutine: through the gate     *)
(* that keeps one run per conversation, then the model's tool calls, then   *)
(* the check that the server has the job finished.  A run is identified by  *)
(* the job and the attempt it was claimed under.                            *)
(*                                                                          *)
(* A tool call is an HTTP request whose handler takes several statements.   *)
(* The handler goes on when the connection breaks or the run is killed, so  *)
(* a handler may finish after its run ended, or after the job's lease       *)
(* expired and another run was given the job.                               *)
(***************************************************************************)
EXTENDS Integers, Sequences, FiniteSets

CONSTANTS
  Workers,
  Jobs,         \* jobs of one account
  Conv,         \* [Jobs -> conversations]
  Slots,        \* AGENT_WORKER_CONCURRENCY
  MaxAttempts,  \* agent_jobs.max_attempts
  MaxLeads,     \* bound on job_leads rows
  None,
  Scenarios     \* [ops, tools, jobs, workers, calls, faults, outages]

VARIABLES
  scen,        \* what the runs of this behaviour do
  job,         \* agent_jobs: status, attempts, result_action_id, result_lead_id
  actions,     \* agent_actions, unique per (job, action type): their status
  notified,    \* owner_notifications: <<job, action type>>
  leads,       \* job_leads: the job that created each
  leadResult,  \* agent_job_lead_results: the lead bound to each job
  paused,      \* agent_profiles.autopilot_paused
  recent,      \* alerts inside their window: "pause", and conversations warned
  worker,      \* each worker's poll loop
  gate,        \* convGate.running of each worker
  run,         \* the run of each (job, attempt)
  calls        \* handlers in flight on the server

vars == <<scen, job, actions, notified, leads, leadResult, paused, recent,
          worker, gate, run, calls>>

-----------------------------------------------------------------------------
ActionTypes == {"reply", "approval", "summary"}
Operations == ActionTypes \cup {"lead", "pause", "complete"}
\* "decided": approved or denied by policy alone.
ActionStatus == {"none", "decided", "paused", "pending", "executed"}
RunIds == Jobs \X (1..MaxAttempts)

\* What the runs do, which jobs and workers take part, and how many calls of
\* a run, lost requests and failures of processes may happen.
ScenarioType == [ops : SUBSET Operations, tools : SUBSET Operations, jobs : SUBSET Jobs,
                 workers : SUBSET Workers, calls : Nat, faults : Nat, outages : Nat]

ASSUME WorkAssumption ==
  /\ IsFiniteSet(Jobs) /\ None \notin Workers
  /\ Slots \in Nat /\ MaxAttempts \in Nat \ {0} /\ MaxLeads \in Nat
  /\ Scenarios \subseteq ScenarioType

Terminal(status) == status \in {"completed", "failed", "ignored"}

\* A run that has not been given its job yet, or has ended and left nothing.
NoRun == [pc |-> "none", w |-> None, completed |-> FALSE, action |-> "none",
          lead |-> 0, calls |-> 0]
Ended(pc) == [NoRun EXCEPT !.pc = pc]
Live(r) == run[r].pc \in {"waiting", "running"}

\* The claim a statement of the handlers is fenced by: the job is processing
\* under the attempt the request names.
Claimed(r) == job[r[1]].status = "processing" /\ job[r[1]].attempt = r[2]

RunType == [pc : {"none", "waiting", "running", "done", "failed"}, w : Workers \cup {None},
            completed : BOOLEAN, action : ActionTypes \cup {"none"}, lead : 0..MaxLeads,
            calls : Nat]

\* A request in flight, by what it asks for.
Asking(ops, stages, wants) ==
  [run : RunIds, op : ops, stage : stages, want : wants, awaited : BOOLEAN]
Reports == [status : {"completed", "ignored"}, action : ActionTypes \cup {"none"},
            lead : 0..MaxLeads]
Handlers ==
  Asking(ActionTypes, {"insert", "notify"}, (ActionStatus \ {"none"}) \cup {"warning"})
    \cup Asking({"lead"}, {"insert", "bind"}, 0..MaxLeads)
    \cup Asking({"pause"}, {"set"}, {0})
    \cup Asking({"complete"}, {"set"}, Reports)

JobType == [status : {"pending", "processing", "completed", "ignored", "dead_letter"},
            attempt : 0..MaxAttempts, action : ActionTypes \cup {"none"}, lead : 0..MaxLeads]
WorkerType == [pc : {"ready", "polling", "draining", "stopped"}, free : Nat, held : Nat]

TypeOK ==
  /\ scen \in ScenarioType
  /\ job \in [Jobs -> JobType]
  /\ actions \in [Jobs -> [ActionTypes -> ActionStatus]]
  /\ notified \subseteq Jobs \X ActionTypes
  /\ leads \in Seq(Jobs) /\ Len(leads) <= MaxLeads
  /\ leadResult \in [Jobs -> 0..MaxLeads]
  /\ paused \in BOOLEAN
  /\ recent \subseteq {"pause"} \cup {Conv[j] : j \in Jobs}
  /\ worker \in [Workers -> WorkerType]
  /\ gate \in [Workers -> SUBSET {Conv[j] : j \in Jobs}]
  /\ run \in [RunIds -> RunType]
  /\ calls \subseteq Handlers

-----------------------------------------------------------------------------
(* The worker's poll loop. *)

Init ==
  /\ scen \in Scenarios
  /\ job = [j \in Jobs |-> [status |-> IF j \in scen.jobs THEN "pending" ELSE "ignored",
                            attempt |-> 0, action |-> "none", lead |-> 0]]
  /\ actions = [j \in Jobs |-> [t \in ActionTypes |-> "none"]]
  /\ notified = {} /\ leads = << >> /\ leadResult = [j \in Jobs |-> 0]
  /\ paused = FALSE /\ recent = {}
  /\ worker = [w \in Workers |-> [pc |-> IF w \in scen.workers THEN "ready" ELSE "stopped",
                                  free |-> Slots, held |-> 0]]
  /\ gate = [w \in Workers |-> {}]
  /\ run = [r \in RunIds |-> NoRun]
  /\ calls = {}

\* A fault of a request, and one of the worker's process or its poll.
Fault == scen.faults > 0 /\ scen' = [scen EXCEPT !.faults = @ - 1]
Outage == scen.outages > 0 /\ scen' = [scen EXCEPT !.outages = @ - 1]

\* Loop blocks for one slot and takes as many more as are free, so that the
\* poll asks for no more jobs than it can start.
TakeSlots(w) ==
  /\ worker[w].pc = "ready" /\ worker[w].free > 0
  /\ worker' = [worker EXCEPT ![w] = [pc |-> "polling", free |-> 0, held |-> @.free]]
  /\ UNCHANGED <<scen, job, actions, notified, leads, leadResult, paused, recent,
                 gate, run, calls>>

\* What POST /jobs/claim may hand out: pending jobs, at most one per
\* conversation and none of a conversation with a job in progress.
Claimable(S) ==
  /\ \A j \in S : /\ job[j].status = "pending"
                  /\ \A k \in Jobs : job[k].status = "processing" => Conv[k] # Conv[j]
  /\ \A j, k \in S : j # k => Conv[j] # Conv[k]

Claims(S) ==
  job' = [j \in Jobs |-> IF j \in S
                         THEN [job[j] EXCEPT !.status = "processing", !.attempt = @ + 1]
                         ELSE job[j]]

NewRun(w) == [NoRun EXCEPT !.pc = "waiting", !.w = w]

\* The poll returns: unused slots go back, every job gets a goroutine.
PollEvents(w) ==
  \E S \in SUBSET scen.jobs :
    /\ worker[w].pc = "polling" /\ Cardinality(S) <= worker[w].held /\ Claimable(S)
    /\ Claims(S)
    /\ run' = [r \in RunIds |-> IF r[1] \in S /\ r[2] = job'[r[1]].attempt
                                THEN NewRun(w) ELSE run[r]]
    /\ worker' = [worker EXCEPT ![w] = [pc |-> "ready", held |-> 0,
                                        free |-> @.free + @.held - Cardinality(S)]]
    /\ UNCHANGED <<scen, actions, notified, leads, leadResult, paused, recent, gate,
                   calls>>

\* The poll fails after the server claimed S for it: nobody runs those jobs
\* until their lease expires.  Every slot goes back; the loop backs off.
PollFails(w) ==
  \E S \in SUBSET scen.jobs :
    /\ Outage
    /\ worker[w].pc = "polling" /\ Cardinality(S) <= worker[w].held /\ Claimable(S)
    /\ Claims(S)
    /\ worker' = [worker EXCEPT ![w] = [pc |-> "ready", held |-> 0, free |-> @.free + @.held]]
    /\ UNCHANGED <<actions, notified, leads, leadResult, paused, recent, gate, run,
                   calls>>

\* 401 or 403 (isFatalAuthError), or a signal: the loop returns and waits for
\* the jobs it started.
PollDenied(w) ==
  /\ Outage
  /\ worker[w].pc = "polling"
  /\ worker' = [worker EXCEPT ![w] = [pc |-> "draining", held |-> 0, free |-> @.free + @.held]]
  /\ UNCHANGED <<job, actions, notified, leads, leadResult, paused, recent, gate, run,
                 calls>>

Drained(w) ==
  /\ worker[w].pc = "draining" /\ \A r \in RunIds : run[r].w # w
  /\ worker' = [worker EXCEPT ![w].pc = "stopped"]
  /\ UNCHANGED <<scen, job, actions, notified, leads, leadResult, paused, recent, gate,
                 run, calls>>

\* The requests of the runs R are no longer waited for; the handlers go on.
Abandoned(R) == {[h EXCEPT !.awaited = h.awaited /\ h.run \notin R] : h \in calls}

\* The process dies and is started again with empty memory.
Crash(w) ==
  LET lost == {r \in RunIds : run[r].w = w} IN
  /\ Outage
  /\ worker[w].pc \in {"ready", "polling"}
  /\ worker' = [worker EXCEPT ![w] = [pc |-> "ready", free |-> Slots, held |-> 0]]
  /\ gate' = [gate EXCEPT ![w] = {}]
  /\ run' = [r \in RunIds |-> IF r \in lost THEN Ended("failed") ELSE run[r]]
  /\ calls' = Abandoned(lost)
  /\ UNCHANGED <<job, actions, notified, leads, leadResult, paused, recent>>

-----------------------------------------------------------------------------
(* One run: the conversation gate, the runner, the check at the end. *)

FaultyLeave(r, pc) ==
  /\ gate' = IF pc = "done" THEN [gate EXCEPT ![run[r].w] = @ \ {Conv[r[1]]}] ELSE gate
  /\ worker' = [worker EXCEPT ![run[r].w].free = @ + 1]
  /\ run' = [run EXCEPT ![r] = Ended(pc)]

\* runJob's deferred calls, whatever Run returned: convGate.leave, then the
\* goroutine gives its slot back.
Leave(r, pc) ==
  /\ gate' = [gate EXCEPT ![run[r].w] = @ \ {Conv[r[1]]}]
  /\ worker' = [worker EXCEPT ![run[r].w].free = @ + 1]
  /\ run' = [run EXCEPT ![r] = Ended(pc)]

FaultyEnter(r) ==
  /\ run[r].pc = "waiting"
  /\ gate' = [gate EXCEPT ![run[r].w] = @ \cup {Conv[r[1]]}]
  /\ run' = [run EXCEPT ![r].pc = "running"]
  /\ UNCHANGED <<scen, job, actions, notified, leads, leadResult, paused, recent,
                 worker, calls>>

\* convGate.enter: a second run of a conversation (its lease expired while the
\* first one was still running here) waits until the first has left.
Enter(r) ==
  /\ run[r].pc = "waiting"
  /\ Conv[r[1]] \notin gate[run[r].w]
  /\ gate' = [gate EXCEPT ![run[r].w] = @ \cup {Conv[r[1]]}]
  /\ run' = [run EXCEPT ![r].pc = "running"]
  /\ UNCHANGED <<scen, job, actions, notified, leads, leadResult, paused, recent,
                 worker, calls>>

\* The run fails: no job token, the job's deadline, a provider error, the turn
\* or cost limit, a process that exits with an error.  A request it was
\* waiting for is abandoned.
RunFails(r) ==
  /\ run[r].pc = "running"
  /\ calls' = Abandoned({r})
  /\ Leave(r, "failed")
  /\ UNCHANGED <<scen, job, actions, notified, leads, leadResult, paused, recent>>

\* finishRun's last check: the server has this job finished under this attempt.
Verified(r) == job[r[1]].attempt = r[2] /\ Terminal(job[r[1]].status)

\* The model ends its turn with a success result, or the tool builder saw
\* complete_agent_job succeed; finishRun asks the server for the job.
FinishRun(r) ==
  /\ run[r].pc = "running" /\ \A h \in calls : h.run = r => ~h.awaited
  /\ Leave(r, IF Verified(r) THEN "done" ELSE "failed")
  /\ UNCHANGED <<scen, job, actions, notified, leads, leadResult, paused, recent,
                 calls>>

-----------------------------------------------------------------------------
(* Tool calls. *)

Mandatory == {"reply", "complete"}

\* toolGate: a route is served when its tool is mandatory or in the job's set.
ToolGate(op) == op \in Mandatory \/ op \in scen.tools

\* enforceBinding: the job token names one job and one attempt.
EnforceBinding(token, h) == h.run = token

\* HasOwnerNotificationSince for the pause alert, HasExecutedOwnerSummarySince
\* for a conversation's manipulation warning.
PauseAlerted == "pause" \in recent
Warned(j) == Conv[j] \in recent

\* What the owner's policy makes of a reply: a paused account's is denied with
\* that reason; another is decided, or waits for the owner's approval.
ReplyDecisions == IF paused THEN {"paused"} ELSE {"decided", "pending"}

\* What handleOwnerFacing makes of a request: the kill switch and an earlier
\* install revision deny it.  A summary that reports manipulation is suppressed
\* while an earlier one of the conversation is inside its window: no row.
OwnerDecisions(j, op) ==
  {"executed", "decided"}
    \cup (IF op = "summary" /\ ~Warned(j) THEN {"warning"} ELSE {})

\* The leads get_lead and get_conversation_context show this conversation.
KnownLeads(j) == {l \in 1..Len(leads) : Conv[leads[l]] = Conv[j]}

Handler(r, op, stage, want) ==
  [run |-> r, op |-> op, stage |-> stage, want |-> want, awaited |-> TRUE]

\* guarded: state-changing calls of a run are serialised, and refused once
\* complete_agent_job has succeeded.
Guarded(r) == ~run[r].completed /\ \A h \in calls : h.run = r => ~h.awaited

Sent(r, h) ==
  /\ run[r].pc = "running" /\ Guarded(r) /\ run[r].calls < scen.calls
  /\ h.op \in scen.ops /\ ToolGate(h.op) /\ EnforceBinding(r, h)
  /\ calls' = calls \cup {h}
  /\ run' = [run EXCEPT ![r].calls = @ + 1]
  /\ UNCHANGED <<scen, job, actions, notified, leads, leadResult, paused, recent,
                 worker, gate>>

ProposeReply(r) == \E d \in ReplyDecisions : Sent(r, Handler(r, "reply", "insert", d))

RequestOwnerApproval(r) ==
  \E d \in OwnerDecisions(r[1], "approval") : Sent(r, Handler(r, "approval", "insert", d))

SendOwnerSummary(r) ==
  \E d \in OwnerDecisions(r[1], "summary") : Sent(r, Handler(r, "summary", "insert", d))

\* save_job_lead: a new lead, or an update of one the model was shown.
SaveJobLead(r) ==
  \E l \in {0} \cup KnownLeads(r[1]) : Sent(r, Handler(r, "lead", "insert", l))

PauseAutopilot(r) == Sent(r, Handler(r, "pause", "set", 0))

\* complete_agent_job passes the ids its own earlier calls were answered with.
\* "ignored" stands for "failed" too, which the server treats alike but for
\* routing the event (AgentJobs).
CompleteAgentJob(r) ==
  \/ Sent(r, Handler(r, "complete", "set",
                     [status |-> "completed", action |-> run[r].action, lead |-> run[r].lead]))
  \/ Sent(r, Handler(r, "complete", "set",
                     [status |-> "ignored", action |-> "none", lead |-> 0]))

ToolCall(r) ==
  \/ ProposeReply(r) \/ RequestOwnerApproval(r) \/ SendOwnerSummary(r)
  \/ SaveJobLead(r) \/ PauseAutopilot(r) \/ CompleteAgentJob(r)

\* The connection of a request breaks; the model is told the call failed.
ConnectionLost(h) ==
  /\ Fault
  /\ h.awaited
  /\ calls' = (calls \ {h}) \cup {[h EXCEPT !.awaited = FALSE]}
  /\ UNCHANGED <<job, actions, notified, leads, leadResult, paused, recent, worker,
                 gate, run>>

\* A handler whose client is gone finds its context cancelled.
Cancelled(h) ==
  /\ ~h.awaited
  /\ calls' = calls \ {h}
  /\ UNCHANGED <<scen, job, actions, notified, leads, leadResult, paused, recent,
                 worker, gate, run>>

-----------------------------------------------------------------------------
(* The handlers on the server. *)

\* What the tool builder keeps of a successful answer: the id that
\* complete_agent_job will report, and whether the job is finished.  A summary
\* is the result only when nothing else is.
Learned(v, op, id) ==
  CASE op \in {"reply", "approval"} -> [v EXCEPT !.action = op]
    [] op = "summary" -> [v EXCEPT !.action = IF @ = "none" THEN op ELSE @]
    [] op = "lead" -> [v EXCEPT !.lead = id]
    [] op = "complete" -> [v EXCEPT !.completed = TRUE]
    [] OTHER -> v

\* The handler answers.  Nobody hears the answer of an abandoned request.
Answers(h, id) ==
  /\ calls' = calls \ {h}
  /\ run' = IF h.awaited THEN [run EXCEPT ![h.run] = Learned(run[h.run], h.op, id)] ELSE run

\* The handler answers with an error status.
Refuses(h) == calls' = calls \ {h} /\ UNCHANGED run

Goes(h, stage) == calls' = (calls \ {h}) \cup {[h EXCEPT !.stage = stage]} /\ UNCHANGED run

Inserted(h) == IF h.want = "warning" THEN "executed" ELSE h.want

FaultyInsertAgentAction(h) ==
  LET j == h.run[1] IN
  /\ h.op \in ActionTypes /\ h.stage = "insert"
  /\ \/ /\ actions[j][h.op] # "none" /\ Goes(h, "notify")
        /\ UNCHANGED <<actions, recent>>
     \/ /\ actions[j][h.op] = "none" /\ job[j].status = "processing"
        /\ actions' = [actions EXCEPT ![j][h.op] = Inserted(h)]
        /\ recent' = IF h.want = "warning" THEN recent \cup {Conv[j]} ELSE recent
        /\ Goes(h, "notify")
     \/ /\ actions[j][h.op] = "none" /\ job[j].status # "processing" /\ Refuses(h)
        /\ UNCHANGED <<actions, recent>>
  /\ UNCHANGED <<scen, job, notified, leads, leadResult, paused, worker, gate>>

\* InsertAgentAction: one row per job and type.  An existing row is returned
\* as it is; a new one needs the job to be claimed under this attempt.
InsertAgentAction(h) ==
  LET j == h.run[1] IN
  /\ h.op \in ActionTypes /\ h.stage = "insert"
  /\ \/ /\ actions[j][h.op] # "none" /\ Goes(h, "notify")
        /\ UNCHANGED <<actions, recent>>
     \/ /\ actions[j][h.op] = "none" /\ Claimed(h.run)
        /\ actions' = [actions EXCEPT ![j][h.op] = Inserted(h)]
        /\ recent' = IF h.want = "warning" THEN recent \cup {Conv[j]} ELSE recent
        /\ Goes(h, "notify")
     \/ /\ actions[j][h.op] = "none" /\ ~Claimed(h.run) /\ Refuses(h)
        /\ UNCHANGED <<actions, recent>>
  /\ UNCHANGED <<scen, job, notified, leads, leadResult, paused, worker, gate>>

\* The owner must be told of the persisted row: a draft that waits for them, an
\* executed summary or request.
MustNotify(j, op) == actions[j][op] \in {"pending", "executed"}

\* The notification cannot be queued: the call fails, so that a repeated call,
\* which finds the same action row, queues it.
NotifyFails(h) ==
  /\ Fault
  /\ h.op \in ActionTypes /\ h.stage = "notify" /\ MustNotify(h.run[1], h.op)
  /\ Refuses(h)
  /\ UNCHANGED <<job, actions, notified, leads, leadResult, paused, recent, worker, gate>>

\* InsertOwnerNotification, once per action, from the persisted row.
Notify(h) ==
  /\ h.op \in ActionTypes /\ h.stage = "notify" /\ MustNotify(h.run[1], h.op)
  /\ notified' = notified \cup {<<h.run[1], h.op>>}
  /\ Answers(h, 0)
  /\ UNCHANGED <<scen, job, actions, leads, leadResult, paused, recent, worker, gate>>

\* A row that needs no notification is answered.  A reply withheld because the
\* account is paused raises an alert, unless one was raised inside the window
\* or queueing it fails.
Unnotified(h) ==
  LET j == h.run[1]
      alert == actions[j][h.op] = "paused" /\ ~PauseAlerted IN
  /\ h.op \in ActionTypes /\ h.stage = "notify" /\ ~MustNotify(j, h.op)
  /\ \/ /\ alert
        /\ notified' = notified \cup {<<j, h.op>>} /\ recent' = recent \cup {"pause"}
        /\ UNCHANGED scen
     \/ /\ alert /\ Fault /\ UNCHANGED <<notified, recent>>
     \/ ~alert /\ UNCHANGED <<scen, notified, recent>>
  /\ Answers(h, 0)
  /\ UNCHANGED <<job, actions, leads, leadResult, paused, worker, gate>>

\* UpsertJobLead's first statement: insertJobLead or updateJobLead, under the
\* claim.  The id goes on to the statement that binds the job's result.
SaveLead(h) ==
  LET j == h.run[1]
      id == IF h.want = 0 THEN Len(leads) + 1 ELSE h.want IN
  /\ h.op = "lead" /\ h.stage = "insert"
  /\ \/ /\ Claimed(h.run) /\ id <= MaxLeads
        /\ leads' = IF h.want = 0 THEN Append(leads, j) ELSE [leads EXCEPT ![id] = j]
        /\ calls' = (calls \ {h}) \cup {[h EXCEPT !.stage = "bind", !.want = id]}
        /\ UNCHANGED run
     \/ ~Claimed(h.run) /\ Refuses(h) /\ UNCHANGED <<leads>>
  /\ UNCHANGED <<scen, job, actions, notified, leadResult, paused, recent, worker, gate>>

\* Its second statement, which names the job and not the attempt.
BindLead(h) ==
  /\ h.op = "lead" /\ h.stage = "bind"
  /\ leadResult' = [leadResult EXCEPT ![h.run[1]] = h.want]
  /\ Answers(h, h.want)
  /\ UNCHANGED <<scen, job, actions, notified, leads, paused, recent, worker, gate>>

\* handleAutopilotPause, as the tool calls it: pause only.
SetPaused(h) ==
  /\ h.op = "pause"
  /\ paused' = TRUE
  /\ Answers(h, 0)
  /\ UNCHANGED <<scen, job, actions, notified, leads, leadResult, recent, worker, gate>>

\* CompleteAgentJobWithResult: a completed job needs a result, the result must
\* be this job's, and the update is a compare-and-set on the claim.
ResultStands(j, want) ==
  /\ want.status = "completed" => (want.action # "none" \/ want.lead # 0)
  /\ want.action # "none" => actions[j][want.action] # "none"
  /\ want.lead # 0 => leadResult[j] = want.lead

CompleteJob(h) ==
  LET j == h.run[1]
      ok == ResultStands(j, h.want) /\ Claimed(h.run) IN
  /\ h.op = "complete"
  /\ \/ /\ ok
        /\ job' = [job EXCEPT ![j] = [status |-> h.want.status, attempt |-> @.attempt,
                                      action |-> h.want.action, lead |-> h.want.lead]]
        /\ Answers(h, 0)
     \/ ~ok /\ Refuses(h) /\ UNCHANGED job
  /\ UNCHANGED <<scen, actions, notified, leads, leadResult, paused, recent, worker, gate>>

HandlerStep(h) ==
  \/ InsertAgentAction(h) \/ Notify(h) \/ NotifyFails(h) \/ Unnotified(h)
  \/ SaveLead(h) \/ BindLead(h) \/ SetPaused(h) \/ CompleteJob(h)
  \/ ConnectionLost(h) \/ Cancelled(h)

-----------------------------------------------------------------------------
(* The queue, the owner and the clock. *)

\* A lease expires: the job goes back to the queue, or is given up.
ReclaimExpired(j) ==
  /\ job[j].status = "processing"
  /\ job' = [job EXCEPT ![j].status = IF job[j].attempt >= MaxAttempts THEN "dead_letter" ELSE "pending"]
  /\ UNCHANGED <<scen, actions, notified, leads, leadResult, paused, recent, worker,
                 gate, run, calls>>

\* The owner lifts or sets the pause (/mctl pause, /mctl unpause).
OwnerSetsPause ==
  /\ "pause" \in scen.ops
  /\ paused' = ~paused
  /\ UNCHANGED <<scen, job, actions, notified, leads, leadResult, recent, worker, gate,
                 run, calls>>

\* Six hours pass.
WindowPasses ==
  /\ recent # {} /\ recent' = {}
  /\ UNCHANGED <<scen, job, actions, notified, leads, leadResult, paused, worker, gate,
                 run, calls>>

WorkerStep(w) ==
  \/ TakeSlots(w) \/ PollEvents(w) \/ PollFails(w) \/ PollDenied(w) \/ Drained(w) \/ Crash(w)

RunStep(r) == Enter(r) \/ RunFails(r) \/ FinishRun(r) \/ ToolCall(r)

Next ==
  \/ \E w \in Workers : WorkerStep(w)
  \/ \E r \in RunIds : RunStep(r)
  \/ \E h \in calls : HandlerStep(h)
  \/ \E j \in Jobs : ReclaimExpired(j)
  \/ OwnerSetsPause
  \/ WindowPasses

Spec == Init /\ [][Next]_vars

\* A goroutine at the gate goes on when the conversation is free, and the
\* deadline of its context ends every run.
FairSpec ==
  /\ Spec
  /\ \A r \in RunIds : WF_vars(Enter(r)) /\ WF_vars(RunFails(r))

-----------------------------------------------------------------------------
(* Properties. *)

\* Within a worker one run of a conversation is with the model at a time, also
\* when an expired lease hands the worker the same conversation again
\* (convGate, worker.go).
OneRunPerConversation ==
  \A r, s \in RunIds :
    (r # s /\ run[r].pc = "running" /\ run[s].pc = "running" /\ run[r].w = run[s].w)
      => Conv[r[1]] # Conv[s[1]]

\* No slot is lost or made up: the free ones, the ones held for a poll and the
\* ones of running jobs add up to the configured concurrency, through failed
\* polls, fatal errors and failed runs (Loop, worker.go).
SlotsAddUp ==
  \A w \in Workers :
    worker[w].free + worker[w].held + Cardinality({r \in RunIds : run[r].w = w}) = Slots

\* The worker counts a run as completed only if the server has the job
\* finished under that run's attempt: another attempt's completion does not
\* count, nor does the model's word (finishRun).
SuccessIsTheServers ==
  \A r \in RunIds : run[r].pc = "done" => job[r[1]].attempt = r[2] /\ Terminal(job[r[1]].status)

\* An action or a lead is written for a job only while the job is claimed under
\* the attempt that asked for it: not by a handler that outlived its run, not
\* after a completion whose answer was lost (InsertAgentAction, insertJobLead,
\* updateJobLead).
WritesUnderTheClaim ==
  [][(actions' # actions \/ leads' # leads) => \A h \in calls \ calls' : Claimed(h.run)]_vars

\* When a job is completed with a draft that waits for approval, or with a
\* summary or request, as its result, the owner has been told of it: a call
\* whose notification could not be queued is not a result (handleProposeReply,
\* handleOwnerFacing, toolBuilder).
ResultWasAnnounced ==
  \A j \in Jobs :
    (job[j].status = "completed" /\ job[j].action # "none")
      => (MustNotify(j, job[j].action) => <<j, job[j].action>> \in notified)

\* What the worker, the server and the owner hold of a run agrees: one run per
\* conversation, no slot lost, no success the server does not have, no result
\* the owner was not told of.
RunsAreHonest ==
  OneRunPerConversation /\ SlotsAddUp /\ SuccessIsTheServers /\ ResultWasAnnounced

\* Every run a worker started ends and gives its slot and its conversation
\* back, also when an earlier run of the conversation failed or hung until its
\* deadline (runJob, convGate.leave).
EveryRunEnds ==
  \A r \in RunIds : Live(r) ~> ~Live(r)
=============================================================================
