-------------------------- MODULE WorkerRunProofs --------------------------
(***************************************************************************)
(* Safety of WorkerRun for any number of workers, jobs, conversations,     *)
(* slots and attempts, and any scenario of calls and failures.             *)
(***************************************************************************)
EXTENDS WorkerRun, TLAPS

\* The owner has been told what must be told of an action of a job.
Announced(j, a) ==
  a # "none" => /\ actions[j][a] # "none"
                /\ MustNotify(j, a) => <<j, a>> \in notified

\* A run has a worker while it lives, is inside the worker's gate while it is
\* with the model, and reports only what the server answered.
RunInv(r) ==
  /\ run[r].w \in (IF Live(r) THEN Workers ELSE {None})
  /\ r[2] > job[r[1]].attempt => run[r].pc = "none"
  /\ run[r].pc = "running" => Conv[r[1]] \in gate[run[r].w]
  /\ run[r].pc = "done" => Verified(r)
  /\ Announced(r[1], run[r].action)

JobInv(j) ==
  /\ job[j].status = "pending" => job[j].attempt < MaxAttempts
  /\ Announced(j, job[j].action)

CallInv(h) ==
  /\ h.op \in ActionTypes /\ h.stage = "notify" => actions[h.run[1]][h.op] # "none"
  /\ h.op = "complete" => Announced(h.run[1], h.want.action)

\* Slots are held for a poll, and no longer.
HeldForPoll == \A w \in Workers : worker[w].pc # "polling" => worker[w].held = 0

WorkInv ==
  /\ TypeOK
  /\ \A r \in RunIds : RunInv(r)
  /\ \A j \in Jobs : JobInv(j)
  /\ \A h \in calls : CallInv(h)
  /\ OneRunPerConversation
  /\ SlotsAddUp /\ HeldForPoll
-----------------------------------------------------------------------------
(* What a step may do to the rows, and what the invariant keeps of them. *)

\* Action rows are written once, and notifications are not taken back.
Grow ==
  /\ \A j \in Jobs, t \in ActionTypes :
       actions[j][t] # "none" => actions'[j][t] = actions[j][t]
  /\ notified \subseteq notified'

\* Attempts are not reused, and a finished job stays as it is.
Advance ==
  \A j \in Jobs :
    /\ job'[j].attempt >= job[j].attempt
    /\ Terminal(job[j].status) => job'[j] = job[j]

LEMMA AnnouncedKept ==
    ASSUME Grow, NEW j \in Jobs, NEW a \in ActionTypes \cup {"none"}, Announced(j, a)
    PROVE  Announced(j, a)'
  BY Zenon DEF Grow, Announced, MustNotify

LEMMA JobFields ==
    ASSUME TypeOK, NEW j \in Jobs
    PROVE  /\ job[j].status \in {"pending", "processing", "completed", "ignored", "dead_letter"}
           /\ job[j].attempt \in 0..MaxAttempts /\ job[j].attempt \in Nat
           /\ job[j].action \in ActionTypes \cup {"none"} /\ job[j].lead \in 0..MaxLeads
  BY WorkAssumption DEF TypeOK, JobType

LEMMA RunFields ==
    ASSUME TypeOK, NEW r \in RunIds
    PROVE  /\ r[1] \in Jobs /\ r[2] \in 1..MaxAttempts /\ r[2] \in Nat
           /\ run[r].pc \in {"none", "waiting", "running", "done", "failed"}
           /\ run[r].w \in Workers \cup {None} /\ run[r].completed \in BOOLEAN
           /\ run[r].action \in ActionTypes \cup {"none"} /\ run[r].lead \in 0..MaxLeads
           /\ run[r].calls \in Nat
  BY WorkAssumption DEF TypeOK, RunType, RunIds

LEMMA CallFields ==
    ASSUME TypeOK, NEW h \in calls
    PROVE  /\ h.run \in RunIds /\ h.run[1] \in Jobs /\ h.op \in Operations
           /\ h.awaited \in BOOLEAN
           /\ h.op \in ActionTypes =>
                h \in Asking(ActionTypes, {"insert", "notify"}, (ActionStatus \ {"none"}) \cup {"warning"})
           /\ h.op = "lead" => h \in Asking({"lead"}, {"insert", "bind"}, 0..MaxLeads)
           /\ h.op = "pause" => h \in Asking({"pause"}, {"set"}, {0})
           /\ h.op = "complete" => h \in Asking({"complete"}, {"set"}, Reports)
<1>1. h \in Handlers
  BY Zenon DEF TypeOK
<1> QED
  BY <1>1, Zenon DEF Handlers, Asking, Operations, ActionTypes, RunIds

LEMMA JobKept ==
    ASSUME TypeOK, Grow, NEW j \in Jobs, JobInv(j), job'[j].action = job[j].action,
           job'[j].status = "pending" => job'[j].attempt < MaxAttempts
    PROVE  JobInv(j)'
<1>1. Announced(j, job[j].action)'
  BY JobFields, AnnouncedKept, Zenon DEF JobInv
<1> QED
  BY <1>1, Zenon DEF JobInv, Announced, MustNotify

LEMMA RunKept ==
    ASSUME TypeOK, Grow, Advance, TypeOK', NEW r \in RunIds, RunInv(r),
           run'[r].pc = run[r].pc, run'[r].w = run[r].w,
           run'[r].action = run[r].action \/ Announced(r[1], run[r].action)',
           run[r].pc = "running" => Conv[r[1]] \in gate'[run[r].w]
    PROVE  RunInv(r)'
<1>1. Announced(r[1], run[r].action)'
  BY RunFields, AnnouncedKept, Zenon DEF RunInv
<1>2. r[1] \in Jobs /\ r[2] \in Nat /\ job[r[1]].attempt \in Nat /\ job'[r[1]].attempt \in Nat
  <2>1. r[1] \in Jobs /\ r[2] \in Nat
    BY RunFields, Zenon
  <2>2. job[r[1]].attempt \in Nat
    BY <2>1, JobFields, Zenon
  <2>3. job' \in [Jobs -> JobType]
    BY Zenon DEF TypeOK
  <2>4. job'[r[1]].attempt \in 0..MaxAttempts
    BY <2>1, <2>3, Zenon DEF JobType
  <2> QED
    BY <2>1, <2>2, <2>4, WorkAssumption
<1>3. run'[r].pc = "done" => Verified(r)'
  BY <1>2, Zenon DEF RunInv, Verified, Advance, Terminal
<1>4. r[2] > job'[r[1]].attempt => run'[r].pc = "none"
  BY <1>2 DEF RunInv, Advance
<1>5. run'[r].w \in (IF Live(r)' THEN Workers ELSE {None})
  BY Zenon DEF RunInv, Live
<1> QED
  BY <1>1, <1>3, <1>4, <1>5, Zenon DEF RunInv

LEMMA CallKept ==
    ASSUME TypeOK, Grow, NEW h \in calls, CallInv(h)
    PROVE  CallInv(h)'
<1>1. h.op = "complete" => Announced(h.run[1], h.want.action)'
  <2> SUFFICES ASSUME h.op = "complete" PROVE Announced(h.run[1], h.want.action)'
    OBVIOUS
  <2>1. h.want.action \in ActionTypes \cup {"none"}
    BY CallFields, Zenon DEF Asking, Reports
  <2> QED
    BY <2>1, CallFields, AnnouncedKept, Zenon DEF CallInv
<1>2. h.op \in ActionTypes /\ h.stage = "notify" => actions'[h.run[1]][h.op] # "none"
  BY CallFields, Zenon DEF CallInv, Grow
<1> QED
  BY <1>1, <1>2, Zenon DEF CallInv

\* The slots of a worker, by the runs it has.
Own(w) == {r \in RunIds : run[r].w = w}

\* A step that starts, ends and moves no run.
LEMMA Calm ==
    ASSUME WorkInv, TypeOK', Grow, Advance,
           \A j \in Jobs :
             /\ job'[j].action = job[j].action \/ Announced(j, job[j].action)'
             /\ job'[j].status = "pending" => job'[j].attempt < MaxAttempts,
           \A r \in RunIds :
             /\ run'[r].pc = run[r].pc /\ run'[r].w = run[r].w
             /\ run'[r].action = run[r].action \/ Announced(r[1], run[r].action)',
           gate' = gate,
           \A w \in Workers :
             \/ worker'[w] = worker[w]
             \/ /\ worker'[w].free + worker'[w].held = worker[w].free + worker[w].held
                /\ worker'[w].pc # "polling" => worker'[w].held = 0,
           \A h \in calls' : h \in calls \/ CallInv(h)'
    PROVE  WorkInv'
<1>0. TypeOK /\ (\A r \in RunIds : RunInv(r)) /\ (\A j \in Jobs : JobInv(j))
      /\ (\A h \in calls : CallInv(h)) /\ OneRunPerConversation /\ SlotsAddUp /\ HeldForPoll
  BY Zenon DEF WorkInv
<1>1. \A r \in RunIds : RunInv(r)'
  <2> SUFFICES ASSUME NEW r \in RunIds PROVE RunInv(r)'
    OBVIOUS
  <2>1. run[r].pc = "running" => Conv[r[1]] \in gate'[run[r].w]
    BY <1>0, Zenon DEF RunInv
  <2> QED
    BY <1>0, <2>1, RunKept, Zenon
<1>2. \A j \in Jobs : JobInv(j)'
  <2> SUFFICES ASSUME NEW j \in Jobs PROVE JobInv(j)'
    OBVIOUS
  <2>1. CASE job'[j].action = job[j].action
    BY <1>0, <2>1, JobKept, Zenon
  <2>2. CASE Announced(j, job[j].action)'
    BY <2>2, Zenon DEF JobInv
  <2> QED
    BY <2>1, <2>2, Zenon
<1>3. \A h \in calls' : CallInv(h)'
  BY <1>0, CallKept, Zenon
<1>4. OneRunPerConversation'
  BY <1>0 DEF OneRunPerConversation
<1>5. SlotsAddUp'
  <2> SUFFICES ASSUME NEW w \in Workers
               PROVE  worker'[w].free + worker'[w].held
                        + Cardinality({r \in RunIds : run'[r].w = w}) = Slots
    BY Zenon DEF SlotsAddUp
  <2>1. {r \in RunIds : run'[r].w = w} = {r \in RunIds : run[r].w = w}
    OBVIOUS
  <2> QED
    BY <1>0, <2>1, Zenon DEF SlotsAddUp
<1>6. HeldForPoll'
  BY <1>0, Zenon DEF HeldForPoll
<1> QED
  BY <1>1, <1>2, <1>3, <1>4, <1>5, <1>6, Zenon DEF WorkInv
-----------------------------------------------------------------------------
(* The handlers on the server. *)

\* Nothing happens to a job.
LEMMA SameJobs ==
    ASSUME WorkInv, job' = job
    PROVE  /\ Advance
           /\ \A j \in Jobs :
                /\ job'[j].action = job[j].action \/ Announced(j, job[j].action)'
                /\ job'[j].status = "pending" => job'[j].attempt < MaxAttempts
<1>1. \A j \in Jobs : job[j].attempt \in Nat
  BY JobFields, Zenon DEF WorkInv
<1> QED
  BY <1>1 DEF Advance, WorkInv, JobInv

LEMMA FaultType ==
    ASSUME scen \in ScenarioType, Fault \/ Outage
    PROVE  scen' \in ScenarioType
  BY DEF ScenarioType, Fault, Outage

LEMMA LearnedFields ==
    ASSUME NEW v \in RunType, NEW op \in Operations, NEW id \in 0..MaxLeads
    PROVE  /\ Learned(v, op, id) \in RunType
           /\ Learned(v, op, id).pc = v.pc /\ Learned(v, op, id).w = v.w
           /\ \/ Learned(v, op, id).action = v.action
              \/ op \in ActionTypes /\ Learned(v, op, id).action = op
<1>1. CASE op \in {"reply", "approval"}
  BY <1>1, Zenon DEF Learned, RunType, ActionTypes
<1>2. CASE op = "summary" /\ v.action = "none"
  <2>1. Learned(v, op, id) = [v EXCEPT !.action = op]
    BY <1>2, Zenon DEF Learned
  <2> QED
    BY <1>2, <2>1, Zenon DEF RunType, ActionTypes
<1>3. CASE op = "summary" /\ v.action # "none"
  <2>1. Learned(v, op, id) = [v EXCEPT !.action = v.action]
    BY <1>3, Zenon DEF Learned
  <2> QED
    BY <1>3, <2>1, Zenon DEF RunType
<1>4. CASE op = "lead"
  BY <1>4, Zenon DEF Learned, RunType
<1>5. CASE op = "complete"
  BY <1>5, Zenon DEF Learned, RunType
<1>6. CASE op = "pause"
  BY <1>6, Zenon DEF Learned
<1> QED
  BY <1>1, <1>2, <1>3, <1>4, <1>5, <1>6, Zenon DEF Operations, ActionTypes

\* What the run that hears an answer makes of it.
LEMMA AnswersRuns ==
    ASSUME TypeOK, NEW h \in calls, NEW id \in 0..MaxLeads, Answers(h, id)
    PROVE  /\ run' \in [RunIds -> RunType] /\ calls' \subseteq calls
           /\ \A r \in RunIds :
                /\ run'[r].pc = run[r].pc /\ run'[r].w = run[r].w
                /\ \/ run'[r].action = run[r].action
                   \/ r = h.run /\ h.op \in ActionTypes /\ run'[r].action = h.op
<1>1. h.run \in RunIds /\ h.op \in Operations /\ run \in [RunIds -> RunType]
  BY CallFields, Zenon DEF TypeOK
<1>2. run[h.run] \in RunType
  BY <1>1, Zenon
<1> DEFINE v == Learned(run[h.run], h.op, id)
<1>3. /\ v \in RunType /\ v.pc = run[h.run].pc /\ v.w = run[h.run].w
      /\ v.action = run[h.run].action \/ (h.op \in ActionTypes /\ v.action = h.op)
  BY <1>1, <1>2, LearnedFields
<1>4. run' = IF h.awaited THEN [run EXCEPT ![h.run] = v] ELSE run
  BY Zenon DEF Answers
<1>5. calls' \subseteq calls
  BY Zenon DEF Answers
<1> HIDE DEF v
<1> QED
  BY <1>1, <1>3, <1>4, <1>5, Zenon

\* A handler that answers a request that is no action request.
LEMMA AnswersOther ==
    ASSUME WorkInv, TypeOK', Grow, Advance, NEW h \in calls, NEW id \in 0..MaxLeads,
           Answers(h, id), h.op \notin ActionTypes, gate' = gate, worker' = worker,
           \A j \in Jobs :
             /\ job'[j].action = job[j].action \/ Announced(j, job[j].action)'
             /\ job'[j].status = "pending" => job'[j].attempt < MaxAttempts
    PROVE  WorkInv'
<1>1. \A r \in RunIds : run'[r].pc = run[r].pc /\ run'[r].w = run[r].w
                         /\ run'[r].action = run[r].action
  BY AnswersRuns, Zenon DEF WorkInv
<1>2. \A g \in calls' : g \in calls
  BY Zenon DEF Answers
<1> QED
  BY <1>1, <1>2, Calm, Zenon

\* A step that leaves runs and jobs alone.
LEMMA CallsMove ==
    ASSUME WorkInv, TypeOK', Grow, UNCHANGED <<job, run, worker, gate>>,
           \A h \in calls' : h \in calls \/ CallInv(h)'
    PROVE  WorkInv'
<1>1. Advance /\ \A j \in Jobs :
        /\ job'[j].action = job[j].action \/ Announced(j, job[j].action)'
        /\ job'[j].status = "pending" => job'[j].attempt < MaxAttempts
  BY SameJobs, Zenon
<1> QED
  BY <1>1, Calm, Zenon

LEMMA InsertAgentActionInv ==
    ASSUME WorkInv, NEW h \in calls, InsertAgentAction(h)
    PROVE  WorkInv'
<1> DEFINE j == h.run[1]
           t == h.op
           g == [h EXCEPT !.stage = "notify"]
<1>0. TypeOK
  BY Zenon DEF WorkInv
<1>1. /\ t \in ActionTypes /\ h.stage = "insert" /\ j \in Jobs
      /\ h \in Asking(ActionTypes, {"insert", "notify"}, (ActionStatus \ {"none"}) \cup {"warning"})
  BY <1>0, CallFields, Zenon DEF InsertAgentAction
<1>2. UNCHANGED <<scen, job, notified, leads, leadResult, paused, worker, gate, run>>
  BY Zenon DEF InsertAgentAction, Goes, Refuses
<1>3. g \in Handlers /\ g.op = t /\ g.run = h.run /\ g.op # "complete"
  BY <1>1, Zenon DEF Handlers, Asking, ActionTypes
<1>4. CASE actions' = actions /\ recent' = recent /\ calls' = calls \ {h}
  <2>1. TypeOK'
    BY <1>0, <1>2, <1>4, Zenon DEF TypeOK
  <2>2. Grow
    BY <1>2, <1>4, Zenon DEF Grow
  <2> QED
    BY <1>2, <1>4, <2>1, <2>2, CallsMove, Zenon
<1>5. CASE actions' = actions /\ recent' = recent /\ calls' = (calls \ {h}) \cup {g}
           /\ actions[j][t] # "none"
  <2>1. TypeOK'
    <3>1. calls' \subseteq Handlers
      BY <1>0, <1>3, <1>5, Zenon DEF TypeOK
    <3> QED
      BY <1>0, <1>2, <1>5, <3>1, Zenon DEF TypeOK
  <2>2. Grow
    BY <1>2, <1>5, Zenon DEF Grow
  <2>3. CallInv(g)'
    BY <1>3, <1>5, Zenon DEF CallInv
  <2> QED
    BY <1>2, <1>5, <2>1, <2>2, <2>3, CallsMove, Zenon
<1>6. CASE /\ actions[j][t] = "none"
           /\ actions' = [actions EXCEPT ![j][t] = Inserted(h)]
           /\ recent' = IF h.want = "warning" THEN recent \cup {Conv[j]} ELSE recent
           /\ calls' = (calls \ {h}) \cup {g}
  <2>0. Inserted(h) \in ActionStatus /\ Inserted(h) # "none"
    BY <1>1, Zenon DEF Inserted, Asking, ActionStatus
  <2>1. TypeOK'
    <3>1. calls' \subseteq Handlers
      BY <1>0, <1>3, <1>6, Zenon DEF TypeOK
    <3>2. actions' \in [Jobs -> [ActionTypes -> ActionStatus]]
      BY <1>0, <1>1, <1>6, <2>0, Zenon DEF TypeOK
    <3>3. recent' \subseteq {"pause"} \cup {Conv[k] : k \in Jobs}
      BY <1>0, <1>1, <1>6, Zenon DEF TypeOK
    <3> QED
      BY <1>0, <1>2, <3>1, <3>2, <3>3, Zenon DEF TypeOK
  <2>2. Grow
    BY <1>0, <1>1, <1>2, <1>6, Zenon DEF Grow, TypeOK
  <2>3. CallInv(g)'
    <3>1. actions'[j][t] # "none"
      BY <1>0, <1>1, <1>6, <2>0, Zenon DEF TypeOK
    <3> QED
      BY <1>3, <3>1, Zenon DEF CallInv
  <2> QED
    BY <1>2, <1>6, <2>1, <2>2, <2>3, CallsMove, Zenon
<1> HIDE DEF g
<1>7. \/ actions' = actions /\ recent' = recent /\ calls' = calls \ {h}
      \/ /\ actions' = actions /\ recent' = recent /\ calls' = (calls \ {h}) \cup {g}
         /\ actions[j][t] # "none"
      \/ /\ actions[j][t] = "none"
         /\ actions' = [actions EXCEPT ![j][t] = Inserted(h)]
         /\ recent' = IF h.want = "warning" THEN recent \cup {Conv[j]} ELSE recent
         /\ calls' = (calls \ {h}) \cup {g}
  BY Zenon DEF InsertAgentAction, Goes, Refuses, g
<1> QED
  BY <1>4, <1>5, <1>6, <1>7, Zenon

\* An action request that is answered: its row is announced.
LEMMA AnswersAction ==
    ASSUME WorkInv, TypeOK', NEW h \in calls, h.op \in ActionTypes, h.stage = "notify",
           Answers(h, 0), actions' = actions, notified \subseteq notified',
           MustNotify(h.run[1], h.op) => <<h.run[1], h.op>> \in notified',
           UNCHANGED <<job, worker, gate>>
    PROVE  WorkInv'
<1>0. TypeOK /\ CallInv(h)
  BY Zenon DEF WorkInv
<1>1. Grow
  BY Zenon DEF Grow
<1>2. Advance /\ \A j \in Jobs :
        /\ job'[j].action = job[j].action \/ Announced(j, job[j].action)'
        /\ job'[j].status = "pending" => job'[j].attempt < MaxAttempts
  BY SameJobs, Zenon
<1>3. Announced(h.run[1], h.op)'
  BY <1>0, Zenon DEF CallInv, Announced, MustNotify
<1>4. 0 \in 0..MaxLeads
  BY WorkAssumption
<1>5. ASSUME NEW r \in RunIds
      PROVE  /\ run'[r].pc = run[r].pc /\ run'[r].w = run[r].w
             /\ run'[r].action = run[r].action \/ Announced(r[1], run[r].action)'
  <2>1. /\ run'[r].pc = run[r].pc /\ run'[r].w = run[r].w
        /\ run'[r].action = run[r].action \/ (r = h.run /\ run'[r].action = h.op)
    BY <1>0, <1>4, AnswersRuns, Zenon
  <2>2. CASE r = h.run /\ run'[r].action = h.op
    <3>1. Announced(r[1], run[r].action)'
      BY <1>3, <2>2, Zenon DEF Announced, MustNotify
    <3> QED
      BY <2>1, <3>1, Zenon
  <2> QED
    BY <2>1, <2>2, Zenon
<1>6. \A g \in calls' : g \in calls
  BY Zenon DEF Answers
<1> QED
  BY <1>1, <1>2, <1>5, <1>6, Calm, Zenon

LEMMA NotifyInv ==
    ASSUME WorkInv, NEW h \in calls, Notify(h)
    PROVE  WorkInv'
<1>0. TypeOK /\ 0 \in 0..MaxLeads
  BY WorkAssumption DEF WorkInv
<1>1. /\ h.op \in ActionTypes /\ h.stage = "notify" /\ h.run[1] \in Jobs
      /\ notified' = notified \cup {<<h.run[1], h.op>>} /\ Answers(h, 0)
      /\ UNCHANGED <<scen, job, actions, leads, leadResult, paused, recent, worker, gate>>
  BY <1>0, CallFields, Zenon DEF Notify
<1>2. run' \in [RunIds -> RunType] /\ calls' \subseteq calls
  BY <1>0, <1>1, AnswersRuns, Zenon
<1>3. TypeOK'
  BY <1>0, <1>1, <1>2 DEF TypeOK
<1> QED
  BY <1>1, <1>3, AnswersAction, Zenon

LEMMA NotifyFailsInv ==
    ASSUME WorkInv, NEW h \in calls, NotifyFails(h)
    PROVE  WorkInv'
<1>0. TypeOK
  BY Zenon DEF WorkInv
<1>1. /\ UNCHANGED <<job, actions, notified, leads, leadResult, paused, recent, worker, gate, run>>
      /\ calls' \subseteq calls
  BY Zenon DEF NotifyFails, Refuses
<1>2. scen' \in ScenarioType
  BY <1>0, FaultType, Zenon DEF NotifyFails, TypeOK
<1>3. TypeOK'
  BY <1>0, <1>1, <1>2, Zenon DEF TypeOK
<1>4. Grow
  BY <1>1, Zenon DEF Grow
<1> QED
  BY <1>1, <1>3, <1>4, CallsMove, Zenon

LEMMA UnnotifiedInv ==
    ASSUME WorkInv, NEW h \in calls, Unnotified(h)
    PROVE  WorkInv'
<1>0. TypeOK /\ 0 \in 0..MaxLeads
  BY WorkAssumption DEF WorkInv
<1>1. /\ h.op \in ActionTypes /\ h.stage = "notify" /\ h.run[1] \in Jobs
      /\ ~MustNotify(h.run[1], h.op) /\ Answers(h, 0)
      /\ UNCHANGED <<job, actions, leads, leadResult, paused, worker, gate>>
  BY <1>0, CallFields, Zenon DEF Unnotified
<1>2. run' \in [RunIds -> RunType] /\ calls' \subseteq calls
  BY <1>0, <1>1, AnswersRuns, Zenon
<1>3. /\ notified' = notified \/ notified' = notified \cup {<<h.run[1], h.op>>}
      /\ recent' = recent \/ recent' = recent \cup {"pause"}
      /\ scen' = scen \/ Fault
  BY Zenon DEF Unnotified
<1>4. scen' \in ScenarioType
  BY <1>0, <1>3, FaultType, Zenon DEF TypeOK
<1>5. notified' \subseteq Jobs \X ActionTypes
  BY <1>0, <1>1, <1>3 DEF TypeOK
<1>7. recent' \subseteq {"pause"} \cup {Conv[j] : j \in Jobs}
  BY <1>0, <1>3, Zenon DEF TypeOK
<1>6. TypeOK'
  BY <1>0, <1>1, <1>2, <1>4, <1>5, <1>7, Zenon DEF TypeOK
<1> QED
  BY <1>1, <1>3, <1>6, AnswersAction, Zenon

LEMMA SaveLeadInv ==
    ASSUME WorkInv, NEW h \in calls, SaveLead(h)
    PROVE  WorkInv'
<1> DEFINE id == IF h.want = 0 THEN Len(leads) + 1 ELSE h.want
<1>0. TypeOK /\ leads \in Seq(Jobs) /\ Len(leads) \in Nat
  BY DEF WorkInv, TypeOK
<1>1. /\ UNCHANGED <<scen, job, actions, notified, leadResult, paused, recent, worker, gate, run>>
      /\ h.run[1] \in Jobs /\ h.op = "lead"
      /\ h \in Asking({"lead"}, {"insert", "bind"}, 0..MaxLeads)
  BY <1>0, CallFields, Zenon DEF SaveLead, Refuses
<1>2. Grow
  BY <1>1, Zenon DEF Grow
<1>3. CASE calls' = calls \ {h} /\ leads' = leads
  <2>1. TypeOK'
    BY <1>0, <1>1, <1>3, Zenon DEF TypeOK
  <2> QED
    BY <1>1, <1>2, <1>3, <2>1, CallsMove, Zenon
<1>4. CASE /\ id <= MaxLeads
           /\ calls' = (calls \ {h}) \cup {[h EXCEPT !.stage = "bind", !.want = id]}
           /\ leads' = IF h.want = 0 THEN Append(leads, h.run[1]) ELSE [leads EXCEPT ![id] = h.run[1]]
  <2>1. h.want \in 0..MaxLeads
    BY <1>1, Zenon DEF Asking
  <2>2. id \in 0..MaxLeads
    BY <1>0, <1>4, <2>1, WorkAssumption
  <2> PICK l \in 0..MaxLeads : l = id
    BY <2>2, Zenon
  <2> DEFINE g == [h EXCEPT !.stage = "bind", !.want = l]
  <2>3. g \in Handlers /\ g.op = "lead"
    BY <1>1, Zenon DEF Handlers, Asking
  <2>8. calls' = (calls \ {h}) \cup {g}
    BY <1>4, Zenon
  <2>4. leads' \in Seq(Jobs) /\ Len(leads') <= MaxLeads
    <3>1. CASE h.want = 0
      BY <1>0, <1>1, <1>4, <3>1
    <3>2. CASE h.want # 0
      <4>1. leads' = [leads EXCEPT ![h.want] = h.run[1]]
        BY <1>4, <3>2, Zenon
      <4>2. CASE h.want \in 1..Len(leads)
        BY <1>0, <1>1, <4>1, <4>2 DEF TypeOK
      <4>3. CASE h.want \notin 1..Len(leads)
        <5>1. leads' = leads
          BY <1>0, <4>1, <4>3
        <5> QED
          BY <1>0, <5>1, Zenon DEF TypeOK
      <4> QED
        BY <4>2, <4>3, Zenon
    <3> QED
      BY <3>1, <3>2, Zenon
  <2> HIDE DEF g, id
  <2>5. calls' \subseteq Handlers
    BY <1>0, <2>3, <2>8, Zenon DEF TypeOK
  <2>6. TypeOK'
    BY <1>0, <1>1, <2>4, <2>5, Zenon DEF TypeOK
  <2>7. CallInv(g)'
    BY <2>3, Zenon DEF CallInv, ActionTypes
  <2> QED
    BY <1>1, <1>2, <2>6, <2>7, <2>8, CallsMove, Zenon
<1> QED
  BY <1>3, <1>4, Zenon DEF SaveLead, Refuses

LEMMA BindLeadInv ==
    ASSUME WorkInv, NEW h \in calls, BindLead(h)
    PROVE  WorkInv'
<1>0. TypeOK
  BY Zenon DEF WorkInv
<1>1. /\ h.op = "lead" /\ h.run[1] \in Jobs /\ h.want \in 0..MaxLeads
      /\ leadResult' = [leadResult EXCEPT ![h.run[1]] = h.want] /\ Answers(h, h.want)
      /\ UNCHANGED <<scen, job, actions, notified, leads, paused, recent, worker, gate>>
  BY <1>0, CallFields, Zenon DEF BindLead, Asking
<1>2. run' \in [RunIds -> RunType] /\ calls' \subseteq calls
  BY <1>0, <1>1, AnswersRuns, Zenon
<1>3. TypeOK'
  BY <1>0, <1>1, <1>2, Zenon DEF TypeOK
<1>4. Grow /\ h.op \notin ActionTypes
  BY <1>1, Zenon DEF Grow, ActionTypes
<1>5. Advance /\ \A j \in Jobs :
        /\ job'[j].action = job[j].action \/ Announced(j, job[j].action)'
        /\ job'[j].status = "pending" => job'[j].attempt < MaxAttempts
  BY <1>1, SameJobs, Zenon
<1> QED
  BY <1>1, <1>3, <1>4, <1>5, AnswersOther, Zenon

LEMMA SetPausedInv ==
    ASSUME WorkInv, NEW h \in calls, SetPaused(h)
    PROVE  WorkInv'
<1>0. TypeOK /\ 0 \in 0..MaxLeads
  BY WorkAssumption DEF WorkInv
<1>1. /\ h.op = "pause" /\ paused' = TRUE /\ Answers(h, 0)
      /\ UNCHANGED <<scen, job, actions, notified, leads, leadResult, recent, worker, gate>>
  BY Zenon DEF SetPaused
<1>2. run' \in [RunIds -> RunType] /\ calls' \subseteq calls
  BY <1>0, <1>1, AnswersRuns, Zenon
<1>3. TypeOK'
  BY <1>0, <1>1, <1>2, Zenon DEF TypeOK
<1>4. Grow /\ h.op \notin ActionTypes
  BY <1>1, Zenon DEF Grow, ActionTypes
<1>5. Advance /\ \A j \in Jobs :
        /\ job'[j].action = job[j].action \/ Announced(j, job[j].action)'
        /\ job'[j].status = "pending" => job'[j].attempt < MaxAttempts
  BY <1>1, SameJobs, Zenon
<1> QED
  BY <1>0, <1>1, <1>3, <1>4, <1>5, AnswersOther, Zenon

LEMMA CompleteJobInv ==
    ASSUME WorkInv, NEW h \in calls, CompleteJob(h)
    PROVE  WorkInv'
<1> DEFINE j == h.run[1]
           done == [status |-> h.want.status, attempt |-> job[j].attempt,
                    action |-> h.want.action, lead |-> h.want.lead]
<1>0. TypeOK /\ 0 \in 0..MaxLeads /\ job \in [Jobs -> JobType] /\ j \in Jobs
  BY WorkAssumption, CallFields DEF WorkInv, TypeOK
<1>1. /\ h.op = "complete" /\ h.op \notin ActionTypes
      /\ UNCHANGED <<scen, actions, notified, leads, leadResult, paused, recent, worker, gate>>
  BY Zenon DEF CompleteJob, ActionTypes
<1>2. Grow
  BY <1>1, Zenon DEF Grow
<1>3. CASE job' = job /\ calls' = calls \ {h} /\ run' = run
  <2>1. TypeOK'
    BY <1>0, <1>1, <1>3, Zenon DEF TypeOK
  <2> QED
    BY <1>1, <1>2, <1>3, <2>1, CallsMove, Zenon
<1>4. CASE job' = [job EXCEPT ![j] = done] /\ Claimed(h.run) /\ Answers(h, 0)
  <2>1. /\ h.want.status \in {"completed", "ignored"} /\ h.want.lead \in 0..MaxLeads
        /\ h.want.action \in ActionTypes \cup {"none"}
    BY <1>0, <1>1, CallFields, Zenon DEF Asking, Reports
  <2>2. job[j].attempt \in 0..MaxAttempts /\ job[j].attempt \in Nat /\ job[j].status = "processing"
    BY <1>0, <1>4, JobFields, Zenon DEF Claimed
  <2>3. done \in JobType
    BY <2>1, <2>2, Zenon DEF JobType
  <2>4. run' \in [RunIds -> RunType] /\ calls' \subseteq calls
    BY <1>0, <1>4, AnswersRuns, Zenon
  <2>5. job' \in [Jobs -> JobType]
    BY <1>0, <1>4, <2>3, Zenon
  <2>6. TypeOK'
    BY <1>0, <1>1, <2>4, <2>5, Zenon DEF TypeOK
  <2>7. ASSUME NEW k \in Jobs
        PROVE  /\ job'[k].action = job[k].action \/ Announced(k, job[k].action)'
               /\ job'[k].status = "pending" => job'[k].attempt < MaxAttempts
               /\ job'[k].attempt >= job[k].attempt
               /\ Terminal(job[k].status) => job'[k] = job[k]
    <3>1. CASE k # j
      <4>1. job'[k] = job[k] /\ job[k].attempt \in Nat
        BY <1>0, <1>4, <3>1, JobFields, Zenon
      <4>2. JobInv(k)
        BY Zenon DEF WorkInv
      <4> QED
        BY <4>1, <4>2 DEF JobInv
    <3>2. CASE k = j
      <4>1. job'[k] = done
        BY <1>0, <1>4, <3>2, Zenon
      <4>2. Announced(j, h.want.action)'
        <5>1. Announced(j, h.want.action)
          BY <1>1, Zenon DEF WorkInv, CallInv
        <5> QED
          BY <1>0, <1>2, <2>1, <5>1, AnnouncedKept, Zenon
      <4>3. Announced(k, job[k].action)'
        BY <3>2, <4>1, <4>2 DEF Announced, MustNotify
      <4> QED
        BY <2>1, <2>2, <3>2, <4>1, <4>3 DEF Terminal
    <3> QED
      BY <3>1, <3>2, Zenon
  <2>8. Advance
    BY <2>7, Zenon DEF Advance
  <2> QED
    BY <1>0, <1>1, <1>2, <1>4, <2>6, <2>7, <2>8, AnswersOther, Zenon
<1>5. \/ job' = job /\ calls' = calls \ {h} /\ run' = run
      \/ job' = [job EXCEPT ![j] = done] /\ Claimed(h.run) /\ Answers(h, 0)
  BY Zenon DEF CompleteJob, Refuses
<1> QED
  BY <1>3, <1>4, <1>5, Zenon

\* Nobody waits for the answer any more.
LEMMA Unawaited ==
    ASSUME NEW h \in Handlers, NEW b \in BOOLEAN
    PROVE  LET g == [h EXCEPT !.awaited = b] IN
           /\ g \in Handlers
           /\ g.run = h.run /\ g.op = h.op /\ g.stage = h.stage /\ g.want = h.want
  BY Zenon DEF Handlers, Asking

LEMMA ConnectionLostInv ==
    ASSUME WorkInv, NEW h \in calls, ConnectionLost(h)
    PROVE  WorkInv'
<1> DEFINE g == [h EXCEPT !.awaited = FALSE]
<1>0. TypeOK /\ CallInv(h) /\ h \in Handlers
  BY Zenon DEF WorkInv, TypeOK
<1>1. /\ UNCHANGED <<job, actions, notified, leads, leadResult, paused, recent, worker, gate, run>>
      /\ calls' = (calls \ {h}) \cup {g}
  BY Zenon DEF ConnectionLost
<1>2. g \in Handlers /\ g.run = h.run /\ g.op = h.op /\ g.stage = h.stage /\ g.want = h.want
  BY <1>0, Unawaited, Zenon
<1> HIDE DEF g
<1>3. scen' \in ScenarioType
  BY <1>0, FaultType, Zenon DEF ConnectionLost, TypeOK
<1>4. calls' \subseteq Handlers
  BY <1>0, <1>1, <1>2, Zenon DEF TypeOK
<1>5. TypeOK'
  BY <1>0, <1>1, <1>3, <1>4, Zenon DEF TypeOK
<1>6. Grow
  BY <1>1, Zenon DEF Grow
<1>7. CallInv(g)'
  BY <1>0, <1>1, <1>2, Zenon DEF CallInv, Announced, MustNotify
<1> QED
  BY <1>1, <1>5, <1>6, <1>7, CallsMove, Zenon

LEMMA CancelledInv ==
    ASSUME WorkInv, NEW h \in calls, Cancelled(h)
    PROVE  WorkInv'
<1>1. UNCHANGED <<scen, job, actions, notified, leads, leadResult, paused, recent, worker, gate, run>>
      /\ calls' \subseteq calls
  BY Zenon DEF Cancelled
<1>2. TypeOK'
  BY <1>1, Zenon DEF WorkInv, TypeOK
<1>3. Grow
  BY <1>1, Zenon DEF Grow
<1> QED
  BY <1>1, <1>2, <1>3, CallsMove, Zenon

LEMMA HandlerStepInv ==
    ASSUME WorkInv, NEW h \in calls, HandlerStep(h)
    PROVE  WorkInv'
  BY InsertAgentActionInv, NotifyInv, NotifyFailsInv, UnnotifiedInv, SaveLeadInv, BindLeadInv,
     SetPausedInv, CompleteJobInv, ConnectionLostInv, CancelledInv, Zenon DEF HandlerStep
-----------------------------------------------------------------------------
(* The tool calls of a run. *)

LEMMA SentInv ==
    ASSUME WorkInv, NEW r \in RunIds, NEW h \in Handlers, CallInv(h), Sent(r, h)
    PROVE  WorkInv'
<1>0. TypeOK /\ run \in [RunIds -> RunType]
  BY Zenon DEF WorkInv, TypeOK
<1>1. /\ UNCHANGED <<scen, job, actions, notified, leads, leadResult, paused, recent, worker, gate>>
      /\ calls' = calls \cup {h} /\ run' = [run EXCEPT ![r].calls = @ + 1]
  BY Zenon DEF Sent
<1>2. run' \in [RunIds -> RunType]
  BY <1>0, <1>1 DEF RunType
<1>3. TypeOK'
  BY <1>0, <1>1, <1>2, Zenon DEF TypeOK
<1>4. Grow
  BY <1>1, Zenon DEF Grow
<1>5. Advance /\ \A j \in Jobs :
        /\ job'[j].action = job[j].action \/ Announced(j, job[j].action)'
        /\ job'[j].status = "pending" => job'[j].attempt < MaxAttempts
  BY <1>1, SameJobs, Zenon
<1>6. \A s \in RunIds : run'[s].pc = run[s].pc /\ run'[s].w = run[s].w
                         /\ run'[s].action = run[s].action
  BY <1>0, <1>1, Zenon DEF RunType
<1>7. CallInv(h)'
  BY <1>1, Zenon DEF CallInv, Announced, MustNotify
<1> QED
  BY <1>1, <1>3, <1>4, <1>5, <1>6, <1>7, Calm, Zenon

LEMMA ToolCallInv ==
    ASSUME WorkInv, NEW r \in RunIds, ToolCall(r)
    PROVE  WorkInv'
<1>0. TypeOK /\ RunInv(r) /\ MaxLeads \in Nat /\ 0 \in 0..MaxLeads
  BY WorkAssumption DEF WorkInv
<1>1. ASSUME NEW op \in ActionTypes, NEW d \in (ActionStatus \ {"none"}) \cup {"warning"},
             Sent(r, Handler(r, op, "insert", d))
      PROVE  WorkInv'
  <2> DEFINE h == Handler(r, op, "insert", d)
  <2>1. h \in Handlers
    BY Zenon DEF Handlers, Handler, Asking
  <2>2. CallInv(h)
    BY Zenon DEF CallInv, Handler, ActionTypes
  <2> HIDE DEF h
  <2> QED
    BY <1>1, <2>1, <2>2, SentInv, Zenon DEF h
<1>2. CASE ProposeReply(r)
  <2>1. PICK d \in ReplyDecisions : Sent(r, Handler(r, "reply", "insert", d))
    BY <1>2, Zenon DEF ProposeReply
  <2>2. d \in (ActionStatus \ {"none"}) \cup {"warning"} /\ "reply" \in ActionTypes
    BY Zenon DEF ReplyDecisions, ActionStatus, ActionTypes
  <2> QED
    BY <1>1, <2>1, <2>2, Zenon
<1>3. CASE RequestOwnerApproval(r)
  <2>1. PICK d \in OwnerDecisions(r[1], "approval") : Sent(r, Handler(r, "approval", "insert", d))
    BY <1>3, Zenon DEF RequestOwnerApproval
  <2>2. d \in (ActionStatus \ {"none"}) \cup {"warning"} /\ "approval" \in ActionTypes
    BY Zenon DEF OwnerDecisions, ActionStatus, ActionTypes
  <2> QED
    BY <1>1, <2>1, <2>2, Zenon
<1>4. CASE SendOwnerSummary(r)
  <2>1. PICK d \in OwnerDecisions(r[1], "summary") : Sent(r, Handler(r, "summary", "insert", d))
    BY <1>4, Zenon DEF SendOwnerSummary
  <2>2. d \in (ActionStatus \ {"none"}) \cup {"warning"} /\ "summary" \in ActionTypes
    BY Zenon DEF OwnerDecisions, ActionStatus, ActionTypes
  <2> QED
    BY <1>1, <2>1, <2>2, Zenon
<1>5. CASE SaveJobLead(r)
  <2>1. PICK l \in {0} \cup KnownLeads(r[1]) : Sent(r, Handler(r, "lead", "insert", l))
    BY <1>5, Zenon DEF SaveJobLead
  <2>2. Len(leads) \in Nat /\ Len(leads) <= MaxLeads
    BY <1>0 DEF TypeOK
  <2>3. l \in 0..MaxLeads
    BY <1>0, <2>2 DEF KnownLeads
  <2> DEFINE h == Handler(r, "lead", "insert", l)
  <2>4. h \in Handlers
    BY <2>3, Zenon DEF Handlers, Handler, Asking
  <2>5. CallInv(h)
    BY Zenon DEF CallInv, Handler, ActionTypes
  <2> HIDE DEF h
  <2> QED
    BY <2>1, <2>4, <2>5, SentInv, Zenon DEF h
<1>6. CASE PauseAutopilot(r)
  <2> DEFINE h == Handler(r, "pause", "set", 0)
  <2>1. h \in Handlers
    BY Zenon DEF Handlers, Handler, Asking
  <2>2. CallInv(h)
    BY Zenon DEF CallInv, Handler, ActionTypes
  <2>3. Sent(r, h)
    BY <1>6, Zenon DEF PauseAutopilot
  <2> HIDE DEF h
  <2> QED
    BY <2>1, <2>2, <2>3, SentInv, Zenon
<1>7. CASE CompleteAgentJob(r)
  <2>1. PICK want \in Reports : /\ Announced(r[1], want.action)
                                /\ Sent(r, Handler(r, "complete", "set", want))
    <3> DEFINE a == [status |-> "completed", action |-> run[r].action, lead |-> run[r].lead]
               b == [status |-> "ignored", action |-> "none", lead |-> 0]
    <3>1. a \in Reports /\ b \in Reports
      BY <1>0, RunFields, Zenon DEF Reports
    <3>2. Announced(r[1], a.action) /\ Announced(r[1], b.action)
      BY <1>0, Zenon DEF RunInv, Announced
    <3>3. Sent(r, Handler(r, "complete", "set", a)) \/ Sent(r, Handler(r, "complete", "set", b))
      BY <1>7, Zenon DEF CompleteAgentJob
    <3> HIDE DEF a, b
    <3> QED
      BY <3>1, <3>2, <3>3, Zenon
  <2> DEFINE h == Handler(r, "complete", "set", want)
  <2>2. h \in Handlers
    BY Zenon DEF Handlers, Handler, Asking
  <2>3. CallInv(h)
    BY <2>1, Zenon DEF CallInv, Handler, ActionTypes
  <2>4. Sent(r, h)
    BY <2>1, Zenon
  <2> HIDE DEF h
  <2> QED
    BY <2>2, <2>3, <2>4, SentInv, Zenon
<1> QED
  BY <1>2, <1>3, <1>4, <1>5, <1>6, <1>7, Zenon DEF ToolCall
-----------------------------------------------------------------------------
(* The poll loop. *)

LEMMA WorkerFields ==
    ASSUME TypeOK, NEW w \in Workers
    PROVE  /\ worker[w] \in WorkerType /\ worker[w].free \in Nat /\ worker[w].held \in Nat
           /\ worker \in [Workers -> WorkerType]
  BY Zenon DEF TypeOK, WorkerType

\* What the claim of a poll does to the jobs.
LEMMA ClaimsJobs ==
    ASSUME WorkInv, NEW S \in SUBSET Jobs, Claimable(S), Claims(S)
    PROVE  /\ job' \in [Jobs -> JobType] /\ Advance
           /\ \A j \in S : job'[j].attempt = job[j].attempt + 1 /\ job[j].attempt < MaxAttempts
           /\ \A j \in Jobs :
                /\ job'[j].action = job[j].action
                /\ job'[j].status = "pending" => job'[j].attempt < MaxAttempts
<1>0. TypeOK /\ \A j \in Jobs : JobInv(j) /\ job[j] \in JobType
  BY Zenon DEF WorkInv, TypeOK
<1>1. ASSUME NEW j \in S
      PROVE  LET n == job'[j] IN
             /\ n \in JobType /\ n.attempt = job[j].attempt + 1 /\ job[j].attempt < MaxAttempts
             /\ n.action = job[j].action /\ n.status = "processing" /\ ~Terminal(job[j].status)
  <2>1. job[j].status = "pending" /\ job[j].attempt < MaxAttempts /\ job[j].attempt \in Nat
    BY <1>0, JobFields, Zenon DEF Claimable, JobInv
  <2>2. job'[j] = [job[j] EXCEPT !.status = "processing", !.attempt = job[j].attempt + 1]
    BY Zenon DEF Claims
  <2>3. job[j].attempt + 1 \in 0..MaxAttempts
    BY <2>1, WorkAssumption
  <2>4. job[j] \in JobType
    BY <1>0, Zenon
  <2> QED
    BY <2>1, <2>2, <2>3, <2>4, Zenon DEF JobType, Terminal
<1>2. ASSUME NEW j \in Jobs \ S
      PROVE  job'[j] = job[j]
  BY Zenon DEF Claims
<1>3. job' \in [Jobs -> JobType]
  <2>1. \A j \in Jobs : job'[j] \in JobType
    BY <1>0, <1>1, <1>2, Zenon
  <2>2. job' = [j \in Jobs |-> job'[j]]
    BY Zenon DEF Claims
  <2> QED
    BY <2>1, <2>2, Zenon
<1>4. \A j \in Jobs : job[j].attempt \in Nat
  BY <1>0, JobFields, Zenon
<1>5. Advance
  BY <1>1, <1>2, <1>4 DEF Advance
<1> QED
  BY <1>0, <1>1, <1>2, <1>3, <1>5, Zenon DEF JobInv

\* A worker's own step that starts and ends no run.
LEMMA WorkerMoves ==
    ASSUME WorkInv, TypeOK', Advance, NEW w \in Workers, NEW v \in WorkerType,
           worker' = [worker EXCEPT ![w] = v],
           v.free + v.held = worker[w].free + worker[w].held,
           v.pc # "polling" => v.held = 0,
           UNCHANGED <<actions, notified, gate, run, calls>>,
           \A j \in Jobs :
             /\ job'[j].action = job[j].action
             /\ job'[j].status = "pending" => job'[j].attempt < MaxAttempts
    PROVE  WorkInv'
<1>1. Grow
  BY Zenon DEF Grow
<1>2. worker \in [Workers -> WorkerType]
  BY WorkerFields, Zenon DEF WorkInv
<1>3. \A u \in Workers :
        \/ worker'[u] = worker[u]
        \/ /\ worker'[u].free + worker'[u].held = worker[u].free + worker[u].held
           /\ worker'[u].pc # "polling" => worker'[u].held = 0
  BY <1>2, Zenon
<1> QED
  BY <1>1, <1>3, Calm, Zenon

LEMMA TakeSlotsInv ==
    ASSUME WorkInv, NEW w \in Workers, TakeSlots(w)
    PROVE  WorkInv'
<1>0. TypeOK
  BY Zenon DEF WorkInv
<1>1. PICK n \in Nat : n = worker[w].free
  BY <1>0, WorkerFields, Zenon
<1> DEFINE v == [pc |-> "polling", free |-> 0, held |-> n]
<1>2. /\ worker' = [worker EXCEPT ![w] = v]
      /\ UNCHANGED <<scen, job, actions, notified, leads, leadResult, paused, recent, gate, run, calls>>
  BY <1>1, Zenon DEF TakeSlots
<1>3. v \in WorkerType
  BY Zenon DEF WorkerType
<1>4. v.free + v.held = worker[w].free + worker[w].held
  <2>1. worker[w].held = 0
    BY Zenon DEF WorkInv, HeldForPoll, TakeSlots
  <2> QED
    BY <1>1, <2>1
<1>5. worker' \in [Workers -> WorkerType]
  BY <1>0, <1>2, <1>3, Zenon DEF TypeOK
<1>6. TypeOK'
  BY <1>0, <1>2, <1>5, Zenon DEF TypeOK
<1> QED
  BY <1>2, <1>3, <1>4, <1>6, SameJobs, WorkerMoves, Zenon

LEMMA PollFailsInv ==
    ASSUME WorkInv, NEW w \in Workers, PollFails(w)
    PROVE  WorkInv'
<1>0. TypeOK
  BY Zenon DEF WorkInv
<1>1. PICK S \in SUBSET scen.jobs : Claimable(S) /\ Claims(S)
  BY Zenon DEF PollFails
<1>2. PICK n \in Nat : n = worker[w].free + worker[w].held
  BY <1>0, WorkerFields
<1> DEFINE v == [pc |-> "ready", held |-> 0, free |-> n]
<1>3. /\ worker' = [worker EXCEPT ![w] = v] /\ Outage
      /\ UNCHANGED <<actions, notified, leads, leadResult, paused, recent, gate, run, calls>>
  BY <1>2, Zenon DEF PollFails
<1>4. v \in WorkerType
  BY Zenon DEF WorkerType
<1>5. S \in SUBSET Jobs
  BY <1>0, Zenon DEF TypeOK, ScenarioType
<1>6. /\ job' \in [Jobs -> JobType] /\ Advance
      /\ \A j \in Jobs :
           /\ job'[j].action = job[j].action
           /\ job'[j].status = "pending" => job'[j].attempt < MaxAttempts
  BY <1>1, <1>5, ClaimsJobs, Zenon
<1>7. worker' \in [Workers -> WorkerType] /\ scen' \in ScenarioType
  BY <1>0, <1>3, <1>4, FaultType, Zenon DEF TypeOK
<1>8. TypeOK'
  BY <1>0, <1>3, <1>6, <1>7, Zenon DEF TypeOK
<1>9. v.free + v.held = worker[w].free + worker[w].held
  BY <1>2
<1> QED
  BY <1>3, <1>4, <1>6, <1>8, <1>9, WorkerMoves, Zenon

LEMMA PollDeniedInv ==
    ASSUME WorkInv, NEW w \in Workers, PollDenied(w)
    PROVE  WorkInv'
<1>0. TypeOK
  BY Zenon DEF WorkInv
<1>1. PICK n \in Nat : n = worker[w].free + worker[w].held
  BY <1>0, WorkerFields
<1> DEFINE v == [pc |-> "draining", held |-> 0, free |-> n]
<1>2. /\ worker' = [worker EXCEPT ![w] = v] /\ Outage
      /\ UNCHANGED <<job, actions, notified, leads, leadResult, paused, recent, gate, run, calls>>
  BY <1>1, Zenon DEF PollDenied
<1>3. v \in WorkerType
  BY Zenon DEF WorkerType
<1>4. worker' \in [Workers -> WorkerType] /\ scen' \in ScenarioType
  BY <1>0, <1>2, <1>3, FaultType, Zenon DEF TypeOK
<1>5. TypeOK'
  BY <1>0, <1>2, <1>4, Zenon DEF TypeOK
<1>6. v.free + v.held = worker[w].free + worker[w].held
  BY <1>1
<1> QED
  BY <1>2, <1>3, <1>5, <1>6, SameJobs, WorkerMoves, Zenon

LEMMA DrainedInv ==
    ASSUME WorkInv, NEW w \in Workers, Drained(w)
    PROVE  WorkInv'
<1>0. TypeOK
  BY Zenon DEF WorkInv
<1>1. /\ worker[w].pc = "draining" /\ worker' = [worker EXCEPT ![w].pc = "stopped"]
      /\ UNCHANGED <<scen, job, actions, notified, leads, leadResult, paused, recent, gate, run, calls>>
  BY Zenon DEF Drained
<1>2. worker[w].held = 0 /\ worker[w] \in WorkerType
  BY <1>0, <1>1, WorkerFields, Zenon DEF WorkInv, HeldForPoll
<1>3. PICK v \in WorkerType : v = [worker[w] EXCEPT !.pc = "stopped"]
  BY <1>2, Zenon DEF WorkerType
<1>4. v.free = worker[w].free /\ v.held = worker[w].held
  BY <1>2, <1>3, Zenon DEF WorkerType
<1>5. worker' = [worker EXCEPT ![w] = v]
  BY <1>1, <1>3, Zenon
<1>6. worker' \in [Workers -> WorkerType]
  BY <1>0, <1>5, Zenon DEF TypeOK
<1>7. TypeOK'
  BY <1>0, <1>1, <1>6, Zenon DEF TypeOK
<1> QED
  BY <1>1, <1>2, <1>4, <1>5, <1>7, SameJobs, WorkerMoves, Zenon
-----------------------------------------------------------------------------
(* The queue, the owner and the clock. *)

LEMMA ReclaimExpiredInv ==
    ASSUME WorkInv, NEW j \in Jobs, ReclaimExpired(j)
    PROVE  WorkInv'
<1>0. TypeOK /\ job[j] \in JobType
  BY Zenon DEF WorkInv, TypeOK
<1> DEFINE s == IF job[j].attempt >= MaxAttempts THEN "dead_letter" ELSE "pending"
<1>1. /\ job[j].status = "processing" /\ job' = [job EXCEPT ![j].status = s]
      /\ UNCHANGED <<scen, actions, notified, leads, leadResult, paused, recent, worker, gate,
                     run, calls>>
  BY Zenon DEF ReclaimExpired
<1>2. s \in {"dead_letter", "pending"} /\ (s = "pending" => job[j].attempt < MaxAttempts)
  BY <1>0, JobFields, WorkAssumption
<1> HIDE DEF s
<1>3. job' \in [Jobs -> JobType]
  BY <1>0, <1>1, <1>2, Zenon DEF TypeOK, JobType
<1>4. TypeOK'
  BY <1>0, <1>1, <1>3, Zenon DEF TypeOK
<1>5. ASSUME NEW k \in Jobs
      PROVE  /\ job'[k].action = job[k].action
             /\ job'[k].status = "pending" => job'[k].attempt < MaxAttempts
             /\ job'[k].attempt >= job[k].attempt
             /\ Terminal(job[k].status) => job'[k] = job[k]
  <2>0. job[k].attempt \in Nat /\ JobInv(k)
    BY <1>0, JobFields, Zenon DEF WorkInv
  <2>1. CASE k = j
    <3>1. /\ job'[k].action = job[k].action /\ job'[k].status = s
          /\ job'[k].attempt = job[k].attempt
      BY <1>0, <1>1, <2>1, Zenon DEF TypeOK, JobType
    <3> QED
      BY <1>1, <1>2, <2>0, <2>1, <3>1 DEF Terminal
  <2>2. CASE k # j
    BY <1>0, <1>1, <2>0, <2>2 DEF TypeOK, JobInv
  <2> QED
    BY <2>1, <2>2, Zenon
<1>6. Advance /\ Grow
  BY <1>1, <1>5, Zenon DEF Advance, Grow
<1> QED
  BY <1>1, <1>4, <1>5, <1>6, Calm, Zenon

LEMMA OwnerInv ==
    ASSUME WorkInv, OwnerSetsPause \/ WindowPasses
    PROVE  WorkInv'
<1>0. TypeOK
  BY Zenon DEF WorkInv
<1>1. /\ UNCHANGED <<scen, job, actions, notified, leads, leadResult, worker, gate, run, calls>>
      /\ recent' \subseteq recent /\ paused' \in BOOLEAN
  BY <1>0, Zenon DEF OwnerSetsPause, WindowPasses, TypeOK
<1>2. TypeOK'
  BY <1>0, <1>1, Zenon DEF TypeOK
<1>3. Grow
  BY <1>1, Zenon DEF Grow
<1> QED
  BY <1>1, <1>2, <1>3, CallsMove, Zenon
-----------------------------------------------------------------------------
(* Runs that start and end. *)

LEMMA BlankRun ==
    /\ NoRun \in RunType /\ NoRun.pc = "none" /\ NoRun.w = None /\ NoRun.action = "none"
<1>1. 0 \in 0..MaxLeads
  BY WorkAssumption
<1> QED
  BY <1>1, Zenon DEF NoRun, RunType

LEMMA EndedRun ==
    ASSUME NEW pc \in {"done", "failed"}
    PROVE  Ended(pc) \in RunType /\ Ended(pc).pc = pc /\ Ended(pc).w = None
           /\ Ended(pc).action = "none"
  BY BlankRun, Zenon DEF Ended, RunType

LEMMA StartedRun ==
    ASSUME NEW w \in Workers
    PROVE  NewRun(w) \in RunType /\ NewRun(w).pc = "waiting" /\ NewRun(w).w = w
           /\ NewRun(w).action = "none"
  BY BlankRun, Zenon DEF NewRun, RunType

LEMMA EnterInv ==
    ASSUME WorkInv, NEW r \in RunIds, Enter(r)
    PROVE  WorkInv'
<1>0. TypeOK /\ RunInv(r) /\ run \in [RunIds -> RunType]
      /\ gate \in [Workers -> SUBSET {Conv[j] : j \in Jobs}]
  BY Zenon DEF WorkInv, TypeOK
<1> DEFINE w == run[r].w
           c == Conv[r[1]]
<1>1. /\ run[r].pc = "waiting" /\ c \notin gate[w]
      /\ gate' = [gate EXCEPT ![w] = @ \cup {c}] /\ run' = [run EXCEPT ![r].pc = "running"]
      /\ UNCHANGED <<scen, job, actions, notified, leads, leadResult, paused, recent, worker, calls>>
  BY Zenon DEF Enter
<1>2. w \in Workers /\ r[1] \in Jobs
  BY <1>0, <1>1, RunFields, Zenon DEF RunInv, Live
<1>3. ASSUME NEW s \in RunIds
      PROVE  /\ run'[s] \in RunType /\ run'[s].w = run[s].w /\ run'[s].action = run[s].action
             /\ run'[s].pc = IF s = r THEN "running" ELSE run[s].pc
  BY <1>0, <1>1, Zenon DEF RunType
<1>4. run' \in [RunIds -> RunType] /\ gate' \in [Workers -> SUBSET {Conv[j] : j \in Jobs}]
  BY <1>0, <1>1, <1>2 DEF RunType
<1>5. TypeOK'
  BY <1>0, <1>1, <1>4, Zenon DEF TypeOK
<1>6. Grow /\ Advance
  BY <1>1, SameJobs, Zenon DEF Grow
<1>7. \A u \in Workers : gate[u] \subseteq gate'[u]
  BY <1>0, <1>1, Zenon
<1>8. c \in gate'[w]
  BY <1>0, <1>1, <1>2, Zenon
<1>9. ASSUME NEW s \in RunIds PROVE RunInv(s)'
  <2>0. RunInv(s)
    BY Zenon DEF WorkInv
  <2>1. CASE s = r
    <3>1. Announced(r[1], run[r].action)'
      BY <1>0, <1>1, <1>3 DEF RunInv, Announced, MustNotify
    <3>2. ~(r[2] > job'[r[1]].attempt)
      BY <1>0, <1>1, Zenon DEF RunInv
    <3> QED
      BY <1>2, <1>3, <1>8, <2>1, <3>1, <3>2, Zenon DEF RunInv, Live
  <2>2. CASE s # r
    <3>1. run'[s].pc = run[s].pc /\ run'[s].w = run[s].w /\ run'[s].action = run[s].action
      BY <1>3, <2>2, Zenon
    <3>2. run[s].pc = "running" => run[s].w \in Workers
      BY <2>0, Zenon DEF RunInv, Live
    <3>3. run[s].pc = "running" => Conv[s[1]] \in gate'[run[s].w]
      BY <1>7, <2>0, <3>2, Zenon DEF RunInv
    <3> QED
      BY <1>0, <1>5, <1>6, <2>0, <3>1, <3>3, RunKept, Zenon
  <2> QED
    BY <2>1, <2>2, Zenon
<1>10. \A j \in Jobs : JobInv(j)'
  BY <1>1, Zenon DEF WorkInv, JobInv, Announced, MustNotify
<1>11. \A h \in calls' : CallInv(h)'
  BY <1>1, Zenon DEF WorkInv, CallInv, Announced, MustNotify
<1>12. OneRunPerConversation'
  <2> SUFFICES ASSUME NEW p \in RunIds, NEW q \in RunIds, p # q, run'[p].pc = "running",
                      run'[q].pc = "running", run'[p].w = run'[q].w
               PROVE  Conv[p[1]] # Conv[q[1]]
    BY Zenon DEF OneRunPerConversation
  <2>1. RunInv(p) /\ RunInv(q) /\ OneRunPerConversation
    BY Zenon DEF WorkInv
  <2>2. run[p].w = run[q].w
    BY <1>3, Zenon
  <2>3. CASE p = r
    BY <1>1, <1>3, <2>1, <2>2, <2>3, Zenon DEF RunInv
  <2>4. CASE q = r
    BY <1>1, <1>3, <2>1, <2>2, <2>4, Zenon DEF RunInv
  <2>5. CASE p # r /\ q # r
    BY <1>3, <2>1, <2>2, <2>5 DEF OneRunPerConversation
  <2> QED
    BY <2>3, <2>4, <2>5, Zenon
<1>13. SlotsAddUp' /\ HeldForPoll'
  <2>1. \A u : {s \in RunIds : run'[s].w = u} = {s \in RunIds : run[s].w = u}
    BY <1>3, Zenon
  <2> QED
    BY <1>1, <2>1, Zenon DEF WorkInv, SlotsAddUp, HeldForPoll
<1> QED
  BY <1>5, <1>9, <1>10, <1>11, <1>12, <1>13, Zenon DEF WorkInv

\* Abandoned requests go on as they are.
LEMMA AbandonedCalls ==
    ASSUME WorkInv, NEW R, calls' = Abandoned(R), UNCHANGED <<actions, notified>>
    PROVE  calls' \subseteq Handlers /\ \A g \in calls' : CallInv(g)'
<1> SUFFICES ASSUME NEW g \in calls' PROVE g \in Handlers /\ CallInv(g)'
  OBVIOUS
<1>1. PICK h \in calls : g = [h EXCEPT !.awaited = h.awaited /\ h.run \notin R]
  BY Zenon DEF Abandoned
<1>2. h \in Handlers /\ CallInv(h) /\ h.awaited \in BOOLEAN
  BY CallFields, Zenon DEF WorkInv, TypeOK
<1>3. (h.awaited /\ h.run \notin R) \in BOOLEAN
  OBVIOUS
<1>4. g \in Handlers /\ g.run = h.run /\ g.op = h.op /\ g.stage = h.stage /\ g.want = h.want
  BY <1>1, <1>2, <1>3, Unawaited
<1> QED
  BY <1>2, <1>4, Zenon DEF CallInv, Announced, MustNotify
-----------------------------------------------------------------------------
\* From here on the slots of a worker and its runs are counted.
INSTANCE FiniteSetTheorems

LEMMA RunsFinite == IsFiniteSet(RunIds) /\ \A w : IsFiniteSet(Own(w)) /\ Cardinality(Own(w)) \in Nat
<1>1. IsFiniteSet(RunIds)
  <2>1. IsFiniteSet(Jobs) /\ IsFiniteSet(1..MaxAttempts)
    BY WorkAssumption, FS_Interval
  <2> QED
    BY <2>1, FS_Product, Zenon DEF RunIds
<1>2. ASSUME NEW w PROVE IsFiniteSet(Own(w))
  BY <1>1, FS_Subset, Zenon DEF Own
<1> QED
  BY <1>1, <1>2, FS_CardinalityType, Zenon

LEMMA LeaveInv ==
    ASSUME WorkInv, NEW r \in RunIds, NEW pc \in {"done", "failed"}, run[r].pc = "running",
           pc = "done" => Verified(r), Leave(r, pc),
           UNCHANGED <<scen, job, actions, notified, leads, leadResult, paused, recent>>,
           calls' \subseteq Handlers, \A h \in calls' : CallInv(h)'
    PROVE  WorkInv'
<1>0. TypeOK /\ RunInv(r) /\ run \in [RunIds -> RunType] /\ None \notin Workers
      /\ gate \in [Workers -> SUBSET {Conv[j] : j \in Jobs}] /\ worker \in [Workers -> WorkerType]
  BY WorkAssumption, Zenon DEF WorkInv, TypeOK
<1>1. PICK w \in Workers : w = run[r].w
  BY <1>0, Zenon DEF RunInv, Live
<1> DEFINE c == Conv[r[1]]
<1>2. /\ gate' = [gate EXCEPT ![w] = @ \ {c}] /\ worker' = [worker EXCEPT ![w].free = @ + 1]
      /\ run' = [run EXCEPT ![r] = Ended(pc)]
  BY <1>1, Zenon DEF Leave
<1>3. Ended(pc) \in RunType /\ Ended(pc).pc = pc /\ Ended(pc).w = None /\ Ended(pc).action = "none"
  BY EndedRun, Zenon
<1>4. /\ run' \in [RunIds -> RunType] /\ worker' \in [Workers -> WorkerType]
      /\ gate' \in [Workers -> SUBSET {Conv[j] : j \in Jobs}]
  <2>1. run' \in [RunIds -> RunType]
    BY <1>0, <1>2, <1>3, Zenon
  <2>2. worker' \in [Workers -> WorkerType]
    BY <1>0, <1>2 DEF WorkerType
  <2>3. gate' \in [Workers -> SUBSET {Conv[j] : j \in Jobs}]
    BY <1>0, <1>2, Zenon
  <2> QED
    BY <2>1, <2>2, <2>3, Zenon
<1>5. TypeOK'
  BY <1>0, <1>4, Zenon DEF TypeOK
<1>6. Grow /\ Advance
  BY SameJobs, Zenon DEF Grow
<1>7. ASSUME NEW s \in RunIds, s # r PROVE run'[s] = run[s]
  BY <1>0, <1>2, <1>7, Zenon
<1>8. run'[r] = Ended(pc)
  BY <1>0, <1>2, Zenon
<1>9. ASSUME NEW s \in RunIds PROVE RunInv(s)'
  <2>0. RunInv(s) /\ OneRunPerConversation
    BY Zenon DEF WorkInv
  <2>1. CASE s = r
    <3>1. ~(r[2] > job'[r[1]].attempt)
      BY <1>0, Zenon DEF RunInv
    <3>2. Announced(r[1], run[r].action)' /\ ~Live(r)'
      BY <1>3, <1>8, Zenon DEF Announced, Live
    <3>3. pc = "done" => Verified(r)'
      BY Zenon DEF Verified
    <3> QED
      BY <1>3, <1>8, <2>1, <3>1, <3>2, <3>3 DEF RunInv
  <2>2. CASE s # r
    <3>1. run[s].pc = "running" => Conv[s[1]] \in gate'[run[s].w]
      <4> SUFFICES ASSUME run[s].pc = "running" PROVE Conv[s[1]] \in gate'[run[s].w]
        OBVIOUS
      <4>1. run[s].w \in Workers /\ Conv[s[1]] \in gate[run[s].w]
        BY <2>0, Zenon DEF RunInv, Live
      <4>2. run[s].w = w => Conv[s[1]] # c
        BY <1>1, <2>0, <2>2, Zenon DEF OneRunPerConversation
      <4> HIDE DEF c
      <4> QED
        BY <1>0, <1>2, <4>1, <4>2
    <3> QED
      BY <1>0, <1>5, <1>6, <1>7, <2>0, <2>2, <3>1, RunKept
  <2> QED
    BY <2>1, <2>2, Zenon
<1>10. \A j \in Jobs : JobInv(j)'
  BY Zenon DEF WorkInv, JobInv, Announced, MustNotify
<1>11. OneRunPerConversation'
  <2>1. \A s \in RunIds : run'[s].pc = "running" => s # r
    BY <1>3, <1>8, Zenon
  <2>2. OneRunPerConversation
    BY Zenon DEF WorkInv
  <2> QED
    BY <1>7, <2>1, <2>2 DEF OneRunPerConversation
<1>12. ASSUME NEW u \in Workers
       PROVE  worker'[u].free + worker'[u].held + Cardinality({s \in RunIds : run'[s].w = u}) = Slots
  <2> DEFINE A == {s \in RunIds : run[s].w = u}
             B == {s \in RunIds : run'[s].w = u}
  <2>1. worker[u].free + worker[u].held + Cardinality(A) = Slots
    BY Zenon DEF WorkInv, SlotsAddUp
  <2>2. worker[u].free \in Nat /\ worker[u].held \in Nat
    BY <1>0, WorkerFields, Zenon
  <2>3. IsFiniteSet(A) /\ Cardinality(A) \in Nat
    BY RunsFinite, Zenon DEF Own
  <2>4. CASE u = w
    <3>1. B = A \ {r} /\ r \in A
      BY <1>0, <1>1, <1>3, <1>7, <1>8, <2>4
    <3>2. worker'[u].free = worker[u].free + 1 /\ worker'[u].held = worker[u].held
      BY <1>0, <1>2, <2>4, Zenon DEF WorkerType
    <3> HIDE DEF A, B
    <3>3. Cardinality(B) = Cardinality(A) - 1
      BY <2>3, <3>1, FS_RemoveElement, Zenon
    <3> QED
      BY <2>1, <2>2, <2>3, <3>2, <3>3 DEF B
  <2>5. CASE u # w
    <3>1. B = A
      BY <1>0, <1>1, <1>3, <1>7, <1>8, <2>5
    <3>2. worker'[u] = worker[u]
      BY <1>0, <1>2, <2>5
    <3> QED
      BY <2>1, <3>1, <3>2, Zenon
  <2> QED
    BY <2>4, <2>5, Zenon
<1>13. HeldForPoll'
  <2>1. \A u \in Workers : worker'[u].pc = worker[u].pc /\ worker'[u].held = worker[u].held
    BY <1>0, <1>2, Zenon DEF WorkerType
  <2> QED
    BY <2>1, Zenon DEF WorkInv, HeldForPoll
<1>14. SlotsAddUp'
  BY <1>12, Zenon DEF SlotsAddUp
<1> QED
  BY <1>5, <1>9, <1>10, <1>11, <1>13, <1>14 DEF WorkInv

LEMMA RunFailsInv ==
    ASSUME WorkInv, NEW r \in RunIds, RunFails(r)
    PROVE  WorkInv'
<1>1. /\ run[r].pc = "running" /\ calls' = Abandoned({r}) /\ Leave(r, "failed")
      /\ UNCHANGED <<scen, job, actions, notified, leads, leadResult, paused, recent>>
  BY Zenon DEF RunFails
<1>2. calls' \subseteq Handlers /\ \A g \in calls' : CallInv(g)'
  BY <1>1, AbandonedCalls, Zenon
<1> QED
  BY <1>1, <1>2, LeaveInv

LEMMA FinishRunInv ==
    ASSUME WorkInv, NEW r \in RunIds, FinishRun(r)
    PROVE  WorkInv'
<1>1. /\ run[r].pc = "running"
      /\ UNCHANGED <<scen, job, actions, notified, leads, leadResult, paused, recent, calls>>
  BY Zenon DEF FinishRun
<1>2. PICK pc \in {"done", "failed"} : Leave(r, pc) /\ (pc = "done" => Verified(r))
  <2>1. CASE Verified(r)
    BY <2>1, Zenon DEF FinishRun
  <2>2. CASE ~Verified(r)
    BY <2>2, Zenon DEF FinishRun
  <2> QED
    BY <2>1, <2>2, Zenon
<1>3. calls' \subseteq Handlers
  BY <1>1, Zenon DEF WorkInv, TypeOK
<1>4. \A h \in calls' : CallInv(h)'
  BY <1>1, Zenon DEF WorkInv, CallInv, Announced, MustNotify
<1> QED
  BY <1>1, <1>2, <1>3, <1>4, LeaveInv

LEMMA CrashInv ==
    ASSUME WorkInv, NEW w \in Workers, Crash(w)
    PROVE  WorkInv'
<1>0. TypeOK /\ run \in [RunIds -> RunType] /\ None \notin Workers /\ Slots \in Nat
      /\ gate \in [Workers -> SUBSET {Conv[j] : j \in Jobs}] /\ worker \in [Workers -> WorkerType]
  BY WorkAssumption, Zenon DEF WorkInv, TypeOK
<1> DEFINE e == Ended("failed")
           v == [pc |-> "ready", free |-> Slots, held |-> 0]
<1>1. /\ Outage /\ worker' = [worker EXCEPT ![w] = v] /\ gate' = [gate EXCEPT ![w] = {}]
      /\ run' = [r \in RunIds |-> IF run[r].w = w THEN e ELSE run[r]]
      /\ calls' = Abandoned({r \in RunIds : run[r].w = w})
      /\ UNCHANGED <<job, actions, notified, leads, leadResult, paused, recent>>
  BY Zenon DEF Crash
<1>2. e \in RunType /\ e.pc = "failed" /\ e.w = None /\ e.action = "none"
  BY EndedRun, Zenon
<1>3. v \in WorkerType /\ v.free = Slots /\ v.held = 0
  BY <1>0, Zenon DEF WorkerType
<1> HIDE DEF e, v
<1>4. ASSUME NEW s \in RunIds
      PROVE  /\ run[s].w = w => run'[s] = e
             /\ run[s].w # w => run'[s] = run[s]
  BY <1>1, Zenon
<1>5. calls' \subseteq Handlers /\ \A g \in calls' : CallInv(g)'
  BY <1>1, AbandonedCalls, Zenon
<1>6. TypeOK'
  <2>1. run' \in [RunIds -> RunType]
    BY <1>0, <1>1, <1>2, Zenon
  <2>2. worker' \in [Workers -> WorkerType]
    BY <1>0, <1>1, <1>3, Zenon
  <2>3. gate' \in [Workers -> SUBSET {Conv[j] : j \in Jobs}]
    BY <1>0, <1>1, Zenon
  <2>4. scen' \in ScenarioType
    BY <1>0, <1>1, FaultType DEF TypeOK
  <2> QED
    BY <1>0, <1>1, <1>5, <2>1, <2>2, <2>3, <2>4 DEF TypeOK
<1>7. Grow /\ Advance
  BY <1>1, SameJobs, Zenon DEF Grow
<1>8. ASSUME NEW s \in RunIds PROVE RunInv(s)'
  <2>0. RunInv(s)
    BY Zenon DEF WorkInv
  <2>1. CASE run[s].w = w
    <3>1. ~(s[2] > job'[s[1]].attempt)
      BY <1>0, <1>1, <2>0, <2>1 DEF RunInv, Live
    <3>2. Announced(s[1], run[s].action)' /\ ~Live(s)'
      BY <1>2, <1>4, <2>1, Zenon DEF Announced, Live
    <3> QED
      BY <1>2, <1>4, <2>1, <3>1, <3>2 DEF RunInv
  <2>2. CASE run[s].w # w
    <3>1. run[s].pc = "running" => Conv[s[1]] \in gate'[run[s].w]
      <4>1. run[s].pc = "running" => run[s].w \in Workers /\ Conv[s[1]] \in gate[run[s].w]
        BY <2>0, Zenon DEF RunInv, Live
      <4> QED
        BY <1>0, <1>1, <2>2, <4>1, Zenon
    <3> QED
      BY <1>0, <1>4, <1>6, <1>7, <2>0, <2>2, <3>1, RunKept
  <2> QED
    BY <2>1, <2>2, Zenon
<1>9. \A j \in Jobs : JobInv(j)'
  BY <1>1, Zenon DEF WorkInv, JobInv, Announced, MustNotify
<1>10. OneRunPerConversation'
  <2>1. \A s \in RunIds : run'[s].pc = "running" => run'[s] = run[s]
    BY <1>2, <1>4, Zenon
  <2> QED
    BY <2>1 DEF WorkInv, OneRunPerConversation
<1>11. ASSUME NEW u \in Workers
       PROVE  worker'[u].free + worker'[u].held + Cardinality({s \in RunIds : run'[s].w = u}) = Slots
  <2>1. CASE u = w
    <3>1. {s \in RunIds : run'[s].w = u} = {}
      BY <1>0, <1>2, <1>4, <2>1, Zenon
    <3>2. worker'[u].free = Slots /\ worker'[u].held = 0
      BY <1>0, <1>1, <1>3, <2>1
    <3>3. Cardinality({s \in RunIds : run'[s].w = u}) = 0
      BY <3>1, FS_EmptySet, Zenon
    <3> QED
      BY <1>0, <3>2, <3>3
  <2>2. CASE u # w
    <3>1. {s \in RunIds : run'[s].w = u} = {s \in RunIds : run[s].w = u}
      BY <1>0, <1>2, <1>4, <2>2
    <3>2. worker'[u] = worker[u]
      BY <1>0, <1>1, <2>2
    <3> QED
      BY <3>1, <3>2, Zenon DEF WorkInv, SlotsAddUp
  <2> QED
    BY <2>1, <2>2, Zenon
<1>12. HeldForPoll'
  BY <1>0, <1>1, <1>3, Zenon DEF WorkInv, HeldForPoll
<1>13. SlotsAddUp'
  BY <1>11, Zenon DEF SlotsAddUp
<1> QED
  BY <1>5, <1>6, <1>8, <1>9, <1>10, <1>12, <1>13 DEF WorkInv

LEMMA PollEventsInv ==
    ASSUME WorkInv, NEW w \in Workers, PollEvents(w)
    PROVE  WorkInv'
<1>0. TypeOK /\ run \in [RunIds -> RunType] /\ None \notin Workers
      /\ worker \in [Workers -> WorkerType]
  BY WorkAssumption, Zenon DEF WorkInv, TypeOK
<1>1. PICK S \in SUBSET scen.jobs :
        /\ Cardinality(S) <= worker[w].held /\ Claimable(S) /\ Claims(S)
        /\ run' = [r \in RunIds |-> IF r[1] \in S /\ r[2] = job'[r[1]].attempt
                                    THEN NewRun(w) ELSE run[r]]
        /\ worker' = [worker EXCEPT ![w] = [pc |-> "ready", held |-> 0,
                                            free |-> @.free + @.held - Cardinality(S)]]
        /\ UNCHANGED <<scen, actions, notified, leads, leadResult, paused, recent, gate, calls>>
  BY Zenon DEF PollEvents
<1>2. S \in SUBSET Jobs /\ IsFiniteSet(S) /\ Cardinality(S) \in Nat
  <2>1. S \in SUBSET Jobs
    BY <1>0, Zenon DEF TypeOK, ScenarioType
  <2> QED
    BY <2>1, WorkAssumption, FS_Subset, FS_CardinalityType
<1>3. /\ job' \in [Jobs -> JobType] /\ Advance
      /\ \A j \in S : job'[j].attempt = job[j].attempt + 1 /\ job[j].attempt < MaxAttempts
      /\ \A j \in Jobs :
           /\ job'[j].action = job[j].action
           /\ job'[j].status = "pending" => job'[j].attempt < MaxAttempts
  BY <1>1, <1>2, ClaimsJobs, Zenon
<1> DEFINE N == {r \in RunIds : r[1] \in S /\ r[2] = job[r[1]].attempt + 1}
           n == NewRun(w)
<1>4. n \in RunType /\ n.pc = "waiting" /\ n.w = w /\ n.action = "none"
  BY StartedRun, Zenon
<1> HIDE DEF n
<1>5. ASSUME NEW s \in RunIds
      PROVE  /\ s \in N => run'[s] = n
             /\ s \notin N => run'[s] = run[s]
  BY <1>1, <1>3, Zenon DEF n
<1>6. ASSUME NEW s \in N
      PROVE  run[s].w = None /\ run[s].pc = "none"
  <2>1. s \in RunIds /\ RunInv(s)
    BY Zenon DEF WorkInv
  <2>2. s[2] > job[s[1]].attempt
    BY <1>0, <2>1, RunFields, JobFields
  <2> QED
    BY <2>1, <2>2, Zenon DEF RunInv, Live
<1>7. PICK k \in Nat : k = worker[w].free + worker[w].held - Cardinality(S)
  <2>1. worker[w].free \in Nat /\ worker[w].held \in Nat
    BY <1>0, WorkerFields, Zenon
  <2>2. Cardinality(S) \in Nat /\ Cardinality(S) <= worker[w].held
    BY <1>1, <1>2, Zenon
  <2>3. worker[w].free + worker[w].held - Cardinality(S) \in Nat
    BY <2>1, <2>2
  <2> QED
    BY <2>3, Zenon
<1> DEFINE v == [pc |-> "ready", held |-> 0, free |-> k]
<1>8. worker' = [worker EXCEPT ![w] = v]
  BY <1>1, <1>7, Zenon
<1>9. v \in WorkerType /\ v.free = k /\ v.held = 0
  BY Zenon DEF WorkerType
<1> HIDE DEF N, v
<1>10. TypeOK'
  <2>1. run' \in [RunIds -> RunType]
    <3>1. \A s \in RunIds : run'[s] \in RunType
      BY <1>0, <1>4, <1>5, Zenon
    <3>2. run' = [s \in RunIds |-> run'[s]]
      BY <1>1, Zenon
    <3> QED
      BY <3>1, <3>2, Zenon
  <2>2. worker' \in [Workers -> WorkerType]
    BY <1>0, <1>8, <1>9, Zenon
  <2> QED
    BY <1>0, <1>1, <1>3, <2>1, <2>2 DEF TypeOK
<1>11. Grow
  BY <1>1, Zenon DEF Grow
<1>12. ASSUME NEW s \in RunIds PROVE RunInv(s)'
  <2>0. RunInv(s)
    BY Zenon DEF WorkInv
  <2>1. CASE s \in N
    <3>1. job'[s[1]].attempt = s[2] /\ s[2] \in Nat
      BY <1>0, <1>3, <2>1, RunFields, Zenon DEF N
    <3>2. run'[s].w = w /\ run'[s].pc = "waiting" /\ run'[s].action = "none"
      BY <1>4, <1>5, <2>1, Zenon
    <3>3. Announced(s[1], run[s].action)'
      BY <3>2, Zenon DEF Announced
    <3>4. Live(s)'
      BY <3>2, Zenon DEF Live
    <3> QED
      BY <1>0, <3>1, <3>2, <3>3, <3>4 DEF RunInv
  <2>2. CASE s \notin N
    <3>1. run[s].pc = "running" => Conv[s[1]] \in gate'[run[s].w]
      BY <1>1, <2>0, Zenon DEF RunInv
    <3>2. run'[s] = run[s] /\ TypeOK'
      BY <1>5, <1>10, <2>2
    <3> QED
      BY <1>0, <1>3, <1>11, <2>0, <3>1, <3>2, RunKept
  <2> QED
    BY <2>1, <2>2, Zenon
<1>13. \A j \in Jobs : JobInv(j)'
  BY <1>0, <1>3, <1>11, JobKept DEF WorkInv
<1>14. \A h \in calls' : CallInv(h)'
  BY <1>1, Zenon DEF WorkInv, CallInv, Announced, MustNotify
<1>15. OneRunPerConversation'
  <2>1. \A s \in RunIds : run'[s].pc = "running" => run'[s] = run[s]
    BY <1>4, <1>5, Zenon
  <2> QED
    BY <2>1 DEF WorkInv, OneRunPerConversation
<1>16. IsFiniteSet(N) /\ Cardinality(N) = Cardinality(S)
  <2> DEFINE f == [j \in S |-> <<j, job[j].attempt + 1>>]
  <2>1. ASSUME NEW j \in S PROVE f[j] \in N /\ f[j][1] = j
    <3>1. job[j].attempt \in Nat /\ job[j].attempt < MaxAttempts /\ MaxAttempts \in Nat
      BY <1>0, <1>2, <1>3, JobFields, WorkAssumption
    <3>2. <<j, job[j].attempt + 1>> \in RunIds
      BY <1>2, <3>1 DEF RunIds
    <3> QED
      BY <3>2, Zenon DEF N
  <2>2. ASSUME NEW s \in N PROVE s[1] \in S /\ f[s[1]] = s
    BY DEF N, RunIds
  <2>3. f \in Bijection(S, N)
    <3>1. f \in [S -> N]
      BY <2>1, Zenon
    <3>2. IsInjective(f)
      BY <2>1, Zenon DEF IsInjective
    <3>3. \A s \in N : \E j \in S : f[j] = s
      BY <2>2, Zenon
    <3> HIDE DEF f
    <3> QED
      BY <3>1, <3>2, <3>3 DEF Bijection, Injection, Surjection, IsInjective
  <2> HIDE DEF f
  <2> QED
    BY <1>2, <2>3, FS_Bijection, Zenon DEF ExistsBijection
<1>17. ASSUME NEW u \in Workers
       PROVE  worker'[u].free + worker'[u].held + Cardinality({s \in RunIds : run'[s].w = u}) = Slots
  <2> DEFINE A == {s \in RunIds : run[s].w = u}
             B == {s \in RunIds : run'[s].w = u}
  <2>1. worker[u].free + worker[u].held + Cardinality(A) = Slots
    BY Zenon DEF WorkInv, SlotsAddUp
  <2>2. worker[u].free \in Nat /\ worker[u].held \in Nat
    BY <1>0, WorkerFields, Zenon
  <2>3. IsFiniteSet(A) /\ Cardinality(A) \in Nat
    BY RunsFinite, Zenon DEF Own
  <2>4. CASE u = w
    <3>1. B = A \cup N /\ A \cap N = {}
      BY <1>0, <1>4, <1>5, <1>6, <2>4, Zenon DEF N
    <3>2. worker'[u].free = worker[u].free + worker[u].held - Cardinality(S) /\ worker'[u].held = 0
      BY <1>0, <1>7, <1>8, <1>9, <2>4
    <3> HIDE DEF A, B
    <3>3. Cardinality(B) = Cardinality(A) + Cardinality(S)
      <4>1. Cardinality(B) = Cardinality(A) + Cardinality(N) - Cardinality(A \cap N)
        BY <1>16, <2>3, <3>1, FS_Union
      <4>2. Cardinality(A \cap N) = 0
        BY <3>1, FS_EmptySet, Zenon
      <4> QED
        BY <1>2, <1>16, <2>3, <4>1, <4>2
    <3> QED
      BY <1>2, <2>1, <2>2, <2>3, <3>2, <3>3 DEF B
  <2>5. CASE u # w
    <3>1. B = A
      BY <1>0, <1>4, <1>5, <1>6, <2>5
    <3>2. worker'[u] = worker[u]
      BY <1>0, <1>8, <2>5, Zenon
    <3> QED
      BY <2>1, <3>1, <3>2
  <2> QED
    BY <2>4, <2>5, Zenon
<1>18. HeldForPoll'
  BY <1>0, <1>8, <1>9, Zenon DEF WorkInv, HeldForPoll
<1>19. SlotsAddUp'
  BY <1>17, Zenon DEF SlotsAddUp
<1> QED
  BY <1>10, <1>12, <1>13, <1>14, <1>15, <1>18, <1>19 DEF WorkInv
-----------------------------------------------------------------------------
(* The invariant, and what follows from it. *)

LEMMA WorkInitial == Init => WorkInv
<1> SUFFICES ASSUME Init PROVE WorkInv
  OBVIOUS
<1>1. /\ job = [j \in Jobs |-> [status |-> IF j \in scen.jobs THEN "pending" ELSE "ignored",
                                attempt |-> 0, action |-> "none", lead |-> 0]]
      /\ worker = [w \in Workers |-> [pc |-> IF w \in scen.workers THEN "ready" ELSE "stopped",
                                      free |-> Slots, held |-> 0]]
      /\ run = [r \in RunIds |-> NoRun] /\ calls = {}
  BY Zenon DEF Init
<1>2. /\ MaxAttempts \in Nat /\ MaxAttempts > 0 /\ Slots \in Nat /\ None \notin Workers
      /\ 0 \in 0..MaxLeads /\ 0 \in 0..MaxAttempts
  BY WorkAssumption
<1>3. NoRun \in RunType /\ NoRun.pc = "none" /\ NoRun.w = None /\ NoRun.action = "none"
  BY BlankRun, Zenon
<1>4. TypeOK
  <2>1. scen \in ScenarioType
    BY WorkAssumption, Zenon DEF Init
  <2>2. job \in [Jobs -> JobType]
    BY <1>1, <1>2, Zenon DEF JobType
  <2>3. worker \in [Workers -> WorkerType]
    BY <1>1, <1>2, Zenon DEF WorkerType
  <2>4. run \in [RunIds -> RunType] /\ calls \subseteq Handlers
    BY <1>1, <1>3, Zenon
  <2>5. actions \in [Jobs -> [ActionTypes -> ActionStatus]]
    BY Zenon DEF Init, ActionStatus
  <2>6. leads \in Seq(Jobs) /\ Len(leads) <= MaxLeads
    BY WorkAssumption DEF Init
  <2>7. leadResult \in [Jobs -> 0..MaxLeads]
    BY <1>2, Zenon DEF Init
  <2>8. /\ notified \subseteq Jobs \X ActionTypes /\ paused \in BOOLEAN
        /\ recent \subseteq {"pause"} \cup {Conv[j] : j \in Jobs}
        /\ gate \in [Workers -> SUBSET {Conv[j] : j \in Jobs}]
    BY Zenon DEF Init
  <2> QED
    BY <2>1, <2>2, <2>3, <2>4, <2>5, <2>6, <2>7, <2>8 DEF TypeOK
<1>5. \A r \in RunIds : RunInv(r)
  BY <1>1, <1>3, Zenon DEF RunInv, Live, Announced
<1>6. \A j \in Jobs : JobInv(j)
  BY <1>1, <1>2, Zenon DEF JobInv, Announced
<1>7. OneRunPerConversation
  BY <1>1, <1>3, Zenon DEF OneRunPerConversation
<1>8. SlotsAddUp
  <2> SUFFICES ASSUME NEW w \in Workers
               PROVE  worker[w].free + worker[w].held + Cardinality({r \in RunIds : run[r].w = w}) = Slots
    BY Zenon DEF SlotsAddUp
  <2>1. {r \in RunIds : run[r].w = w} = {}
    BY <1>1, <1>2, <1>3, Zenon
  <2>2. Cardinality({r \in RunIds : run[r].w = w}) = 0
    BY <2>1, FS_EmptySet, Zenon
  <2>3. worker[w].free = Slots /\ worker[w].held = 0
    BY <1>1, Zenon
  <2> QED
    BY <1>2, <2>2, <2>3
<1>9. HeldForPoll
  BY <1>1, Zenon DEF HeldForPoll
<1> QED
  BY <1>1, <1>4, <1>5, <1>6, <1>7, <1>8, <1>9 DEF WorkInv

LEMMA WorkStep == WorkInv /\ [Next]_vars => WorkInv'
<1> SUFFICES ASSUME WorkInv, [Next]_vars PROVE WorkInv'
  OBVIOUS
<1>1. ASSUME NEW w \in Workers, WorkerStep(w) PROVE WorkInv'
  BY <1>1, TakeSlotsInv, PollEventsInv, PollFailsInv, PollDeniedInv, DrainedInv, CrashInv
     DEF WorkerStep
<1>2. ASSUME NEW r \in RunIds, RunStep(r) PROVE WorkInv'
  BY <1>2, EnterInv, RunFailsInv, FinishRunInv, ToolCallInv, Zenon DEF RunStep
<1>3. CASE UNCHANGED vars
  <2>1. UNCHANGED <<scen, job, actions, notified, leads, leadResult, paused, recent, worker, gate,
                    run, calls>>
    BY <1>3, Zenon DEF vars
  <2>2. TypeOK'
    BY <2>1, Zenon DEF WorkInv, TypeOK
  <2>3. Grow
    BY <2>1, Zenon DEF Grow
  <2> QED
    BY <2>1, <2>2, <2>3, CallsMove, Zenon
<1> QED
  BY <1>1, <1>2, <1>3, HandlerStepInv, ReclaimExpiredInv, OwnerInv DEF Next

\* Whatever a worker runs, however its polls, runs and requests fail and however
\* often it dies: one run of a conversation is with the model at a time, every
\* slot is accounted for, a run counts as completed only if the server has it
\* finished under that attempt, and the owner has been told of every result
\* they must be told of (Loop, convGate, finishRun, handleOwnerFacing).
THEOREM RunsHonest == Spec => []RunsAreHonest
<1>1. WorkInv => RunsAreHonest
  <2> SUFFICES ASSUME WorkInv PROVE RunsAreHonest
    OBVIOUS
  <2>1. SuccessIsTheServers
    BY Zenon DEF WorkInv, RunInv, Verified, SuccessIsTheServers
  <2>2. ResultWasAnnounced
    BY Zenon DEF WorkInv, JobInv, Announced, ResultWasAnnounced
  <2> QED
    BY <2>1, <2>2, Zenon DEF WorkInv, RunsAreHonest
<1> QED
  BY <1>1, WorkInitial, WorkStep, PTL DEF Spec

\* A handler changes the actions or the leads only under the claim of the
\* attempt that sent its request, however late it runs (InsertAgentAction,
\* insertJobLead, updateJobLead).
THEOREM WritesAreClaimed == Spec => WritesUnderTheClaim
<1>1. ASSUME Next, actions' # actions \/ leads' # leads
      PROVE  \A h \in calls \ calls' : Claimed(h.run)
  <2>1. PICK h \in calls : InsertAgentAction(h) \/ SaveLead(h)
    <3>1. ASSUME NEW w \in Workers, WorkerStep(w) PROVE UNCHANGED <<actions, leads>>
      BY <3>1, Zenon DEF WorkerStep, TakeSlots, PollEvents, PollFails, PollDenied, Drained, Crash
    <3>2. ASSUME NEW r \in RunIds, RunStep(r) PROVE UNCHANGED <<actions, leads>>
      <4>1. ASSUME ToolCall(r) PROVE UNCHANGED <<actions, leads>>
        BY <4>1, Zenon DEF ToolCall, ProposeReply, RequestOwnerApproval, SendOwnerSummary, SaveJobLead,
                    PauseAutopilot, CompleteAgentJob, Sent
      <4> QED
        BY <3>2, <4>1, Zenon DEF RunStep, Enter, RunFails, FinishRun
    <3>3. ASSUME NEW j \in Jobs, ReclaimExpired(j) PROVE UNCHANGED <<actions, leads>>
      BY <3>3, Zenon DEF ReclaimExpired
    <3>4. ~OwnerSetsPause /\ ~WindowPasses
      BY <1>1, Zenon DEF OwnerSetsPause, WindowPasses
    <3>5. PICK h \in calls : HandlerStep(h)
      BY <1>1, <3>1, <3>2, <3>3, <3>4, Zenon DEF Next
    <3> QED
      BY <1>1, <3>5, Zenon DEF HandlerStep, Notify, NotifyFails, Unnotified, BindLead, SetPaused,
                        CompleteJob, ConnectionLost, Cancelled
  <2>2. calls \ calls' \subseteq {h}
    BY <2>1, Zenon DEF InsertAgentAction, SaveLead, Goes, Refuses
  <2>3. Claimed(h.run)
    BY <1>1, <2>1, Zenon DEF InsertAgentAction, SaveLead
  <2> QED
    BY <2>2, <2>3, Zenon
<1>2. [Next]_vars =>
        [(actions' # actions \/ leads' # leads) => \A h \in calls \ calls' : Claimed(h.run)]_vars
  BY <1>1, Zenon
<1> QED
  BY <1>2, PTL DEF Spec, WritesUnderTheClaim
=============================================================================
