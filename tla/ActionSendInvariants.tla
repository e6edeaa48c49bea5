----------------------- MODULE ActionSendInvariants ------------------------
(***************************************************************************)
(* What each step of ActionSend does to a row, to a thread and to the      *)
(* listener, stated once for the proofs that follow here and in            *)
(* ActionSendProofs; every fact includes that the step keeps the types.    *)
(* Then SendInv, the invariant every proof about ActionSend rests on, is   *)
(* inductive; so is AloneInv when one process sends at a time and its      *)
(* sends end within the grace window.  Last, what a step may do to the     *)
(* outcome of a row and to the sends on their way.                         *)
(***************************************************************************)
EXTENDS ActionSend, TLAPS


-----------------------------------------------------------------------------
(* Types. *)

LEMMA IdleType == Idle \in ThreadType /\ NoAction \in Actions
  BY ActionAssumption, Zenon DEF Idle, NoAction, ThreadType

LEMMA QuietType == Quiet \in ListenerType
  BY IdleType, Zenon DEF Quiet, Statuses, ListenerType

\* What the three ways to change a thread do to all threads.
LEMMA GotoFacts ==
    ASSUME TypeOK, NEW e \in Executors, NEW pc \in Early \cup Past \cup {"idle"}, Goto(e, pc)
    PROVE  /\ proc' \in [Executors -> ThreadType]
           /\ proc'[e].pc = pc /\ proc'[e].act = proc[e].act /\ proc'[e].path = proc[e].path
           /\ proc'[e].rid = proc[e].rid /\ proc'[e].seen = proc[e].seen
           /\ proc'[e].known = proc[e].known
           /\ \A f \in Executors : f # e => proc'[f] = proc[f]
  BY DEF TypeOK, Goto, ThreadType

LEMMA StopFacts ==
    ASSUME TypeOK, NEW e \in Executors, Stop(e)
    PROVE  /\ proc' \in [Executors -> ThreadType]
           /\ proc'[e].pc = "idle" /\ proc'[e].path = "send" /\ ~proc'[e].known
           /\ \A f \in Executors : f # e => proc'[f] = proc[f]
<1>1. proc \in [Executors -> ThreadType]
  BY Zenon DEF TypeOK
<1>2. proc' = [proc EXCEPT ![e] = Idle]
  BY Zenon DEF Stop
<1>3. Idle.pc = "idle" /\ Idle.path = "send" /\ ~Idle.known
  BY Zenon DEF Idle
<1> QED
  BY <1>1, <1>2, <1>3, IdleType, Zenon

LEMMA LoadFacts ==
    ASSUME TypeOK, NEW e \in Executors, NEW a \in Actions,
           proc' = [proc EXCEPT ![e] = [Idle EXCEPT !.pc = "load", !.act = a]]
    PROVE  /\ proc' \in [Executors -> ThreadType]
           /\ proc'[e].pc = "load" /\ proc'[e].act = a /\ proc'[e].path = "send" /\ ~proc'[e].known
           /\ \A f \in Executors : f # e => proc'[f] = proc[f]
<1> DEFINE q == [Idle EXCEPT !.pc = "load", !.act = a]
<1>1. proc \in [Executors -> ThreadType]
  BY Zenon DEF TypeOK
<1>2. q \in ThreadType /\ q.pc = "load" /\ q.act = a /\ q.path = "send" /\ ~q.known
  BY IdleType, Zenon DEF Idle, ThreadType, Early
<1> QED
  BY <1>1, <1>2, Zenon

\* A compare-and-set touches one row, and of it the status and the clocks.
LEMMA CasFacts ==
    ASSUME TypeOK, NEW a \in Actions, NEW from, NEW to \in Statuses, CompareAndSet(a, from, to)
    PROVE  /\ row' \in [Actions -> RowType]
           /\ \A b \in Actions : b # a \/ row[b].status # from => row'[b] = row[b]
           /\ \A b \in Actions :
                 /\ row'[b].rid = row[b].rid /\ row'[b].attempts = row[b].attempts
                 /\ row'[b].noted = row[b].noted /\ row'[b].review = row[b].review
           /\ row[a].status = from => row'[a].status = to /\ ~row'[a].stuck
<1>1. row \in [Actions -> RowType]
  BY Zenon DEF TypeOK
<1>2. row' = [row EXCEPT ![a] = IF row[a].status = from THEN MoveTo(row[a], to) ELSE row[a]]
  BY Zenon DEF CompareAndSet
<1>3. /\ MoveTo(row[a], to) \in RowType
      /\ MoveTo(row[a], to).rid = row[a].rid /\ MoveTo(row[a], to).attempts = row[a].attempts
      /\ MoveTo(row[a], to).noted = row[a].noted /\ MoveTo(row[a], to).review = row[a].review
      /\ MoveTo(row[a], to).status = to /\ ~MoveTo(row[a], to).stuck
  BY <1>1, Zenon DEF MoveTo, RowType
<1> HIDE DEF MoveTo
<1> QED
  BY <1>1, <1>2, <1>3, Zenon

LEMMA InitTypeOK == Init => TypeOK
<1> SUFFICES ASSUME Init PROVE TypeOK
  OBVIOUS
<1>1. row \in [Actions -> RowType] /\ proc \in [Executors -> ThreadType]
  BY IdleType, Zenon DEF Init, RowType, Statuses
<1> QED
  BY <1>1, QuietType, Zenon DEF Init, TypeOK

\* Delivery only adds the random id to what the peer has.
LEMMA DeliverFacts ==
    ASSUME TypeOK, NEW a \in Actions, NEW rid \in Nat, Deliver(a, rid)
    PROVE  /\ delivered' \in [Actions -> SUBSET Nat]
           /\ echo' \in [Actions -> {"none", "due", "seen"}]
           /\ delivered'[a] = delivered[a] \cup {rid}
           /\ \A b \in Actions : b # a => delivered'[b] = delivered[b] /\ echo'[b] = echo[b]
  BY Zenon DEF TypeOK, Deliver

\* Recording adds one history entry where it moves the row, and nothing else.
LEMMA RecordedFacts ==
    ASSUME TypeOK, NEW a \in Actions, NEW from, NEW known \in BOOLEAN, Recorded(a, from, known)
    PROVE  /\ row' \in [Actions -> RowType] /\ history' \in [Actions -> Nat]
           /\ \A b \in Actions : b # a \/ row[b].status # from => row'[b] = row[b] /\ history'[b] = history[b]
           /\ \A b \in Actions :
                 row'[b].rid = row[b].rid /\ row'[b].attempts = row[b].attempts
           /\ row[a].status = from =>
                 /\ row'[a].status = "executed" /\ ~row'[a].stuck
                 /\ history'[a] = history[a] + 1
                 /\ row'[a].noted => row[a].noted \/ known
<1>1. row \in [Actions -> RowType] /\ history \in [Actions -> Nat]
  BY Zenon DEF TypeOK
<1> DEFINE r == [MoveTo(row[a], "executed") EXCEPT !.noted = MoveTo(row[a], "executed").noted \/ known]
<1>2. /\ r \in RowType /\ r.rid = row[a].rid /\ r.attempts = row[a].attempts
      /\ r.status = "executed" /\ ~r.stuck /\ (r.noted => row[a].noted \/ known)
  <2> DEFINE m == MoveTo(row[a], "executed")
             n == m.noted \/ known
  <2>1. /\ m \in RowType /\ m.rid = row[a].rid /\ m.attempts = row[a].attempts
        /\ m.status = "executed" /\ ~m.stuck /\ m.noted = row[a].noted
    BY <1>1, Zenon DEF MoveTo, RowType, Statuses
  <2>2. n \in BOOLEAN /\ (n => row[a].noted \/ known)
    BY <2>1, Zenon
  <2>3. r = [m EXCEPT !.noted = n]
    OBVIOUS
  <2> HIDE DEF m, n, r
  <2>4. r \in RowType
    BY <2>1, <2>2, <2>3, Zenon DEF RowType
  <2>5. r.rid = m.rid /\ r.attempts = m.attempts /\ r.status = m.status /\ r.stuck = m.stuck /\ r.noted = n
    BY <2>1, <2>3, Zenon DEF RowType
  <2> QED
    BY <2>1, <2>2, <2>4, <2>5, Zenon
<1>3. IF row[a].status = from
      THEN row' = [row EXCEPT ![a] = r] /\ history' = [history EXCEPT ![a] = history[a] + 1]
      ELSE UNCHANGED <<row, history>>
  BY Zenon DEF Recorded
<1> HIDE DEF r
<1> QED
  BY <1>1, <1>2, <1>3

-----------------------------------------------------------------------------
(* What each step does, row by row and thread by thread. *)

\* Only clocks of the row move, or nothing does.
Kept(b) ==
    /\ row'[b].status = row[b].status /\ row'[b].review = row[b].review
    /\ row'[b].rid = row[b].rid /\ row'[b].attempts = row[b].attempts
    /\ row'[b].noted = row[b].noted

\* A draft is stored, decided on or withdrawn: no send begins or ends.
Decided(b) ==
    /\ row'[b].rid = row[b].rid /\ row'[b].attempts = row[b].attempts
    /\ row'[b].noted = row[b].noted /\ ~row'[b].stuck
    /\ \/ row[b].status = "none" /\ row'[b].status \in {"approved", "pending_approval", "denied"}
       \/ /\ row[b].status = "pending_approval"
          /\ row'[b].status \in {"approved", "denied", "rejected", "expired"}
       \/ row[b].status = "approved" /\ row'[b].status = "denied"

Others(e) == \A f \in Executors : f # e => proc'[f] = proc[f]

LEMMA InsertFacts ==
    ASSUME TypeOK, NEW a \in Actions, InsertAgentAction(a), ~row[a].stuck
    PROVE  /\ TypeOK'
           /\ UNCHANGED <<turns, history, alerts, external, owner, proc, marker, crashes, unreviewed>>
           /\ \A b \in Actions : b # a => row'[b] = row[b]
           /\ Decided(a) /\ row[a].status = "none"
<1>1. row \in [Actions -> RowType]
  BY Zenon DEF TypeOK
<1>2. PICK r \in {<<"approved", "allow">>, <<"pending_approval", "require_approval">>,
                  <<"denied", "allow">>} :
         row' = [row EXCEPT ![a].status = r[1], ![a].review = r[2]]
  BY Zenon DEF InsertAgentAction
<1> DEFINE s == r[1]
           v == r[2]
<1>r. s \in {"approved", "pending_approval", "denied"} /\ v \in {"allow", "require_approval"}
  OBVIOUS
<1>s. row' = [row EXCEPT ![a].status = s, ![a].review = v]
  BY <1>2, Zenon
<1> HIDE DEF s, v
<1>3. row' \in [Actions -> RowType] /\ row'[a].status = s /\ row'[a].rid = row[a].rid
      /\ row'[a].attempts = row[a].attempts /\ row'[a].noted = row[a].noted
      /\ row'[a].stuck = row[a].stuck
      /\ \A b \in Actions : b # a => row'[b] = row[b]
  <2> DEFINE q == [row[a] EXCEPT !.status = s, !.review = v]
  <2>1. row' = [row EXCEPT ![a] = q]
    BY <1>1, <1>s, Zenon
  <2>2. /\ q \in RowType /\ q.status = s /\ q.rid = row[a].rid
        /\ q.attempts = row[a].attempts /\ q.noted = row[a].noted /\ q.stuck = row[a].stuck
    BY <1>1, <1>r, Zenon DEF RowType, Statuses
  <2> HIDE DEF q
  <2> QED
    BY <1>1, <2>1, <2>2, Zenon
<1>4. /\ row[a].status = "none"
      /\ UNCHANGED <<turns, history, alerts, external, owner, proc, marker, crashes, unreviewed>>
  BY Zenon DEF InsertAgentAction
<1>5. TypeOK'
  BY <1>3, <1>4, Zenon DEF TypeOK, external, owner
<1> QED
  BY <1>r, <1>3, <1>4, <1>5, Zenon DEF Decided

\* Reject and the expiry sweep.
LEMMA WithdrawFacts ==
    ASSUME TypeOK, NEW a \in Actions, Reject(a) \/ ExpireStaleAgentActions(a)
    PROVE  /\ TypeOK'
           /\ UNCHANGED <<turns, history, alerts, external, owner, proc, marker, crashes, unreviewed>>
           /\ \A b \in Actions : b # a => row'[b] = row[b]
           /\ Decided(a)
<1>1. /\ row[a].status = "pending_approval"
      /\ \E to \in {"rejected", "expired"} : CompareAndSet(a, "pending_approval", to)
      /\ UNCHANGED <<turns, history, alerts, external, owner, proc, marker, crashes, unreviewed>>
  BY Zenon DEF Reject, ExpireStaleAgentActions
<1>2. PICK to \in {"rejected", "expired"} : CompareAndSet(a, "pending_approval", to)
  BY <1>1, Zenon
<1>3. to \in Statuses
  BY Zenon DEF Statuses
<1>4. /\ row' \in [Actions -> RowType]
      /\ \A b \in Actions : b # a => row'[b] = row[b]
      /\ Decided(a)
  BY <1>1, <1>2, <1>3, CasFacts, Zenon DEF Decided
<1> QED
  BY <1>1, <1>4, Zenon DEF TypeOK, external, owner

LEMMA ClockFacts ==
    ASSUME TypeOK, NEW a \in Actions, GraceEnds(a) \/ TTLEnds(a) \/ FloodWaitEnds(a)
    PROVE  /\ TypeOK'
           /\ UNCHANGED <<turns, history, alerts, external, owner, proc, marker, crashes, unreviewed>>
           /\ \A b \in Actions : Kept(b)
           /\ \A b \in Actions : row'[b].stuck => row[b].stuck \/ (GraceEnds(a) /\ b = a)
<1>1. row \in [Actions -> RowType]
  BY Zenon DEF TypeOK
<1>2. UNCHANGED <<turns, history, alerts, external, owner, proc, marker, crashes, unreviewed>>
  BY Zenon DEF GraceEnds, TTLEnds, FloodWaitEnds
<1>3. \/ row' = [row EXCEPT ![a].stuck = TRUE] /\ GraceEnds(a)
      \/ row' = [row EXCEPT ![a].lapsed = TRUE]
      \/ row' = [row EXCEPT ![a].held = FALSE]
  BY Zenon DEF GraceEnds, TTLEnds, FloodWaitEnds
<1>4. /\ row' \in [Actions -> RowType]
      /\ \A b \in Actions : Kept(b)
      /\ \A b \in Actions : row'[b].stuck => row[b].stuck \/ (GraceEnds(a) /\ b = a)
  <2>1. CASE row' = [row EXCEPT ![a].stuck = TRUE] /\ GraceEnds(a)
    BY <1>1, <2>1, Zenon DEF RowType, Kept
  <2>2. CASE row' = [row EXCEPT ![a].lapsed = TRUE]
    BY <1>1, <2>2, Zenon DEF RowType, Kept
  <2>3. CASE row' = [row EXCEPT ![a].held = FALSE]
    BY <1>1, <2>3, Zenon DEF RowType, Kept
  <2> QED
    BY <1>3, <2>1, <2>2, <2>3, Zenon
<1> QED
  BY <1>2, <1>4, Zenon DEF TypeOK, external, owner

LEMMA ApproveFacts ==
    ASSUME TypeOK, NEW e \in Executors, NEW a \in Actions, Approve(e, a)
    PROVE  /\ TypeOK'
           /\ UNCHANGED <<turns, history, alerts, external, owner, marker, crashes, unreviewed>>
           /\ \A b \in Actions : b # a => row'[b] = row[b]
           /\ Decided(a) /\ row[a].status = "pending_approval" /\ proc[e].pc = "idle"
           /\ \/ UNCHANGED proc
              \/ /\ row'[a].status = "approved" /\ Others(e)
                 /\ proc'[e].pc = "load" /\ proc'[e].act = a /\ proc'[e].path = "send"
                 /\ ~proc'[e].known
<1>1. /\ row[a].status = "pending_approval" /\ proc[e].pc = "idle"
      /\ UNCHANGED <<turns, history, alerts, external, owner, marker, crashes, unreviewed>>
  BY Zenon DEF Approve
<1>2. PICK to \in {"expired", "denied", "approved"} :
         /\ CompareAndSet(a, "pending_approval", to)
         /\ \/ UNCHANGED proc
            \/ /\ to = "approved"
               /\ proc' = [proc EXCEPT ![e] = [Idle EXCEPT !.pc = "load", !.act = a]]
  BY Zenon DEF Approve
<1>3. to \in Statuses
  BY Zenon DEF Statuses
<1>4. /\ row' \in [Actions -> RowType]
      /\ \A b \in Actions : b # a => row'[b] = row[b]
      /\ Decided(a) /\ row'[a].status = to
  <2>1. /\ row' \in [Actions -> RowType]
        /\ \A b \in Actions : b # a \/ row[b].status # "pending_approval" => row'[b] = row[b]
        /\ \A b \in Actions :
              /\ row'[b].rid = row[b].rid /\ row'[b].attempts = row[b].attempts
              /\ row'[b].noted = row[b].noted
        /\ row'[a].status = to /\ ~row'[a].stuck
    BY <1>1, <1>2, <1>3, CasFacts
  <2> QED
    BY <1>1, <2>1, Zenon DEF Decided
<1>5. proc' \in [Executors -> ThreadType]
  BY <1>2, LoadFacts, Zenon DEF TypeOK
<1>6. TypeOK'
  BY <1>1, <1>4, <1>5, Zenon DEF TypeOK, external, owner
<1>7. CASE UNCHANGED proc
  BY <1>1, <1>4, <1>6, <1>7, Zenon
<1>8. CASE to = "approved" /\ proc' = [proc EXCEPT ![e] = [Idle EXCEPT !.pc = "load", !.act = a]]
  <2>1. /\ Others(e) /\ proc'[e].pc = "load" /\ proc'[e].act = a
        /\ proc'[e].path = "send" /\ ~proc'[e].known
    BY <1>8, LoadFacts, Zenon DEF Others
  <2> QED
    BY <1>1, <1>4, <1>6, <1>8, <2>1, Zenon
<1> QED
  BY <1>2, <1>7, <1>8, Zenon

\* Thread e goes on at pc with what it has, stops, or begins a send of a.
GoesTo(e, pc) ==
    /\ Others(e)
    /\ proc'[e].pc = pc /\ proc'[e].act = proc[e].act /\ proc'[e].path = proc[e].path
    /\ proc'[e].rid = proc[e].rid /\ proc'[e].seen = proc[e].seen /\ proc'[e].known = proc[e].known
Stops(e) ==
    Others(e) /\ proc'[e].pc = "idle" /\ proc'[e].path = "send" /\ ~proc'[e].known

\* A thread that only reads.
LEMMA ReadFacts ==
    ASSUME TypeOK, NEW e \in Executors,
           EvaluatePolicy(e) \/ RefuseMessage(e) \/ recoverOne(e)
    PROVE  /\ TypeOK'
           /\ UNCHANGED <<db, external, owner, marker, crashes, unreviewed>>
           /\ \/ /\ proc[e].pc = "load"
                 /\ GoesTo(e, "deny") \/ (GoesTo(e, "reserve") /\ ~takenOver)
              \/ proc[e].pc = "rpc" /\ (GoesTo(e, "flood") \/ GoesTo(e, "refused"))
              \/ /\ proc[e].pc = "recover"
                 /\ \/ GoesTo(e, "record") /\ proc[e].known
                    \/ GoesTo(e, "unknown") \/ GoesTo(e, "note") \/ Stops(e)
                    \/ GoesTo(e, "withhold") /\ proc[e].seen = 0
<1>1. UNCHANGED <<db, external, owner, marker, crashes, unreviewed>>
  BY Zenon DEF EvaluatePolicy, RefuseMessage, recoverOne
<1>2. /\ proc[e].known \in BOOLEAN /\ proc[e].seen \in Nat
      /\ {"deny", "reserve", "flood", "refused", "record", "unknown", "note", "withhold"}
           \subseteq Early \cup Past \cup {"idle"}
  BY Zenon DEF TypeOK, ThreadType, Early, Past
<1>3. \/ /\ proc[e].pc = "load"
         /\ Goto(e, "deny") \/ (Goto(e, "reserve") /\ ~takenOver)
      \/ proc[e].pc = "rpc" /\ (Goto(e, "flood") \/ Goto(e, "refused"))
      \/ /\ proc[e].pc = "recover"
         /\ \/ Goto(e, "record") /\ proc[e].known
            \/ Goto(e, "unknown") \/ Goto(e, "note") \/ Stop(e)
            \/ Goto(e, "withhold") /\ proc[e].seen = 0
  <2>1. CASE EvaluatePolicy(e)
    BY <2>1, Zenon DEF EvaluatePolicy, MustStop
  <2>2. CASE RefuseMessage(e)
    BY <2>2, Zenon DEF RefuseMessage
  <2>3. CASE recoverOne(e)
    <3>1. Settle(proc[e].seen) = "unknown" \/ (Settle(proc[e].seen) = "withhold" /\ proc[e].seen = 0)
      BY <1>2 DEF Settle
    <3> QED
      BY <2>3, <3>1, Zenon DEF recoverOne
  <2> QED
    BY <2>1, <2>2, <2>3, Zenon
<1>4. proc' \in [Executors -> ThreadType]
  BY <1>2, <1>3, GotoFacts, StopFacts, Zenon
<1>5. TypeOK'
  BY <1>1, <1>4, Zenon DEF TypeOK, db, external, owner
<1>6. /\ \A pc \in {"deny", "reserve", "flood", "refused", "record", "unknown", "note", "withhold"} :
            Goto(e, pc) => GoesTo(e, pc)
      /\ Stop(e) => Stops(e)
  BY <1>2, GotoFacts, StopFacts, Zenon DEF GoesTo, Stops, Others
<1> HIDE DEF GoesTo, Stops, Goto, Stop
<1> QED
  BY <1>1, <1>3, <1>5, <1>6, Zenon

LEMMA ProcessFacts ==
    ASSUME TypeOK, NEW e \in Executors, NEW a \in Actions, ProcessApproved(e, a)
    PROVE  /\ TypeOK'
           /\ UNCHANGED <<db, external, owner, marker, crashes, unreviewed>>
           /\ row[a].status = "approved" /\ proc[e].pc = "idle" /\ Others(e)
           /\ proc'[e].pc = "load" /\ proc'[e].act = a /\ proc'[e].path = "send" /\ ~proc'[e].known
<1>1. /\ UNCHANGED <<db, external, owner, marker, crashes, unreviewed>>
      /\ row[a].status = "approved" /\ proc[e].pc = "idle"
      /\ proc' = [proc EXCEPT ![e] = [Idle EXCEPT !.pc = "load", !.act = a]]
  BY Zenon DEF ProcessApproved
<1>2. /\ proc' \in [Executors -> ThreadType]
      /\ proc'[e].pc = "load" /\ proc'[e].act = a /\ proc'[e].path = "send" /\ ~proc'[e].known
      /\ \A f \in Executors : f # e => proc'[f] = proc[f]
  BY <1>1, LoadFacts, Zenon
<1>3. TypeOK'
  BY <1>1, <1>2, Zenon DEF TypeOK, db, external, owner
<1> QED
  BY <1>1, <1>2, <1>3, Zenon DEF Others

LEMMA RecoverFacts ==
    ASSUME TypeOK, NEW e \in Executors, NEW a \in Actions, RecoverStuck(e, a)
    PROVE  /\ TypeOK'
           /\ UNCHANGED <<db, external, owner, marker, crashes, unreviewed>>
           /\ row[a].status = "executing" /\ row[a].stuck /\ proc[e].pc = "idle" /\ Others(e)
           /\ Overlap \/ \A f \in Executors : proc[f].path # "recover" \/ proc[f].pc = "idle"
           /\ proc'[e].pc = "recover" /\ proc'[e].act = a /\ proc'[e].path = "recover"
           /\ proc'[e].rid = row[a].rid /\ proc'[e].seen = row[a].attempts
           /\ proc'[e].known = row[a].noted
<1> DEFINE q == [pc |-> "recover", act |-> a, path |-> "recover", rid |-> row[a].rid,
                 seen |-> row[a].attempts, known |-> row[a].noted]
<1>1. /\ UNCHANGED <<db, external, owner, marker, crashes, unreviewed>>
      /\ row[a].status = "executing" /\ row[a].stuck /\ proc[e].pc = "idle"
      /\ Overlap \/ \A f \in Executors : proc[f].path # "recover" \/ proc[f].pc = "idle"
      /\ proc' = [proc EXCEPT ![e] = q]
  BY Zenon DEF RecoverStuck, ListStuckExecutingActions
<1>2. q \in ThreadType /\ q.pc = "recover" /\ q.act = a /\ q.path = "recover"
      /\ q.rid = row[a].rid /\ q.seen = row[a].attempts /\ q.known = row[a].noted
  <2>1. row[a].rid \in Nat /\ row[a].attempts \in Nat /\ row[a].noted \in BOOLEAN
    BY Zenon DEF TypeOK, RowType
  <2> QED
    BY <2>1, Zenon DEF ThreadType, Past
<1> HIDE DEF q
<1>3. proc \in [Executors -> ThreadType]
  BY Zenon DEF TypeOK
<1>4. proc' \in [Executors -> ThreadType] /\ proc'[e] = q /\ Others(e)
  BY <1>1, <1>2, <1>3, Zenon DEF Others
<1>5. TypeOK'
  BY <1>1, <1>4, Zenon DEF TypeOK, db, external, owner
<1> QED
  BY <1>1, <1>2, <1>4, <1>5, Zenon

\* The two refusals; a thread is in the middle of an action of its own.
LEMMA DenyFacts ==
    ASSUME TypeOK, NEW e \in Executors, NEW from,
           \/ DenyApproved(e) /\ from = "approved" /\ proc[e].pc = "deny"
           \/ DenyExecuting(e) /\ from = "executing" /\ proc[e].pc = "withhold"
    PROVE  /\ TypeOK' /\ proc[e].act \in Actions
           /\ UNCHANGED <<turns, history, alerts, external, owner, marker, crashes, unreviewed>>
           /\ Stops(e)
           /\ \A b \in Actions :
                 /\ row'[b].rid = row[b].rid /\ row'[b].attempts = row[b].attempts
                 /\ row'[b].noted = row[b].noted
                 /\ \/ row'[b] = row[b]
                    \/ /\ b = proc[e].act /\ row[b].status = from
                       /\ row'[b].status = "denied" /\ ~row'[b].stuck
           /\ row[proc[e].act].status = from => row'[proc[e].act].status = "denied"
<1>1. PICK a \in Actions : a = proc[e].act
  BY Zenon DEF TypeOK, ThreadType
<1>2. /\ CompareAndSet(a, from, "denied") /\ Stop(e)
      /\ UNCHANGED <<turns, history, alerts, external, owner, marker, crashes, unreviewed>>
  BY <1>1, Zenon DEF DenyApproved, DenyExecuting
<1>3. "denied" \in Statuses
  BY Zenon DEF Statuses
<1>4. /\ row' \in [Actions -> RowType]
      /\ \A b \in Actions : b # a \/ row[b].status # from => row'[b] = row[b]
      /\ \A b \in Actions :
                 /\ row'[b].rid = row[b].rid /\ row'[b].attempts = row[b].attempts
                 /\ row'[b].noted = row[b].noted /\ row'[b].review = row[b].review
      /\ row[a].status = from => row'[a].status = "denied" /\ ~row'[a].stuck
  BY <1>2, <1>3, CasFacts, Zenon
<1>5. proc' \in [Executors -> ThreadType] /\ Stops(e)
  BY <1>2, StopFacts, Zenon DEF Stops, Others
<1>6. TypeOK'
  BY <1>2, <1>4, <1>5, Zenon DEF TypeOK, external, owner
<1> QED
  BY <1>1, <1>2, <1>4, <1>5, <1>6, Zenon

LEMMA ReserveFacts ==
    ASSUME TypeOK, NEW e \in Executors, ReserveAgentActionSend(e)
    PROVE  /\ TypeOK' /\ proc[e].act \in Actions /\ proc[e].pc = "reserve"
           /\ UNCHANGED <<history, alerts, external, owner, marker, crashes>>
           /\ \A b \in Actions : b # proc[e].act => row'[b] = row[b]
           /\ \/ /\ UNCHANGED <<row, turns, unreviewed>>
                 /\ GoesTo(e, "deny") \/ Stops(e)
              \/ /\ row[proc[e].act].status = "approved"
                 /\ row'[proc[e].act].status = "executing" /\ ~row'[proc[e].act].stuck
                 /\ row'[proc[e].act].rid = row[proc[e].act].rid + 1
                 /\ row'[proc[e].act].attempts = row[proc[e].act].attempts
                 /\ row'[proc[e].act].noted = row[proc[e].act].noted
                 /\ Others(e)
                 /\ proc'[e].pc = "note" /\ proc'[e].act = proc[e].act
                 /\ proc'[e].path = proc[e].path /\ proc'[e].known = proc[e].known
                 /\ proc'[e].rid = row[proc[e].act].rid + 1
                 /\ turns' = turns + 1
                 /\ \/ unreviewed' = unreviewed
                    \/ unreviewed' = unreviewed + 1 /\ turns < MaxAutonomousTurns
<1>1. PICK a \in Actions : a = proc[e].act
  BY Zenon DEF TypeOK, ThreadType
<1>2. /\ proc[e].pc = "reserve"
      /\ UNCHANGED <<history, alerts, external, owner, marker, crashes>>
      /\ row \in [Actions -> RowType] /\ proc \in [Executors -> ThreadType]
      /\ turns \in Nat /\ unreviewed \in Nat
  BY Zenon DEF ReserveAgentActionSend, TypeOK
<1>3. CASE UNCHANGED <<row, turns, unreviewed>> /\ (Goto(e, "deny") \/ Stop(e))
  <2>1. proc' \in [Executors -> ThreadType] /\ (GoesTo(e, "deny") \/ Stops(e))
    BY <1>3, GotoFacts, StopFacts DEF GoesTo, Stops, Others, Early
  <2>2. TypeOK'
    BY <1>2, <1>3, <2>1, Zenon DEF TypeOK, external, owner
  <2> QED
    BY <1>1, <1>2, <1>3, <2>1, <2>2, Zenon
<1>4. CASE /\ ~OverBudget(a) /\ row[a].status = "approved"
           /\ row' = [row EXCEPT ![a] = [MoveTo(row[a], "executing") EXCEPT !.rid = @ + 1]]
           /\ proc' = [proc EXCEPT ![e].pc = "note", ![e].rid = row[a].rid + 1]
           /\ Charge(a)
  <2> DEFINE r == [MoveTo(row[a], "executing") EXCEPT !.rid = @ + 1]
             q == [proc[e] EXCEPT !.pc = "note", !.rid = row[a].rid + 1]
  <2>1. /\ r \in RowType /\ r.status = "executing" /\ ~r.stuck /\ r.rid = row[a].rid + 1
        /\ r.attempts = row[a].attempts /\ r.noted = row[a].noted
    <3>1. row[a] \in RowType
      BY <1>2, Zenon
    <3>2. /\ MoveTo(row[a], "executing") \in RowType
          /\ MoveTo(row[a], "executing").status = "executing"
          /\ ~MoveTo(row[a], "executing").stuck
          /\ MoveTo(row[a], "executing").rid = row[a].rid
          /\ MoveTo(row[a], "executing").attempts = row[a].attempts
          /\ MoveTo(row[a], "executing").noted = row[a].noted
      BY <3>1, Zenon DEF MoveTo, RowType, Statuses
    <3> QED
      BY <3>2 DEF RowType
  <2>2. /\ q \in ThreadType /\ q.pc = "note" /\ q.act = a /\ q.path = proc[e].path
        /\ q.known = proc[e].known /\ q.rid = row[a].rid + 1
    <3>1. proc[e] \in ThreadType /\ row[a].rid + 1 \in Nat /\ row[a].attempts + 1 \in Nat
      BY <1>2 DEF RowType
    <3>2. "note" \in Early \cup Past \cup {"idle"}
      BY Zenon DEF Past
    <3> QED
      BY <1>1, <3>1, <3>2, Zenon DEF ThreadType
  <2>3. row' = [row EXCEPT ![a] = r] /\ proc' = [proc EXCEPT ![e] = q]
    BY <1>4, Zenon
  <2> HIDE DEF r, q
  <2>4. /\ row' \in [Actions -> RowType] /\ proc' \in [Executors -> ThreadType]
        /\ row'[a] = r /\ proc'[e] = q /\ Others(e)
        /\ \A b \in Actions : b # a => row'[b] = row[b]
    BY <1>2, <2>1, <2>2, <2>3, Zenon DEF Others
  <2>5. /\ turns' = turns + 1
        /\ \/ unreviewed' = unreviewed
           \/ unreviewed' = unreviewed + 1 /\ turns < MaxAutonomousTurns
    BY <1>2, <1>4, BoundAssumption DEF Charge, OverBudget
  <2>6. TypeOK'
    BY <1>2, <2>4, <2>5 DEF TypeOK, external, owner
  <2> QED
    BY <1>1, <1>2, <1>4, <2>1, <2>2, <2>4, <2>5, <2>6, Zenon
<1> QED
  BY <1>1, <1>3, <1>4, Zenon DEF ReserveAgentActionSend

LEMMA NoteFacts ==
    ASSUME TypeOK, NEW e \in Executors, NoteAgentActionSendAttempt(e)
    PROVE  /\ TypeOK' /\ proc[e].act \in Actions /\ proc[e].pc = "note"
           /\ UNCHANGED <<turns, history, alerts, external, owner, marker, crashes, unreviewed>>
           /\ \/ UNCHANGED row /\ Stops(e) /\ row[proc[e].act].status # "executing"
              \/ /\ row[proc[e].act].status = "executing"
                 /\ \A b \in Actions : b # proc[e].act => row'[b] = row[b]
                 /\ row'[proc[e].act].status = "executing"
                 /\ row'[proc[e].act].rid = row[proc[e].act].rid
                 /\ row'[proc[e].act].noted = row[proc[e].act].noted
                 /\ row'[proc[e].act].stuck = row[proc[e].act].stuck
                 /\ row'[proc[e].act].attempts = row[proc[e].act].attempts + 1
                 /\ Others(e)
                 /\ proc'[e].pc = "rpc" /\ proc'[e].act = proc[e].act
                 /\ proc'[e].path = proc[e].path /\ proc'[e].known = proc[e].known
                 /\ proc'[e].rid = proc[e].rid
<1>1. PICK a \in Actions : a = proc[e].act
  BY Zenon DEF TypeOK, ThreadType
<1>2. /\ proc[e].pc = "note"
      /\ UNCHANGED <<turns, history, alerts, external, owner, marker, crashes, unreviewed>>
      /\ row \in [Actions -> RowType] /\ proc \in [Executors -> ThreadType]
  BY Zenon DEF NoteAgentActionSendAttempt, TypeOK
<1>3. CASE UNCHANGED row /\ Stop(e) /\ row[a].status # "executing"
  <2>1. proc' \in [Executors -> ThreadType] /\ Stops(e)
    BY <1>3, StopFacts, Zenon DEF Stops, Others
  <2>2. TypeOK'
    BY <1>2, <1>3, <2>1, Zenon DEF TypeOK, external, owner
  <2> QED
    BY <1>1, <1>2, <1>3, <2>1, <2>2, Zenon
<1>4. CASE /\ row[a].status = "executing"
           /\ row' = [row EXCEPT ![a].attempts = @ + 1]
           /\ proc' = [proc EXCEPT ![e].pc = "rpc", ![e].seen = row[a].attempts + 1]
  <2> DEFINE r == [row[a] EXCEPT !.attempts = @ + 1]
             q == [proc[e] EXCEPT !.pc = "rpc", !.seen = row[a].attempts + 1]
  <2>1. /\ r \in RowType /\ r.status = row[a].status /\ r.stuck = row[a].stuck /\ r.rid = row[a].rid
        /\ r.attempts = row[a].attempts + 1 /\ r.noted = row[a].noted
    BY <1>2 DEF RowType
  <2>2. /\ q \in ThreadType /\ q.pc = "rpc" /\ q.act = a /\ q.path = proc[e].path
        /\ q.known = proc[e].known /\ q.rid = proc[e].rid
    <3>1. proc[e] \in ThreadType /\ row[a].rid + 1 \in Nat /\ row[a].attempts + 1 \in Nat
      BY <1>2 DEF RowType
    <3>2. "rpc" \in Early \cup Past \cup {"idle"}
      BY Zenon DEF Past
    <3> QED
      BY <1>1, <3>1, <3>2, Zenon DEF ThreadType
  <2>3. row' = [row EXCEPT ![a] = r] /\ proc' = [proc EXCEPT ![e] = q]
    BY <1>4, Zenon
  <2> HIDE DEF r, q
  <2>4. /\ row' \in [Actions -> RowType] /\ proc' \in [Executors -> ThreadType]
        /\ row'[a] = r /\ proc'[e] = q /\ Others(e)
        /\ \A b \in Actions : b # a => row'[b] = row[b]
    BY <1>2, <2>1, <2>2, <2>3, Zenon DEF Others
  <2>5. TypeOK'
    BY <1>2, <2>4, Zenon DEF TypeOK, external, owner
  <2> QED
    BY <1>1, <1>2, <1>4, <2>1, <2>2, <2>4, <2>5
<1> QED
  BY <1>1, <1>3, <1>4, Zenon DEF NoteAgentActionSendAttempt

LEMMA SendFacts ==
    ASSUME TypeOK, NEW e \in Executors, SendMessage(e)
    PROVE  /\ TypeOK' /\ proc[e].act \in Actions /\ proc[e].pc = "rpc"
           /\ UNCHANGED <<db, late, owner, marker, crashes, unreviewed>>
           /\ GoesTo(e, "mark") \/ GoesTo(e, "record")
           /\ delivered'[proc[e].act] = delivered[proc[e].act] \cup {proc[e].rid}
           /\ \A b \in Actions : b # proc[e].act => delivered'[b] = delivered[b] /\ echo'[b] = echo[b]
<1>1. PICK a \in Actions, rid \in Nat : a = proc[e].act /\ rid = proc[e].rid
  BY Zenon DEF TypeOK, ThreadType
<1>2. /\ proc[e].pc = "rpc" /\ Deliver(a, rid)
      /\ UNCHANGED <<db, late, owner, marker, crashes, unreviewed>>
      /\ Goto(e, "mark") \/ Goto(e, "record")
  BY <1>1, Zenon DEF SendMessage
<1>3. /\ delivered' \in [Actions -> SUBSET Nat]
      /\ echo' \in [Actions -> {"none", "due", "seen"}]
      /\ delivered'[a] = delivered[a] \cup {rid}
      /\ \A b \in Actions : b # a => delivered'[b] = delivered[b] /\ echo'[b] = echo[b]
  BY <1>2, DeliverFacts, Zenon
<1>4. proc' \in [Executors -> ThreadType] /\ (GoesTo(e, "mark") \/ GoesTo(e, "record"))
  BY <1>2, GotoFacts, Zenon DEF GoesTo, Others, Past
<1>5. TypeOK'
  BY <1>2, <1>3, <1>4, Zenon DEF TypeOK, db, owner
<1> QED
  BY <1>1, <1>2, <1>3, <1>4, <1>5, Zenon

LEMMA LoseFacts ==
    ASSUME TypeOK, NEW e \in Executors, LoseAnswer(e)
    PROVE  /\ TypeOK' /\ proc[e].act \in Actions /\ proc[e].pc = "rpc"
           /\ UNCHANGED <<db, delivered, echo, owner, marker, crashes, unreviewed>>
           /\ late' = late \cup {<<proc[e].act, proc[e].rid>>}
           /\ GoesTo(e, "unknown") \/ Stops(e)
<1>1. PICK a \in Actions, rid \in Nat : a = proc[e].act /\ rid = proc[e].rid
  BY Zenon DEF TypeOK, ThreadType
<1>2. /\ proc[e].pc = "rpc" /\ late' = late \cup {<<a, rid>>}
      /\ UNCHANGED <<db, delivered, echo, owner, marker, crashes, unreviewed>>
      /\ Goto(e, "unknown") \/ Stop(e)
  BY <1>1, Zenon DEF LoseAnswer
<1>3. proc' \in [Executors -> ThreadType] /\ (GoesTo(e, "unknown") \/ Stops(e))
  BY <1>2, GotoFacts, StopFacts, Zenon DEF GoesTo, Stops, Others, Past
<1>4. late' \subseteq Actions \X Nat
  BY <1>2 DEF TypeOK
<1>5. TypeOK'
  BY <1>2, <1>3, <1>4, Zenon DEF TypeOK, db, owner
<1> QED
  BY <1>1, <1>2, <1>3, <1>5, Zenon

LEMMA CrashFacts ==
    ASSUME TypeOK, NEW e \in Executors, Crash(e)
    PROVE  /\ TypeOK' /\ proc[e].act \in Actions /\ proc[e].pc # "idle"
           /\ UNCHANGED <<db, delivered, echo, owner, marker, unreviewed>>
           /\ late' = IF proc[e].pc = "rpc" THEN late \cup {<<proc[e].act, proc[e].rid>>} ELSE late
           /\ Stops(e)
<1>1. PICK a \in Actions, rid \in Nat : a = proc[e].act /\ rid = proc[e].rid
  BY Zenon DEF TypeOK, ThreadType
<1>2. /\ proc[e].pc # "idle" /\ Stop(e) /\ crashes' = crashes + 1
      /\ late' = IF proc[e].pc = "rpc" THEN late \cup {<<a, rid>>} ELSE late
      /\ UNCHANGED <<db, delivered, echo, owner, marker, unreviewed>>
  BY <1>1, Zenon DEF Crash
<1>3. proc' \in [Executors -> ThreadType] /\ Stops(e)
  BY <1>2, StopFacts, Zenon DEF Stops, Others
<1>4. late' \subseteq Actions \X Nat
  BY <1>2 DEF TypeOK
<1>5. TypeOK'
  BY <1>2, <1>3, <1>4 DEF TypeOK, db, owner
<1> QED
  BY <1>1, <1>2, <1>3, <1>5, Zenon

LEMMA LateFacts ==
    ASSUME TypeOK, LateMessage
    PROVE  /\ TypeOK'
           /\ UNCHANGED <<db, owner, proc, marker, crashes, unreviewed>>
           /\ \E a \in Actions, rid \in Nat :
                 /\ <<a, rid>> \in late /\ late' = late \ {<<a, rid>>}
                 /\ \/ UNCHANGED <<delivered, echo>>
                    \/ /\ delivered'[a] = delivered[a] \cup {rid}
                       /\ \A b \in Actions : b # a => delivered'[b] = delivered[b] /\ echo'[b] = echo[b]
<1>1. UNCHANGED <<db, owner, proc, marker, crashes, unreviewed>>
  BY Zenon DEF LateMessage
<1>2. PICK m \in late : /\ late' = late \ {m}
                        /\ Deliver(m[1], m[2]) \/ UNCHANGED <<delivered, echo>>
  BY Zenon DEF LateMessage
<1>3. PICK a \in Actions, rid \in Nat : m = <<a, rid>>
  BY <1>2 DEF TypeOK
<1>4. Deliver(a, rid) \/ UNCHANGED <<delivered, echo>>
  BY <1>2, <1>3, Zenon
<1>5. /\ delivered' \in [Actions -> SUBSET Nat] /\ echo' \in [Actions -> {"none", "due", "seen"}]
      /\ \/ UNCHANGED <<delivered, echo>>
         \/ /\ delivered'[a] = delivered[a] \cup {rid}
            /\ \A b \in Actions : b # a => delivered'[b] = delivered[b] /\ echo'[b] = echo[b]
  BY <1>4, DeliverFacts, Zenon DEF TypeOK
<1>6. TypeOK'
  BY <1>1, <1>2, <1>5, Zenon DEF TypeOK, db, owner
<1> QED
  BY <1>1, <1>2, <1>3, <1>5, <1>6, Zenon

LEMMA MarkFacts ==
    ASSUME TypeOK, NEW e \in Executors, MarkSent(e)
    PROVE  /\ TypeOK' /\ proc[e].pc = "mark"
           /\ UNCHANGED <<db, external, owner, crashes, unreviewed>>
           /\ Others(e) /\ proc'[e].pc = "record" /\ proc'[e].act = proc[e].act
           /\ proc'[e].path = proc[e].path /\ proc'[e].rid = proc[e].rid
<1>1. /\ proc[e].pc = "mark" /\ marker' = marker \cup {proc[e].act}
      /\ UNCHANGED <<db, external, owner, crashes, unreviewed>>
      /\ proc' = [proc EXCEPT ![e].pc = "record", ![e].known = TRUE]
  BY Zenon DEF MarkSent
<1>2. proc \in [Executors -> ThreadType] /\ proc[e].act \in Actions
  BY Zenon DEF TypeOK, ThreadType
<1>3. "record" \in Early \cup Past \cup {"idle"}
  BY Zenon DEF Past
<1>4. /\ proc' \in [Executors -> ThreadType] /\ Others(e)
      /\ proc'[e].pc = "record" /\ proc'[e].act = proc[e].act
      /\ proc'[e].path = proc[e].path /\ proc'[e].rid = proc[e].rid
  <2>1. PICK q : q = [proc[e] EXCEPT !.pc = "record", !.known = TRUE]
    BY Zenon
  <2>2. proc' = [proc EXCEPT ![e] = q] /\ proc[e] \in ThreadType
    BY <1>1, <1>2, <2>1, Zenon
  <2>3. /\ q \in ThreadType /\ q.pc = "record" /\ q.act = proc[e].act
        /\ q.path = proc[e].path /\ q.rid = proc[e].rid
    BY <1>3, <2>1, <2>2, Zenon DEF ThreadType
  <2>4. proc'[e] = q /\ \A f \in Executors : f # e => proc'[f] = proc[f]
    BY <1>2, <2>2, Zenon
  <2>5. proc' \in [Executors -> ThreadType]
    BY <1>2, <2>2, <2>3, Zenon
  <2> QED
    BY <2>3, <2>4, <2>5, Zenon DEF Others
<1>5. TypeOK'
  BY <1>1, <1>2, <1>4, Zenon DEF TypeOK, db, external, owner
<1> QED
  BY <1>1, <1>4, <1>5, Zenon

LEMMA RecordFacts ==
    ASSUME TypeOK, NEW e \in Executors, RecordAgentActionSent(e)
    PROVE  /\ TypeOK' /\ proc[e].act \in Actions /\ proc[e].pc = "record" /\ Stops(e)
           /\ UNCHANGED <<turns, alerts, external, owner, marker, crashes, unreviewed>>
           /\ \A b \in Actions : b # proc[e].act \/ row[b].status # "executing"
                                   => row'[b] = row[b] /\ history'[b] = history[b]
           /\ \A b \in Actions : row'[b].rid = row[b].rid /\ row'[b].attempts = row[b].attempts
           /\ row[proc[e].act].status = "executing" =>
                 /\ row'[proc[e].act].status = "executed" /\ ~row'[proc[e].act].stuck
                 /\ history'[proc[e].act] = history[proc[e].act] + 1
<1>1. PICK a \in Actions : a = proc[e].act
  BY Zenon DEF TypeOK, ThreadType
<1>2. PICK known \in BOOLEAN : known = proc[e].known
  BY Zenon DEF TypeOK, ThreadType
<1>3. /\ proc[e].pc = "record" /\ Recorded(a, "executing", known) /\ Stop(e)
      /\ UNCHANGED <<turns, alerts, external, owner, marker, crashes, unreviewed>>
  BY <1>1, <1>2, Zenon DEF RecordAgentActionSent
<1>4. proc' \in [Executors -> ThreadType] /\ Stops(e)
  BY <1>3, StopFacts, Zenon DEF Stops, Others
<1>5. /\ row' \in [Actions -> RowType] /\ history' \in [Actions -> Nat]
      /\ \A b \in Actions : b # a \/ row[b].status # "executing"
                                => row'[b] = row[b] /\ history'[b] = history[b]
      /\ \A b \in Actions : row'[b].rid = row[b].rid /\ row'[b].attempts = row[b].attempts
      /\ row[a].status = "executing" =>
                 /\ row'[a].status = "executed" /\ ~row'[a].stuck
                 /\ history'[a] = history[a] + 1
  BY <1>3, RecordedFacts
<1>6. TypeOK'
  BY <1>3, <1>4, <1>5, Zenon DEF TypeOK, external, owner
<1> QED
  BY <1>1, <1>3, <1>4, <1>5, <1>6, Zenon

LEMMA UnnoteFacts ==
    ASSUME TypeOK, NEW e \in Executors, UnnoteAgentActionSendAttempt(e)
    PROVE  /\ TypeOK' /\ proc[e].act \in Actions /\ proc[e].pc \in {"flood", "refused"}
           /\ UNCHANGED <<turns, history, alerts, external, owner, marker, crashes, unreviewed>>
           /\ \/ UNCHANGED row /\ Stops(e) /\ row[proc[e].act].status # "executing"
              \/ /\ row[proc[e].act].status = "executing"
                 /\ \A b \in Actions : b # proc[e].act => row'[b] = row[b]
                 /\ row'[proc[e].act].status = "executing"
                 /\ row'[proc[e].act].rid = row[proc[e].act].rid
                 /\ row'[proc[e].act].noted = row[proc[e].act].noted
                 /\ row'[proc[e].act].stuck = row[proc[e].act].stuck
                 /\ row'[proc[e].act].attempts = Unnoted(row[proc[e].act].attempts)
                 /\ \/ Stops(e) \/ GoesTo(e, "unknown")
                    \/ GoesTo(e, "withhold") /\ row'[proc[e].act].attempts = 0
<1>1. PICK a \in Actions : a = proc[e].act
  BY Zenon DEF TypeOK, ThreadType
<1>2. /\ proc[e].pc \in {"flood", "refused"}
      /\ UNCHANGED <<turns, history, alerts, external, owner, marker, crashes, unreviewed>>
      /\ row \in [Actions -> RowType] /\ row[a].attempts \in Nat
  BY Zenon DEF UnnoteAgentActionSendAttempt, TypeOK, RowType
<1>3. CASE UNCHANGED row /\ Stop(e) /\ row[a].status # "executing"
  <2>1. proc' \in [Executors -> ThreadType] /\ Stops(e)
    BY <1>3, StopFacts, Zenon DEF Stops, Others
  <2>2. TypeOK'
    BY <1>2, <1>3, <2>1, Zenon DEF TypeOK, external, owner
  <2> QED
    BY <1>1, <1>2, <1>3, <2>1, <2>2, Zenon
<1>4. ASSUME NEW n, n = Unnoted(row[a].attempts), NEW h \in BOOLEAN, row[a].status = "executing",
             row' = [row EXCEPT ![a].attempts = n, ![a].held = h],
             Stop(e) \/ Goto(e, Settle(n))
      PROVE  /\ TypeOK'
             /\ \A b \in Actions : b # a => row'[b] = row[b]
             /\ row'[a].status = "executing" /\ row'[a].rid = row[a].rid
             /\ row'[a].noted = row[a].noted /\ row'[a].stuck = row[a].stuck
             /\ row'[a].attempts = n
             /\ Stops(e) \/ GoesTo(e, "unknown") \/ (GoesTo(e, "withhold") /\ n = 0)
  <2>1. n \in Nat
    BY <1>2, <1>4 DEF Unnoted
  <2> DEFINE r == [row[a] EXCEPT !.attempts = n, !.held = h]
  <2>2. /\ r \in RowType /\ r.status = row[a].status /\ r.stuck = row[a].stuck /\ r.rid = row[a].rid
        /\ r.attempts = n /\ r.noted = row[a].noted
    BY <1>2, <1>4, <2>1, Zenon DEF RowType
  <2>3. row' = [row EXCEPT ![a] = r]
    BY <1>4, Zenon
  <2> HIDE DEF r
  <2>4. row' \in [Actions -> RowType] /\ row'[a] = r /\ \A b \in Actions : b # a => row'[b] = row[b]
    BY <1>2, <2>2, <2>3, Zenon
  <2>5. Settle(n) = "unknown" \/ (Settle(n) = "withhold" /\ n = 0)
    BY <2>1 DEF Settle
  <2>6. Stop(e) \/ Goto(e, "unknown") \/ (Goto(e, "withhold") /\ n = 0)
    BY <1>4, <2>5, Zenon
  <2>7. /\ proc' \in [Executors -> ThreadType]
        /\ Stops(e) \/ GoesTo(e, "unknown") \/ (GoesTo(e, "withhold") /\ n = 0)
    BY <2>6, StopFacts, GotoFacts DEF Stops, GoesTo, Others, Past
  <2>8. TypeOK'
    BY <1>2, <2>4, <2>7, Zenon DEF TypeOK, external, owner
  <2> QED
    BY <1>4, <2>2, <2>4, <2>7, <2>8, Zenon
<1>5. \/ UNCHANGED row /\ Stop(e) /\ row[a].status # "executing"
      \/ /\ row[a].status = "executing"
         /\ \E h \in BOOLEAN :
               row' = [row EXCEPT ![a].attempts = Unnoted(row[a].attempts), ![a].held = h]
         /\ Stop(e) \/ Goto(e, Settle(Unnoted(row[a].attempts)))
  BY <1>1, Zenon DEF UnnoteAgentActionSendAttempt
<1> HIDE DEF Stops, GoesTo, Stop, Goto
<1> QED
  BY <1>1, <1>2, <1>3, <1>4, <1>5, ZenonT(30)

LEMMA UnknownFacts ==
    ASSUME TypeOK, NEW e \in Executors, MarkAgentActionDeliveryUnknown(e)
    PROVE  /\ TypeOK' /\ proc[e].act \in Actions /\ proc[e].pc = "unknown" /\ Stops(e)
           /\ UNCHANGED <<turns, history, external, owner, marker, crashes, unreviewed>>
           /\ \/ UNCHANGED <<row, alerts>>
              \/ /\ \A b \in Actions : b # proc[e].act => row'[b] = row[b] /\ alerts'[b] = alerts[b]
                 /\ row[proc[e].act].status = "executing"
                 /\ row'[proc[e].act].status = "delivery_unknown" /\ ~row'[proc[e].act].stuck
                 /\ row'[proc[e].act].rid = row[proc[e].act].rid
                 /\ row'[proc[e].act].attempts = row[proc[e].act].attempts
                 /\ row'[proc[e].act].noted = row[proc[e].act].noted
                 /\ alerts'[proc[e].act] = alerts[proc[e].act] + 1
<1>1. PICK a \in Actions : a = proc[e].act
  BY Zenon DEF TypeOK, ThreadType
<1>2. /\ proc[e].pc = "unknown" /\ Stop(e)
      /\ UNCHANGED <<turns, history, external, owner, marker, crashes, unreviewed>>
      /\ row \in [Actions -> RowType] /\ alerts \in [Actions -> Nat]
  BY Zenon DEF MarkAgentActionDeliveryUnknown, TypeOK
<1>3. proc' \in [Executors -> ThreadType] /\ Stops(e)
  BY <1>2, StopFacts, Zenon DEF Stops, Others
<1>4. CASE UNCHANGED <<row, alerts>>
  <2>1. TypeOK'
    BY <1>2, <1>3, <1>4, Zenon DEF TypeOK, external, owner
  <2> QED
    BY <1>1, <1>2, <1>3, <1>4, <2>1, Zenon
<1>5. CASE /\ row[a].status = "executing"
           /\ row' = [row EXCEPT ![a] = MoveTo(@, "delivery_unknown")]
           /\ alerts' = [alerts EXCEPT ![a] = @ + 1]
  <2> DEFINE r == MoveTo(row[a], "delivery_unknown")
  <2>0. row[a] \in RowType
    BY <1>2, Zenon
  <2>1. /\ r \in RowType /\ r.status = "delivery_unknown" /\ ~r.stuck /\ r.rid = row[a].rid
        /\ r.attempts = row[a].attempts /\ r.noted = row[a].noted
    BY <2>0, Zenon DEF MoveTo, RowType, Statuses
  <2> HIDE DEF r
  <2>2. row' = [row EXCEPT ![a] = r]
    BY <1>5, Zenon DEF r
  <2>3. /\ row' \in [Actions -> RowType] /\ row'[a] = r /\ \A b \in Actions : b # a => row'[b] = row[b]
        /\ alerts' \in [Actions -> Nat] /\ alerts'[a] = alerts[a] + 1
        /\ \A b \in Actions : b # a => alerts'[b] = alerts[b]
    BY <1>2, <1>5, <2>1, <2>2
  <2>4. TypeOK'
    BY <1>2, <1>3, <2>3, Zenon DEF TypeOK, external, owner
  <2> QED
    BY <1>1, <1>2, <1>3, <1>5, <2>1, <2>3, <2>4, Zenon
<1> QED
  BY <1>1, <1>4, <1>5, Zenon DEF MarkAgentActionDeliveryUnknown, GivesUp

LEMMA ConsumeFacts ==
    ASSUME TypeOK, NEW a \in Actions, ConsumeSent(a)
    PROVE  /\ TypeOK'
           /\ UNCHANGED <<db, delivered, late, takenOver, settled, proc, unreviewed>>
           /\ echo[a] # "none"
           /\ \A b \in Actions : echo'[b] # "none" => echo[b] # "none"
           /\ \/ lis'.at = "idle"
              \/ lis'.at = "match" /\ lis'.act = a
<1>1. /\ lis.at = "idle" /\ echo[a] \in {"due", "seen"}
      /\ echo' = [echo EXCEPT ![a] = "seen"] /\ marker' = marker \ {a}
      /\ lis' = IF a \in marker THEN lis ELSE [lis EXCEPT !.at = "match", !.act = a]
      /\ UNCHANGED <<db, delivered, late, takenOver, ownerSteps, settled, proc, crashes, unreviewed>>
  BY Zenon DEF ConsumeSent
<1>2. echo' \in [Actions -> {"none", "due", "seen"}] /\ \A b \in Actions : echo'[b] # "none" => echo[b] # "none"
  BY <1>1, Zenon DEF TypeOK
<1>3. lis' \in ListenerType /\ (lis'.at = "idle" \/ (lis'.at = "match" /\ lis'.act = a))
  BY <1>1, Zenon DEF TypeOK, ListenerType
<1>4. TypeOK'
  BY <1>1, <1>2, <1>3, Zenon DEF TypeOK, db
<1> QED
  BY <1>1, <1>2, <1>3, <1>4, Zenon

LEMMA SelectFacts ==
    ASSUME TypeOK, SelectUnconfirmed
    PROVE  /\ TypeOK'
           /\ UNCHANGED <<db, external, takenOver, settled, proc, unreviewed>>
           /\ lis.at = "match" /\ lis'.act = lis.act
<1>1. /\ lis.at = "match"
      /\ lis' = IF Unconfirmed(row[lis.act])
                THEN [lis EXCEPT !.at = "apply", !.seen = row[lis.act].status]
                ELSE [lis EXCEPT !.at = "takeover"]
      /\ UNCHANGED <<db, external, takenOver, ownerSteps, settled, proc, marker, crashes, unreviewed>>
  BY Zenon DEF SelectUnconfirmed
<1>2. lis \in ListenerType /\ row[lis.act].status \in Statuses
  BY Zenon DEF TypeOK, ListenerType, RowType
<1>3. lis' \in ListenerType /\ lis'.act = lis.act
  BY <1>1, <1>2, Zenon DEF ListenerType
<1>4. TypeOK'
  BY <1>1, <1>3, Zenon DEF TypeOK, db, external
<1> QED
  BY <1>1, <1>3, <1>4, Zenon

LEMMA MatchFacts ==
    ASSUME TypeOK, MatchUnconfirmedAgentSend
    PROVE  /\ TypeOK' /\ lis.act \in Actions /\ lis.at = "apply" /\ lis'.at = "idle"
           /\ UNCHANGED <<turns, alerts, external, takenOver, settled, proc, unreviewed>>
           /\ \A b \in Actions : b # lis.act => row'[b] = row[b] /\ history'[b] = history[b]
           /\ \A b \in Actions : row'[b].rid = row[b].rid /\ row'[b].attempts = row[b].attempts
           /\ row'[lis.act].stuck => row[lis.act].stuck
           /\ \/ row'[lis.act].status = row[lis.act].status /\ history'[lis.act] = history[lis.act]
              \/ /\ row[lis.act].status = "delivery_unknown"
                 /\ row'[lis.act].status = "executed" /\ history'[lis.act] = history[lis.act] + 1
<1>1. PICK a \in Actions : a = lis.act
  BY Zenon DEF TypeOK, ListenerType
<1>2. /\ lis.at = "apply" /\ lis' = Quiet
      /\ UNCHANGED <<turns, alerts, external, takenOver, ownerSteps, settled, proc, marker, crashes, unreviewed>>
      /\ row \in [Actions -> RowType] /\ history \in [Actions -> Nat]
  BY Zenon DEF MatchUnconfirmedAgentSend, TypeOK
<1>3. \/ Recorded(a, "delivery_unknown", TRUE)
      \/ row' = [row EXCEPT ![a].noted = @ \/ row[a].status = lis.seen] /\ UNCHANGED history
  BY <1>1, Zenon DEF MatchUnconfirmedAgentSend
<1>4. /\ row' \in [Actions -> RowType] /\ history' \in [Actions -> Nat]
      /\ \A b \in Actions : b # a => row'[b] = row[b] /\ history'[b] = history[b]
      /\ \A b \in Actions : row'[b].rid = row[b].rid /\ row'[b].attempts = row[b].attempts
      /\ row'[a].stuck => row[a].stuck
      /\ \/ row'[a].status = row[a].status /\ history'[a] = history[a]
         \/ /\ row[a].status = "delivery_unknown"
            /\ row'[a].status = "executed" /\ history'[a] = history[a] + 1
  <2>1. CASE Recorded(a, "delivery_unknown", TRUE)
    BY <2>1, RecordedFacts, ZenonT(30)
  <2>2. CASE row' = [row EXCEPT ![a].noted = @ \/ row[a].status = lis.seen] /\ UNCHANGED history
    <3> DEFINE r == [row[a] EXCEPT !.noted = @ \/ row[a].status = lis.seen]
    <3>1. /\ r \in RowType /\ r.status = row[a].status /\ r.rid = row[a].rid
          /\ r.attempts = row[a].attempts /\ r.stuck = row[a].stuck
      BY <1>2, Zenon DEF RowType
    <3>2. row' = [row EXCEPT ![a] = r]
      BY <2>2, Zenon
    <3> HIDE DEF r
    <3> QED
      BY <1>2, <2>2, <3>1, <3>2, Zenon
  <2> QED
    BY <1>3, <2>1, <2>2, Zenon
<1>5. TypeOK'
  BY <1>2, <1>4, QuietType, Zenon DEF TypeOK, external
<1>6. Quiet.at = "idle"
  BY Zenon DEF Quiet
<1> QED
  BY <1>1, <1>2, <1>4, <1>5, <1>6, Zenon

\* What the owner does; only the UPDATE of a takeover touches rows.
LEMMA OwnerFacts ==
    ASSUME TypeOK, OwnerSteps \/ SetConversationTakenOver
    PROVE  /\ TypeOK'
           /\ UNCHANGED <<db, external, proc, marker, crashes, unreviewed>>
           /\ lis'.at \notin {"match", "apply"}
           /\ settled' => settled /\ (takenOver => takenOver')
<1>1. /\ UNCHANGED <<db, external, proc, marker, crashes, unreviewed>>
      /\ \E at \in {"takeover", "resetTurns", "denyPending"} : lis' = [lis EXCEPT !.at = at]
      /\ ownerSteps' \in Nat /\ takenOver' \in BOOLEAN /\ settled' \in BOOLEAN
      /\ \/ UNCHANGED <<takenOver, settled>> \/ ~settled' \/ (takenOver' /\ settled' = settled)
  <2>1. CASE OwnerSteps
    <3>1. ownerSteps' \in Nat
      BY <2>1 DEF OwnerSteps, TypeOK
    <3>2. takenOver \in BOOLEAN /\ settled \in BOOLEAN
      BY Zenon DEF TypeOK
    <3>3. CASE UNCHANGED <<takenOver, settled>> /\ lis' = [lis EXCEPT !.at = "takeover"]
      BY <2>1, <3>1, <3>2, <3>3, Zenon DEF OwnerSteps
    <3>4. CASE takenOver' = FALSE /\ settled' = FALSE /\ lis' = [lis EXCEPT !.at = "resetTurns"]
      BY <2>1, <3>1, <3>4, Zenon DEF OwnerSteps
    <3> QED
      BY <2>1, <3>3, <3>4, Zenon DEF OwnerSteps
  <2>2. CASE SetConversationTakenOver
    BY <2>2, Zenon DEF SetConversationTakenOver, TypeOK
  <2> QED
    BY <2>1, <2>2, Zenon
<1>2. lis' \in ListenerType /\ lis'.at \notin {"match", "apply"}
  BY <1>1, Zenon DEF TypeOK, ListenerType
<1>3. TypeOK'
  BY <1>1, <1>2, Zenon DEF TypeOK, db, external
<1> QED
  BY <1>1, <1>2, <1>3

LEMMA DenyPendingFacts ==
    ASSUME TypeOK, DenyPendingActionsForConversation
    PROVE  /\ TypeOK'
           /\ UNCHANGED <<turns, history, alerts, external, takenOver, proc, unreviewed>>
           /\ lis'.at = "idle"
           /\ \A b \in Actions : row'[b] = row[b] \/ Decided(b)
           /\ \A b \in Actions : row'[b].status # "approved" /\ row'[b].status # row[b].status
                                    => row'[b].status = "denied"
           /\ \/ settled' = takenOver /\ \A b \in Actions : row'[b].status # "approved"
              \/ UNCHANGED <<row, settled>>
<1>1. /\ lis' = Quiet
      /\ UNCHANGED <<turns, history, alerts, external, takenOver, ownerSteps, proc, marker, crashes, unreviewed>>
      /\ row \in [Actions -> RowType] /\ takenOver \in BOOLEAN /\ settled \in BOOLEAN
  BY Zenon DEF DenyPendingActionsForConversation, TypeOK
<1>2. Quiet.at = "idle"
  BY Zenon DEF Quiet
<1>3. CASE UNCHANGED <<row, settled>>
  <2>1. TypeOK'
    BY <1>1, <1>3, QuietType, Zenon DEF TypeOK, external
  <2> QED
    BY <1>1, <1>2, <1>3, <2>1, Zenon
<1>4. CASE /\ row' = [a \in Actions |-> IF Draft(a) THEN MoveTo(row[a], "denied") ELSE row[a]]
           /\ settled' = takenOver
  <2>1. ASSUME NEW b \in Actions
        PROVE  /\ row'[b] \in RowType
               /\ row'[b] = row[b] \/ (Decided(b) /\ row'[b].status = "denied")
               /\ row'[b].status # "approved"
    <3>1. row[b] \in RowType
      BY <1>1, Zenon
    <3>2. /\ MoveTo(row[b], "denied") \in RowType /\ MoveTo(row[b], "denied").status = "denied"
          /\ ~MoveTo(row[b], "denied").stuck /\ MoveTo(row[b], "denied").rid = row[b].rid
          /\ MoveTo(row[b], "denied").attempts = row[b].attempts
          /\ MoveTo(row[b], "denied").noted = row[b].noted
      BY <3>1, Zenon DEF MoveTo, RowType, Statuses
    <3> HIDE DEF MoveTo
    <3>3. row'[b] = IF Draft(b) THEN MoveTo(row[b], "denied") ELSE row[b]
      BY <1>4, Zenon
    <3> QED
      BY <3>1, <3>2, <3>3, Zenon DEF Decided, Draft
  <2>2. row' \in [Actions -> RowType]
    BY <1>4, <2>1, Zenon
  <2>3. TypeOK'
    BY <1>1, <1>4, <2>2, QuietType DEF TypeOK, external
  <2> QED
    BY <1>1, <1>2, <1>4, <2>1, <2>3, Zenon
<1> QED
  BY <1>3, <1>4, Zenon DEF DenyPendingActionsForConversation

LEMMA ResetFacts ==
    ASSUME TypeOK, ResetAutonomousTurns
    PROVE  /\ TypeOK'
           /\ UNCHANGED <<row, history, alerts, external, takenOver, settled, proc>>
           /\ turns' = 0 /\ unreviewed' = 0 /\ lis'.at = "idle"
<1>1. /\ turns' = 0 /\ unreviewed' = 0 /\ lis' = Quiet
      /\ UNCHANGED <<row, history, alerts, external, takenOver, ownerSteps, settled, proc, marker, crashes>>
  BY Zenon DEF ResetAutonomousTurns
<1>2. Quiet.at = "idle"
  BY Zenon DEF Quiet
<1>3. TypeOK'
  BY <1>1, QuietType, Zenon DEF TypeOK, external
<1> QED
  BY <1>1, <1>2, <1>3, Zenon

Unsent == {"none", "pending_approval", "approved"}

-----------------------------------------------------------------------------
(* One random id per action, recorded outcomes. *)

\* A draft has no random id; an action that went out has the first one, and
\* that is the only one Telegram ever sees.
RowInv(a) ==
    /\ row[a].rid \in {0, 1}
    /\ row[a].stuck => row[a].status = "executing"
    /\ row[a].status \in Unsent => row[a].rid = 0 /\ row[a].attempts = 0
    /\ row[a].status \in {"executing", "executed", "delivery_unknown"} => row[a].rid = 1
    /\ delivered[a] \subseteq {1}
    /\ delivered[a] # {} => row[a].rid = 1
    /\ row[a].noted \/ echo[a] # "none" \/ row[a].status = "executed" => delivered[a] # {}
    /\ history[a] = IF row[a].status = "executed" THEN 1 ELSE 0
    /\ alerts[a] \in {0, 1}
    /\ row[a].status = "delivery_unknown" => alerts[a] = 1
    /\ alerts[a] = 1 => row[a].status \in {"delivery_unknown", "executed"}

\* A thread works on a draft that was approved; past the reservation it has
\* the random id of the row, and it records only what was delivered.
ThreadInv(e) ==
    /\ proc[e].pc \in Early => row[proc[e].act].status \notin {"none", "pending_approval"}
    /\ proc[e].pc \in Past => proc[e].rid = 1 /\ row[proc[e].act].rid = 1
    /\ proc[e].pc \in {"mark", "record"} \/ proc[e].known => delivered[proc[e].act] # {}

LateInv == \A m \in late : m[2] = 1 /\ row[m[1]].rid = 1

ListenerInv == lis.at \in {"match", "apply"} => delivered[lis.act] # {}

SendInv ==
    /\ TypeOK
    /\ \A a \in Actions : RowInv(a)
    /\ \A e \in Executors : ThreadInv(e)
    /\ LateInv
    /\ ListenerInv

\* Every attempt that may be at Telegram, or be taken back, is counted.
Sending == {"rpc", "flood", "refused"}
Counting(a) == {e \in Executors : proc[e].pc \in Sending /\ proc[e].act = a}
Burnt(a) == delivered[a] # {} \/ <<a, 1>> \in late

CountInv(a) ==
    /\ IsFiniteSet(Counting(a))
    /\ row[a].attempts >= Cardinality(Counting(a)) + (IF Burnt(a) THEN 1 ELSE 0)

TurnInv == unreviewed <= turns /\ unreviewed <= MaxAutonomousTurns

TakeoverInv ==
    settled => /\ takenOver
               /\ \A e \in Executors :
                     proc[e].pc = "reserve" => row[proc[e].act].status # "approved"

-----------------------------------------------------------------------------
(* SendInv is inductive. *)

\* What a row has gained it keeps.
Onward ==
    \A b \in Actions :
        /\ row[b].rid = 1 => row'[b].rid = 1
        /\ delivered[b] # {} => delivered'[b] # {}
        /\ row[b].status \notin {"none", "pending_approval"}
             => row'[b].status \notin {"none", "pending_approval"}

LEMMA ThreadKept ==
    ASSUME SendInv, Onward, NEW f \in Executors, proc'[f] = proc[f]
    PROVE  ThreadInv(f)'
<1>1. PICK a \in Actions : proc[f].act = a /\ proc'[f].act = a
  BY Zenon DEF SendInv, TypeOK, ThreadType
<1>2. ThreadInv(f)
  BY Zenon DEF SendInv
<1> QED
  BY <1>1, <1>2, Zenon DEF ThreadInv, Onward

LEMMA ThreadGoes ==
    ASSUME SendInv, Onward, NEW e \in Executors, NEW pc, GoesTo(e, pc),
           pc \in Early => proc[e].pc \in Early,
           pc \in Past => proc[e].pc \in Past,
           pc \in {"mark", "record"} => delivered'[proc[e].act] # {}
    PROVE  ThreadInv(e)'
<1>1. PICK a \in Actions : proc[e].act = a /\ proc'[e].act = a
  BY Zenon DEF SendInv, TypeOK, ThreadType, GoesTo
<1>2. ThreadInv(e)
  BY Zenon DEF SendInv
<1>3. proc'[e].pc = pc /\ proc'[e].rid = proc[e].rid /\ proc'[e].known = proc[e].known
  BY Zenon DEF GoesTo
<1> QED
  BY <1>1, <1>2, <1>3, Zenon DEF ThreadInv, Onward

LEMMA ThreadStops ==
    ASSUME NEW e \in Executors, Stops(e)
    PROVE  ThreadInv(e)'
  BY Zenon DEF Stops, ThreadInv, Early, Past

LEMMA ThreadsFollow ==
    ASSUME SendInv, Onward, NEW e \in Executors, Others(e), ThreadInv(e)'
    PROVE  \A f \in Executors : ThreadInv(f)'
<1> SUFFICES ASSUME NEW f \in Executors PROVE ThreadInv(f)'
  OBVIOUS
<1>1. f # e => proc'[f] = proc[f]
  BY Zenon DEF Others
<1> QED
  BY <1>1, ThreadKept, Zenon

LEMMA LateKept ==
    ASSUME SendInv, TypeOK', Onward,
           \A m \in late' : m \in late \/ (m[2] = 1 /\ row'[m[1]].rid = 1)
    PROVE  LateInv'
<1> SUFFICES ASSUME NEW m \in late' PROVE m[2] = 1 /\ row'[m[1]].rid = 1
  BY Zenon DEF LateInv
<1>1. m \in Actions \X Nat /\ m[1] \in Actions
  BY Zenon DEF TypeOK
<1> QED
  BY <1>1, Zenon DEF SendInv, LateInv, Onward

\* A row that is kept, decided on or refused, while nothing reaches the peer.
Refused(b) ==
    /\ row'[b].rid = row[b].rid /\ row'[b].attempts = row[b].attempts
    /\ row'[b].noted = row[b].noted /\ ~row'[b].stuck
    /\ row[b].status = "executing" /\ row'[b].status = "denied"

QuietRow(b) ==
    \/ row'[b] = row[b]
    \/ Kept(b) /\ (row'[b].stuck => row[b].status = "executing")
    \/ Decided(b)
    \/ Refused(b)

LEMMA QuietRows ==
    ASSUME SendInv, TypeOK', UNCHANGED <<delivered, history, alerts>>,
           \A b \in Actions : echo'[b] # "none" => echo[b] # "none",
           \A b \in Actions : QuietRow(b)
    PROVE  Onward /\ \A b \in Actions : RowInv(b)'
<1>1. ASSUME NEW b \in Actions
      PROVE  /\ RowInv(b)'
             /\ row'[b].rid = row[b].rid
             /\ row[b].status \notin {"none", "pending_approval"}
                  => row'[b].status \notin {"none", "pending_approval"}
  <2>1. RowInv(b) /\ row[b].status \in Statuses /\ (echo'[b] # "none" => echo[b] # "none")
    BY Zenon DEF SendInv, TypeOK, RowType
  <2>2. CASE row'[b] = row[b]
    BY <2>1, <2>2, Zenon DEF RowInv
  <2>3. CASE Kept(b) /\ (row'[b].stuck => row[b].status = "executing")
    BY <2>1, <2>3, Zenon DEF RowInv, Kept
  <2>4. CASE Decided(b)
    BY <2>1, <2>4, Zenon DEF RowInv, Decided, Unsent
  <2>5. CASE Refused(b)
    BY <2>1, <2>5, Zenon DEF RowInv, Refused, Unsent
  <2> QED
    BY <2>2, <2>3, <2>4, <2>5, Zenon DEF QuietRow
<1>2. Onward
  BY <1>1, Zenon DEF Onward
<1> QED
  BY <1>1, <1>2, Zenon

LEMMA QuietSend ==
    ASSUME SendInv, TypeOK', UNCHANGED <<delivered, history, alerts>>,
           \A b \in Actions : echo'[b] # "none" => echo[b] # "none",
           \A b \in Actions : QuietRow(b),
           \A m \in late' : m \in late \/ (m[2] = 1 /\ row'[m[1]].rid = 1),
           (UNCHANGED lis) \/ lis'.at \notin {"match", "apply"} \/ ListenerInv',
           UNCHANGED proc \/ \E e \in Executors : Others(e) /\ ThreadInv(e)'
    PROVE  SendInv'
<1>1. Onward /\ \A b \in Actions : RowInv(b)'
  BY QuietRows, Zenon
<1>2. LateInv'
  BY <1>1, LateKept, Zenon
<1>3. \A f \in Executors : ThreadInv(f)'
  BY <1>1, ThreadKept, ThreadsFollow, Zenon
<1>4. ListenerInv'
  BY Zenon DEF SendInv, ListenerInv
<1> QED
  BY <1>1, <1>2, <1>3, <1>4, Zenon DEF SendInv

\* The steps of a draft, of the clocks and of the owner.
LEMMA DraftSend ==
    ASSUME SendInv, NEW a \in Actions,
           \/ InsertAgentAction(a) \/ Reject(a) \/ ExpireStaleAgentActions(a)
           \/ GraceEnds(a) \/ TTLEnds(a) \/ FloodWaitEnds(a)
    PROVE  SendInv'
<1>t. TypeOK /\ RowInv(a) /\ \A b \in Actions : RowInv(b)
  BY Zenon DEF SendInv
<1>1. CASE InsertAgentAction(a)
  <2>1. ~row[a].stuck
    BY <1>t, <1>1, Zenon DEF RowInv, InsertAgentAction
  <2>2. /\ TypeOK' /\ UNCHANGED <<delivered, late, echo, lis, history, alerts, proc>>
        /\ \A b \in Actions : row'[b] = row[b] \/ Decided(b)
    BY <1>t, <1>1, <2>1, InsertFacts, Zenon DEF external, owner
  <2> QED
    BY <2>2, QuietSend, Zenon DEF QuietRow
<1>2. CASE Reject(a) \/ ExpireStaleAgentActions(a)
  <2>1. /\ TypeOK' /\ UNCHANGED <<delivered, late, echo, lis, history, alerts, proc>>
        /\ \A b \in Actions : row'[b] = row[b] \/ Decided(b)
    BY <1>t, <1>2, WithdrawFacts, Zenon DEF external, owner
  <2> QED
    BY <2>1, QuietSend, Zenon DEF QuietRow
<1>3. CASE GraceEnds(a) \/ TTLEnds(a) \/ FloodWaitEnds(a)
  <2>1. /\ TypeOK' /\ UNCHANGED <<delivered, late, echo, lis, history, alerts, proc>>
        /\ \A b \in Actions : Kept(b)
        /\ \A b \in Actions : row'[b].stuck => row[b].stuck \/ (GraceEnds(a) /\ b = a)
    BY <1>t, <1>3, ClockFacts, Zenon DEF external, owner
  <2>2. \A b \in Actions : row'[b].stuck => row[b].status = "executing"
    BY <1>t, <2>1, Zenon DEF RowInv, GraceEnds
  <2> QED
    BY <2>1, <2>2, QuietSend, Zenon DEF QuietRow
<1> QED
  BY <1>1, <1>2, <1>3, Zenon

LEMMA BeginSend ==
    ASSUME SendInv, NEW e \in Executors, NEW a \in Actions,
           Approve(e, a) \/ ProcessApproved(e, a) \/ RecoverStuck(e, a)
    PROVE  SendInv'
<1>t. TypeOK /\ \A b \in Actions : RowInv(b)
  BY Zenon DEF SendInv
<1>1. CASE Approve(e, a)
  <2>1. /\ TypeOK' /\ UNCHANGED <<delivered, late, echo, lis, history, alerts>>
        /\ \A b \in Actions : row'[b] = row[b] \/ Decided(b)
        /\ \/ UNCHANGED proc
           \/ /\ row'[a].status = "approved" /\ Others(e)
              /\ proc'[e].pc = "load" /\ proc'[e].act = a /\ ~proc'[e].known
    BY <1>t, <1>1, ApproveFacts DEF external, owner
  <2>2. UNCHANGED proc \/ (Others(e) /\ ThreadInv(e)')
    BY <2>1, Zenon DEF ThreadInv, Past
  <2> QED
    BY <2>1, <2>2, QuietSend, Zenon DEF QuietRow
<1>2. CASE ProcessApproved(e, a)
  <2>1. /\ TypeOK' /\ UNCHANGED <<row, delivered, late, echo, lis, history, alerts>>
        /\ row[a].status = "approved" /\ Others(e)
        /\ proc'[e].pc = "load" /\ proc'[e].act = a /\ ~proc'[e].known
    BY <1>t, <1>2, ProcessFacts, Zenon DEF external, owner, db
  <2>2. ThreadInv(e)'
    BY <2>1, Zenon DEF ThreadInv, Past
  <2> QED
    BY <2>1, <2>2, QuietSend, Zenon DEF QuietRow
<1>3. CASE RecoverStuck(e, a)
  <2>1. /\ TypeOK' /\ UNCHANGED <<row, delivered, late, echo, lis, history, alerts>>
        /\ row[a].status = "executing" /\ Others(e)
        /\ proc'[e].pc = "recover" /\ proc'[e].act = a
        /\ proc'[e].rid = row[a].rid /\ proc'[e].known = row[a].noted
    BY <1>t, <1>3, RecoverFacts DEF external, owner, db
  <2>2. ThreadInv(e)'
    BY <1>t, <2>1, Zenon DEF ThreadInv, Early, RowInv
  <2> QED
    BY <2>1, <2>2, QuietSend, Zenon DEF QuietRow
<1> QED
  BY <1>1, <1>2, <1>3, Zenon

\* The steps of a thread that change neither the peer's chat nor the account
\* of it.
LEMMA QuietThreadSend ==
    ASSUME SendInv, NEW e \in Executors,
           \/ EvaluatePolicy(e) \/ RefuseMessage(e) \/ recoverOne(e)
           \/ DenyApproved(e) \/ DenyExecuting(e)
           \/ LoseAnswer(e) \/ Crash(e) \/ MarkSent(e)
    PROVE  SendInv'
<1>t. TypeOK /\ \A b \in Actions : RowInv(b)
  BY Zenon DEF SendInv
<1>e. ThreadInv(e) /\ proc[e].act \in Actions
  BY <1>t, Zenon DEF SendInv, TypeOK, ThreadType
<1>o. UNCHANGED <<row, delivered>> => Onward
  BY Zenon DEF Onward
<1>1. CASE EvaluatePolicy(e) \/ RefuseMessage(e) \/ recoverOne(e)
  <2>1. /\ TypeOK' /\ UNCHANGED <<row, delivered, late, echo, lis, history, alerts>>
        /\ \/ /\ proc[e].pc = "load"
              /\ GoesTo(e, "deny") \/ (GoesTo(e, "reserve") /\ ~takenOver)
           \/ proc[e].pc = "rpc" /\ (GoesTo(e, "flood") \/ GoesTo(e, "refused"))
           \/ /\ proc[e].pc = "recover"
              /\ \/ GoesTo(e, "record") /\ proc[e].known
                 \/ GoesTo(e, "unknown") \/ GoesTo(e, "note") \/ Stops(e)
                 \/ GoesTo(e, "withhold") /\ proc[e].seen = 0
    BY <1>t, <1>1, ReadFacts, Zenon DEF external, owner, db
  <2>2. Others(e)
    BY <2>1, Zenon DEF GoesTo, Stops
  <2>3. ThreadInv(e)'
    <3>1. CASE Stops(e)
      BY <3>1, ThreadStops, Zenon
    <3>2. CASE proc[e].pc = "recover" /\ GoesTo(e, "record") /\ proc[e].known
      <4>1. delivered'[proc[e].act] # {}
        BY <1>e, <2>1, <3>2, Zenon DEF ThreadInv
      <4> QED
        BY <1>o, <2>1, <3>2, <4>1, ThreadGoes, Zenon DEF Early, Past
    <3>3. CASE \E pc \in {"deny", "reserve"} : proc[e].pc = "load" /\ GoesTo(e, pc)
      BY <1>o, <2>1, <3>3, ThreadGoes, Zenon DEF Early, Past
    <3>4. CASE \E pc \in {"flood", "refused", "unknown", "note", "withhold"} :
                  proc[e].pc \in {"rpc", "recover"} /\ GoesTo(e, pc)
      BY <1>o, <2>1, <3>4, ThreadGoes, Zenon DEF Early, Past
    <3> QED
      BY <2>1, <3>1, <3>2, <3>3, <3>4, Zenon
  <2> QED
    BY <2>1, <2>2, <2>3, QuietSend, Zenon DEF QuietRow
<1>2. CASE DenyApproved(e) \/ DenyExecuting(e)
  <2>1. \E from : \/ DenyApproved(e) /\ from = "approved" /\ proc[e].pc = "deny"
                  \/ DenyExecuting(e) /\ from = "executing" /\ proc[e].pc = "withhold"
    BY <1>2, Zenon DEF DenyApproved, DenyExecuting
  <2>2. PICK from \in {"approved", "executing"} :
           \/ DenyApproved(e) /\ from = "approved" /\ proc[e].pc = "deny"
           \/ DenyExecuting(e) /\ from = "executing" /\ proc[e].pc = "withhold"
    BY <2>1, Zenon
  <2>3. /\ TypeOK' /\ UNCHANGED <<delivered, late, echo, lis, history, alerts>> /\ Stops(e)
        /\ \A b \in Actions :
              /\ row'[b].rid = row[b].rid /\ row'[b].attempts = row[b].attempts
              /\ row'[b].noted = row[b].noted
              /\ \/ row'[b] = row[b]
                 \/ /\ b = proc[e].act /\ row[b].status = from
                    /\ row'[b].status = "denied" /\ ~row'[b].stuck
    BY <1>t, <2>2, DenyFacts DEF external, owner
  <2>4. \A b \in Actions : QuietRow(b)
    BY <2>3, Zenon DEF QuietRow, Decided, Refused
  <2>5. Others(e) /\ ThreadInv(e)'
    BY <2>3, ThreadStops, Zenon DEF Stops
  <2> QED
    BY <2>3, <2>4, <2>5, QuietSend, Zenon
<1>3. CASE LoseAnswer(e)
  <2>1. /\ TypeOK' /\ UNCHANGED <<row, delivered, echo, lis, history, alerts>>
        /\ proc[e].pc = "rpc" /\ late' = late \cup {<<proc[e].act, proc[e].rid>>}
        /\ GoesTo(e, "unknown") \/ Stops(e)
    BY <1>t, <1>3, LoseFacts, Zenon DEF owner, db
  <2>2. proc[e].rid = 1 /\ row'[proc[e].act].rid = 1
    BY <1>e, <2>1, Zenon DEF ThreadInv, Past
  <2>3. Others(e) /\ ThreadInv(e)'
    BY <1>o, <2>1, ThreadStops, ThreadGoes, Zenon DEF Stops, GoesTo, Early, Past
  <2>4. \A b \in Actions : QuietRow(b)
    BY <2>1, Zenon DEF QuietRow
  <2>5. \A m \in late' : m \in late \/ (m[2] = 1 /\ row'[m[1]].rid = 1)
    BY <2>1, <2>2
  <2> QED
    BY <2>1, <2>3, <2>4, <2>5, QuietSend, Zenon
<1>4. CASE Crash(e)
  <2>1. /\ TypeOK' /\ UNCHANGED <<row, delivered, echo, lis, history, alerts>> /\ Stops(e)
        /\ late' = IF proc[e].pc = "rpc" THEN late \cup {<<proc[e].act, proc[e].rid>>} ELSE late
    BY <1>t, <1>4, CrashFacts, Zenon DEF owner, db
  <2>2. proc[e].pc = "rpc" => proc[e].rid = 1 /\ row'[proc[e].act].rid = 1
    BY <1>e, <2>1, Zenon DEF ThreadInv, Past
  <2>3. Others(e) /\ ThreadInv(e)'
    BY <2>1, ThreadStops, Zenon DEF Stops
  <2>4. \A b \in Actions : QuietRow(b)
    BY <2>1, Zenon DEF QuietRow
  <2>5. \A m \in late' : m \in late \/ (m[2] = 1 /\ row'[m[1]].rid = 1)
    BY <2>1, <2>2
  <2> QED
    BY <2>1, <2>3, <2>4, <2>5, QuietSend, Zenon
<1>5. CASE MarkSent(e)
  <2>1. /\ TypeOK' /\ UNCHANGED <<row, delivered, late, echo, lis, history, alerts>>
        /\ proc[e].pc = "mark" /\ Others(e) /\ proc'[e].pc = "record"
        /\ proc'[e].act = proc[e].act /\ proc'[e].rid = proc[e].rid
    BY <1>t, <1>5, MarkFacts, Zenon DEF external, owner, db
  <2>2. ThreadInv(e)'
    BY <1>e, <2>1, Zenon DEF ThreadInv, Early, Past
  <2> QED
    BY <2>1, <2>2, QuietSend, Zenon DEF QuietRow
<1> QED
  BY <1>1, <1>2, <1>3, <1>4, <1>5, Zenon

\* Reserving, counting and taking back an attempt.
LEMMA CountingSend ==
    ASSUME SendInv, NEW e \in Executors,
           \/ ReserveAgentActionSend(e) \/ NoteAgentActionSendAttempt(e)
           \/ UnnoteAgentActionSendAttempt(e)
    PROVE  SendInv'
<1>t. TypeOK /\ \A b \in Actions : RowInv(b)
  BY Zenon DEF SendInv
<1>1. PICK a \in Actions : proc[e].act = a
  BY <1>t, Zenon DEF TypeOK, ThreadType
<1>e. ThreadInv(e) /\ RowInv(a)
  BY <1>t, Zenon DEF SendInv
<1>o. UNCHANGED <<row, delivered>> => Onward
  BY Zenon DEF Onward
\* Enough to know when the row moves.
<1>2. ASSUME TypeOK', UNCHANGED <<delivered, late, echo, lis, history, alerts>>,
             \A b \in Actions : b # a => row'[b] = row[b],
             row[a].status \in {"approved", "executing"},
             row'[a].status = "executing", row'[a].rid = 1, row'[a].noted = row[a].noted,
             Others(e), Onward => ThreadInv(e)'
      PROVE  SendInv'
  <2>1. RowInv(a)'
    BY <1>e, <1>2, Zenon DEF RowInv, Unsent
  <2>2. \A b \in Actions : RowInv(b)'
    BY <1>t, <1>2, <2>1 DEF RowInv
  <2>3. Onward
    BY <1>2, Zenon DEF Onward
  <2>4. LateInv' /\ ListenerInv'
    BY <1>2, <2>3, LateKept, Zenon DEF SendInv, ListenerInv
  <2>5. \A f \in Executors : ThreadInv(f)'
    BY <1>2, <2>3, ThreadsFollow, Zenon
  <2> QED
    BY <1>2, <2>2, <2>4, <2>5, Zenon DEF SendInv
\* And when it does not.
<1>3. ASSUME TypeOK', UNCHANGED <<row, delivered, late, echo, lis, history, alerts>>,
             Others(e), ThreadInv(e)'
      PROVE  SendInv'
  BY <1>3, QuietSend, Zenon DEF QuietRow
<1>4. CASE ReserveAgentActionSend(e)
  <2>1. /\ TypeOK' /\ proc[e].pc = "reserve"
        /\ UNCHANGED <<delivered, late, echo, lis, history, alerts>>
        /\ \A b \in Actions : b # a => row'[b] = row[b]
        /\ \/ UNCHANGED row /\ (GoesTo(e, "deny") \/ Stops(e))
           \/ /\ row[a].status = "approved" /\ row'[a].status = "executing"
              /\ row'[a].rid = row[a].rid + 1 /\ row'[a].noted = row[a].noted
              /\ Others(e) /\ proc'[e].pc = "note" /\ proc'[e].act = a
              /\ proc'[e].known = proc[e].known /\ proc'[e].rid = row[a].rid + 1
    BY <1>t, <1>1, <1>4, ReserveFacts, Zenon DEF external, owner
  <2>2. CASE UNCHANGED row /\ (GoesTo(e, "deny") \/ Stops(e))
    <3>1. Others(e) /\ ThreadInv(e)'
      BY <1>o, <2>1, <2>2, ThreadStops, ThreadGoes, Zenon DEF Stops, GoesTo, Early, Past
    <3> QED
      BY <1>3, <2>1, <2>2, <3>1, Zenon
  <2>3. CASE /\ row[a].status = "approved" /\ row'[a].status = "executing"
             /\ row'[a].rid = row[a].rid + 1 /\ row'[a].noted = row[a].noted
             /\ Others(e) /\ proc'[e].pc = "note" /\ proc'[e].act = a
             /\ proc'[e].known = proc[e].known /\ proc'[e].rid = row[a].rid + 1
    <3>1. row[a].rid = 0
      BY <1>e, <2>3, Zenon DEF RowInv, Unsent
    <3>2. row'[a].rid = 1 /\ proc'[e].rid = 1
      BY <2>3, <3>1
    <3>3. ThreadInv(e)'
      BY <1>1, <1>e, <2>1, <2>3, <3>2, Zenon DEF ThreadInv, Early
    <3> QED
      BY <1>2, <2>1, <2>3, <3>2, <3>3, Zenon
  <2> QED
    BY <2>1, <2>2, <2>3, Zenon
<1>5. CASE NoteAgentActionSendAttempt(e)
  <2>1. /\ TypeOK' /\ proc[e].pc = "note"
        /\ UNCHANGED <<delivered, late, echo, lis, history, alerts>>
        /\ \/ UNCHANGED row /\ Stops(e)
           \/ /\ \A b \in Actions : b # a => row'[b] = row[b]
              /\ row[a].status = "executing" /\ row'[a].status = "executing"
              /\ row'[a].rid = row[a].rid /\ row'[a].noted = row[a].noted
              /\ Others(e) /\ proc'[e].pc = "rpc" /\ proc'[e].act = a
              /\ proc'[e].known = proc[e].known /\ proc'[e].rid = proc[e].rid
    BY <1>t, <1>1, <1>5, NoteFacts, Zenon DEF external, owner
  <2>2. CASE UNCHANGED row /\ Stops(e)
    <3>1. Others(e) /\ ThreadInv(e)'
      BY <2>2, ThreadStops, Zenon DEF Stops
    <3> QED
      BY <1>3, <2>1, <2>2, <3>1, Zenon
  <2>3. CASE /\ \A b \in Actions : b # a => row'[b] = row[b]
             /\ row[a].status = "executing" /\ row'[a].status = "executing"
             /\ row'[a].rid = row[a].rid /\ row'[a].noted = row[a].noted
             /\ Others(e) /\ proc'[e].pc = "rpc" /\ proc'[e].act = a
             /\ proc'[e].known = proc[e].known /\ proc'[e].rid = proc[e].rid
    <3>1. row'[a].rid = 1 /\ proc'[e].rid = 1
      BY <1>e, <2>1, <2>3, Zenon DEF RowInv, ThreadInv, Past
    <3>2. ThreadInv(e)'
      BY <1>1, <1>e, <2>1, <2>3, <3>1, Zenon DEF ThreadInv, Early
    <3> QED
      BY <1>2, <2>1, <2>3, <3>1, <3>2
  <2> QED
    BY <2>1, <2>2, <2>3, Zenon
<1>6. CASE UnnoteAgentActionSendAttempt(e)
  <2>1. /\ TypeOK' /\ proc[e].pc \in {"flood", "refused"}
        /\ UNCHANGED <<delivered, late, echo, lis, history, alerts>>
        /\ \/ UNCHANGED row /\ Stops(e)
           \/ /\ \A b \in Actions : b # a => row'[b] = row[b]
              /\ row[a].status = "executing" /\ row'[a].status = "executing"
              /\ row'[a].rid = row[a].rid /\ row'[a].noted = row[a].noted
              /\ Stops(e) \/ GoesTo(e, "unknown") \/ GoesTo(e, "withhold")
    BY <1>t, <1>1, <1>6, UnnoteFacts, Zenon DEF external, owner
  <2>2. CASE UNCHANGED row /\ Stops(e)
    <3>1. Others(e) /\ ThreadInv(e)'
      BY <2>2, ThreadStops, Zenon DEF Stops
    <3> QED
      BY <1>3, <2>1, <2>2, <3>1, Zenon
  <2>3. CASE /\ \A b \in Actions : b # a => row'[b] = row[b]
             /\ row[a].status = "executing" /\ row'[a].status = "executing"
             /\ row'[a].rid = row[a].rid /\ row'[a].noted = row[a].noted
             /\ Stops(e) \/ GoesTo(e, "unknown") \/ GoesTo(e, "withhold")
    <3>1. row'[a].rid = 1
      BY <1>e, <2>3, Zenon DEF RowInv
    <3>2. Others(e)
      BY <2>3, Zenon DEF Stops, GoesTo
    <3>3. Onward => ThreadInv(e)'
      BY <2>1, <2>3, ThreadStops, ThreadGoes, Zenon DEF Early, Past
    <3> QED
      BY <1>2, <2>1, <2>3, <3>1, <3>2, <3>3, Zenon
  <2> QED
    BY <2>1, <2>2, <2>3, Zenon
<1> QED
  BY <1>4, <1>5, <1>6, Zenon

\* Telegram delivers, at once or late.
LEMMA DeliverySend ==
    ASSUME SendInv, LateMessage \/ \E e \in Executors : SendMessage(e)
    PROVE  SendInv'
<1>t. TypeOK /\ LateInv /\ \A b \in Actions : RowInv(b)
  BY Zenon DEF SendInv
<1>1. ASSUME NEW a \in Actions, TypeOK', UNCHANGED <<row, lis, history, alerts>>, row[a].rid = 1,
             delivered'[a] = delivered[a] \cup {1},
             \A b \in Actions : b # a => delivered'[b] = delivered[b] /\ echo'[b] = echo[b],
             late' \subseteq late,
             UNCHANGED proc \/ \E e \in Executors : Others(e) /\ (Onward => ThreadInv(e)')
      PROVE  SendInv'
  <2>1. RowInv(a)'
    BY <1>t, <1>1, Zenon DEF RowInv
  <2>2. \A b \in Actions : RowInv(b)'
    BY <1>t, <1>1, <2>1 DEF RowInv
  <2>3. Onward
    BY <1>1, Zenon DEF Onward
  <2>4. LateInv'
    BY <1>1, <2>3, LateKept, Zenon
  <2>5. ListenerInv'
    <3>1. lis.act \in Actions
      BY <1>t, Zenon DEF TypeOK, ListenerType
    <3> QED
      BY <1>1, <2>3, <3>1, Zenon DEF SendInv, ListenerInv, Onward
  <2>6. \A f \in Executors : ThreadInv(f)'
    BY <1>1, <2>3, ThreadsFollow, ThreadKept, Zenon
  <2> QED
    BY <1>1, <2>2, <2>4, <2>5, <2>6, Zenon DEF SendInv
<1>2. CASE LateMessage
  <2>1. PICK a \in Actions, rid \in Nat :
           /\ <<a, rid>> \in late /\ late' = late \ {<<a, rid>>}
           /\ \/ UNCHANGED <<delivered, echo>>
              \/ /\ delivered'[a] = delivered[a] \cup {rid}
                 /\ \A b \in Actions : b # a => delivered'[b] = delivered[b] /\ echo'[b] = echo[b]
    BY <1>t, <1>2, LateFacts, Zenon
  <2>2. TypeOK' /\ UNCHANGED <<row, lis, history, alerts, proc>>
    BY <1>t, <1>2, LateFacts, Zenon DEF db, owner
  <2>3. rid = 1 /\ row[a].rid = 1
    BY <1>t, <2>1, Zenon DEF LateInv
  <2>4. CASE UNCHANGED <<delivered, echo>>
    BY <2>1, <2>2, <2>4, QuietSend, Zenon DEF QuietRow
  <2> QED
    BY <1>1, <2>1, <2>2, <2>3, <2>4, Zenon
<1>3. ASSUME NEW e \in Executors, SendMessage(e) PROVE SendInv'
  <2>1. PICK a \in Actions : proc[e].act = a
    BY <1>t, Zenon DEF TypeOK, ThreadType
  <2>2. /\ TypeOK' /\ UNCHANGED <<row, late, lis, history, alerts>> /\ proc[e].pc = "rpc"
        /\ GoesTo(e, "mark") \/ GoesTo(e, "record")
        /\ delivered'[a] = delivered[a] \cup {proc[e].rid}
        /\ \A b \in Actions : b # a => delivered'[b] = delivered[b] /\ echo'[b] = echo[b]
    BY <1>t, <1>3, <2>1, SendFacts, Zenon DEF db, owner
  <2>3. proc[e].rid = 1 /\ row[a].rid = 1
    BY <2>1, <2>2, Zenon DEF SendInv, ThreadInv, Past
  <2>4. Others(e) /\ (Onward => ThreadInv(e)')
    BY <2>1, <2>2, ThreadGoes, Zenon DEF GoesTo, Early, Past
  <2> QED
    BY <1>1, <2>2, <2>3, <2>4, Zenon
<1> QED
  BY <1>2, <1>3, Zenon
-----------------------------------------------------------------------------
(* SendInv is inductive: the ends of a send, and the listener. *)

\* The ends of a send: recorded, or given up.
LEMMA EndSend ==
    ASSUME SendInv, NEW e \in Executors,
           RecordAgentActionSent(e) \/ MarkAgentActionDeliveryUnknown(e)
    PROVE  SendInv'
<1>t. TypeOK /\ \A b \in Actions : RowInv(b)
  BY Zenon DEF SendInv
<1>1. PICK a \in Actions : proc[e].act = a
  BY <1>t, Zenon DEF TypeOK, ThreadType
<1>e. ThreadInv(e) /\ RowInv(a)
  BY <1>t, Zenon DEF SendInv
\* One executing row ends, and everything else stays.
<1>2. ASSUME TypeOK', UNCHANGED <<delivered, late, echo, lis>>, Stops(e),
             \A b \in Actions : b # a => /\ row'[b] = row[b]
                                         /\ history'[b] = history[b] /\ alerts'[b] = alerts[b],
             row'[a].rid = row[a].rid, row[a].status = "executing",
             row'[a].status \in {"executed", "delivery_unknown"}, RowInv(a)'
      PROVE  SendInv'
  <2>1. \A b \in Actions : RowInv(b)'
    BY <1>t, <1>2 DEF RowInv
  <2>2. Onward
    BY <1>2, Zenon DEF Onward
  <2>3. LateInv' /\ ListenerInv'
    BY <1>2, <2>2, LateKept, Zenon DEF SendInv, ListenerInv
  <2>4. Others(e) /\ ThreadInv(e)'
    BY <1>2, ThreadStops, Zenon DEF Stops
  <2>5. \A f \in Executors : ThreadInv(f)'
    BY <2>2, <2>4, ThreadsFollow, Zenon
  <2> QED
    BY <1>2, <2>1, <2>3, <2>5, Zenon DEF SendInv
<1>3. ASSUME TypeOK', UNCHANGED <<row, delivered, late, echo, lis, history, alerts>>, Stops(e)
      PROVE  SendInv'
  <2>1. Others(e) /\ ThreadInv(e)'
    BY <1>3, ThreadStops, Zenon DEF Stops
  <2> QED
    BY <1>3, <2>1, QuietSend, Zenon DEF QuietRow
<1>4. CASE RecordAgentActionSent(e)
  <2>1. /\ TypeOK' /\ proc[e].pc = "record" /\ Stops(e)
        /\ UNCHANGED <<alerts, delivered, late, echo, lis>>
        /\ \A b \in Actions : b # a \/ row[b].status # "executing"
                                => row'[b] = row[b] /\ history'[b] = history[b]
        /\ \A b \in Actions : row'[b].rid = row[b].rid
        /\ row[a].status = "executing" =>
              /\ row'[a].status = "executed" /\ ~row'[a].stuck
              /\ history'[a] = history[a] + 1
    BY <1>t, <1>1, <1>4, RecordFacts, Zenon DEF external, owner
  <2>2. CASE row[a].status = "executing"
    <3>1. delivered[a] # {}
      BY <1>1, <1>e, <2>1, Zenon DEF ThreadInv
    <3>2. /\ row[a].rid = 1 /\ delivered[a] \subseteq {1}
          /\ history[a] = 0 /\ alerts[a] = 0
      BY <1>e, <2>2, Zenon DEF RowInv
    <3>3. /\ row'[a].rid = 1 /\ row'[a].status = "executed" /\ ~row'[a].stuck
          /\ delivered'[a] = delivered[a] /\ history'[a] = 1 /\ alerts'[a] = 0
      BY <2>1, <2>2, <3>2
    <3>4. RowInv(a)'
      BY <3>1, <3>2, <3>3, Zenon DEF RowInv, Unsent
    <3> QED
      BY <1>2, <2>1, <2>2, <3>4, Zenon
  <2>3. CASE row[a].status # "executing"
    <3>1. \A b \in Actions : row'[b] = row[b] /\ history'[b] = history[b]
      BY <2>1, <2>3, Zenon
    <3>2. row' = row /\ history' = history
      BY <1>t, <2>1, <3>1 DEF TypeOK
    <3> QED
      BY <1>3, <2>1, <3>2, Zenon
  <2> QED
    BY <2>2, <2>3, Zenon
<1>5. CASE MarkAgentActionDeliveryUnknown(e)
  <2>1. /\ TypeOK' /\ Stops(e) /\ UNCHANGED <<history, delivered, late, echo, lis>>
        /\ \/ UNCHANGED <<row, alerts>>
           \/ /\ \A b \in Actions : b # a => row'[b] = row[b] /\ alerts'[b] = alerts[b]
              /\ row[a].status = "executing"
              /\ row'[a].status = "delivery_unknown" /\ ~row'[a].stuck
              /\ row'[a].rid = row[a].rid /\ row'[a].attempts = row[a].attempts
              /\ row'[a].noted = row[a].noted
              /\ alerts'[a] = alerts[a] + 1
    BY <1>t, <1>1, <1>5, UnknownFacts, Zenon DEF external, owner
  <2>2. CASE UNCHANGED <<row, alerts>>
    BY <1>3, <2>1, <2>2, Zenon
  <2>3. CASE /\ \A b \in Actions : b # a => row'[b] = row[b] /\ alerts'[b] = alerts[b]
             /\ row[a].status = "executing"
             /\ row'[a].status = "delivery_unknown" /\ ~row'[a].stuck
             /\ row'[a].rid = row[a].rid /\ row'[a].attempts = row[a].attempts
             /\ row'[a].noted = row[a].noted
             /\ alerts'[a] = alerts[a] + 1
    <3>1. RowInv(a)'
      BY <1>e, <2>1, <2>3 DEF RowInv, Unsent
    <3> QED
      BY <1>2, <2>1, <2>3, <3>1, Zenon
  <2> QED
    BY <2>1, <2>2, <2>3, Zenon
<1> QED
  BY <1>4, <1>5, Zenon

\* The listener.
LEMMA ListenerSend ==
    ASSUME SendInv, Listener
    PROVE  SendInv'
<1>t. TypeOK /\ ListenerInv /\ \A b \in Actions : RowInv(b)
  BY Zenon DEF SendInv
<1>1. ASSUME NEW a \in Actions, ConsumeSent(a) PROVE SendInv'
  <2>1. /\ TypeOK' /\ UNCHANGED <<row, history, alerts, delivered, late, proc>>
        /\ echo[a] # "none" /\ \A b \in Actions : echo'[b] # "none" => echo[b] # "none"
        /\ lis'.at = "idle" \/ (lis'.at = "match" /\ lis'.act = a)
    BY <1>t, <1>1, ConsumeFacts, Zenon DEF db
  <2>2. delivered[a] # {}
    BY <1>t, <2>1, Zenon DEF RowInv
  <2>3. ListenerInv'
    BY <2>1, <2>2, Zenon DEF ListenerInv
  <2> QED
    BY <2>1, <2>3, QuietSend, Zenon DEF QuietRow
<1>2. CASE SelectUnconfirmed
  <2>1. /\ TypeOK' /\ UNCHANGED <<row, history, alerts, delivered, late, echo, proc>>
        /\ lis.at = "match" /\ lis'.act = lis.act
    BY <1>t, <1>2, SelectFacts, Zenon DEF db, external
  <2>2. ListenerInv'
    BY <1>t, <2>1, Zenon DEF ListenerInv
  <2> QED
    BY <2>1, <2>2, QuietSend, Zenon DEF QuietRow
<1>3. CASE MatchUnconfirmedAgentSend
  <2>1. PICK a \in Actions : a = lis.act
    BY <1>t, Zenon DEF TypeOK, ListenerType
  <2>2. /\ TypeOK' /\ lis.at = "apply" /\ lis'.at = "idle"
        /\ UNCHANGED <<alerts, delivered, late, echo, proc>>
        /\ \A b \in Actions : b # a => row'[b] = row[b] /\ history'[b] = history[b]
        /\ \A b \in Actions : row'[b].rid = row[b].rid /\ row'[b].attempts = row[b].attempts
        /\ row'[a].stuck => row[a].stuck
        /\ \/ row'[a].status = row[a].status /\ history'[a] = history[a]
           \/ /\ row[a].status = "delivery_unknown"
              /\ row'[a].status = "executed" /\ history'[a] = history[a] + 1
    BY <1>t, <1>3, <2>1, MatchFacts, Zenon DEF external
  <2>3. delivered[a] # {} /\ RowInv(a)
    BY <1>t, <2>1, <2>2, Zenon DEF ListenerInv
  <2>4. (row[a].status = "delivery_unknown" /\ row'[a].status = "executed") => ~row[a].stuck
    BY <2>3, Zenon DEF RowInv
  <2>5. RowInv(a)'
    BY <2>2, <2>3, <2>4 DEF RowInv, Unsent
  <2>6. \A b \in Actions : RowInv(b)'
    BY <1>t, <2>2, <2>5 DEF RowInv
  <2>7. Onward
    BY <2>2, Zenon DEF Onward
  <2>8. LateInv' /\ ListenerInv'
    BY <2>2, <2>7, LateKept, Zenon DEF ListenerInv
  <2>9. \A f \in Executors : ThreadInv(f)'
    BY <2>2, <2>7, ThreadKept, Zenon
  <2> QED
    BY <2>2, <2>6, <2>8, <2>9, Zenon DEF SendInv
<1>4. CASE OwnerSteps \/ SetConversationTakenOver
  <2>1. /\ TypeOK' /\ UNCHANGED <<row, history, alerts, delivered, late, echo, proc>>
        /\ lis'.at \notin {"match", "apply"}
    BY <1>t, <1>4, OwnerFacts, Zenon DEF db, external
  <2> QED
    BY <2>1, QuietSend, Zenon DEF QuietRow
<1>5. CASE DenyPendingActionsForConversation
  <2>1. /\ TypeOK' /\ UNCHANGED <<history, alerts, delivered, late, echo, proc>>
        /\ lis'.at \notin {"match", "apply"}
        /\ \A b \in Actions : row'[b] = row[b] \/ Decided(b)
    BY <1>t, <1>5, DenyPendingFacts, Zenon DEF external
  <2> QED
    BY <2>1, QuietSend, Zenon DEF QuietRow
<1>6. CASE ResetAutonomousTurns
  <2>1. /\ TypeOK' /\ UNCHANGED <<row, history, alerts, delivered, late, echo, proc>>
        /\ lis'.at \notin {"match", "apply"}
    BY <1>t, <1>6, ResetFacts, Zenon DEF external
  <2> QED
    BY <2>1, QuietSend, Zenon DEF QuietRow
<1> QED
  BY <1>1, <1>2, <1>3, <1>4, <1>5, <1>6, Zenon DEF Listener

LEMMA InitSendInv == Init => SendInv
<1> SUFFICES ASSUME Init PROVE SendInv
  OBVIOUS
<1>1. TypeOK
  BY InitTypeOK, Zenon
<1>2. \A a \in Actions : RowInv(a)
  BY DEF Init, RowInv, Unsent
<1>3. Idle.pc = "idle" /\ ~Idle.known
  BY Zenon DEF Idle
<1>4. \A e \in Executors : ThreadInv(e)
  BY <1>3, Zenon DEF Init, ThreadInv, Early, Past
<1>5. LateInv /\ ListenerInv
  BY Zenon DEF Init, LateInv, ListenerInv, Quiet
<1> QED
  BY <1>1, <1>2, <1>4, <1>5, Zenon DEF SendInv

LEMMA SendInvStutter == SendInv /\ UNCHANGED vars => SendInv'
<1> SUFFICES ASSUME SendInv, UNCHANGED vars PROVE SendInv'
  OBVIOUS
<1>1. UNCHANGED <<row, proc, delivered, late, marker, echo, lis, takenOver, turns, history, alerts,
                  crashes, ownerSteps, unreviewed, settled>>
  BY Zenon DEF vars, db, external, owner
<1>2. TypeOK'
  BY <1>1, Zenon DEF SendInv, TypeOK
<1> QED
  BY <1>1, <1>2, QuietSend, Zenon DEF QuietRow

LEMMA NextSendInv == SendInv /\ [Next]_vars => SendInv'
<1> SUFFICES ASSUME SendInv, [Next]_vars PROVE SendInv'
  OBVIOUS
<1>1. ASSUME NEW e \in Executors, Thread(e) \/ Crash(e) PROVE SendInv'
  BY <1>1, QuietThreadSend, CountingSend, DeliverySend, EndSend, Zenon DEF Thread
<1> QED
  BY <1>1, DraftSend, BeginSend, DeliverySend, ListenerSend, SendInvStutter, Zenon DEF Next
-----------------------------------------------------------------------------
(* ActionSend as SendOutcome sees it: what the outcome of a row rests on. *)

\* One process, sends within the grace window: a row has one thread past the
\* reservation, which therefore knows how many attempts are counted.
AloneInv ==
    /\ \A e, f \in Executors :
          proc[e].pc \in Past /\ proc[f].pc \in Past /\ proc[e].act = proc[f].act => e = f
    /\ \A e, f \in Executors : proc[e].path = "recover" /\ proc[f].path = "recover" => e = f
    /\ \A e \in Executors : proc[e].pc # "idle" /\ row[proc[e].act].stuck => proc[e].path = "recover"
    /\ \A e \in Executors :
          /\ proc[e].path = "recover" => proc[e].pc \in Past
          /\ proc[e].pc = "recover" => proc[e].seen = row[proc[e].act].attempts
          /\ proc[e].pc = "withhold" /\ row[proc[e].act].status = "executing" => row[proc[e].act].attempts = 0

WithheldInv ==
    \A a \in Actions : row[a].status \in {"denied", "rejected", "expired"} =>
        delivered[a] = {} /\ ~OnItsWay(a)
-----------------------------------------------------------------------------
(* One process whose sends end within the grace window: AloneInv. *)

Follows(f) ==
    /\ proc'[f].path = "recover" => proc[f].path = "recover" /\ proc'[f].pc \in Past
    /\ proc'[f].pc \in Past => proc[f].pc \in Past /\ proc'[f].act = proc[f].act
    /\ proc'[f].pc # "idle" /\ row'[proc'[f].act].stuck => proc'[f].path = "recover"
    /\ proc'[f].pc = "recover" => proc'[f].seen = row'[proc'[f].act].attempts
    /\ proc'[f].pc = "withhold" /\ row'[proc'[f].act].status = "executing"
          => row'[proc'[f].act].attempts = 0

\* Rows change under the eyes of a thread only where no one works on them.
RowsFollow ==
    \A b \in Actions :
        /\ row'[b].stuck => row[b].stuck \/ ~Busy(b)
        /\ row'[b].status = "executing" => row[b].status \in {"approved", "executing"}

LEMMA AloneMove ==
    ASSUME AloneInv, \A f \in Executors : Follows(f)
    PROVE  AloneInv'
<1>1. \A f, g \in Executors :
         proc'[f].pc \in Past /\ proc'[g].pc \in Past /\ proc'[f].act = proc'[g].act => f = g
  BY DEF AloneInv, Follows
<1>2. \A f, g \in Executors : proc'[f].path = "recover" /\ proc'[g].path = "recover" => f = g
  BY Zenon DEF AloneInv, Follows
<1> QED
  BY <1>1, <1>2, Zenon DEF AloneInv, Follows

\* A thread that stays where it is, when e counts or does nothing.
LEMMA FollowsKept ==
    ASSUME SendInv, AloneInv, RowsFollow, NEW f \in Executors, proc'[f] = proc[f],
           \A b \in Actions : \/ row'[b].attempts = row[b].attempts
                              \/ \E e \in Executors : e # f /\ proc[e].pc \in Past /\ proc[e].act = b
    PROVE  Follows(f)
<1>1. PICK a \in Actions : a = proc[f].act /\ a = proc'[f].act
  BY Zenon DEF SendInv, TypeOK, ThreadType
<1>2. ThreadInv(f) /\ RowInv(a)
  BY Zenon DEF SendInv
<1>3. proc[f].pc \in Past => row'[a].attempts = row[a].attempts
  BY <1>1 DEF AloneInv
<1>4. row'[a].stuck => row[a].stuck \/ proc[f].pc = "idle"
  BY <1>1, Zenon DEF RowsFollow, Busy
<1>5. proc[f].pc \in Past /\ row'[a].status = "executing" => row[a].status = "executing"
  BY <1>1, <1>2, Zenon DEF RowsFollow, ThreadInv, RowInv, Unsent
<1>6. proc[f].pc \in {"recover", "withhold"} => proc[f].pc \in Past
  BY Zenon DEF Past
<1> QED
  BY <1>1, <1>3, <1>4, <1>5, <1>6 DEF Follows, AloneInv

LEMMA FollowsGoes ==
    ASSUME SendInv, AloneInv, RowsFollow, NEW e \in Executors, NEW pc, GoesTo(e, pc),
           proc[e].pc # "idle", pc # "recover", pc \in Past <=> proc[e].pc \in Past,
           pc = "withhold" => row'[proc[e].act].attempts = 0
    PROVE  Follows(e)
<1>1. PICK a \in Actions : a = proc[e].act /\ a = proc'[e].act
  BY Zenon DEF SendInv, TypeOK, ThreadType, GoesTo
<1>2. proc'[e].pc = pc /\ proc'[e].path = proc[e].path
  BY Zenon DEF GoesTo
<1>3. row'[a].stuck => row[a].stuck
  BY <1>1, Zenon DEF RowsFollow, Busy
<1> QED
  BY <1>1, <1>2, <1>3, Zenon DEF Follows, AloneInv

LEMMA FollowsStops ==
    ASSUME NEW e \in Executors, Stops(e)
    PROVE  Follows(e)
  BY Zenon DEF Follows, Stops, Past

LEMMA AloneOthers ==
    ASSUME SendInv, AloneInv, RowsFollow, NEW e \in Executors, Others(e), Follows(e),
           \A b \in Actions : \/ row'[b].attempts = row[b].attempts
                              \/ proc[e].pc \in Past /\ proc[e].act = b
    PROVE  AloneInv'
<1>1. ASSUME NEW f \in Executors, f # e PROVE Follows(f)
  <2>1. proc'[f] = proc[f]
    BY <1>1, Zenon DEF Others
  <2>2. \A b \in Actions : \/ row'[b].attempts = row[b].attempts
                           \/ \E g \in Executors : g # f /\ proc[g].pc \in Past /\ proc[g].act = b
    BY <1>1, Zenon
  <2> QED
    BY <2>1, <2>2, FollowsKept, Zenon
<1> QED
  BY <1>1, AloneMove, Zenon

LEMMA AloneRows ==
    ASSUME SendInv, AloneInv, RowsFollow, UNCHANGED proc,
           \A b \in Actions : row'[b].attempts = row[b].attempts
    PROVE  AloneInv'
<1>1. \A f \in Executors : Follows(f)
  BY FollowsKept, Zenon
<1> QED
  BY <1>1, AloneMove, Zenon

\* A thread enters the part past the reservation, alone.
LEMMA AloneEnters ==
    ASSUME SendInv, AloneInv, RowsFollow, NEW e \in Executors, Others(e), NEW a \in Actions,
           \A b \in Actions : row'[b].attempts = row[b].attempts,
           \A f \in Executors : f # e /\ proc[f].pc \in Past => proc[f].act # a,
           proc'[e].act = a,
           \/ proc'[e].path = "send" /\ proc'[e].pc = "note" /\ ~row'[a].stuck
           \/ /\ proc'[e].path = "recover" /\ proc'[e].pc = "recover"
              /\ proc'[e].seen = row'[a].attempts
              /\ \A f \in Executors : f # e => proc[f].path # "recover"
    PROVE  AloneInv'
<1>1. ASSUME NEW f \in Executors, f # e PROVE Follows(f) /\ proc'[f] = proc[f]
  <2>1. proc'[f] = proc[f]
    BY <1>1, Zenon DEF Others
  <2> QED
    BY <2>1, FollowsKept, Zenon
<1>2. "note" \in Past /\ "recover" \in Past
  BY Zenon DEF Past
<1>3. \A f, g \in Executors :
         proc'[f].pc \in Past /\ proc'[g].pc \in Past /\ proc'[f].act = proc'[g].act => f = g
  BY <1>1 DEF AloneInv
<1>4. \A f, g \in Executors : proc'[f].path = "recover" /\ proc'[g].path = "recover" => f = g
  BY <1>1 DEF AloneInv
<1>5. ASSUME NEW f \in Executors
      PROVE  /\ proc'[f].pc # "idle" /\ row'[proc'[f].act].stuck => proc'[f].path = "recover"
             /\ proc'[f].path = "recover" => proc'[f].pc \in Past
             /\ proc'[f].pc = "recover" => proc'[f].seen = row'[proc'[f].act].attempts
             /\ proc'[f].pc = "withhold" /\ row'[proc'[f].act].status = "executing"
                   => row'[proc'[f].act].attempts = 0
  <2>1. CASE f = e
    BY <1>2, <2>1, Zenon
  <2>2. CASE f # e
    BY <1>1, <2>2, Zenon DEF Follows
  <2> QED
    BY <2>1, <2>2, Zenon
<1> QED
  BY <1>3, <1>4, <1>5, Zenon DEF AloneInv

\* A row that keeps its status, or leaves it for one that is not executing.
LEMMA RowsFollowFacts ==
    ASSUME \A b \in Actions :
             \/ row'[b] = row[b]
             \/ row'[b].status = row[b].status /\ (row'[b].stuck => row[b].stuck)
             \/ row'[b].status # "executing" /\ ~row'[b].stuck
             \/ row[b].status = "approved" /\ ~row'[b].stuck
    PROVE  RowsFollow
<1> SUFFICES ASSUME NEW b \in Actions
             PROVE  /\ row'[b].stuck => row[b].stuck \/ ~Busy(b)
                    /\ row'[b].status = "executing" => row[b].status \in {"approved", "executing"}
  BY Zenon DEF RowsFollow
<1> QED
  OBVIOUS

LEMMA DraftAlone ==
    ASSUME ~Overlap, SendInv, AloneInv, NEW a \in Actions,
           \/ InsertAgentAction(a) \/ Reject(a) \/ ExpireStaleAgentActions(a)
           \/ GraceEnds(a) \/ TTLEnds(a) \/ FloodWaitEnds(a)
    PROVE  AloneInv'
<1>t. TypeOK /\ RowInv(a)
  BY Zenon DEF SendInv
<1>1. CASE InsertAgentAction(a) \/ Reject(a) \/ ExpireStaleAgentActions(a)
  <2>1. InsertAgentAction(a) => ~row[a].stuck
    BY <1>t, Zenon DEF RowInv, InsertAgentAction
  <2>2. UNCHANGED proc /\ \A b \in Actions : row'[b] = row[b] \/ Decided(b)
    BY <1>t, <1>1, <2>1, InsertFacts, WithdrawFacts
  <2>3. RowsFollow /\ \A b \in Actions : row'[b].attempts = row[b].attempts
    BY <2>2, RowsFollowFacts, Zenon DEF Decided
  <2> QED
    BY <2>2, <2>3, AloneRows, Zenon
<1>2. CASE GraceEnds(a) \/ TTLEnds(a) \/ FloodWaitEnds(a)
  <2>1. /\ UNCHANGED proc /\ \A b \in Actions : Kept(b)
        /\ \A b \in Actions : row'[b].stuck => row[b].stuck \/ (GraceEnds(a) /\ b = a)
    BY <1>t, <1>2, ClockFacts, Zenon
  <2>2. GraceEnds(a) => ~Busy(a)
    BY Zenon DEF GraceEnds
  <2>3. RowsFollow
    BY <2>1, <2>2, Zenon DEF RowsFollow, Kept
  <2> QED
    BY <2>1, <2>3, AloneRows, Zenon DEF Kept
<1> QED
  BY <1>1, <1>2, Zenon

LEMMA BeginAlone ==
    ASSUME ~Overlap, SendInv, AloneInv, NEW e \in Executors, NEW a \in Actions,
           Approve(e, a) \/ ProcessApproved(e, a) \/ RecoverStuck(e, a)
    PROVE  AloneInv'
<1>t. TypeOK /\ RowInv(a)
  BY Zenon DEF SendInv
<1>l. ASSUME proc'[e].pc = "load", proc'[e].act = a, proc'[e].path = "send", ~row'[a].stuck
      PROVE  Follows(e)
  BY <1>l, Zenon DEF Follows, Past
<1>1. CASE Approve(e, a)
  <2>1. /\ \A b \in Actions : row'[b] = row[b] \/ Decided(b)
        /\ Decided(a)
        /\ \/ UNCHANGED proc
           \/ /\ Others(e) /\ proc'[e].pc = "load" /\ proc'[e].act = a /\ proc'[e].path = "send"
    BY <1>t, <1>1, ApproveFacts
  <2>2. RowsFollow /\ ~row'[a].stuck /\ \A b \in Actions : row'[b].attempts = row[b].attempts
    BY <2>1, RowsFollowFacts, Zenon DEF Decided
  <2>3. CASE UNCHANGED proc
    BY <2>2, <2>3, AloneRows, Zenon
  <2>4. CASE Others(e) /\ proc'[e].pc = "load" /\ proc'[e].act = a /\ proc'[e].path = "send"
    BY <1>l, <2>2, <2>4, AloneOthers, Zenon
  <2> QED
    BY <2>1, <2>3, <2>4, Zenon
<1>2. CASE ProcessApproved(e, a)
  <2>1. /\ UNCHANGED row /\ row[a].status = "approved" /\ Others(e)
        /\ proc'[e].pc = "load" /\ proc'[e].act = a /\ proc'[e].path = "send"
    BY <1>t, <1>2, ProcessFacts DEF db
  <2>2. ~row'[a].stuck /\ RowsFollow
    BY <1>t, <2>1, RowsFollowFacts, Zenon DEF RowInv
  <2> QED
    BY <1>l, <2>1, <2>2, AloneOthers, Zenon
<1>3. CASE RecoverStuck(e, a)
  <2>1. /\ UNCHANGED row /\ row[a].stuck /\ Others(e)
        /\ \A f \in Executors : proc[f].path # "recover" \/ proc[f].pc = "idle"
        /\ proc'[e].pc = "recover" /\ proc'[e].act = a /\ proc'[e].path = "recover"
        /\ proc'[e].seen = row[a].attempts
    BY <1>t, <1>3, RecoverFacts, Zenon DEF db
  <2>2. \A f \in Executors : proc[f].path # "recover"
    BY <2>1, Zenon DEF AloneInv, Past
  <2>3. \A f \in Executors : proc[f].pc \in Past => proc[f].act # a
    BY <2>1, <2>2 DEF AloneInv, Past
  <2>4. RowsFollow
    BY <2>1, RowsFollowFacts, Zenon
  <2> QED
    BY <2>1, <2>2, <2>3, <2>4, AloneEnters
<1> QED
  BY <1>1, <1>2, <1>3, Zenon

LEMMA ThreadAlone ==
    ASSUME SendInv, AloneInv, NEW e \in Executors, Thread(e) \/ Crash(e)
    PROVE  AloneInv'
<1>t. TypeOK
  BY Zenon DEF SendInv
<1>1. PICK a \in Actions : proc[e].act = a
  BY <1>t, Zenon DEF TypeOK, ThreadType
<1>e. ThreadInv(e) /\ RowInv(a)
  BY Zenon DEF SendInv
<1>o. (Stops(e) \/ \E pc : GoesTo(e, pc)) => Others(e)
  BY Zenon DEF Stops, GoesTo
<1>2. ASSUME RowsFollow, \A b \in Actions : row'[b].attempts = row[b].attempts, Stops(e)
      PROVE  AloneInv'
  BY <1>o, <1>2, FollowsStops, AloneOthers
<1>3. ASSUME UNCHANGED row, NEW pc \in Early \cup (Past \ {"recover"}), GoesTo(e, pc),
             proc[e].pc # "idle", pc \in Past <=> proc[e].pc \in Past,
             pc = "withhold" => row'[proc[e].act].attempts = 0
      PROVE  AloneInv'
  <2>1. RowsFollow
    BY <1>3, RowsFollowFacts, Zenon
  <2>2. Others(e)
    BY <1>o, <1>3, Zenon
  <2>3. pc # "recover"
    BY <1>3, Zenon DEF Early
  <2>4. Follows(e)
    BY <1>3, <2>1, <2>3, FollowsGoes, Zenon
  <2> QED
    BY <1>3, <2>1, <2>2, <2>4, AloneOthers
<1>4. CASE EvaluatePolicy(e) \/ RefuseMessage(e) \/ recoverOne(e)
  <2>1. /\ UNCHANGED row
        /\ \/ /\ proc[e].pc = "load"
              /\ GoesTo(e, "deny") \/ (GoesTo(e, "reserve") /\ ~takenOver)
           \/ proc[e].pc = "rpc" /\ (GoesTo(e, "flood") \/ GoesTo(e, "refused"))
           \/ /\ proc[e].pc = "recover"
              /\ \/ GoesTo(e, "record") /\ proc[e].known
                 \/ GoesTo(e, "unknown") \/ GoesTo(e, "note") \/ Stops(e)
                 \/ GoesTo(e, "withhold") /\ proc[e].seen = 0
    BY <1>t, <1>4, ReadFacts, Zenon DEF db
  <2>2. RowsFollow
    BY <2>1, RowsFollowFacts, Zenon
  <2>3. CASE Stops(e)
    BY <1>2, <2>1, <2>2, <2>3, Zenon
  <2>4. CASE \E pc \in {"deny", "reserve"} : proc[e].pc = "load" /\ GoesTo(e, pc)
    BY <1>3, <2>1, <2>4 DEF Early, Past
  <2>5. CASE \E pc \in {"flood", "refused", "record", "unknown", "note"} :
                proc[e].pc \in {"rpc", "recover"} /\ GoesTo(e, pc)
    BY <1>3, <2>1, <2>5, Zenon DEF Early, Past
  <2>6. CASE proc[e].pc = "recover" /\ GoesTo(e, "withhold") /\ proc[e].seen = 0
    <3>1. row'[proc[e].act].attempts = 0
      BY <2>1, <2>6, Zenon DEF AloneInv
    <3> QED
      BY <1>3, <2>1, <2>6, <3>1, Zenon DEF Early, Past
  <2> QED
    BY <2>1, <2>3, <2>4, <2>5, <2>6
<1>5. CASE DenyApproved(e) \/ DenyExecuting(e)
  <2>1. PICK from \in {"approved", "executing"} :
           \/ DenyApproved(e) /\ from = "approved" /\ proc[e].pc = "deny"
           \/ DenyExecuting(e) /\ from = "executing" /\ proc[e].pc = "withhold"
    BY <1>5, Zenon DEF DenyApproved, DenyExecuting
  <2>2. /\ Stops(e)
        /\ \A b \in Actions : row'[b].attempts = row[b].attempts
        /\ \A b \in Actions : row'[b] = row[b] \/ (row'[b].status = "denied" /\ ~row'[b].stuck)
    BY <1>t, <2>1, DenyFacts, Zenon
  <2>3. RowsFollow
    BY <2>2, RowsFollowFacts, Zenon
  <2> QED
    BY <1>2, <2>2, <2>3, Zenon
<1>6. CASE ReserveAgentActionSend(e)
  <2>1. /\ proc[e].pc = "reserve"
        /\ \A b \in Actions : b # a => row'[b] = row[b]
        /\ \/ UNCHANGED row /\ (GoesTo(e, "deny") \/ Stops(e))
           \/ /\ row[a].status = "approved" /\ ~row'[a].stuck
              /\ row'[a].attempts = row[a].attempts
              /\ Others(e) /\ proc'[e].pc = "note" /\ proc'[e].act = a
              /\ proc'[e].path = proc[e].path
    BY <1>t, <1>1, <1>6, ReserveFacts, Zenon
  <2>2. RowsFollow
    BY <2>1, RowsFollowFacts, Zenon
  <2>3. CASE UNCHANGED row /\ GoesTo(e, "deny")
    BY <1>3, <2>1, <2>3, Zenon DEF Early, Past
  <2>4. CASE UNCHANGED row /\ Stops(e)
    BY <1>2, <2>2, <2>4, Zenon
  <2>5. CASE /\ row[a].status = "approved" /\ ~row'[a].stuck
             /\ row'[a].attempts = row[a].attempts
             /\ Others(e) /\ proc'[e].pc = "note" /\ proc'[e].act = a
             /\ proc'[e].path = proc[e].path
    <3>1. row[a].rid = 0
      BY <1>e, <2>5, Zenon DEF RowInv, Unsent
    <3>2. \A f \in Executors : proc[f].pc \in Past => proc[f].act # a
      BY <3>1 DEF SendInv, ThreadInv
    <3>3. proc[e].path = "send"
      <4>1. proc[e].path \in {"send", "recover"}
        BY <1>t, Zenon DEF TypeOK, ThreadType
      <4> QED
        BY <2>1, <4>1, Zenon DEF AloneInv, Past
    <3> QED
      BY <2>1, <2>2, <2>5, <3>2, <3>3, AloneEnters
  <2> QED
    BY <2>1, <2>3, <2>4, <2>5, Zenon
<1>7. CASE NoteAgentActionSendAttempt(e)
  <2>1. /\ proc[e].pc = "note"
        /\ \/ UNCHANGED row /\ Stops(e)
           \/ /\ \A b \in Actions : b # a => row'[b] = row[b]
              /\ row'[a].status = row[a].status /\ row'[a].stuck = row[a].stuck
              /\ Others(e) /\ proc'[e].pc = "rpc" /\ proc'[e].act = a
              /\ proc'[e].path = proc[e].path
    BY <1>t, <1>1, <1>7, NoteFacts, Zenon
  <2>2. RowsFollow
    BY <2>1, RowsFollowFacts
  <2>3. CASE UNCHANGED row /\ Stops(e)
    BY <1>2, <2>2, <2>3, Zenon
  <2>4. CASE /\ \A b \in Actions : b # a => row'[b] = row[b]
             /\ row'[a].status = row[a].status /\ row'[a].stuck = row[a].stuck
             /\ Others(e) /\ proc'[e].pc = "rpc" /\ proc'[e].act = a
             /\ proc'[e].path = proc[e].path
    <3>1. Follows(e)
      BY <1>1, <2>1, <2>4, Zenon DEF Follows, AloneInv, Past
    <3>2. proc[e].pc \in Past
      BY <2>1, Zenon DEF Past
    <3> QED
      BY <1>1, <2>2, <2>4, <3>1, <3>2, AloneOthers
  <2> QED
    BY <2>1, <2>3, <2>4, Zenon
<1>8. CASE UnnoteAgentActionSendAttempt(e)
  <2>1. /\ proc[e].pc \in {"flood", "refused"}
        /\ \/ UNCHANGED row /\ Stops(e)
           \/ /\ \A b \in Actions : b # a => row'[b] = row[b]
              /\ row'[a].status = row[a].status /\ row'[a].stuck = row[a].stuck
              /\ \/ Stops(e) \/ GoesTo(e, "unknown")
                 \/ GoesTo(e, "withhold") /\ row'[a].attempts = 0
    BY <1>t, <1>1, <1>8, UnnoteFacts
  <2>2. RowsFollow
    BY <2>1, RowsFollowFacts, Zenon
  <2>3. Others(e)
    BY <1>o, <2>1, Zenon
  <2>4. Follows(e)
    BY <1>1, <2>1, <2>2, FollowsStops, FollowsGoes, Zenon DEF Past
  <2>5. \A b \in Actions : row'[b].attempts = row[b].attempts \/ (proc[e].pc \in Past /\ proc[e].act = b)
    BY <1>1, <2>1, Zenon DEF Past
  <2> QED
    BY <2>2, <2>3, <2>4, <2>5, AloneOthers
<1>9. CASE SendMessage(e) \/ LoseAnswer(e) \/ Crash(e)
  <2>1. /\ UNCHANGED row
        /\ \/ Stops(e)
           \/ proc[e].pc = "rpc" /\ \E pc \in {"mark", "record", "unknown"} : GoesTo(e, pc)
    BY <1>t, <1>9, SendFacts, LoseFacts, CrashFacts DEF db
  <2>2. RowsFollow
    BY <2>1, RowsFollowFacts, Zenon
  <2>3. CASE Stops(e)
    BY <1>2, <2>1, <2>2, <2>3, Zenon
  <2>4. CASE proc[e].pc = "rpc" /\ \E pc \in {"mark", "record", "unknown"} : GoesTo(e, pc)
    BY <1>3, <2>1, <2>4, Zenon DEF Past
  <2> QED
    BY <2>1, <2>3, <2>4, Zenon
<1>10. CASE MarkSent(e)
  <2>1. /\ UNCHANGED row /\ proc[e].pc = "mark" /\ Others(e) /\ proc'[e].pc = "record"
        /\ proc'[e].act = proc[e].act /\ proc'[e].path = proc[e].path
    BY <1>t, <1>10, MarkFacts, Zenon DEF db
  <2>2. Follows(e) /\ RowsFollow
    BY <2>1, RowsFollowFacts, Zenon DEF Follows, AloneInv, Past
  <2> QED
    BY <2>1, <2>2, AloneOthers, Zenon
<1>11. CASE RecordAgentActionSent(e) \/ MarkAgentActionDeliveryUnknown(e)
  <2>1. /\ Stops(e)
        /\ \A b \in Actions : \/ row'[b] = row[b]
                              \/ row'[b].status \in {"executed", "delivery_unknown"} /\ ~row'[b].stuck
        /\ \A b \in Actions : row'[b].attempts = row[b].attempts
    BY <1>t, <1>1, <1>11, RecordFacts, UnknownFacts
  <2>2. RowsFollow
    BY <2>1, RowsFollowFacts, Zenon
  <2> QED
    BY <1>2, <2>1, <2>2, Zenon
<1> QED
  BY <1>4, <1>5, <1>6, <1>7, <1>8, <1>9, <1>10, <1>11, Zenon DEF Thread

LEMMA ListenerAlone ==
    ASSUME SendInv, AloneInv, Listener \/ LateMessage
    PROVE  AloneInv'
<1>t. TypeOK
  BY Zenon DEF SendInv
<1>1. CASE \/ LateMessage \/ SelectUnconfirmed \/ OwnerSteps \/ SetConversationTakenOver
           \/ ResetAutonomousTurns \/ \E a \in Actions : ConsumeSent(a)
  <2>1. UNCHANGED <<row, proc>>
    BY <1>t, <1>1, LateFacts, SelectFacts, OwnerFacts, ResetFacts, ConsumeFacts DEF db
  <2> QED
    BY <2>1, RowsFollowFacts, AloneRows, Zenon
<1>2. CASE MatchUnconfirmedAgentSend
  <2>1. PICK a \in Actions : a = lis.act
    BY <1>t, Zenon DEF TypeOK, ListenerType
  <2>2. /\ UNCHANGED proc
        /\ \A b \in Actions : b # a => row'[b] = row[b]
        /\ \A b \in Actions : row'[b].attempts = row[b].attempts
        /\ row'[a].stuck => row[a].stuck
        /\ \/ row'[a].status = row[a].status
           \/ row[a].status = "delivery_unknown" /\ row'[a].status = "executed"
    BY <1>t, <1>2, <2>1, MatchFacts, Zenon
  <2>3. RowsFollow
    BY <2>2, Zenon DEF RowsFollow
  <2> QED
    BY <2>2, <2>3, AloneRows, Zenon
<1>3. CASE DenyPendingActionsForConversation
  <2>1. UNCHANGED proc /\ \A b \in Actions : row'[b] = row[b] \/ Decided(b)
    BY <1>t, <1>3, DenyPendingFacts, Zenon
  <2>2. RowsFollow /\ \A b \in Actions : row'[b].attempts = row[b].attempts
    BY <2>1, RowsFollowFacts, Zenon DEF Decided
  <2> QED
    BY <2>1, <2>2, AloneRows, Zenon
<1> QED
  BY <1>1, <1>2, <1>3, Zenon DEF Listener

LEMMA NextAlone == ~Overlap /\ SendInv /\ AloneInv /\ [Next]_vars => AloneInv'
<1> SUFFICES ASSUME ~Overlap, SendInv, AloneInv, [Next]_vars PROVE AloneInv'
  OBVIOUS
<1>1. CASE UNCHANGED vars
  <2>1. UNCHANGED <<row, proc>>
    BY <1>1, Zenon DEF vars, db
  <2> QED
    BY <2>1, RowsFollowFacts, AloneRows, Zenon
<1> QED
  BY <1>1, DraftAlone, BeginAlone, ThreadAlone, ListenerAlone DEF Next

LEMMA InitAlone == Init => AloneInv
<1>1. Idle.pc = "idle" /\ Idle.path = "send"
  BY Zenon DEF Idle
<1> QED
  BY <1>1 DEF Init, AloneInv, Past
-----------------------------------------------------------------------------
(* What a step may do to the outcome of a row and to the sends on their way. *)

SameOutcome(b) == Outcome(row'[b].status) = Outcome(row[b].status)

\* A draft, or a send with no attempt counted, is withheld.
Withholds(b) ==
    /\ Outcome(row'[b].status) = "withheld" /\ Outcome(row[b].status) = "open"
    /\ row[b].attempts = 0

Arrives(a) ==
    /\ OnItsWay(a) /\ delivered'[a] = delivered[a] \cup {1}
    /\ \A b \in Actions : b # a => delivered'[b] = delivered[b]
    /\ UNCHANGED row

Concludes(a) ==
    /\ UNCHANGED delivered
    /\ \A b \in Actions : b # a => row'[b] = row[b]
    /\ \/ /\ row[a].status \in {"executing", "delivery_unknown"}
          /\ row'[a].status = "executed" /\ delivered[a] # {}
       \/ row[a].status = "executing" /\ row'[a].status = "delivery_unknown"

OutcomeStep ==
    \/ UNCHANGED delivered /\ \A b \in Actions : SameOutcome(b) \/ Withholds(b)
    \/ \E a \in Actions : Arrives(a)
    \/ \E a \in Actions : Concludes(a)

LEMMA KeptOutcome ==
    ASSUME SendInv, NEW b \in Actions,
           row'[b] = row[b] \/ row'[b].status = row[b].status \/ Decided(b)
    PROVE  SameOutcome(b) \/ Withholds(b)
<1>1. CASE row'[b] = row[b] \/ row'[b].status = row[b].status
  BY <1>1, Zenon DEF SameOutcome
<1>2. CASE Decided(b)
  <2>1. row[b].attempts = 0
    BY <1>2, Zenon DEF SendInv, RowInv, Decided, Unsent
  <2> QED
    BY <1>2, <2>1, Zenon DEF Decided, SameOutcome, Withholds, Outcome
<1> QED
  BY <1>1, <1>2, Zenon

LEMMA DraftOutcome ==
    ASSUME SendInv, NEW a \in Actions,
           \/ InsertAgentAction(a) \/ Reject(a) \/ ExpireStaleAgentActions(a)
           \/ GraceEnds(a) \/ TTLEnds(a) \/ FloodWaitEnds(a)
           \/ \E e \in Executors : Approve(e, a) \/ ProcessApproved(e, a) \/ RecoverStuck(e, a)
    PROVE  OutcomeStep
<1>t. TypeOK /\ RowInv(a)
  BY Zenon DEF SendInv
<1>0. InsertAgentAction(a) => ~row[a].stuck
  BY <1>t, Zenon DEF RowInv, InsertAgentAction
<1>1. /\ UNCHANGED delivered
      /\ \A b \in Actions : row'[b] = row[b] \/ row'[b].status = row[b].status \/ Decided(b)
  <2>1. CASE InsertAgentAction(a)
    BY <1>t, <1>0, <2>1, InsertFacts DEF external
  <2>2. CASE Reject(a) \/ ExpireStaleAgentActions(a)
    BY <1>t, <2>2, WithdrawFacts, Zenon DEF external
  <2>3. CASE GraceEnds(a) \/ TTLEnds(a) \/ FloodWaitEnds(a)
    BY <1>t, <2>3, ClockFacts, Zenon DEF external, Kept
  <2>4. ASSUME NEW e \in Executors, Approve(e, a)
        PROVE  UNCHANGED delivered /\ \A b \in Actions : row'[b] = row[b] \/ Decided(b)
    BY <1>t, <2>4, ApproveFacts DEF external
  <2>5. ASSUME NEW e \in Executors, ProcessApproved(e, a) \/ RecoverStuck(e, a)
        PROVE  UNCHANGED <<row, delivered>>
    BY <1>t, <2>5, ProcessFacts, RecoverFacts, Zenon DEF external, db
  <2> QED
    BY <2>1, <2>2, <2>3, <2>4, <2>5
<1> QED
  BY <1>1, KeptOutcome, Zenon DEF OutcomeStep

LEMMA ThreadOutcome ==
    ASSUME SendInv, AloneInv, NEW e \in Executors, Thread(e) \/ Crash(e)
    PROVE  OutcomeStep
<1>t. TypeOK
  BY Zenon DEF SendInv
<1>1. PICK a \in Actions : proc[e].act = a
  BY <1>t, Zenon DEF TypeOK, ThreadType
<1>e. ThreadInv(e) /\ RowInv(a)
  BY <1>1, Zenon DEF SendInv
<1>2. ASSUME UNCHANGED delivered,
             \A b \in Actions : row'[b] = row[b] \/ row'[b].status = row[b].status
      PROVE  OutcomeStep
  BY <1>2, KeptOutcome, Zenon DEF OutcomeStep
<1>3. CASE EvaluatePolicy(e) \/ RefuseMessage(e) \/ recoverOne(e)
  BY <1>t, <1>2, <1>3, ReadFacts, Zenon DEF db, external
<1>4. CASE DenyApproved(e) \/ DenyExecuting(e)
  <2>1. PICK from \in {"approved", "executing"} :
           \/ DenyApproved(e) /\ from = "approved" /\ proc[e].pc = "deny"
           \/ DenyExecuting(e) /\ from = "executing" /\ proc[e].pc = "withhold"
    BY <1>4, Zenon DEF DenyApproved, DenyExecuting
  <2>2. /\ UNCHANGED delivered
        /\ \A b \in Actions : \/ row'[b] = row[b]
                              \/ b = a /\ row[b].status = from /\ row'[b].status = "denied"
    BY <1>t, <1>1, <2>1, DenyFacts DEF external
  <2>3. row[a].status = from => row[a].attempts = 0
    <3>1. CASE from = "approved"
      BY <1>e, <3>1, Zenon DEF RowInv, Unsent
    <3>2. CASE from = "executing"
      <4>1. proc[e].pc = "withhold"
        BY <2>1, <3>2, Zenon
      <4> QED
        BY <1>1, <3>2, <4>1, Zenon DEF AloneInv
    <3> QED
      BY <3>1, <3>2, Zenon
  <2>4. \A b \in Actions : SameOutcome(b) \/ Withholds(b)
    BY <2>2, <2>3, Zenon DEF SameOutcome, Withholds, Outcome
  <2> QED
    BY <2>2, <2>4, Zenon DEF OutcomeStep
<1>5. CASE ReserveAgentActionSend(e)
  <2>1. /\ UNCHANGED delivered
        /\ \A b \in Actions : \/ row'[b] = row[b]
                              \/ row[b].status = "approved" /\ row'[b].status = "executing"
    BY <1>t, <1>1, <1>5, ReserveFacts, Zenon DEF external
  <2>2. \A b \in Actions : SameOutcome(b)
    BY <2>1, Zenon DEF SameOutcome, Outcome
  <2> QED
    BY <2>1, <2>2, Zenon DEF OutcomeStep
<1>6. CASE NoteAgentActionSendAttempt(e) \/ UnnoteAgentActionSendAttempt(e)
  <2>1. UNCHANGED delivered
    BY <1>t, <1>6, NoteFacts, UnnoteFacts, ZenonT(30) DEF external
  <2>2. \A b \in Actions : \/ row'[b] = row[b]
                           \/ row[b].status = "executing" /\ row'[b].status = "executing"
    BY <1>t, <1>6, NoteFacts, UnnoteFacts
  <2>3. \A b \in Actions : SameOutcome(b)
    BY <2>2, Zenon DEF SameOutcome, Outcome
  <2> QED
    BY <2>1, <2>3, Zenon DEF OutcomeStep
<1>7. CASE LoseAnswer(e) \/ Crash(e) \/ MarkSent(e)
  BY <1>t, <1>2, <1>7, LoseFacts, CrashFacts, MarkFacts, ZenonT(30) DEF db, external
<1>8. CASE SendMessage(e)
  <2>1. /\ UNCHANGED row /\ proc[e].pc = "rpc"
        /\ delivered'[a] = delivered[a] \cup {proc[e].rid}
        /\ \A b \in Actions : b # a => delivered'[b] = delivered[b]
    BY <1>t, <1>1, <1>8, SendFacts DEF db
  <2>2. proc[e].rid = 1
    BY <1>e, <2>1, Zenon DEF ThreadInv, Past
  <2>3. OnItsWay(a)
    BY <1>1, <2>1, Zenon DEF OnItsWay
  <2> QED
    BY <2>1, <2>2, <2>3 DEF OutcomeStep, Arrives
<1>9. CASE RecordAgentActionSent(e)
  <2>1. /\ UNCHANGED delivered /\ proc[e].pc = "record"
        /\ \A b \in Actions : b # a \/ row[b].status # "executing" => row'[b] = row[b]
        /\ row[a].status = "executing" => row'[a].status = "executed"
    BY <1>t, <1>1, <1>9, RecordFacts, Zenon DEF external
  <2>2. CASE row[a].status # "executing"
    BY <1>2, <2>1, <2>2, Zenon
  <2>3. CASE row[a].status = "executing"
    <3>1. delivered[a] # {}
      BY <1>1, <1>e, <2>1, Zenon DEF ThreadInv
    <3>2. Concludes(a)
      BY <2>1, <2>3, <3>1 DEF Concludes
    <3> QED
      BY <3>2, Zenon DEF OutcomeStep
  <2> QED
    BY <2>2, <2>3, Zenon
<1>10. CASE MarkAgentActionDeliveryUnknown(e)
  <2>1. /\ UNCHANGED delivered
        /\ \/ UNCHANGED row
           \/ /\ \A b \in Actions : b # a => row'[b] = row[b]
              /\ row[a].status = "executing" /\ row'[a].status = "delivery_unknown"
    BY <1>t, <1>1, <1>10, UnknownFacts DEF external
  <2>2. UNCHANGED row \/ Concludes(a)
    BY <2>1, Zenon DEF Concludes
  <2> QED
    BY <1>2, <2>1, <2>2, Zenon DEF OutcomeStep
<1> QED
  BY <1>3, <1>4, <1>5, <1>6, <1>7, <1>8, <1>9, <1>10 DEF Thread

LEMMA ListenerOutcome ==
    ASSUME SendInv, Listener \/ LateMessage
    PROVE  OutcomeStep
<1>t. TypeOK /\ LateInv /\ ListenerInv
  BY Zenon DEF SendInv
<1>2. ASSUME UNCHANGED delivered,
             \A b \in Actions : row'[b] = row[b] \/ row'[b].status = row[b].status \/ Decided(b)
      PROVE  OutcomeStep
  BY <1>2, KeptOutcome, Zenon DEF OutcomeStep
<1>3. CASE \/ SelectUnconfirmed \/ OwnerSteps \/ SetConversationTakenOver
           \/ ResetAutonomousTurns \/ \E a \in Actions : ConsumeSent(a)
  <2>1. UNCHANGED <<row, delivered>>
    BY <1>t, <1>3, SelectFacts, OwnerFacts, ResetFacts, ConsumeFacts DEF db, external
  <2> QED
    BY <1>2, <2>1, Zenon
<1>4. CASE DenyPendingActionsForConversation
  BY <1>t, <1>2, <1>4, DenyPendingFacts, Zenon DEF external
<1>5. CASE MatchUnconfirmedAgentSend
  <2>1. PICK a \in Actions : a = lis.act
    BY <1>t, Zenon DEF TypeOK, ListenerType
  <2>2. /\ UNCHANGED delivered /\ lis.at = "apply"
        /\ \A b \in Actions : b # a => row'[b] = row[b]
        /\ \/ row'[a].status = row[a].status
           \/ row[a].status = "delivery_unknown" /\ row'[a].status = "executed"
    BY <1>t, <1>5, <2>1, MatchFacts, Zenon DEF external
  <2>3. delivered[a] # {}
    BY <1>t, <2>1, <2>2, Zenon DEF ListenerInv
  <2>4. row'[a].status = row[a].status \/ Concludes(a)
    BY <2>2, <2>3, Zenon DEF Concludes
  <2> QED
    BY <1>2, <2>2, <2>4, Zenon DEF OutcomeStep
<1>6. CASE LateMessage
  <2>1. PICK a \in Actions, rid \in Nat :
           /\ <<a, rid>> \in late
           /\ \/ UNCHANGED delivered
              \/ /\ delivered'[a] = delivered[a] \cup {rid}
                 /\ \A b \in Actions : b # a => delivered'[b] = delivered[b]
    BY <1>t, <1>6, LateFacts, Zenon
  <2>2. UNCHANGED row
    BY <1>t, <1>6, LateFacts, Zenon DEF db
  <2>3. rid = 1 /\ OnItsWay(a)
    BY <1>t, <2>1, Zenon DEF LateInv, OnItsWay
  <2>4. UNCHANGED delivered \/ Arrives(a)
    BY <2>1, <2>2, <2>3, Zenon DEF Arrives
  <2> QED
    BY <1>2, <2>2, <2>4, Zenon DEF OutcomeStep
<1> QED
  BY <1>3, <1>4, <1>5, <1>6, Zenon DEF Listener

LEMMA NextOutcome == SendInv /\ AloneInv /\ [Next]_vars => OutcomeStep
<1> SUFFICES ASSUME SendInv, AloneInv, [Next]_vars PROVE OutcomeStep
  OBVIOUS
<1>1. CASE UNCHANGED vars
  <2>1. UNCHANGED <<row, delivered>>
    BY <1>1, Zenon DEF vars, db, external
  <2> QED
    BY <2>1, KeptOutcome, Zenon DEF OutcomeStep
<1> QED
  BY <1>1, DraftOutcome, ThreadOutcome, ListenerOutcome DEF Next

\* A request goes out only for a row that executes.
WayStep ==
    /\ \A f \in Executors : proc'[f].pc = "rpc" =>
          \/ proc[f].pc = "rpc" /\ proc'[f].act = proc[f].act
          \/ row'[proc'[f].act].status = "executing"
    /\ \A m \in late' : m \in late \/ OnItsWay(m[1])

LEMMA QuietWay ==
    ASSUME late' \subseteq late,
           UNCHANGED proc \/ \E e \in Executors : Others(e) /\ proc'[e].pc # "rpc"
    PROVE  WayStep
<1>1. \A f \in Executors : proc'[f] = proc[f] \/ proc'[f].pc # "rpc"
  BY Zenon DEF Others
<1> QED
  BY <1>1, Zenon DEF WayStep

LEMMA ThreadWay ==
    ASSUME SendInv, NEW e \in Executors, Thread(e) \/ Crash(e)
    PROVE  WayStep
<1>t. TypeOK
  BY Zenon DEF SendInv
<1>1. PICK a \in Actions : proc[e].act = a
  BY <1>t, Zenon DEF TypeOK, ThreadType
<1>2. ASSUME UNCHANGED late,
             \/ Stops(e) \/ \E pc \in (Early \cup Past) \ {"rpc"} : GoesTo(e, pc)
             \/ Others(e) /\ proc'[e].pc # "rpc"
      PROVE  WayStep
  <2>1. Others(e) /\ proc'[e].pc # "rpc"
    BY <1>2, Zenon DEF Stops, GoesTo
  <2> QED
    BY <1>2, <2>1, QuietWay, Zenon
<1>3. CASE EvaluatePolicy(e) \/ RefuseMessage(e) \/ recoverOne(e)
  <2>1. /\ UNCHANGED late
        /\ \/ Stops(e)
           \/ \E pc \in {"deny", "reserve", "flood", "refused", "record", "unknown", "note", "withhold"} :
                 GoesTo(e, pc)
    BY <1>t, <1>3, ReadFacts, Zenon DEF external
  <2>2. Stops(e) \/ \E pc \in (Early \cup Past) \ {"rpc"} : GoesTo(e, pc)
    BY <2>1, Zenon DEF Early, Past
  <2> QED
    BY <1>2, <2>1, <2>2, Zenon
<1>4. CASE DenyApproved(e) \/ DenyExecuting(e)
  <2>1. PICK from \in {"approved", "executing"} :
           \/ DenyApproved(e) /\ from = "approved" /\ proc[e].pc = "deny"
           \/ DenyExecuting(e) /\ from = "executing" /\ proc[e].pc = "withhold"
    BY <1>4, Zenon DEF DenyApproved, DenyExecuting
  <2> QED
    BY <1>t, <1>2, <2>1, DenyFacts, Zenon DEF external
<1>5. CASE ReserveAgentActionSend(e)
  <2>1. /\ UNCHANGED late
        /\ GoesTo(e, "deny") \/ Stops(e) \/ (Others(e) /\ proc'[e].pc = "note")
    BY <1>t, <1>5, ReserveFacts, Zenon DEF external
  <2>2. GoesTo(e, "deny") => \E pc \in (Early \cup Past) \ {"rpc"} : GoesTo(e, pc)
    BY Zenon DEF Early
  <2> QED
    BY <1>2, <2>1, <2>2, Zenon
<1>6. CASE NoteAgentActionSendAttempt(e)
  <2>1. /\ UNCHANGED late
        /\ \/ Stops(e)
           \/ /\ row'[a].status = "executing" /\ proc'[e].act = a /\ Others(e)
    BY <1>t, <1>1, <1>6, NoteFacts, Zenon DEF external
  <2>2. CASE Stops(e)
    BY <1>2, <2>1, <2>2, Zenon
  <2>3. CASE row'[a].status = "executing" /\ proc'[e].act = a /\ Others(e)
    <3>1. \A f \in Executors : f # e => proc'[f] = proc[f]
      BY <2>3, Zenon DEF Others
    <3> QED
      BY <2>1, <2>3, <3>1, Zenon DEF WayStep
  <2> QED
    BY <2>1, <2>2, <2>3, Zenon
<1>7. CASE UnnoteAgentActionSendAttempt(e)
  <2>1. /\ UNCHANGED late
        /\ Stops(e) \/ \E pc \in {"unknown", "withhold"} : GoesTo(e, pc)
    BY <1>t, <1>7, UnnoteFacts, Zenon DEF external
  <2>2. Stops(e) \/ \E pc \in (Early \cup Past) \ {"rpc"} : GoesTo(e, pc)
    BY <2>1, Zenon DEF Past
  <2> QED
    BY <1>2, <2>1, <2>2, Zenon
<1>8. CASE SendMessage(e)
  <2>1. UNCHANGED late /\ \E pc \in {"mark", "record"} : GoesTo(e, pc)
    BY <1>t, <1>8, SendFacts, Zenon
  <2>2. \E pc \in (Early \cup Past) \ {"rpc"} : GoesTo(e, pc)
    BY <2>1, Zenon DEF Past
  <2> QED
    BY <1>2, <2>1, <2>2, Zenon
<1>9. CASE LoseAnswer(e) \/ Crash(e)
  <2>1. /\ late' = late \/ (proc[e].pc = "rpc" /\ late' = late \cup {<<a, proc[e].rid>>})
        /\ Stops(e) \/ GoesTo(e, "unknown")
    BY <1>t, <1>1, <1>9, LoseFacts, CrashFacts
  <2>2. \A f \in Executors : proc'[f] = proc[f] \/ proc'[f].pc # "rpc"
    BY <2>1, Zenon DEF Stops, GoesTo, Others
  <2>3. proc[e].pc = "rpc" => OnItsWay(a)
    BY <1>1, Zenon DEF OnItsWay
  <2>4. \A m \in late' : m \in late \/ OnItsWay(m[1])
    BY <2>1, <2>3
  <2> QED
    BY <2>2, <2>4, Zenon DEF WayStep
<1>10. CASE MarkSent(e)
  <2>1. UNCHANGED late /\ Others(e) /\ proc'[e].pc = "record"
    BY <1>t, <1>10, MarkFacts, Zenon DEF external
  <2> QED
    BY <1>2, <2>1, Zenon
<1>11. CASE RecordAgentActionSent(e) \/ MarkAgentActionDeliveryUnknown(e)
  BY <1>t, <1>2, <1>11, RecordFacts, UnknownFacts DEF external
<1> QED
  BY <1>3, <1>4, <1>5, <1>6, <1>7, <1>8, <1>9, <1>10, <1>11 DEF Thread

LEMMA NextWay == SendInv /\ [Next]_vars => WayStep
<1> SUFFICES ASSUME SendInv, [Next]_vars PROVE WayStep
  OBVIOUS
<1>t. TypeOK /\ \A a \in Actions : RowInv(a)
  BY Zenon DEF SendInv
<1>1. CASE UNCHANGED vars
  <2>1. UNCHANGED <<late, proc>>
    BY <1>1, Zenon DEF vars, external
  <2> QED
    BY <2>1, QuietWay, Zenon
<1>2. ASSUME NEW a \in Actions,
             \/ InsertAgentAction(a) \/ Reject(a) \/ ExpireStaleAgentActions(a)
             \/ GraceEnds(a) \/ TTLEnds(a) \/ FloodWaitEnds(a)
      PROVE  WayStep
  <2>1. UNCHANGED <<late, proc>>
    BY <1>2, Zenon DEF InsertAgentAction, Reject, ExpireStaleAgentActions, GraceEnds, TTLEnds, FloodWaitEnds,
                external
  <2> QED
    BY <2>1, QuietWay, Zenon
<1>3. ASSUME NEW a \in Actions, NEW e \in Executors,
             Approve(e, a) \/ ProcessApproved(e, a) \/ RecoverStuck(e, a)
      PROVE  WayStep
  <2>1. UNCHANGED late /\ (UNCHANGED proc \/ (Others(e) /\ proc'[e].pc \in {"load", "recover"}))
    BY <1>t, <1>3, ApproveFacts, ProcessFacts, RecoverFacts DEF external
  <2>2. UNCHANGED proc \/ (Others(e) /\ proc'[e].pc # "rpc")
    BY <2>1, Zenon
  <2> QED
    BY <2>1, <2>2, QuietWay, ZenonT(30)
<1>4. CASE LateMessage \/ Listener
  <2>1. late' \subseteq late /\ UNCHANGED proc
    <3>1. CASE LateMessage
      BY <3>1, Zenon DEF LateMessage
    <3>2. CASE Listener
      BY <3>2, Zenon DEF Listener, ConsumeSent, SelectUnconfirmed, MatchUnconfirmedAgentSend, OwnerSteps,
                  SetConversationTakenOver, DenyPendingActionsForConversation, ResetAutonomousTurns,
                  external
    <3> QED
      BY <1>4, <3>1, <3>2
  <2> QED
    BY <2>1, QuietWay, Zenon
<1> QED
  BY <1>1, <1>2, <1>3, <1>4, ThreadWay DEF Next
=============================================================================
