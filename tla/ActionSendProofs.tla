-------------------------- MODULE ActionSendProofs --------------------------
(***************************************************************************)
(* Safety of ActionSend for any number of actions and threads, any limits, *)
(* and any crashes, lost answers and redelivered echoes; and that it       *)
(* implements SendOutcome when one process sends at a time and its sends   *)
(* end within the grace window.                                            *)
(***************************************************************************)
EXTENDS ActionSendInvariants
-----------------------------------------------------------------------------
(* The turn budget and the takeover. *)

\* What any step may do to the budget, to a draft and to a takeover.
Budgeted ==
    \/ UNCHANGED <<turns, unreviewed>>
    \/ turns' = 0 /\ unreviewed' = 0
    \/ /\ turns' = turns + 1
       /\ \/ unreviewed' = unreviewed
          \/ unreviewed' = unreviewed + 1 /\ turns < MaxAutonomousTurns

RowOrderly(b) ==
    /\ row'[b].status = "approved" => row[b].status \in Unsent
    /\ row'[b].status = "executing" =>
          \/ row[b].status = "executing"
          \/ row[b].status = "approved" /\ \E e \in Executors : proc[e].pc = "reserve" /\ proc[e].act = b

ThreadOrderly(f) ==
    proc'[f].pc = "reserve" =>
        \/ proc[f].pc = "reserve" /\ proc'[f].act = proc[f].act
        \/ ~takenOver

TakeoverOrderly ==
    settled' => \/ settled /\ (takenOver => takenOver')
                \/ takenOver' /\ \A b \in Actions : row'[b].status # "approved"

Orderly ==
    /\ Budgeted
    /\ \A b \in Actions : RowOrderly(b)
    /\ \A f \in Executors : ThreadOrderly(f)
    /\ TakeoverOrderly

LEMMA OrderlyThreads ==
    ASSUME UNCHANGED proc \/ \E e \in Executors : Others(e) /\ proc'[e].pc # "reserve"
    PROVE  \A f \in Executors : ThreadOrderly(f)
<1> SUFFICES ASSUME NEW f \in Executors PROVE ThreadOrderly(f)
  OBVIOUS
<1>1. proc'[f] = proc[f] \/ proc'[f].pc # "reserve"
  BY Zenon DEF Others
<1> QED
  BY <1>1, Zenon DEF ThreadOrderly

LEMMA OrderlyRows ==
    ASSUME NEW b \in Actions,
           row'[b] = row[b] \/ row'[b].status = row[b].status \/ Decided(b)
    PROVE  RowOrderly(b)
<1>1. CASE row'[b] = row[b] \/ row'[b].status = row[b].status
  BY <1>1, Zenon DEF RowOrderly, Unsent
<1>2. CASE Decided(b)
  BY <1>2, Zenon DEF RowOrderly, Decided, Unsent
<1> QED
  BY <1>1, <1>2, Zenon

\* Steps that leave the budget and the takeover alone.
LEMMA OrderlyStep ==
    ASSUME UNCHANGED <<turns, unreviewed, takenOver, settled>>,
           UNCHANGED proc \/ \E e \in Executors : Others(e) /\ proc'[e].pc # "reserve",
           \A b \in Actions : RowOrderly(b)
    PROVE  Orderly
  BY OrderlyThreads, Zenon DEF Orderly, Budgeted, TakeoverOrderly

LEMMA DraftOrderly ==
    ASSUME SendInv, NEW a \in Actions,
           \/ InsertAgentAction(a) \/ Reject(a) \/ ExpireStaleAgentActions(a)
           \/ GraceEnds(a) \/ TTLEnds(a) \/ FloodWaitEnds(a)
           \/ \E e \in Executors : Approve(e, a) \/ ProcessApproved(e, a) \/ RecoverStuck(e, a)
    PROVE  Orderly
<1>t. TypeOK /\ RowInv(a)
  BY Zenon DEF SendInv
<1>1. CASE InsertAgentAction(a)
  <2>1. ~row[a].stuck
    BY <1>t, <1>1, Zenon DEF RowInv, InsertAgentAction
  <2>2. /\ UNCHANGED <<turns, unreviewed, takenOver, settled, proc>>
        /\ \A b \in Actions : row'[b] = row[b] \/ Decided(b)
    BY <1>t, <1>1, <2>1, InsertFacts DEF owner
  <2> QED
    BY <2>2, OrderlyRows, OrderlyStep, Zenon
<1>2. CASE Reject(a) \/ ExpireStaleAgentActions(a)
  <2>1. /\ UNCHANGED <<turns, unreviewed, takenOver, settled, proc>>
        /\ \A b \in Actions : row'[b] = row[b] \/ Decided(b)
    BY <1>t, <1>2, WithdrawFacts, Zenon DEF owner
  <2> QED
    BY <2>1, OrderlyRows, OrderlyStep, Zenon
<1>3. CASE GraceEnds(a) \/ TTLEnds(a) \/ FloodWaitEnds(a)
  <2>1. /\ UNCHANGED <<turns, unreviewed, takenOver, settled, proc>>
        /\ \A b \in Actions : row'[b].status = row[b].status
    BY <1>t, <1>3, ClockFacts, Zenon DEF owner, Kept
  <2> QED
    BY <2>1, OrderlyRows, OrderlyStep, Zenon
<1>4. ASSUME NEW e \in Executors, Approve(e, a) PROVE Orderly
  <2>1. /\ UNCHANGED <<turns, unreviewed, takenOver, settled>>
        /\ \A b \in Actions : row'[b] = row[b] \/ Decided(b)
        /\ UNCHANGED proc \/ (Others(e) /\ proc'[e].pc = "load")
    BY <1>t, <1>4, ApproveFacts DEF owner
  <2>2. UNCHANGED proc \/ (Others(e) /\ proc'[e].pc # "reserve")
    BY <2>1, Zenon
  <2> QED
    BY <2>1, <2>2, OrderlyRows, OrderlyStep, Zenon
<1>5. ASSUME NEW e \in Executors, ProcessApproved(e, a) \/ RecoverStuck(e, a) PROVE Orderly
  <2>1. /\ UNCHANGED <<row, turns, unreviewed, takenOver, settled>> /\ Others(e)
        /\ proc'[e].pc \in {"load", "recover"}
    BY <1>t, <1>5, ProcessFacts, RecoverFacts DEF owner, db
  <2>2. proc'[e].pc # "reserve"
    BY <2>1, Zenon
  <2> QED
    BY <2>1, <2>2, OrderlyRows, OrderlyStep, Zenon
<1> QED
  BY <1>1, <1>2, <1>3, <1>4, <1>5, Zenon

LEMMA ThreadStepOrderly ==
    ASSUME SendInv, NEW e \in Executors, Thread(e) \/ Crash(e)
    PROVE  Orderly
<1>t. TypeOK
  BY Zenon DEF SendInv
<1>1. PICK a \in Actions : proc[e].act = a
  BY <1>t, Zenon DEF TypeOK, ThreadType
<1>s. Stops(e) => Others(e) /\ proc'[e].pc # "reserve"
  BY Zenon DEF Stops
<1>g. \A pc \in Past \cup {"deny"} : GoesTo(e, pc) => Others(e) /\ proc'[e].pc # "reserve"
  BY Zenon DEF GoesTo, Past
<1>2. ASSUME UNCHANGED <<turns, unreviewed, takenOver, settled>>,
             \/ Stops(e) \/ \E pc \in Past \cup {"deny"} : GoesTo(e, pc)
             \/ Others(e) /\ proc'[e].pc # "reserve",
             \A b \in Actions : RowOrderly(b)
      PROVE  Orderly
  BY <1>s, <1>g, <1>2, OrderlyStep, Zenon
<1>3. CASE EvaluatePolicy(e) \/ RefuseMessage(e) \/ recoverOne(e)
  <2>1. /\ UNCHANGED <<row, turns, unreviewed, takenOver, settled>>
        /\ \/ Stops(e) \/ \E pc \in Past \cup {"deny"} : GoesTo(e, pc)
           \/ GoesTo(e, "reserve") /\ ~takenOver
    BY <1>t, <1>3, ReadFacts, Zenon DEF db, owner, Past
  <2>2. \A b \in Actions : RowOrderly(b)
    BY <2>1, OrderlyRows, Zenon
  <2>3. CASE Stops(e) \/ \E pc \in Past \cup {"deny"} : GoesTo(e, pc)
    BY <1>2, <2>1, <2>2, <2>3, Zenon
  <2>4. CASE GoesTo(e, "reserve") /\ ~takenOver
    <3>1. \A f \in Executors : ThreadOrderly(f)
      BY <2>4, Zenon DEF ThreadOrderly
    <3> QED
      BY <2>1, <2>2, <3>1, Zenon DEF Orderly, Budgeted, TakeoverOrderly
  <2> QED
    BY <2>1, <2>3, <2>4, Zenon
<1>4. CASE DenyApproved(e) \/ DenyExecuting(e)
  <2>1. PICK from \in {"approved", "executing"} :
           \/ DenyApproved(e) /\ from = "approved" /\ proc[e].pc = "deny"
           \/ DenyExecuting(e) /\ from = "executing" /\ proc[e].pc = "withhold"
    BY <1>4, Zenon DEF DenyApproved, DenyExecuting
  <2>2. /\ UNCHANGED <<turns, unreviewed, takenOver, settled>> /\ Stops(e)
        /\ \A b \in Actions : row'[b] = row[b] \/ row'[b].status = "denied"
    BY <1>t, <2>1, DenyFacts, Zenon DEF owner
  <2>3. \A b \in Actions : RowOrderly(b)
    BY <2>2, Zenon DEF RowOrderly, Unsent
  <2> QED
    BY <1>2, <2>2, <2>3, Zenon
<1>5. CASE ReserveAgentActionSend(e)
  <2>1. /\ UNCHANGED <<takenOver, settled>> /\ proc[e].pc = "reserve"
        /\ \A b \in Actions : b # a => row'[b] = row[b]
        /\ \/ UNCHANGED <<row, turns, unreviewed>> /\ (GoesTo(e, "deny") \/ Stops(e))
           \/ /\ row[a].status = "approved" /\ row'[a].status = "executing"
              /\ Others(e) /\ proc'[e].pc = "note" /\ Budgeted
    BY <1>t, <1>1, <1>5, ReserveFacts, Zenon DEF owner, Budgeted
  <2>2. Others(e) /\ proc'[e].pc # "reserve" /\ Budgeted
    BY <1>s, <1>g, <2>1, Zenon DEF Budgeted
  <2>3. \A b \in Actions : RowOrderly(b)
    BY <1>1, <2>1, Zenon DEF RowOrderly, Unsent
  <2> QED
    BY <2>1, <2>2, <2>3, OrderlyThreads, Zenon DEF Orderly, TakeoverOrderly
<1>6. CASE NoteAgentActionSendAttempt(e) \/ UnnoteAgentActionSendAttempt(e)
  <2>1. /\ UNCHANGED <<turns, unreviewed, takenOver, settled>>
        /\ \A b \in Actions : row'[b] = row[b] \/ row'[b].status = row[b].status
        /\ \/ Stops(e) \/ GoesTo(e, "unknown") \/ GoesTo(e, "withhold")
           \/ Others(e) /\ proc'[e].pc = "rpc"
    BY <1>t, <1>1, <1>6, NoteFacts, UnnoteFacts DEF owner
  <2>2. \/ Stops(e) \/ \E pc \in Past \cup {"deny"} : GoesTo(e, pc)
        \/ Others(e) /\ proc'[e].pc # "reserve"
    BY <2>1, Zenon DEF Past
  <2> QED
    BY <1>2, <2>1, <2>2, OrderlyRows, Zenon
<1>7. CASE SendMessage(e) \/ LoseAnswer(e) \/ Crash(e) \/ MarkSent(e)
  <2>1. /\ UNCHANGED <<row, turns, unreviewed, takenOver, settled>>
        /\ \/ Stops(e) \/ GoesTo(e, "mark") \/ GoesTo(e, "record") \/ GoesTo(e, "unknown")
           \/ Others(e) /\ proc'[e].pc = "record"
    BY <1>t, <1>7, SendFacts, LoseFacts, CrashFacts, MarkFacts, Zenon DEF owner, db
  <2>2. \/ Stops(e) \/ \E pc \in Past \cup {"deny"} : GoesTo(e, pc)
        \/ Others(e) /\ proc'[e].pc # "reserve"
    BY <2>1, Zenon DEF Past
  <2> QED
    BY <1>2, <2>1, <2>2, OrderlyRows, Zenon
<1>8. CASE RecordAgentActionSent(e) \/ MarkAgentActionDeliveryUnknown(e)
  <2>1. /\ UNCHANGED <<turns, unreviewed, takenOver, settled>> /\ Stops(e)
        /\ \A b \in Actions : row'[b] = row[b] \/ row'[b].status \in {"executed", "delivery_unknown"}
    BY <1>t, <1>1, <1>8, RecordFacts, UnknownFacts, Zenon DEF owner
  <2>2. \A b \in Actions : RowOrderly(b)
    BY <2>1, Zenon DEF RowOrderly, Unsent
  <2> QED
    BY <1>2, <2>1, <2>2, Zenon
<1> QED
  BY <1>3, <1>4, <1>5, <1>6, <1>7, <1>8, Zenon DEF Thread

LEMMA ListenerOrderly ==
    ASSUME SendInv, Listener \/ LateMessage
    PROVE  Orderly
<1>t. TypeOK
  BY Zenon DEF SendInv
<1>1. CASE \/ LateMessage \/ SelectUnconfirmed \/ \E a \in Actions : ConsumeSent(a)
  <2>1. UNCHANGED <<row, proc, turns, unreviewed, takenOver, settled>>
    BY <1>t, <1>1, LateFacts, SelectFacts, ConsumeFacts, Zenon DEF db, owner
  <2> QED
    BY <2>1, OrderlyRows, OrderlyStep, Zenon
<1>2. CASE MatchUnconfirmedAgentSend
  <2>1. PICK a \in Actions : a = lis.act
    BY <1>t, Zenon DEF TypeOK, ListenerType
  <2>2. /\ UNCHANGED <<proc, turns, unreviewed, takenOver, settled>>
        /\ \A b \in Actions : b # a => row'[b] = row[b]
        /\ row'[a].status = row[a].status \/ row'[a].status = "executed"
    BY <1>t, <1>2, <2>1, MatchFacts, Zenon
  <2>3. \A b \in Actions : RowOrderly(b)
    BY <2>2, Zenon DEF RowOrderly, Unsent
  <2> QED
    BY <2>2, <2>3, OrderlyStep, Zenon
<1>3. CASE OwnerSteps \/ SetConversationTakenOver
  <2>1. UNCHANGED <<row, proc, turns, unreviewed>> /\ (settled' => settled /\ (takenOver => takenOver'))
    BY <1>t, <1>3, OwnerFacts, Zenon DEF db
  <2> QED
    BY <2>1, OrderlyRows, OrderlyThreads, Zenon DEF Orderly, Budgeted, TakeoverOrderly
<1>4. CASE DenyPendingActionsForConversation
  <2>1. /\ UNCHANGED <<proc, turns, unreviewed, takenOver>>
        /\ \A b \in Actions : row'[b] = row[b] \/ Decided(b)
        /\ \/ settled' = takenOver /\ \A b \in Actions : row'[b].status # "approved"
           \/ UNCHANGED <<row, settled>>
    BY <1>t, <1>4, DenyPendingFacts, Zenon
  <2>2. TakeoverOrderly
    BY <2>1, Zenon DEF TakeoverOrderly
  <2> QED
    BY <2>1, <2>2, OrderlyRows, OrderlyThreads, Zenon DEF Orderly, Budgeted
<1>5. CASE ResetAutonomousTurns
  <2>1. UNCHANGED <<row, proc, takenOver, settled>> /\ turns' = 0 /\ unreviewed' = 0
    BY <1>t, <1>5, ResetFacts, Zenon
  <2> QED
    BY <2>1, OrderlyRows, OrderlyThreads, Zenon DEF Orderly, Budgeted, TakeoverOrderly
<1> QED
  BY <1>1, <1>2, <1>3, <1>4, <1>5, Zenon DEF Listener

LEMMA NextOrderly == SendInv /\ [Next]_vars => Orderly
<1> SUFFICES ASSUME SendInv, [Next]_vars PROVE Orderly
  OBVIOUS
<1>1. CASE UNCHANGED vars
  <2>1. UNCHANGED <<row, proc, turns, unreviewed, takenOver, settled>>
    BY <1>1, Zenon DEF vars, db, owner
  <2> QED
    BY <2>1, OrderlyRows, OrderlyStep, Zenon
<1> QED
  BY <1>1, DraftOrderly, ThreadStepOrderly, ListenerOrderly, Zenon DEF Next

\* Replies nobody reviewed stay within the turn budget: every one of them is
\* charged, and the reservation reads the counter it charges.
THEOREM TurnBudgetKept == Spec => []TurnBudgetHolds
<1>1. Init => TurnInv
  BY BoundAssumption DEF Init, TurnInv
<1>2. SendInv /\ TurnInv /\ [Next]_vars => TurnInv'
  <2> SUFFICES ASSUME SendInv, TurnInv, [Next]_vars PROVE TurnInv'
    OBVIOUS
  <2>1. Budgeted
    BY NextOrderly, Zenon DEF Orderly
  <2>2. turns \in Nat /\ unreviewed \in Nat /\ MaxAutonomousTurns \in Nat \ {0}
    BY BoundAssumption, Zenon DEF SendInv, TypeOK
  <2> QED
    BY <2>1, <2>2 DEF Budgeted, TurnInv
<1>3. TurnInv => TurnBudgetHolds
  BY Zenon DEF TurnInv, TurnBudgetHolds
<1> QED
  BY <1>1, <1>2, <1>3, InitSendInv, NextSendInv, PTL DEF Spec

\* After a takeover has denied the drafts no send begins, whatever a thread
\* had read before the takeover.
THEOREM TakeoverHolds == Spec => TakeoverStopsReplies
<1>1. Init => TakeoverInv
  BY Zenon DEF Init, TakeoverInv
<1>2. SendInv /\ TakeoverInv /\ [Next]_vars => TakeoverInv'
  <2> SUFFICES ASSUME SendInv, TakeoverInv, [Next]_vars, settled' PROVE TakeoverInv'
    BY Zenon DEF TakeoverInv
  <2>1. TypeOK /\ Orderly
    BY NextOrderly, Zenon DEF SendInv
  <2>2. CASE takenOver' /\ \A b \in Actions : row'[b].status # "approved"
    <3>1. \A f \in Executors : proc'[f].act \in Actions
      BY NextSendInv, Zenon DEF SendInv, TypeOK, ThreadType
    <3> QED
      BY <2>2, <3>1, Zenon DEF TakeoverInv
  <2>3. CASE settled /\ (takenOver => takenOver')
    <3>1. takenOver /\ takenOver'
      BY <2>3, Zenon DEF TakeoverInv
    <3>2. ASSUME NEW f \in Executors, proc'[f].pc = "reserve"
          PROVE  row'[proc'[f].act].status # "approved"
      <4>1. PICK a \in Actions : a = proc[f].act
        BY <2>1, Zenon DEF TypeOK, ThreadType
      <4>2. proc[f].pc = "reserve" /\ proc'[f].act = a
        BY <2>1, <3>1, <3>2, <4>1, Zenon DEF Orderly, ThreadOrderly
      <4>3. row[a].status \notin Unsent
        BY <2>3, <4>1, <4>2, Zenon DEF TakeoverInv, SendInv, ThreadInv, Early, Unsent
      <4>4. RowOrderly(a)
        BY <2>1, Zenon DEF Orderly
      <4> QED
        BY <4>2, <4>3, <4>4, Zenon DEF RowOrderly
    <3> QED
      BY <3>1, <3>2, Zenon DEF TakeoverInv
  <2> QED
    BY <2>1, <2>2, <2>3, Zenon DEF Orderly, TakeoverOrderly
<1>3. SendInv /\ TakeoverInv /\ [Next]_vars =>
        (settled /\ settled' => \A a \in Actions : row'[a].status = "executing" => row[a].status = "executing")
  <2> SUFFICES ASSUME SendInv, TakeoverInv, [Next]_vars, settled, NEW a \in Actions,
                      row'[a].status = "executing", row[a].status # "executing"
               PROVE  FALSE
    OBVIOUS
  <2>1. PICK e \in Executors : row[a].status = "approved" /\ proc[e].pc = "reserve" /\ proc[e].act = a
    BY NextOrderly, Zenon DEF Orderly, RowOrderly
  <2> QED
    BY <2>1, Zenon DEF TakeoverInv
<1> QED
  BY <1>1, <1>2, <1>3, InitSendInv, NextSendInv, PTL DEF Spec, TakeoverStopsReplies
-----------------------------------------------------------------------------
\* From here on deliveries and the threads that are sending are counted.
INSTANCE FiniteSetTheorems

\* However often a reply is retried, whatever crashes and whatever answers
\* are lost, the peer gets it at most once.
THEOREM RepliesArriveOnce == Spec => []AtMostOnce
<1>1. SendInv => AtMostOnce
  <2> SUFFICES ASSUME SendInv, NEW a \in Actions PROVE Cardinality(delivered[a]) <= 1
    BY Zenon DEF AtMostOnce
  <2>1. delivered[a] = {} \/ delivered[a] = {1}
    BY DEF SendInv, RowInv
  <2>2. Cardinality({}) = 0 /\ Cardinality({1}) = 1
    BY FS_EmptySet, FS_Singleton, Zenon
  <2> QED
    BY <2>1, <2>2
<1> QED
  BY <1>1, InitSendInv, NextSendInv, PTL DEF Spec
-----------------------------------------------------------------------------
(* Every attempt is counted. *)

CountsInv == \A a \in Actions : CountInv(a)

LEMMA FewerCounted ==
    ASSUME NEW S, NEW T, IsFiniteSet(S), T \subseteq S
    PROVE  IsFiniteSet(T) /\ Cardinality(T) \in Nat /\ Cardinality(T) <= Cardinality(S)
  BY FS_Subset, FS_CardinalityType, Zenon

LEMMA OneLess ==
    ASSUME NEW S, NEW T, IsFiniteSet(S), NEW e \in S, T \subseteq S \ {e}
    PROVE  IsFiniteSet(T) /\ Cardinality(T) \in Nat /\ Cardinality(T) + 1 <= Cardinality(S)
<1>1. IsFiniteSet(S \ {e}) /\ Cardinality(S \ {e}) = Cardinality(S) - 1
  BY FS_RemoveElement, Zenon
<1>2. IsFiniteSet(T) /\ Cardinality(T) \in Nat /\ Cardinality(T) <= Cardinality(S \ {e})
  BY <1>1, FS_Subset, FS_CardinalityType, Zenon
<1>3. Cardinality(S) \in Nat
  BY FS_CardinalityType, Zenon
<1> QED
  BY <1>1, <1>2, <1>3

\* A thread does not start to count.
Shrinks(f) == proc'[f].pc \in Sending => proc[f].pc \in Sending /\ proc'[f].act = proc[f].act

LEMMA QuietCount ==
    ASSUME TypeOK, TypeOK', CountsInv, \A f \in Executors : Shrinks(f),
           \A b \in Actions : row'[b].attempts = row[b].attempts,
           \A b \in Actions : Burnt(b)' => Burnt(b)
    PROVE  CountsInv'
<1> SUFFICES ASSUME NEW b \in Actions PROVE CountInv(b)'
  BY Zenon DEF CountsInv
<1>1. CountInv(b) /\ row[b].attempts \in Nat
  BY Zenon DEF CountsInv, TypeOK, RowType
<1>2. Counting(b)' \subseteq Counting(b)
  BY Zenon DEF Counting, Shrinks
<1> DEFINE S == Counting(b)
           T == Counting(b)'
<1>3. IsFiniteSet(S) /\ T \subseteq S
  BY <1>1, <1>2, Zenon DEF CountInv
<1>4. IsFiniteSet(T) /\ Cardinality(T) \in Nat /\ Cardinality(T) <= Cardinality(S) /\ Cardinality(S) \in Nat
  <2> HIDE DEF S, T
  <2> QED
    BY <1>3, FewerCounted, FS_CardinalityType
<1>5. row'[b].attempts = row[b].attempts /\ (Burnt(b)' => Burnt(b))
  OBVIOUS
<1>6. row[b].attempts >= Cardinality(S) + (IF Burnt(b) THEN 1 ELSE 0)
  BY <1>1, Zenon DEF CountInv
<1>7. row'[b].attempts >= Cardinality(T) + (IF Burnt(b)' THEN 1 ELSE 0)
  <2> HIDE DEF S, T
  <2> QED
    BY <1>1, <1>4, <1>5, <1>6
<1> QED
  BY <1>4, <1>7, Zenon DEF CountInv

\* The count goes up with a thread that starts to count.
LEMMA NoteCount ==
    ASSUME TypeOK, TypeOK', CountsInv, NEW e \in Executors, NEW a \in Actions, Others(e),
           proc[e].pc \notin Sending, proc'[e].act = a,
           row'[a].attempts = row[a].attempts + 1,
           \A b \in Actions : b # a => row'[b] = row[b],
           \A b \in Actions : Burnt(b)' => Burnt(b)
    PROVE  CountsInv'
<1> SUFFICES ASSUME NEW b \in Actions PROVE CountInv(b)'
  BY Zenon DEF CountsInv
<1>1. CountInv(b) /\ row[b].attempts \in Nat
  BY Zenon DEF CountsInv, TypeOK, RowType
<1> DEFINE S == Counting(b)
           T == Counting(b)'
           U == S \cup {e}
<1>2. T \subseteq U /\ (b # a => T \subseteq S) /\ e \notin S
  BY Zenon DEF Counting, Others
<1>3. IsFiniteSet(S) /\ row[b].attempts >= Cardinality(S) + (IF Burnt(b) THEN 1 ELSE 0)
  BY <1>1, Zenon DEF CountInv
<1>4. Burnt(b)' => Burnt(b)
  OBVIOUS
<1>5. Cardinality(S) \in Nat /\ IsFiniteSet(U) /\ Cardinality(U) = Cardinality(S) + 1
  <2> HIDE DEF S
  <2> QED
    BY <1>2, <1>3, FS_AddElement, FS_CardinalityType
<1>6. /\ IsFiniteSet(T) /\ Cardinality(T) \in Nat /\ Cardinality(T) <= Cardinality(S) + 1
      /\ b # a => Cardinality(T) <= Cardinality(S)
  <2> HIDE DEF S, T, U
  <2> QED
    BY <1>2, <1>3, <1>5, FewerCounted
<1>7. row'[b].attempts = row[b].attempts + (IF b = a THEN 1 ELSE 0)
  BY <1>1
<1>8. row'[b].attempts >= Cardinality(T) + (IF Burnt(b)' THEN 1 ELSE 0)
  <2> HIDE DEF S, T, U
  <2> QED
    BY <1>1, <1>3, <1>4, <1>5, <1>6, <1>7
<1> QED
  BY <1>6, <1>8, Zenon DEF CountInv

\* A thread stops counting: its request may have gone out, or the count goes
\* down with it.
LEMMA UncountOne ==
    ASSUME TypeOK, TypeOK', CountsInv, NEW e \in Executors, NEW a \in Actions, Others(e),
           proc[e].pc \in Sending, proc[e].act = a, proc'[e].pc \notin Sending,
           \A b \in Actions : b # a => row'[b].attempts = row[b].attempts /\ (Burnt(b)' => Burnt(b)),
           \/ row'[a].attempts = row[a].attempts
           \/ row'[a].attempts = Unnoted(row[a].attempts) /\ (Burnt(a)' => Burnt(a))
    PROVE  CountsInv'
<1> SUFFICES ASSUME NEW b \in Actions PROVE CountInv(b)'
  BY Zenon DEF CountsInv
<1>1. CountInv(b) /\ row[b].attempts \in Nat
  BY Zenon DEF CountsInv, TypeOK, RowType
<1> DEFINE S == Counting(b)
           T == Counting(b)'
<1>2. T \subseteq S /\ (b = a => e \in S /\ T \subseteq S \ {e})
  BY Zenon DEF Counting, Others
<1>3. IsFiniteSet(S) /\ row[b].attempts >= Cardinality(S) + (IF Burnt(b) THEN 1 ELSE 0)
  BY <1>1, Zenon DEF CountInv
<1>4. /\ IsFiniteSet(T) /\ Cardinality(T) \in Nat /\ Cardinality(T) <= Cardinality(S)
      /\ Cardinality(S) \in Nat /\ (b = a => Cardinality(T) + 1 <= Cardinality(S))
  <2> HIDE DEF S, T
  <2> QED
    BY <1>2, <1>3, FewerCounted, OneLess, FS_CardinalityType
<1> DEFINE s == Cardinality(S)
           t == Cardinality(T)
           m == row[b].attempts
           n == row'[b].attempts
<1>6. m \in Nat /\ s \in Nat /\ t \in Nat /\ t <= s /\ (b = a => t + 1 <= s)
  BY <1>1, <1>4, Zenon
<1>7. m >= s /\ (Burnt(b) => m >= s + 1)
  BY <1>3, <1>6
<1>5. n >= t + (IF Burnt(b)' THEN 1 ELSE 0)
  <2>1. CASE b # a
    <3>1. n = m /\ (Burnt(b)' => Burnt(b))
      BY <2>1, Zenon
    <3> HIDE DEF m, n, s, t, S, T
    <3> QED
      BY <1>6, <1>7, <3>1
  <2>2. CASE b = a /\ n = m
    <3> HIDE DEF m, n, s, t, S, T
    <3> QED
      BY <1>6, <1>7, <2>2
  <2>3. CASE b = a /\ n = Unnoted(m) /\ (Burnt(b)' => Burnt(b))
    <3> HIDE DEF m, n, s, t, S, T
    <3>1. n \in Nat /\ n >= m - 1
      BY <1>6, <2>3 DEF Unnoted
    <3> QED
      BY <1>6, <1>7, <2>3, <3>1
  <2> QED
    BY <2>1, <2>2, <2>3, Zenon
<1> QED
  BY <1>4, <1>5, Zenon DEF CountInv

LEMMA ShrinkOthers ==
    ASSUME UNCHANGED proc \/ \E e \in Executors : Others(e) /\ Shrinks(e)
    PROVE  \A f \in Executors : Shrinks(f)
<1>1. CASE UNCHANGED proc
  BY <1>1, Zenon DEF Shrinks
<1>2. ASSUME NEW e \in Executors, Others(e), Shrinks(e) PROVE \A f \in Executors : Shrinks(f)
  <2> SUFFICES ASSUME NEW f \in Executors PROVE Shrinks(f)
    OBVIOUS
  <2>1. CASE f = e
    BY <1>2, <2>1, Zenon
  <2>2. CASE f # e
    BY <1>2, <2>2, Zenon DEF Others, Shrinks
  <2> QED
    BY <2>1, <2>2, Zenon
<1> QED
  BY <1>1, <1>2, Zenon

LEMMA QuietStepCount ==
    ASSUME TypeOK, TypeOK', CountsInv, UNCHANGED <<delivered, late>>,
           UNCHANGED proc \/ \E e \in Executors : Others(e) /\ Shrinks(e),
           \A b \in Actions : row'[b].attempts = row[b].attempts
    PROVE  CountsInv'
<1>1. \A f \in Executors : Shrinks(f)
  BY ShrinkOthers, Zenon
<1>2. \A b \in Actions : Burnt(b)' => Burnt(b)
  BY Zenon DEF Burnt
<1> QED
  BY <1>1, <1>2, QuietCount

LEMMA DraftCount ==
    ASSUME SendInv, CountsInv, NEW a \in Actions,
           \/ InsertAgentAction(a) \/ Reject(a) \/ ExpireStaleAgentActions(a)
           \/ GraceEnds(a) \/ TTLEnds(a) \/ FloodWaitEnds(a)
           \/ \E e \in Executors : Approve(e, a) \/ ProcessApproved(e, a) \/ RecoverStuck(e, a)
    PROVE  CountsInv'
<1>t. TypeOK /\ RowInv(a)
  BY Zenon DEF SendInv
<1>1. CASE InsertAgentAction(a)
  <2>1. ~row[a].stuck
    BY <1>t, <1>1, Zenon DEF RowInv, InsertAgentAction
  <2>2. /\ TypeOK' /\ UNCHANGED <<delivered, late, proc>>
        /\ \A b \in Actions : row'[b] = row[b] \/ Decided(b)
    BY <1>t, <1>1, <2>1, InsertFacts DEF external
  <2> QED
    BY <1>t, <2>2, QuietStepCount DEF Decided
<1>2. CASE Reject(a) \/ ExpireStaleAgentActions(a)
  <2>1. /\ TypeOK' /\ UNCHANGED <<delivered, late, proc>>
        /\ \A b \in Actions : row'[b] = row[b] \/ Decided(b)
    BY <1>t, <1>2, WithdrawFacts DEF external
  <2> QED
    BY <1>t, <2>1, QuietStepCount, Zenon DEF Decided
<1>3. CASE GraceEnds(a) \/ TTLEnds(a) \/ FloodWaitEnds(a)
  <2>1. TypeOK' /\ UNCHANGED <<delivered, late, proc>> /\ \A b \in Actions : Kept(b)
    BY <1>t, <1>3, ClockFacts DEF external
  <2> QED
    BY <1>t, <2>1, QuietStepCount DEF Kept
<1>4. ASSUME NEW e \in Executors, Approve(e, a) PROVE CountsInv'
  <2>1. /\ TypeOK' /\ UNCHANGED <<delivered, late>>
        /\ \A b \in Actions : row'[b] = row[b] \/ Decided(b)
        /\ UNCHANGED proc \/ (Others(e) /\ proc'[e].pc = "load")
    BY <1>t, <1>4, ApproveFacts DEF external
  <2>2. UNCHANGED proc \/ (Others(e) /\ Shrinks(e))
    BY <2>1, Zenon DEF Shrinks, Sending
  <2> QED
    BY <1>t, <2>1, <2>2, QuietStepCount DEF Decided
<1>5. ASSUME NEW e \in Executors, ProcessApproved(e, a) \/ RecoverStuck(e, a) PROVE CountsInv'
  <2>1. /\ TypeOK' /\ UNCHANGED <<row, delivered, late>> /\ Others(e)
        /\ proc'[e].pc \in {"load", "recover"}
    BY <1>t, <1>5, ProcessFacts, RecoverFacts DEF external, db
  <2>2. Shrinks(e)
    BY <2>1, Zenon DEF Shrinks, Sending
  <2> QED
    BY <1>t, <2>1, <2>2, QuietStepCount
<1> QED
  BY <1>1, <1>2, <1>3, <1>4, <1>5

LEMMA QuietThreadCount ==
    ASSUME SendInv, CountsInv, NEW e \in Executors,
           \/ EvaluatePolicy(e) \/ RefuseMessage(e) \/ recoverOne(e)
           \/ DenyApproved(e) \/ DenyExecuting(e) \/ ReserveAgentActionSend(e)
           \/ MarkSent(e) \/ RecordAgentActionSent(e) \/ MarkAgentActionDeliveryUnknown(e)
    PROVE  CountsInv'
<1>t. TypeOK
  BY Zenon DEF SendInv
<1>1. ASSUME TypeOK', UNCHANGED <<delivered, late>>,
             \A b \in Actions : row'[b].attempts = row[b].attempts, Others(e),
             \/ proc'[e].pc \notin Sending
             \/ proc[e].pc \in Sending /\ proc'[e].act = proc[e].act
      PROVE  CountsInv'
  BY <1>t, <1>1, QuietStepCount DEF Shrinks
<1>2. CASE EvaluatePolicy(e) \/ RefuseMessage(e) \/ recoverOne(e)
  <2>1. /\ TypeOK' /\ UNCHANGED <<row, delivered, late>>
        /\ \/ \E pc \in {"deny", "reserve", "record", "unknown", "note", "withhold"} : GoesTo(e, pc)
           \/ Stops(e)
           \/ proc[e].pc = "rpc" /\ \E pc \in Sending : GoesTo(e, pc)
    BY <1>t, <1>2, ReadFacts DEF external, db, Sending
  <2>2. /\ Others(e)
        /\ proc'[e].pc \notin Sending \/ (proc[e].pc \in Sending /\ proc'[e].act = proc[e].act)
    BY <2>1, Zenon DEF GoesTo, Stops, Sending
  <2> QED
    BY <1>1, <2>1, <2>2
<1>3. CASE DenyApproved(e) \/ DenyExecuting(e)
  <2>1. PICK from \in {"approved", "executing"} :
           \/ DenyApproved(e) /\ from = "approved" /\ proc[e].pc = "deny"
           \/ DenyExecuting(e) /\ from = "executing" /\ proc[e].pc = "withhold"
    BY <1>3, Zenon DEF DenyApproved, DenyExecuting
  <2>2. /\ TypeOK' /\ UNCHANGED <<delivered, late>> /\ Stops(e)
        /\ \A b \in Actions : row'[b].attempts = row[b].attempts
    BY <1>t, <2>1, DenyFacts DEF external
  <2> QED
    BY <1>1, <2>2, Zenon DEF Stops, Sending
<1>4. CASE ReserveAgentActionSend(e)
  <2>1. /\ TypeOK' /\ UNCHANGED <<delivered, late>>
        /\ \A b \in Actions : row'[b].attempts = row[b].attempts
        /\ GoesTo(e, "deny") \/ Stops(e) \/ (Others(e) /\ proc'[e].pc = "note")
    BY <1>t, <1>4, ReserveFacts DEF external
  <2> QED
    BY <1>1, <2>1 DEF GoesTo, Stops, Sending
<1>5. CASE MarkSent(e)
  <2>1. TypeOK' /\ UNCHANGED <<row, delivered, late>> /\ Others(e) /\ proc'[e].pc = "record"
    BY <1>t, <1>5, MarkFacts DEF external, db
  <2> QED
    BY <1>1, <2>1 DEF Sending
<1>6. CASE RecordAgentActionSent(e)
  <2>1. /\ TypeOK' /\ UNCHANGED <<delivered, late>> /\ Stops(e)
        /\ \A b \in Actions : row'[b].attempts = row[b].attempts
    BY <1>t, <1>6, RecordFacts DEF external
  <2> QED
    BY <1>1, <2>1 DEF Stops, Sending
<1>7. CASE MarkAgentActionDeliveryUnknown(e)
  <2>1. /\ TypeOK' /\ UNCHANGED <<delivered, late>> /\ Stops(e)
        /\ \A b \in Actions : row'[b].attempts = row[b].attempts
    BY <1>t, <1>7, UnknownFacts DEF external
  <2> QED
    BY <1>1, <2>1, Zenon DEF Stops, Sending
<1> QED
  BY <1>2, <1>3, <1>4, <1>5, <1>6, <1>7

LEMMA CountingCount ==
    ASSUME SendInv, CountsInv, NEW e \in Executors,
           \/ NoteAgentActionSendAttempt(e) \/ UnnoteAgentActionSendAttempt(e)
           \/ SendMessage(e) \/ LoseAnswer(e) \/ Crash(e)
    PROVE  CountsInv'
<1>t. TypeOK
  BY Zenon DEF SendInv
<1>1. PICK a \in Actions : proc[e].act = a
  BY <1>t, Zenon DEF TypeOK, ThreadType
<1>s. ASSUME Stops(e) \/ GoesTo(e, "mark") \/ GoesTo(e, "record")
             \/ GoesTo(e, "unknown") \/ GoesTo(e, "withhold")
      PROVE  Others(e) /\ proc'[e].pc \notin Sending
  BY <1>s, Zenon DEF Stops, GoesTo, Sending
<1>b. UNCHANGED <<delivered, late>> => \A b \in Actions : Burnt(b)' => Burnt(b)
  BY Zenon DEF Burnt
<1>2. CASE NoteAgentActionSendAttempt(e)
  <2>1. /\ TypeOK' /\ proc[e].pc = "note" /\ UNCHANGED <<delivered, late>>
        /\ \/ UNCHANGED row /\ Stops(e)
           \/ /\ \A b \in Actions : b # a => row'[b] = row[b]
              /\ row'[a].attempts = row[a].attempts + 1
              /\ Others(e) /\ proc'[e].act = a
    BY <1>t, <1>1, <1>2, NoteFacts DEF external
  <2>2. CASE UNCHANGED row /\ Stops(e)
    BY <1>t, <1>s, <2>1, <2>2, QuietStepCount DEF Shrinks
  <2>3. CASE /\ \A b \in Actions : b # a => row'[b] = row[b]
             /\ row'[a].attempts = row[a].attempts + 1
             /\ Others(e) /\ proc'[e].act = a
    <3>1. proc[e].pc \notin Sending
      BY <2>1, Zenon DEF Sending
    <3> QED
      BY <1>t, <1>b, <2>1, <2>3, <3>1, NoteCount
  <2> QED
    BY <2>1, <2>2, <2>3
<1>3. CASE UnnoteAgentActionSendAttempt(e)
  <2>1. /\ TypeOK' /\ proc[e].pc \in {"flood", "refused"} /\ UNCHANGED <<delivered, late>>
        /\ \/ UNCHANGED row /\ Stops(e)
           \/ /\ \A b \in Actions : b # a => row'[b] = row[b]
              /\ row'[a].attempts = Unnoted(row[a].attempts)
              /\ Stops(e) \/ GoesTo(e, "unknown") \/ GoesTo(e, "withhold")
    BY <1>t, <1>1, <1>3, UnnoteFacts DEF external
  <2>2. /\ proc[e].pc \in Sending /\ Others(e) /\ proc'[e].pc \notin Sending
    BY <1>s, <2>1 DEF Sending
  <2> QED
    BY <1>t, <1>1, <1>b, <2>1, <2>2, UncountOne
<1>4. CASE SendMessage(e) \/ LoseAnswer(e) \/ (Crash(e) /\ proc[e].pc = "rpc")
  <2>1. /\ TypeOK' /\ UNCHANGED row /\ proc[e].pc = "rpc"
        /\ Stops(e) \/ GoesTo(e, "mark") \/ GoesTo(e, "record") \/ GoesTo(e, "unknown")
        /\ \A b \in Actions : b # a => delivered'[b] = delivered[b]
        /\ late' \subseteq late \cup {<<a, proc[e].rid>>}
    <3>1. CASE SendMessage(e)
      BY <1>t, <1>1, <3>1, SendFacts DEF db
    <3>2. CASE LoseAnswer(e)
      BY <1>t, <1>1, <3>2, LoseFacts DEF db
    <3>3. CASE Crash(e) /\ proc[e].pc = "rpc"
      BY <1>t, <1>1, <3>3, CrashFacts DEF db
    <3> QED
      BY <1>4, <3>1, <3>2, <3>3
  <2>2. proc[e].pc \in Sending /\ Others(e) /\ proc'[e].pc \notin Sending
    BY <1>s, <2>1 DEF Sending
  <2>3. \A b \in Actions : b # a => (Burnt(b)' => Burnt(b))
    BY <2>1, Zenon DEF Burnt
  <2> QED
    BY <1>t, <1>1, <2>1, <2>2, <2>3, UncountOne
<1>5. CASE Crash(e) /\ proc[e].pc # "rpc"
  <2>1. TypeOK' /\ UNCHANGED <<row, delivered, late>> /\ Stops(e)
    BY <1>t, <1>5, CrashFacts DEF db
  <2> QED
    BY <1>t, <1>s, <2>1, QuietStepCount DEF Shrinks
<1> QED
  BY <1>2, <1>3, <1>4, <1>5

LEMMA ListenerCount ==
    ASSUME SendInv, CountsInv, Listener \/ LateMessage
    PROVE  CountsInv'
<1>t. TypeOK /\ LateInv
  BY Zenon DEF SendInv
<1>1. ASSUME NEW a \in Actions, ConsumeSent(a) PROVE CountsInv'
  BY <1>t, <1>1, ConsumeFacts, QuietStepCount DEF db
<1>2. CASE SelectUnconfirmed
  BY <1>t, <1>2, SelectFacts, QuietStepCount DEF db, external
<1>3. CASE MatchUnconfirmedAgentSend
  BY <1>t, <1>3, MatchFacts, QuietStepCount DEF external
<1>4. CASE OwnerSteps \/ SetConversationTakenOver
  BY <1>t, <1>4, OwnerFacts, QuietStepCount DEF db, external
<1>5. CASE DenyPendingActionsForConversation
  <2>1. /\ TypeOK' /\ UNCHANGED <<delivered, late, proc>>
        /\ \A b \in Actions : row'[b] = row[b] \/ Decided(b)
    BY <1>t, <1>5, DenyPendingFacts DEF external
  <2> QED
    BY <1>t, <2>1, QuietStepCount DEF Decided
<1>6. CASE ResetAutonomousTurns
  BY <1>t, <1>6, ResetFacts, QuietStepCount DEF external
<1>7. CASE LateMessage
  <2>1. PICK a \in Actions, rid \in Nat :
           /\ <<a, rid>> \in late /\ late' = late \ {<<a, rid>>}
           /\ \/ UNCHANGED <<delivered, echo>>
              \/ /\ delivered'[a] = delivered[a] \cup {rid}
                 /\ \A b \in Actions : b # a => delivered'[b] = delivered[b] /\ echo'[b] = echo[b]
    BY <1>t, <1>7, LateFacts
  <2>2. TypeOK' /\ UNCHANGED <<row, proc>>
    BY <1>t, <1>7, LateFacts DEF db
  <2>3. rid = 1
    BY <1>t, <2>1 DEF LateInv
  <2>4. \A b \in Actions : Burnt(b)' => Burnt(b)
    BY <2>1, <2>3 DEF Burnt
  <2>5. \A f \in Executors : Shrinks(f)
    BY <2>2, ShrinkOthers
  <2> QED
    BY <1>t, <2>2, <2>4, <2>5, QuietCount
<1> QED
  BY <1>1, <1>2, <1>3, <1>4, <1>5, <1>6, <1>7 DEF Listener

LEMMA NextCountsInv == SendInv /\ CountsInv /\ [Next]_vars => CountsInv'
<1> SUFFICES ASSUME SendInv, CountsInv, [Next]_vars PROVE CountsInv'
  OBVIOUS
<1>1. ASSUME NEW e \in Executors, Thread(e) \/ Crash(e) PROVE CountsInv'
  BY <1>1, QuietThreadCount, CountingCount DEF Thread
<1>2. CASE UNCHANGED vars
  <2>1. UNCHANGED <<row, proc, delivered, late>>
    BY <1>2, Zenon DEF vars, db, external
  <2>2. TypeOK /\ TypeOK'
    BY <1>2, SendInvStutter, Zenon DEF SendInv
  <2> QED
    BY <2>1, <2>2, QuietStepCount
<1> QED
  BY <1>1, <1>2, DraftCount, ListenerCount DEF Next

LEMMA InitCountsInv == Init => CountsInv
<1> SUFFICES ASSUME Init, NEW a \in Actions PROVE CountInv(a)
  BY Zenon DEF CountsInv
<1>1. Idle.pc = "idle"
  BY Zenon DEF Idle
<1>2. Counting(a) = {}
  BY <1>1, Zenon DEF Init, Counting, Sending
<1>3. IsFiniteSet({}) /\ Cardinality({}) = 0
  BY FS_EmptySet, Zenon
<1>4. row[a].attempts = 0 /\ ~Burnt(a)
  BY Zenon DEF Init, Burnt
<1> QED
  BY <1>2, <1>3, <1>4 DEF CountInv

LEMMA AttemptsCover ==
    ASSUME SendInv, CountsInv, NEW a \in Actions, delivered[a] # {} \/ OnItsWay(a)
    PROVE  row[a].attempts > 0
<1>1. CountInv(a) /\ row[a].attempts \in Nat
  BY Zenon DEF SendInv, CountsInv, TypeOK, RowType
<1> DEFINE S == Counting(a)
<1>2. /\ IsFiniteSet(S) /\ Cardinality(S) \in Nat
      /\ row[a].attempts >= Cardinality(S) + (IF Burnt(a) THEN 1 ELSE 0)
  BY <1>1, FS_CardinalityType, Zenon DEF CountInv
<1>3. Burnt(a) \/ S # {}
  <2>1. ASSUME NEW m \in late, m[1] = a PROVE Burnt(a)
    <3>1. m \in Actions \X Nat /\ m[2] = 1
      BY Zenon DEF SendInv, TypeOK, LateInv
    <3>2. m = <<a, 1>>
      BY <2>1, <3>1
    <3> QED
      BY <3>2, Zenon DEF Burnt
  <2>2. ASSUME NEW e \in Executors, proc[e].pc = "rpc", proc[e].act = a PROVE S # {}
    BY <2>2, Zenon DEF Counting, Sending
  <2> QED
    BY <2>1, <2>2, Zenon DEF OnItsWay, Burnt
<1> HIDE DEF S
<1>4. S # {} => Cardinality(S) # 0
  BY <1>2, FS_EmptySet
<1> QED
  BY <1>1, <1>2, <1>3, <1>4

\* The account of a send agrees with the send in every reachable state: the
\* attempts cover the requests, the history and the alerts are written once.
THEOREM SendsStayRecorded == Spec => []SendsAreRecorded
<1>1. SendInv /\ CountsInv => SendsAreRecorded
  <2> SUFFICES ASSUME SendInv, CountsInv PROVE SendsAreRecorded
    OBVIOUS
  <2>1. AttemptsCoverRequests
    BY AttemptsCover DEF AttemptsCoverRequests
  <2>2. \A a \in Actions : RowInv(a)
    BY Zenon DEF SendInv
  <2>3. ExecutedRecordedOnce /\ UnknownAlertedOnce
    BY <2>2 DEF RowInv, ExecutedRecordedOnce, UnknownAlertedOnce
  <2> QED
    BY <2>1, <2>3 DEF SendsAreRecorded
<1> QED
  BY <1>1, InitSendInv, NextSendInv, InitCountsInv, NextCountsInv, PTL DEF Spec
-----------------------------------------------------------------------------
(* ActionSend implements SendOutcome. *)

LEMMA NextWithheld ==
    ASSUME SendInv, CountsInv, AloneInv, WithheldInv, [Next]_vars
    PROVE  WithheldInv'
<1>t. TypeOK /\ TypeOK'
  BY NextSendInv, Zenon DEF SendInv
<1>1. OutcomeStep /\ WayStep
  BY NextOutcome, NextWay
<1> SUFFICES ASSUME NEW b \in Actions, row'[b].status \in {"denied", "rejected", "expired"}
             PROVE  delivered'[b] = {} /\ ~OnItsWay(b)'
  BY Zenon DEF WithheldInv
<1>2. row[b].status \in Statuses
  BY <1>t DEF TypeOK, RowType
\* Nothing was out before the step.
<1>3. delivered[b] = {} /\ ~OnItsWay(b)
  <2>1. CASE row[b].status \in {"denied", "rejected", "expired"}
    BY <2>1 DEF WithheldInv
  <2>2. CASE row[b].attempts = 0
    BY <2>2, AttemptsCover
  <2>3. SameOutcome(b) \/ Withholds(b)
    BY <1>1 DEF OutcomeStep, Arrives, Concludes, SameOutcome
  <2>4. SameOutcome(b) => row[b].status \in {"denied", "rejected", "expired"}
    BY <1>2 DEF SameOutcome, Outcome
  <2> QED
    BY <2>1, <2>2, <2>3, <2>4 DEF Withholds
<1>4. delivered'[b] = {}
  BY <1>1, <1>3 DEF OutcomeStep, Arrives, Concludes
<1>5. ~OnItsWay(b)'
  <2>1. ASSUME NEW m \in late', m[1] = b PROVE FALSE
    BY <1>1, <1>3, <2>1 DEF WayStep, OnItsWay
  <2>2. ASSUME NEW e \in Executors, proc'[e].pc = "rpc", proc'[e].act = b PROVE FALSE
    BY <1>1, <1>3, <2>2 DEF WayStep, OnItsWay
  <2> QED
    BY <2>1, <2>2 DEF OnItsWay
<1> QED
  BY <1>4, <1>5, Zenon

LEMMA InitWithheld == Init => WithheldInv
  BY DEF Init, WithheldInv

\* The abstract step of each kind.
LEMMA AbstractStep ==
    ASSUME SendInv, CountsInv, WithheldInv, OutcomeStep
    PROVE  [Abstract!Next]_(Abstract!vars)
<1> DEFINE peer == [a \in Actions |-> delivered[a] # {}]
           out  == [a \in Actions |-> Outcome(row[a].status)]
<1>1. CASE UNCHANGED delivered /\ \A b \in Actions : SameOutcome(b) \/ Withholds(b)
  <2> DEFINE S == {b \in Actions : Withholds(b)}
  <2>1. \A a \in S : delivered[a] = {} /\ Outcome(row[a].status) = "open"
    BY AttemptsCover DEF Withholds
  <2>2. out' = [a \in Actions |-> IF a \in S THEN "withheld" ELSE out[a]]
    BY <1>1, Zenon DEF SameOutcome, Withholds
  <2>3. peer' = peer
    BY <1>1, Zenon
  <2>4. Abstract!Withhold(S)
    BY <2>1, <2>2, <2>3 DEF Abstract!Withhold
  <2>5. S \in SUBSET Actions
    OBVIOUS
  <2> QED
    BY <2>4, <2>5 DEF Abstract!Next
<1>2. ASSUME NEW a \in Actions, Arrives(a) PROVE [Abstract!Next]_(Abstract!vars)
  <2>1. out' = out
    BY <1>2, Zenon DEF Arrives
  <2>2. \A b \in Actions : (delivered'[b] # {}) = (b = a \/ delivered[b] # {})
    BY <1>2, Zenon DEF Arrives
  <2>3. CASE delivered[a] # {}
    <3>1. peer' = peer
      BY <2>2, <2>3
    <3> QED
      BY <2>1, <3>1 DEF Abstract!vars
  <2>4. CASE delivered[a] = {}
    <3>1. peer' = [peer EXCEPT ![a] = TRUE]
      BY <2>2, <2>4
    <3>2. row[a].status \notin {"denied", "rejected", "expired"}
      BY <1>2, Zenon DEF Arrives, WithheldInv
    <3>3. Outcome(row[a].status) # "withheld"
      BY <3>2, Zenon DEF Outcome
    <3>4. Abstract!Arrive(a)
      BY <2>1, <2>4, <3>1, <3>3 DEF Abstract!Arrive
    <3> QED
      BY <3>4 DEF Abstract!Next
  <2> QED
    BY <2>3, <2>4
<1>3. ASSUME NEW a \in Actions, Concludes(a) PROVE [Abstract!Next]_(Abstract!vars)
  <2>1. peer' = peer
    BY <1>3, Zenon DEF Concludes
  <2>2. CASE /\ row[a].status \in {"executing", "delivery_unknown"}
             /\ row'[a].status = "executed" /\ delivered[a] # {}
    <3>1. Outcome(row[a].status) \in {"open", "unknown"} /\ Outcome(row'[a].status) = "sent"
      BY <2>2, Zenon DEF Outcome
    <3>2. out' = [out EXCEPT ![a] = "sent"]
      BY <1>3, <3>1 DEF Concludes
    <3>3. Abstract!Confirm(a)
      BY <2>1, <2>2, <3>1, <3>2 DEF Abstract!Confirm
    <3> QED
      BY <3>3, Zenon DEF Abstract!Next
  <2>3. CASE row[a].status = "executing" /\ row'[a].status = "delivery_unknown"
    <3>1. Outcome(row[a].status) = "open" /\ Outcome(row'[a].status) = "unknown"
      BY <2>3 DEF Outcome
    <3>2. out' = [out EXCEPT ![a] = "unknown"]
      BY <1>3, <3>1 DEF Concludes
    <3>3. Abstract!GiveUp(a)
      BY <2>1, <3>1, <3>2 DEF Abstract!GiveUp
    <3> QED
      BY <3>3, Zenon DEF Abstract!Next
  <2> QED
    BY <1>3, <2>2, <2>3 DEF Concludes
<1> QED
  BY <1>1, <1>2, <1>3, Zenon DEF OutcomeStep

LEMMA AbstractInit == Init => Abstract!Init
<1> SUFFICES ASSUME Init PROVE Abstract!Init
  OBVIOUS
<1>1. \A a \in Actions : (delivered[a] # {}) = FALSE /\ row[a].status = "none"
  BY Zenon DEF Init
<1>2. Outcome("none") = "open"
  BY Zenon DEF Outcome
<1> QED
  BY <1>1, <1>2 DEF Abstract!Init

\* With one process whose sends end within the grace window, the executor
\* implements SendOutcome: what a row says became of a reply is, and stays,
\* true of the peer's chat.
THEOREM OutcomesAreHonest == ~Overlap /\ Spec => HonestOutcome
<1> DEFINE Inv == SendInv /\ CountsInv /\ AloneInv /\ WithheldInv
<1>1. Init => Inv
  BY InitSendInv, InitCountsInv, InitAlone, InitWithheld
<1>2. ~Overlap /\ Inv /\ [Next]_vars => Inv'
  BY NextSendInv, NextCountsInv, NextAlone, NextWithheld
<1>3. Inv /\ [Next]_vars => [Abstract!Next]_(Abstract!vars)
  BY NextOutcome, AbstractStep
<1>4. CASE ~Overlap
  <2>1. Inv /\ [Next]_vars => Inv'
    BY <1>2, <1>4, Zenon
  <2> QED
    BY <1>1, <1>3, <2>1, AbstractInit, PTL DEF Spec, HonestOutcome, Abstract!Spec
<1> QED
  BY <1>4, Zenon
=============================================================================
