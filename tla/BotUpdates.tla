----------------------------- MODULE BotUpdates -----------------------------
(***************************************************************************)
(* Inbound updates of the login bot, and what they say about who the bot   *)
(* can reach.  An update is stored before it is acknowledged, and it is    *)
(* dispatched in the transaction that marks it processed.                  *)
(*                                                                         *)
(* Updates come in one of two ways.  "poll": the receiver long-polls, its  *)
(* offset read back from the table, and sweeps the rows still pending.     *)
(* "bridge": another service owns the bot's webhook and forwards each      *)
(* /start until it is answered 202.  The bot's outbound deliveries write   *)
(* the same reachability row.  Update i is the i-th of the bot; the clock  *)
(* ticks at every dated event.                                             *)
(***************************************************************************)
EXTENDS Integers, Sequences, FiniteSets, FiniteSetsExt, SequencesExt

CONSTANTS Clients, None,
          Calls,          \* concurrent calls of the bridge
          BatchLimit,     \* updates of one poll, rows of one sweep page
          Scenarios       \* records mode, moves (a sequence of client moves), faults,
                          \* crashes, strays and deliveries

VARIABLES mode, budget, moves, now,
          sent, acked,              \* Telegram: updates made, ids below acked are dropped
          rows,                     \* bot_updates, by update id
          recv,                     \* the receiver's loop
          fwd, call,                \* the forwarder: updates answered, calls in flight
          truth, reach, out,        \* the client's side, client_bot_reachability, a delivery
          handled, lastOut          \* history: runs of each handler, last recorded delivery

vars == <<mode, budget, moves, now, sent, acked, rows, recv, fwd, call,
          truth, reach, out, handled, lastOut>>

NoRow == [kind |-> None, chat |-> None, at |-> 0, outcome |-> None]
NoEvidence == [state |-> "unknown", at |-> 0]
NoCall == [id |-> 0, chat |-> None, step |-> "idle"]
Idle == [pc |-> "sweep", after |-> 0, offset |-> 0, batch |-> <<>>]

Init ==
  /\ \E s \in Scenarios :
       /\ mode = s.mode /\ moves = s.moves
       /\ budget = [faults |-> s.faults, crashes |-> s.crashes, strays |-> s.strays,
                    deliveries |-> s.deliveries]
       /\ rows = [i \in 1..Len(s.moves) |-> NoRow]
       /\ handled = [i \in 1..Len(s.moves) |-> 0]
  /\ now = 1
  /\ sent = <<>> /\ acked = 1
  /\ recv = Idle
  /\ fwd = {} /\ call = [k \in Calls |-> NoCall]
  /\ truth = [c \in Clients |-> "cannot_initiate"]
  /\ reach = [c \in Clients |-> NoEvidence] /\ lastOut = reach
  /\ out = None

Ids == DOMAIN rows
Spend(what) == budget[what] > 0 /\ budget' = [budget EXCEPT ![what] = @ - 1]

-----------------------------------------------------------------------------
(* The client starts the bot, writes to it or blocks it. *)

\* The kinds an update is stored with; only a /start has a handler.
Kind(move) == CASE move = "start" -> "start_command" [] move = "write" -> "message"
                [] OTHER -> "unsupported"

ClientMoves ==
  /\ moves # <<>>
  /\ LET m == Head(moves)
         state == CASE m.do = "block" -> "blocked" [] m.do = "start" -> "reachable" [] OTHER -> None
     IN /\ truth' = [c \in Clients |-> IF c = m.chat /\ state # None THEN state ELSE truth[c]]
        /\ sent' = IF m.do = "block" THEN sent
                   ELSE Append(sent, [kind |-> Kind(m.do), chat |-> m.chat, at |-> now])
  /\ moves' = Tail(moves) /\ now' = now + 1
  /\ UNCHANGED <<mode, budget, acked, rows, recv, fwd, call, reach, out, handled, lastOut>>

-----------------------------------------------------------------------------
(* The store. *)

\* A row is never overwritten.
AcceptUpdateAt(i, kind, chat, at) ==
  rows' = IF rows[i] = NoRow
          THEN [rows EXCEPT ![i] = [kind |-> kind, chat |-> chat, at |-> at, outcome |-> None]]
          ELSE rows

NextOffset == Max({0} \cup {i \in Ids : rows[i] # NoRow}) + 1

ListPendingUpdates(after) ==
  LET all == SetToSortSeq({i \in Ids : rows[i] # NoRow /\ rows[i].outcome = None /\ i > after}, <)
  IN SubSeq(all, 1, Min({BatchLimit, Len(all)}))

\* Evidence older than the stored one is not written.
RecordInbound(c, at) ==
  IF reach[c].at < at THEN [reach EXCEPT ![c] = [state |-> "reachable", at |-> at]] ELSE reach

\* The handler of a /start, with the row's own time; a chat of no client
\* records nothing.
Recorded(i) ==
  IF rows[i].kind = "start_command" /\ rows[i].chat \in Clients
  THEN RecordInbound(rows[i].chat, rows[i].at) ELSE reach

Outcome(i) ==
  CASE rows[i].kind = "unsupported" -> "unsupported"
    [] rows[i].kind # "unsupported" /\ rows[i].chat \notin Clients -> "unknown_chat"
    [] rows[i].kind = "message" /\ rows[i].chat \in Clients -> "no_handler"
    [] OTHER -> IF Recorded(i) = reach THEN "handled" ELSE "reachability_recorded"

FaultyClaimable(i) == rows[i] # NoRow

\* The claim's UPDATE keeps the row locked until the transaction ends, so a
\* second dispatch waits and then finds the row processed.
Claimable(i) == rows[i] # NoRow /\ rows[i].outcome = None

DispatchOnce(i) ==
  IF Claimable(i)
  THEN /\ reach' = Recorded(i)
       /\ rows' = [rows EXCEPT ![i].outcome = Outcome(i)]
       /\ handled' = [handled EXCEPT ![i] = @ + 1]
  ELSE UNCHANGED <<reach, rows, handled>>

\* The handler, or a statement of the transaction, fails: all of it is undone.
RolledBack(i) == Claimable(i) /\ Spend("faults") /\ UNCHANGED <<reach, rows, handled>>

-----------------------------------------------------------------------------
(* The receiver: a sweep of what is pending, then a poll. *)

Receiving == UNCHANGED <<mode, moves, now, sent, fwd, call, truth, out, lastOut>>

\* A page of pending rows, or the poll when the last page was the last.
sweepPending ==
  /\ mode = "poll" /\ recv.pc = "sweep" /\ recv.batch = <<>>
  /\ LET page == ListPendingUpdates(recv.after)
     IN recv' = IF page = <<>> THEN [recv EXCEPT !.pc = "offset"]
                ELSE [recv EXCEPT !.batch = page, !.pc = IF Len(page) < BatchLimit THEN "last" ELSE @]
  /\ Receiving /\ UNCHANGED <<budget, acked, rows, reach, handled>>

SweepOne ==
  /\ recv.pc \in {"sweep", "last"} /\ recv.batch # <<>>
  /\ \/ DispatchOnce(Head(recv.batch)) /\ UNCHANGED budget
     \/ RolledBack(Head(recv.batch))
  /\ recv' = [recv EXCEPT !.batch = Tail(@), !.after = Head(recv.batch),
                          !.pc = IF @ = "last" /\ Len(recv.batch) = 1 THEN "offset" ELSE @]
  /\ Receiving /\ UNCHANGED acked

pollOnce ==
  /\ recv.pc = "offset"
  /\ recv' = [recv EXCEPT !.offset = NextOffset, !.pc = "get"]
  /\ Receiving /\ UNCHANGED <<budget, acked, rows, reach, handled>>

\* Telegram drops what is below the offset and answers with what follows; the
\* answer may be lost.  An empty answer ends the poll.
getUpdates ==
  /\ recv.pc = "get"
  /\ acked' = Max({acked, recv.offset})
  /\ LET n == Min({BatchLimit, Len(sent) - acked' + 1})
     IN \/ /\ recv' = IF n <= 0 THEN Idle
                      ELSE [recv EXCEPT !.pc = "accept", !.batch = [k \in 1..n |-> acked' + k - 1]]
           /\ UNCHANGED budget
        \/ Spend("faults") /\ recv' = Idle
  /\ Receiving /\ UNCHANGED <<rows, reach, handled>>

\* A failed insert ends the batch: a later row would move the offset past it.
AfterFailedAccept == Idle

accept ==
  /\ recv.pc = "accept"
  /\ LET i == Head(recv.batch)
     IN \/ /\ rows[i] = NoRow
           /\ AcceptUpdateAt(i, sent[i].kind, sent[i].chat, now)
           /\ recv' = [recv EXCEPT !.pc = "dispatch"]
           /\ UNCHANGED budget
        \/ /\ rows[i] # NoRow
           /\ recv' = IF Len(recv.batch) = 1 THEN Idle ELSE [recv EXCEPT !.batch = Tail(@)]
           /\ UNCHANGED <<rows, budget>>
        \/ Spend("faults") /\ recv' = AfterFailedAccept /\ UNCHANGED rows
  /\ Receiving /\ UNCHANGED <<acked, reach, handled>>

\* An error here leaves the row pending, for the sweep.
dispatch ==
  /\ recv.pc = "dispatch"
  /\ \/ DispatchOnce(Head(recv.batch)) /\ UNCHANGED budget
     \/ RolledBack(Head(recv.batch))
  /\ recv' = IF Len(recv.batch) = 1 THEN Idle ELSE [recv EXCEPT !.batch = Tail(@), !.pc = "accept"]
  /\ Receiving /\ UNCHANGED acked

-----------------------------------------------------------------------------
(* The bridge: calls of the forwarder, which gives a call up and repeats it. *)

Bridging == UNCHANGED <<mode, moves, now, sent, acked, recv, truth, out, lastOut>>

\* A stray call names a stored update with another chat.
Forward(k) ==
  /\ mode = "bridge" /\ call[k] = NoCall
  /\ \E i \in DOMAIN sent :
       /\ sent[i].kind = "start_command" /\ i \notin fwd
       /\ \/ call' = [call EXCEPT ![k] = [id |-> i, chat |-> sent[i].chat, step |-> "accept"]]
             /\ UNCHANGED budget
          \/ \E c \in Clients \ {sent[i].chat} :
               /\ rows[i] # NoRow /\ Spend("strays")
               /\ call' = [call EXCEPT ![k] = [id |-> i, chat |-> c, step |-> "accept"]]
  /\ Bridging /\ UNCHANGED <<rows, fwd, reach, handled>>

\* A call answered 202 is not repeated, one answered 503 or not at all is.
\* Only the answer to the update's own observation counts for the forwarder.
Answer(k, status) ==
  /\ call' = [call EXCEPT ![k] = NoCall]
  /\ fwd' = IF status = 202 /\ call[k].chat = sent[call[k].id].chat
            THEN fwd \cup {call[k].id} ELSE fwd

BridgeAccept(k) ==
  /\ call[k].step = "accept"
  /\ \/ /\ AcceptUpdateAt(call[k].id, "start_command", call[k].chat, sent[call[k].id].at)
        /\ call' = [call EXCEPT ![k].step = "dispatch"]
        /\ UNCHANGED <<budget, fwd>>
     \/ Spend("faults") /\ Answer(k, 503) /\ UNCHANGED rows
  /\ Bridging /\ UNCHANGED <<reach, handled>>

\* The stored routing decides: a call about another chat dispatches nothing.
routingMatches(k) == rows[call[k].id].kind = "start_command" /\ rows[call[k].id].chat = call[k].chat

\* What a call whose dispatch failed is answered.
FailedStatus == 503

BridgeDispatch(k) ==
  /\ call[k].step = "dispatch"
  /\ \/ /\ IF routingMatches(k) THEN DispatchOnce(call[k].id) ELSE UNCHANGED <<reach, rows, handled>>
        /\ Answer(k, 202) /\ UNCHANGED budget
     \/ RolledBack(call[k].id) /\ Answer(k, FailedStatus)
  /\ Bridging

\* The forwarder stops waiting for a call that goes on: its answer is lost.
AnswerLost(k) ==
  /\ call[k].step = "dispatch" /\ Spend("faults")
  /\ IF routingMatches(k) THEN DispatchOnce(call[k].id) ELSE UNCHANGED <<reach, rows, handled>>
  /\ call' = [call EXCEPT ![k] = NoCall]
  /\ Bridging /\ UNCHANGED fwd

-----------------------------------------------------------------------------
(* The bot's own deliveries, and restarts. *)

Deliver ==
  /\ out = None /\ Spend("deliveries")
  /\ \E c \in Clients : out' = [chat |-> c, state |-> truth[c]]
  /\ UNCHANGED <<mode, moves, now, sent, acked, rows, recv, fwd, call, truth, reach, handled, lastOut>>

\* Written unconditionally, dated when it is written.
RecordBotReachability ==
  /\ out # None
  /\ reach' = [reach EXCEPT ![out.chat] = [state |-> out.state, at |-> now]]
  /\ lastOut' = [lastOut EXCEPT ![out.chat] = reach'[out.chat]]
  /\ out' = None /\ now' = now + 1
  /\ UNCHANGED <<mode, budget, moves, sent, acked, rows, recv, fwd, call, truth, handled>>

Crash ==
  /\ Spend("crashes")
  /\ recv' = Idle /\ call' = [k \in Calls |-> NoCall] /\ out' = None
  /\ UNCHANGED <<mode, moves, now, sent, acked, rows, fwd, truth, reach, handled, lastOut>>

-----------------------------------------------------------------------------
Receive == sweepPending \/ SweepOne \/ pollOnce \/ getUpdates \/ accept \/ dispatch
Bridge(k) == Forward(k) \/ BridgeAccept(k) \/ BridgeDispatch(k)

Next ==
  \/ ClientMoves \/ Receive
  \/ \E k \in Calls : Bridge(k) \/ AnswerLost(k)
  \/ Deliver \/ RecordBotReachability \/ Crash

Spec == Init /\ [][Next]_vars

\* The receiver's loop runs, the forwarder repeats what was not accepted, and
\* a call goes on.
FairSpec == Spec /\ WF_vars(Receive) /\ \A k \in Calls : WF_vars(Bridge(k))

-----------------------------------------------------------------------------
\* Telegram is told to forget an update only when the update is stored, whatever
\* poll, insert or dispatch failed and wherever the process died.
AckedIsStored == mode = "poll" => \A i \in Ids : i < acked => rows[i] # NoRow

\* An update takes effect once, through repeated polls, sweeps, forwards and the
\* restarts between them.
HandledOnce == \A i \in Ids : handled[i] <= 1

\* The reachability row is the newest evidence written: a /start that is
\* dispatched late never hides a later delivery, and no processed /start of a
\* client is forgotten.
NewestEvidence ==
  \A c \in Clients :
    LET starts == {i \in Ids : rows[i].kind = "start_command" /\ rows[i].chat = c
                                 /\ rows[i].outcome # None}
    IN /\ reach[c] \in {lastOut[c]} \cup {[state |-> "reachable", at |-> rows[i].at] : i \in starts}
       /\ reach[c].at >= lastOut[c].at
       /\ \A i \in starts : reach[c].at >= rows[i].at

\* Every /start is processed: a failed dispatch is swept, or forwarded again.
StartsLand ==
  \A i \in 1..3 :
    (i \in DOMAIN sent /\ i \in Ids /\ sent[i].kind = "start_command")
      ~> (i \in Ids /\ rows[i].outcome # None)
=============================================================================
