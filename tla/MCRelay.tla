------------------------------ MODULE MCRelay ------------------------------
(* The outbox relay (OutboxRelay; one unit of time is 10 seconds), and the   *)
(* updates sent to the bot (BotUpdates).                                     *)
EXTENDS OutboxRelay, TLC

CONSTANTS r1, r2, None

VARIABLES
  part,  \* the component this behaviour is about
  mode, budget, moves, now, sent, acked, rows, recv, fwd, call, truth, reach,
  out, handled, lastOut

Chats == {"c1", "c2"}
BotCalls == {1, 2}
M(what, chat) == [do |-> what, chat |-> chat]
Moves(by, s, f, c, t, d) ==
  [mode |-> by, moves |-> s, faults |-> f, crashes |-> c, strays |-> t, deliveries |-> d]
Blocked == <<M("start", "c1"), M("block", "c1"), M("start", "c1")>>
Stranger == <<M("start", "c1"), M("write", "c1"), M("start", "stranger")>>
Voted == <<M("start", "c1"), M("vote", "c1"), M("start", "c2")>>
Sent ==
  {Moves("poll", s, 2, 0, 0, 0) : s \in {Blocked, Stranger, Voted}} \cup
  {Moves("poll", Blocked, 1, 1, 0, 1), Moves("bridge", Blocked, 1, 0, 0, 1),
   Moves("bridge", Stranger, 0, 1, 1, 0), Moves("bridge", Voted, 1, 0, 1, 0)}

BU == INSTANCE BotUpdates WITH
  Clients <- Chats, Calls <- BotCalls, BatchLimit <- 2, Scenarios <- Sent
botVars == <<mode, budget, moves, now, sent, acked, rows, recv, fwd, call,
             truth, reach, out, handled, lastOut>>

-----------------------------------------------------------------------------
\* Each behaviour runs one of the components; the others do not move.
PackInit ==
  /\ part \in {"relay", "updates"}
  /\ Init
  /\ BU!Init /\ (part = "updates" \/ (mode = "bridge" /\ moves = Voted))

\* Components that may come to rest.
Rest ==
  /\ part \in {"updates"}
  /\ UNCHANGED <<part, vars, botVars>>

PackNext ==
  \/ part = "relay" /\ Next /\ UNCHANGED <<part, botVars>>
  \/ part = "updates" /\ BU!Next /\ UNCHANGED <<part, vars>>
  \/ Rest

PackSpec == PackInit /\ [][PackNext]_<<part, vars, botVars>>

\* The fairness of each component, while it is the one that runs.
PackFairSpec ==
  /\ PackSpec
  /\ SF_vars(part = "relay" /\ Tick)
  /\ \A r \in Replicas : WF_vars(part = "relay" /\ Step(r))
  /\ WF_botVars(part = "updates" /\ BU!Receive)
  /\ \A k \in BotCalls : WF_botVars(part = "updates" /\ BU!Bridge(k))

-----------------------------------------------------------------------------
\* Telegram drops an update only once it is stored, an update takes effect once,
\* and the reachability row is the newest evidence written, whatever poll,
\* sweep, forward or process failed (Receiver, AcceptUpdate, RecordInbound).
UpdatesTakeEffectOnce == BU!AckedIsStored /\ BU!HandledOnce /\ BU!NewestEvidence

\* Nothing is left behind: every committed row is published, and every /start
\* is handled in the end (sweepPending, forwardBatch).
NothingLeftBehind == EveryRowPublished /\ BU!StartsLand
=============================================================================
