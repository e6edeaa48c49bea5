------------------------------ MODULE MCTools ------------------------------
(* Calls of the tools (ToolCalls), and the pool of Telegram sessions         *)
(* (SessionPool).                                                            *)
EXTENDS ToolCalls, TLC

CONSTANTS t1, t2, k1, k2, user, admin, demo

VARIABLES
  part,  \* the component this behaviour is about
  rows, dead, clients, current, pinned, retiring, calls, signIn, enabled,
  account, supervisor, rounds, events

\* Requests and borrowers; confirmations.
Twins == {t1, t2}
Pair == {k1, k2}

All == {Sending, Reading, Pinning, Listing, Managing}

\* An owner with every user scope, an operator, and the demo reviewer behind a
\* reply profile's tools.
People ==
  user :> [scopes |-> All, reviewer |-> FALSE, profile |-> {}, canary |-> TRUE] @@
  admin :> [scopes |-> {Admin, Broadcasting, Reading}, reviewer |-> FALSE, profile |-> {},
            canary |-> FALSE] @@
  demo :> [scopes |-> {Sending, Reading, Managing}, reviewer |-> TRUE,
           profile |-> {"draft_reply", "send_reply", "send_message", "pin_message",
                        "disconnect_telegram_account"}, canary |-> FALSE]

Base == [tools |-> {}, who |-> {user}, calls |-> 1, faults |-> 1, listed |-> TRUE,
         mode |-> "hosted", consent |-> TRUE, hold |-> FALSE]

\* Every tool on its own, by everyone, hosted and local.
Alone == {[Base EXCEPT !.tools = DOMAIN Tools, !.who = {user, admin, demo}, !.mode = m] :
            m \in {"hosted", "local"}}

\* Tools that meet each other.
Together ==
  {[Base EXCEPT !.tools = {"prepare_pin_message", "pin_message", "edit_message"}, !.calls = 3],
   [Base EXCEPT !.tools = {"prepare_pin_message", "pin_message"}, !.calls = 3, !.mode = "local"],
   [Base EXCEPT !.tools = {"prepare_get_media", "get_media"}, !.calls = 3, !.faults = 2],
   [Base EXCEPT !.tools = {"prepare_get_media", "get_media", "send_message"}, !.calls = 3,
                !.faults = 0],
   [Base EXCEPT !.tools = {"draft_reply", "send_reply"}, !.who = {demo}, !.calls = 3],
   [Base EXCEPT !.tools = {"prepare_send_message", "send_message", "set_send_consent"},
                !.calls = 3, !.consent = FALSE],
   [Base EXCEPT !.tools = {"edit_message", "set_reaction", "forward_messages"}, !.calls = 3],
   [Base EXCEPT !.tools = {"send_media", "set_reaction"}, !.calls = 2, !.hold = TRUE],
   [Base EXCEPT !.tools = {"send_message", "set_account_mode", "revoke_telegram_session"},
                !.who = {user, admin}, !.calls = 2]}

Few == Alone \cup Together

OneCall == {t1}
OutsideEvents == {2}

SP == INSTANCE SessionPool WITH
  Calls <- OneCall, Probe <- "probe", MaxRows <- 2, MaxClients <- 2,
  MaxRounds <- 1, Budgets <- OutsideEvents
poolVars == <<rows, dead, clients, current, pinned, retiring, calls, signIn,
              enabled, account, supervisor, rounds, events>>

Symmetry == Permutations(Twins) \cup Permutations(Pair)

-----------------------------------------------------------------------------
\* Each behaviour runs one of the components; the others do not move.
PackInit ==
  /\ part \in {"tools", "pool"}
  /\ IF part = "tools" THEN Init(Few) ELSE
          scen = None /\ call = None /\ confs = None /\ refs = None /\
          acct = None /\ hold = None /\ bucket = None /\ gate = None /\
          uses = None /\ credit = None
  /\ IF part = "pool" THEN SP!Init ELSE
          rows = None /\ dead = None /\ clients = None /\ current = None /\
          pinned = None /\ retiring = None /\ calls = None /\ signIn = None /\
          enabled = None /\ account = None /\ supervisor = None /\
          rounds = None /\ events = None

PackNext ==
  \/ part = "tools" /\ Next /\ UNCHANGED <<part, poolVars>>
  \/ part = "pool" /\ SP!Next /\ UNCHANGED <<part, vars>>

PackSpec == PackInit /\ [][PackNext]_<<part, vars, poolVars>>

-----------------------------------------------------------------------------
\* Whatever calls of the tools meet: every answer is in the audit log as it was
\* given, a confirmation is used once, every send was paid for, and a paused
\* account, or one whose owner has sends off, sends nothing.
CallsKeepTheirRules ==
  part = "tools" => /\ AnswersAreLogged /\ ConfirmationsSpentOnce /\ BudgetCoversSends
                    /\ PausedAccountIsQuiet /\ ConsentIsHeard

\* Callers, the supervisor, sign-ins and removals share the pool safely: a
\* rejection revokes only the row whose key was rejected, a row keeps its key,
\* nothing is borrowed while the user's clients retire or after the removal,
\* and a pinned user has the one client the listener is wired to.
PoolIsConsistent ==
  part = "pool" => /\ SP!RejectedRowOnly /\ SP!RowKeepsItsKey /\ SP!RetiringExcludes
                   /\ SP!RemovedNotPooled /\ SP!PinnedIsWired
=============================================================================
