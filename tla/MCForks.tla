------------------------------ MODULE MCForks ------------------------------
(* The rules a fork of an assistant is built by (ForkRules), installs and    *)
(* forks of accounts (Assistants), and the budget of managed runs            *)
(* (BudgetLedger).                                                           *)
EXTENDS ForkRules, TLC

CONSTANTS t1, t2, a1, a2, b1, b2, q1, q2, j1, j2

VARIABLES
  part,  \* the component this behaviour is about
  profile, forks, defs, registry, clock, req, pass, claim, ran, alerts, scen,
  ops, faults,
  plan, day, job, usage, issued, paused, told, poll, lock, crashes

\* Settings, replicas that refresh, and replicas that claim.
Twins == {t1, t2}

\* Edits of one part each; several of them make any other.
Nothing == [intents |-> None, tools |-> None, limit |-> None, ceiling |-> None, policy |-> None]
SinglePart ==
  {[Nothing EXCEPT !.intents = i] : i \in IntentLists}
  \cup {[Nothing EXCEPT !.tools = t] : t \in SUBSET Tools}
  \cup {[Nothing EXCEPT !.limit = l] : l \in Limits}
  \cup {[Nothing EXCEPT !.ceiling = l] : l \in Limits}
  \cup {[Nothing EXCEPT !.policy = p] : p \in {"required", "optional"}}

Accounts == {a1, a2}
Published == {b1, b2}
Drafts == {b2}
Requests == {q1, q2}
\* What happens, to which accounts, in how many requests, with how many faults.
Few == {<<{"install", "fork", "guarded"}, {a1}, 4, 0>>,
        <<{"install", "fork", "move"}, {a1}, 3, 1>>,
        <<{"install", "patch", "runtime"}, {a1, a2}, 3, 0>>,
        <<{"web", "patch", "guarded", "claim"}, {a1}, 4, 0>>,
        <<{"admin", "runtime", "profile"}, {a1, a2}, 4, 0>>,
        <<{"web", "refresh", "move"}, {a1}, 3, 2>>}

\* Two jobs of two accounts that share the global day, or of one account that
\* is short of its own day or month.
Claimed == {j1, j2}
AttemptsOf == j1 :> 2 @@ j2 :> 1
Plan(other, d, m, g, cost, last, c) ==
  [owner |-> j1 :> a1 @@ j2 :> other, dayCap |-> [a \in Accounts |-> d],
   monthCap |-> [a \in Accounts |-> m], globalDay |-> g, costs |-> cost,
   lastDay |-> last, crashes |-> c]
Plans == {Plan(a2, 9, 9, 3, {3}, 0, 0), Plan(a1, 3, 9, 9, {1, 3}, 0, 1),
          Plan(a1, 3, 5, 9, {3}, 1, 0)}

A == INSTANCE Assistants WITH
  Bases <- Published, Hidden <- Drafts, Settings <- Twins, Texts <- {0, 1},
  Reqs <- Requests, Refreshers <- Twins, MaxVersions <- 2, MaxAccounts <- 1,
  MaxClock <- 2, Scenarios <- Few
installVars == <<profile, forks, defs, registry, clock, req, pass, claim, ran,
                 alerts, scen, ops, faults>>

BL == INSTANCE BudgetLedger WITH
  Replicas <- Twins, Jobs <- Claimed, MaxAttempts <- AttemptsOf,
  MaxInflight <- 2, PerJob <- 2, DaysPerMonth <- 2, ClaimNotAfter <- 9
budgetVars == <<plan, day, job, usage, issued, paused, told, poll, lock,
                crashes>>

Symmetry == Permutations(Twins)

-----------------------------------------------------------------------------
\* Each behaviour runs one of the components; the others do not move.
PackInit ==
  /\ part \in {"forks", "installs", "budget"}
  /\ IF part = "forks" THEN ForkInit ELSE
          base = None /\ fork = None /\ effect = None
  /\ A!Init /\ (part = "installs" \/ scen.what = {"web", "refresh", "move"})
  /\ IF part = "budget" THEN BL!Init ELSE
          plan = None /\ day = None /\ job = None /\ usage = None /\
          issued = None /\ paused = None /\ told = None /\ poll = None /\
          lock = None /\ crashes = None

PackNext ==
  \/ part = "forks" /\ ForkNext /\ UNCHANGED <<part, installVars, budgetVars>>
  \/ part = "installs" /\ A!Next /\ UNCHANGED <<part, forkVars, budgetVars>>
  \/ part = "budget" /\ BL!Next /\ UNCHANGED <<part, forkVars, installVars>>

PackSpec == PackInit /\ [][PackNext]_<<part, forkVars, installVars, budgetVars>>

-----------------------------------------------------------------------------
\* Whatever installs, edits, patches and operator writes overlap: a pinned fork
\* keeps its row and its base, managed accounts are the ones that consented,
\* within the quota, an outage is told once, and no patch undoes another.
InstallsAreConsistent ==
  /\ [](A!PinnedForkStored /\ A!ConsentFollowsRuntime /\ A!OneAlertPerOutage)
  /\ A!PatchesBuildOnStored

\* Runs spend within every cap although replicas claim at once, the ledger
\* follows the claims, an owner is told once per window, and a job shows the
\* cost of its last settled attempt.
SpendingIsBounded ==
  part = "budget" => /\ BL!SpendWithinCaps /\ BL!LedgerFollowsClaims
                     /\ BL!ToldOncePerWindow /\ BL!CostIsTheLatest
=============================================================================
