------------------------------ MODULE MCSends ------------------------------
(* Sends of the agent's replies: one action with slow answers and a crash,   *)
(* or two that compete for the conversation's last unreviewed turn           *)
(* (ActionSend).  And the Telegram sign-in, in two tabs (SignIn).            *)
EXTENDS ActionSend, TLC

CONSTANTS a1, a2, t1, t2, NotRun

VARIABLES
  part,  \* the component this behaviour is about
  tab, n, fl, latest, mutex, local, stored, provisioning, auth, logOuts, lost,
  dropped, saved, ops, faults

\* Executors, and tabs.
Twins == {t1, t2}

BothActions == {a1, a2}
Turns == INSTANCE ActionSend WITH
  Actions <- BothActions, MaxSendAttempts <- 1, Overlap <- FALSE,
  Redelivery <- FALSE, MaxCrashes <- 0, MaxOwnerSteps <- 1

Methods == {"code", "qr"}
\* Account operations and faults.
OneEvent == {<<0, 1>>, <<1, 0>>}

SI == INSTANCE SignIn WITH
  Tabs <- Twins, MaxFlows <- 2, Budgets <- OneEvent, LoginCodeAttempts <- 2,
  LoginPasswordAttempts <- 1
signVars == <<tab, n, fl, latest, mutex, local, stored, provisioning, auth,
              logOuts, lost, dropped, saved, ops, faults>>

Symmetry == Permutations(Twins)

-----------------------------------------------------------------------------
\* Each behaviour runs one of the components; the others do not move.
PackInit ==
  /\ part \in {"send", "turns", "signin"}
  /\ IF part = "turns" THEN Turns!Init ELSE Init
  /\ IF part = "signin" THEN SI!Init ELSE
          tab = NotRun /\ n = NotRun /\ fl = NotRun /\ latest = NotRun /\ mutex = NotRun /\
          local = NotRun /\ stored = NotRun /\ provisioning = NotRun /\ auth = NotRun /\
          logOuts = NotRun /\ lost = NotRun /\ dropped = NotRun /\ saved = NotRun /\
          ops = NotRun /\ faults = NotRun

PackNext ==
  \/ part = "send" /\ Next /\ UNCHANGED <<part, signVars>>
  \/ part = "turns" /\ Turns!Next /\ UNCHANGED <<part, signVars>>
  \/ part = "signin" /\ SI!Next /\ UNCHANGED <<part, vars>>

PackSpec == PackInit /\ [][PackNext]_<<part, vars, signVars>>

-----------------------------------------------------------------------------
\* Overlapping sign-ins, deletions and lost answers leave no authorized key
\* behind that nobody looks after, and no session from before a deletion; a
\* newer sign-in is never overwritten by an older one, a local account never
\* ended by a sign-in, and a page that says done has stored its session.
SignInsAreSound ==
  /\ [](part = "signin" => SI!NoStrayAuthorization /\ SI!DeletedStaysDeleted)
  /\ [][part = "signin" => SI!NewerSignInWins /\ SI!LocalAccountKept /\ SI!DoneMeansSaved]_signVars
=============================================================================
