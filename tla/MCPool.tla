------------------------------- MODULE MCPool -------------------------------
(* Pool claims of jobs in two conversations (AgentJobs), the browser         *)
(* activation of a device (DeviceActivation), and digests of product updates *)
(* (DigestCampaigns).                                                        *)
EXTENDS AgentJobs, TLC

CONSTANTS u1, t1, t2, v1, v2, NotRun

VARIABLES
  part,  \* the component this behaviour is about
  n, act, live, byCode, states, byState, expired, fails, browser, req, client,
  mode, devices, signedIn, ops, faults,
  slot, digests, owner, camps, asks, digestFaults

\* Twins stand for replicas, browsers, requests and operators.
Twins == {t1, t2}

MCUserOf == [j \in Jobs |-> u1]
MCApart == <<"convA", "convB">>

Clients == {"c1", "c2"}
Browsers == Twins
Requests == Twins
Accounts == {v1, v2}
ClaimOf == [c1 |-> v1, c2 |-> v2]
OneOfEach == {<<1, 0>>, <<0, 1>>}

\* The feed of the last build and of the new one.
DigestIds == {"d1", "d2"}
Entries == {"e1", "e2"}
Feeds == {{"e1"}, Entries}
Asks == {<<4, 0>>, <<4, 1>>}
Slots == Twins

DA == INSTANCE DeviceActivation WITH
  Claims <- ClaimOf, MaxActs <- 2, MaxStates <- 2, MaxTokens <- 2,
  MaxDevices <- 2, MaxActivationsPerIP <- 2, MaxPendingActivations <- 1,
  ActivationFailBudget <- 1, MaxActivationFailKeys <- 1, Budgets <- OneOfEach
deviceVars == <<n, act, live, byCode, states, byState, expired, fails, browser,
                req, client, mode, devices, signedIn, ops, faults>>

DC == INSTANCE DigestCampaigns WITH
  faults <- digestFaults, Ids <- DigestIds, MaxVersion <- 2, MaxCampaigns <- 3,
  Budgets <- Asks
digestVars == <<slot, digests, owner, camps, asks, digestFaults>>

Symmetry == Permutations(Twins)

-----------------------------------------------------------------------------
\* Each behaviour runs one of the components; the others do not move.
PackInit ==
  /\ part \in {"pool", "activate", "digest"}
  /\ Init /\ (part = "pool" \/ runtime = [u \in Users |-> "own"])
  /\ IF part = "activate" THEN DA!Init ELSE
          n = NotRun /\ act = NotRun /\ live = NotRun /\ byCode = NotRun /\
          states = NotRun /\ byState = NotRun /\ expired = NotRun /\ fails = NotRun /\
          browser = NotRun /\ req = NotRun /\ client = NotRun /\ mode = NotRun /\
          devices = NotRun /\ signedIn = NotRun /\ ops = NotRun /\ faults = NotRun
  /\ IF part = "digest" THEN DC!Init ELSE
          slot = NotRun /\ digests = NotRun /\ owner = NotRun /\ camps = NotRun /\
          asks = NotRun /\ digestFaults = NotRun

\* Components that may come to rest.
Rest ==
  /\ part \in {"activate", "digest"}
  /\ UNCHANGED <<part, vars, deviceVars, digestVars>>

PackNext ==
  \/ part = "pool" /\ Next /\ UNCHANGED <<part, deviceVars, digestVars>>
  \/ part = "activate" /\ DA!Next /\ UNCHANGED <<part, vars, digestVars>>
  \/ part = "digest" /\ DC!Next /\ UNCHANGED <<part, vars, deviceVars>>
  \/ Rest

PackSpec == PackInit /\ [][PackNext]_<<part, vars, deviceVars, digestVars>>

-----------------------------------------------------------------------------
\* Whatever browsers and requests do at once, an activation is approved only by
\* the account it was opened for, and a client ends up with one device; a late
\* or failed sign-in ends nobody else's activation, and an address that starts
\* another one takes only its own away (ApproveActivation, CreateActivation).
DevicesAreOwned ==
  /\ [](part = "activate" => DA!ApprovedByOwner /\ DA!OneDevicePerClient)
  /\ [][part = "activate" => DA!LateSignInHarmless /\ DA!OwnSlotsOnly]_deviceVars

\* Two operators, a new build and a crash between the steps of an approval:
\* every entry is announced at most once and none is withheld, a digest keeps
\* the version it was read from, and has one campaign (product_updates.go).
DigestsAreFaithful ==
  part = "digest" =>
    DC!SourceIsKept /\ DC!AnnouncedOnce /\ DC!NothingWithheld /\ DC!OneDigestCampaign
=============================================================================
