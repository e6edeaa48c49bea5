----------------------------- MODULE MCReplies -----------------------------
(* Replies of one process whose sends end within the grace window            *)
(* (ActionSend), and the delivery of a campaign (Broadcasts).                *)
EXTENDS ActionSend, TLC

CONSTANTS a1, e1, e2

VARIABLES
  part,  \* the component this behaviour is about
  camp, edited, lapsed, facts, campaignRow, worker, got, since, campaignLate,
  ops, faults

BothWorkers == {"w1", "w2"}
BothUsers == {"u1", "u2"}
\* Operator steps and faults.
Few == {<<1, 0>>, <<0, 1>>}

B == INSTANCE Broadcasts WITH
  row <- campaignRow, late <- campaignLate, Workers <- BothWorkers,
  Users <- BothUsers, DefaultPref <- "subscribed", RecipientLimit <- 2,
  BatchSize <- 2, MaxAttempts <- 2, Budgets <- Few
campaignVars == <<camp, edited, lapsed, facts, campaignRow, worker, got, since,
                  campaignLate, ops, faults>>

-----------------------------------------------------------------------------
\* Each behaviour runs one of the components; the others do not move.
PackInit ==
  /\ part \in {"replies", "campaign"}
  /\ Init
  /\ B!Init /\ (part = "campaign" \/ ops = 1)

PackNext ==
  \/ part = "replies" /\ Next /\ UNCHANGED <<part, campaignVars>>
  \/ part = "campaign" /\ B!Next /\ UNCHANGED <<part, vars>>

PackSpec == PackInit /\ [][PackNext]_<<part, vars, campaignVars>>

\* The fairness of each component, while it is the one that runs.
PackFairSpec ==
  /\ PackSpec
  /\ Fairness
  /\ \A w \in BothWorkers : WF_campaignVars(part = "campaign" /\ B!Step(w))
  /\ \A u \in BothUsers : /\ WF_campaignVars(part = "campaign" /\ B!Ages(u))
                          /\ WF_campaignVars(part = "campaign" /\ B!BecomesDue(u))

-----------------------------------------------------------------------------
\* Two workers, crashes, slow claims and lost answers send nobody a campaign
\* twice; a row says delivered, skipped or refused only when that is what
\* happened; a client who opted out before the claim gets nothing, and a
\* cancelled campaign sends no more than the batch that had begun; and a campaign
\* is completed when every recipient's row is final.
DeliveriesAreTrue ==
  B!DeliveriesAreTrue /\ B!OptOutIsHeard /\ B!CancelStopsTheBatch /\ B!CompletedIsFinal

\* An approved campaign ends with every recipient in a final state, although
\* workers crash and claims run out.
EveryCampaignEnds == part = "campaign" => B!EveryCampaignEnds
=============================================================================
