----------------------------- MODULE SendOutcome -----------------------------
(***************************************************************************)
(* What the executor promises about one reply, with everything about      *)
(* attempts, races and crashes left out: the peer gets it at most once;    *)
(* "sent" is only said of a reply the peer has; "withheld" is only said of *)
(* a reply the peer does not have and will never get; "unknown" claims     *)
(* neither and may later turn into "sent", never into "withheld".          *)
(***************************************************************************)
CONSTANT Actions

VARIABLES
    peer,     \* [Actions -> BOOLEAN]: the reply is in the peer's chat
    outcome   \* what the action's row says became of it

vars == <<peer, outcome>>

Init ==
    /\ peer = [a \in Actions |-> FALSE]
    /\ outcome = [a \in Actions |-> "open"]

Arrive(a) ==
    /\ ~peer[a]
    /\ outcome[a] # "withheld"
    /\ peer' = [peer EXCEPT ![a] = TRUE]
    /\ UNCHANGED outcome

Confirm(a) ==
    /\ peer[a]
    /\ outcome[a] \in {"open", "unknown"}
    /\ outcome' = [outcome EXCEPT ![a] = "sent"]
    /\ UNCHANGED peer

\* A sweep may withhold several drafts in one statement.
Withhold(S) ==
    /\ \A a \in S : ~peer[a] /\ outcome[a] = "open"
    /\ outcome' = [a \in Actions |-> IF a \in S THEN "withheld" ELSE outcome[a]]
    /\ UNCHANGED peer

GiveUp(a) ==
    /\ outcome[a] = "open"
    /\ outcome' = [outcome EXCEPT ![a] = "unknown"]
    /\ UNCHANGED peer

Next ==
    \/ \E a \in Actions : Arrive(a) \/ Confirm(a) \/ GiveUp(a)
    \/ \E S \in SUBSET Actions : Withhold(S)

Spec == Init /\ [][Next]_vars
=============================================================================
