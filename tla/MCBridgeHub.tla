---------------------------- MODULE MCBridgeHub ----------------------------
(* The instance of BridgeHub that TLC checks. *)
EXTENDS BridgeHub

CONSTANTS d1, c1, c2, k1, k2, k3

\* Two states the hub reaches from Init: c2 went with a restart, or the calls
\* other than k1 found no daemon.  From the first every queue can fill up with
\* one connection, from the second connections replace each other.
LaterInit ==
    LET spent(c) == [pc |-> "closed", dev |-> d1, prev |-> None, doomed |-> TRUE,
                     retired |-> TRUE, stalled |-> FALSE, outbound |-> <<>>, send |-> <<>>, wire |-> {}]
        fresh(c) == [spent(c) EXCEPT !.pc = "new", !.dev = None, !.doomed = FALSE, !.retired = FALSE]
        phone(k, at) == [pc |-> at, conn |-> None, late |-> FALSE]
    IN  /\ active = Devices /\ blocked = {}
        /\ revoke = [d \in Devices |-> [pc |-> "no", conn |-> None]]
        /\ current = None
        /\ count = [c \in Conns |-> 0]
        /\ \/ /\ latest = c2 /\ restarts = MaxRestarts
              /\ sock = [c \in Conns |-> IF c = c2 THEN spent(c) ELSE fresh(c)]
              /\ call = [k \in Calls |-> phone(k, "idle")]
           \/ /\ latest = None /\ restarts = 0
              /\ sock = [c \in Conns |-> fresh(c)]
              /\ call = [k \in Calls |-> phone(k, IF k = k1 THEN "idle" ELSE "returned")]

LaterSpec == LaterInit /\ [][Next]_vars /\ Fairness
=============================================================================
