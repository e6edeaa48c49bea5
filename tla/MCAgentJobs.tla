---------------------------- MODULE MCAgentJobs ----------------------------
(* Two jobs of one conversation, claimed by two replicas.                  *)
EXTENDS AgentJobs

CONSTANTS u1, r1, r2, convA

MCUserOf == [j \in Jobs |-> u1]
MCConvOf == [j \in Jobs |-> convA]
=============================================================================
