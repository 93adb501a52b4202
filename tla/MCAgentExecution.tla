-------------------------- MODULE MCAgentExecution --------------------------
(* Small instances of AgentExecution for TLC. *)
EXTENDS AgentExecution, TLC

CONSTANTS r1, r2, s1, s2, w1, w2, p1, p2

OneRun     == {r1}
TwoRuns    == {r1, r2}
OneSession == [r \in Runs |-> s1]
OwnSession == [r \in Runs |-> IF r = r1 THEN s1 ELSE s2]

AllHarness    == [r \in Runs |-> "harness"]
AllSupervisor == [r \in Runs |-> "agent-supervisor"]
OneOfEach     == [r \in Runs |-> IF r = r1 THEN "harness" ELSE "agent-supervisor"]

ProcSymmetry == Permutations(Workers) \cup Permutations(Streams)
=============================================================================
