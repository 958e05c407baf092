---------------------------- MODULE MCSubagents ----------------------------
EXTENDS Subagents, TLC

\* Templates with many instances: every spawn has a run id of its own.
OwnIds == [s \in Spawns |-> s]

\* A singleton template: its spawns share a run id.
OneId == [s \in Spawns |-> 1]
============================================================================
