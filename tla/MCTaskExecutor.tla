---------------------------- MODULE MCTaskExecutor ----------------------------
(***************************************************************************)
(* The instance of TaskExecutor for TLC.  t1 heads every page; its agent   *)
(* is offline until the owner switches it on, if ever.                     *)
(***************************************************************************)
EXTENDS TaskExecutor

CONSTANTS t1, t2, a1, a2

MCAgentOf == [t \in Tasks |-> IF t = t1 THEN a1 ELSE a2]
MCRank    == [t \in Tasks |-> IF t = t1 THEN 1 ELSE 2]
===============================================================================
