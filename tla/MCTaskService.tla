---------------------------- MODULE MCTaskService ----------------------------
(* TaskService on two titles, one description and one priority: what the     *)
(* races are about is which fields a stale copy overwrites, and the status.  *)
EXTENDS TaskService, TLC

MCTitles == {"t1", "t2"}
MCRawTitles == {"t1", "t2"}
MCCleanTitle == [r \in MCRawTitles |-> r]
MCDescriptions == {"d"}
MCRawDescriptions == {"d", "long"}
MCCleanDescription == [r \in MCRawDescriptions |-> IF r = "long" THEN Invalid ELSE r]
MCPriorities == {"normal"}

MCSymmetry == Permutations(Threads) \cup Permutations(Ids)
=============================================================================
