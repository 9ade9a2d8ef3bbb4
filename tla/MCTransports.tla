---------------------------- MODULE MCTransports ----------------------------
(* Transports with two titles, so that an edit may change something; the      *)
(* invalid inputs are priorities and statuses that do not parse.              *)
EXTENDS Transports, TLC

MCTitles == {"t1", "t2"}
MCRawTitles == {"t1", "t2"}
MCCleanTitle == [r \in MCRawTitles |-> r]
MCDescriptions == {"d"}
MCRawDescriptions == {"d"}
MCCleanDescription == [r \in MCRawDescriptions |-> r]
MCPriorities == {"normal"}

MCSymmetry == Permutations(Threads)
=============================================================================
