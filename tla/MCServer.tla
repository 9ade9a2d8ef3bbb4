------------------------------ MODULE MCServer ------------------------------
(* Server with one title, one description and one priority: transactions     *)
(* differ in whether they read first and in how many events they store.      *)
EXTENDS Server

MCTitles == {"t"}
MCDescriptions == {"d"}
MCPriorities == {"normal"}
MCCleanTitle == [r \in MCTitles |-> r]
MCCleanDescription == [r \in MCDescriptions |-> r]
=============================================================================
