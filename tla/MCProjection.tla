---------------------------- MODULE MCProjection ----------------------------
(* Projection with one title, description and priority: only the status     *)
(* counts, and an edit is still a save of the whole row.                    *)
EXTENDS Projection, TLC

MCTitles == {"t"}
MCRawTitles == {"t"}
MCCleanTitle == [r \in MCRawTitles |-> r]
MCDescriptions == {"d"}
MCRawDescriptions == {"d"}
MCCleanDescription == [r \in MCRawDescriptions |-> r]
MCPriorities == {"normal"}

\* For the run with one thread, where rows and streams are compared, and an edit may
\* fail on the description after it has changed the title.
MCTwoTitles == {"t1", "t2"}
MCCleanTwoTitles == [r \in MCTwoTitles |-> r]
MCTooLong == {"d", "too long"}
MCCleanTooLong == ("d" :> "d") @@ ("too long" :> Invalid)
=============================================================================
