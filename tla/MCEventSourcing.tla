--------------------------- MODULE MCEventSourcing ---------------------------
(* One task with two titles, one description and one priority: the fields   *)
(* of a snapshot that later events overwrite are the title and the status.  *)
EXTENDS EventSourcing

MCTitles == {"t1", "t2"}
MCCleanTitle == [r \in MCTitles |-> r]
MCDescriptions == {"d"}
MCCleanDescription == [r \in MCDescriptions |-> r]
MCPriorities == {"normal"}

\* A reader looks at the events, never at the row: of the row, only whether
\* there is one decides what may be written next.
MCView == <<[id \in Ids |-> row[id] = NoTask], stream, snapshots, reader>>
=============================================================================
