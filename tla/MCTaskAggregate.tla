-------------------------- MODULE MCTaskAggregate --------------------------
(* TaskAggregate on small sets of titles, descriptions and priorities.     *)
EXTENDS TaskAggregate

\* "padded" is t1 with surrounding blanks; "blank" and "long" do not validate.
MCTitles == {"t1", "t2"}
MCRawTitles == {"t1", "padded", "t2", "blank"}
MCCleanTitle == [r \in MCRawTitles |-> CASE r = "padded" -> "t1" [] r = "blank" -> Invalid
                                         [] OTHER -> r]
MCDescriptions == {"", "d1"}
MCRawDescriptions == {"", "d1", "long"}
MCCleanDescription == [r \in MCRawDescriptions |-> IF r = "long" THEN Invalid ELSE r]
MCPriorities == {"normal", "high"}
=============================================================================
