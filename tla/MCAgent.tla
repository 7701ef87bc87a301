-------------------------------- MODULE MCAgent --------------------------------
(***************************************************************************)
(* A small instance of Agent.  Two spellings of one command, a denied      *)
(* command of the same scope, a command of another scope, and a tool that  *)
(* runs no shell.                                                          *)
(***************************************************************************)
EXTENDS Agent

MCBash == {"git log", "git  log", "git push", "make"}
MCCommands == MCBash \cup {"mcp"}
MCDenied == {"git push"}
MCCanonical == [c \in MCCommands |-> IF c = "git  log" THEN "git log" ELSE c]
MCScope == [c \in MCCommands |-> IF c \in {"make", "mcp"} THEN c ELSE "git"]
MCLimits == {NoLimit, 2}
=============================================================================
