--------------------------- MODULE MCAgentRuntime ---------------------------
(***************************************************************************)
(* Small instances of AgentRuntime: a tool with one permission, one with   *)
(* two, one whose permission needs an approval.                            *)
(***************************************************************************)
EXTENDS AgentRuntime

CONSTANTS e1, r1

OneExecution == {e1}
OneRegistrar == {r1}

ThePermissions == {"READ_WEB", "RUN_WORKSPACE_COMMAND"}
TheTools == {"search", "build"}
TheirPermissions ==
  [t \in TheTools |-> IF t = "search" THEN <<"READ_WEB">> ELSE <<"READ_WEB", "RUN_WORKSPACE_COMMAND">>]
NoneGated == {}
=============================================================================
