--------------------------- MODULE MCAgentLogSync ---------------------------
(***************************************************************************)
(* One Codex log and one sync: the smallest instance of AgentLogSync.      *)
(***************************************************************************)
EXTENDS AgentLogSync
=============================================================================
