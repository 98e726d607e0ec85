----------------------------- MODULE MCToolTurn -----------------------------
(* A finite instance of ToolTurn for TLC: a tool that writes and needs        *)
(* approval, and a tool of an MCP server that reads and whose tier is        *)
(* forced.                                                                   *)
EXTENDS ToolTurn

CONSTANTS bash, remote

Tiers == [t \in Mcp |-> "approval"]
=============================================================================
