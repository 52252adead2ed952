----------------------------- MODULE MCAgentGraph -----------------------------
(***************************************************************************)
(* The agent graph checked by TLC: two sections, one of which may be        *)
(* written from nothing.                                                    *)
(***************************************************************************)
EXTENDS AgentGraph
================================================================================
