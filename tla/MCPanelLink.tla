------------------------------ MODULE MCPanelLink ------------------------------
(* MCPanelLink: PanelLink with two ports, two servers one after the other  *)
(* and a change of tools.                                                  *)
EXTENDS PanelLink
=============================================================================
