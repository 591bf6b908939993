----------------------------- MODULE MCPanelServer -----------------------------
(***************************************************************************)
(* MCPanelServer: PanelServer with one connection and two requests on it,  *)
(* of three: a mode that wants the connection to be kept, a tool that does *)
(* not, and new sizes together with a tool that is no number.  Each is cut *)
(* into two pieces anywhere.                                               *)
(***************************************************************************)
EXTENDS PanelServer

MCRequests == {[url |-> <<"/e", "?", "m", "=", "1">>, keep |-> TRUE],
               [url |-> <<"/e", "?", "t", "=", "2">>, keep |-> FALSE],
               [url |-> <<"/e", "?", "w", "=", "6", "&", "h", "=", "4", "&", "t", "=", "a">>,
                keep |-> FALSE]}

MCTaken == {{1}, {1, 2}}
=============================================================================
