--------------------------- MODULE MCWindowPointer ---------------------------
(* A window of eight columns, three for a tool and two for the modebar,    *)
(* with a tool or two for each of two apps.                                *)
EXTENDS WindowPointer, TLC

CONSTANTS about, map

TwoApps     == {about, map}
SomeModes   == <<about, map, "KEYPAD">>
Tools       == {"STOP", "DOWN", "CENTRE"}
ToolsOf     == about :> <<"STOP", "DOWN">> @@ map :> <<"CENTRE">>
RepeatingOf == about :> {"DOWN"} @@ map :> {}

(* Over each tool, over the first column of one, left of the toolbar; over *)
(* an app and the keypad of the modebar, left of it; over the canvas.      *)
SomePoints ==
    {<<7, 0>>, <<3, 0>>, <<-1, 0>>, <<0, 3>>, <<0, 5>>, <<-1, 3>>, <<5, 2>>}
SomePenPoints == {<<7, 0>>}
=============================================================================
