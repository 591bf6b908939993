------------------------------ MODULE MCMapView ------------------------------
EXTENDS MapView

MCPlanes == {[y |-> 7, x |-> 2, hdg |-> 359, ahead |-> <<1, 0>>],
             [y |-> 1, x |-> 7, hdg |-> 92, ahead |-> <<0, 1>>]}
(* Nothing off the map; a tile whose page MuPDF cannot parse, and one of   *)
(* which it cannot count the pages.                                        *)
MCReply(z, y, x) ==
    IF y \notin 0..Two[z] - 1 THEN {"bad"}
    ELSE CASE <<z, y, x>> = <<1, 0, 1>> -> {"unparsable"}
           [] <<z, y, x>> = <<1, 1, 0>> -> {"uncounted"}
           [] OTHER -> {"ok"}

MCMoves  == {<<-8, 0>>, <<2, -2>>}
=============================================================================
