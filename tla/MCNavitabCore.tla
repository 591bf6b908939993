--------------------------- MODULE MCNavitabCore ---------------------------
(* Small instances of NavitabCore: two apps, so that one can be selected   *)
(* in place of the other.                                                  *)
EXTENDS NavitabCore

CONSTANTS about, map

TwoApps == {about, map}
=============================================================================
