---------------------------- MODULE MCDocManager ----------------------------
(* Small instances of DocManager: two URLs are enough for one to wait      *)
(* while the other occupies the slot.                                      *)
EXTENDS DocManager

CONSTANTS u1, u2

TwoUrls == {u1, u2}
=============================================================================
