----------------------------- MODULE MCJobQueue -----------------------------
(* Small instances of JobQueue: one outside thread beside Main and the     *)
(* worker, each posting up to MaxPosts jobs.                               *)
EXTENDS JobQueue

CONSTANTS sim, main, worker

ThreeCallers == {sim, main, worker}
=============================================================================
