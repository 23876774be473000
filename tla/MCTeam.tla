------------------------------- MODULE MCTeam -------------------------------
(* Team for TLC: what the supervisor may answer.  One subtask; five, of which the
   third joins the first to the second and the last two are folded into one
   member; two, of which the second names no scope and so may touch anything. *)
EXTENDS Team
CONSTANTS src, test, lib, docs

Alone    == <<{<<src>>}>>
Joined   == <<{<<src, lib>>}, {<<test>>}, {<<src>>, <<test>>}, {<<lib>>}, {<<docs>>}>>
Unscoped == <<{<<src>>}, {}>>
SomePlans == {Alone, Joined, Unscoped}
=============================================================================
