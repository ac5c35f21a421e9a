---------------------------- MODULE MCTimeTravel ----------------------------
(* Instances of TimeTravel for TLC. *)
EXTENDS TimeTravel

WithGroup == {<<"effect", "group", "effect">>}
WithAndWithout == WithGroup \cup {<<"effect", "effect">>}
=============================================================================
