-------------------------- MODULE MCEffectHandlers --------------------------
(* Instances of EffectHandlers for TLC. *)
EXTENDS EffectHandlers

Deep(clauses) == [clauses |-> clauses, shallow |-> FALSE, transform |-> FALSE]

DeepHandler == {Deep({"effect"})}
EffectAndError == {Deep({"effect"}), Deep({"error"})}
AllHandlers ==
  {[clauses |-> c, shallow |-> s, transform |-> TRUE] :
     c \in {{"effect"}, {"error"}}, s \in BOOLEAN}
=============================================================================
