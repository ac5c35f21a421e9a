----------------------------- MODULE DvalaValues -----------------------------
(***************************************************************************)
(* Values, binding targets and paths of the Dvala language, shared by the  *)
(* evaluator (module Evaluator) and by the reference semantics it is       *)
(* checked against (module Meaning).                                       *)
(*                                                                         *)
(* A value is a record with one field that names its type.  AST nodes are  *)
(* records with the field op; binding targets with the field target.       *)
(***************************************************************************)
EXTENDS Integers, SequencesExt

Null == [null |-> TRUE]
Number(n) == [n |-> n]
Boolean(b) == [b |-> b]
Array(seq) == [a |-> seq]

\* Not values: a path that leads nowhere, and a path into something that has
\* no elements of that kind.
Undefined == [undefined |-> TRUE]
Mistyped == [mistyped |-> TRUE]

IsA(type, v) == type \in DOMAIN v
OrNull(v) == IF v = Undefined THEN Null ELSE v

\* JavaScript truthiness, as far as these values go.
Truthy(v) == v \notin {Null, Boolean(FALSE), Number(0)}

\* The AST has no node here.
NoNode == [op |-> "none"]
IsSpread(node) == node.op = "spread"

-----------------------------------------------------------------------------
(* Builtins: numbers are finite integers, every program calls with two.    *)

Numbers(args) == \A i \in DOMAIN args : IsA("n", args[i])

Builtin(name, args) ==
  CASE name = "==" -> Boolean(args[1] = args[2])
    [] ~Numbers(args) -> Mistyped
    [] name = "+" -> Number(args[1].n + args[2].n)
    [] name = "<" -> Boolean(args[1].n < args[2].n)

-----------------------------------------------------------------------------
(* Binding targets.  An array or object target has parts, each a step (an  *)
(* index or a key) and the target of that element, and may have a rest.    *)

Compound(t) == t.target \in {"array", "object"}

\* validateBindingRootType, checkObjectTypeConstraint
Fits(t, v) == CASE t.target = "array" -> IsA("a", v)
                [] t.target = "object" -> IsA("o", v)
                [] OTHER -> TRUE

\* checkArrayLengthConstraint: patterns only, and only at their root.
LengthFits(t, v) ==
  t.target = "array" => IF t.rest = "" THEN Len(v.a) = Len(t.parts)
                                       ELSE Len(v.a) >= Len(t.parts)

\* One step of a path.
Element(v, step) ==
  CASE v \in {Undefined, Null} -> Undefined
    [] IsA("index", step) /\ IsA("a", v) ->
         IF step.index \in DOMAIN v.a THEN v.a[step.index] ELSE Undefined
    [] IsA("key", step) /\ IsA("o", v) ->
         IF step.key \in DOMAIN v.o THEN v.o[step.key] ELSE Undefined
    [] OTHER -> Mistyped

\* What is left of v after the parts of its target.
RestOf(v, parts) ==
  IF IsA("a", v)
  THEN Array(SubSeq(v.a, Len(parts) + 1, Len(v.a)))
  ELSE [o |-> [key \in DOMAIN v.o \ {parts[i].step.key : i \in DOMAIN parts} |-> v.o[key]]]

\* The elements a "for" iterates over; objects give pairs and are left out.
IsCollection(v) == IsA("a", v)

==============================================================================
