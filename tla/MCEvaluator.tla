---------------------------- MODULE MCEvaluator ----------------------------
EXTENDS Evaluator

\* Expressions.
Lit(v) == [op |-> "literal", value |-> v]
Num(n) == Lit(Number(n))
Str(s) == Lit([s |-> s])
Sym(x) == [op |-> "symbol", name |-> x]
If(c, t, e) == [op |-> "if", cond |-> c, then |-> t, else |-> e]
Block(body) == [op |-> "block", body |-> body]
Let(t, v) == [op |-> "let", target |-> t, value |-> v]
Arr(nodes) == [op |-> "array", nodes |-> nodes]
Obj(entries) == [op |-> "object", entries |-> entries]
At(key, v) == [op |-> "entry", key |-> Str(key), value |-> v]
Spread(n) == [op |-> "spread", node |-> n]
And(a, b) == [op |-> "and", nodes |-> <<a, b>>]
Or(a, b) == [op |-> "or", nodes |-> <<a, b>>]
Qq(nodes) == [op |-> "qq", nodes |-> nodes]
Fn(params, free, body) == [op |-> "function", params |-> params, rest |-> "", free |-> free, body |-> body]
FnRest(params, rest, free, body) == [Fn(params, free, body) EXCEPT !.rest = rest]
Op(name, a, b) == [op |-> "call", callee |-> [op |-> "builtin", name |-> name], args |-> <<a, b>>]
Plus(a, b) == Op("+", a, b)
Less(a, b) == Op("<", a, b)
App(f, args) == [op |-> "call", callee |-> f, args |-> args]
Again(args) == [op |-> "recur", args |-> args]
Match(v, cases) == [op |-> "match", value |-> v, cases |-> cases]
Case(pattern, guard, body) == [pattern |-> pattern, guard |-> guard, body |-> body]
Loop(bindings, body) == [op |-> "loop", bindings |-> bindings, body |-> body]
With(t, v) == [target |-> t, value |-> v]
For(bindings, body) == [op |-> "for", bindings |-> bindings, body |-> body]
In(t, coll) == [target |-> t, coll |-> coll, lets |-> <<>>, when |-> NoNode, while |-> NoNode]
Ask(args) == [op |-> "perform", args |-> <<Lit([effect |-> "choose"])>> \o args]
Choose == Ask(<<>>)

\* Binding targets.
Name(x) == [target |-> "symbol", name |-> x, default |-> NoNode]
Or_(t, n) == [t EXCEPT !.default = n]
Ignored == [target |-> "wildcard", default |-> NoNode]
Is(n) == [target |-> "literal", node |-> Num(n), default |-> NoNode]
List(targets, rest) ==
  [target |-> "array", default |-> NoNode, rest |-> rest,
   parts |-> [i \in DOMAIN targets |-> [step |-> [index |-> i], of |-> targets[i]]]]
Fields(parts, rest) ==
  [target |-> "object", default |-> NoNode, rest |-> rest,
   parts |-> [i \in DOMAIN parts |-> [step |-> [key |-> parts[i][1]], of |-> parts[i][2]]]]

a == Sym("a")
b == Sym("b")
f == Sym("f")
x == Sym("x")
y == Sym("y")

Clause(shots, body) == [by |-> "clause", shots |-> shots, body |-> body]
Host(shots, body) == [by |-> "host", shots |-> shots, body |-> body]

\* Shapes whose continuations a clause may resume many times.
Forks == {
  \* bindings made after the effect, in this scope and in an enclosing one
  <<Let(Name("a"), Choose),
    Let(Name("b"), Block(<<Let(Name("x"), Choose), Plus(x, a)>>)),
    Arr(<<a, b>>)>>,
  \* a name that is taken, a name that is not there
  <<Let(Name("a"), Choose), Let(Name("b"), If(a, Num(1), x)), Let(Name("a"), b)>>,
  \* calls: arguments, spread, rest, recursion, a function made in a fork
  <<Let(Name("f"), FnRest(<<Name("x")>>, "y", {}, <<Let(Name("a"), Choose), Arr(<<x, a, Spread(y)>>)>>)),
    Arr(<<App(f, <<Spread(App(f, <<Num(1), Num(2)>>)), Choose>>)>>)>>,
  <<App(Fn(<<Name("x"), Name("y")>>, {},
           <<If(Less(x, Num(2)), Again(<<Plus(x, Num(1)), Arr(<<Choose, Spread(y)>>)>>), y)>>),
        <<Num(0), Arr(<<>>)>>)>>,
  <<Let(Name("a"), Choose),
    Let(Name("f"), Fn(<<Name("x")>>, {"a"}, <<Let(Name("b"), a), Plus(b, x)>>)),
    Block(<<Let(Name("a"), Num(7)), Plus(App(f, <<Choose>>), a)>>)>>,
  \* an object, spread and extended
  <<Let(Name("a"), Obj(<<At("p", Choose), At("q", Num(1))>>)),
    Obj(<<Spread(a), At("q", Choose)>>)>>,
  \* operands that decide
  <<And(Choose, Or(Choose, Num(5)))>>,
  <<Let(Fields(<<<<"p", Name("a")>>, <<"q", Name("b")>>>>, "x"), Obj(<<At("p", Choose), At("r", Num(2))>>)),
    Arr(<<Qq(<<b, Choose>>), a, x>>)>>,
  \* cases and guards
  <<Match(Arr(<<Choose, Num(1)>>),
          <<Case(List(<<Is(1)>>, "x"), NoNode, x),
            Case(List(<<Is(0), Name("x")>>, ""), Less(Choose, x), Block(<<Let(Name("x"), Choose), x>>)),
            Case(List(<<Name("a"), Ignored>>, ""), Less(Num(0), a), Arr(<<a>>))>>)>>
}

\* Shapes that a clause resumes once, or a host stores and restores.
Shapes == Forks \cup {
  \* the body of a for, with another level below a constant one
  <<For(<<In(Name("x"), Arr(<<Num(1), Num(2)>>))>>, Plus(x, Choose))>>,
  \* the body of a loop; a loop whose initial values are asked for
  <<Loop(<<With(Name("x"), Num(1)), With(List(<<>>, "y"), Arr(<<Choose>>))>>,
         If(Less(x, Num(2)), Again(<<Plus(x, Num(1)), Arr(<<Choose, Spread(y)>>)>>), y))>>,
  \* defaults: of destructuring, of parameters, of patterns, of recur
  <<Let(Fields(<<<<"p", Or_(List(<<Or_(Name("a"), Choose)>>, ""), Arr(<<>>))>>, <<"q", Or_(Name("b"), Choose)>>>>, ""), Obj(<<>>)),
    Arr(<<a, b>>)>>,
  <<App(Fn(<<Name("x"), Or_(Name("y"), Plus(x, Choose))>>, {}, <<Let(Name("a"), y), Arr(<<x, a>>)>>), <<Num(1)>>)>>,
  <<Match(Arr(<<Lit(Null), Arr(<<Num(3)>>)>>),
          <<Case(List(<<Or_(Name("a"), Choose), List(<<Is(4)>>, "")>>, ""), NoNode, a),
            Case(List(<<Or_(Name("a"), Choose), List(<<Name("b")>>, "")>>, ""), Choose, Plus(a, b))>>)>>,
  <<Loop(<<With(List(<<Or_(Name("x"), Choose)>>, ""), Arr(<<Num(0)>>)), With(Name("y"), Num(0))>>,
         If(Less(y, Num(1)), Again(<<Arr(<<>>), Num(1)>>), x))>>
}

\* Shapes whose effects are answered, no more: their loops keep the names of
\* an element where only a continuation that was never copied finds them.
GuardedLevel == [In(Name("x"), Arr(<<Num(1), Num(2), Num(3)>>)) EXCEPT
            !.lets = <<With(Name("y"), Plus(x, Num(1))), With(List(<<Name("a")>>, ""), Arr(<<y>>))>>,
            !.when = Less(Choose, x), !.while = Less(x, Num(3))]
Answered == {
  <<For(<<GuardedLevel>>, Arr(<<x, a>>))>>,
  <<For(<<In(Name("x"), Arr(<<Num(1), Num(2)>>)), In(List(<<Or_(Name("y"), Choose)>>, ""), Arr(<<Arr(<<>>), Arr(<<x>>)>>))>>,
        Plus(x, y))>>,
  \* what goes wrong in a program
  <<Plus(Choose, Lit(Null))>>,
  <<App(Fn(<<Name("x")>>, {}, <<x>>), <<>>)>>,
  <<App(f, <<Choose>>)>>,
  <<App(Choose, <<>>)>>,
  <<Arr(<<Spread(Choose)>>)>>,
  <<Obj(<<Spread(Choose)>>)>>,
  <<Let(List(<<List(<<>>, "y")>>, "x"), Arr(<<>>))>>,
  <<Match(Choose, <<Case(Is(1), NoNode, Num(5))>>)>>,
  <<For(<<In(Name("x"), Choose)>>, x)>>,
  <<Loop(<<With(Name("x"), Choose)>>, Again(<<>>))>>,
  <<Ask(<<Plus(Choose, Num(1))>>)>>
}

MCPrograms ==
  {Clause(2, body) : body \in Forks} \cup {Clause(1, body) : body \in Shapes}
    \cup {Host(MaxResumes, body) : body \in Shapes} \cup {Host(0, body) : body \in Answered}

\* A when guard, and an effect in the body that a clause resumes once.
GuardedLoop == [In(Name("x"), Arr(<<Num(1), Num(2), Num(3)>>)) EXCEPT !.when = Less(x, Num(2))]
GuardPrograms == {Clause(1, <<For(<<GuardedLoop>>, Arr(<<x, Choose>>))>>)}

\* An effect in the body of a loop, resumed twice.
ForkPrograms == {Clause(2, <<For(<<In(Name("x"), Arr(<<Num(1), Num(2)>>))>>, Arr(<<x, Choose, x>>))>>)}

MCAnswers == {Number(0), Number(1)}
==============================================================================
