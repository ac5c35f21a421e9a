------------------------------- MODULE Meaning -------------------------------
(***************************************************************************)
(* What a Dvala program means: a big-step semantics with immutable,        *)
(* lexical environments, no continuation and no heap.  It says what the    *)
(* evaluator promises of a program whose effects are answered, in order,   *)
(* with the given answers, and is written independently of how the         *)
(* evaluator works.                                                        *)
(*                                                                         *)
(* env is [vars, here]: the bindings in scope, and the names that the      *)
(* innermost scope itself defines (they cannot be defined again).          *)
(* An outcome is a value with the environment and the answers left after   *)
(* it, an error, a recur, or "open": the answers ran out.                  *)
(***************************************************************************)
LOCAL INSTANCE DvalaValues

Val(v, env, in) == [is |-> "value", value |-> v, env |-> env, in |-> in]
Err(kind) == [is |-> "error", error |-> kind]
Open == [is |-> "open"]
Recur(args, in) == [is |-> "recur", args |-> args, in |-> in]

\* Go on with F after an outcome that is a value.
Then(o, F(_)) == IF o.is = "value" THEN F(o) ELSE o
\* The scope that o leaves is closed.
In(env, o) == IF o.is = "value" THEN [o EXCEPT !.env = env] ELSE o

NoBindings == [x \in {} |-> Null]
Scope(env) == [vars |-> env.vars, here |-> {}]
With(env, record) == [vars |-> record @@ env.vars, here |-> env.here \cup DOMAIN record]

RECURSIVE Ev(_, _, _), Run(_, _, _), Args(_, _, _, _), Entries(_, _, _, _),
          Take(_, _, _, _), Parts(_, _, _, _, _), Fit(_, _, _, _), FitParts(_, _, _, _, _),
          Cases(_, _, _, _), Choose(_, _, _), Apply(_, _, _), Params(_, _, _, _, _),
          LoopBind(_, _, _, _, _), LoopRun(_, _, _), Rebind(_, _, _, _, _),
          Level(_, _, _, _, _), Elements(_, _, _, _, _, _, _), Lets(_, _, _)

-----------------------------------------------------------------------------
Ev(n, env, in) ==
  CASE n.op = "literal" -> Val(n.value, env, in)
    [] n.op = "symbol" -> IF n.name \in DOMAIN env.vars THEN Val(env.vars[n.name], env, in)
                                                         ELSE Err("reference")
    [] n.op = "if" ->
         Then(Ev(n.cond, env, in),
              LAMBDA o : Ev(IF Truthy(o.value) THEN n.then ELSE n.else, o.env, o.in))
    [] n.op = "block" -> In(env, Run(n.body, Scope(env), in))
    [] n.op = "let" ->
         Then(Ev(n.value, env, in), LAMBDA o :
           Then(Take(n.target, o.value, o.env, o.in), LAMBDA b :
             IF DOMAIN b.value \cap b.env.here # {} THEN Err("redefine")
             ELSE Val(o.value, With(b.env, b.value), b.in)))
    [] n.op = "array" -> Then(Args(n.nodes, <<>>, env, in),
                              LAMBDA o : [o EXCEPT !.value = Array(o.value)])
    [] n.op = "object" -> Then(Entries(n.entries, NoBindings, env, in),
                               LAMBDA o : [o EXCEPT !.value = [o |-> o.value]])
    [] n.op \in {"and", "or", "qq"} -> Choose(n, env, in)
    [] n.op = "function" -> Val([fn |-> n, vars |-> env.vars], env, in)
    [] n.op = "call" /\ n.callee.op = "builtin" ->
         Then(Args(n.args, <<>>, env, in), LAMBDA o :
           LET v == Builtin(n.callee.name, o.value)
           IN IF v = Mistyped THEN Err("type") ELSE [o EXCEPT !.value = v])
    [] n.op = "call" /\ n.callee.op # "builtin" ->
         IF n.callee.op = "symbol" /\ n.callee.name \notin DOMAIN env.vars
         THEN Err("reference")
         ELSE Then(Args(n.args, <<>>, env, in), LAMBDA o :
                Then(Ev(n.callee, o.env, o.in), LAMBDA f :
                  IF ~IsA("fn", f.value) THEN Err("type")
                  ELSE In(f.env, Apply(f.value, o.value, f.in))))
    [] n.op = "recur" -> Then(Args(n.args, <<>>, env, in), LAMBDA o : Recur(o.value, o.in))
    [] n.op = "match" -> Then(Ev(n.value, env, in),
                              LAMBDA o : In(o.env, Cases(n.cases, o.value, o.env, o.in)))
    [] n.op = "loop" -> In(env, LoopBind(n, 1, Scope(env), Scope(env), in))
    [] n.op = "for" -> Then(In(env, Level(n, 1, Scope(env), in, <<>>)),
                            LAMBDA o : [o EXCEPT !.value = Array(o.value)])
    [] n.op = "perform" -> Then(Args(n.args, <<>>, env, in), LAMBDA o :
         IF o.in = <<>> THEN Open ELSE Val(Head(o.in), o.env, Tail(o.in)))

\* Expressions in order; the last one's value.
Run(nodes, env, in) ==
  IF Len(nodes) = 1 THEN Ev(Head(nodes), env, in)
  ELSE Then(Ev(Head(nodes), env, in), LAMBDA o : Run(Tail(nodes), o.env, o.in))

\* The values of nodes appended to acc; a spread array adds its elements.
Args(nodes, acc, env, in) ==
  IF nodes = <<>> THEN Val(acc, env, in)
  ELSE LET n == Head(nodes) IN
       Then(Ev(IF IsSpread(n) THEN n.node ELSE n, env, in), LAMBDA o :
         CASE ~IsSpread(n) -> Args(Tail(nodes), Append(acc, o.value), o.env, o.in)
           [] IsSpread(n) /\ IsA("a", o.value) ->
                Args(Tail(nodes), acc \o o.value.a, o.env, o.in)
           [] OTHER -> Err("type"))

Entries(entries, acc, env, in) ==
  IF entries = <<>> THEN Val(acc, env, in)
  ELSE LET e == Head(entries) IN
       IF IsSpread(e)
       THEN Then(Ev(e.node, env, in), LAMBDA o :
              IF ~IsA("o", o.value) THEN Err("type")
              ELSE Entries(Tail(entries), o.value.o @@ acc, o.env, o.in))
       ELSE Then(Ev(e.key, env, in), LAMBDA s :
              IF ~IsA("s", s.value) THEN Err("type")
              ELSE Then(Ev(e.value, s.env, s.in), LAMBDA o :
                     Entries(Tail(entries), (s.value.s :> o.value) @@ acc, o.env, o.in)))

\* and, or, ??: the first operand that decides, else the last.
Choose(n, env, in) ==
  Then(Ev(Head(n.nodes), env, in), LAMBDA o :
    LET decides == CASE n.op = "and" -> ~Truthy(o.value)
                     [] n.op = "or" -> Truthy(o.value)
                     [] n.op = "qq" -> o.value # Null
    IN IF decides \/ Len(n.nodes) = 1 THEN o
       ELSE Choose([n EXCEPT !.nodes = Tail(@)], o.env, o.in))

-----------------------------------------------------------------------------
(* Destructuring: the outcome's value is the function from names to values.*)

Take(t, v, env, in) ==
  CASE ~Fits(t, v) -> Err("type")
    [] t.target = "symbol" -> Val(t.name :> v, env, in)
    [] t.target = "wildcard" -> Val(NoBindings, env, in)
    [] Compound(t) ->
         Then(Parts(t.parts, v, NoBindings, env, in), LAMBDA o :
           IF t.rest = "" THEN o
           ELSE [o EXCEPT !.value = (t.rest :> RestOf(v, t.parts)) @@ @])

\* A missing element takes its default; null is not missing.  An array or
\* object target without a default finds nothing in nothing.
Parts(parts, v, acc, env, in) ==
  IF parts = <<>> THEN Val(acc, env, in)
  ELSE LET t == Head(parts).of
           e == Element(v, Head(parts).step)
           given == IF e = Undefined /\ t.default # NoNode THEN Ev(t.default, env, in)
                                                           ELSE Val(OrNull(e), env, in)
           nothing == Compound(t) /\ t.default = NoNode /\ OrNull(e) = Null
       IN Then(given, LAMBDA g :
            Then(CASE ~nothing -> Take(t, g.value, g.env, g.in)
                   [] nothing /\ t.rest = "" -> Parts(t.parts, Null, NoBindings, g.env, g.in)
                   [] OTHER -> Err("type"),
                 LAMBDA o : Parts(Tail(parts), v, o.value @@ acc, o.env, o.in)))

\* Pattern matching: as destructuring, but what does not fit is the outcome
\* Val(Undefined), and null takes the default as well.
NoFit(env, in) == Val(Undefined, env, in)

Fit(t, v, env, in) ==
  CASE ~Fits(t, v) -> NoFit(env, in)
    [] t.target = "literal" ->
         Then(Ev(t.node, env, in), LAMBDA o :
           IF o.value = v THEN [o EXCEPT !.value = NoBindings] ELSE NoFit(o.env, o.in))
    [] Compound(t) ->
         Then(FitParts(t.parts, v, NoBindings, env, in), LAMBDA o :
           IF t.rest = "" \/ o.value = Undefined THEN o
           ELSE [o EXCEPT !.value = (t.rest :> RestOf(v, t.parts)) @@ @])
    [] OTHER -> Take(t, v, env, in)

FitParts(parts, v, acc, env, in) ==
  IF parts = <<>> THEN Val(acc, env, in)
  ELSE LET t == Head(parts).of
           e == OrNull(Element(v, Head(parts).step))
           given == IF e = Null /\ t.target = "symbol" /\ t.default # NoNode
                    THEN Ev(t.default, env, in) ELSE Val(e, env, in)
       IN Then(given, LAMBDA g :
            Then(Fit(t, g.value, g.env, g.in), LAMBDA o :
              IF o.value = Undefined THEN o
              ELSE FitParts(Tail(parts), v, o.value @@ acc, o.env, o.in)))

Cases(cases, v, env, in) ==
  IF cases = <<>> THEN Err("match")
  ELSE LET c == Head(cases)
           fits == IF Fits(c.pattern, v) => LengthFits(c.pattern, v)
                   THEN Fit(c.pattern, v, env, in) ELSE NoFit(env, in)
       IN Then(fits, LAMBDA o :
            IF o.value = Undefined THEN Cases(Tail(cases), v, o.env, o.in)
            ELSE LET inner == With(Scope(o.env), o.value)
                     guard == IF c.guard = NoNode THEN Val(Boolean(TRUE), inner, o.in)
                                                  ELSE Ev(c.guard, inner, o.in)
                 IN Then(guard, LAMBDA g :
                      IF Truthy(g.value) THEN Ev(c.body, inner, g.in)
                                         ELSE Cases(Tail(cases), v, o.env, g.in)))

-----------------------------------------------------------------------------
(* Functions see what was in scope where they were written, themselves (as *)
(* self) and their parameters.                                             *)

Apply(f, args, in) ==
  LET required == {i \in DOMAIN f.fn.params : f.fn.params[i].default = NoNode}
      scope == With([vars |-> f.vars, here |-> {}], "self" :> f)
      body == Then(Params(f.fn, 1, args, scope, in), LAMBDA o : Run(f.fn.body, o.env, o.in))
  IN IF Len(args) < Cardinality(required) THEN Err("arity")
     ELSE IF body.is = "recur" THEN Apply(f, body.args, body.in) ELSE body

Params(fn, i, args, env, in) ==
  IF i > Len(fn.params)
  THEN Val(Null, IF fn.rest = "" THEN env
                 ELSE With(env, fn.rest :> Array(SubSeq(args, i, Len(args)))), in)
  ELSE LET given == IF i <= Len(args) THEN Val(args[i], env, in)
                                      ELSE Ev(fn.params[i].default, env, in)
       IN Then(given, LAMBDA g :
            Then(Take(fn.params[i], g.value, env, g.in), LAMBDA o :
              Params(fn, i + 1, args, With(o.env, o.value), o.in)))

-----------------------------------------------------------------------------
(* Loops.                                                                  *)

\* The initial values, each with the earlier bindings in scope.
LoopBind(n, i, outer, env, in) ==
  IF i > Len(n.bindings) THEN LoopRun(n, outer, Val(Null, env, in))
  ELSE Then(Ev(n.bindings[i].value, env, in), LAMBDA o :
         Then(Take(n.bindings[i].target, o.value, env, o.in), LAMBDA b :
           LoopBind(n, i + 1, outer, With(b.env, b.value), b.in)))

\* One iteration after the other; start has the environment of the first.
LoopRun(n, outer, start) ==
  Then(start, LAMBDA o :
    LET body == Ev(n.body, o.env, o.in)
    IN IF body.is # "recur" THEN body
       ELSE IF Len(body.args) # Len(n.bindings) THEN Err("type")
            ELSE LoopRun(n, outer, Rebind(n, 1, body.args, outer, body.in)))

Rebind(n, i, args, env, in) ==
  IF i > Len(n.bindings) THEN Val(Null, env, in)
  ELSE Then(Take(n.bindings[i].target, args[i], env, in), LAMBDA b :
         Rebind(n, i + 1, args, With(b.env, b.value), b.in))

\* for: the values of the body for every combination of elements that passes
\* its guards, in order; a while guard that fails ends its level.
Level(n, level, env, in, acc) ==
  IF level > Len(n.bindings)
  THEN Then(Ev(n.body, env, in), LAMBDA o : Val(Append(acc, o.value), env, o.in))
  ELSE Then(Ev(n.bindings[level].coll, env, in), LAMBDA o :
         IF ~IsCollection(o.value) THEN Err("type")
         ELSE Elements(n, level, o.value.a, 1, env, o.in, acc))

Elements(n, level, coll, i, env, in, acc) ==
  LET b == n.bindings[level]
      Next(o) == Elements(n, level, coll, i + 1, env, o.in, o.value)
      Test(node, o) == IF node = NoNode THEN [o EXCEPT !.value = Boolean(TRUE)]
                                        ELSE Ev(node, o.env, o.in)
  IN IF i > Len(coll) THEN Val(acc, env, in)
     ELSE Then(Take(b.target, coll[i], env, in), LAMBDA t :
            Then(Lets(b.lets, With(t.env, t.value), t.in), LAMBDA l :
              Then(Test(b.when, l), LAMBDA w :
                IF ~Truthy(w.value) THEN Next([w EXCEPT !.value = acc])
                ELSE Then(Test(b.while, w), LAMBDA h :
                       IF ~Truthy(h.value) THEN Val(acc, env, h.in)
                       ELSE Then(Level(n, level + 1, h.env, h.in, acc), LAMBDA o : Next(o))))))

Lets(lets, env, in) ==
  IF lets = <<>> THEN Val(Null, env, in)
  ELSE Then(Ev(Head(lets).value, env, in), LAMBDA o :
         Then(Take(Head(lets).target, o.value, o.env, o.in), LAMBDA b :
           Lets(Tail(lets), With(b.env, b.value), b.in)))

-----------------------------------------------------------------------------
\* The outcome of a program whose effects get these answers, in this order.
Outcome(body, answers) ==
  LET o == Run(body, [vars |-> NoBindings, here |-> {}], answers)
  IN CASE o.is = "value" -> [value |-> o.value]
       [] o.is = "error" -> [error |-> o.error]
       [] OTHER -> [open |-> TRUE]

==============================================================================
