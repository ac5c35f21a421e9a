----------------------------- MODULE Evaluator -----------------------------
(***************************************************************************)
(* The trampoline evaluator: programs run as a machine of an expression or *)
(* a value, a continuation k (a stack of frames, innermost first) and a    *)
(* heap.  Every action is one turn of tick: stepNode for an expression,    *)
(* applyFrame for a value.                                                 *)
(*                                                                         *)
(* The heap holds what JavaScript mutates in place: the contexts (names to *)
(* values) that a ContextStack is a list of, and the contexts and records  *)
(* that frames keep to themselves.  An env is a sequence of heap           *)
(* addresses, the innermost context first.  In a frame, the fields of      *)
(* EnvFields are envs and own is the address of the frame's private        *)
(* object; all the rest is immutable.                                      *)
(*                                                                         *)
(* A perform captures the continuation.  A handler clause resumes it, once *)
(* or many times (freshenContinuationEnvs gives each resume copies of the  *)
(* innermost contexts); a host answers it, or stores it and restores it,   *)
(* any number of times, from the stored copy (module Meaning says what has *)
(* to come out).                                                           *)
(***************************************************************************)
EXTENDS DvalaValues

CONSTANTS
  Programs,     \* records: body, by ("clause" or "host"), shots per capture
  Answers,      \* the values that effects are answered with
  MaxResumes    \* bound: answers, resumes and restores in one behaviour

ASSUME EvaluatorAssumption ==
  /\ \A p \in Programs : p.by \in {"clause", "host"} /\ p.shots \in Nat
  /\ MaxResumes \in Nat

VARIABLES
  program,    \* the program that runs
  machine,    \* the Step: Eval, Value, Error or Perform, with the heap
  path,       \* the answers that led to this machine
  captured    \* every captured continuation: k, heap, path, resumes so far

vars == <<program, machine, path, captured>>

M == INSTANCE Meaning

-----------------------------------------------------------------------------
(* Steps and contexts.                                                     *)

Eval(node, env, k, h) == [type |-> "Eval", node |-> node, env |-> env, k |-> k, heap |-> h]
Value(v, k, h) == [type |-> "Value", value |-> v, k |-> k, heap |-> h]
Error(kind, h) == [type |-> "Error", error |-> kind, heap |-> h]
Perform(k, h) == [type |-> "Perform", k |-> k, heap |-> h]

Push(frame, k) == <<frame>> \o k

NoBindings == [x \in {} |-> Null]
New(h) == Len(h) + 1
Create(env, address) == <<address>> \o env
Merge(record, address, h) == [h EXCEPT ![address] = record @@ @]

\* lookUpByName: the innermost context that has the name.
LookUp(name, env, h) ==
  LET i == SelectInSeq(env, LAMBDA address : name \in DOMAIN h[address])
  IN IF i = 0 THEN Undefined ELSE h[env[i]][name]

\* addValues: a context never redefines a name.
AddValues(record, env, v, k, h) ==
  IF DOMAIN record \cap DOMAIN h[Head(env)] # {} THEN Error("redefine", h)
  ELSE Value(v, k, Merge(record, Head(env), h))

-----------------------------------------------------------------------------
(* Destructuring and matching: a target is flattened to slots, each with   *)
(* the path to its value.  A binding in progress is [levels, record]: the  *)
(* levels, innermost first, with the slots still to fill, and the names    *)
(* bound so far.                                                           *)

Slot(is, of, steps) == [is |-> is, of |-> of, path |-> steps]

RECURSIVE Flatten(_, _, _)
Flatten(t, steps, matching) ==
  CASE t.target = "symbol" -> <<Slot("bind", t, steps)>>
    [] t.target = "literal" -> <<Slot("literal", t, steps)>>
    [] t.target = "wildcard" -> <<>>
    [] Compound(t) ->
         LET Part(part) ==
               IF ~matching /\ Compound(part.of) /\ part.of.default # NoNode
               THEN <<Slot("nested", part.of, Append(steps, part.step))>>
               ELSE Flatten(part.of, Append(steps, part.step), matching)
         IN (IF matching /\ steps # <<>> THEN <<Slot("typeCheck", t, steps)>> ELSE <<>>)
            \o FlattenSeq([i \in DOMAIN t.parts |-> Part(t.parts[i])])
            \o (IF t.rest = "" THEN <<>> ELSE <<Slot("rest", t, steps)>>)

Level(t, v, matching) == [of |-> t, slots |-> Flatten(t, <<>>, matching), value |-> v]
Binding(t, v, matching) == [levels |-> <<Level(t, v, matching)>>, record |-> NoBindings]

Bound(b) == b.levels = <<>>
LevelDone(b) == Head(b.levels).slots = <<>>
SlotAt(b) == Head(Head(b.levels).slots)
ValueAt(b, steps) == FoldLeft(Element, Head(b.levels).value, steps)
SlotValue(b) == ValueAt(b, SlotAt(b).path)
PopLevel(b) == [b EXCEPT !.levels = Tail(@)]
SkipSlot(b) == [b EXCEPT !.levels[1].slots = Tail(@)]
Bind(b, name, v) == [SkipSlot(b) EXCEPT !.record = (name :> v) @@ @]

FillSlot(b, v) ==
  LET slot == SlotAt(b)
  IN CASE slot.is = "bind" -> Bind(b, slot.of.name, v)
       [] slot.is = "rest" -> Bind(b, slot.of.rest, RestOf(v, slot.of.parts))
       [] slot.is = "nested" ->
            [SkipSlot(b) EXCEPT !.levels = <<Level(slot.of, v, FALSE)>> \o @]

IllTyped(b) ==
  \/ ~Fits(Head(b.levels).of, Head(b.levels).value)
  \/ ~LevelDone(b) /\ SlotValue(b) = Mistyped
  \/ ~LevelDone(b) /\ SlotAt(b).is = "rest" /\ ~Fits(SlotAt(b).of, OrNull(SlotValue(b)))
NeedsDefault(b) ==
  SlotAt(b).is # "rest" /\ SlotValue(b) = Undefined /\ SlotAt(b).of.default # NoNode

\* The while loop of continueBindingSlots: until all is bound, a default has
\* to be evaluated, or something has the wrong type.
RECURSIVE FillSlots(_)
FillSlots(b) ==
  CASE Bound(b) -> b
    [] ~Bound(b) /\ IllTyped(b) -> b
    [] ~Bound(b) /\ ~IllTyped(b) ->
         CASE LevelDone(b) -> FillSlots(PopLevel(b))
           [] ~LevelDone(b) /\ NeedsDefault(b) -> b
           [] ~LevelDone(b) /\ ~NeedsDefault(b) -> FillSlots(FillSlot(b, OrNull(SlotValue(b))))

ContinueBinding(b, env, k, h) ==
  LET c == FillSlots(b)
  IN CASE Bound(c) -> Value(c.record, k, h)
       [] ~Bound(c) /\ IllTyped(c) -> Error("type", h)
       [] ~Bound(c) /\ ~IllTyped(c) ->
            Eval(SlotAt(c).of.default, env,
                 Push([frame |-> "BindingSlot", own |-> New(h), env |-> env], k), Append(h, c))

StartBinding(t, v, env, k, h) == ContinueBinding(Binding(t, v, FALSE), env, k, h)

\* A pattern slot's value; a path into the wrong type leads nowhere.
MatchValue(b, steps) == LET v == ValueAt(b, steps) IN IF v = Mistyped THEN Undefined ELSE v
AsksDefault(b) ==
  SlotAt(b).is = "bind" /\ SlotAt(b).of.default # NoNode
    /\ OrNull(MatchValue(b, SlotAt(b).path)) = Null

\* The while loop of continueMatchSlots.
RECURSIVE FitSlots(_)
FitSlots(b) ==
  IF Bound(b) THEN b
  ELSE IF LevelDone(b) THEN FitSlots(PopLevel(b))
  ELSE LET v == MatchValue(b, SlotAt(b).path)
       IN CASE SlotAt(b).is = "typeCheck" -> IF Fits(SlotAt(b).of, v) THEN FitSlots(SkipSlot(b)) ELSE b
            [] SlotAt(b).is = "literal" \/ AsksDefault(b) -> b
            [] OTHER -> FitSlots(FillSlot(b, OrNull(v)))

\* match is the value and the cases that are left (the first one is tried),
\* of a match expression in menv.
RECURSIVE ContinueMatch(_, _, _, _, _, _), TryCase(_, _, _, _)
ContinueMatch(b, match, menv, env, k, h) ==
  LET c == FitSlots(b)
      tried == Head(match.cases)
      inner == Create(menv, New(h))
  IN CASE Bound(c) /\ tried.guard # NoNode ->
            Eval(tried.guard, inner,
                 Push([frame |-> "Match", match |-> match, record |-> c.record,
                       phase |-> "guard", env |-> menv], k), Append(h, c.record))
       [] Bound(c) /\ tried.guard = NoNode -> Eval(tried.body, inner, k, Append(h, c.record))
       [] ~Bound(c) /\ SlotAt(c).is = "typeCheck" ->
            TryCase([match EXCEPT !.cases = Tail(@)], menv, k, h)
       [] ~Bound(c) /\ SlotAt(c).is # "typeCheck" ->
            Eval(IF SlotAt(c).is = "literal" THEN SlotAt(c).of.node ELSE SlotAt(c).of.default, env,
                 Push([frame |-> "MatchSlot", match |-> match, matchEnv |-> menv,
                       slot |-> SlotAt(c), own |-> New(h), env |-> env], k), Append(h, c))

\* processMatchCase, startMatchSlots
TryCase(match, menv, k, h) ==
  LET pattern == Head(match.cases).pattern
  IN IF match.cases = <<>> THEN Error("match", h)
     ELSE IF Fits(pattern, match.value) /\ LengthFits(pattern, match.value)
     THEN ContinueMatch(Binding(pattern, match.value, TRUE), match, menv, menv, k, h)
     ELSE TryCase([match EXCEPT !.cases = Tail(@)], menv, k, h)

-----------------------------------------------------------------------------
(* Calls.                                                                  *)

\* evaluateFunction: the free names of the body that are defined by now.
Closure(n, env, h) ==
  [x \in {y \in n.free : LookUp(y, env, h) # Undefined} |-> LookUp(x, env, h)]

CallEnv(f, own, outer) == <<own, f.closure>> \o outer

FnBody(f, nodes, env, outer) ==
  [frame |-> "FnBody", fn |-> f, nodes |-> nodes, env |-> env, outer |-> outer]

ProceedToBody(f, own, outer, k, h) ==
  LET env == CallEnv(f, own, outer)
  IN Eval(Head(f.fn.body), env, Push(FnBody(f, Tail(f.fn.body), env, outer), k), h)

\* Parameter i: its argument, else its default; then the rest, then the body.
BindArg(f, args, i, own, outer, k, h) ==
  LET params == f.fn.params
      env == CallEnv(f, own, outer)
      Frame(name) == [frame |-> name, fn |-> f, args |-> args, index |-> i,
                      own |-> own, outer |-> outer]
      Rest == [target |-> "symbol", name |-> f.fn.rest]
  IN CASE i <= Len(params) /\ i <= Len(args) ->
            StartBinding(params[i], args[i], env, Push(Frame("FnArgSlotComplete"), k), h)
       [] i <= Len(params) /\ i > Len(args) ->
            Eval(params[i].default, env, Push(Frame("FnArgBind"), k), h)
       [] i > Len(params) /\ f.fn.rest # "" ->
            StartBinding(Rest, Array(SubSeq(args, i, Len(args))), env,
                         Push(Frame("FnRestArgComplete"), k), h)
       [] OTHER -> ProceedToBody(f, own, outer, k, h)

\* setupUserDefinedCall
SetupCall(f, args, outer, k, h) ==
  LET required == SelectSeq(f.fn.params, LAMBDA t : t.default = NoNode)
  IN IF Len(args) < Len(required) THEN Error("arity", h)
     ELSE BindArg(f, args, 1, New(h), outer, k, Append(h, "self" :> f))

\* dispatchFunction; collections and numbers, callable too, are left out.
CallValue(f, args, env, k, h) ==
  IF IsA("fn", f) THEN SetupCall(f, args, env, k, h) ELSE Error("type", h)

DispatchCall(callee, args, env, k, h) ==
  LET f == LookUp(callee.name, env, h)
      v == Builtin(callee.name, args)
  IN CASE callee.op = "builtin" -> IF v = Mistyped THEN Error("type", h) ELSE Value(v, k, h)
       [] callee.op = "symbol" -> IF f = Undefined THEN Error("reference", h)
                                                   ELSE CallValue(f, args, env, k, h)
       [] OTHER -> Eval(callee, env, Push([frame |-> "CallFn", args |-> args, env |-> env], k), h)

-----------------------------------------------------------------------------
(* Loops.                                                                  *)

LoopIterate(n, own, env) == [frame |-> "LoopIterate", loop |-> n, own |-> own, env |-> env]

\* startRecurLoopRebind: bind the i-th parameter of recur in the loop's own
\* context; at the end, the innermost context of env is brought up to date.
RebindLoop(n, i, args, own, env, k, h) ==
  IF i > Len(n.bindings)
  THEN Eval(n.body, env, Push(LoopIterate(n, own, env), k),
            IF Head(env) = own THEN h ELSE Merge(h[own], Head(env), h))
  ELSE StartBinding(n.bindings[i].target, args[i], env,
                    Push([frame |-> "RecurLoopRebind", loop |-> n, index |-> i, args |-> args,
                          own |-> own, env |-> env], k), h)

\* handleRecur: restart the nearest loop or function, drop the frames on it.
Recur(args, k, h) ==
  LET i == SelectInSeq(k, LAMBDA f : f.frame \in {"LoopIterate", "FnBody"})
      f == k[i]
      rest == SubSeq(k, i + 1, Len(k))
  IN IF f.frame = "FnBody" THEN SetupCall(f.fn, args, f.outer, rest, h)
     ELSE IF Len(args) # Len(f.loop.bindings) THEN Error("type", h)
     ELSE RebindLoop(f.loop, 1, args, f.own, f.env, rest, h)

\* A for-loop is [node, result, level, states]: per level its collection and
\* the index of the element it is at.
ForFrame(phase, loop, own, env) ==
  [frame |-> "ForLoop", phase |-> phase, loop |-> loop, own |-> own, env |-> env]
ForBinding(loop) == loop.node.bindings[loop.level]

BindElement(loop, own, env, k, h) ==
  LET state == loop.states[loop.level]
  IN StartBinding(ForBinding(loop).target, state.coll[state.index], env,
                  Push([frame |-> "ForElementBindComplete", loop |-> loop, own |-> own,
                        loopEnv |-> env, env |-> env], k), h)

\* advanceForElement: the next element of the innermost level that has one.
NextElement(loop, own, env, k, h) ==
  LET more == {l \in 1..loop.level : loop.states[l].index < Len(loop.states[l].coll)}
      l == Max(more)
  IN IF more = {} THEN Value(Array(loop.result), k, h)
     ELSE BindElement([loop EXCEPT !.level = l, !.states[l].index = @ + 1], own, env, k, h)

\* processForNextLevel: guards see env, the body the loop's own context.
ForNextLevel(loop, own, env, k, h) ==
  IF loop.level < Len(loop.node.bindings)
  THEN LET deeper == [loop EXCEPT !.level = @ + 1]
       IN Eval(ForBinding(deeper).coll, env,
               Push(ForFrame("evalCollection", deeper, own, env), k), h)
  ELSE Eval(loop.node.body, Create(env, own), Push(ForFrame("evalBody", loop, own, env), k), h)

ForWhile(loop, own, env, k, h) ==
  IF ForBinding(loop).while # NoNode
  THEN Eval(ForBinding(loop).while, env, Push(ForFrame("evalWhile", loop, own, env), k), h)
  ELSE ForNextLevel(loop, own, env, k, h)

\* processForGuards
ForGuards(loop, own, env, k, h) ==
  IF ForBinding(loop).when # NoNode
  THEN Eval(ForBinding(loop).when, env, Push(ForFrame("evalWhen", loop, own, env), k), h)
  ELSE ForWhile(loop, own, env, k, h)

\* The lets of the level that are left, then its guards; the lets are
\* evaluated in env, the guards in the loop's env.
ForLets(lets, f, env, k, h) ==
  IF lets = <<>> THEN ForGuards(f.loop, f.own, f.loopEnv, k, h)
  ELSE Eval(Head(lets).value, env,
            Push([frame |-> "ForLetBind", phase |-> "evalValue", lets |-> lets, loop |-> f.loop,
                  own |-> f.own, loopEnv |-> f.loopEnv, env |-> env], k), h)

-----------------------------------------------------------------------------
(* stepNode: an expression is to be evaluated.                             *)

Node == machine.node
Env == machine.env
K == machine.k
H == machine.heap

Evaluates(op) == machine.type = "Eval" /\ Node.op = op
Become(step) == machine' = step /\ UNCHANGED <<program, path, captured>>

\* Evaluate the first of the nodes, a spread by what it spreads.
First(nodes) == IF IsSpread(Head(nodes)) THEN Head(nodes).node ELSE Head(nodes)

StepLiteral == Evaluates("literal") /\ Become(Value(Node.value, K, H))

StepSymbol ==
  /\ Evaluates("symbol")
  /\ LET v == LookUp(Node.name, Env, H)
     IN Become(IF v = Undefined THEN Error("reference", H) ELSE Value(v, K, H))

StepIf ==
  /\ Evaluates("if")
  /\ Become(Eval(Node.cond, Env,
                 Push([frame |-> "IfBranch", then |-> Node.then, else |-> Node.else, env |-> Env], K), H))

Sequence(nodes, env) == [frame |-> "Sequence", nodes |-> nodes, env |-> env]

StepBlock ==
  /\ Evaluates("block")
  /\ LET env == Create(Env, New(H))
         rest == Tail(Node.body)
     IN Become(Eval(Head(Node.body), env, IF rest = <<>> THEN K ELSE Push(Sequence(rest, env), K),
                    Append(H, NoBindings)))

StepLet ==
  /\ Evaluates("let")
  /\ Become(Eval(Node.value, Env,
                 Push([frame |-> "LetBind", target |-> Node.target, env |-> Env], K), H))

StepArray ==
  /\ Evaluates("array")
  /\ Become(IF Node.nodes = <<>> THEN Value(Array(<<>>), K, H)
            ELSE Eval(First(Node.nodes), Env,
                      Push([frame |-> "ArrayBuild", nodes |-> Node.nodes, result |-> <<>>,
                            env |-> Env], K), H))

\* An entry is [op, key, value], or a spread; its key comes first.
FirstOf(entry) == IF IsSpread(entry) THEN entry.node ELSE entry.key
NoKey == ""

StepObject ==
  /\ Evaluates("object")
  /\ Become(IF Node.entries = <<>> THEN Value([o |-> NoBindings], K, H)
            ELSE Eval(FirstOf(Head(Node.entries)), Env,
                      Push([frame |-> "ObjectBuild", entries |-> Node.entries, result |-> NoBindings,
                            key |-> NoKey, env |-> Env], K), H))

\* and, or, ??
Choice(op, nodes, env) == [frame |-> "Choice", op |-> op, nodes |-> nodes, env |-> env]

StepChoice ==
  /\ machine.type = "Eval" /\ Node.op \in {"and", "or", "qq"}
  /\ LET rest == Tail(Node.nodes)
     IN Become(Eval(Head(Node.nodes), Env,
                    IF rest = <<>> THEN K ELSE Push(Choice(Node.op, rest, Env), K), H))

StepFunction ==
  /\ Evaluates("function")
  /\ Become(Value([fn |-> Node, closure |-> New(H)], K, Append(H, Closure(Node, Env, H))))

\* A name that is called has to be defined before its arguments are evaluated.
StepCall ==
  /\ Evaluates("call")
  /\ LET below == Push([frame |-> "FiniteCheck"], K)
     IN Become(
          IF Node.callee.op = "symbol" /\ LookUp(Node.callee.name, Env, H) = Undefined
          THEN Error("reference", H)
          ELSE IF Node.args = <<>> THEN DispatchCall(Node.callee, <<>>, Env, below, H)
          ELSE Eval(First(Node.args), Env,
                    Push([frame |-> "EvalArgs", callee |-> Node.callee, nodes |-> Node.args,
                          args |-> <<>>, env |-> Env], below), H))

StepRecur ==
  /\ Evaluates("recur")
  /\ Become(IF Node.args = <<>> THEN Recur(<<>>, K, H)
            ELSE Eval(Head(Node.args), Env,
                      Push([frame |-> "Recur", nodes |-> Tail(Node.args), args |-> <<>>, env |-> Env], K), H))

StepPerform ==
  /\ Evaluates("perform")
  /\ Become(Eval(Head(Node.args), Env,
                 Push([frame |-> "PerformArgs", nodes |-> Tail(Node.args), env |-> Env], K), H))

StepMatch ==
  /\ Evaluates("match")
  /\ Become(Eval(Node.value, Env,
                 Push([frame |-> "Match", match |-> [value |-> Null, cases |-> Node.cases],
                       record |-> NoBindings, phase |-> "matchValue", env |-> Env], K), H))

LoopBind(n, i, own, env) ==
  [frame |-> "LoopBind", loop |-> n, index |-> i, own |-> own, env |-> env]

StepLoop ==
  /\ Evaluates("loop")
  /\ Become(Eval(Node.bindings[1].value, Env, Push(LoopBind(Node, 1, New(H), Env), K),
                 Append(H, NoBindings)))

StepFor ==
  /\ Evaluates("for")
  /\ LET env == Create(Env, New(H))
         loop == [node |-> Node, result |-> <<>>, level |-> 1, states |-> <<>>]
     IN Become(Eval(Node.bindings[1].coll, env,
                    Push(ForFrame("evalCollection", loop, New(H), env), K), Append(H, NoBindings)))

-----------------------------------------------------------------------------
(* applyFrame: the innermost frame F takes the value V, on the frames R.   *)

F == Head(machine.k)
R == Tail(machine.k)
V == machine.value
Applies(frame) == machine.type = "Value" /\ K # <<>> /\ F.frame = frame

ApplyIfBranch == Applies("IfBranch") /\ Become(Eval(IF Truthy(V) THEN F.then ELSE F.else, F.env, R, H))

ApplySequence ==
  /\ Applies("Sequence")
  /\ Become(Eval(Head(F.nodes), F.env,
                 IF Len(F.nodes) = 1 THEN R ELSE Push(Sequence(Tail(F.nodes), F.env), R), H))

ApplyChoice ==
  /\ Applies("Choice")
  /\ LET decides == CASE F.op = "and" -> ~Truthy(V) [] F.op = "or" -> Truthy(V) [] F.op = "qq" -> V # Null
     IN Become(IF decides THEN Value(V, R, H)
               ELSE Eval(Head(F.nodes), F.env,
                         IF Len(F.nodes) = 1 THEN R ELSE Push(Choice(F.op, Tail(F.nodes), F.env), R), H))

\* The items that the first of the nodes adds, and whether they are right.
IllSpread == IsSpread(Head(F.nodes)) /\ ~IsA("a", V)
Items(so_far) == IF IsSpread(Head(F.nodes)) THEN so_far \o V.a ELSE Append(so_far, V)

ApplyArrayBuild ==
  /\ Applies("ArrayBuild")
  /\ LET rest == Tail(F.nodes)
         next == [F EXCEPT !.nodes = rest, !.result = Items(@)]
     IN Become(IF IllSpread THEN Error("type", H)
               ELSE IF rest = <<>> THEN Value(Array(next.result), R, H)
               ELSE Eval(First(rest), F.env, Push(next, R), H))

ApplyObjectBuild ==
  /\ Applies("ObjectBuild")
  /\ LET entry == Head(F.entries)
         rest == Tail(F.entries)
         added == IF IsSpread(entry) THEN V.o ELSE F.key :> V
         next == [F EXCEPT !.entries = rest, !.result = added @@ @, !.key = NoKey]
     IN Become(
          IF ~IsSpread(entry) /\ F.key = NoKey
          THEN IF ~IsA("s", V) THEN Error("type", H)
               ELSE Eval(entry.value, F.env, Push([F EXCEPT !.key = V.s], R), H)
          ELSE IF IsSpread(entry) /\ ~IsA("o", V) THEN Error("type", H)
          ELSE IF rest = <<>> THEN Value([o |-> next.result], R, H)
          ELSE Eval(FirstOf(Head(rest)), F.env, Push(next, R), H))

ApplyLetBind ==
  /\ Applies("LetBind")
  /\ Become(StartBinding(F.target, V, F.env,
                         Push([frame |-> "LetBindComplete", value |-> V, env |-> F.env], R), H))

ApplyLetBindComplete ==
  Applies("LetBindComplete") /\ Become(AddValues(V, F.env, F.value, R, H))

\* The frame's binding in progress is advanced in place.
ApplyBindingSlot ==
  /\ Applies("BindingSlot")
  /\ LET b == FillSlot(H[F.own], V)
     IN Become(IF Bound(H[F.own]) THEN Error("internal", H)
               ELSE ContinueBinding(b, F.env, R, [H EXCEPT ![F.own] = FillSlots(b)]))

ApplyMatch ==
  /\ Applies("Match")
  /\ LET tried == Head(F.match.cases)
     IN Become(CASE F.phase = "matchValue" -> TryCase([F.match EXCEPT !.value = V], F.env, R, H)
                 [] F.phase = "guard" /\ Truthy(V) ->
                      Eval(tried.body, Create(F.env, New(H)), R, Append(H, F.record))
                 [] F.phase = "guard" /\ ~Truthy(V) ->
                      TryCase([F.match EXCEPT !.cases = Tail(@)], F.env, R, H))

ApplyMatchSlot ==
  /\ Applies("MatchSlot")
  /\ LET at == H[F.own]
         b == IF F.slot.is = "literal" THEN SkipSlot(at) ELSE Bind(at, F.slot.of.name, V)
     IN Become(IF Bound(at) THEN Error("internal", H)
               ELSE IF F.slot.is = "literal" /\ MatchValue(at, F.slot.path) # V
               THEN TryCase([F.match EXCEPT !.cases = Tail(@)], F.matchEnv, R, H)
               ELSE ContinueMatch(b, F.match, F.matchEnv, F.env, R, [H EXCEPT ![F.own] = FitSlots(b)]))

ApplyFiniteCheck == Applies("FiniteCheck") /\ Become(Value(V, R, H))

ApplyEvalArgs ==
  /\ Applies("EvalArgs")
  /\ LET rest == Tail(F.nodes)
         next == [F EXCEPT !.nodes = rest, !.args = Items(@)]
     IN Become(IF IllSpread THEN Error("type", H)
               ELSE IF rest = <<>> THEN DispatchCall(F.callee, next.args, F.env, R, H)
               ELSE Eval(First(rest), F.env, Push(next, R), H))

ApplyCallFn == Applies("CallFn") /\ Become(CallValue(V, F.args, F.env, R, H))

ApplyFnBody ==
  /\ Applies("FnBody")
  /\ Become(IF F.nodes = <<>> THEN Value(V, R, H)
            ELSE Eval(Head(F.nodes), F.env, Push([F EXCEPT !.nodes = Tail(@)], R), H))

ApplyFnArgBind ==
  /\ Applies("FnArgBind")
  /\ Become(StartBinding(F.fn.fn.params[F.index], V, CallEnv(F.fn, F.own, F.outer),
                         Push([F EXCEPT !.frame = "FnArgSlotComplete"], R), H))

ApplyFnArgSlotComplete ==
  /\ Applies("FnArgSlotComplete")
  /\ Become(BindArg(F.fn, F.args, F.index + 1, F.own, F.outer, R, Merge(V, F.own, H)))

ApplyFnRestArgComplete ==
  /\ Applies("FnRestArgComplete")
  /\ Become(ProceedToBody(F.fn, F.own, F.outer, R, Merge(V, F.own, H)))

ApplyRecur ==
  /\ Applies("Recur")
  /\ LET next == [F EXCEPT !.nodes = Tail(@), !.args = Append(@, V)]
     IN Become(IF F.nodes = <<>> THEN Recur(Append(F.args, V), R, H)
               ELSE Eval(Head(F.nodes), F.env, Push(next, R), H))

ApplyLoopBind ==
  /\ Applies("LoopBind")
  /\ Become(StartBinding(F.loop.bindings[F.index].target, V, Create(F.env, F.own),
                         Push([F EXCEPT !.frame = "LoopBindComplete"], R), H))

ApplyLoopBindComplete ==
  /\ Applies("LoopBindComplete")
  /\ LET h == Merge(V, F.own, H)
         env == Create(F.env, F.own)
         next == F.index + 1
     IN Become(IF next > Len(F.loop.bindings)
               THEN Eval(F.loop.body, env, Push(LoopIterate(F.loop, F.own, env), R), h)
               ELSE Eval(F.loop.bindings[next].value, env, Push(LoopBind(F.loop, next, F.own, F.env), R), h))

ApplyLoopIterate == Applies("LoopIterate") /\ Become(Value(V, R, H))

ApplyRecurLoopRebind ==
  /\ Applies("RecurLoopRebind")
  /\ Become(RebindLoop(F.loop, F.index + 1, F.args, F.own, F.env, R, Merge(V, F.own, H)))

\* An empty collection ends the whole loop, at any level.
ApplyForCollection ==
  /\ Applies("ForLoop") /\ F.phase = "evalCollection"
  /\ LET state == [coll |-> V.a, index |-> 1]
         loop == [F.loop EXCEPT !.states = Append(SubSeq(@, 1, F.loop.level - 1), state)]
     IN Become(IF ~IsCollection(V) THEN Error("type", H)
               ELSE IF V.a = <<>> THEN Value(Array(F.loop.result), R, H)
               ELSE BindElement(loop, F.own, F.env, R, H))

ApplyForWhen ==
  /\ Applies("ForLoop") /\ F.phase = "evalWhen"
  /\ Become(IF Truthy(V) THEN ForWhile(F.loop, F.own, F.env, R, H)
                         ELSE NextElement(F.loop, F.own, F.env, R, H))

\* A while guard that fails skips the rest of its level.
ApplyForWhile ==
  /\ Applies("ForLoop") /\ F.phase = "evalWhile"
  /\ LET state == F.loop.states[F.loop.level]
         skipped == [F.loop EXCEPT !.states[F.loop.level].index = Len(state.coll)]
     IN Become(IF Truthy(V) THEN ForNextLevel(F.loop, F.own, F.env, R, H)
                            ELSE NextElement(skipped, F.own, F.env, R, H))

ApplyForBody ==
  /\ Applies("ForLoop") /\ F.phase = "evalBody"
  /\ Become(NextElement([F.loop EXCEPT !.result = Append(@, V)], F.own, F.env, R, H))

ApplyForElementBindComplete ==
  /\ Applies("ForElementBindComplete")
  /\ Become(ForLets(ForBinding(F.loop).lets, F, F.env, R, Merge(V, F.own, H)))

ApplyForLetBind ==
  /\ Applies("ForLetBind")
  /\ Become(IF F.phase = "evalValue"
            THEN StartBinding(Head(F.lets).target, V, F.env,
                              Push([F EXCEPT !.phase = "destructure"], R), H)
            ELSE ForLets(Tail(F.lets), F, F.env, R, Merge(V, F.own, H)))

-----------------------------------------------------------------------------
(* Effects.                                                                *)

\* applyPerformArgs: with its last argument the effect is performed, and the
\* continuation captured (by the clause's resume, or in the host's snapshot).
ApplyPerformArgs ==
  /\ Applies("PerformArgs") /\ F.nodes # <<>>
  /\ Become(Eval(Head(F.nodes), F.env, Push([F EXCEPT !.nodes = Tail(@)], R), H))

PerformEffect ==
  /\ Applies("PerformArgs") /\ F.nodes = <<>>
  /\ machine' = Perform(R, H)
  /\ captured' = Append(captured, [k |-> R, heap |-> H, path |-> path, resumes |-> 0])
  /\ UNCHANGED <<program, path>>

Done == machine.type = "Value" /\ K = <<>>
Resumes == FoldLeft(LAMBDA n, c : n + c.resumes, 0, captured)

Go(i, v, step) ==
  /\ Resumes < MaxResumes
  /\ machine' = step
  /\ path' = Append(captured[i].path, v)
  /\ captured' = [captured EXCEPT ![i].resumes = @ + 1]
  /\ UNCHANGED program

\* The envs of a frame; only env itself is found by freshenContinuationEnvs.
EnvFields == {"env", "loopEnv", "matchEnv", "outer"}
HasEnv(frame) == "env" \in DOMAIN frame

\* Mutant: the forks share their contexts.
FreshenContinuationEnvs_shared(k, h) == [k |-> k, heap |-> h]

\* Every env that frames have as env gets a copy of its innermost context.
FreshenContinuationEnvs(k, h) ==
  LET FirstWith(env) == SelectInSeq(k, LAMBDA frame : HasEnv(frame) /\ frame.env = env)
      Fresh(env) == Create(Tail(env), Len(h) + FirstWith(env))
  IN [k |-> [i \in DOMAIN k |-> IF HasEnv(k[i]) THEN [k[i] EXCEPT !.env = Fresh(@)] ELSE k[i]],
      heap |-> h \o [i \in DOMAIN k |-> IF HasEnv(k[i]) THEN h[Head(k[i].env)] ELSE NoBindings]]

\* The clause calls resume; it may call it again, after its fork ended or
\* from a clause that the fork entered.
Resume(i, v) ==
  /\ program.by = "clause"
  /\ Done \/ machine.type = "Perform"
  /\ captured[i].resumes < program.shots
  /\ LET fresh == FreshenContinuationEnvs(captured[i].k, H)
     IN Go(i, v, Value(v, fresh.k, fresh.heap))

\* A host handler answers the effect just performed.
Answer(v) ==
  /\ program.by = "host" /\ machine.type = "Perform"
  /\ Go(Len(captured), v, Value(v, K, H))

\* Mutant: the serializer follows envs only.
PrivateObjects_forgotten(k, h) == <<>>

\* What the frames keep to themselves, a place for every frame.
PrivateObjects(k, h) ==
  [i \in DOMAIN k |-> IF "own" \in DOMAIN k[i] THEN h[k[i].own] ELSE NoBindings]

\* Serialized and read back: an env is the same env everywhere, with copies
\* of its contexts to itself; a private object is a copy in every frame.
Deserialized(k, h) ==
  LET fields(frame) == SetToSeq(EnvFields \cap DOMAIN frame)
      envs == FlattenSeq([i \in DOMAIN k |-> [j \in DOMAIN fields(k[i]) |-> k[i][fields(k[i])[j]]]])
      width == Max({0} \cup {Len(envs[i]) : i \in DOMAIN envs})
      Copied(env) == [j \in DOMAIN env |-> Len(h) + width * (SelectInSeq(envs, LAMBDA e : e = env) - 1) + j]
      Contexts(env) == [j \in 1..width |-> IF j \in DOMAIN env THEN h[env[j]] ELSE NoBindings]
      owns == Len(h) + width * Len(envs)
      Frame(i) == [field \in DOMAIN k[i] |->
                     CASE field \in EnvFields -> Copied(k[i][field])
                       [] field = "own" -> owns + i
                       [] OTHER -> k[i][field]]
  IN [k |-> [i \in DOMAIN k |-> Frame(i)],
      heap |-> h \o FlattenSeq([i \in DOMAIN envs |-> Contexts(envs[i])])
                 \o PrivateObjects(k, h)]

\* A stored continuation is resumed, in the same or another process: as
\* often as one likes, also after the run failed.
Restore(i, v) ==
  /\ program.by = "host"
  /\ Done \/ machine.type \in {"Perform", "Error"}
  /\ captured[i].resumes < program.shots
  /\ LET read == Deserialized(captured[i].k, captured[i].heap)
     IN Go(i, v, Value(v, read.k, read.heap))

-----------------------------------------------------------------------------
(* buildInitialStep: the program's expressions, in an empty scope.         *)

Init ==
  /\ program \in Programs
  /\ machine = LET rest == Tail(program.body)
               IN Eval(Head(program.body), <<1>>,
                       IF rest = <<>> THEN <<>> ELSE <<Sequence(rest, <<1>>)>>, <<NoBindings>>)
  /\ path = <<>>
  /\ captured = <<>>

StepNode ==
  \/ StepLiteral \/ StepSymbol \/ StepIf \/ StepBlock \/ StepLet \/ StepArray \/ StepObject
  \/ StepChoice \/ StepFunction \/ StepCall \/ StepRecur \/ StepPerform \/ StepMatch
  \/ StepLoop \/ StepFor

ApplyFrame ==
  \/ ApplyIfBranch \/ ApplySequence \/ ApplyChoice \/ ApplyArrayBuild \/ ApplyObjectBuild
  \/ ApplyLetBind \/ ApplyLetBindComplete \/ ApplyBindingSlot \/ ApplyMatch \/ ApplyMatchSlot
  \/ ApplyFiniteCheck \/ ApplyEvalArgs \/ ApplyCallFn \/ ApplyFnBody \/ ApplyFnArgBind
  \/ ApplyFnArgSlotComplete \/ ApplyFnRestArgComplete \/ ApplyRecur \/ ApplyLoopBind
  \/ ApplyLoopBindComplete \/ ApplyLoopIterate \/ ApplyRecurLoopRebind \/ ApplyForCollection
  \/ ApplyForWhen \/ ApplyForWhile \/ ApplyForBody \/ ApplyForElementBindComplete
  \/ ApplyForLetBind \/ ApplyPerformArgs

Next ==
  \/ StepNode \/ ApplyFrame \/ PerformEffect
  \/ \E i \in DOMAIN captured, v \in Answers : Resume(i, v)
  \/ \E i \in DOMAIN captured, v \in Answers : Restore(i, v)
  \/ \E v \in Answers : Answer(v)

Spec == Init /\ [][Next]_vars

-----------------------------------------------------------------------------
(* Properties.                                                             *)

\* Type invariant: the steps are tick's, every address a frame holds is of a
\* live object, and a captured continuation knows the answers that led to it.
AddressesOf(frame) ==
  UNION {ToSet(frame[field]) : field \in EnvFields \cap DOMAIN frame}
    \cup (IF "own" \in DOMAIN frame THEN {frame.own} ELSE {})
Reach(k) == UNION {AddressesOf(k[i]) : i \in DOMAIN k}

TypeOK ==
  /\ program \in Programs
  /\ machine.type \in {"Eval", "Value", "Error", "Perform"}
  /\ machine.type # "Error" => Reach(K) \subseteq DOMAIN H
  /\ machine.type = "Eval" => ToSet(Env) \subseteq DOMAIN H
  /\ path \in Seq(Answers)
  /\ \A i \in DOMAIN captured :
       /\ Reach(captured[i].k) \subseteq DOMAIN captured[i].heap
       /\ captured[i].path \in Seq(Answers)
       /\ captured[i].resumes \in 0..MaxResumes

\* The evaluator computes what the program means: every fork of it, however
\* often its effects were resumed or its stored continuations restored, ends
\* in the value or the error that the answers on its own path give, and
\* performs an effect only when the program does.
OutcomeIsMeaning ==
  LET meaning == M!Outcome(program.body, path)
  IN /\ Done => meaning = [value |-> machine.value]
     /\ machine.type = "Error" => meaning = [error |-> machine.error]
     /\ machine.type = "Perform" => meaning = [open |-> TRUE]

==============================================================================
