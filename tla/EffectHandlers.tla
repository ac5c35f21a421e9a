--------------------------- MODULE EffectHandlers ---------------------------
(***************************************************************************)
(* Algebraic effect handlers of the Dvala evaluator and the resource       *)
(* cleanups that host handlers attach to them (ctx.onScopeExit).           *)
(*                                                                         *)
(* The machine is one trampoline.  Its continuation is a stack of frames;  *)
(* performing an effect moves the frames up to the nearest handler with a  *)
(* matching clause into a resume function and runs the clause outside that *)
(* handler; calling the resume function puts the frames back, copied, with *)
(* the handler around them again if it is deep.  Program code is arbitrary:*)
(* wherever code runs, any operation the runtime offers may come next.     *)
(*                                                                         *)
(* Source: packages/dvala-engine/src/evaluator/trampoline-evaluator.ts.    *)
(***************************************************************************)
EXTENDS Integers, SequencesExt

CONSTANTS
  Handlers,    \* handlers of the program: clauses, shallow or deep, transform or not
  HostOps,     \* what host handlers do: "register", "suspend", "halt", "fail"
  OneShot,     \* TRUE: the program calls every resume function at most once
  Escapes,     \* TRUE: a resume function may be called outside its own clause body
  MaxInstalls, \* bound: handlers installed
  MaxFrames,   \* bound: handler frames created, copies included
  MaxResumes,  \* bound: resume functions created
  MaxCleanups, \* bound: cleanups registered
  MaxDepth     \* bound: length of the continuation when code adds to it

Handler == [clauses : SUBSET {"effect", "error"}, shallow : BOOLEAN, transform : BOOLEAN]

ASSUME HandlersAssumption == Handlers \subseteq Handler
ASSUME HostOpsAssumption == HostOps \subseteq {"register", "suspend", "halt", "fail"}
ASSUME SwitchesAssumption == OneShot \in BOOLEAN /\ Escapes \in BOOLEAN
ASSUME BoundsAssumption ==
  /\ MaxInstalls \in Nat /\ MaxFrames \in Nat /\ MaxResumes \in Nat
  /\ MaxCleanups \in Nat /\ MaxDepth \in Nat

VARIABLES
  k,         \* the continuation, innermost frame first
  control,   \* "code": the code in front runs; "value": a value meets frame k[1];
             \* "error": an error step
  frames,    \* the AlgebraicHandleFrame objects created so far
  lists,     \* the cleanup arrays created so far, each a sequence of cleanups
  captured,  \* the resume functions created so far
  fired,     \* how often each registered cleanup has been called (2: or more)
  program,   \* the cleanups registered at program level
  installs,  \* handlers installed so far
  status     \* "running" or how the run ended

vars == <<k, control, frames, lists, captured, fired, program, installs, status>>

-----------------------------------------------------------------------------
(* Frames.  ref names a frame object (handle, cleanup) or a resume function *)
(* (clause); the frames of ordinary expressions are one "code" frame.       *)

Code == [kind |-> "code", ref |-> 0]
Transform == [kind |-> "transform", ref |-> 0]
Handle(o) == [kind |-> "handle", ref |-> o]
Clause(r) == [kind |-> "clause", ref |-> r]
Cleanup(o) == [kind |-> "cleanup", ref |-> o]

Kinds == {"code", "transform", "handle", "clause", "cleanup"}
Ref == 0 .. (MaxFrames + MaxResumes)
Continuation == Seq([kind : Kinds, ref : Ref])
CleanupId == 1 .. MaxCleanups

\* list is the array the frame object points to, 0 if none.  needs is a history
\* field: the cleanups whose resources the code under this frame may rely on.
FrameObject == [handler : Handlers, list : 0 .. MaxCleanups, fired : BOOLEAN,
                needs : SUBSET CleanupId]

TypeOK ==
  /\ k \in Continuation
  /\ control \in {"code", "value", "error"}
  /\ frames \in Seq(FrameObject) /\ Len(frames) <= MaxFrames
  /\ \A i \in DOMAIN k : k[i].kind = "handle" => k[i].ref \in DOMAIN frames
  /\ lists \in Seq(Seq(CleanupId)) /\ Len(lists) <= MaxCleanups
  /\ captured \in Seq([performK : Continuation, used : BOOLEAN])
  /\ Len(captured) <= MaxResumes
  /\ fired \in Seq(0 .. 2) /\ Len(fired) <= MaxCleanups
  /\ program \subseteq CleanupId
  /\ installs \in 0 .. MaxInstalls
  /\ status \in {"running", "completed", "error", "halted", "suspended"}

Elements(seq) == {seq[i] : i \in DOMAIN seq}
CleanupsOf(o) == IF frames[o].list = 0 THEN {} ELSE Elements(lists[frames[o].list])
HandlesIn(kk) == {i \in DOMAIN kk : kk[i].kind = "handle"}
Below(kk, i) == SubSeq(kk, i + 1, Len(kk))

Running == status = "running"
\* Code is running, with the rest of it in front of the continuation.
InCode == Running /\ control = "code"
\* A value meets a frame of this kind.
Meets(kind) == Running /\ control = "value" /\ k # <<>> /\ Head(k).kind = kind

Init ==
  /\ k = <<Code>>
  /\ control = "code"
  /\ frames = <<>> /\ lists = <<>> /\ captured = <<>> /\ fired = <<>>
  /\ program = {}
  /\ installs = 0
  /\ status = "running"

Heap == <<frames, lists, captured, fired, program, installs>>
Store == <<frames, lists, fired, program, installs>>

-----------------------------------------------------------------------------
(* Ends of the run.                                                        *)

Fire(cs) == [c \in DOMAIN fired |-> IF c \in cs /\ fired[c] < 2 THEN fired[c] + 1
                                                                ELSE fired[c]]

\* The program-level cleanups are drained on every terminal path.
End(how) ==
  /\ status' = how
  /\ fired' = Fire(program)
  /\ program' = {}
  /\ UNCHANGED <<k, control, frames, lists, captured, installs>>

\* A program-level cleanup that throws becomes the outcome; beside an error or a halt
\* it is only logged.
ProgramCompletes ==
  /\ Running /\ control = "value" /\ k = <<>>
  /\ \/ End("completed")
     \/ program # {} /\ "fail" \in HostOps /\ End("error")

-----------------------------------------------------------------------------
(* Effects.                                                                *)

Catchers(kk, effect) == {i \in HandlesIn(kk) : effect \in frames[kk[i].ref].handler.clauses}
First(positions) == CHOOSE i \in positions : \A j \in positions : i <= j

\* A frame that holds cleanups leaves a HandlerCleanup frame where it stood.
LeaveCleanup(o, rest) == IF CleanupsOf(o) = {} THEN rest ELSE <<Cleanup(o)>> \o rest

\* The effect is caught at position i of kk: the frames down to the handler become
\* a resume function, the clause runs on what is below the handler.
NoCleanupLeft(o, rest) == rest   \* mutant: the clause path schedules no cleanups
ClauseContinuation(o, rest) == LeaveCleanup(o, rest)
Dispatch(kk, i) ==
  /\ Len(captured) < MaxResumes
  /\ captured' = Append(captured, [performK |-> SubSeq(kk, 1, i), used |-> FALSE])
  /\ k' = <<Code, Clause(Len(captured) + 1)>> \o ClauseContinuation(kk[i].ref, Below(kk, i))
  /\ control' = "code"
  /\ UNCHANGED <<Store, status>>

Perform ==
  /\ InCode
  /\ Catchers(k, "effect") # {}
  /\ Dispatch(k, First(Catchers(k, "effect")))

\* A runtime error with continuation kk: the nearest dvala.error clause, or the
\* end of the program.
Raise(kk) ==
  \/ Catchers(kk, "error") # {} /\ Dispatch(kk, First(Catchers(kk, "error")))
  \/ Catchers(kk, "error") = {} /\ End("error")

\* Failing code, or a host handler's ctx.fail.
Throw == InCode /\ "fail" \in HostOps /\ Raise(k)

ErrorStep == Running /\ control = "error" /\ Raise(k)

-----------------------------------------------------------------------------
(* Handlers and resume functions.                                          *)

Object(h, list, needs) == [handler |-> h, list |-> list, fired |-> FALSE, needs |-> needs]

\* `with h` or h(-> body).
Install(h) ==
  /\ InCode
  /\ installs < MaxInstalls /\ Len(frames) < MaxFrames /\ Len(k) + 2 <= MaxDepth
  /\ frames' = Append(frames, Object(h, 0, {}))
  /\ k' = <<Code, Handle(Len(frames) + 1)>> \o k
  /\ installs' = installs + 1
  /\ UNCHANGED <<control, lists, captured, fired, program, status>>

AnyContinuation(r) == TRUE   \* mutant: discharged handlers are re-entered
ContinuationValid(r) ==
  \A i \in HandlesIn(captured[r].performK) : ~frames[captured[r].performK[i].ref].fired

\* Where a program may call resume function r: in its own clause body, or, once
\* it has been stored or returned, anywhere.
Callable(r) ==
  /\ OneShot => ~captured[r].used
  /\ Escapes \/ (Len(k) >= 2 /\ k[2] = Clause(r))

\* The frames between the perform and its handler, with a copy of every handler
\* frame among them: the copy shares the cleanup array, if there is one.
Inner(r) == SubSeq(captured[r].performK, 1, Len(captured[r].performK) - 1)
OwnHandler(r) == captured[r].performK[Len(captured[r].performK)].ref
InnerHandles(r) == SetToSeq(HandlesIn(Inner(r)))   \* their positions
CopyOf(r, i) == CHOOSE j \in DOMAIN InnerHandles(r) : InnerHandles(r)[j] = i
Copied(r) == [j \in DOMAIN InnerHandles(r) |-> frames[Inner(r)[InnerHandles(r)[j]].ref]]
Renewed(r) ==
  [i \in DOMAIN Inner(r) |-> IF i \in HandlesIn(Inner(r))
                             THEN Handle(Len(frames) + CopyOf(r, i)) ELSE Inner(r)[i]]

\* A deep handler is installed again around the frames, as a new frame object
\* that holds no cleanups.
SameCleanups(o) ==   \* mutant: the new frame takes the cleanups along
  Object(frames[o].handler, frames[o].list, frames[o].needs \cup CleanupsOf(o))
NewHandler(o) == Object(frames[o].handler, 0, frames[o].needs \cup CleanupsOf(o))
Reinstalled(o) == IF frames[o].handler.shallow THEN <<>> ELSE <<NewHandler(o)>>
AroundNext(r) == <<Handle(Len(frames) + Len(InnerHandles(r)) + 2)>> \* mutant: off by one
Around(r) ==
  IF frames[OwnHandler(r)].handler.shallow THEN <<>>
  ELSE <<Handle(Len(frames) + Len(InnerHandles(r)) + 1)>>

CallResume(r) ==
  /\ InCode /\ Callable(r)
  /\ ContinuationValid(r)
  /\ Len(k) + Len(captured[r].performK) <= MaxDepth
  /\ Len(frames) + Len(InnerHandles(r)) + 1 <= MaxFrames
  /\ frames' = frames \o Copied(r) \o Reinstalled(OwnHandler(r))
  /\ k' = Renewed(r) \o Around(r) \o k
  /\ control' = "value"
  /\ captured' = [captured EXCEPT ![r].used = TRUE]
  /\ UNCHANGED <<lists, fired, program, installs, status>>

RefuseResume(r) ==
  /\ InCode /\ Callable(r)
  /\ ~ContinuationValid(r)
  /\ Raise(k)

-----------------------------------------------------------------------------
(* Values meet frames.                                                     *)

\* The code in front ends; its value meets the next frame.
Return ==
  /\ InCode
  /\ k' = Tail(k)
  /\ control' = "value"
  /\ UNCHANGED <<Heap, status>>

CodeContinues ==
  /\ Meets("code")
  /\ control' = "code"
  /\ UNCHANGED <<k, Heap, status>>

\* The body completed: transform clause first, then the cleanups.
HandleCompletes ==
  /\ Meets("handle")
  /\ LET o == Head(k).ref
         rest == LeaveCleanup(o, Tail(k))
     IN IF frames[o].handler.transform
        THEN k' = <<Code, Transform>> \o rest /\ control' = "code"
        ELSE k' = rest /\ UNCHANGED control
  /\ UNCHANGED <<Heap, status>>

TransformCompletes ==
  /\ Meets("transform")
  /\ k' = Tail(k)
  /\ UNCHANGED <<control, Heap, status>>

\* The clause's value skips the nearest handler frame still on the continuation
\* and everything above it.
ClauseCompletes ==
  /\ Meets("clause")
  /\ LET rest == Tail(k)
     IN k' = IF HandlesIn(rest) = {} THEN rest ELSE Below(rest, First(HandlesIn(rest)))
  /\ UNCHANGED <<control, Heap, status>>

\* The callbacks run and the frame object is marked; a callback may throw.
MarkFired(o) == [frames EXCEPT ![o].fired = TRUE]
CleanupFires ==
  /\ Meets("cleanup")
  /\ frames' = MarkFired(Head(k).ref)
  /\ fired' = Fire(CleanupsOf(Head(k).ref))
  /\ k' = Tail(k)
  /\ \/ control' = "value"
     \/ control' = "error" /\ "fail" \in HostOps /\ Len(captured) < MaxResumes
  /\ UNCHANGED <<lists, captured, program, installs, status>>

-----------------------------------------------------------------------------
(* Host effects: no handler on the continuation has a clause for them.     *)

\* ctx.onScopeExit, then ctx.resume: the nearest handler frame takes the cleanup.
RegisterCleanup ==
  /\ InCode
  /\ "register" \in HostOps /\ Len(fired) < MaxCleanups
  /\ LET c == Len(fired) + 1
     IN IF HandlesIn(k) = {}
        THEN program' = program \cup {c} /\ UNCHANGED <<frames, lists>>
        ELSE LET o == k[First(HandlesIn(k))].ref
             IN /\ IF frames[o].list = 0
                   THEN /\ lists' = Append(lists, <<c>>)
                        /\ frames' = [frames EXCEPT ![o].list = Len(lists) + 1]
                   ELSE /\ lists' = [lists EXCEPT ![frames[o].list] = Append(@, c)]
                        /\ UNCHANGED frames
                /\ UNCHANGED program
  /\ fired' = Append(fired, 0)
  /\ UNCHANGED <<k, control, captured, installs, status>>

NoLiveCleanups == program = {} /\ \A i \in HandlesIn(k) : CleanupsOf(k[i].ref) = {}

Suspend ==
  /\ InCode
  /\ "suspend" \in HostOps
  /\ \/ NoLiveCleanups /\ status' = "suspended" /\ UNCHANGED <<k, control, Heap>>
     \/ ~NoLiveCleanups /\ Raise(k)

Halt == InCode /\ "halt" \in HostOps /\ End("halted")

Terminated == ~Running /\ UNCHANGED vars

Next ==
  \/ Perform \/ Throw \/ ErrorStep \/ Return \/ RegisterCleanup \/ Suspend \/ Halt
  \/ \E h \in Handlers : Install(h)
  \/ \E r \in DOMAIN captured : CallResume(r) \/ RefuseResume(r)
  \/ CodeContinues \/ HandleCompletes \/ TransformCompletes \/ ClauseCompletes
  \/ CleanupFires \/ ProgramCompletes
  \/ Terminated

Spec == Init /\ [][Next]_vars
-----------------------------------------------------------------------------
(* Safety.                                                                 *)

Registered == DOMAIN fired

\* Code never runs inside a scope one of whose resources has been released: no
\* cleanup that the code under a handler on the continuation may rely on has been
\* called, in any resume of any captured continuation.
NoUseAfterCleanup ==
  \A i \in HandlesIn(k) :
    \A c \in frames[k[i].ref].needs \cup CleanupsOf(k[i].ref) : fired[c] = 0

\* Every cleanup is called at most once, whatever continuations are resumed.
FiresAtMostOnce == \A c \in Registered : fired[c] <= 1

\* A program that completes has called every cleanup registered on the way, through
\* transforms, aborts and resumes.
CompletedRunsCleanUp == status = "completed" => \A c \in Registered : fired[c] > 0

=============================================================================
