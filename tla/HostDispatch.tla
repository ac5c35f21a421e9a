---- MODULE HostDispatch ----
(***************************************************************************)
(* One effect handed to the host: dispatchHostHandler calls the matching   *)
(* handlers one after the other, each may answer through its ctx at once,  *)
(* later, never or too often, and what comes of it reaches the trampoline  *)
(* as a step, a signal or a thrown error (tick, runEffectLoop).            *)
(*                                                                         *)
(* A handler is arbitrary JavaScript: wherever it runs, any call of ctx,   *)
(* a return, a throw or an await may come next.                            *)
(***************************************************************************)
EXTENDS Integers

CONSTANTS
  N,               \* number of matching handlers
  Fallbacks,       \* what may lie behind the last handler
  MaxCheckpoints   \* bound: explicit checkpoints

ASSUME DispatchAssumption ==
  /\ N \in Nat \ {0} /\ MaxCheckpoints \in Nat
  /\ Fallbacks \subseteq {"standard", "null", "unhandled"}

VARIABLES
  handlers,    \* per handler: stage, settled, outcome, awaited, and late (history:
               \* its operation came when its function had ended)
  effect,      \* of the call: what lies behind the chain, autoCheckpoint, the abort signal
  inTick,      \* the dispatch still runs inside the trampoline's tick
  promise,     \* the promise given to resume(): "none", "pending", "settled"
  program,     \* what the dispatch has made of the program
  delivered,   \* how often the dispatch has reached the program
  auto,        \* automatic snapshots taken by resume()
  explicit     \* explicit checkpoints taken

vars == <<handlers, effect, inTick, promise, program, delivered, auto, explicit>>

Handler == 1 .. N

\* An outcome by the operation that set it.
Steps == {"value", "error"}
Signals == {"suspend", "halt", "resumeFrom"}
Outcomes == Steps \cup Signals \cup {"promise", "next"}
\* "thrown" by a plain function at once, "rejected" by an async one.
EndStages == {"returned", "thrown", "rejected"}
Stages == {"idle", "sync", "async"} \cup EndStages

Records == [stage : Stages, settled : BOOLEAN, outcome : Outcomes \cup {"none"},
            awaited : BOOLEAN, late : BOOLEAN]

\* The program performs, goes on with a value, gets an error that dvala.error handlers
\* see, leaves by a signal, or ends with an error they do not see.
Fates == {"performs", "continues", "raises", "leaves", "fails"}

Uncalled ==
  [stage |-> "idle", settled |-> FALSE, outcome |-> "none", awaited |-> FALSE, late |-> FALSE]

Init ==
  /\ handlers = [h \in Handler |-> Uncalled]
  /\ effect \in [fallback : Fallbacks, autoCheckpoint : BOOLEAN, aborted : BOOLEAN]
  /\ inTick = TRUE
  /\ promise = "none" /\ program = "performs" /\ delivered = 0
  /\ auto = 0 /\ explicit = 0

Deliver(fate) == program' = fate /\ delivered' = delivered + 1

NotDelivered == UNCHANGED <<program, delivered>>

\* tick routes a DvalaError through dvala.error; what an awaited step rejects with
\* goes past it, to the end of runEffectLoop.
ThrowDvalaError(tick) == Deliver(IF tick THEN "raises" ELSE "fails")

Call(hs, h) == [hs EXCEPT ![h].stage = "sync"]

\* Behind the last handler: the standard handler, null for a checkpoint, or nothing.
FallThrough(tick) ==
  \/ effect.fallback \in {"standard", "null"} /\ Deliver("continues")
  \/ effect.fallback \in {"standard", "unhandled"} /\ ThrowDvalaError(tick)

\* Mutant: after next() the same answer is delivered too.
resolveOutcome_twice(hs, h, tick) ==
  LET o == hs[h].outcome
  IN \/ o = "value" /\ Deliver("continues") /\ handlers' = hs /\ UNCHANGED promise
     \/ o = "error" /\ Deliver("raises") /\ handlers' = hs /\ UNCHANGED promise
     \/ o \in Signals /\ Deliver("leaves") /\ handlers' = hs /\ UNCHANGED promise
     \/ o = "promise" /\ handlers' = hs /\ promise' = "pending" /\ NotDelivered
     \/ o = "next" /\ h < N /\ handlers' = Call(hs, h + 1) /\ Deliver("continues") /\ UNCHANGED promise
     \/ o = "next" /\ h = N /\ handlers' = hs /\ FallThrough(tick) /\ UNCHANGED promise

resolveOutcome(hs, h, tick) ==
  LET o == hs[h].outcome
  IN \/ o = "value" /\ Deliver("continues") /\ handlers' = hs /\ UNCHANGED promise
     \/ o = "error" /\ Deliver("raises") /\ handlers' = hs /\ UNCHANGED promise
     \/ o \in Signals /\ Deliver("leaves") /\ handlers' = hs /\ UNCHANGED promise
     \/ o = "promise" /\ handlers' = hs /\ promise' = "pending" /\ NotDelivered
     \/ o = "next" /\ h < N /\ handlers' = Call(hs, h + 1) /\ NotDelivered /\ UNCHANGED promise
     \/ o = "next" /\ h = N /\ handlers' = hs /\ FallThrough(tick) /\ UNCHANGED promise

\* Mutant: a handler that ends without an answer leaves the dispatch open.
Conclude_ifAnswered(hs, h, tick) ==
  \/ hs[h].outcome = "none" /\ NotDelivered /\ handlers' = hs /\ UNCHANGED promise
  \/ hs[h].outcome # "none" /\ resolveOutcome(hs, h, tick)

Conclude(hs, h, tick) ==
  \/ hs[h].outcome = "none" /\ ThrowDvalaError(tick) /\ handlers' = hs /\ UNCHANGED promise
  \/ hs[h].outcome # "none" /\ resolveOutcome(hs, h, tick)

Quiet == \A h \in Handler : handlers[h].stage # "sync"

\* Handler h executes: called just now, or, while no other one does, after an await or in
\* a callback it has left behind, which may outlive its function.
Running(h) == handlers[h].stage = "sync" \/ (handlers[h].stage # "idle" /\ Quiet)

Ended(h) == handlers[h].stage \in EndStages

To(h, stage) == [handlers EXCEPT ![h].stage = stage]

Dispatch ==
  /\ program = "performs" /\ handlers[1].stage = "idle"
  /\ IF effect.aborted THEN Deliver("leaves") /\ UNCHANGED handlers
                       ELSE handlers' = Call(handlers, 1) /\ NotDelivered
  /\ UNCHANGED <<effect, inTick, promise, auto, explicit>>

Snapshots(o) == IF o \in {"value", "promise"} /\ effect.autoCheckpoint THEN auto + 1 ELSE auto

\* Mutant: the outcome is set before the operation is validated.
Operate_unvalidated(h, o, accepted) ==
  /\ Running(h) /\ ~handlers[h].settled
  /\ handlers' = [handlers EXCEPT ![h].settled = TRUE, ![h].outcome = IF accepted THEN o ELSE "refused",
                                  ![h].late = Ended(h)]
  /\ auto' = Snapshots(o)
  /\ UNCHANGED <<effect, inTick, promise, program, delivered, explicit>>

\* Mutant: an operation is accepted however often one was before.
Operate_unguarded(h, o, accepted) ==
  /\ Running(h)
  /\ handlers' = [handlers EXCEPT ![h].settled = TRUE, ![h].outcome = IF accepted THEN o ELSE @,
                                  ![h].late = Ended(h)]
  /\ auto' = Snapshots(o)
  /\ UNCHANGED <<effect, inTick, promise, program, delivered, explicit>>

\* An operation of ctx.  One that is refused (an invalid value, a suspension with live
\* cleanups) has marked the call as settled, and resume() has taken its snapshot.  So does
\* one that comes too late: the outcome it sets is not looked at any more.
Operate(h, o, accepted) ==
  /\ Running(h) /\ ~handlers[h].settled
  /\ handlers' = [handlers EXCEPT ![h].settled = TRUE, ![h].outcome = IF accepted THEN o ELSE @,
                                  ![h].late = Ended(h)]
  /\ auto' = Snapshots(o)
  /\ UNCHANGED <<effect, inTick, promise, program, delivered, explicit>>

\* ctx.checkpoint does not ask whether the call is settled.
Checkpoint(h) ==
  /\ Running(h) /\ explicit < MaxCheckpoints
  /\ explicit' = explicit + 1
  /\ UNCHANGED <<handlers, effect, inTick, promise, program, delivered, auto>>

\* A handler that is not an async function returns.
Returns(h) ==
  /\ handlers[h].stage = "sync"
  /\ Conclude(To(h, "returned"), h, inTick)
  /\ UNCHANGED <<effect, inTick, auto, explicit>>

\* Mutant: what a handler answered before its promise is waited for is delivered twice.
Awaits_always(h) ==
  /\ handlers[h].stage = "sync"
  /\ LET hs == [To(h, "async") EXCEPT ![h].awaited = TRUE]
     IN IF handlers[h].outcome # "none"
        THEN resolveOutcome(hs, h, inTick) /\ UNCHANGED inTick
        ELSE handlers' = hs /\ inTick' = FALSE /\ UNCHANGED <<promise, program, delivered>>
  /\ UNCHANGED <<effect, auto, explicit>>

\* A handler returns a promise: its answer is used at once if it has given one.
Awaits(h) ==
  /\ handlers[h].stage = "sync"
  /\ IF handlers[h].outcome # "none"
     THEN resolveOutcome(To(h, "async"), h, inTick) /\ UNCHANGED inTick
     ELSE /\ handlers' = [To(h, "async") EXCEPT ![h].awaited = TRUE]
          /\ inTick' = FALSE /\ UNCHANGED <<promise, program, delivered>>
  /\ UNCHANGED <<effect, auto, explicit>>

\* A handler that is not an async function throws: its answer, if any, is lost.  What it
\* throws may be a signal: tick lets those pass.
Throws(h) ==
  /\ handlers[h].stage = "sync"
  /\ handlers' = To(h, "thrown")
  /\ ThrowDvalaError(inTick) \/ Deliver("fails") \/ Deliver("leaves")
  /\ UNCHANGED <<effect, inTick, promise, auto, explicit>>

Fulfils(h) ==
  /\ handlers[h].stage = "async" /\ Quiet
  /\ IF handlers[h].awaited
     THEN Conclude(To(h, "returned"), h, FALSE)
     ELSE handlers' = To(h, "returned") /\ UNCHANGED promise /\ NotDelivered
  /\ UNCHANGED <<effect, inTick, auto, explicit>>

\* Mutant: the rejection replaces the answer.
Rejects_always(h) ==
  /\ handlers[h].stage = "async" /\ Quiet
  /\ handlers' = To(h, "rejected") /\ UNCHANGED promise
  /\ IF handlers[h].awaited THEN Deliver("raises") ELSE NotDelivered
  /\ UNCHANGED <<effect, inTick, auto, explicit>>

\* An answer given before the rejection stands; without one a signal is thrown on, and
\* any other reason becomes an error step.
Rejects(h) ==
  /\ handlers[h].stage = "async" /\ Quiet
  /\ LET hs == To(h, "rejected")
     IN \/ ~handlers[h].awaited /\ handlers' = hs /\ UNCHANGED promise /\ NotDelivered
        \/ /\ handlers[h].awaited /\ handlers[h].outcome = "none"
           /\ handlers' = hs /\ UNCHANGED promise
           /\ Deliver("raises") \/ Deliver("leaves")
        \/ handlers[h].awaited /\ handlers[h].outcome # "none" /\ resolveOutcome(hs, h, FALSE)
  /\ UNCHANGED <<effect, inTick, auto, explicit>>

\* The promise given to resume() yields a value, or it rejects.
PromiseSettles ==
  /\ promise = "pending" /\ Quiet
  /\ promise' = "settled"
  /\ Deliver("continues") \/ Deliver("raises")
  /\ UNCHANGED <<handlers, effect, inTick, auto, explicit>>

\* The dispatch is over, and no handler executes any more.
Over ==
  /\ program # "performs" /\ \A h \in Handler : handlers[h].stage \notin {"sync", "async"}
  /\ UNCHANGED vars

Ends(h) == Returns(h) \/ Awaits(h) \/ Throws(h)
Settles(h) == Fulfils(h) \/ Rejects(h)

Next ==
  \/ Dispatch
  \/ \E h \in Handler : \/ \E o \in Outcomes, accepted \in BOOLEAN : Operate(h, o, accepted)
                        \/ Checkpoint(h) \/ Ends(h) \/ Settles(h)
  \/ PromiseSettles
  \/ Over

Spec == Init /\ [][Next]_vars

\* Every handler that is called ends, and every promise settles.
FairSpec ==
  /\ Spec
  /\ WF_vars(Dispatch) /\ WF_vars(PromiseSettles)
  /\ \A h \in Handler : WF_vars(Ends(h)) /\ WF_vars(Settles(h))

(***************************************************************************)
(* Properties                                                              *)
(***************************************************************************)
\* The shape of a dispatch.
TypeOK ==
  /\ handlers \in [Handler -> Records]
  /\ effect \in [fallback : Fallbacks, autoCheckpoint : BOOLEAN, aborted : BOOLEAN]
  /\ inTick \in BOOLEAN /\ promise \in {"none", "pending", "settled"}
  /\ program \in Fates /\ delivered \in Nat /\ auto \in Nat /\ explicit \in 0 .. MaxCheckpoints

\* The continuation of the effect is used at most once, however often, late and from
\* wherever the handlers answer, end and fail (dispatchHostHandler: settled, outcome,
\* and the early returns that keep a handler's promise from being used).
DeliveredOnce == delivered = IF program = "performs" THEN 0 ELSE 1

\* What handler h has answered by the end of its function.
Answer(h) == IF handlers[h].late THEN "none" ELSE handlers[h].outcome

\* All handlers before h have passed the effect on.
PassedOn(h) == \A g \in Handler : g < h => Answer(g) = "next"

\* h has the last word: it was called and has not passed the effect on.
Decides(h) == PassedOn(h) /\ handlers[h].stage # "idle" /\ Answer(h) # "next"

\* What the program may get for an answer; without one it never goes on.
Meant(answer) ==
  CASE answer = "value" -> {"continues"}
    [] answer = "error" -> {"raises"}
    [] answer \in Signals -> {"leaves"}
    [] answer = "promise" -> {"continues", "raises"}
    [] OTHER -> {"raises", "leaves", "fails"}

\* What the program gets is the first answer of the handler that decided, also when it
\* broke down later or a handler before it is still executing; only a plain function's
\* throw takes the place of an answer.  One that comes after the handler's function has
\* ended changes nothing: the program has had its error.
FirstAnswerStands ==
  \A h \in Handler : Decides(h) /\ program # "performs" =>
    program \in Meant(IF handlers[h].stage = "thrown" THEN "none" ELSE Answer(h))

\* A handler is called only after all before it have passed the effect on, and no handler
\* has both a successor and an answer of its own (tryHandler).
ChainInOrder == \A h \in Handler : handlers[h].stage # "idle" => PassedOn(h)

\* At most one automatic snapshot is taken for an effect, by the handler that decided,
\* however late it resumes and whether or not its value is accepted.
OneAutoSnapshot ==
  /\ auto <= 1
  /\ auto = 1 => \E h \in Handler : handlers[h].settled /\ Decides(h)

\* Every dispatch comes to an end, also when handlers answer nothing or fail.
DispatchSettles == <>(program # "performs")
====
