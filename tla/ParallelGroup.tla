---------------------------- MODULE ParallelGroup ----------------------------
(***************************************************************************)
(* One parallel(...), race(...) or settled(...) expression of the Dvala    *)
(* runtime, from its first launch through every suspension, resume,        *)
(* retrigger, checkpoint replay and process restart until it delivers.     *)
(*                                                                         *)
(* A group runs its branches as independent trampolines on one JavaScript  *)
(* event loop.  A branch performs host effects; a host handler answers at  *)
(* once or later, by resume, fail, suspend or halt.  When every branch has *)
(* settled a collector builds the result, throws, or composes one          *)
(* suspension out of all the branches.  The host may then resume that      *)
(* snapshot: its primary branch continues alone, and the frame stored      *)
(* below it starts the remaining branches as a second wave.                *)
(*                                                                         *)
(* Source: packages/dvala-engine/src/evaluator/trampoline-evaluator.ts.    *)
(***************************************************************************)
EXTENDS Integers, FiniteSets

CONSTANTS
  N,           \* number of branches of the group
  Effects,     \* bound: suspension points of a branch's program before it returns
  Modes,       \* the collectors considered: "parallel", "race", "settled"
  GroupOps,    \* what host handlers (and throwing code) do to a branch of a wave
  ResumedOps,  \* the same for the primary branch while it continues alone
  Nested       \* TRUE: the group runs inside a branch of another group

Ops == {"resume", "fail", "suspend", "halt"}

ASSUME NAssumption == N \in Nat \ {0}
ASSUME EffectsAssumption == Effects \in Nat
ASSUME ModesAssumption == Modes \subseteq {"parallel", "race", "settled"}
ASSUME OpsAssumption == GroupOps \subseteq Ops /\ ResumedOps \subseteq Ops
ASSUME NestedAssumption == Nested \in BOOLEAN

Branch == 0 .. N - 1
NoBranch == -1

VARIABLES
  mode,          \* which of the three expressions this is; never changes
  phase,         \* "group" | "primary" | "suspended" | "ended"
  running,       \* the branch whose code the event loop is executing
  st,            \* status of every branch in the current wave
  pos,           \* suspension points of its program a branch has passed
  observed,      \* branches whose settlement the group's callback has seen
  aborted,       \* branches whose AbortSignal has fired
  parentAborted, \* the signal the group got from its surroundings has fired
  winner,        \* winnerIndex of a race
  resumed,       \* the group frame under the resumed branch; kind "first" if none
  snapshot,      \* the newest snapshot the host holds; kind "first" if none
  outcome        \* what the expression delivered

vars == <<mode, phase, running, st, pos, observed, aborted, parentAborted,
          winner, resumed, snapshot, outcome>>

-----------------------------------------------------------------------------
(* Data: branch values, group frames, outcomes.                            *)

Settled == {"completed", "error", "suspended", "halted"}
Status == Settled \cup {"idle", "queued", "ready", "atEffect", "waiting", "paused"}

Pos == 0 .. Effects

\* A collected branch result.  The value is told apart by how far the branch
\* had got when it was produced; "error" is settled's [:error, payload].
Value == [tag : {"ok", "error"}, pos : Pos]
Slots == UNION {[S -> Value] : S \in SUBSET Branch}
NoSlots == [b \in {} |-> [tag |-> "ok", pos |-> 0]]

\* A ResumeParallel frame (kind "resume"), a ReRunParallel frame ("rerun") or
\* no frame ("first"), with the continuations above it reduced to positions.
\* bare: the primary's own frames are missing above the group frame.
\* captured: the snapshot names the effect it stopped at.
Frame == [kind : {"first", "resume", "rerun"}, primary : Branch,
          kept : Slots, siblings : SUBSET Branch, pos : [Branch -> Pos],
          bare : BOOLEAN, captured : BOOLEAN]

Start == [b \in Branch |-> 0]
NoFrame == [kind |-> "first", primary |-> 0, kept |-> NoSlots, siblings |-> {},
            pos |-> Start, bare |-> FALSE, captured |-> FALSE]

Outcome == [type : {"none", "value", "error", "halted"}, slots : Slots]
NoOutcome == [type |-> "none", slots |-> NoSlots]

TypeOK ==
  /\ mode \in Modes
  /\ phase \in {"group", "primary", "suspended", "ended"}
  /\ running \in Branch \cup {NoBranch}
  /\ st \in [Branch -> Status]
  /\ pos \in [Branch -> Pos]
  /\ observed \subseteq Branch
  /\ aborted \subseteq Branch
  /\ parentAborted \in BOOLEAN
  /\ winner \in Branch \cup {NoBranch}
  /\ resumed \in Frame
  /\ snapshot \in Frame
  /\ outcome \in Outcome

-----------------------------------------------------------------------------
(* The wave of branches in flight.                                         *)

Members == {b \in Branch : st[b] # "idle"}
In(status) == {b \in Branch : st[b] = status}
Queued == In("queued")
Live == phase \in {"group", "primary"}

\* JavaScript runs to completion: a callback starts only when no branch is
\* executing and the synchronous branches.map has launched every branch.
Quiet == running = NoBranch /\ Queued = {}

OpsNow == IF phase = "group" THEN GroupOps ELSE ResumedOps

\* The continuation composed when a second wave suspends is the new frame on
\* the outer continuation alone: the primary's own frames are not put back.
Cut(b) == phase = "primary" /\ resumed.bare

\* The branches signalled from the outside when a wave starts: combineSignals
\* copies a signal that has already fired; race only listens for the event.
SignalledAtStart(m, fired) == IF fired /\ m # "race" THEN Branch ELSE {}

Init ==
  /\ mode \in Modes
  /\ phase = "group"
  /\ running = NoBranch
  /\ st = [b \in Branch |-> "queued"]
  /\ pos = Start
  /\ observed = {}
  /\ parentAborted \in (IF Nested THEN BOOLEAN ELSE {FALSE})
  /\ aborted = SignalledAtStart(mode, parentAborted)
  /\ winner = NoBranch
  /\ resumed = NoFrame
  /\ snapshot = NoFrame
  /\ outcome = NoOutcome

-----------------------------------------------------------------------------
(* One branch.  These actions serve the members of a wave and the primary  *)
(* branch alike: both are trampolines, with different signals.             *)

GroupVars == <<mode, phase, observed, aborted, parentAborted, winner, resumed,
               snapshot, outcome>>

Become(b, status, at, next) ==
  /\ st' = [st EXCEPT ![b] = status]
  /\ pos' = [pos EXCEPT ![b] = at]
  /\ running' = next
  /\ UNCHANGED GroupVars

Settle(b, status) == Become(b, status, pos[b], NoBranch)

\* branches.map reaches the next branch: a fresh branch starts executing, a
\* stored sibling has the effect it stopped at dispatched again.
LaunchStatus == IF resumed.kind = "resume" THEN "atEffect" ELSE "ready"
Launch(b) ==
  /\ phase = "group"
  /\ running = NoBranch
  /\ b \in Queued /\ \A c \in Queued : b <= c
  /\ Become(b, LaunchStatus, pos[b], b)

\* b is executing and performs an effect that reaches the host handlers.
Performing(b) ==
  /\ Live
  /\ running = b
  /\ \/ st[b] = "atEffect"
     \/ st[b] = "ready" /\ ~Cut(b)
  /\ pos[b] < Effects

\* dispatchHostHandler finds the signal aborted before calling any handler.
AutoSuspend(b) ==
  /\ Performing(b)
  /\ b \in aborted
  /\ Settle(b, "suspended")

\* The handler's answer reaches the branch.  retriggerWithEffects awaits the
\* first step, so after a synchronous resume the branch continues one microtask
\* later; otherwise it goes on at once.
Answer(b, op) ==
  /\ op \in OpsNow
  /\ \/ op = "resume" /\ st[b] # "atEffect" /\ Become(b, "ready", pos[b] + 1, b)
     \/ op = "resume" /\ st[b] = "atEffect" /\ Become(b, "paused", pos[b] + 1, NoBranch)
     \/ op = "fail" /\ Settle(b, "error")
     \/ op = "suspend" /\ Settle(b, "suspended")
     \/ op = "halt" /\ Settle(b, "halted")

HandlerAnswersNow(b, op) ==
  /\ Performing(b)
  /\ b \notin aborted
  /\ Answer(b, op)

HandlerDefers(b) ==
  /\ Performing(b)
  /\ b \notin aborted
  /\ Become(b, "waiting", pos[b], NoBranch)

HandlerAnswersLater(b, op) ==
  /\ Live
  /\ Quiet
  /\ st[b] = "waiting"
  /\ Answer(b, op)

\* A standard effect that awaits (sleep, fetch) or the trampoline's periodic
\* yield: no signal is consulted.
AfterPauseTwice(b) == pos[b] + 2 \* mutant: a wait counted twice
AfterPauseNever(b) == pos[b]     \* mutant: the wait is started over
AfterPause(b) == pos[b] + 1
Pause(b) ==
  /\ Live
  /\ running = b /\ st[b] = "ready" /\ ~Cut(b)
  /\ pos[b] < Effects
  /\ Become(b, "paused", AfterPause(b), NoBranch)

Wake(b) ==
  /\ Live
  /\ Quiet
  /\ st[b] = "paused"
  /\ Become(b, "ready", pos[b], b)

\* The branch's value reaches the barrier (or, cut, the host's value does).
Return(b) ==
  /\ Live
  /\ running = b /\ st[b] = "ready"
  /\ pos[b] = Effects \/ Cut(b)
  /\ Settle(b, "completed")

\* An error no handler inside the branch catches; the search for dvala.error
\* handlers stops at the barrier.
Throw(b) ==
  /\ Live
  /\ running = b /\ st[b] = "ready" /\ ~Cut(b)
  /\ "fail" \in OpsNow
  /\ Settle(b, "error")

-----------------------------------------------------------------------------
(* The group's callbacks.                                                  *)

BranchVars == <<st, pos, running>>

\* The continuation of `await runBranch(...)`.  In a parallel or settled group,
\* and in the second wave of every mode, a suspension aborts the group; in the
\* first wave of a race the first completion wins and aborts the others.
FirstRace == mode = "race" /\ resumed.kind = "first"
SuspensionIgnored(b) == FALSE                \* mutant: the group is not aborted
SuspensionAborts(b) == ~FirstRace /\ st[b] = "suspended"
LastWins(b) == FirstRace /\ st[b] = "completed" \* mutant: no test of winnerIndex
Wins(b) == FirstRace /\ st[b] = "completed" /\ winner = NoBranch

Observe(b) ==
  /\ phase = "group"
  /\ Quiet
  /\ st[b] \in Settled /\ b \notin observed
  /\ observed' = observed \cup {b}
  /\ winner' = IF Wins(b) THEN b ELSE winner
  /\ aborted' = IF Wins(b) THEN aborted \cup (Branch \ {b})
                ELSE IF SuspensionAborts(b) THEN Branch ELSE aborted
  /\ UNCHANGED <<mode, phase, parentAborted, resumed, snapshot, outcome>>
  /\ UNCHANGED BranchVars

\* The surrounding group aborts the branch this group runs in.
ParentAborts ==
  /\ Nested /\ ~parentAborted
  /\ Live
  /\ Quiet
  /\ parentAborted' = TRUE
  /\ aborted' = Branch
  /\ UNCHANGED <<mode, phase, observed, winner, resumed, snapshot, outcome>>
  /\ UNCHANGED BranchVars

-----------------------------------------------------------------------------
(* The collectors, when Promise.allSettled has every member.               *)

CachedOnly == resumed.kept   \* mutant: the resumed branch is not added
\* The branches the frame has a value for once its primary has returned.
Cached ==
  IF resumed.kind = "first" THEN NoSlots
  ELSE [b \in DOMAIN resumed.kept \cup {resumed.primary} |->
         IF b = resumed.primary THEN [tag |-> "ok", pos |-> pos[b]]
                                ELSE resumed.kept[b]]

YieldsValue(b) == st[b] = "completed"   \* mutant: settled does not wrap errors
\* Members that yield a slot: settled wraps an error, the others do not.
Yields(b) == st[b] = "completed" \/ (mode = "settled" /\ st[b] = "error")
Done == {b \in Branch : Yields(b)}
Collected ==
  [b \in DOMAIN Cached \cup Done |->
     IF b \in Done THEN [tag |-> IF st[b] = "error" THEN "error" ELSE "ok",
                         pos |-> pos[b]]
                   ELSE Cached[b]]

AllObserved == phase = "group" /\ Quiet /\ observed = Members

DecidedByWinner == winner # NoBranch   \* mutant: a resumed branch decides nothing
\* A race is decided by a winner of the first wave, or by the resumed branch.
Decided == winner # NoBranch \/ DOMAIN Cached # {}
Suspended == In("suspended")
SuspensionFirst ==   \* mutant: a suspension hides the error of another branch
  /\ Suspended = {}
  /\ mode = "parallel" => In("error") # {}
  /\ mode = "race" => ~Decided
  /\ mode # "settled"
Throws ==
  \/ mode = "parallel" /\ In("error") # {}
  \/ mode = "race" /\ ~Decided /\ Suspended = {}
Suspends == ~Throws /\ Suspended # {} /\ (mode = "race" => ~Decided)

Deliver(type, slots) ==
  /\ phase' = "ended"
  /\ running' = NoBranch
  /\ outcome' = [type |-> type, slots |-> slots]
  /\ UNCHANGED <<mode, st, pos, observed, aborted, parentAborted, winner,
                 resumed, snapshot>>

CollectError == AllObserved /\ Throws /\ Deliver("error", NoSlots)

\* The suspended branch of lowest index becomes the primary, the other
\* suspended ones its siblings.
SuspendedFrame(p) ==
  [kind |-> "resume", primary |-> p, kept |-> Collected,
   siblings |-> Suspended \ {p},
   pos |-> [b \in Branch |-> IF b \in Suspended THEN pos[b] ELSE 0],
   bare |-> resumed.kind # "first", captured |-> TRUE]

CollectSuspension ==
  /\ AllObserved /\ Suspends
  /\ \E p \in Suspended :
       /\ \A b \in Suspended : p <= b
       /\ snapshot' = SuspendedFrame(p)
  /\ phase' = "suspended"
  /\ UNCHANGED <<mode, observed, aborted, parentAborted, winner, resumed, outcome>>
  /\ UNCHANGED BranchVars

\* race: the winner's value, or completed[0], which is the resumed branch.
RaceBranch == IF winner # NoBranch THEN winner ELSE resumed.primary
Result == IF mode = "race"
          THEN [b \in {RaceBranch} |-> Collected[b]]
          ELSE Collected

CollectValue == AllObserved /\ ~Throws /\ ~Suspends /\ Deliver("value", Result)

-----------------------------------------------------------------------------
(* The host resumes a snapshot; its primary continues alone.               *)

ResumeFrameAlone(b) ==   \* mutant: composed as a ResumeParallel frame
  [kind |-> "resume", primary |-> b, kept |-> NoSlots, siblings |-> {},
   pos |-> [Start EXCEPT ![b] = pos[b]], bare |-> FALSE, captured |-> FALSE]
\* The continuation captured at an effect of b while it runs in a wave: the
\* barrier becomes a ReRunParallel frame that knows nothing of the siblings.
ReRunFrame(b) ==
  [kind |-> "rerun", primary |-> b, kept |-> NoSlots, siblings |-> {},
   pos |-> [Start EXCEPT ![b] = pos[b]], bare |-> FALSE, captured |-> FALSE]

\* The frame under a primary that continues alone stays what it is.
PrimaryFrame(captured) ==
  [resumed EXCEPT !.pos[resumed.primary] = pos[resumed.primary],
                  !.captured = captured]

\* ctx.checkpoint, or the automatic checkpoint of ctx.resume, for an effect
\* whose handler is in flight; the host keeps the newest snapshot.
Checkpoint(b) ==
  /\ Live
  /\ Quiet
  /\ st[b] = "waiting"
  /\ snapshot' = IF phase = "group" THEN ReRunFrame(b) ELSE PrimaryFrame(FALSE)
  /\ UNCHANGED <<mode, phase, observed, aborted, parentAborted, winner, resumed,
                 outcome>>
  /\ UNCHANGED BranchVars

\* A new run of the snapshot's continuation, under a signal of its own.
Rerun(status, at, fired) ==
  /\ phase = "suspended"
  /\ phase' = "primary"
  /\ resumed' = snapshot
  /\ running' = snapshot.primary
  /\ st' = [b \in Branch |-> IF b = snapshot.primary THEN status ELSE "idle"]
  /\ pos' = [snapshot.pos EXCEPT ![snapshot.primary] = at]
  /\ observed' = {}
  /\ winner' = NoBranch
  /\ parentAborted' = fired
  /\ aborted' = IF fired THEN Branch ELSE {}
  /\ outcome' = NoOutcome
  /\ UNCHANGED <<mode, snapshot>>

\* resume(snapshot, value): the value is what the primary's effect returns.
Resume == Rerun("ready", snapshot.pos[snapshot.primary] + 1, FALSE)

\* retrigger(snapshot), or the surrounding group relaunching this branch: the
\* primary's effect is dispatched to the handlers again.
Retrigger ==
  /\ snapshot.captured
  /\ \E fired \in (IF Nested THEN BOOLEAN ELSE {FALSE}) :
       Rerun("atEffect", snapshot.pos[snapshot.primary], fired)

\* The host process dies; what is left is the snapshot it stored.
HostRestart ==
  /\ phase # "suspended" /\ snapshot.kind # "first"
  /\ phase' = "suspended"
  /\ running' = NoBranch
  /\ st' = [b \in Branch |-> "idle"]
  /\ observed' = {}
  /\ winner' = NoBranch
  /\ outcome' = NoOutcome
  /\ UNCHANGED <<mode, pos, aborted, parentAborted, resumed, snapshot>>

PrimaryHas(status) ==
  /\ phase = "primary"
  /\ st[resumed.primary] = status

AllOthers == Branch \ {resumed.primary}   \* mutant: cached branches run again
\* The primary's value reaches the group frame, which starts the second wave:
\* the stored siblings, or every other branch from the beginning.
SecondWave == IF resumed.kind = "resume" THEN resumed.siblings
                                         ELSE Branch \ {resumed.primary}
PrimaryReturns ==
  /\ PrimaryHas("completed")
  /\ phase' = "group"
  /\ st' = [b \in Branch |-> IF b \in SecondWave THEN "queued" ELSE "idle"]
  /\ pos' = [resumed.pos EXCEPT ![resumed.primary] = pos[resumed.primary]]
  /\ aborted' = IF parentAborted THEN Branch ELSE {}
  /\ UNCHANGED <<mode, running, observed, parentAborted, winner, resumed,
                 snapshot, outcome>>

\* Nothing stands between the primary and the end of the run: its error is the
\* program's error, its halt the program's halt.
PrimaryThrows == PrimaryHas("error") /\ Deliver("error", NoSlots)
PrimaryHalts == PrimaryHas("halted") /\ Deliver("halted", NoSlots)

PrimarySuspends ==
  /\ PrimaryHas("suspended")
  /\ phase' = "suspended"
  /\ snapshot' = PrimaryFrame(TRUE)
  /\ UNCHANGED <<mode, observed, aborted, parentAborted, winner, resumed, outcome>>
  /\ UNCHANGED BranchVars

-----------------------------------------------------------------------------
\* A run without a snapshot to go back to is over for good.
Terminated == phase = "ended" /\ snapshot.kind = "first" /\ UNCHANGED vars

BranchStep(b) ==
  \/ Launch(b) \/ AutoSuspend(b) \/ HandlerDefers(b)
  \/ \E op \in Ops : HandlerAnswersNow(b, op) \/ HandlerAnswersLater(b, op)
  \/ Pause(b) \/ Wake(b) \/ Return(b) \/ Throw(b)
GroupStep ==
  \/ \E b \in Branch : Observe(b)
  \/ CollectError \/ CollectSuspension \/ CollectValue
PrimaryStep == PrimaryReturns \/ PrimaryThrows \/ PrimaryHalts \/ PrimarySuspends
HostStep ==
  \/ Resume \/ Retrigger \/ HostRestart \/ ParentAborts
  \/ \E b \in Branch : Checkpoint(b)

Progress == (\E b \in Branch : BranchStep(b)) \/ GroupStep \/ PrimaryStep
Next == Progress \/ HostStep \/ Terminated

Spec == Init /\ [][Next]_vars

\* The event loop runs what is runnable and host handlers answer eventually;
\* nothing is assumed of resumes, checkpoints, restarts or the parent.
FairSpec == Spec /\ WF_vars(Progress)

-----------------------------------------------------------------------------
(* Safety.                                                                 *)

Partition(f) ==
  f.kind = "resume" =>
    /\ f.primary \notin f.siblings
    /\ f.primary \notin DOMAIN f.kept
    /\ f.siblings \cap DOMAIN f.kept = {}
    /\ {f.primary} \cup f.siblings \cup DOMAIN f.kept = Branch

\* No branch is lost or counted twice by a suspension: in the frame a parallel
\* or settled group composes, every branch is exactly one of the primary, a
\* stored sibling and a cached value, in the first suspension and in those
\* composed again by executeResumeParallel and executeReRunParallel.
NoBranchLost == mode # "race" => Partition(snapshot) /\ Partition(resumed)

\* An array delivered by parallel or settled has a slot for every branch, however
\* many suspensions, replays and restarts the branches went through.
ResultIsComplete ==
  mode # "race" /\ outcome.type = "value" => DOMAIN outcome.slots = Branch

\* A value cached in the frame that was resumed arrives in the result unchanged:
\* the second wave neither runs that branch again nor overwrites its slot.
CachedValuesSurvive ==
  mode # "race" /\ outcome.type = "value" /\ resumed.kind = "resume" =>
    \A b \in DOMAIN resumed.kept : outcome.slots[b] = resumed.kept[b]

\* An error beats a suspension in parallel, whichever came first: a snapshot is
\* handed out only if no branch of the wave failed.
ErrorBeatsSuspension ==
  mode = "parallel" /\ phase = "suspended" => In("error") = {}

\* A race suspends only while it is undecided: no frame of a race caches a value
\* ("if one had, it would have won") and a race with a winner is not suspended.
RaceSuspendsUndecided ==
  mode = "race" =>
    /\ DOMAIN snapshot.kept = {} /\ DOMAIN resumed.kept = {}
    /\ phase = "suspended" => winner = NoBranch

\* Every value delivered is the branch's own: its program ran to its end, whatever
\* the number of times the branch was suspended and resumed on the way.
BranchesRunToTheirEnd ==
  outcome.type = "value" =>
    \A b \in DOMAIN outcome.slots :
      outcome.slots[b].tag = "ok" => outcome.slots[b].pos = Effects

\* After the group has seen one suspension no branch of the wave starts a host
\* handler any more: it suspends at its next host effect.
HandlerStarts(b) ==
  \/ st[b] # "waiting" /\ st'[b] = "waiting"
  \/ running = b /\ pos'[b] = pos[b] + 1 /\ st'[b] = "ready"
  \/ st[b] = "atEffect" /\ st'[b] = "paused"
NoHandlerAfterSuspension ==
  [][phase = "group" /\ ~FirstRace /\ (\E c \in observed : st[c] = "suspended") =>
       \A b \in Branch : ~HandlerStarts(b)]_vars

\* The winner of a race stands: later completions do not replace it, and what is
\* delivered is the winner's value.
WinnerStands ==
  [][winner # NoBranch /\ phase = "group" /\ phase' # "suspended" =>
       /\ winner' = winner
       /\ outcome'.type # "none" => DOMAIN outcome'.slots = {winner}]_vars

-----------------------------------------------------------------------------
(* The inductive invariant behind NoBranchLost and ResultIsComplete.       *)

\* A frame's continuations stand at an effect, its primary is no sibling, and a
\* ReRunParallel frame caches nothing.
FrameOK(f) ==
  f.kind # "first" =>
    /\ f.primary \notin f.siblings
    /\ f.kind = "rerun" => DOMAIN f.kept = {}
    /\ \A b \in {f.primary} \cup f.siblings : f.pos[b] < Effects

\* What a wave was launched with.
Wave == IF resumed.kind = "first" THEN Branch ELSE SecondWave
WaveOK ==
  phase = "group" =>
    /\ Members = Wave
    /\ \A b \in Branch : st[b] # "halted"
    /\ \A b \in observed : st[b] \in Settled
PrimaryOK ==
  phase = "primary" =>
    /\ resumed.kind # "first" /\ Members = {resumed.primary}
    /\ observed = {} /\ winner = NoBranch
SuspendedOK == phase = "suspended" => snapshot.kind # "first"

\* The winner of a first wave completed, and is the first seen to.
WinnerOK ==
  phase = "group" =>
    /\ winner # NoBranch => st[winner] = "completed"
    /\ FirstRace /\ winner = NoBranch => \A b \in observed : st[b] # "completed"

\* A branch that waits at an effect has that effect still to pass.
AtEffectOK ==
  \A b \in Branch :
    \/ st[b] \in {"atEffect", "waiting", "suspended"}
    \/ st[b] = "queued" /\ resumed.kind = "resume"
    => pos[b] < Effects

\* Inductive when no handler halts a branch of a wave ("halt" \notin GroupOps).
IInv ==
  /\ TypeOK
  /\ FrameOK(snapshot) /\ FrameOK(resumed)
  /\ NoBranchLost
  /\ WaveOK /\ PrimaryOK /\ SuspendedOK
  /\ WinnerOK /\ AtEffectOK
  /\ ResultIsComplete
  /\ RaceSuspendsUndecided

-----------------------------------------------------------------------------
(* Liveness.                                                               *)

\* A group whose branches terminate and whose handlers answer comes to an end or
\* to a suspension: the collectors wait for no branch in vain.
GroupSettles == Live ~> ~Live

-----------------------------------------------------------------------------
(* The group implements ConcurrentPrimitive.                               *)

FateOf(b) ==
  CASE st[b] = "completed" -> "ok"
    [] st[b] = "error" -> "failed"
    [] OTHER -> "open"

\* The fates a snapshot stands for.  A branch in no part of a ResumeParallel
\* frame is one whose error a race dropped.
FateIn(f, b) ==
  IF f.kind # "resume" \/ b = f.primary \/ b \in f.siblings THEN "open"
  ELSE IF b \in DOMAIN f.kept
       THEN IF f.kept[b].tag = "ok" THEN "ok" ELSE "failed"
       ELSE "failed"

\* resumed.primary has returned and the second wave is in flight or over.
PrimaryIsDone == resumed.kind # "first" /\ st[resumed.primary] = "idle"

AbsFate ==
  [b \in Branch |->
    IF phase = "suspended" THEN FateIn(snapshot, b)
    ELSE IF st[b] # "idle" THEN FateOf(b)
    ELSE IF PrimaryIsDone /\ b = resumed.primary THEN "ok"
    ELSE FateIn(resumed, b)]

Primitive == INSTANCE ConcurrentPrimitive WITH
  fate <- AbsFate,
  stored <- [b \in Branch |-> FateIn(snapshot, b)],
  result <- [type |-> outcome.type,
             tags |-> [b \in DOMAIN outcome.slots |-> outcome.slots[b].tag]]

\* Every behaviour of the group is one the primitive promises.
ImplementsPrimitive == Primitive!Spec
=============================================================================
