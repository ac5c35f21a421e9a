# Formal models of Dvala

TLA+ modules, TLC runs and TLAPS proofs for [Dvala](../src/README.md): an expression
language with algebraic effects whose programs can be suspended, stored, and resumed
in another process. Everything here is translated from the source under `src/`; the
book and the comments are used only as statements of what the program *should* do.

Paths below are relative to `src/packages/dvala-engine/src/evaluator/` unless they
start with `src/`. `TE` is `trampoline-evaluator.ts`.

## 1. The system

| Component | Where | State it keeps | Operations | What is hard |
|---|---|---|---|---|
| Concurrent groups | TE 3855–4563, `frames.ts` 602–699 | branch trampolines in flight, abort controllers, winner, composed frames | launch, settle, collect, compose a suspension, second wave | interleaving, cancellation, partial failure, replay |
| Effect handlers, cleanups | TE 2617–3130, 3160–3257 | continuation stack, handler frames, cleanup lists | perform, resume (deep/shallow), transform, abort clause, `onScopeExit` | once-only cleanup, multi-shot resumes, stack surgery |
| Snapshots, time travel | TE 3406–3460, 3600–3748, 6350–6540; `resume.ts`, `retrigger.ts` | snapshot list, next index, execution id | checkpoint, `resumeFrom`, suspend, resume, evict | index collisions, eviction, restart |
| Host effect dispatch | TE 3534–3826 | one settled flag and one promise per call, handler chain position | resume, fail, suspend, halt, next, checkpoint, resumeFrom | late or double answers, sync against async |
| Expression evaluation | TE 282–2610, 4565–5216, `step.ts`, `ContextStack.ts`, `bindingSlot.ts`, `matchSlot.ts` | continuation stack, environments, objects that frames change in place | one step per node and frame kind | a captured continuation that is continued many times |
| Serialization | `suspension.ts`, `serialization.ts`, `dedupSubTrees.ts`, `contentHash.ts` | none | store, restore, dedup, hash | what was one object comes back as several |
| Persistent collections | `src/packages/dvala-types/src/persistent` | immutable tries | assoc, push, pop, remove | boundaries at powers of 32 |
| Type checker | `src/packages/dvala-core-tooling/src/typechecker` | type variables with bounds and levels | infer, constrain, simplify | recursion, caches |
| Language service index, workspace backend | `src/packages/dvala-core-tooling/src/languageService`, `src/packages/dvala-workspace-backend` | documents by version, per-file analyses, import graph | open, edit, close, query | stale analyses, invalidation order |
| Language-service worker of the playground | `lsWorkerClient.ts`, `lsWorker.ts` in `src/apps/playground-www/src`; `documentStore.ts` | registered models, pending requests and their promises; open documents of the worker | open, edit, close, ask, answer, resync, crash | stale and late answers, two copies of one text |
| Debugger | `src/packages/dvala-core-tooling/src/debugger`, `src/vscode-dvala/src/debugAdapter.ts` | breakpoints, command, depth, pending promise; the adapter's stop filter | stop, step into/over/out, continue, disconnect | filtered stops, depth overwritten on the way |
| Bundler | `src/packages/dvala-core-tooling/src/bundler` | module graph | resolve, order | cycles |
| Parser, formatter, CLI, MCP server, test framework, UI | the remaining packages | little | text and I/O | — |

How they interact: the tooling compiles source to an AST; `run` starts `runEffectLoop`,
a trampoline that calls `tick` until the continuation is empty. `perform` looks for a
handler frame on the continuation (effect handlers), otherwise for a registered host
handler (dispatch). A host handler answers through a `ctx` object, possibly later and
asynchronously. `parallel`, `race` and `settled` start one `runEffectLoop` per branch,
all on one JavaScript event loop; a debugger's hook is asked before every node. Control leaves a run by thrown signals
(`SuspensionSignal`, `ResumeFromSignal`, `HaltSignal`) or errors, caught at the end of
`runEffectLoop`; a suspension becomes a serialized snapshot that `resume` or
`retrigger` continues, in the same process or another.

The hazards that follow from this are listed one by one, with their source lines, in
`PROJECT.json` under `hazards`.

## 2. Plan

Order: the behaviour that loses user data first.

| Module | Proofs | Section | State |
|---|---|---|---|
| `ParallelGroup`, abstract `ConcurrentPrimitive` | `ParallelGroup_proofs`, `ParallelGroup_refinement` | 3 | done |
| `EffectHandlers` | `EffectHandlers_proofs` | 4 | done |
| `TimeTravel` | `TimeTravel_proofs` | 5 | done |
| `LsSession` | `LsSession_proofs` | 6 | done |
| `HostDispatch` | `HostDispatch_proofs` | 7 | done |
| `DebugSession` | `DebugSession_proofs` | 8 | done, without groups |
| `Evaluator`, reference semantics `Meaning`, `DvalaValues` | none | 9 | done for the expressions listed there |
| `ProgramCleanups` | | | the cleanup list shared by the branches of a group, composed with a reduced group |
| `PersistentVector`, `PersistentMap`, `DedupSubTrees`, `BundleOrder` | | | pure algorithms against reference definitions |
| `WorkspaceIndex` | | | per-file analyses and their invalidation |

No module a theorem is about declares a `RECURSIVE` operator (`Evaluator` and `Meaning`
do, and are model-checked only); loops over sets and sequences are folds. `Positions` holds
the facts about positions, sequences and folds over sets that several proof modules cite:
`FoldOver` says that a fold over a finite set exists and keeps to what each step keeps to,
`FoldsAgree` that two functions with the same step are the same fold; each is stated for a
relation given as a set, as the provers cannot instantiate the library's operator
parameters. Each run asks one question, and violations that no run keeps are
listed as observations with the code lines that show them.

## 3. Concurrent groups: `ParallelGroup`

### Model and code

One group expression from its launch to its delivery, across any number of
suspensions, resumes, checkpoint replays and restarts.

| Variable | In the code |
|---|---|
| `st[b]`, `running` | where branch `b`'s `runEffectLoop` stands, and which one the event loop executes. `ready`: executing; `atEffect`: a stored effect being dispatched again; `waiting`: a host handler has not answered; `paused`: awaiting a timer or a microtask; `queued`: `branches.map` has not reached it; the rest are `RunResult` types |
| `pos[b]` | the branch's continuation, reduced to how many suspension points it has passed |
| `observed` | the branches whose `await runBranch(...)` has continued |
| `aborted`, `parentAborted` | fired abort signals: the branch's, and the one handed to the group |
| `winner` | `winnerIndex` of `executeRaceBranches` |
| `resumed`, `snapshot` | the `ReRunParallel`/`ResumeParallel` frame under the branch that was resumed, and the newest one in the host's hands |
| `outcome` | the value, error or halt that leaves the expression |

`phase` says who runs: a wave of branches (`group`), the resumed primary branch alone
on the program's trampoline (`primary`), nobody (`suspended`), or it is over.

Actions follow the code's turns of the event loop. `Launch` is one step of the
synchronous `branches.map`; a branch then executes until it awaits, so callbacks
(`Observe`, `HandlerAnswersLater`, `Wake`, the collectors) need `Quiet`. The five
collectors share their structure and are one set of operators (`Cached`, `Collected`,
`Throws`, `Suspends`, `Result`); where they differ the operator says so (`FirstRace`,
`Decided`, `SuspensionAborts`). `Cut` is the continuation that `executeReRunParallel`
and `executeResumeParallel` compose without the primary's own frames.

`ConcurrentPrimitive` states what the caller is promised: branches come to one
outcome each, the result is one its mode allows, going back to a snapshot restores
the stored outcomes. `ImplementsPrimitive` is the refinement.

### Runs

All instances are in `MCParallelGroup`. No symmetry is used: the collectors prefer
the lowest branch index. Three branches with one effect (`N = 3, Effects = 1`) give a
primary, a sibling and a cached or failed branch in one frame; two branches with two
effects (`N = 2, Effects = 2`) let a branch suspend, be resumed and suspend again, and
be overtaken between its effects. Every run has a finite state space without further
bounds: a snapshot is one frame, and going back reuses the same states. Deadlock is
checked in every run; `Terminated` is the one legitimate end.

| Run | Question |
|---|---|
| `group_snapshots` | Are suspensions partitions of the branches, results complete, cached values kept, errors preferred to suspensions, races suspended only undecided? |
| `group_implements` | Does the group refine `ConcurrentPrimitive`? Once a suspension is seen, does no handler start? Is a race's winner final? Does a started group settle (`Live ~> ~Live` under `FairSpec`)? A resumed primary does not fail in this run, because `settled` breaks the promise there (Observations). |
| `group_truncated` | Violation: a branch that suspends in the second wave never runs to its end. |

`PROJECT.json` quotes, for a violation, the sentence that the code contradicts. In
`group_truncated` the shortest trace is: branch 0 suspends at its first effect and is
resumed; branch 1, dispatched again by the second wave, suspends at its first effect;
the host resumes with a value and the group delivers that value as the result of
branch 1, whose second effect never runs.

### Observations

Other disagreements seen while modelling. The model contains the behaviour; no run is
kept for them.

- A branch whose handler calls `ctx.halt` does not halt the program: the collectors switch
  over completed, suspended and error only (TE:3970), so `parallel` and `settled` deliver
  an array with a hole and a race counts the branch as failed. `effectTypes.ts:239` says
  "Halt the program immediately". With `"halt"` in `GroupOps` the model shows it; the
  passing runs leave it out.
- The primary of a resumed group runs on the program's own trampoline with nothing to
  catch its error (TE:1651), so `settled` throws it; TE:3992 says "Settled never throws".
  With `"fail"` in `ResumedOps` the model shows it.
- A race whose primary fails after a resume throws that error on the spot (TE:1651);
  `src/book/05-advanced/05-concurrency.md:176` says that failing branches of a race are
  silently dropped, and a first wave does so.
- In a resumed race the primary's value decides, yet its siblings are dispatched again,
  nothing aborts them, and the group waits for all of them (TE:4411); the book (line 47)
  says that losing branches are cancelled.
- In `parallel`, an error of one branch does not abort its siblings; they run to their
  end before the error is thrown (TE:3992).
- A race listens for its parent's abort event; if the signal has already fired when the
  race starts, its branches do call their handlers (TE:4097). `parallel` and `settled`
  combine the signals and stop.

### Fairness

`FairSpec` is weak fairness of `Progress` as a whole: the event loop executes what is
runnable, and every handler called eventually answers. Resumes, retriggers,
checkpoints, restarts and the parent's abort are never forced. Per-action fairness is
not needed: each progress step moves a branch forward or settles it, and nothing
inside a wave moves one back.

### Proved

`ParallelGroup_proofs` proves, for every number of branches and effects and every set
of modes and handler answers with `"halt" \notin GroupOps`, that `IInv` is an
invariant, and from it `TypeOK`, `NoBranchLost`, `ResultIsComplete` and
`RaceSuspendsUndecided`. The hypothesis is needed: with a halted branch an array has a
hole (Observations).

`IInv` adds to these four what makes them inductive:
`FrameOK` (the shape of a stored frame), `WaveOK` (the members of a wave are exactly
what the frame said to launch, so a collector that has seen all members has seen
everything it needs), `PrimaryOK`, `SuspendedOK`, `WinnerOK` (a race without winner
has seen no completion) and `AtEffectOK` (a branch at an effect has it still to pass,
which keeps positions in range on resume). The proof has one lemma per action group;
the collector lemmas argue that the set of completed, suspended and failed members
together with the cached slots is the whole of `Branch`.

A second invariant, `OInv`, is inductive next to `IInv` and carries the rest:
`CachedValuesSurvive` (a cached branch is in no wave, by `Partition`, so the collector
finds its slot untouched), `ErrorBeatsSuspension`, the action property `WinnerStands`
(only races have winners, and a run in flight has delivered nothing), and
`NoHandlerAfterSuspension` (`SuspensionSignalled`: once the group has seen a suspension
every branch is signalled, and only the dispatch of an effect starts a handler).

`ParallelGroup_refinement` proves the refinement `Spec => ImplementsPrimitive`, for every
number of branches, if `"halt" \notin GroupOps` and `"fail" \notin ResumedOps`; both
hypotheses exclude behaviour the Observations describe, which the primitive does not
allow. The mapping is stated point by point (`AbsFateCases`), `CollectedFate` says that
each slot a collector holds agrees with the fate it stands for, and each action maps to
`Decide`, `Deliver`, `Store`, `Rewind`, `Halt` or a stutter. `RInv` adds to `IInv` that
`parallel` caches no error and that nothing is delivered before the end.

Only model-checked: `GroupSettles` (liveness is out of the prover's reach).

### Not in the model

Branch-local variables and values (a value is told apart by the point at which it was
produced); snapshot lists and indices (`TimeTravel`); cleanups
(`ProgramCleanups`, planned); handler chains inside one dispatch (`HostDispatch`);
rejected branch promises, which `runEffectLoop` never produces; groups
nested inside a branch, represented by the parent's signal and by a relaunch of the
stored effect.

## 4. Effect handlers and cleanups: `EffectHandlers`

### Model and code

One trampoline running an arbitrary program: wherever code runs, any operation the
runtime offers may come next. The continuation is a stack of frames; what lies between
two handler-related frames is one `code` frame.

| Variable | In the code |
|---|---|
| `k` | the continuation stack, reduced to `AlgebraicHandle`, `HandlerClause`, `HandlerTransform`, `HandlerCleanup` and ordinary frames |
| `control` | the kind of the current step: code to evaluate, a value for the frame in front, an error |
| `frames` | the frame objects, because identity matters: two continuations may hold the same `AlgebraicHandle` object, and `cleanupsFired` is a field of it |
| `lists` | the `cleanups` arrays, for the same reason: a copied frame shares the array of its original |
| `captured` | the resume functions and the `performK` each one closed over |
| `fired`, `program` | how often each callback has been called; `programCleanups` |

`Perform`/`Raise` → `Dispatch` is `dispatchAlgebraicHandler`: the frames up to the
handler become a resume function, the clause runs outside it, and a frame with
cleanups leaves a `HandlerCleanup` behind. `CallResume` is the `Resume` case of
`dispatchDvalaFunction`: the captured frames come back, handler frames among them as
copies (`freshenContinuationEnvs`), with a new handler frame around them if the
handler is deep. `ClauseCompletes` is `applyHandlerClauseAbort`. `ProgramCompletes` drains
the program-level cleanups with `drainProgramCleanups`: one that throws turns the completed
run into a failed one (TE:6451, 2771). `needs` is a history field, not in the code: the
resources that code under a frame was given.

### Runs

Bounds: two installed handlers give an inner and an outer block; three resume
functions let a resumed computation perform again and be captured again; two cleanups
tell a shared array from two arrays; `MaxDepth` admits one resume inside another.
`OneShot` and `Escapes` are switches on what the program does with its resume
functions. Deadlock is checked.

| Run | Question |
|---|---|
| `handlers_nested` | Two nested handlers of every kind, each resume function called at most once and inside its clause: is any cleanup called twice? |
| `handlers_guard` | One block whose resume function escapes and is called any number of times: does the guard keep code from running after its cleanups, is each cleanup called exactly once in a completed run? |

`handlers_guard` has one resume function (`MaxResumes = 1`) and one block on purpose: with
a second resume function `NoUseAfterCleanup` fails, with an outer block
`CompletedRunsCleanUp` does (Observations). So the run says nothing of copies and
reinstalled frames that do not see `cleanupsFired`, nor of an outer clause that does not
resume.

### Observations

- When a clause ends, `applyHandlerClauseAbort` looks for the nearest `AlgebraicHandle`
  frame and goes on behind it (TE:2919). The clause's own frame is no longer on the
  continuation, so with nested blocks the value skips the *next enclosing* block, against
  `src/book/05-advanced/02-effects.md:150` ("the handler's return value replace[s] the
  entire block result"). `ClauseCompletes` models it.
- An effect performed in an inner resource scope and caught by an outer handler moves the
  inner frame into the captured continuation; if the clause does not resume, the frame is
  gone and its cleanups are never called (TE:2979). `effectTypes.ts:249` lists "abort via
  a non-resuming clause" among the moments they fire. `CompletedRunsCleanUp` holds in
  `handlers_guard` because one block has no outer handler.
- Each deep resume installs a handler frame without the cleanups. A continuation captured
  at the next effect holds that frame only and stays valid after the original frame's
  cleanups were called (TE:1245), against `frames.ts:466`. With two resume functions the
  model violates `NoUseAfterCleanup`.
- With two handlers and a resume function called twice (`OneShot = FALSE`,
  `MaxInstalls = 2`) `FiresAtMostOnce` fails: each resume copies the inner frame, and
  each copy fires the shared array.
- The check before a suspension looks at `AlgebraicHandle` frames only (TE:3222);
  inside a clause body the cleanups have moved to a `HandlerCleanup` frame, so the
  suspension is accepted and the callbacks are not serialized.

### Not in the model

Linear handlers and parallel barriers on the search path; values and the binding of
clause parameters; the order of the callbacks inside one list; asynchronous callbacks
(one step here, the trampoline awaits them). There is no fairness and no liveness
property: programs may loop.

### Proved

Each property has a theorem with its own inductive invariant, over any set of handlers,
host operations and any bounds that its hypotheses leave open. The hypotheses restrict the
program, never the runtime, and each is needed: what happens without it is an observation
above.

| Theorem | Property | Hypothesis | Inductive invariant |
|---|---|---|---|
| `TypeCorrect` | `TypeOK` | none | `WellFormed` |
| `OneShotFiresOnce` | `FiresAtMostOnce` | `OneShot` | `TokenInv` |
| `OneBlockCleansUp` | `CompletedRunsCleanUp` | `OneBlock`: one block; its resume functions are called once each, or there is only one | `BlockInv` |
| `OwnClausesAreSafe` | `NoUseAfterCleanup` | `OneShot`, `~Escapes` | `TokenInv` and `OrderInv` |
| `OneCatchIsSafe` | `NoUseAfterCleanup` | `OneCatch`: one block, caught once; resumed any number of times, anywhere | `BlockInv` and `GuardInv` |

The two runs are instances: `handlers_nested` satisfies the hypothesis of
`OneShotFiresOnce`, `handlers_guard` those of `OneBlockCleansUp` and `OneCatchIsSafe`.

- `WellFormed` adds to the types that frames refer to objects, resume functions and arrays
  that exist, that a resume function ends in a handler frame, and that running code is in
  front of the continuation. The step that needs it is `CallResume`: the copies of the
  captured handler frames take the next references, in the order `freshenContinuationEnvs`
  makes them (`CopyFacts`, `RenewedFacts`).
- `TokenInv`: a frame object is *held* by a handle or cleanup frame of the continuation or
  of what an unused resume function captured above its handler. No two frames hold one
  object, no two held objects share an array, and the cleanups of held objects are
  uncalled. `FiresAtMostOnce` alone is not inductive, because an array is shared by an
  object and its copies; a single use of a resume function means that the copy replaces
  its original (`ResumeTokens`).
- `BlockInv`: with one block there is only code above its handler (`OneScope`), nothing but
  code was captured (`PlainResumes`), no clause frame has a handler below it, so the end of
  a clause skips nothing (`ClausesOutside`, `ClauseSkipsNothing`), the block is on the
  continuation or in one resume function (`OneWay`), and an uncalled cleanup is in the array
  of a frame that is still going to call it (`AllHeld`).
- `OrderInv`: give each resume function the cleanups its performer relies on. Then whatever
  a frame relies on is provided by the frames below it, for the continuation and for every
  unused resume function put back in its own clause, and the cleanup frame of a handler
  stands right below its clause. Cleanups are called from the front, so what a handler in
  force relies on is uncalled. `Supported` and `CleanupNext` are properties of joined
  sequences (`SupportedJoined`, `NextJoined`), which turns capture and resume into taking
  apart and joining.
- `GuardInv`: a resume function that escapes may come back anywhere, so order says nothing.
  All that copies rely on is what the resume function's own handler holds (`Guarded`). Until
  its cleanups are called, none of them has been; when they are, no handler is in force
  below them; afterwards `assertContinuationValid` refuses every call. That is the argument
  of `frames.ts:466`, and it needs a single resume function.

Translating `CallResume` for the proofs showed a mistake of the model: the resumed value
meets the first captured frame, no code runs before it. `control` is now `"value"`.

## 5. Snapshots and time travel: `TimeTravel`

### Model and code

A run with its trampolines (the program's and one per branch of a group), the one
`SnapshotState` they share, and the host, which may store a suspension or a checkpoint
and resume it as a new execution. A program is a sequence of host effects and groups,
a continuation is what is left of it.

| Variable | In the code |
|---|---|
| `loops` | the active `runEffectLoop` calls; `loops[1]` is the program's. `wave` is what a loop awaits in a collector; `last` is history: the last snapshot on its path |
| `snapshots`, `next`, `exec`, `auto` | `SnapshotState`: the list, `nextSnapshotIndex`, `executionId`, `autoCheckpoint` |
| `stored` | the suspension snapshots in the host's hands: the blob of each with continuation, list, counter |
| `captured` | history: every snapshot ever taken |
| `status` | how the `RunResult` stands |

`Checkpoint`, `Answer`, `Travel`, `Suspend` are `ctx.checkpoint`, `ctx.resume`,
`ctx.resumeFrom` and `ctx.suspend` with everything they do: index, eviction, automatic
checkpoint, and for a travel the boundary check, the trim and the continuation put in
place. `TravelThrows` is `ctx.resumeFrom` with a snapshot that is not in the list, because
it was evicted or discarded since the host got it, or with a value that is refused: the run
fails. The host keeps its suspension snapshots, so `Resume` may resume any of them, the same
one again too. `Compose` is `composeCheckpointContinuation`, `ReRun` is `executeReRunParallel`.
`k` and `again` of a snapshot differ for "Program start" only, which stores its initial
step beside the continuation: `resume` uses the step, `resumeFrom` does not.
`@dvala.checkpoint` takes the same snapshot as `ctx.checkpoint` and has no action of
its own.

### Runs

`MaxHostOps` bounds checkpoints, travels, suspensions and resumes together, and is what
makes the state space finite. Four are enough for: checkpoint, suspend, resume, travel;
or checkpoint, travel, checkpoint, travel to a discarded place's neighbour. With
automatic checkpoints every answer adds a snapshot too, so `MaxSnapshots = 3` is
exceeded in every long history, and so is a travel to a snapshot that has been evicted
(`TravelThrows`). Two branches are needed for interleaved checkpoints and
for a sibling to re-run. Deadlock is checked.

| Run | Question |
|---|---|
| `tt_snapshots` | Is a handle ever reused? Is the list always in order of capture and, without groups, one unbroken stretch of the path that led here? Is a checkpoint taken in a branch a continuation of the whole program? |

### Observations

- A branch that travels back to its own checkpoint leaves the branch. Where the branch had
  its barrier the checkpoint has a `ReRunParallel` frame; both count as the same boundary
  (TE:6474), so the travel is accepted, and the branch's own trampoline now holds the rest
  of the program: it starts the siblings again while the first wave still runs, and then
  executes what follows the group, which the program executes too. TE:1648 says of a
  finished branch "Do NOT flow into outerK". The model contains the behaviour: states with
  a branch's loop that holds no barrier are reached in `tt_snapshots`.
- "Program start" snapshots never evict, so the list can be longer than `maxSnapshots`
  (TE:6386), for instance after a suspension and a resume.
- `resumeFrom` of "Program start" does not evaluate the program's first expression
  again, as it does not use the stored initial step (TE:6380 says it can "rewind to the
  very beginning").
- The "Program start" of a branch is serialized with its barrier (`frames.ts:641`:
  "Never serialized directly"). Resumed by the host, the program completes at that
  barrier.

### Not in the model

`retrigger`; suspensions inside a branch (`ParallelGroup`); operations on a `ctx` that
is already settled (`HostDispatch`); refusals because of live cleanups
(`EffectHandlers`); race and settled groups; the terminal snapshot, whose index is the
counter's without advancing it.

### Proved

`TimeTravel_proofs` proves `HandlesStayValid`, `Chronological` and `HistoryIsLinear` for
every set of programs, number and length of branches, `MaxSnapshots` and `MaxHostOps`.
None is inductive: `IndexInv` adds that every snapshot ever taken belongs to this execution or
an earlier one and, if to this one, has an index the counter has passed (`PastOK`), and
that the list in every suspension the host has stored is in order below its own counter
(`ListsOK`), as a resume starts from it. Each way the list changes has a lemma
(`AppendInOrder`, `EvictingInOrder`, `TrimInOrder`); taking a snapshot, beginning a run
and leaving the book alone have one each (`TakeInv`, `BeginInv`, `UnchangedInv`).
`TrimInOrder` needs the least position of a later snapshot, which `LeastPosition` gets
from the well-foundedness of finite sets under inclusion.

From it follows `HistoryIsLinear`, by an invariant of its own (`LinearInv`): while the
program has no groups there is one loop, its continuation and every stored one are
effects only, and the list is `Linked` to the newest snapshot of the loop, as is the list
in the host's hands to the path it was suspended on. `TrimAt` shows that travel, which
cuts by index, keeps exactly the snapshots up to the target; it needs `Chronological`.

`TypeCorrect` and `CheckpointsAreWhole` (`TypeOK`, `WholeProgram`) come from one more
invariant, `ShapeInv`, next to `IndexInv`, and hold for programs with groups, at any depth of
branches, travel and resume. `WholeProgram` speaks of the list only; a step makes
checkpoints out of a loop's continuation, a wave's, the host's or a discarded one, so
`ShapeInv` says of all of them that they are `Whole`: below the last boundary they end the
way the program does (`EndsAsProgram`). `BranchWhole` and `ComposeWhole` are the two places
where that could break: a branch starts on a barrier that stands for the rest of the
program, and `composeCheckpointContinuation` puts that rest in the barrier's place.

All theorems of the module are safety; nothing of it is only model-checked.

## 6. The language-service session: `LsSession`

Paths in this section are relative to `src/apps/playground-www/src/`.

### Model and code

The playground's editor and its Web Worker hold two copies of every open document, and
talk by messages. One action is one callback of either thread, which JavaScript runs to
its end; between two of them messages lie in `inbox` and `outbox`, in order.

| Variable | In the code |
|---|---|
| `main` | `lsWorkerClient.ts`: registered models, `lastSent` versions, `pending` request ids with their resolvers and retry closures, the hover key, debounce timers, resync fingerprints; the editor's tabs, model versions, markers; the state of every promise handed out (`answer`, a history field) |
| `mirror[w]` | the open documents of worker `w` (`documentStore.ts`), by model and version |
| `flags[w]` | `cancelledRequests` of its backend |
| `outbox[w]`, `health[w]` | messages on their way to the main thread; alive, dead, reported |

The user opens, edits, closes, switches, renames and deletes tabs, and asks (hover,
formatting and the like are one kind of request each; hovers at one position join).
`TimerFires` is the debounce of the diagnostics, `Receive` a message to the main thread,
`WorkerStep` one to the worker, `WorkerDies`/`OnError` the crash and its event. An answer
carries the document it was computed from, so a property can tell a stale one.

### Runs

| Run | Question | Bounds |
|---|---|---|
| `ls_editing` | Is an answer only used for the text it was computed from? Does every promise settle, and do the markers come to rest on the text shown? | one path with two models (closed and opened again, versions start over), one edit, two promises |
| `ls_tabs` | With two files: once its inbox is empty, does the worker hold exactly the registered documents at the versions last sent? Are markers set for the version shown? | two paths, two models, analyses that fail, a tab switch |
| `ls_faults` | The same mirror with edits the worker is not told of, renames, deletions and a crash: has a waiting promise always a request on the way, and does it settle? | two paths, one model, two workers |

`CHECK_DEADLOCK FALSE`: the editor may simply stop.

### Observations

- A deleted file's document is never closed. `deleteWorkspaceFile` removes the file before
  it closes the tab, and the tab looks the path up among the files that are left
  (`scripts/tabs.ts:345`), so the model is disposed but stays registered and the worker's
  document stays open; `lsWorker.ts:21` says that closing "prevents stale worker-only
  buffers from surviving after tabs are disposed". A new file at that path starts at
  version 1, so its `openDocument` is ignored until its version has caught up
  (`documentStore.ts:45`); a request that has to resync twice meanwhile is dropped by the
  fingerprint and its promise never settles. A rename leaves the old path registered in
  the same way.
- `handleWorkerError` resolves promises but forgets that diagnostics were pending
  (`lsWorkerClient.ts:399`): markers lost by a crash come back with the next edit only.
- A cancellation is handled after the request it names, as messages keep their order
  (`createBackend.ts:2482`): `cancelledRequests` never prevents any work and only grows.
  Nothing wrong is shown, since the main thread drops the answer.

### Fairness

`FairSpec`: timers fire, each worker and the main thread handle what is in their queues,
a dead worker is reported. The user is free. `DiagnosticsConverge` is checked where no
worker dies and the main thread tells the worker of every edit.

### Not in the model

What an analysis computes; the mirror of persisted files (`persistFile`, `removeFile`);
local fallbacks of go-to-definition; the pruned list of cancelled ids in `lsWorker.ts`. A
model registered under two paths after a rename is found under either.

### Proved

`LsSession_proofs`, for any number of paths, models, kinds of request, calls, edits, tab
switches and workers, and whatever the user may do (`Ops`, `Results`):

- `TypeCorrect` (`TypeOK`), without any hypothesis.
- `PromisesStayInFlight` (`PromisesInFlight`), `MirrorFollows` (`MirrorFollowsClient`),
  `AnswersStayCurrent` (`AnswersAreCurrent`) and `MarkersStayCurrent`
  (`MarkersAreCurrent`), for behaviours in which no path that has a model gets another one
  before it was unregistered (`NeverReplaced`).
- `FilesKeepTheirModels`: that is every behaviour where no file is deleted or renamed while
  it is open, however often files are closed and opened again as new models; this covers
  `ls_editing` and `ls_tabs`. `OneModelIsKept`: and every behaviour of one model, deletions
  and renames included; this covers `ls_faults`. `OpenFilesAreServed` puts the parts
  together without the hypothesis.

The hypothesis cannot be dropped: it excludes the first observation above, where a deleted
file's model is never unregistered and its successor starts at version 1. There the
worker keeps the newer text of the old model, and a promise may never settle. The
assumptions on the constants are `SessionAssumption` and `NoneAssumption`: paths and kinds
are finite sets, as the handlers loop over them, and no path is called as a tab without
file.

The five properties are not inductive. `Inv` holds always: the record's types
(`Session`), only waiting promises have a resolver and each has one (`ResolversOK`), at
most one worker lives and another can replace it (`WorkersOK`), request ids are given out
once (`IdsOK`), a cancelled one is not pending (`CancelsOK`), and a pending request can be
repeated in the present worker (`RetriesOK`). `Kept` holds as long as `NeverReplaced` does:

- `VersionsOK`, `RequestsOK`, `RepliesOK`: what was sent, asked or answered is of the
  present model, and not of a version that it has not had.
- `ModelsOK`, `ClosedOK`: a pending request is repeated on the present model, and a path
  without model has nothing under way.
- `MirrorOK`: for each path, what the messages in the live worker's inbox make of its
  mirror (`History`) is in the end what the main thread believes (`Belief`), and at each
  request on the way the mirror has no other model's document; if the main thread would
  take another resync for a repeat (`Repeats`), it has the very version asked for
  (`Served`). So the resync that is dropped as a repeat is never one that was needed.
- `AllUnderWay`: a pending request that has a promise is in the inbox, answered, or about
  to be repeated because of a resync that will not be dropped.

A handler of the main thread is a composition of a dozen helpers, some of them loops, so
there is one lemma per helper that says which fields it keeps and that it carries the
invariant (`Carries`: it loses no pending request), and the lemma of a handler composes
those. The loops over paths and kinds (a new worker gets every document, a closed file
settles its requests of every kind, a resync repeats them) go through `FoldOver`.

Only model-checked: `PromisesSettle` and `DiagnosticsConverge` (liveness). Their safety
half, that a waiting promise always has its request under way, is `PromisesStayInFlight`.

## 7. Host effect dispatch: `HostDispatch`

### Model and code

One effect handed to the host. `dispatchHostHandler` (TE 3534–3826) calls the matching
handlers in order; a handler is arbitrary JavaScript, so wherever it runs any operation of
`ctx`, a return, a throw or an await may come next, and an async handler goes on after the
program has.

| Variable | In the code |
|---|---|
| `handlers[h]` | where the handler's function stands; its `settled` and `outcome` variables; `awaited`: the trampoline waits for its promise; `late` (history): the operation came after the function's end |
| `effect` | what lies behind the chain (a standard handler, `null` for a checkpoint, or "unhandled"), `autoCheckpoint`, the abort signal |
| `inTick` | the dispatch still runs under the `try` of `tick`, which routes errors |
| `promise` | a promise given to `resume()` |
| `program`, `delivered` | what became of the program; how often it was reached (history) |
| `auto`, `explicit` | snapshots taken by `resume()` and by `checkpoint()` |

`Operate` is the eight operations with `assertNotSettled`. A callback that a handler has
left behind keeps its `ctx` when the function has ended, and `assertNotSettled` asks for
nothing but `settled`, so `Running` lets it go on; its operation is accepted and its outcome
never looked at (`late`). What a function throws or rejects with may be an ordinary error or
a signal, which `tick` and `tryHandler` throw on (TE:5930, 3814). `Returns`, `Awaits`, `Throws`,
`Fulfils`, `Rejects` are the ends of a handler's function and the branches behind them;
`resolveOutcome` turns an outcome into a step or a signal, or calls the next handler.

### Runs

`host_answers` (three handlers: first, middle, last; with two, a handler that has passed
the effect on and a later one that has answered could not be told apart from the ends of
the chain): the effect reaches the program exactly once, with the first answer of the
handler that decided; handlers run in order; at most one automatic snapshot; in the end
there is an answer. `MaxCheckpoints` only bounds a counter. Deadlock is checked.

### Observations

- An error of the dispatch itself (an unhandled effect, a standard handler's error, "did
  not call resume()") is thrown inside `tick` if the chain was synchronous, and
  `dvala.error` handlers see it (TE:5933). Behind an awaited handler the same error rejects
  the awaited step and ends the run at TE:6530 without asking them, against
  `src/book/05-advanced/02-effects.md:802` ("automatically routed through `dvala.error`").
  `ThrowDvalaError` has both ways. Conversely, a plain function's non-Dvala throw ends the
  run, and an async handler's becomes a catchable error.
- `assertNotSettled` marks the call before its argument is validated, so a refused
  operation (a value that is no Dvala value, a `suspend` with live cleanups) leaves a call
  that is settled and has no outcome; with `autoCheckpoint` the snapshot has been taken.
- `ctx.checkpoint` and `ctx.onScopeExit` do not ask whether the call is settled: a handler
  that goes on after its answer takes a checkpoint of a place the program has left.
- A plain function's throw after its answer takes the answer's place; an async function's
  is ignored. A handler that answered after an await resumes the program only when its own
  promise settles.
- A handler that ends without an answer and leaves a callback behind has failed the program
  ("did not call resume()"); the callback's `resume()` is still accepted without an error,
  and with `autoCheckpoint` adds a snapshot "After" an effect that was never answered. A
  refused value leaves the same snapshot (TE:3621). `OneAutoSnapshot` counts these snapshots,
  it does not forbid them.

### Fairness

Weak fairness of every step of a handler's function towards its end and of the promise
given to `resume()`: handlers end, promises settle. Nothing forces an answer.

### Proved

`HostDispatch_proofs`, for every number of handlers: `TypeCorrect` (`TypeOK`),
`AtMostOneAnswer` (`DeliveredOnce`), `HandlersInOrder` (`ChainInOrder`),
`FirstAnswerIsFinal` (`FirstAnswerStands`) and `SnapshotOnce` (`OneAutoSnapshot`). The inductive invariant says that at most one handler
*holds* the effect (it runs for the first time, or the trampoline awaits it), that the
program still waits while one does and all behind it are uncalled (`HolderOK`), that
whoever is not waited for has settled or come to its end (`RecordsOK`), and that a pending promise belongs to
the handler that decides (`PromiseOK`). One lemma per kind of step.

## 8. Debugging: `DebugSession`

### Model and code

The `Debugger` object that the evaluator asks before each node
(`src/packages/dvala-core-tooling/src/debugger/Debugger.ts`), the adapter between it and
VS Code (`src/vscode-dvala/src/debugAdapter.ts`), and the user. A program is the sequence
of visits to its nodes; a node has an id, a file or none, and lines; a visit has a call
depth.

| Variable | In the code |
|---|---|
| `at`, `state` | the visit the evaluator has come to; asks, evaluates a condition, awaits `pendingResolve` |
| `breakpoints` | `Debugger.breakpoints`, resolved to node ids |
| `d` | `pendingResolve`, `stepCommand`, `stepDepth`; the adapter's `dbg`, `currentNode`, `waitingForEntryFile`, `lastStepCommand` and the `stepOver*` fields |
| `asked` | history: the user's last request and where it was made |

`stop` is `Debugger.stop` with the adapter's callback inside: three filters may answer the
stop at once with a command of their own (`WaitsForEntry`, no source, `SteppedOver`), in
the same turn, before the promise is returned to the evaluator.

### Runs

`debug_steps`: two programs of ten or eleven visits (library code before the entry file, a
call spanning lines, a node visited twice, nested calls with synthetic nodes between the
levels and a caller on the same line numbers in another file, inlined code at the caller's
depth), each started with and without `stopOnEntry`,
with no, plain and conditional breakpoints, two changes of breakpoints at any time (bound
`MaxChanges`), any sequence of requests and a disconnect at any time. A program is held
exactly while a stop is shown; a step stops only where it was meant to, and passes such
a place only for the reasons named below; every command is answered. Deadlock is checked; `Over` is the end of the program, or a program
held for a client that has gone.

`StopsWhereAsked` takes what a step means (`StepTarget`) from the visit the user issued it
at, its depth, file and lines, as the comments at `Debugger.ts:91-109` and
`debugAdapter.ts:185-196` put it, and not from the controllers' fields: a step out ends in a
shallower call; a step over at the depth it was asked at or above, off the expression, which
is lines of a file, and not in another file inlined at the same depth. A step may stop nowhere
else. The code does not stop at every such place: the places it passes are those of the first
three observations, each named in the property (`CountsFromUnseen`, `AmongItsLines`, a
breakpoint in `MayPass`), and no others.

### Observations

- `stop()` overwrites `stepDepth`, also for a stop that the adapter filters
  (`Debugger.ts:261`). A step out that is stopped in synthetic code of the caller is issued
  again from the caller's depth and runs past the caller, although `debugAdapter.ts:187`
  re-issues "so we don't break depth tracking" and `Debugger.ts:103-109, 232` say the step is
  to stop at any shallower depth. A step over that meets such a node passes the rest of the
  call it came from. Both happen in the second program of `debug_steps`: without
  `CountsFromUnseen` the run violates `StopsWhereAsked`.
- `withinExpression` compares lines without files (`debugAdapter.ts:202`). A step over that
  has returned to a caller in another file, on lines with the same numbers, does not stop
  there, although `debugAdapter.ts:194-196` restricts the filter on files to the depth of the
  step. Without `AmongItsLines` the run violates `StopsWhereAsked`.
- A conditional breakpoint that does not hold passes its node whatever step is under way:
  the hook returns `evaluateCondition` and never reaches the step check (`Debugger.ts:203`).
- A breakpoint before the entry file leaves `waitingForEntryFile` set, so later steps show
  nothing outside the entry file until one has got there (`debugAdapter.ts:176`).
- After a disconnect the program is continued once and its breakpoints stay: the next one
  holds it for nobody (`debugAdapter.ts:1114`: "resume so the program can exit").
- The branches of a group share the hook. The second one that stops overwrites
  `pendingResolve`, and the first is never resumed (`Debugger.ts:265`). The module has no
  groups; `debugAdapter.ts:41` says "no concurrency".

### Fairness

The evaluator goes on evaluating and a condition comes to a value. The user is free.

### Proved

`DebugSession_proofs`, for every program, all breakpoints and whatever the user does:
`TypeCorrect` (`TypeOK`), `HeldMeansShown` (`ShownIsHeld`) and `StepsEndRight`
(`StopsWhereAsked`). The
inductive invariant adds `StepKept`: while the program runs, the two controllers hold the
request in full, and `stepDepth` is the depth the step was asked at or that of an unseen
stop in a shallower call (`CountedFrom`). `StopsAreTargets` shows that what the debugger's
check and the adapter's filter accept is a place the user meant, and that what they pass is
none or has a named reason (`PassedByDepth`); `SkippingKeeps` that a filtered stop issues the
same request again; `CountedGrows` how the depth may change by one visit. Assumed of the
constants: launches are well typed, `None` is none of the values it stands beside.

### Not in the model

Variables, scopes, hover and call stacks, which are read from the continuation; buffering
of breakpoints before the launch; resolution of lines to node ids; step back, which the
adapter does not offer.

## 9. Expression evaluation: `Evaluator`, `Meaning`, `DvalaValues`

### Model and code

`Evaluator` is the trampoline for one program: one action per kind of node (`stepNode`,
TE 314) and per kind of frame (`applyFrame`, TE 1554), and what can be done with the
continuation of an effect. The language promises that a continuation can be resumed many
times, and stored and resumed elsewhere, as if nothing had happened in between; the
evaluator keeps bindings in objects that it changes in place, so the model has a heap.

| Variable | In the code |
|---|---|
| `machine` | the `Step` that `tick` turns into the next one, with the heap: the contexts a `ContextStack` consists of, `frame.context`, `bindingContext`, the records and slot contexts of `BindingSlot` and `MatchSlot` frames |
| `captured` | the continuations of all effects performed so far: `performK` of a resume function, or the stored snapshot, with the heap as it was then (used by a restore only; a resume finds the heap of now) |
| `program`, `path` | the program; history: the answers on the way to this step |

An env is the sequence of addresses of its contexts. Frames of one construct that share an
object share its address (`own`), and `ForElementBindComplete`, for instance, carries the
loop's env twice, as the code does (`forFrame.env`, `env`), because
`freshenContinuationEnvs` finds only the latter.

- `Resume` is a clause that calls its resume function: the frames get copies of their
  innermost contexts (`FreshenContinuationEnvs`), everything else stays shared.
- `Answer` is a host handler that answers, on the very continuation.
- `Restore` is a stored continuation read back: a `ContextStack` that several frames hold
  is one again, its contexts are copies to itself, and every other object comes back once
  per frame (`Deserialized`; TE:2331 describes the consequence for `for`).

`Meaning` is the reference: a big-step semantics with immutable, lexical environments and
no continuation, which consumes answers from a list. It says what the same AST means and
shares only the value operations of `DvalaValues` with the machine. `Outcome(program,
path)` is the value, the error, or "open" when the answers run out.

### Runs

`eval_outcomes` checks that every fork of the machine, when it ends or performs, has the
outcome that `Meaning` gives for its path (`OutcomeIsMeaning`), and that every address is of
a live object. It has 28 programs in four uses: nine that a clause may resume twice from each capture
(`Forks`), these and six more that a clause resumes once, or that the host stores and
restores any number of times (`Shapes`), and thirteen that are only answered, for errors and
guarded loops (`Answered`). Programs of two or three effects with `MaxResumes = 4` allow
the orders that matter: resume the first capture, then the second, then the first again, and
the second of the new fork. Two answers tell forks apart. `CHECK_DEADLOCK FALSE`: a program
ends. `Resume` may interrupt a fork at an effect only, as one thread runs.

What the programs leave out is chosen by the observations: effects in the body of a `for` or
`loop` are resumed once or restored, not resumed twice, and lets and guards of a `for` are
never continued behind. `GuardPrograms` and `ForkPrograms` in `MCEvaluator` are programs of
that kind: put in the place of `MCPrograms`, each violates `OutcomeIsMeaning`.

### Observations

- After a resume or a restore, the lets, guards and inner collections of a `for` read the
  env's copy of the loop's context while elements are bound in `frame.context` (TE:2210,
  2293): they see the element of the interruption. With `for (x in [1, 2, 3] when x < 2)`
  and an effect in the body, the guard lets elements pass that it should stop.
  `src/packages/dvala-engine/src/builtin/specialExpressions/loops.ts:58` says of the guard
  that it "must evaluate to truthy for the loop body to be executed". The comment at TE:2331
  has the problem and solves it for the body only.
- Two forks of a `for` or `loop` share that context: `src/book/05-advanced/02-effects.md:597`
  says "Each `resume` call is an independent fork — branches don't share mutable state."
  A name read in the body after the effect has the value that another fork bound.
- A second resume into the default of a destructuring or a pattern finds the frame's slot
  contexts advanced (TE:4873, 5041), against the comment at TE:4821. `ApplyBindingSlot` and
  `ApplyMatchSlot` change the frame's object in place; a slot that is no longer there is the
  code's crash, `Error("internal")`. Likewise the parameters' context of a call resumed twice
  in a default argument.
- An empty inner collection ends the whole `for`, not its level (TE:2099: "abort this
  level"). `Meaning` ends the level; no program of the run has one.
- The free names of a function are looked up in its body only (TE:294): a default
  argument that uses an outer name finds it in the caller's env, if at all.
- `withCopiedTopContext` drops the file resolver, parser and debug flag of a `ContextStack`
  (`ContextStack.ts:235`), so a forked continuation cannot import files.

### Not in the model

Macros, code templates, template strings, imports; callables other than functions
(collections, numbers, partial application and the like); strings and objects as
collections of a `for`; integers that overflow; builtins but `+`, `<` and `==`; names that
are defined after a function was made and looked up in its caller. Two different
`ContextStack` objects over the same contexts count as one, which matters to a restore only.
The continuation that `RecurLoopRebind` keeps in a field is the one below it. The handler
frames around a resume are in `EffectHandlers`, which has no values. Nothing is proved:
the reference is recursive, and so is the matching of patterns.
