---- MODULE DebugSession ----
(***************************************************************************)
(* Debugging a program: the Debugger object that the evaluator asks before *)
(* each node (Debugger.ts, onNodeEval), the debug adapter that filters its *)
(* stops and passes commands on (debugAdapter.ts), and the user.           *)
(*                                                                         *)
(* A program is what it evaluates: the sequence of visits to its nodes.  A *)
(* node has an id, a file (None: no source position) and its lines; depth  *)
(* is the number of calls around the visit.  No group runs: the branches   *)
(* of a group would share the hook and the one pendingResolve.             *)
(***************************************************************************)
EXTENDS Integers, Sequences, FiniteSetsExt, Functions

CONSTANTS
  Launches,     \* launches: [code, stopOnEntry, breakpoints]
  Entry,        \* the file of the program
  MaxChanges,   \* bound: changes of breakpoints during a session
  None          \* no value

Visits == UNION {Range(l.code) : l \in Launches}

Commands == {"continue", "stepOver", "stepInto", "stepOut"}
Kinds == {"none", "always", "condition"}

ASSUME LaunchesAssumption ==
  /\ \A l \in Launches :
       /\ l.code \in Seq(Visits)
       /\ l.stopOnEntry \in BOOLEAN
       /\ l.breakpoints \in [{n.id : n \in Range(l.code)} -> Kinds]
  /\ \A n \in Visits : n.depth \in Nat
  /\ None # Entry /\ None \notin Visits
  /\ None \notin Commands \cup {"breakpoint", "step"}
  /\ MaxChanges \in Nat

VARIABLES
  launch,       \* the launch configuration: what runs and from where on to show it
  at,           \* the visit the evaluator has come to
  state,        \* asks | condition (being evaluated) | held (awaits pendingResolve)
  breakpoints,  \* Debugger.breakpoints: kind per node id
  d,            \* the two controllers, see Session
  asked,        \* history: the last request, the visit it was made at, and d.waiting then
  changes       \* changes of breakpoints so far

vars == <<launch, at, state, breakpoints, d, asked, changes>>

code == launch.code
Finished == at > Len(code)

\* held: pendingResolve # null.  shown: the node is currentNode.  stepOver: the
\* stepOver* fields.  waiting: waitingForEntryFile.
Session == [held: BOOLEAN, command: Commands \cup {None}, depth: Nat,
            connected: BOOLEAN, shown: {None, "breakpoint", "step"}, waiting: BOOLEAN,
            last: Commands, stepOver: {None} \cup Visits]

\* Mutant: nobody resolves the promise.
Command_unresolved(s, c) == [s EXCEPT !.command = c]

\* Debugger.continue, stepOver, stepInto, stepOut: the command, then resume().
Command(s, c) == [s EXCEPT !.command = c, !.held = FALSE]

\* Mutant: the command is noted and the program left where it is.
Skip_noted(s, c) == IF s.connected THEN [s EXCEPT !.command = c] ELSE s

\* this.dbg?.stepX() in the adapter: nothing once dbg is null.
Skip(s, c) == IF s.connected THEN Command(s, c) ELSE s

----------------------------------------------------------------------------
(* The adapter's onStopped callback.                                        *)

WaitsForEntry(s, reason, n) == reason = "step" /\ s.waiting /\ n.file # Entry

WithinExpression(o, n) == n.line \in o.line..o.end

\* Mutant: another file is skipped at any depth.
SteppedOver_anydepth(s, reason, n) ==
  /\ reason = "step" /\ s.stepOver # None
  /\ WithinExpression(s.stepOver, n) \/ n.file # s.stepOver.file

\* A step over stays on its expression, or meets inlined code of another file.
SteppedOver(s, reason, n) ==
  /\ reason = "step" /\ s.stepOver # None
  /\ \/ WithinExpression(s.stepOver, n)
     \/ n.depth = s.stepOver.depth /\ n.file # s.stepOver.file

Show(s, reason) == [s EXCEPT !.shown = reason, !.stepOver = None]

onStopped(s, reason, n) ==
  IF WaitsForEntry(s, reason, n) THEN Skip(s, "stepInto")
  ELSE LET e == IF reason = "step" THEN [s EXCEPT !.waiting = FALSE] ELSE s
       IN  IF reason = "step" /\ n.file = None THEN Skip(e, e.last)
           ELSE IF SteppedOver(e, reason, n) THEN Skip(e, "stepOver")
           ELSE Show(e, reason)

----------------------------------------------------------------------------
(* The hook.                                                                *)

\* Mutant: the callback runs before the promise is in place.
Stopped_late(s, reason, n) ==
  [onStopped([s EXCEPT !.depth = n.depth, !.command = None], reason, n) EXCEPT !.held = TRUE]

\* The promise must be in pendingResolve before the callback: the callback may
\* answer at once.
Stopped(s, reason, n) ==
  onStopped([s EXCEPT !.depth = n.depth, !.command = None, !.held = TRUE], reason, n)

Proceed == at' = at + 1 /\ state' = "asks"

stop(reason) ==
  /\ d' = Stopped(d, reason, code[at])
  /\ IF d'.held THEN state' = "held" /\ UNCHANGED at ELSE Proceed

StepStops(n) ==
  \/ d.command = "stepInto"
  \/ d.command = "stepOver" /\ n.depth <= d.depth
  \/ d.command = "stepOut" /\ n.depth < d.depth

onNodeEval ==
  /\ state = "asks" /\ ~Finished
  /\ \/ breakpoints[code[at].id] = "always" /\ stop("breakpoint")
     \/ /\ breakpoints[code[at].id] = "condition"
        /\ state' = "condition"
        /\ UNCHANGED <<at, d>>
     \/ breakpoints[code[at].id] = "none" /\ StepStops(code[at]) /\ stop("step")
     \/ /\ breakpoints[code[at].id] = "none" /\ ~StepStops(code[at])
        /\ Proceed
        /\ UNCHANGED d
  /\ UNCHANGED <<launch, breakpoints, asked, changes>>

\* evaluateCondition: the breakpoint may be gone by the time the value is there.
\* A value that is false, or an error, passes the node, whatever step is going on.
evaluateCondition ==
  /\ state = "condition"
  /\ \/ stop("breakpoint")
     \/ Proceed /\ UNCHANGED d
  /\ UNCHANGED <<launch, breakpoints, asked, changes>>

----------------------------------------------------------------------------
(* The requests.  VS Code offers the commands while it shows a stop.        *)

Request(s, c) ==
  /\ d' = Command(s, c)
  /\ Proceed
  /\ asked' = [command |-> c, from |-> at, waiting |-> d.waiting]
  /\ UNCHANGED <<launch, breakpoints, changes>>

Answerable == d.connected /\ d.shown # None

continueRequest == Answerable /\ Request([d EXCEPT !.shown = None], "continue")

stepInRequest ==
  Answerable /\ Request([d EXCEPT !.shown = None, !.last = "stepInto"], "stepInto")

stepOutRequest ==
  Answerable /\ Request([d EXCEPT !.shown = None, !.last = "stepOut"], "stepOut")

\* A node without a source position leaves stepOverFile null: no filter.
nextRequest ==
  /\ Answerable
  /\ Request([d EXCEPT !.shown = None, !.last = "stepOver",
                       !.stepOver = IF code[at].file = None THEN None ELSE code[at]],
             "stepOver")

\* Old breakpoints of the file go, the new ones (one line, or none) are resolved to
\* the ids of their nodes.
applyBreakpoints(file, ids, kind) ==
  breakpoints' = [i \in DOMAIN breakpoints |->
    IF i \in ids THEN kind
    ELSE IF \E n \in Range(code) : n.id = i /\ n.file = file THEN "none"
    ELSE breakpoints[i]]

setBreakPointsRequest ==
  /\ d.connected /\ ~Finished /\ changes < MaxChanges
  /\ \E file \in {n.file : n \in Range(code)} \ {None}, kind \in Kinds \ {"none"} :
       \E ids \in {{}} \cup {{n.id} : n \in {m \in Range(code) : m.file = file}} :
         applyBreakpoints(file, ids, kind)
  /\ changes' = changes + 1
  /\ asked' = [asked EXCEPT !.command = "changed"]
  /\ UNCHANGED <<launch, at, state, d>>

\* Continues once; the breakpoints stay.
disconnectRequest ==
  /\ d.connected /\ ~Finished
  /\ d' = [Command(d, "continue") EXCEPT !.connected = FALSE, !.shown = None]
  /\ IF d.held THEN Proceed ELSE UNCHANGED <<at, state>>
  /\ UNCHANGED <<launch, breakpoints, asked, changes>>

----------------------------------------------------------------------------
(* launchRequest up to the start of the program.                            *)

Init ==
  /\ launch \in Launches
  /\ at = 1 /\ state = "asks"
  /\ breakpoints = launch.breakpoints
  /\ d = [held |-> FALSE, command |-> IF launch.stopOnEntry THEN "stepInto" ELSE None,
          depth |-> 0, connected |-> TRUE, shown |-> None, waiting |-> launch.stopOnEntry,
          last |-> "stepInto", stepOver |-> None]
  /\ asked = [command |-> IF launch.stopOnEntry THEN "entry" ELSE "continue", from |-> 0,
            waiting |-> FALSE]
  /\ changes = 0

\* The program has ended, or holds for a user who has gone.
Over ==
  /\ Finished \/ (d.held /\ ~d.connected)
  /\ UNCHANGED vars

Next ==
  \/ onNodeEval \/ evaluateCondition
  \/ continueRequest \/ nextRequest \/ stepInRequest \/ stepOutRequest
  \/ setBreakPointsRequest \/ disconnectRequest
  \/ Over

\* The evaluator keeps evaluating, conditions come to a value.  The user is free.
Spec == Init /\ [][Next]_vars /\ WF_vars(onNodeEval) /\ WF_vars(evaluateCondition)

----------------------------------------------------------------------------
(* Properties.                                                              *)

\* Every variable has its type, and the evaluator awaits exactly while the
\* debugger holds the promise's resolve.
TypeOK ==
  /\ launch \in Launches
  /\ at \in 1..(Len(code) + 1)
  /\ state \in {"asks", "condition", "held"}
  /\ breakpoints \in [DOMAIN launch.breakpoints -> Kinds]
  /\ d \in Session
  /\ d.held <=> state = "held"
  /\ asked \in [command: Commands \cup {"entry", "changed"}, from: 0..Len(code),
                waiting: BOOLEAN]
  /\ changes \in 0..MaxChanges

\* A program is held exactly while the user is shown where it stands: a stop that
\* the adapter filters out goes on, a stop that is shown waits.
ShownIsHeld == d.connected => (d.held <=> d.shown # None)

\* The visit is on the lines, and in the file, of the expression a step over was asked at.
SameExpression(o, n) == n.file = o.file /\ WithinExpression(o, n)

\* Where the user wants a step to end: from the request alone, by the comments on the
\* commands (Debugger.ts:91-109) and on the adapter's filters (debugAdapter.ts:185-196).
\* A step over from a node without a position knows no file to filter by.
StepTarget(j) ==
  LET from == code[asked.from]
      n == code[j]
  IN  /\ n.file # None
      /\ \/ asked.command = "entry" /\ n.file = Entry
         \/ asked.command = "stepInto"
         \/ asked.command = "stepOut" /\ n.depth < from.depth
         \/ /\ asked.command = "stepOver"
            /\ n.depth <= from.depth
            /\ from.file # None =>
                 ~SameExpression(from, n) /\ (n.depth = from.depth => n.file = from.file)

\* The stops of a step that the adapter lets go unseen: synthetic nodes and, in a step
\* over, the lines of its expression.
Unseen(i) ==
  LET from == code[asked.from]
      n == code[i]
  IN  /\ breakpoints[n.id] = "none"
      /\ \/ n.file = None
         \/ asked.command = "stepOver" /\ from.file # None /\ WithinExpression(from, n)

\* Debugger.stop records the depth of an unseen stop too, and the command that is issued
\* again counts from there: after an unseen stop in a shallower call a step out passes
\* the calls it has not left since, a step over those it would have to go deeper for.
CountsFromUnseen(j) ==
  \E i \in (asked.from + 1)..(j - 1) :
    /\ Unseen(i) /\ code[i].depth < code[asked.from].depth
    /\ \/ asked.command = "stepOut" /\ code[j].depth >= code[i].depth
       \/ asked.command = "stepOver" /\ code[j].depth > code[i].depth

\* The adapter compares lines and not files: a caller in another file, on lines with
\* the same numbers, is taken for the expression.
AmongItsLines(j) ==
  /\ asked.command = "stepOver" /\ code[asked.from].file # None
  /\ WithinExpression(code[asked.from], code[j])

MayPass(j) ==
  /\ breakpoints[code[j].id] # "always"
  /\ breakpoints[code[j].id] = "none" /\ StepTarget(j) =>
       CountsFromUnseen(j) \/ AmongItsLines(j)

\* A step stops only where the user wants it to end.  It passes no breakpoint, and no
\* place where it should end except for the reasons named: the depth of an unseen stop,
\* another file's lines, a condition (see onNodeEval).  Nothing is said once breakpoints
\* were changed, or of a command given at a breakpoint before the entry file the
\* adapter waits for.
StopsWhereAsked ==
  asked.command # "changed" /\ ~asked.waiting /\ d.connected =>
    /\ d.shown = "step" => StepTarget(at)
    /\ d.shown = "breakpoint" => breakpoints[code[at].id] # "none"
    /\ \A j \in (asked.from + 1)..(at - 1) : MayPass(j)

\* Every command is answered: by a stop, by the end of the program, or the user
\* leaves.
CommandsAreAnswered == d.shown = None ~> (d.shown # None \/ Finished \/ ~d.connected)
====
