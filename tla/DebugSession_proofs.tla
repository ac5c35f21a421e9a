---- MODULE DebugSession_proofs ----
(***************************************************************************)
(* Proofs about DebugSession, for every program, every placing of          *)
(* breakpoints and whatever the user does: a program is held exactly while *)
(* it is shown, a step ends only where the user wants it to, and it passes *)
(* such a place for the named reasons alone.                               *)
(*                                                                         *)
(* The argument: until breakpoints change, the two controllers together    *)
(* hold the user's request (StepKept): the command that is issued again    *)
(* after a filtered stop is the one asked for.  The depth they count from  *)
(* is the one it was asked at or that of an unseen stop in a shallower     *)
(* call (CountedFrom); so no stop is too deep, and what is passed for it   *)
(* lies no shallower than such a stop.                                     *)
(***************************************************************************)
EXTENDS DebugSession, TLAPS

\* The request of the user is one the controllers still answer for.
Bound == d.connected /\ asked.command # "changed" /\ ~asked.waiting

\* A depth that the step may count from before visit j.
CountedFrom(x, j) ==
  \/ x = code[asked.from].depth
  \/ \E i \in (asked.from + 1)..(j - 1) :
       Unseen(i) /\ code[i].depth = x /\ x < code[asked.from].depth

\* While the program runs the debugger and the adapter hold the request.
StepKept ==
  Bound /\ ~d.held =>
    /\ asked.command = "entry" =>
         d.command = "stepInto" /\ d.last = "stepInto" /\ d.waiting /\ d.stepOver = None
    /\ asked.command = "continue" =>
         d.command \in {None, "continue"} /\ ~d.waiting /\ d.stepOver = None
    /\ asked.command \in {"stepInto", "stepOut"} =>
         /\ d.command = asked.command /\ d.last = asked.command /\ ~d.waiting
         /\ d.stepOver = None
    /\ asked.command = "stepOver" =>
         /\ d.command = "stepOver" /\ d.last = "stepOver" /\ ~d.waiting
         /\ d.stepOver = IF code[asked.from].file = None THEN None ELSE code[asked.from]
    /\ asked.command \in {"stepOut", "stepOver"} => CountedFrom(d.depth, at)

\* Where a step was asked for lies behind the program.
AskedOK ==
  /\ asked.from < at /\ asked.from \in 0..Len(code)
  /\ asked.command \in {"stepOver", "stepInto", "stepOut"} => asked.from >= 1

\* A program that is held stands at the node whose depth was recorded.
HeldOK ==
  /\ state \in {"condition", "held"} => ~Finished
  /\ d.held /\ d.connected => d.depth = code[at].depth /\ d.stepOver = None
  /\ state = "condition" /\ asked.command # "changed" => breakpoints[code[at].id] = "condition"

IInv == TypeOK /\ ShownIsHeld /\ StopsWhereAsked /\ AskedOK /\ HeldOK /\ StepKept

USE LaunchesAssumption

\* What is evaluated is a visit with a depth, and has its kind of breakpoint.
LEMMA VisitsHaveDepths ==
  ASSUME TypeOK, NEW j \in 1..Len(code)
  PROVE  /\ code \in Seq(Visits) /\ Len(code) \in Nat
         /\ code[j] \in Visits /\ code[j].depth \in Nat /\ code[j] # None
         /\ breakpoints[code[j].id] \in Kinds
<1>1. code \in Seq(Visits)
  BY DEF TypeOK, code
<1>2. Len(code) \in Nat /\ code[j] \in Visits
  BY <1>1
<1>3. code[j].id \in {n.id : n \in Range(code)}
  BY <1>1 DEF Range
<1>4. breakpoints \in [{n.id : n \in Range(code)} -> Kinds]
  BY DEF TypeOK, code
<1> QED
  BY <1>1, <1>2, <1>3, <1>4

\* What a step may count from, it may count from later on, and from the visit it is at
\* if that is unseen and shallower.
LEMMA CountedGrows ==
  ASSUME TypeOK, AskedOK, ~Finished, UNCHANGED <<launch, breakpoints, asked>>, at' = at + 1,
         \/ CountedFrom(d.depth, at) /\ d'.depth = d.depth
         \/ d'.depth = code[asked.from].depth
         \/ Unseen(at) /\ d'.depth = code[at].depth /\ d'.depth < code[asked.from].depth
  PROVE  CountedFrom(d.depth, at)'
<1>1. asked.from \in Nat /\ at \in Nat /\ asked.from < at
  BY DEF TypeOK, AskedOK
<1>2. (asked.from + 1)..(at + 1 - 1) = ((asked.from + 1)..(at - 1)) \cup {at}
  BY <1>1
<1>3. \A i : Unseen(i)' <=> Unseen(i)
  BY DEF Unseen, WithinExpression, code
<1>4. code' = code
  BY DEF code
<1> QED
  BY <1>1, <1>2, <1>3, <1>4 DEF CountedFrom

----------------------------------------------------------------------------
(* One stop of the debugger, filtered or shown.                             *)

Reasons == {"breakpoint", "step"}

\* A stop leaves a session behind.
LEMMA StoppedType ==
  ASSUME d \in Session, NEW r \in Reasons, NEW n, n.depth \in Nat
  PROVE  Stopped(d, r, n) \in Session
<1> DEFINE s == [d EXCEPT !.depth = n.depth, !.command = None, !.held = TRUE]
<1>1. s \in Session
  BY DEF Session, Commands
<1>2. \A e \in Session : /\ [e EXCEPT !.waiting = FALSE] \in Session
                         /\ \A c \in Commands : Skip(e, c) \in Session
                         /\ Show(e, r) \in Session
  <2>1. \A e \in Session : [e EXCEPT !.waiting = FALSE] \in Session
    BY DEF Session
  <2>2. \A e \in Session, c \in Commands : Skip(e, c) \in Session
    BY DEF Session, Skip, Command
  <2>3. \A e \in Session : Show(e, r) \in Session
    BY DEF Session, Show, Reasons
  <2> QED
    BY <2>1, <2>2, <2>3
<1>3. \A e \in Session : e.last \in Commands
  BY DEF Session
<1>4. {"stepInto", "stepOver"} \subseteq Commands
  BY DEF Commands
<1>5. onStopped(s, r, n) \in Session
  <2> HIDE DEF s
  <2>1. CASE WaitsForEntry(s, r, n)
    BY <2>1, <1>1, <1>2, <1>4 DEF onStopped
  <2>2. CASE ~WaitsForEntry(s, r, n)
    <3> DEFINE e == IF r = "step" THEN [s EXCEPT !.waiting = FALSE] ELSE s
    <3>1. e \in Session
      BY <1>1, <1>2
    <3> HIDE DEF e
    <3>2. /\ Skip(e, e.last) \in Session /\ Skip(e, "stepOver") \in Session
          /\ Show(e, r) \in Session
      BY <3>1, <1>2, <1>3, <1>4
    <3>3. onStopped(s, r, n) =
            IF r = "step" /\ n.file = None THEN Skip(e, e.last)
            ELSE IF SteppedOver(e, r, n) THEN Skip(e, "stepOver") ELSE Show(e, r)
      BY <2>2 DEF onStopped, e
    <3> QED
      BY <3>2, <3>3
  <2> QED
    BY <2>1, <2>2
<1> QED
  BY <1>5 DEF Stopped

\* The fields after a stop with a client: shown, or passed on with a command.
LEMMA StoppedFields ==
  ASSUME d \in Session, d.connected, d.shown = None, NEW r \in Reasons, NEW n, n.depth \in Nat,
         NEW s, s = Stopped(d, r, n)
  PROVE  /\ s.depth = n.depth /\ s.connected /\ s.last = d.last
         /\ \/ /\ s.held /\ s.shown = r /\ s.stepOver = None /\ s.command = None
               /\ s.waiting = (d.waiting /\ r # "step")
               /\ r = "step" => n.file # None /\ ~SteppedOver(d, r, n)
               /\ r = "step" /\ d.waiting => n.file = Entry
            \/ /\ ~s.held /\ s.shown = None /\ s.stepOver = d.stepOver /\ r = "step"
               /\ \/ d.waiting /\ s.waiting /\ n.file # Entry /\ s.command = "stepInto"
                  \/ /\ ~s.waiting /\ (d.waiting => n.file = Entry)
                     /\ \/ n.file = None /\ s.command = d.last
                        \/ n.file # None /\ SteppedOver(d, r, n) /\ s.command = "stepOver"
<1> DEFINE t == [d EXCEPT !.depth = n.depth, !.command = None, !.held = TRUE]
<1>1. /\ t.depth = n.depth /\ t.held /\ t.connected /\ t.last = d.last /\ t.waiting = d.waiting
      /\ t.stepOver = d.stepOver /\ t.shown = None /\ t.command = None /\ t \in Session
  BY DEF Session, Commands
<1>2. s = onStopped(t, r, n)
  BY DEF Stopped
<1> HIDE DEF t
<1>3. CASE WaitsForEntry(t, r, n)
  <2>1. s = [t EXCEPT !.command = "stepInto", !.held = FALSE]
    BY <1>1, <1>2, <1>3 DEF onStopped, Skip, Command
  <2> QED
    BY <1>1, <1>3, <2>1 DEF WaitsForEntry, Session
<1>4. CASE ~WaitsForEntry(t, r, n)
  <2> DEFINE e == IF r = "step" THEN [t EXCEPT !.waiting = FALSE] ELSE t
  <2>1. /\ e.depth = n.depth /\ e.held /\ e.connected /\ e.last = d.last
        /\ e.waiting = (d.waiting /\ r # "step")
        /\ e.stepOver = d.stepOver /\ e.shown = None /\ e.command = None /\ e \in Session
    BY <1>1 DEF Session
  <2>2. SteppedOver(e, r, n) <=> SteppedOver(d, r, n)
    BY <2>1 DEF SteppedOver
  <2>3. s = IF r = "step" /\ n.file = None THEN Skip(e, e.last)
            ELSE IF SteppedOver(e, r, n) THEN Skip(e, "stepOver") ELSE Show(e, r)
    BY <1>2, <1>4 DEF onStopped
  <2>4. r = "step" /\ d.waiting => n.file = Entry
    BY <1>1, <1>4 DEF WaitsForEntry
  <2> HIDE DEF e
  <2>5. CASE r = "step" /\ n.file = None
    <3>0. s = Skip(e, d.last)
      BY <2>1, <2>3, <2>5
    <3>1. s = [e EXCEPT !.command = d.last, !.held = FALSE]
      BY <2>1, <3>0 DEF Skip, Command
    <3> QED
      BY <2>1, <2>4, <2>5, <3>1 DEF Session
  <2>6. CASE ~(r = "step" /\ n.file = None) /\ SteppedOver(e, r, n)
    <3>1. s = [e EXCEPT !.command = "stepOver", !.held = FALSE]
      BY <2>1, <2>3, <2>6 DEF Skip, Command
    <3>2. r = "step"
      BY <2>6 DEF SteppedOver
    <3> QED
      BY <2>1, <2>2, <2>4, <2>6, <3>1, <3>2 DEF Session
  <2>7. CASE ~(r = "step" /\ n.file = None) /\ ~SteppedOver(e, r, n)
    <3>1. s = [e EXCEPT !.shown = r, !.stepOver = None]
      BY <2>3, <2>7 DEF Show
    <3> QED
      BY <2>1, <2>2, <2>4, <2>7, <3>1 DEF Session
  <2> QED
    BY <2>5, <2>6, <2>7
<1> QED
  BY <1>3, <1>4

----------------------------------------------------------------------------
(* What a visit means for the request, and for what the controllers hold.   *)

\* The debugger's depth is the one the step was asked at, or a shallower one.
LEMMA DepthIsCounted ==
  ASSUME IInv, ~Finished, ~d.held, Bound, asked.command \in {"stepOver", "stepOut"}
  PROVE  /\ CountedFrom(d.depth, at) /\ asked.from \in 1..Len(code)
         /\ d.depth \in Nat /\ code[asked.from].depth \in Nat
         /\ d.depth <= code[asked.from].depth
<1>1. CountedFrom(d.depth, at)
  BY DEF IInv, StepKept
<1>2. asked.from \in 1..Len(code) /\ d.depth \in Nat
  BY DEF IInv, TypeOK, AskedOK, Session
<1>3. code[asked.from].depth \in Nat
  BY <1>2, VisitsHaveDepths DEF IInv
<1> QED
  BY <1>1, <1>2, <1>3 DEF CountedFrom

\* A place where the step should end, and that the debugger passes by its depth, is
\* passed because the step counts from an unseen stop.
LEMMA PassedByDepth ==
  ASSUME IInv, ~Finished, ~d.held, Bound, asked.command \in {"stepOver", "stepOut"},
         StepTarget(at), ~StepStops(code[at])
  PROVE  CountsFromUnseen(at)
<1>1. code[at].depth \in Nat
  BY VisitsHaveDepths DEF IInv, TypeOK, Finished, code
<1>2. /\ asked.from \in 1..Len(code) /\ d.depth \in Nat /\ code[asked.from].depth \in Nat
      /\ CountedFrom(d.depth, at) /\ d.command = asked.command
  BY DepthIsCounted DEF IInv, StepKept
<1>3. d.depth # code[asked.from].depth
  BY <1>1, <1>2 DEF StepStops, StepTarget
<1>4. PICK i \in (asked.from + 1)..(at - 1) :
        Unseen(i) /\ code[i].depth = d.depth /\ d.depth < code[asked.from].depth
  BY <1>2, <1>3 DEF CountedFrom
<1> QED
  BY <1>1, <1>2, <1>4 DEF CountsFromUnseen, StepStops

\* The stop that is shown is the step's target, and a visit the debugger or the adapter
\* passes is one the step may pass.
LEMMA StopsAreTargets ==
  ASSUME IInv, ~Finished, ~d.held, Bound, d.shown = None,
         NEW n, n = code[at], breakpoints[n.id] = "none"
  PROVE  /\ ~StepStops(n) => MayPass(at)
         /\ n.file = None => MayPass(at)
         /\ SteppedOver(d, "step", n) => MayPass(at)
         /\ d.waiting /\ n.file # Entry => MayPass(at)
         /\ /\ StepStops(n) /\ n.file # None /\ ~SteppedOver(d, "step", n)
            /\ d.waiting => n.file = Entry
            => StepTarget(at)
<1>1. n.depth \in Nat /\ at \in 1..Len(code)
  BY VisitsHaveDepths DEF IInv, TypeOK, Finished, code
<1>2. StepKept
  BY DEF IInv
<1>3. asked.command \in {"entry", "continue", "stepInto", "stepOut", "stepOver"}
  BY DEF IInv, TypeOK, Commands, Bound
<1>4. None \notin {"stepInto", "stepOver", "stepOut"}
  BY DEF Commands
<1>5. CASE asked.command \in {"entry", "continue", "stepInto"}
  BY <1>1, <1>2, <1>4, <1>5 DEF StepKept, StepTarget, StepStops, SteppedOver, MayPass
<1>6. CASE asked.command = "stepOut"
  <2>1. d.command = "stepOut" /\ ~d.waiting /\ d.stepOver = None
    BY <1>2, <1>6 DEF StepKept
  <2>2. ~StepStops(n) => MayPass(at)
    BY <1>6, PassedByDepth DEF MayPass
  <2>3. n.file = None => MayPass(at)
    BY DEF MayPass, StepTarget
  <2>4. StepStops(n) /\ n.file # None => StepTarget(at)
    BY <1>1, <1>6, <2>1, DepthIsCounted DEF StepStops, StepTarget
  <2> QED
    BY <2>1, <2>2, <2>3, <2>4 DEF SteppedOver
<1>7. CASE asked.command = "stepOver"
  <2>1. /\ asked.from \in 1..Len(code) /\ d.depth \in Nat /\ code[asked.from].depth \in Nat
        /\ d.depth <= code[asked.from].depth
    BY <1>7, DepthIsCounted
  <2>2. code[asked.from] # None
    BY <2>1, VisitsHaveDepths DEF IInv
  <2>3. /\ d.command = "stepOver" /\ ~d.waiting
        /\ d.stepOver = IF code[asked.from].file = None THEN None ELSE code[asked.from]
    BY <1>2, <1>7 DEF StepKept
  <2>4. ~StepStops(n) => MayPass(at)
    BY <1>7, PassedByDepth DEF MayPass
  <2>5. n.file = None => MayPass(at)
    BY DEF MayPass, StepTarget
  <2>6. SteppedOver(d, "step", n) <=>
          /\ code[asked.from].file # None
          /\ \/ WithinExpression(code[asked.from], n)
             \/ n.depth = code[asked.from].depth /\ n.file # code[asked.from].file
    BY <2>2, <2>3 DEF SteppedOver
  <2>7. SteppedOver(d, "step", n) => MayPass(at)
    BY <1>7, <2>6 DEF MayPass, StepTarget, AmongItsLines
  <2>8. StepStops(n) => n.depth <= code[asked.from].depth
    BY <1>1, <2>1, <2>3 DEF StepStops
  <2>9. StepStops(n) /\ n.file # None /\ ~SteppedOver(d, "step", n) => StepTarget(at)
    BY <1>7, <2>6, <2>8 DEF StepTarget, SameExpression
  <2> QED
    BY <2>3, <2>4, <2>5, <2>7, <2>9
<1> QED
  BY <1>3, <1>5, <1>6, <1>7

\* The program goes past a visit that the step may pass.
LEMMA GoesOn ==
  ASSUME IInv, ~Finished, ~d.held, UNCHANGED <<launch, breakpoints, asked, changes>>, Proceed,
         d' \in Session, ~d'.held, d'.connected = d.connected,
         d.connected => d'.shown = None, Bound => MayPass(at), StepKept'
  PROVE  IInv'
<1>1. code' = code /\ at \in 1..Len(code) /\ Len(code) \in Nat /\ at' = at + 1 /\ state' = "asks"
  BY DEF code, IInv, TypeOK, Finished, Proceed
<1>2. TypeOK'
  BY <1>1 DEF IInv, TypeOK, code
<1>3. ShownIsHeld'
  BY <1>1 DEF ShownIsHeld
<1>4. StopsWhereAsked'
  <2>1. SUFFICES ASSUME Bound PROVE \A j \in (asked.from + 1)..at : MayPass(j)'
    BY <1>1 DEF StopsWhereAsked, Bound
  <2>2. \A j \in (asked.from + 1)..(at - 1) : MayPass(j)
    BY <2>1 DEF IInv, StopsWhereAsked, Bound
  <2>3. MayPass(at)
    BY <2>1
  <2>4. asked.from \in Nat
    BY DEF IInv, TypeOK
  <2>5. \A j : MayPass(j)' <=> MayPass(j)
    BY DEF MayPass, StepTarget, SameExpression, CountsFromUnseen, Unseen,
             AmongItsLines, WithinExpression, code
  <2>6. \A j \in (asked.from + 1)..at : j \in (asked.from + 1)..(at - 1) \/ j = at
    BY <1>1, <2>4
  <2> QED
    BY <2>2, <2>3, <2>5, <2>6
<1>5. AskedOK' /\ HeldOK'
  BY <1>1 DEF IInv, AskedOK, HeldOK, TypeOK
<1> QED
  BY <1>2, <1>3, <1>4, <1>5 DEF IInv

\* A request is kept when the program passes a visit without a stop.
LEMMA PassingKeeps ==
  ASSUME IInv, ~Finished, ~d.held, UNCHANGED <<launch, breakpoints, asked, d>>, at' = at + 1
  PROVE  StepKept'
<1> SUFFICES ASSUME Bound PROVE StepKept'
  BY DEF StepKept, Bound
<1>1. code' = code /\ code[at].depth \in Nat
  BY VisitsHaveDepths DEF code, IInv, TypeOK, Finished
<1>2. CASE asked.command \notin {"stepOut", "stepOver"}
  BY <1>1, <1>2 DEF IInv, StepKept, Bound, TypeOK, Commands
<1>3. CASE asked.command \in {"stepOut", "stepOver"}
  <2>1. CountedFrom(d.depth, at)'
    BY <1>3, CountedGrows DEF IInv, StepKept
  <2> QED
    BY <1>1, <1>3, <2>1 DEF IInv, StepKept, Bound
<1> QED
  BY <1>2, <1>3

\* A request is kept when the adapter passes a stop on: the command is the same, and
\* the depth that the stop has overwritten is one the step may count from.
LEMMA SkippingKeeps ==
  ASSUME IInv, ~Finished, ~d.held, d.connected => d.shown = None,
         UNCHANGED <<launch, breakpoints, asked>>, at' = at + 1,
         breakpoints[code[at].id] = "none", StepStops(code[at]),
         d' = Stopped(d, "step", code[at]), ~d'.held
  PROVE  StepKept'
<1> SUFFICES ASSUME Bound PROVE StepKept'
  <2>1. CASE ~d.connected
    <3>1. d'.connected = FALSE
      BY <2>1 DEF Stopped, onStopped, Skip, Command, Show, IInv, TypeOK, Session
    <3> QED
      BY <3>1 DEF StepKept, Bound
  <2>2. CASE d.connected
    BY <2>2 DEF StepKept, Bound
  <2> QED
    BY <2>1, <2>2
<1> DEFINE n == code[at]
<1>1. code' = code /\ n.depth \in Nat /\ d \in Session /\ d.connected
  BY VisitsHaveDepths DEF code, IInv, TypeOK, Finished, Bound
<1>2. /\ d'.depth = n.depth /\ d'.connected /\ d'.last = d.last /\ d'.stepOver = d.stepOver
      /\ \/ d.waiting /\ d'.waiting /\ n.file # Entry /\ d'.command = "stepInto"
         \/ /\ ~d'.waiting /\ (d.waiting => n.file = Entry)
            /\ \/ n.file = None /\ d'.command = d.last
               \/ n.file # None /\ SteppedOver(d, "step", n) /\ d'.command = "stepOver"
  BY <1>1, StoppedFields DEF Reasons
<1>3. asked.command # "continue"
  BY DEF IInv, StepKept, StepStops, Bound, Commands
<1>4. CASE asked.command = "entry"
  <2>1. d.command = "stepInto" /\ d.waiting /\ d.stepOver = None /\ d.last = "stepInto"
    BY <1>4 DEF IInv, StepKept
  <2> QED
    BY <1>1, <1>2, <1>4, <2>1 DEF StepKept, Bound, SteppedOver
<1>5. CASE asked.command = "stepInto"
  <2>1. d.command = "stepInto" /\ ~d.waiting /\ d.stepOver = None /\ d.last = "stepInto"
    BY <1>5 DEF IInv, StepKept
  <2> QED
    BY <1>1, <1>2, <1>5, <2>1 DEF StepKept, Bound, SteppedOver
<1>6. CASE asked.command = "stepOut"
  <2>1. d.command = "stepOut" /\ ~d.waiting /\ d.stepOver = None /\ d.last = "stepOut"
    BY <1>6 DEF IInv, StepKept
  <2>2. n.file = None /\ d'.command = "stepOut" /\ ~d'.waiting /\ d'.stepOver = None
    BY <1>2, <2>1 DEF SteppedOver
  <2>3. n.depth < code[asked.from].depth
    BY <1>1, <1>6, <2>1, DepthIsCounted DEF StepStops
  <2>4. CountedFrom(d.depth, at)'
    BY <1>2, <2>2, <2>3, CountedGrows DEF IInv, Unseen
  <2> QED
    BY <1>1, <1>2, <1>6, <2>1, <2>2, <2>4 DEF StepKept, Bound
<1>7. CASE asked.command = "stepOver"
  <2>1. /\ d.command = "stepOver" /\ ~d.waiting /\ d.last = "stepOver"
        /\ d.stepOver = IF code[asked.from].file = None THEN None ELSE code[asked.from]
    BY <1>7 DEF IInv, StepKept
  <2>2. d'.command = "stepOver" /\ ~d'.waiting
    BY <1>2, <2>1
  <2>3. n.depth <= code[asked.from].depth /\ code[asked.from].depth \in Nat
    BY <1>1, <1>7, <2>1, DepthIsCounted DEF StepStops
  <2>4. CountedFrom(d.depth, at)'
    <3>1. CASE n.depth = code[asked.from].depth
      BY <1>2, <3>1, CountedGrows DEF IInv
    <3>2. CASE n.depth # code[asked.from].depth
      <4>1. asked.from \in 1..Len(code) /\ code[asked.from] # None
        BY <1>7, DepthIsCounted, VisitsHaveDepths DEF IInv
      <4>2. n.file = None \/ SteppedOver(d, "step", n)
        BY <1>2, <2>1
      <4>3. Unseen(at)
        BY <1>7, <2>1, <3>2, <4>1, <4>2 DEF Unseen, SteppedOver
      <4>4. n.depth < code[asked.from].depth
        BY <1>1, <2>3, <3>2
      <4> QED
        BY <1>2, <4>3, <4>4, CountedGrows DEF IInv
    <3> QED
      BY <3>1, <3>2
  <2> QED
    BY <1>1, <1>2, <1>7, <2>1, <2>2, <2>4 DEF StepKept, Bound
<1> QED
  BY <1>3, <1>4, <1>5, <1>6, <1>7 DEF IInv, TypeOK, Commands, Bound

----------------------------------------------------------------------------
(* The actions.                                                             *)

\* The program starts with nothing passed and the first request in place.
LEMMA InitInv == Init => IInv
<1> SUFFICES ASSUME Init PROVE IInv
  OBVIOUS
<1>0. /\ launch \in Launches /\ launch.code \in Seq(Visits) /\ launch.stopOnEntry \in BOOLEAN
      /\ launch.breakpoints \in [{n.id : n \in Range(launch.code)} -> Kinds]
  BY DEF Init
<1>1. code \in Seq(Visits) /\ Len(code) \in Nat
  BY <1>0 DEF code
<1>2. TypeOK
  <2>1. breakpoints \in [DOMAIN launch.breakpoints -> Kinds]
    BY <1>0 DEF Init
  <2>2. d \in Session
    BY <1>0 DEF Init, Session, Commands
  <2> QED
  BY <1>0, <1>1, <2>1, <2>2 DEF Init, TypeOK, Session, Commands, code
<1>3. ShownIsHeld /\ AskedOK /\ HeldOK /\ StepKept
  BY <1>1 DEF Init, ShownIsHeld, AskedOK, HeldOK, StepKept, Bound
<1>4. StopsWhereAsked
  BY <1>1 DEF Init, StopsWhereAsked
<1> QED
  BY <1>2, <1>3, <1>4 DEF IInv

\* A stop without a client holds the program.
LEMMA StoppedAlone ==
  ASSUME d \in Session, ~d.connected, NEW r \in Reasons, NEW n, n.depth \in Nat
  PROVE  Stopped(d, r, n).held /\ ~Stopped(d, r, n).connected
<1> DEFINE t == [d EXCEPT !.depth = n.depth, !.command = None, !.held = TRUE]
           e == IF r = "step" THEN [t EXCEPT !.waiting = FALSE] ELSE t
<1>1. t.held /\ ~t.connected /\ t \in Session
  BY DEF Session, Commands
<1>2. Stopped(d, r, n) = onStopped(t, r, n)
  BY DEF Stopped
<1> HIDE DEF t
<1>3. e.held /\ ~e.connected /\ e \in Session
  BY <1>1 DEF Session
<1>4. onStopped(t, r, n) =
        IF WaitsForEntry(t, r, n) THEN Skip(t, "stepInto")
        ELSE IF r = "step" /\ n.file = None THEN Skip(e, e.last)
        ELSE IF SteppedOver(e, r, n) THEN Skip(e, "stepOver") ELSE Show(e, r)
  BY DEF onStopped
<1> HIDE DEF e
<1>5. /\ Skip(t, "stepInto") = t /\ Skip(e, e.last) = e /\ Skip(e, "stepOver") = e
      /\ Show(e, r).held /\ ~Show(e, r).connected
  BY <1>1, <1>3 DEF Skip, Show, Session
<1> QED
  BY <1>1, <1>2, <1>3, <1>4, <1>5

\* A stop at a visit that the debugger wants, whatever the adapter makes of it.
LEMMA StopInv ==
  ASSUME IInv, ~Finished, ~d.held, UNCHANGED <<launch, breakpoints, asked, changes>>,
         NEW r \in Reasons, stop(r),
         r = "step" => breakpoints[code[at].id] = "none" /\ StepStops(code[at]),
         r = "breakpoint" /\ asked.command # "changed" => breakpoints[code[at].id] # "none"
  PROVE  IInv'
<1> DEFINE n == code[at]
<1>1. /\ n.depth \in Nat /\ d \in Session /\ at \in 1..Len(code) /\ Len(code) \in Nat
      /\ n.id \in {m.id : m \in Range(code)}
  BY VisitsHaveDepths DEF IInv, TypeOK, Finished, code, Range
<1>2. d' = Stopped(d, r, n) /\ d' \in Session
  BY <1>1, StoppedType DEF stop
<1>3. d.connected => d.shown = None
  BY DEF IInv, ShownIsHeld
<1>4. d'.connected = d.connected
  BY <1>1, <1>2, <1>3, StoppedAlone, StoppedFields DEF Session
<1>5. CASE d'.held
  <2>1. state' = "held" /\ at' = at /\ code' = code
    BY <1>5 DEF stop, code
  <2>2. TypeOK' /\ AskedOK'
    BY <1>2, <1>5, <2>1 DEF IInv, TypeOK, AskedOK, code
  <2>3. StepKept'
    BY <1>5 DEF StepKept
  <2>4. CASE ~d.connected
    BY <1>1, <1>4, <2>1, <2>2, <2>3, <2>4
       DEF IInv, ShownIsHeld, StopsWhereAsked, HeldOK, Finished
  <2>5. CASE d.connected
    <3>1. /\ d'.depth = n.depth /\ d'.shown = r /\ d'.stepOver = None
          /\ r = "step" => n.file # None /\ ~SteppedOver(d, r, n)
          /\ r = "step" /\ d.waiting => n.file = Entry
      BY <1>1, <1>2, <1>3, <1>5, <2>5, StoppedFields
    <3>2. ShownIsHeld' /\ HeldOK'
      BY <1>1, <1>5, <2>1, <3>1 DEF ShownIsHeld, HeldOK, Finished, Reasons
    <3>3. StopsWhereAsked'
      <4> SUFFICES ASSUME Bound PROVE StopsWhereAsked'
        BY <1>4 DEF StopsWhereAsked, Bound
      <4>1. \A j \in (asked.from + 1)..(at - 1) : MayPass(j)
        BY DEF IInv, StopsWhereAsked, Bound
      <4>2. \A j \in (asked.from + 1)..(at - 1) : MayPass(j)'
        <5>1. \A j : MayPass(j)' <=> MayPass(j)
          BY DEF MayPass, StepTarget, SameExpression, CountsFromUnseen, Unseen,
             AmongItsLines, WithinExpression, code
        <5> QED
          BY <4>1, <5>1
      <4>3. r = "step" => StepTarget(at)
        BY <1>3, <2>5, <3>1, StopsAreTargets
      <4>4. r = "step" => StepTarget(at)'
        BY <2>1, <4>3 DEF StepTarget, SameExpression, WithinExpression, code
      <4>5. r = "breakpoint" => breakpoints'[code[at].id] # "none"
        BY DEF Bound
      <4> QED
        BY <2>1, <3>1, <4>2, <4>4, <4>5 DEF StopsWhereAsked
    <3> QED
      BY <2>2, <2>3, <3>2, <3>3 DEF IInv
  <2> QED
    BY <2>4, <2>5
<1>6. CASE ~d'.held
  <2>1. Proceed /\ d.connected
    BY <1>1, <1>2, <1>6, StoppedAlone DEF stop
  <2>2. /\ r = "step" /\ d'.shown = None
        /\ \/ d.waiting /\ n.file # Entry
           \/ n.file = None
           \/ SteppedOver(d, "step", n)
    BY <1>1, <1>2, <1>3, <1>6, <2>1, StoppedFields
  <2>3. StepKept'
    BY <1>2, <1>3, <1>6, <2>1, <2>2, SkippingKeeps DEF Proceed
  <2>4. Bound => MayPass(at)
    BY <1>3, <2>1, <2>2, StopsAreTargets
  <2> QED
    BY <1>2, <1>4, <1>6, <2>1, <2>2, <2>3, <2>4, GoesOn
<1> QED
  BY <1>5, <1>6

\* Stopping or not, the hook keeps the invariant.
LEMMA onNodeEvalInv == IInv /\ onNodeEval => IInv'
<1> SUFFICES ASSUME IInv, onNodeEval PROVE IInv'
  OBVIOUS
<1> DEFINE kind == breakpoints[code[at].id]
<1>1. ~Finished /\ ~d.held /\ UNCHANGED <<launch, breakpoints, asked, changes>> /\ state = "asks"
  BY DEF onNodeEval, IInv, TypeOK
<1>2. CASE kind = "always" /\ stop("breakpoint")
  BY <1>1, <1>2, StopInv DEF Reasons
<1>3. CASE kind = "condition" /\ state' = "condition" /\ UNCHANGED <<at, d>>
  <2>1. code' = code
    BY <1>1 DEF code
  <2>2. TypeOK'
    BY <1>1, <1>3, <2>1 DEF IInv, TypeOK, code
  <2>3. ShownIsHeld' /\ AskedOK' /\ HeldOK'
    BY <1>1, <1>3, <2>1 DEF IInv, ShownIsHeld, AskedOK, HeldOK, Finished
  <2>4. StopsWhereAsked'
    <3>1. \A j : MayPass(j)' <=> MayPass(j)
      BY <1>1 DEF MayPass, StepTarget, SameExpression, CountsFromUnseen, Unseen,
             AmongItsLines, WithinExpression, code
    <3>2. d.connected => d.shown = None
      BY <1>1 DEF IInv, ShownIsHeld
    <3> QED
      BY <1>1, <1>3, <3>1, <3>2 DEF IInv, StopsWhereAsked
  <2>5. StepKept'
    BY <1>1, <1>3 DEF IInv, StepKept, Bound, CountedFrom, Unseen, WithinExpression, code
  <2> QED
    BY <2>2, <2>3, <2>4, <2>5 DEF IInv
<1>4. CASE kind = "none" /\ StepStops(code[at]) /\ stop("step")
  BY <1>1, <1>4, StopInv DEF Reasons
<1>5. CASE kind = "none" /\ ~StepStops(code[at]) /\ Proceed /\ UNCHANGED d
  <2>1. StepKept'
    BY <1>1, <1>5, PassingKeeps DEF Proceed
  <2>2. d \in Session /\ (d.connected => d.shown = None)
    BY <1>1 DEF IInv, TypeOK, ShownIsHeld
  <2>3. Bound => MayPass(at)
    BY <1>1, <1>5, <2>2, StopsAreTargets DEF Bound
  <2> QED
    BY <1>1, <1>5, <2>1, <2>2, <2>3, GoesOn
<1> QED
  BY <1>2, <1>3, <1>4, <1>5 DEF onNodeEval

\* A condition that holds stops the program, one that does not hides its node.
LEMMA evaluateConditionInv == IInv /\ evaluateCondition => IInv'
<1> SUFFICES ASSUME IInv, evaluateCondition PROVE IInv'
  OBVIOUS
<1>1. /\ ~Finished /\ ~d.held /\ UNCHANGED <<launch, breakpoints, asked, changes>>
      /\ asked.command # "changed" => breakpoints[code[at].id] = "condition"
  BY DEF evaluateCondition, IInv, TypeOK, HeldOK
<1>2. CASE stop("breakpoint")
  BY <1>1, <1>2, StopInv DEF Reasons
<1>3. CASE Proceed /\ UNCHANGED d
  <2>1. d \in Session /\ (d.connected => d.shown = None)
    BY <1>1 DEF IInv, TypeOK, ShownIsHeld
  <2>2. StepKept'
    <3>1. CASE asked.command = "changed"
      BY <1>1, <1>3, <3>1 DEF StepKept, Bound
    <3>2. CASE asked.command # "changed"
      BY <1>1, <1>3, <3>2, PassingKeeps DEF Proceed
    <3> QED
      BY <3>1, <3>2
  <2>3. Bound => MayPass(at)
    BY <1>1 DEF MayPass, Bound
  <2> QED
    BY <1>1, <1>3, <2>1, <2>2, <2>3, GoesOn
<1> QED
  BY <1>2, <1>3 DEF evaluateCondition

\* A request takes the program past the visit it is shown at, with the visit's depth
\* as the first one the step has seen.
LEMMA RequestInv ==
  ASSUME IInv, Answerable, NEW c \in Commands, NEW s \in Session, Request(s, c),
         s.connected, s.shown = None, s.depth = d.depth, s.waiting = d.waiting,
         s.stepOver = IF c = "stepOver" /\ code[at].file # None THEN code[at] ELSE None,
         c # "continue" => s.last = c
  PROVE  IInv'
<1>1. d.held /\ state = "held" /\ ~Finished /\ d.depth = code[at].depth
  BY DEF IInv, TypeOK, ShownIsHeld, HeldOK, Answerable
<1>2. /\ at \in 1..Len(code) /\ Len(code) \in Nat /\ code' = code /\ code[at].depth \in Nat
  BY <1>1, VisitsHaveDepths DEF IInv, TypeOK, Finished, Request, code
<1>3. /\ d'.command = c /\ ~d'.held /\ d'.connected /\ d'.shown = None /\ d'.depth = code[at].depth
      /\ d'.waiting = d.waiting /\ d'.stepOver = s.stepOver /\ d'.last = s.last /\ d' \in Session
  BY <1>1 DEF Request, Command, Session
<1>4. /\ at' = at + 1 /\ state' = "asks" /\ UNCHANGED <<launch, breakpoints, changes>>
      /\ asked' = [command |-> c, from |-> at, waiting |-> d.waiting]
  BY DEF Request, Proceed
<1>5. d.waiting \in BOOLEAN
  BY DEF IInv, TypeOK, Session
<1>6. TypeOK'
  BY <1>2, <1>3, <1>4, <1>5 DEF IInv, TypeOK, code
<1>7. ShownIsHeld' /\ AskedOK' /\ HeldOK'
  BY <1>2, <1>3, <1>4 DEF ShownIsHeld, AskedOK, HeldOK
<1>8. StopsWhereAsked'
  BY <1>2, <1>3, <1>4 DEF StopsWhereAsked
<1>9. StepKept'
  <2>1. CountedFrom(d.depth, at)'
    BY <1>2, <1>3, <1>4 DEF CountedFrom
  <2>2. Bound' => ~d'.waiting
    BY <1>3, <1>4 DEF Bound
  <2> QED
    BY <1>2, <1>3, <1>4, <2>1, <2>2 DEF StepKept, Commands
<1> QED
  BY <1>6, <1>7, <1>8, <1>9 DEF IInv

\* The four requests of a user who is shown a stop.
LEMMA RequestsInv ==
  IInv /\ (continueRequest \/ stepInRequest \/ stepOutRequest \/ nextRequest) => IInv'
<1> SUFFICES ASSUME IInv, continueRequest \/ stepInRequest \/ stepOutRequest \/ nextRequest
             PROVE  IInv'
  OBVIOUS
<1>1. Answerable
  BY DEF continueRequest, stepInRequest, stepOutRequest, nextRequest
<1>2. d \in Session /\ d.connected /\ d.stepOver = None
  BY <1>1 DEF IInv, TypeOK, ShownIsHeld, HeldOK, Answerable
<1>3. code[at] \in Visits
  BY <1>1, VisitsHaveDepths DEF IInv, TypeOK, ShownIsHeld, HeldOK, Answerable, Finished, code
<1>4. CASE continueRequest
  <2> DEFINE s == [d EXCEPT !.shown = None]
  <2>1. /\ s \in Session /\ s.connected /\ s.shown = None /\ s.depth = d.depth
        /\ s.waiting = d.waiting /\ s.stepOver = None
    BY <1>2 DEF Session
  <2>2. Request(s, "continue")
    BY <1>4 DEF continueRequest
  <2> HIDE DEF s
  <2> QED
    BY <1>1, <2>1, <2>2, RequestInv DEF Commands
<1>5. CASE stepInRequest
  <2> DEFINE s == [d EXCEPT !.shown = None, !.last = "stepInto"]
  <2>1. /\ s \in Session /\ s.connected /\ s.shown = None /\ s.depth = d.depth
        /\ s.waiting = d.waiting /\ s.stepOver = None /\ s.last = "stepInto"
    BY <1>2 DEF Session, Commands
  <2>2. Request(s, "stepInto")
    BY <1>5 DEF stepInRequest
  <2> HIDE DEF s
  <2> QED
    BY <1>1, <2>1, <2>2, RequestInv DEF Commands
<1>6. CASE stepOutRequest
  <2> DEFINE s == [d EXCEPT !.shown = None, !.last = "stepOut"]
  <2>1. /\ s \in Session /\ s.connected /\ s.shown = None /\ s.depth = d.depth
        /\ s.waiting = d.waiting /\ s.stepOver = None /\ s.last = "stepOut"
    BY <1>2 DEF Session, Commands
  <2>2. Request(s, "stepOut")
    BY <1>6 DEF stepOutRequest
  <2> HIDE DEF s
  <2> QED
    BY <1>1, <2>1, <2>2, RequestInv DEF Commands
<1>7. CASE nextRequest
  <2> DEFINE o == IF code[at].file = None THEN None ELSE code[at]
             s == [d EXCEPT !.shown = None, !.last = "stepOver", !.stepOver = o]
  <2>1. o \in {None} \cup Visits
    BY <1>3
  <2>2. Request(s, "stepOver") /\ o = IF code[at].file # None THEN code[at] ELSE None
    BY <1>7 DEF nextRequest
  <2> HIDE DEF o
  <2>3. /\ s \in Session /\ s.connected /\ s.shown = None /\ s.depth = d.depth
        /\ s.waiting = d.waiting /\ s.stepOver = o /\ s.last = "stepOver"
    BY <1>2, <2>1 DEF Session, Commands
  <2> HIDE DEF s
  <2> QED
    BY <1>1, <2>2, <2>3, RequestInv DEF Commands
<1> QED
  BY <1>4, <1>5, <1>6, <1>7

\* With new breakpoints nothing is claimed of the request under way.
LEMMA setBreakPointsInv == IInv /\ setBreakPointsRequest => IInv'
<1> SUFFICES ASSUME IInv, setBreakPointsRequest PROVE IInv'
  OBVIOUS
<1>1. /\ UNCHANGED <<launch, at, state, d>> /\ changes' = changes + 1 /\ changes < MaxChanges
      /\ asked' = [asked EXCEPT !.command = "changed"]
  BY DEF setBreakPointsRequest
<1>2. breakpoints' \in [DOMAIN launch.breakpoints -> Kinds]
  <2>1. PICK file \in {n.file : n \in Range(code)} \ {None}, kind \in Kinds \ {"none"} :
          \E ids \in {{}} \cup {{n.id} : n \in {m \in Range(code) : m.file = file}} :
            applyBreakpoints(file, ids, kind)
    BY Zenon DEF setBreakPointsRequest
  <2>2. DOMAIN breakpoints = DOMAIN launch.breakpoints /\ \A i \in DOMAIN breakpoints : breakpoints[i] \in Kinds
    BY DEF IInv, TypeOK
  <2> QED
    BY <2>1, <2>2 DEF applyBreakpoints, Kinds
<1>3. code' = code
  BY <1>1 DEF code
<1>4. /\ asked'.command = "changed" /\ asked'.from = asked.from
      /\ asked' \in [command: Commands \cup {"entry", "changed"}, from: 0..Len(code), waiting: BOOLEAN]
  BY <1>1 DEF IInv, TypeOK
<1>5. TypeOK'
  BY <1>1, <1>2, <1>3, <1>4 DEF IInv, TypeOK, code
<1>6. ShownIsHeld' /\ StopsWhereAsked' /\ AskedOK' /\ HeldOK' /\ StepKept'
  BY <1>1, <1>3, <1>4
     DEF IInv, ShownIsHeld, StopsWhereAsked, AskedOK, HeldOK, StepKept, Bound, Finished
<1> QED
  BY <1>5, <1>6 DEF IInv

\* Nothing is claimed once the client has gone.
LEMMA disconnectInv == IInv /\ disconnectRequest => IInv'
<1> SUFFICES ASSUME IInv, disconnectRequest PROVE IInv'
  OBVIOUS
<1>1. /\ UNCHANGED <<launch, breakpoints, asked, changes>> /\ ~Finished /\ d \in Session
      /\ IF d.held THEN Proceed ELSE UNCHANGED <<at, state>>
      /\ at \in 1..Len(code) /\ Len(code) \in Nat
  BY VisitsHaveDepths DEF disconnectRequest, IInv, TypeOK, Finished, code
<1>2. d' \in Session /\ ~d'.held /\ ~d'.connected
  BY <1>1 DEF disconnectRequest, Session, Command, Commands
<1>3. code' = code /\ state' \in {"asks", "condition"} /\ at' \in {at, at + 1}
      /\ (state' = "condition" => state = "condition" /\ at' = at)
  BY <1>1 DEF code, Proceed, IInv, TypeOK
<1>4. TypeOK'
  BY <1>1, <1>2, <1>3 DEF IInv, TypeOK, code
<1>5. ShownIsHeld' /\ StopsWhereAsked' /\ StepKept'
  BY <1>2 DEF ShownIsHeld, StopsWhereAsked, StepKept, Bound
<1>6. AskedOK' /\ HeldOK'
  BY <1>1, <1>2, <1>3 DEF IInv, AskedOK, HeldOK, TypeOK, Finished
<1> QED
  BY <1>4, <1>5, <1>6 DEF IInv

\* Every step keeps the invariant.
LEMMA StepInv == IInv /\ [Next]_vars => IInv'
<1> SUFFICES ASSUME IInv, [Next]_vars PROVE IInv'
  OBVIOUS
<1>1. CASE UNCHANGED vars
  <2>1. \A j : MayPass(j)' <=> MayPass(j)
    BY <1>1 DEF vars, MayPass, StepTarget, SameExpression, CountsFromUnseen, Unseen,
             AmongItsLines, WithinExpression, code
  <2>2. StopsWhereAsked'
    <3>1. StepTarget(at)' <=> StepTarget(at)
      BY <1>1 DEF vars, StepTarget, SameExpression, WithinExpression, code
    <3> QED
      BY <1>1, <2>1, <3>1 DEF vars, IInv, StopsWhereAsked, code
  <2> QED
    BY <1>1, <2>2
       DEF vars, IInv, TypeOK, ShownIsHeld, AskedOK, HeldOK, StepKept, Bound, CountedFrom, Unseen,
           WithinExpression, code, Finished
<1> QED
  BY <1>1, onNodeEvalInv, evaluateConditionInv, RequestsInv, setBreakPointsInv, disconnectInv
     DEF Next, Over

----------------------------------------------------------------------------
(* The theorems.                                                            *)

\* IInv is an invariant of every session.
LEMMA Invariant == Spec => []IInv
<1>1. Init => IInv
  BY InitInv
<1>2. IInv /\ [Next]_vars => IInv'
  BY StepInv
<1> QED
  BY <1>1, <1>2, PTL DEF Spec

\* In every session the debugger's state has the types of the model, the program is
\* held by a promise exactly when it waits for the user, and it stands at one of its
\* nodes (Debugger.onNodeEval).
THEOREM TypeCorrect == Spec => []TypeOK
<1>1. IInv => TypeOK
  BY DEF IInv
<1> QED
  BY <1>1, Invariant, PTL

\* A program that runs under the debugger never waits for a user who is not shown a
\* stop (Debugger.stop, the adapter's callback), for every program.
THEOREM HeldMeansShown == Spec => []ShownIsHeld
<1>1. IInv => ShownIsHeld
  BY DEF IInv
<1> QED
  BY <1>1, Invariant, PTL

\* For every program and whatever chain of filtered stops lies between: a step never
\* ends where the user who asked for it did not want it to, it passes no breakpoint, and
\* it passes a place where it should end only after an unseen stop in a shallower call
\* or on lines it takes for its own (Debugger.onNodeEval, the adapter's callback and
\* reissueLastStep).
THEOREM StepsEndRight == Spec => []StopsWhereAsked
<1>1. IInv => StopsWhereAsked
  BY DEF IInv
<1> QED
  BY <1>1, Invariant, PTL
====
