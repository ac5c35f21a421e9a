------------------------ MODULE EffectHandlers_proofs ------------------------
(***************************************************************************)
(* Proofs about effect handlers and cleanups.  Each part has an inductive  *)
(* invariant of its own, stated where the part begins:                     *)
(*   WellFormed  types and references                    TypeCorrect       *)
(*   TokenInv    who holds which cleanups, resumes once  OneShotFiresOnce  *)
(*   BlockInv    the shape one block gives               OneBlockCleansUp  *)
(*   OrderInv    what scopes rely on stands below them   OwnClausesAreSafe *)
(*   GuardInv    what the check of a resume guards       OneCatchIsSafe    *)
(***************************************************************************)
EXTENDS EffectHandlers, SequenceTheorems, Positions

-----------------------------------------------------------------------------
(* Operators of the model.                                                 *)

\* The list of the handle positions has each of them exactly once.
LEMMA ListingFacts ==
  ASSUME NEW S, IsFiniteSet(S)
  PROVE  /\ Cardinality(S) \in Nat
         /\ SetToSeq(S) \in [1 .. Cardinality(S) -> S]
         /\ \A i, j \in 1 .. Cardinality(S) : SetToSeq(S)[i] = SetToSeq(S)[j] => i = j
         /\ \A x \in S : \E i \in 1 .. Cardinality(S) : SetToSeq(S)[i] = x
<1>1. \E f \in [1 .. Cardinality(S) -> S] : IsInjective(f)
  BY ListedOnce
<1>2. SetToSeq(S) \in [1 .. Cardinality(S) -> S] /\ IsInjective(SetToSeq(S))
  BY <1>1 DEF SetToSeq
<1>3. \A i, j \in 1 .. Cardinality(S) : SetToSeq(S)[i] = SetToSeq(S)[j] => i = j
  BY <1>2 DEF IsInjective
<1>4. \A x \in S : \E i \in 1 .. Cardinality(S) : SetToSeq(S)[i] = x
  BY <1>2, ListedOnce
<1> QED
  BY <1>2, <1>3, <1>4, ListedOnce

\* The positions of the handle frames of a continuation.
LEMMA HandlesFacts ==
  ASSUME NEW T, NEW s \in Seq(T)
  PROVE  /\ HandlesIn(s) \subseteq 1 .. Len(s)
         /\ IsFiniteSet(HandlesIn(s))
<1>1. HandlesIn(s) \subseteq 1 .. Len(s)
  BY DEF HandlesIn
<1>2. IsFiniteSet(1 .. Len(s))
  BY FS_Interval
<1> QED
  BY <1>1, <1>2, FS_Subset

\* A non-empty set of positions has a first one.
LEMMA FirstFacts ==
  ASSUME NEW S, S \subseteq Nat, S # {}
  PROVE  First(S) \in S /\ \A j \in S : First(S) <= j
BY LeastPosition DEF First

-----------------------------------------------------------------------------
(* Well-formed states.                                                     *)

\* Frames whose ref is a frame object among the first n (handle, cleanup) or a resume
\* function among the first m (clause).
Frame(n, m) ==
  {f \in [kind : Kinds, ref : Ref] :
     /\ f.kind \in {"code", "transform"} => f.ref = 0
     /\ f.kind \in {"handle", "cleanup"} => f.ref \in 1 .. n
     /\ f.kind = "clause" => f.ref \in 1 .. m}

ContinuationOK(kk) == kk \in Seq(Frame(Len(frames), Len(captured)))

\* A resume function ends in the frame of its own handler.
ResumeOK(r) ==
  /\ ContinuationOK(captured[r].performK)
  /\ captured[r].performK # <<>>
  /\ captured[r].performK[Len(captured[r].performK)].kind = "handle"
  /\ captured[r].used \in BOOLEAN
  /\ captured[r] = [performK |-> captured[r].performK, used |-> captured[r].used]

\* Code that runs has its rest in front of the continuation.
CodeInFront == control = "code" => k # <<>> /\ k[1] = Code

\* Types, and what refers to what: inductive.
WellFormed ==
  /\ ContinuationOK(k) /\ CodeInFront
  /\ control \in {"code", "value", "error"}
  /\ frames \in Seq(FrameObject) /\ Len(frames) <= MaxFrames
  /\ \A o \in 1 .. Len(frames) : frames[o].list <= Len(lists)
  /\ lists \in Seq(Seq(1 .. Len(fired))) /\ Len(lists) <= Len(fired)
  /\ \A l \in 1 .. Len(lists) : lists[l] # <<>>
  /\ captured \in Seq([performK : Continuation, used : BOOLEAN]) /\ Len(captured) <= MaxResumes
  /\ \A r \in 1 .. Len(captured) : ResumeOK(r)
  /\ fired \in Seq(0 .. 2) /\ Len(fired) <= MaxCleanups
  /\ program \subseteq 1 .. Len(fired)
  /\ installs \in 0 .. MaxInstalls
  /\ status \in {"running", "completed", "error", "halted", "suspended"}

\* The sequences of a well-formed state, and their lengths.
LEMMA Sizes ==
  ASSUME WellFormed
  PROVE  /\ Len(frames) \in Nat /\ Len(frames) <= MaxFrames
         /\ Len(captured) \in Nat /\ Len(captured) <= MaxResumes
         /\ Len(fired) \in Nat /\ Len(fired) <= MaxCleanups
         /\ Len(lists) \in Nat /\ Len(lists) <= Len(fired)
         /\ fired \in Seq(0 .. 2) /\ frames \in Seq(FrameObject)
         /\ lists \in Seq(Seq(1 .. Len(fired)))
         /\ k \in Seq(Frame(Len(frames), Len(captured)))
         /\ control = "code" => k # <<>>
<1>1. /\ frames \in Seq(FrameObject) /\ Len(frames) <= MaxFrames
      /\ Len(captured) <= MaxResumes
      /\ fired \in Seq(0 .. 2) /\ Len(fired) <= MaxCleanups
      /\ lists \in Seq(Seq(1 .. Len(fired))) /\ Len(lists) <= Len(fired)
  BY DEF WellFormed
<1>2. captured \in Seq([performK : Continuation, used : BOOLEAN])
  BY DEF WellFormed
<1>3. k \in Seq(Frame(Len(frames), Len(captured))) /\ CodeInFront
  BY DEF WellFormed, ContinuationOK
<1>4. Len(frames) \in Nat /\ Len(captured) \in Nat /\ Len(fired) \in Nat /\ Len(lists) \in Nat
  BY <1>1, <1>2
<1> QED
  BY <1>1, <1>3, <1>4 DEF CodeInFront

\* More frame objects and resume functions leave the frames well-formed.
LEMMA FrameGrows ==
  ASSUME NEW n \in Nat, NEW m \in Nat, NEW n2 \in Nat, NEW m2 \in Nat, n <= n2, m <= m2
  PROVE  /\ Frame(n, m) \subseteq Frame(n2, m2)
         /\ \A kk \in Seq(Frame(n, m)) : kk \in Seq(Frame(n2, m2))
BY DEF Frame

LEMMA FrameTypes ==
  ASSUME NEW n \in Nat, NEW m \in Nat
  PROVE  /\ \A f \in Frame(n, m) : f \in [kind : Kinds, ref : Ref]
         /\ \A kk \in Seq(Frame(n, m)) : kk \in Continuation
         /\ Code \in Frame(n, m) /\ Transform \in Frame(n, m)
         /\ n <= MaxFrames => \A o \in 1 .. n : Handle(o) \in Frame(n, m) /\ Cleanup(o) \in Frame(n, m)
         /\ m <= MaxResumes => \A r \in 1 .. m : Clause(r) \in Frame(n, m)
<1>1. \A f \in Frame(n, m) : f \in [kind : Kinds, ref : Ref]
  BY DEF Frame
<1>2. \A kk \in Seq(Frame(n, m)) : kk \in Continuation
  BY <1>1, SeqGrows, Zenon DEF Continuation
<1>3. 0 \in Ref /\ (n <= MaxFrames => 1 .. n \subseteq Ref) /\ (m <= MaxResumes => 1 .. m \subseteq Ref)
  BY BoundsAssumption DEF Ref
<1>4. Code \in Frame(n, m) /\ Transform \in Frame(n, m)
  BY <1>3 DEF Frame, Kinds, Code, Transform
<1>5. n <= MaxFrames => \A o \in 1 .. n : Handle(o) \in Frame(n, m) /\ Cleanup(o) \in Frame(n, m)
  BY <1>3 DEF Frame, Kinds, Handle, Cleanup
<1>6. m <= MaxResumes => \A r \in 1 .. m : Clause(r) \in Frame(n, m)
  BY <1>3 DEF Frame, Kinds, Clause
<1> QED
  BY <1>1, <1>2, <1>4, <1>5, <1>6

LEMMA WellFormedTyped == WellFormed => TypeOK
<1> SUFFICES ASSUME WellFormed PROVE TypeOK
  OBVIOUS
<1>1. k \in Continuation
  BY FrameTypes DEF WellFormed, ContinuationOK
<1>2. \A i \in DOMAIN k : k[i].kind = "handle" => k[i].ref \in DOMAIN frames
  BY DEF WellFormed, ContinuationOK, Frame
<1>3. lists \in Seq(Seq(CleanupId)) /\ Len(lists) <= MaxCleanups /\ program \subseteq CleanupId
  <2>1. 1 .. Len(fired) \subseteq CleanupId
    BY BoundsAssumption DEF WellFormed, CleanupId
  <2>2. \A s \in Seq(1 .. Len(fired)) : s \in Seq(CleanupId)
    BY <2>1
  <2> QED
    BY <2>1, <2>2, BoundsAssumption DEF WellFormed, CleanupId
<1> QED
  BY <1>1, <1>2, <1>3 DEF WellFormed, TypeOK

LEMMA InitWellFormed == Init => WellFormed
<1> SUFFICES ASSUME Init PROVE WellFormed
  OBVIOUS
<1>1. ContinuationOK(k)
  BY FrameTypes DEF Init, ContinuationOK
<1> QED
  BY <1>1, BoundsAssumption DEF Init, WellFormed, CodeInFront

-----------------------------------------------------------------------------
(* Every step leaves the state well-formed.                                *)

\* Parts of a continuation.
LEMMA Parts ==
  ASSUME NEW S, NEW s \in Seq(S)
  PROVE  /\ s # <<>> => /\ Head(s) = s[1] /\ Tail(s) \in Seq(S) /\ Len(Tail(s)) = Len(s) - 1
                        /\ \A j \in 1 .. Len(s) - 1 : Tail(s)[j] = s[j + 1]
         /\ \A i \in 1 .. Len(s) : /\ Below(s, i) \in Seq(S) /\ Len(Below(s, i)) = Len(s) - i
                                   /\ \A j \in 1 .. Len(s) - i : Below(s, i)[j] = s[i + j]
         /\ \A i \in 0 .. Len(s) : /\ SubSeq(s, 1, i) \in Seq(S) /\ Len(SubSeq(s, 1, i)) = i
                                   /\ \A j \in 1 .. i : SubSeq(s, 1, i)[j] = s[j]
<1>1. s # <<>> => /\ Head(s) = s[1] /\ Tail(s) \in Seq(S) /\ Len(Tail(s)) = Len(s) - 1
                  /\ \A j \in 1 .. Len(s) - 1 : Tail(s)[j] = s[j + 1]
  BY HeadTailProperties
<1>2. \A i \in 1 .. Len(s) : /\ Below(s, i) \in Seq(S) /\ Len(Below(s, i)) = Len(s) - i
                             /\ \A j \in 1 .. Len(s) - i : Below(s, i)[j] = s[i + j]
  <2> SUFFICES ASSUME NEW i \in 1 .. Len(s)
               PROVE  /\ Below(s, i) \in Seq(S) /\ Len(Below(s, i)) = Len(s) - i
                      /\ \A j \in 1 .. Len(s) - i : Below(s, i)[j] = s[i + j]
    OBVIOUS
  <2>1. /\ SubSeq(s, i + 1, Len(s)) \in Seq(S)
        /\ Len(SubSeq(s, i + 1, Len(s))) = Len(s) - i
        /\ \A j \in 1 .. Len(s) - i : SubSeq(s, i + 1, Len(s))[j] = s[i + j]
    BY SubSeqProperties
  <2> QED
    BY <2>1 DEF Below
<1>3. \A i \in 0 .. Len(s) : /\ SubSeq(s, 1, i) \in Seq(S) /\ Len(SubSeq(s, 1, i)) = i
                             /\ \A j \in 1 .. i : SubSeq(s, 1, i)[j] = s[j]
  BY SubSeqProperties
<1> QED
  BY <1>1, <1>2, <1>3

\* Callbacks are counted; none is added.
LEMMA FireFacts ==
  ASSUME WellFormed, NEW cs
  PROVE  /\ Fire(cs) \in Seq(0 .. 2) /\ Len(Fire(cs)) = Len(fired)
         /\ \A c \in 1 .. Len(fired) :
              Fire(cs)[c] = IF c \in cs /\ fired[c] < 2 THEN fired[c] + 1 ELSE fired[c]
<1>1. Len(fired) \in Nat /\ DOMAIN fired = 1 .. Len(fired) /\ \A c \in 1 .. Len(fired) : fired[c] \in 0 .. 2
  BY DEF WellFormed
<1>2. \A c \in 1 .. Len(fired) :
        (IF c \in cs /\ fired[c] < 2 THEN fired[c] + 1 ELSE fired[c]) \in 0 .. 2
  BY <1>1
<1> QED
  BY <1>1, <1>2 DEF Fire

\* A frame that is on a well-formed continuation.
LEMMA FrameOn ==
  ASSUME WellFormed, NEW kk, ContinuationOK(kk), NEW i \in 1 .. Len(kk)
  PROVE  /\ kk[i] \in [kind : Kinds, ref : Ref]
         /\ kk[i].kind \in {"handle", "cleanup"} => kk[i].ref \in 1 .. Len(frames)
         /\ kk[i].kind = "clause" => kk[i].ref \in 1 .. Len(captured)
BY DEF ContinuationOK, Frame

\* The continuation changes, and callbacks are called.
LEMMA SameHeap ==
  ASSUME WellFormed, UNCHANGED <<frames, lists, captured, installs>>,
         ContinuationOK(k'), CodeInFront',
         control' \in {"code", "value", "error"},
         status' \in {"running", "completed", "error", "halted", "suspended"},
         fired' \in Seq(0 .. 2), Len(fired') = Len(fired), program' \subseteq program
  PROVE  WellFormed'
<1>1. \A r \in 1 .. Len(captured) : ResumeOK(r)'
  BY DEF WellFormed, ResumeOK, ContinuationOK
<1>2. ContinuationOK(k)'
  BY DEF ContinuationOK
<1> QED
  BY <1>1, <1>2 DEF WellFormed

\* The run ends.
LEMMA EndWellFormed ==
  ASSUME WellFormed, NEW how \in {"completed", "error", "halted"}, End(how)
  PROVE  WellFormed'
<1>1. fired' \in Seq(0 .. 2) /\ Len(fired') = Len(fired)
  BY FireFacts DEF End
<1>2. ContinuationOK(k') /\ CodeInFront'
  BY DEF End, WellFormed, ContinuationOK, CodeInFront
<1> QED
  BY <1>1, <1>2, SameHeap DEF End, WellFormed

LEMMA LeaveCleanupOK ==
  ASSUME WellFormed, NEW o \in 1 .. Len(frames), NEW rest, ContinuationOK(rest)
  PROVE  ContinuationOK(LeaveCleanup(o, rest))
<1>1. Cleanup(o) \in Frame(Len(frames), Len(captured))
  BY FrameTypes, Sizes
<1>2. <<Cleanup(o)>> \in Seq(Frame(Len(frames), Len(captured)))
  BY <1>1
<1>3. ContinuationOK(<<Cleanup(o)>> \o rest)
  BY <1>2, Joined DEF ContinuationOK
<1> QED
  BY <1>3 DEF LeaveCleanup

\* The first handle frame that catches an effect.
LEMMA CatcherFacts ==
  ASSUME WellFormed, NEW effect, Catchers(k, effect) # {}
  PROVE  /\ First(Catchers(k, effect)) \in HandlesIn(k)
         /\ First(Catchers(k, effect)) \in 1 .. Len(k)
<1>1. Catchers(k, effect) \subseteq HandlesIn(k) /\ HandlesIn(k) \subseteq 1 .. Len(k)
  BY DEF WellFormed, ContinuationOK, Catchers, HandlesIn
<1> QED
  BY <1>1, FirstFacts

\* A perform or an error that is caught.
LEMMA DispatchWellFormed ==
  ASSUME WellFormed, NEW i \in HandlesIn(k), Dispatch(k, i), status \in {"running"}
  PROVE  WellFormed'
<1> DEFINE n == Len(captured) + 1
           F == Frame(Len(frames), Len(captured))
           FF == Frame(Len(frames), n)
<1>1. i \in 1 .. Len(k) /\ k \in Seq(F) /\ k[i].kind = "handle" /\ k[i].ref \in 1 .. Len(frames)
  <2>1. i \in 1 .. Len(k) /\ k[i].kind = "handle" /\ ContinuationOK(k)
    BY DEF HandlesIn, WellFormed
  <2> QED
    BY <2>1, FrameOn DEF ContinuationOK
<1>0. Len(captured) \in Nat /\ Len(frames) \in Nat /\ Len(frames) <= MaxFrames
  BY Sizes
<1>2. n \in 1 .. MaxResumes /\ Len(frames) <= MaxFrames /\ F \subseteq FF
  <2>1. n \in 1 .. MaxResumes
    BY <1>0, BoundsAssumption DEF Dispatch
  <2> QED
    BY <1>0, <2>1, FrameGrows
<1>3. ContinuationOK(Below(k, i)) /\ ContinuationOK(SubSeq(k, 1, i))
  BY <1>1, Parts DEF ContinuationOK
<1>4. ContinuationOK(ClauseContinuation(k[i].ref, Below(k, i)))
  BY <1>1, <1>3, LeaveCleanupOK DEF ClauseContinuation
<1>5. k' \in Seq(FF)
  <2>1. <<Code, Clause(n)>> \in Seq(FF)
    <3>1. Code \in FF /\ Clause(n) \in FF
      BY <1>0, <1>2, FrameTypes
    <3> QED
      BY <3>1
  <2>2. ClauseContinuation(k[i].ref, Below(k, i)) \in Seq(FF)
    BY <1>2, <1>4, SeqGrows DEF ContinuationOK
  <2> QED
    BY <2>1, <2>2, Joined DEF Dispatch
<1>6. CodeInFront'
  <2>1. <<Code, Clause(n)>> \in Seq({Code, Clause(n)} \cup F)
    OBVIOUS
  <2>2. ClauseContinuation(k[i].ref, Below(k, i)) \in Seq({Code, Clause(n)} \cup F)
    BY <1>4, SeqGrows DEF ContinuationOK
  <2>3. k'[1] = Code /\ Len(k') >= 2
    BY <2>1, <2>2, Joined DEF Dispatch
  <2> QED
    BY <2>3 DEF CodeInFront
<1>7. /\ captured' = Append(captured, [performK |-> SubSeq(k, 1, i), used |-> FALSE])
      /\ Len(captured') = n
      /\ \A r \in 1 .. Len(captured) : captured'[r] = captured[r]
      /\ captured'[n] = [performK |-> SubSeq(k, 1, i), used |-> FALSE]
  BY DEF Dispatch, WellFormed
<1>8. ASSUME NEW r \in 1 .. n PROVE ResumeOK(r)'
  <2>1. CASE r = n
    <3>1. Len(SubSeq(k, 1, i)) = i /\ SubSeq(k, 1, i)[i] = k[i]
      BY <1>1, Parts
    <3>2. SubSeq(k, 1, i) \in Seq(FF)
      BY <1>2, <1>3, SeqGrows DEF ContinuationOK
    <3>0. captured'[r] = [performK |-> SubSeq(k, 1, i), used |-> FALSE]
      BY <1>7, <2>1, Zenon
    <3>3. captured'[r].performK = SubSeq(k, 1, i) /\ captured'[r].used \in BOOLEAN
      <4> DEFINE perf == SubSeq(k, 1, i)
      <4>1. captured'[r] = [performK |-> perf, used |-> FALSE]
        BY <3>0
      <4> HIDE DEF perf
      <4>2. captured'[r].performK = perf /\ captured'[r].used \in BOOLEAN
        BY <4>1
      <4> QED
        BY <4>2 DEF perf
    <3>4. ContinuationOK(captured[r].performK)'
      BY <1>7, <3>2, <3>3 DEF ContinuationOK, Dispatch, Store
    <3>5. /\ captured'[r].performK # <<>>
          /\ captured'[r].performK[Len(captured'[r].performK)].kind = "handle"
      BY <1>1, <3>1, <3>3
    <3>6. captured'[r] = [performK |-> captured'[r].performK, used |-> captured'[r].used]
      BY <1>7, <2>1, <3>3
    <3> QED
      BY <3>3, <3>4, <3>5, <3>6 DEF ResumeOK
  <2>2. CASE r \in 1 .. Len(captured)
    <3>1. ResumeOK(r)
      BY <2>2 DEF WellFormed
    <3>2. captured[r].performK \in Seq(FF)
      BY <1>2, <3>1, SeqGrows DEF ResumeOK, ContinuationOK
    <3> QED
      BY <1>7, <2>2, <3>1, <3>2 DEF ResumeOK, ContinuationOK, Dispatch, Store
  <2> QED
    BY <2>1, <2>2 DEF WellFormed
<1>9. captured' \in Seq([performK : Continuation, used : BOOLEAN])
  <2>1. SubSeq(k, 1, i) \in Continuation
    BY <1>0, <1>3, FrameTypes DEF ContinuationOK
  <2>2. captured \in Seq([performK : Continuation, used : BOOLEAN])
    BY DEF WellFormed
  <2>3. [performK |-> SubSeq(k, 1, i), used |-> FALSE] \in [performK : Continuation, used : BOOLEAN]
    BY <2>1
  <2> QED
    BY <1>7, <2>2, <2>3
<1> QED
  BY <1>2, <1>5, <1>6, <1>7, <1>8, <1>9 DEF WellFormed, ContinuationOK, Dispatch, Store

\* What a resume function captured, and the copies its call makes.
LEMMA InnerFacts ==
  ASSUME WellFormed, NEW r \in 1 .. Len(captured)
  PROVE  /\ ContinuationOK(Inner(r))
         /\ Len(Inner(r)) = Len(captured[r].performK) - 1
         /\ \A i \in 1 .. Len(Inner(r)) : Inner(r)[i] = captured[r].performK[i]
         /\ OwnHandler(r) \in 1 .. Len(frames)
<1> DEFINE pk == captured[r].performK
<1>1. ContinuationOK(pk) /\ pk # <<>> /\ pk[Len(pk)].kind = "handle"
  BY DEF WellFormed, ResumeOK
<1>2. Len(pk) \in Nat /\ Len(pk) >= 1
  BY <1>1 DEF ContinuationOK
<1>3. Inner(r) = SubSeq(pk, 1, Len(pk) - 1)
  BY DEF Inner
<1>4. OwnHandler(r) = pk[Len(pk)].ref
  BY DEF OwnHandler
<1> HIDE DEF pk
<1>5. pk[Len(pk)].ref \in 1 .. Len(frames)
  BY <1>1, <1>2, FrameOn
<1>6. /\ ContinuationOK(Inner(r)) /\ Len(Inner(r)) = Len(pk) - 1
      /\ \A i \in 1 .. Len(Inner(r)) : Inner(r)[i] = pk[i]
  <2> DEFINE n == Len(pk) - 1
  <2>1. n \in 0 .. Len(pk)
    BY <1>2
  <2> HIDE DEF n
  <2>2. /\ SubSeq(pk, 1, n) \in Seq(Frame(Len(frames), Len(captured)))
        /\ Len(SubSeq(pk, 1, n)) = n
        /\ \A i \in 1 .. n : SubSeq(pk, 1, n)[i] = pk[i]
    BY <1>1, <2>1, Parts DEF ContinuationOK
  <2>3. Inner(r) = SubSeq(pk, 1, n)
    BY <1>3 DEF n
  <2>4. ContinuationOK(Inner(r)) /\ Len(Inner(r)) = n /\ \A i \in 1 .. n : Inner(r)[i] = pk[i]
    BY <2>2, <2>3 DEF ContinuationOK
  <2> QED
    BY <2>4 DEF n
<1> QED
  BY <1>4, <1>5, <1>6 DEF pk

LEMMA CopyFacts ==
  ASSUME WellFormed, NEW r \in 1 .. Len(captured)
  PROVE  /\ Len(InnerHandles(r)) \in Nat
         /\ Copied(r) \in Seq(FrameObject) /\ Len(Copied(r)) = Len(InnerHandles(r))
         /\ \A j \in 1 .. Len(Copied(r)) :
              \E o \in 1 .. Len(frames) : Copied(r)[j] = frames[o]
         /\ \A i \in HandlesIn(Inner(r)) :
              /\ CopyOf(r, i) \in 1 .. Len(InnerHandles(r))
              /\ Copied(r)[CopyOf(r, i)] = frames[Inner(r)[i].ref]
         /\ \A i, j \in HandlesIn(Inner(r)) : CopyOf(r, i) = CopyOf(r, j) => i = j
<1> DEFINE H == HandlesIn(Inner(r))
           q == InnerHandles(r)
           n == Cardinality(H)
<1>1. ContinuationOK(Inner(r))
  BY InnerFacts
<1>2. H \subseteq 1 .. Len(Inner(r)) /\ IsFiniteSet(H)
  BY <1>1, HandlesFacts DEF ContinuationOK
<1>3. /\ n \in Nat /\ q \in [1 .. n -> H]
      /\ \A i, j \in 1 .. n : q[i] = q[j] => i = j
      /\ \A x \in H : \E i \in 1 .. n : q[i] = x
  BY <1>2, ListingFacts DEF InnerHandles
<1>4. \A i \in H : Inner(r)[i].ref \in 1 .. Len(frames)
  BY <1>1, <1>2, FrameOn DEF HandlesIn
<1>5. CopyOf(r, 0) = CopyOf(r, 0) /\ \A i : CopyOf(r, i) = CHOOSE j \in DOMAIN q : q[j] = i
  BY DEF CopyOf
<1>6. Copied(r) = [j \in DOMAIN q |-> frames[Inner(r)[q[j]].ref]]
  BY DEF Copied
<1> HIDE DEF q, n, H
<1>7. \A i \in H : CopyOf(r, i) \in 1 .. n /\ q[CopyOf(r, i)] = i
  BY <1>3, <1>5
<1>8. \A o \in 1 .. Len(frames) : frames[o] \in FrameObject
  BY DEF WellFormed
<1>9. /\ Copied(r) \in [1 .. n -> FrameObject]
      /\ \A j \in 1 .. n : Copied(r)[j] = frames[Inner(r)[q[j]].ref] /\ q[j] \in H
  BY <1>3, <1>4, <1>6, <1>8
<1>10. Copied(r) \in Seq(FrameObject) /\ Len(Copied(r)) = n /\ Len(q) = n
  BY <1>3, <1>9
<1>11. \A j \in 1 .. n : \E o \in 1 .. Len(frames) : Copied(r)[j] = frames[o]
  BY <1>4, <1>9
<1>12. \A i \in H : Copied(r)[CopyOf(r, i)] = frames[Inner(r)[i].ref]
  BY <1>7, <1>9
<1>13. \A i, j \in H : CopyOf(r, i) = CopyOf(r, j) => i = j
  BY <1>7
<1> QED
  BY <1>3, <1>7, <1>10, <1>11, <1>12, <1>13 DEF q, n, H

\* The frame object that is new around the captured frames.
LEMMA NewHandlerOK ==
  ASSUME WellFormed, NEW o \in 1 .. Len(frames)
  PROVE  NewHandler(o) \in FrameObject /\ NewHandler(o).list = 0
<1>1. frames[o] \in FrameObject
  BY DEF WellFormed
<1>2. CleanupsOf(o) \subseteq CleanupId
  <2>1. frames[o].list \in 0 .. Len(lists)
    BY <1>1 DEF WellFormed, FrameObject
  <2>2. 1 .. Len(fired) \subseteq CleanupId
    BY BoundsAssumption DEF WellFormed, CleanupId
  <2>3. frames[o].list # 0 => lists[frames[o].list] \in Seq(1 .. Len(fired))
    BY <2>1 DEF WellFormed
  <2>4. \A s \in Seq(1 .. Len(fired)) : Elements(s) \subseteq CleanupId
    BY <2>2 DEF Elements
  <2> QED
    BY <2>3, <2>4 DEF CleanupsOf
<1>3. 0 \in 0 .. MaxCleanups
  BY BoundsAssumption
<1> QED
  BY <1>1, <1>2, <1>3 DEF FrameObject, NewHandler, Object

\* The call of a resume function: the heap and the continuation it leaves.
Copies(r) == Len(InnerHandles(r))
LEMMA ResumeFacts ==
  ASSUME WellFormed, NEW r \in 1 .. Len(captured), CallResume(r)
  PROVE  /\ frames' \in Seq(FrameObject) /\ Len(frames') <= MaxFrames
         /\ Len(frames') >= Len(frames) + Copies(r) /\ Copies(r) \in Nat
         /\ \A o \in 1 .. Len(frames) : frames'[o] = frames[o]
         /\ \A j \in 1 .. Copies(r) : /\ frames'[Len(frames) + j] = Copied(r)[j]
                                      /\ \E o \in 1 .. Len(frames) :
                                           frames'[Len(frames) + j] = frames[o]
         /\ \A o \in 1 .. Len(frames') :
              o > Len(frames) + Copies(r) => frames'[o] = NewHandler(OwnHandler(r))
         /\ Len(Around(r)) \in 0 .. 1
         /\ Around(r) # <<>> => /\ Len(frames') = Len(frames) + Copies(r) + 1
                                /\ Around(r)[1] = Handle(Len(frames) + Copies(r) + 1)
<1> DEFINE o == OwnHandler(r)
           n == Copies(r)
<1>1. /\ o \in 1 .. Len(frames) /\ n \in Nat
      /\ Copied(r) \in Seq(FrameObject) /\ Len(Copied(r)) = n
      /\ \A j \in 1 .. n : \E p \in 1 .. Len(frames) : Copied(r)[j] = frames[p]
  <2>1. o \in 1 .. Len(frames)
    BY InnerFacts
  <2>2. Copied(r) \in Seq(FrameObject) /\ Len(Copied(r)) = n /\ n \in Nat
    BY CopyFacts DEF Copies
  <2>3. \A j \in 1 .. Len(Copied(r)) : \E p \in 1 .. Len(frames) : Copied(r)[j] = frames[p]
    BY CopyFacts, Zenon
  <2> QED
    BY <2>1, <2>2, <2>3
<1>2. NewHandler(o) \in FrameObject
  BY <1>1, NewHandlerOK
<1>3. frames \in Seq(FrameObject) /\ Len(frames) \in Nat
  BY DEF WellFormed
<1>4. frames' = frames \o Copied(r) \o Reinstalled(o)
  BY DEF CallResume
<1>7. Len(frames) + n + 1 <= MaxFrames
  BY DEF CallResume, Copies
<1>5. Around(r) = IF frames[o].handler.shallow THEN <<>> ELSE <<Handle(Len(frames) + n + 1)>>
  BY DEF Around, Copies
<1>6. Reinstalled(o) = IF frames[o].handler.shallow THEN <<>> ELSE <<NewHandler(o)>>
  BY DEF Reinstalled
<1> HIDE DEF o, n
<1>8. Reinstalled(o) \in Seq(FrameObject) /\ Len(Reinstalled(o)) \in Nat
  BY <1>2, <1>6
<1>9. /\ frames' \in Seq(FrameObject)
      /\ Len(frames') = Len(frames) + n + Len(Reinstalled(o))
      /\ \A j \in 1 .. Len(frames) : frames'[j] = frames[j]
      /\ \A j \in 1 .. n : frames'[Len(frames) + j] = Copied(r)[j]
      /\ \A j \in 1 .. Len(Reinstalled(o)) : frames'[Len(frames) + n + j] = Reinstalled(o)[j]
  <2> DEFINE all == frames \o Copied(r) \o Reinstalled(o)
  <2>1. /\ all \in Seq(FrameObject)
        /\ Len(all) = Len(frames) + Len(Copied(r)) + Len(Reinstalled(o))
        /\ \A j \in 1 .. Len(frames) : all[j] = frames[j]
        /\ \A j \in 1 .. Len(Copied(r)) : all[Len(frames) + j] = Copied(r)[j]
        /\ \A j \in 1 .. Len(Reinstalled(o)) :
             all[Len(frames) + Len(Copied(r)) + j] = Reinstalled(o)[j]
    <3>1. frames \in Seq(FrameObject) /\ Copied(r) \in Seq(FrameObject)
          /\ Reinstalled(o) \in Seq(FrameObject)
      BY <1>1, <1>3, <1>8
    <3> QED
      BY <3>1, JoinedThree
  <2>2. frames' = all
    BY <1>4, Zenon
  <2> HIDE DEF all
  <2> QED
    BY <1>1, <2>1, <2>2, Zenon
<1>10. /\ frames' \in Seq(FrameObject)
       /\ \A j \in 1 .. Len(frames) : frames'[j] = frames[j]
       /\ \A j \in 1 .. n : /\ frames'[Len(frames) + j] = Copied(r)[j]
                            /\ \E p \in 1 .. Len(frames) : frames'[Len(frames) + j] = frames[p]
  <2>1. ASSUME NEW j \in 1 .. n
        PROVE  \E p \in 1 .. Len(frames) : frames'[Len(frames) + j] = frames[p]
    <3>1. PICK p \in 1 .. Len(frames) : Copied(r)[j] = frames[p]
      BY <1>1
    <3> QED
      BY <1>9, <3>1, Zenon
  <2> QED
    BY <1>9, <2>1, Zenon
<1>11. CASE frames[o].handler.shallow
  <2>1. Reinstalled(o) = <<>> /\ Around(r) = <<>>
    BY <1>5, <1>6, <1>11
  <2>2. Len(frames') = Len(frames) + n
    BY <1>1, <1>3, <1>9, <2>1
  <2>3. Len(frames') <= MaxFrames /\ \A p \in 1 .. Len(frames') : ~(p > Len(frames) + n)
    BY <1>1, <1>3, <1>7, <2>2, BoundsAssumption
  <2> QED
    BY <1>1, <1>3, <1>10, <2>1, <2>2, <2>3 DEF o, n
<1>12. CASE ~frames[o].handler.shallow
  <2>1. Reinstalled(o) = <<NewHandler(o)>> /\ Around(r) = <<Handle(Len(frames) + n + 1)>>
    BY <1>5, <1>6, <1>12
  <2>2. Len(frames') = Len(frames) + n + 1 /\ frames'[Len(frames) + n + 1] = NewHandler(o)
    <3>1. Len(Reinstalled(o)) = 1 /\ Reinstalled(o)[1] = NewHandler(o)
      BY <2>1
    <3> QED
      BY <1>9, <3>1
  <2>3. Len(frames') <= MaxFrames
        /\ \A p \in 1 .. Len(frames') : p > Len(frames) + n => p = Len(frames) + n + 1
    <3>1. Len(frames) \in Nat /\ n \in Nat
      BY <1>1, <1>3
    <3> QED
      BY <1>7, <2>2, <3>1
  <2>4. \A p \in 1 .. Len(frames') : p > Len(frames) + n => frames'[p] = NewHandler(o)
    BY <2>2, <2>3
  <2>5. Len(Around(r)) = 1 /\ Around(r)[1] = Handle(Len(frames) + n + 1)
    BY <2>1
  <2>6. Len(frames') >= Len(frames) + n
    BY <1>1, <1>3, <2>2
  <2> QED
    BY <1>1, <1>10, <2>2, <2>3, <2>4, <2>5, <2>6 DEF o, n
<1> QED
  BY <1>11, <1>12

LEMMA RenewedFacts ==
  ASSUME WellFormed, NEW r \in 1 .. Len(captured)
  PROVE  /\ DOMAIN Renewed(r) = 1 .. Len(Inner(r)) /\ Len(Renewed(r)) = Len(Inner(r))
         /\ \A i \in 1 .. Len(Inner(r)) :
              /\ i \in HandlesIn(Inner(r)) => Renewed(r)[i] = Handle(Len(frames) + CopyOf(r, i))
              /\ i \notin HandlesIn(Inner(r)) => Renewed(r)[i] = Inner(r)[i]
<1>1. DOMAIN Inner(r) = 1 .. Len(Inner(r)) /\ Len(Inner(r)) \in Nat
  BY InnerFacts DEF ContinuationOK
<1>2. Renewed(r) = [i \in 1 .. Len(Inner(r)) |->
                      IF i \in HandlesIn(Inner(r)) THEN Handle(Len(frames) + CopyOf(r, i))
                                                   ELSE Inner(r)[i]]
  BY <1>1 DEF Renewed
<1> DEFINE s == Inner(r)
           H == HandlesIn(s)
           new(i) == Handle(Len(frames) + CopyOf(r, i))
<1>3. Renewed(r) = [i \in 1 .. Len(s) |-> IF i \in H THEN new(i) ELSE s[i]] /\ Len(s) \in Nat
  BY <1>1, <1>2
<1> HIDE DEF s, H, new
<1>4. DOMAIN Renewed(r) = 1 .. Len(s) /\ Len(Renewed(r)) = Len(s)
  BY <1>3
<1>5. \A i \in 1 .. Len(s) : /\ i \in H => Renewed(r)[i] = new(i)
                             /\ i \notin H => Renewed(r)[i] = s[i]
  BY <1>3
<1> QED
  BY <1>4, <1>5 DEF s, H, new

\* A resume function is marked as used (B: the values that tell its use).
ResumeRecord(T, B) == [performK : T, used : B]
Marked(x, v) == [x EXCEPT !.used = v]
MarkedAt(cap, r, v) == [cap EXCEPT ![r].used = v]

LEMMA MarkedFacts ==
  ASSUME NEW T, NEW B, NEW v \in B, NEW x \in ResumeRecord(T, B)
  PROVE  /\ x.performK \in T /\ x.used \in B
         /\ Marked(x, v) \in ResumeRecord(T, B)
         /\ Marked(x, v).performK = x.performK
         /\ Marked(x, v).used = v
<1>1. x \in [performK : T, used : B]
  BY DEF ResumeRecord
<1>2. [x EXCEPT !.used = v] = [performK |-> x.performK, used |-> v]
  BY <1>1
<1>3. Marked(x, v) = [performK |-> x.performK, used |-> v]
  BY <1>2 DEF Marked
<1>4. x.performK \in T /\ x.used \in B
  BY <1>1
<1> DEFINE y == Marked(x, v)
<1>5. y = [performK |-> x.performK, used |-> v]
  BY <1>3
<1> HIDE DEF y
<1>6. y \in ResumeRecord(T, B) /\ y.performK = x.performK /\ y.used = v
  BY <1>4, <1>5 DEF ResumeRecord
<1> QED
  BY <1>4, <1>6 DEF y

LEMMA Used ==
  ASSUME NEW T, NEW B, NEW v \in B,
         NEW cap \in Seq(ResumeRecord(T, B)), NEW r \in 1 .. Len(cap)
  PROVE  /\ Len(MarkedAt(cap, r, v)) = Len(cap)
         /\ MarkedAt(cap, r, v) \in Seq(ResumeRecord(T, B))
         /\ MarkedAt(cap, r, v)[r].used = v
         /\ \A q \in 1 .. Len(cap) : /\ q # r => MarkedAt(cap, r, v)[q] = cap[q]
                                     /\ MarkedAt(cap, r, v)[q].performK = cap[q].performK
                                     /\ MarkedAt(cap, r, v)[q].used \in B
<1> DEFINE R == ResumeRecord(T, B)
           cap2 == MarkedAt(cap, r, v)
<1>1. /\ Len(cap2) = Len(cap) /\ DOMAIN cap2 = 1 .. Len(cap)
      /\ \A q \in 1 .. Len(cap) : q # r => cap2[q] = cap[q]
      /\ cap2[r] = Marked(cap[r], v)
      /\ cap2 = [q \in DOMAIN cap2 |-> cap2[q]]
  BY SMTT(20) DEF MarkedAt, Marked
<1>2. cap \in Seq(R) /\ \A q \in 1 .. Len(cap) : cap[q] \in R
  OBVIOUS
<1>3. /\ Marked(cap[r], v) \in R
      /\ Marked(cap[r], v).performK = cap[r].performK
      /\ Marked(cap[r], v).used = v
  BY <1>2, MarkedFacts
<1>4. \A x \in R : x.used \in B
  BY MarkedFacts, Zenon
<1> HIDE DEF cap2, R
<1>5. cap2[r] \in R /\ cap2[r].performK = cap[r].performK /\ cap2[r].used = v
  BY <1>1, <1>3, Zenon
<1>6. \A q \in 1 .. Len(cap) : cap2[q] \in R /\ cap2[q].performK = cap[q].performK
  BY <1>1, <1>2, <1>5, Zenon
<1>7. cap2 \in Seq(R)
  BY <1>1, <1>2, <1>6
<1> QED
  BY <1>1, <1>4, <1>5, <1>6, <1>7, Zenon DEF cap2, R

\* The continuation that a call of r puts in front, in the frames there are after it.
LEMMA ResumedFrames ==
  ASSUME WellFormed, NEW r \in 1 .. Len(captured), CallResume(r)
  PROVE  LET FF == Frame(Len(frames'), Len(captured))
         IN  /\ Frame(Len(frames), Len(captured)) \subseteq FF
             /\ Renewed(r) \in Seq(FF) /\ Around(r) \in Seq(FF) /\ k \in Seq(FF)
<1> DEFINE FF == Frame(Len(frames'), Len(captured))
<1>1. /\ Len(frames) \in Nat /\ Len(captured) \in Nat /\ Len(frames') \in Nat
      /\ Len(frames') >= Len(frames) /\ Len(frames') <= MaxFrames /\ Len(captured) <= MaxResumes
      /\ Copies(r) \in Nat /\ Len(frames') >= Len(frames) + Copies(r)
      /\ frames' \in Seq(FrameObject)
  BY ResumeFacts DEF WellFormed
<1>2. Frame(Len(frames), Len(captured)) \subseteq FF
  BY <1>1, FrameGrows
<1>3. Renewed(r) \in Seq(FF)
  <2>1. Inner(r) \in Seq(FF)
    BY <1>2, InnerFacts, SeqGrows DEF ContinuationOK
  <2>2. \A i \in HandlesIn(Inner(r)) : Len(frames) + CopyOf(r, i) \in 1 .. Len(frames')
    BY <1>1, CopyFacts DEF Copies
  <2>3. \A o \in 1 .. Len(frames') : Handle(o) \in FF
    BY <1>1, FrameTypes
  <2>4. \A i \in 1 .. Len(Inner(r)) : Renewed(r)[i] \in FF
    BY <2>1, <2>2, <2>3, RenewedFacts
  <2>5. Len(Inner(r)) \in Nat /\ DOMAIN Renewed(r) = 1 .. Len(Inner(r))
        /\ Renewed(r) = [i \in 1 .. Len(Inner(r)) |-> Renewed(r)[i]]
    <3>1. Len(Inner(r)) \in Nat /\ DOMAIN Renewed(r) = 1 .. Len(Inner(r))
      BY <2>1, RenewedFacts
    <3>2. Renewed(r) = [i \in DOMAIN Renewed(r) |-> Renewed(r)[i]]
      BY DEF Renewed
    <3> QED
      BY <3>1, <3>2, Zenon
  <2> HIDE DEF FF
  <2> QED
    BY <2>4, <2>5
<1>4. Around(r) \in Seq(FF)
  <2>1. CASE Around(r) = <<>>
    BY <2>1
  <2>2. CASE Around(r) # <<>>
    <3>1. Around(r) = <<Handle(Len(frames) + Copies(r) + 1)>>
          /\ Len(frames) + Copies(r) + 1 \in 1 .. Len(frames')
      BY <1>1, <2>2, ResumeFacts DEF Around, Copies
    <3>2. Handle(Len(frames) + Copies(r) + 1) \in FF
      BY <1>1, <3>1, FrameTypes
    <3> QED
      BY <3>1, <3>2
  <2> QED
    BY <2>1, <2>2
<1>5. k \in Seq(FF)
  BY <1>2, SeqGrows DEF WellFormed, ContinuationOK
<1> QED
  BY <1>2, <1>3, <1>4, <1>5

\* The call marks r as used; what was captured stays.
LEMMA ResumedCaptured ==
  ASSUME WellFormed, NEW r \in 1 .. Len(captured), CallResume(r)
  PROVE  /\ Len(captured') = Len(captured) /\ captured'[r].used
         /\ captured' \in Seq([performK : Continuation, used : BOOLEAN])
         /\ \A q \in 1 .. Len(captured) : /\ q # r => captured'[q] = captured[q]
                                          /\ captured'[q].performK = captured[q].performK
                                          /\ captured'[q].used \in BOOLEAN
                                          /\ captured'[q] = [performK |-> captured'[q].performK,
                                                             used |-> captured'[q].used]
<1>0. PICK yes \in BOOLEAN : yes = TRUE
  OBVIOUS
<1>1. captured \in Seq(ResumeRecord(Continuation, BOOLEAN))
  BY DEF WellFormed, ResumeRecord
<1>2. captured' = MarkedAt(captured, r, yes)
  BY <1>0 DEF CallResume, MarkedAt
<1> DEFINE cap2 == MarkedAt(captured, r, yes)
<1>3. /\ Len(cap2) = Len(captured)
      /\ cap2 \in Seq(ResumeRecord(Continuation, BOOLEAN))
      /\ cap2[r].used = yes
      /\ \A q \in 1 .. Len(captured) : /\ q # r => cap2[q] = captured[q]
                                       /\ cap2[q].performK = captured[q].performK
                                       /\ cap2[q].used \in BOOLEAN
  BY <1>1, Used
<1>4. captured'[r].used /\ \A q \in 1 .. Len(captured) : q # r => captured'[q] = captured[q]
  BY <1>0, <1>2, <1>3, Zenon
<1>5. /\ Len(captured') = Len(captured)
      /\ captured' \in Seq(ResumeRecord(Continuation, BOOLEAN))
      /\ \A q \in 1 .. Len(captured) : /\ captured'[q].performK = captured[q].performK
                                       /\ captured'[q].used \in BOOLEAN
  BY <1>2, <1>3, Zenon
<1>6. \A q \in 1 .. Len(captured) : captured'[q] \in ResumeRecord(Continuation, BOOLEAN)
  BY <1>5
<1>7. \A x \in ResumeRecord(Continuation, BOOLEAN) :
        x = [performK |-> x.performK, used |-> x.used]
  BY DEF ResumeRecord
<1>8. \A q \in 1 .. Len(captured) : captured'[q] = [performK |-> captured'[q].performK,
                                                   used |-> captured'[q].used]
  BY <1>6, <1>7
<1>9. captured' \in Seq([performK : Continuation, used : BOOLEAN])
  BY <1>5 DEF ResumeRecord
<1> QED
  BY <1>4, <1>5, <1>8, <1>9

\* The call of a resume function leaves the state well-formed.
LEMMA ResumeWellFormed ==
  ASSUME WellFormed, NEW r \in 1 .. Len(captured), CallResume(r)
  PROVE  WellFormed'
<1> DEFINE FF == Frame(Len(frames'), Len(captured))
<1>1. /\ Len(frames) \in Nat /\ Len(captured) \in Nat /\ Len(frames') \in Nat
      /\ Len(frames') >= Len(frames) /\ Len(frames') <= MaxFrames /\ Len(captured) <= MaxResumes
      /\ Copies(r) \in Nat /\ Len(frames') >= Len(frames) + Copies(r)
      /\ frames' \in Seq(FrameObject)
  BY ResumeFacts DEF WellFormed
<1>2. Frame(Len(frames), Len(captured)) \subseteq FF
  BY <1>1, FrameGrows
<1>3. Renewed(r) \in Seq(FF) /\ Around(r) \in Seq(FF) /\ k \in Seq(FF)
  BY ResumedFrames
<1>6. k' \in Seq(FF)
  <2>1. k' = Renewed(r) \o Around(r) \o k
    BY DEF CallResume
  <2> QED
    BY <1>3, <2>1, JoinedThree
<1>7. /\ Len(captured') = Len(captured)
      /\ captured' \in Seq([performK : Continuation, used : BOOLEAN])
      /\ \A q \in 1 .. Len(captured) : /\ captured'[q].performK = captured[q].performK
                                       /\ captured'[q].used \in BOOLEAN
                                       /\ captured'[q] = [performK |-> captured'[q].performK,
                                                          used |-> captured'[q].used]
  BY ResumedCaptured
<1>8. \A q \in 1 .. Len(captured) : captured[q].performK \in Seq(FF)
  BY <1>2, SeqGrows DEF WellFormed, ResumeOK, ContinuationOK
<1>9. ASSUME NEW q \in 1 .. Len(captured)
      PROVE  ResumeOK(q)'
  <2>1. ResumeOK(q)
    BY DEF WellFormed
  <2>2. /\ captured'[q].performK = captured[q].performK /\ captured'[q].used \in BOOLEAN
        /\ captured'[q] = [performK |-> captured'[q].performK, used |-> captured'[q].used]
        /\ captured[q].performK \in Seq(FF) /\ Len(captured') = Len(captured)
    BY <1>7, <1>8
  <2> HIDE DEF FF
  <2>3. captured'[q].performK \in Seq(FF)
    BY <2>2
  <2>4. ContinuationOK(captured[q].performK)'
    BY <2>2, <2>3 DEF ContinuationOK, FF
  <2> QED
    BY <2>1, <2>2, <2>4 DEF ResumeOK
<1>10. CodeInFront'
  BY DEF CallResume, CodeInFront
<1>11. /\ lists' = lists /\ fired' = fired /\ program' = program /\ installs' = installs
       /\ status' = status /\ control' = "value"
  BY DEF CallResume
<1>12. \A o \in 1 .. Len(frames') : frames'[o].list <= Len(lists)
  <2>1. ASSUME NEW o \in 1 .. Len(frames')
        PROVE  \/ \E p \in 1 .. Len(frames) : frames'[o] = frames[p]
               \/ frames'[o] = NewHandler(OwnHandler(r))
    <3>1. CASE o <= Len(frames)
      BY <1>1, <3>1, ResumeFacts
    <3>2. CASE o > Len(frames) /\ o <= Len(frames) + Copies(r)
      <4>1. o - Len(frames) \in 1 .. Copies(r) /\ o = Len(frames) + (o - Len(frames))
        BY <1>1, <3>2
      <4> QED
        BY <4>1, ResumeFacts
    <3>3. CASE o > Len(frames) + Copies(r)
      BY <3>3, ResumeFacts
    <3> QED
      BY <1>1, <3>1, <3>2, <3>3
  <2>2. NewHandler(OwnHandler(r)).list = 0
    BY InnerFacts, NewHandlerOK
  <2>3. \A p \in 1 .. Len(frames) : frames[p].list <= Len(lists)
    BY DEF WellFormed
  <2>4. Len(lists) \in Nat
    BY DEF WellFormed
  <2> QED
    BY <2>1, <2>2, <2>3, <2>4
<1>13. \A q \in 1 .. Len(captured') : ResumeOK(q)'
  BY <1>7, <1>9, Zenon
<1>14. ContinuationOK(k)'
  BY <1>6, <1>7 DEF ContinuationOK
<1>15. /\ captured' \in Seq([performK : Continuation, used : BOOLEAN])
       /\ Len(captured') <= MaxResumes
  BY <1>1, <1>7
<1>16. /\ lists' \in Seq(Seq(1 .. Len(fired'))) /\ Len(lists') <= Len(fired')
       /\ \A l \in 1 .. Len(lists') : lists'[l] # <<>>
       /\ fired' \in Seq(0 .. 2) /\ Len(fired') <= MaxCleanups
       /\ program' \subseteq 1 .. Len(fired') /\ installs' \in 0 .. MaxInstalls
       /\ status' \in {"running", "completed", "error", "halted", "suspended"}
  BY <1>11 DEF WellFormed
<1>17. \A o \in 1 .. Len(frames') : frames'[o].list <= Len(lists')
  BY <1>11, <1>12
<1> QED
  BY <1>1, <1>10, <1>11, <1>13, <1>14, <1>15, <1>16, <1>17 DEF WellFormed

\* A frame object is marked, or gets its array of cleanups (B: the values of its mark).
ObjectRecord(B) ==
  [handler : Handlers, list : 0 .. MaxCleanups, fired : B, needs : SUBSET CleanupId]
FiredObject(x, v) == [x EXCEPT !.fired = v]
ListedObject(x, l) == [x EXCEPT !.list = l]
FiredAt(fr, o, v) == [fr EXCEPT ![o].fired = v]
ListedAt(fr, o, l) == [fr EXCEPT ![o].list = l]

LEMMA FiredObjectFacts ==
  ASSUME NEW B, NEW v \in B, NEW x \in ObjectRecord(B)
  PROVE  /\ FiredObject(x, v) \in ObjectRecord(B)
         /\ FiredObject(x, v).handler = x.handler /\ FiredObject(x, v).list = x.list
         /\ FiredObject(x, v).needs = x.needs /\ FiredObject(x, v).fired = v
<1>1. x \in [handler : Handlers, list : 0 .. MaxCleanups, fired : B, needs : SUBSET CleanupId]
  BY DEF ObjectRecord
<1>2. [x EXCEPT !.fired = v] =
        [handler |-> x.handler, list |-> x.list, fired |-> v, needs |-> x.needs]
  BY <1>1
<1> DEFINE y == FiredObject(x, v)
<1>3. y = [handler |-> x.handler, list |-> x.list, fired |-> v, needs |-> x.needs]
  BY <1>2 DEF FiredObject
<1> HIDE DEF y
<1>4. /\ y \in ObjectRecord(B) /\ y.handler = x.handler /\ y.list = x.list
      /\ y.needs = x.needs /\ y.fired = v
  BY <1>1, <1>3 DEF ObjectRecord
<1> QED
  BY <1>4 DEF y

LEMMA ListedObjectFacts ==
  ASSUME NEW B, NEW l \in 0 .. MaxCleanups, NEW x \in ObjectRecord(B)
  PROVE  /\ ListedObject(x, l) \in ObjectRecord(B)
         /\ ListedObject(x, l).handler = x.handler /\ ListedObject(x, l).fired = x.fired
         /\ ListedObject(x, l).needs = x.needs /\ ListedObject(x, l).list = l
<1>1. x \in [handler : Handlers, list : 0 .. MaxCleanups, fired : B, needs : SUBSET CleanupId]
  BY DEF ObjectRecord
<1>2. [x EXCEPT !.list = l] =
        [handler |-> x.handler, list |-> l, fired |-> x.fired, needs |-> x.needs]
  BY <1>1
<1> DEFINE y == ListedObject(x, l)
<1>3. y = [handler |-> x.handler, list |-> l, fired |-> x.fired, needs |-> x.needs]
  BY <1>2 DEF ListedObject
<1> HIDE DEF y
<1>4. /\ y \in ObjectRecord(B) /\ y.handler = x.handler /\ y.list = l
      /\ y.needs = x.needs /\ y.fired = x.fired
  BY <1>1, <1>3 DEF ObjectRecord
<1> QED
  BY <1>4 DEF y

LEMMA FiredAtFacts ==
  ASSUME NEW B, NEW v \in B, NEW fr \in Seq(ObjectRecord(B)), NEW o \in 1 .. Len(fr)
  PROVE  /\ FiredAt(fr, o, v) \in Seq(ObjectRecord(B)) /\ Len(FiredAt(fr, o, v)) = Len(fr)
         /\ FiredAt(fr, o, v)[o].fired = v
         /\ \A p \in 1 .. Len(fr) : /\ p # o => FiredAt(fr, o, v)[p] = fr[p]
                                    /\ FiredAt(fr, o, v)[p].list = fr[p].list
                                    /\ FiredAt(fr, o, v)[p].needs = fr[p].needs
                                    /\ FiredAt(fr, o, v)[p].handler = fr[p].handler
<1> DEFINE R == ObjectRecord(B)
           fr2 == FiredAt(fr, o, v)
<1>1. /\ Len(fr2) = Len(fr) /\ DOMAIN fr2 = 1 .. Len(fr)
      /\ \A p \in 1 .. Len(fr) : p # o => fr2[p] = fr[p]
      /\ fr2[o] = FiredObject(fr[o], v)
      /\ fr2 = [p \in DOMAIN fr2 |-> fr2[p]]
  BY SMTT(20) DEF FiredAt, FiredObject
<1>2. fr \in Seq(R) /\ \A p \in 1 .. Len(fr) : fr[p] \in R
  OBVIOUS
<1> DEFINE y == FiredObject(fr[o], v)
<1>3. /\ y \in R /\ y.handler = fr[o].handler /\ y.list = fr[o].list
      /\ y.needs = fr[o].needs /\ y.fired = v
  BY <1>2, FiredObjectFacts
<1>4. fr2[o] = y
  BY <1>1
<1> HIDE DEF fr2, R, y
<1>5. \A p \in 1 .. Len(fr) : /\ fr2[p] \in R /\ fr2[p].list = fr[p].list
                             /\ fr2[p].needs = fr[p].needs /\ fr2[p].handler = fr[p].handler
  BY <1>1, <1>2, <1>3, <1>4, Zenon
<1>6. fr2 \in Seq(R) /\ fr2[o].fired = v
  BY <1>1, <1>2, <1>3, <1>4, <1>5
<1> QED
  BY <1>1, <1>5, <1>6, Zenon DEF fr2, R

LEMMA ListedOne ==
  ASSUME NEW R, NEW l, NEW fr \in Seq(R), NEW o \in 1 .. Len(fr)
  PROVE  LET fr2 == ListedAt(fr, o, l)
         IN  /\ Len(fr2) = Len(fr) /\ DOMAIN fr2 = 1 .. Len(fr)
             /\ \A p \in 1 .. Len(fr) : p # o => fr2[p] = fr[p]
             /\ fr2[o] = ListedObject(fr[o], l)
             /\ fr2 = [p \in DOMAIN fr2 |-> fr2[p]]
BY SMTT(20) DEF ListedAt, ListedObject

LEMMA ListedAtFacts ==
  ASSUME NEW B, NEW l \in 0 .. MaxCleanups, NEW fr \in Seq(ObjectRecord(B)), NEW o \in 1 .. Len(fr)
  PROVE  /\ ListedAt(fr, o, l) \in Seq(ObjectRecord(B)) /\ Len(ListedAt(fr, o, l)) = Len(fr)
         /\ ListedAt(fr, o, l)[o].list = l
         /\ \A p \in 1 .. Len(fr) : /\ p # o => ListedAt(fr, o, l)[p] = fr[p]
                                    /\ ListedAt(fr, o, l)[p].fired = fr[p].fired
                                    /\ ListedAt(fr, o, l)[p].needs = fr[p].needs
                                    /\ ListedAt(fr, o, l)[p].handler = fr[p].handler
<1> DEFINE R == ObjectRecord(B)
           fr2 == ListedAt(fr, o, l)
<1>1. /\ Len(fr2) = Len(fr) /\ DOMAIN fr2 = 1 .. Len(fr)
      /\ \A p \in 1 .. Len(fr) : p # o => fr2[p] = fr[p]
      /\ fr2[o] = ListedObject(fr[o], l)
      /\ fr2 = [p \in DOMAIN fr2 |-> fr2[p]]
  BY ListedOne
<1>2. fr \in Seq(R) /\ \A p \in 1 .. Len(fr) : fr[p] \in R
  OBVIOUS
<1> DEFINE y == ListedObject(fr[o], l)
<1>3. /\ y \in R /\ y.handler = fr[o].handler /\ y.list = l
      /\ y.needs = fr[o].needs /\ y.fired = fr[o].fired
  BY <1>2, ListedObjectFacts
<1>4. fr2[o] = y
  BY <1>1
<1> HIDE DEF fr2, R, y
<1>5. \A p \in 1 .. Len(fr) : /\ fr2[p] \in R /\ fr2[p].fired = fr[p].fired
                             /\ fr2[p].needs = fr[p].needs /\ fr2[p].handler = fr[p].handler
  BY <1>1, <1>2, <1>3, <1>4, Zenon
<1>6. fr2 \in Seq(R)
  BY <1>1, <1>2, <1>5
<1>7. fr2[o].list = l
  BY <1>3, <1>4, Zenon
<1> QED
  BY <1>1, <1>5, <1>6, <1>7, Zenon DEF fr2, R

\* The frame a value meets.
LEMMA FrameMet ==
  ASSUME WellFormed, k # <<>>
  PROVE  /\ 1 \in 1 .. Len(k) /\ Head(k) = k[1]
         /\ ContinuationOK(Tail(k)) /\ Len(Tail(k)) = Len(k) - 1
         /\ \A j \in 1 .. Len(k) - 1 : Tail(k)[j] = k[j + 1]
         /\ k[1].kind = "code" => k[1] = Code
         /\ k[1].kind \in {"handle", "cleanup"} => k[1].ref \in 1 .. Len(frames)
<1>1. k \in Seq(Frame(Len(frames), Len(captured)))
  BY DEF WellFormed, ContinuationOK
<1>2. 1 \in 1 .. Len(k) /\ k[1] \in Frame(Len(frames), Len(captured))
  BY <1>1
<1>3. k[1].kind = "code" => k[1] = Code
  BY <1>2 DEF Frame, Code
<1>4. k[1].kind \in {"handle", "cleanup"} => k[1].ref \in 1 .. Len(frames)
  BY <1>2 DEF Frame
<1> QED
  BY <1>1, <1>2, <1>3, <1>4, Parts DEF ContinuationOK

LEMMA ReturnWellFormed == ASSUME WellFormed, Return PROVE WellFormed'
<1>1. ContinuationOK(Tail(k))
  BY FrameMet DEF WellFormed, CodeInFront, Return, InCode
<1>2. ContinuationOK(k') /\ CodeInFront'
  BY <1>1 DEF Return, CodeInFront
<1> QED
  BY <1>2, SameHeap DEF Return, Heap, WellFormed

LEMMA CodeContinuesWellFormed == ASSUME WellFormed, CodeContinues PROVE WellFormed'
<1>1. k # <<>> /\ k[1] = Code
  BY FrameMet DEF CodeContinues, Meets
<1>2. ContinuationOK(k') /\ CodeInFront'
  BY <1>1 DEF CodeContinues, CodeInFront, WellFormed
<1> QED
  BY <1>2, SameHeap DEF CodeContinues, Heap, WellFormed

LEMMA HandleCompletesWellFormed == ASSUME WellFormed, HandleCompletes PROVE WellFormed'
<1> DEFINE o == Head(k).ref
           rest == LeaveCleanup(o, Tail(k))
           F == Frame(Len(frames), Len(captured))
<1>1. k # <<>> /\ o \in 1 .. Len(frames) /\ ContinuationOK(Tail(k))
  BY FrameMet DEF HandleCompletes, Meets
<1>2. rest \in Seq(F)
  BY <1>1, LeaveCleanupOK DEF ContinuationOK
<1>3. \/ k' = <<Code, Transform>> \o rest /\ control' = "code"
      \/ k' = rest /\ control' = "value"
  BY DEF HandleCompletes, Meets
<1>4. UNCHANGED <<Heap, status>>
  BY DEF HandleCompletes
<1> HIDE DEF o, rest
<1>5. <<Code, Transform>> \in Seq(F)
  BY FrameTypes DEF WellFormed
<1>6. k' \in Seq(F)
  BY <1>2, <1>3, <1>5, Joined
<1>7. CodeInFront'
  <2>1. CASE k' = <<Code, Transform>> \o rest
    <3>1. k'[1] = Code /\ Len(k') >= 2
      BY <1>2, <1>5, <2>1, Joined
    <3> QED
      BY <3>1 DEF CodeInFront
  <2> QED
    BY <1>3, <2>1 DEF CodeInFront
<1>8. control' \in {"code", "value", "error"}
  BY <1>3
<1> QED
  BY <1>4, <1>6, <1>7, <1>8, SameHeap DEF Heap, WellFormed, ContinuationOK

LEMMA TransformCompletesWellFormed == ASSUME WellFormed, TransformCompletes PROVE WellFormed'
<1>1. ContinuationOK(Tail(k))
  BY FrameMet DEF TransformCompletes, Meets
<1>2. ContinuationOK(k') /\ CodeInFront'
  BY <1>1 DEF TransformCompletes, Meets, CodeInFront
<1> QED
  BY <1>2, SameHeap DEF TransformCompletes, Heap, WellFormed

\* What the end of a clause leaves.
LEMMA SkippedFacts ==
  ASSUME WellFormed, NEW rest, ContinuationOK(rest)
  PROVE  /\ HandlesIn(rest) \subseteq 1 .. Len(rest)
         /\ HandlesIn(rest) # {} => /\ First(HandlesIn(rest)) \in HandlesIn(rest)
                                    /\ First(HandlesIn(rest)) \in 1 .. Len(rest)
                                    /\ \A i \in HandlesIn(rest) : First(HandlesIn(rest)) <= i
                                    /\ ContinuationOK(Below(rest, First(HandlesIn(rest))))
<1>1. HandlesIn(rest) \subseteq 1 .. Len(rest)
  BY HandlesFacts DEF ContinuationOK
<1>2. HandlesIn(rest) # {} => /\ First(HandlesIn(rest)) \in HandlesIn(rest)
                              /\ \A i \in HandlesIn(rest) : First(HandlesIn(rest)) <= i
  BY <1>1, FirstFacts
<1>3. \A i \in 1 .. Len(rest) : ContinuationOK(Below(rest, i))
  BY Parts DEF ContinuationOK
<1> QED
  BY <1>1, <1>2, <1>3

LEMMA ClauseCompletesWellFormed == ASSUME WellFormed, ClauseCompletes PROVE WellFormed'
<1> DEFINE rest == Tail(k)
<1>1. ContinuationOK(rest)
  BY FrameMet DEF ClauseCompletes, Meets
<1>3. control' = "value" /\ UNCHANGED <<Heap, status>>
  BY DEF ClauseCompletes, Meets
<1>0. k' = IF HandlesIn(rest) = {} THEN rest ELSE Below(rest, First(HandlesIn(rest)))
  BY DEF ClauseCompletes
<1> HIDE DEF rest
<1>2. \/ k' = rest
      \/ HandlesIn(rest) # {} /\ k' = Below(rest, First(HandlesIn(rest)))
  BY <1>0
<1>4. ContinuationOK(k') /\ CodeInFront'
  BY <1>1, <1>2, <1>3, SkippedFacts DEF CodeInFront
<1> QED
  BY <1>3, <1>4, SameHeap DEF Heap, WellFormed

LEMMA CleanupFiresWellFormed == ASSUME WellFormed, CleanupFires PROVE WellFormed'
<1> DEFINE o == Head(k).ref
<1>1. k # <<>> /\ o \in 1 .. Len(frames) /\ ContinuationOK(Tail(k))
  BY FrameMet DEF CleanupFires, Meets
<1>2. PICK yes \in BOOLEAN : yes = TRUE
  OBVIOUS
<1>3. frames' = FiredAt(frames, o, yes)
  BY <1>2 DEF CleanupFires, MarkFired, FiredAt
<1>4. frames \in Seq(ObjectRecord(BOOLEAN))
  BY DEF WellFormed, FrameObject, ObjectRecord
<1> HIDE DEF o
<1>5. /\ frames' \in Seq(ObjectRecord(BOOLEAN)) /\ Len(frames') = Len(frames)
      /\ \A p \in 1 .. Len(frames) : frames'[p].list = frames[p].list
  BY <1>1, <1>3, <1>4, FiredAtFacts, SMTT(20)
<1>6. frames' \in Seq(FrameObject)
  BY <1>5 DEF FrameObject, ObjectRecord
<1>7. fired' \in Seq(0 .. 2) /\ Len(fired') = Len(fired)
  BY FireFacts DEF CleanupFires
<1>8. k' = Tail(k) /\ control' \in {"value", "error"}
      /\ UNCHANGED <<lists, captured, program, installs, status>>
  BY DEF CleanupFires
<1>9. ContinuationOK(k)' /\ \A r \in 1 .. Len(captured) : ResumeOK(r)'
  BY <1>1, <1>5, <1>8 DEF ContinuationOK, ResumeOK, WellFormed
<1>10. CodeInFront'
  BY <1>8 DEF CodeInFront
<1>11. \A p \in 1 .. Len(frames') : frames'[p].list <= Len(lists')
  BY <1>5, <1>8 DEF WellFormed
<1> QED
  BY <1>5, <1>6, <1>7, <1>8, <1>9, <1>10, <1>11 DEF WellFormed

LEMMA InstallWellFormed == ASSUME WellFormed, NEW h \in Handlers, Install(h) PROVE WellFormed'
<1> DEFINE n == Len(frames) + 1
           new == Object(h, 0, {})
           FF == Frame(n, Len(captured))
<1>1. /\ Len(frames) \in Nat /\ n \in 1 .. MaxFrames /\ Len(captured) \in Nat
      /\ Len(captured) <= MaxResumes
  BY BoundsAssumption DEF WellFormed, Install
<1>2. new \in FrameObject /\ new.list = 0
  BY BoundsAssumption DEF Object, FrameObject
<1>3. frames' = Append(frames, new)
  BY DEF Install
<1>4. k' = <<Code, Handle(n)>> \o k
  BY DEF Install
<1>5. control' = "code" /\ UNCHANGED <<lists, captured, fired, program, status>>
      /\ installs' \in 0 .. MaxInstalls
  BY BoundsAssumption DEF Install, InCode, WellFormed
<1>6. Frame(Len(frames), Len(captured)) \subseteq FF
  BY <1>1, FrameGrows
<1>7. <<Code, Handle(n)>> \in Seq(FF)
  BY <1>1, FrameTypes
<1> HIDE DEF new
<1>8. /\ frames' \in Seq(FrameObject) /\ Len(frames') = n
      /\ \A p \in 1 .. Len(frames) : frames'[p] = frames[p]
      /\ frames'[n] = new
  <2>1. frames \in Seq(FrameObject)
    BY DEF WellFormed
  <2> QED
    BY <1>2, <1>3, <2>1
<1>9. k \in Seq(FF) /\ \A r \in 1 .. Len(captured) : captured[r].performK \in Seq(FF)
  <2>1. k \in Seq(FF)
    BY <1>6, SeqGrows DEF WellFormed, ContinuationOK
  <2>2. ASSUME NEW r \in 1 .. Len(captured) PROVE captured[r].performK \in Seq(FF)
    <3>1. captured[r].performK \in Seq(Frame(Len(frames), Len(captured)))
      BY DEF WellFormed, ResumeOK, ContinuationOK
    <3> QED
      BY <1>6, <3>1, SeqGrows
  <2> QED
    BY <2>1, <2>2
<1> HIDE DEF FF
<1>10. k' \in Seq(FF) /\ k'[1] = Code /\ Len(k') >= 2
  BY <1>4, <1>7, <1>9, Joined
<1>11. ContinuationOK(k)' /\ CodeInFront'
  BY <1>5, <1>8, <1>10 DEF ContinuationOK, CodeInFront, FF
<1>12. \A r \in 1 .. Len(captured) : ResumeOK(r)'
  <2> SUFFICES ASSUME NEW r \in 1 .. Len(captured) PROVE ResumeOK(r)'
    OBVIOUS
  <2>1. ResumeOK(r)
    BY DEF WellFormed
  <2>2. ContinuationOK(captured[r].performK)'
    BY <1>5, <1>8, <1>9 DEF ContinuationOK, FF
  <2> QED
    BY <1>5, <2>1, <2>2 DEF ResumeOK
<1>13. \A p \in 1 .. Len(frames') : frames'[p].list <= Len(lists')
  <2>0. Len(lists') \in Nat /\ lists' = lists
    BY <1>5 DEF WellFormed
  <2>1. \A p \in 1 .. Len(frames) : frames'[p].list <= Len(lists')
    <3>1. \A p \in 1 .. Len(frames) : frames[p].list <= Len(lists)
      BY DEF WellFormed
    <3> QED
      BY <1>8, <2>0, <3>1, Zenon
  <2>2. \A p \in 1 .. n : p \in 1 .. Len(frames) \/ p = n
    BY <1>1
  <2> QED
    BY <1>2, <1>8, <2>0, <2>1, <2>2
<1>14. /\ lists' \in Seq(Seq(1 .. Len(fired'))) /\ Len(lists') <= Len(fired')
       /\ \A l \in 1 .. Len(lists') : lists'[l] # <<>>
       /\ captured' \in Seq([performK : Continuation, used : BOOLEAN])
       /\ fired' \in Seq(0 .. 2) /\ Len(fired') <= MaxCleanups
       /\ program' \subseteq 1 .. Len(fired')
       /\ status' \in {"running", "completed", "error", "halted", "suspended"}
  BY <1>5 DEF WellFormed
<1>15. Len(captured') = Len(captured) /\ Len(frames') <= MaxFrames
  BY <1>1, <1>5, <1>8
<1> QED
  BY <1>1, <1>5, <1>8, <1>11, <1>12, <1>13, <1>14, <1>15 DEF WellFormed

\* One more element.
LEMMA Appended ==
  ASSUME NEW T, NEW s \in Seq(T), NEW e \in T
  PROVE  /\ Append(s, e) \in Seq(T) /\ Append(s, e) # <<>> /\ Len(Append(s, e)) = Len(s) + 1
         /\ \A i \in 1 .. Len(s) : Append(s, e)[i] = s[i]
         /\ Append(s, e)[Len(s) + 1] = e
OBVIOUS

\* The elements of a sequence.
LEMMA ElementsFacts ==
  ASSUME NEW T, NEW s \in Seq(T)
  PROVE  /\ Elements(s) \subseteq T
         /\ \A x : x \in Elements(s) <=> \E i \in 1 .. Len(s) : x = s[i]
         /\ s # <<>> => Elements(s) # {}
<1>1. Elements(s) = {s[i] : i \in 1 .. Len(s)}
  BY DEF Elements
<1>2. \A i \in 1 .. Len(s) : s[i] \in T
  OBVIOUS
<1>3. s # <<>> => 1 \in 1 .. Len(s)
  OBVIOUS
<1>4. \A x : x \in Elements(s) <=> \E i \in 1 .. Len(s) : x = s[i]
  BY <1>1, Zenon
<1>5. Elements(s) \subseteq T
  BY <1>2, <1>4, Zenon
<1>6. s # <<>> => s[1] \in Elements(s)
  BY <1>3, <1>4, Zenon
<1> QED
  BY <1>4, <1>5, <1>6, Zenon

\* The array of a frame object.
LEMMA ArrayFacts ==
  ASSUME WellFormed, NEW o \in 1 .. Len(frames)
  PROVE  /\ frames[o] \in FrameObject /\ frames[o].list \in 0 .. Len(lists)
         /\ frames[o].list # 0 => /\ frames[o].list \in 1 .. Len(lists)
                                  /\ CleanupsOf(o) = Elements(lists[frames[o].list])
                                  /\ CleanupsOf(o) # {}
         /\ frames[o].list = 0 => CleanupsOf(o) = {}
         /\ CleanupsOf(o) \subseteq 1 .. Len(fired)
<1>1. frames[o] \in FrameObject
  BY DEF WellFormed
<1>2. frames[o].list \in 0 .. Len(lists) /\ Len(lists) \in Nat
  <2>1. frames[o].list \in Nat
    BY <1>1 DEF FrameObject
  <2>2. frames[o].list <= Len(lists) /\ Len(lists) \in Nat
    BY DEF WellFormed
  <2> QED
    BY <2>1, <2>2
<1>3. \A l \in 1 .. Len(lists) : lists[l] \in Seq(1 .. Len(fired)) /\ lists[l] # <<>>
  BY DEF WellFormed
<1>4. \A s \in Seq(1 .. Len(fired)) : /\ Elements(s) \subseteq 1 .. Len(fired)
                                      /\ s # <<>> => Elements(s) # {}
  BY ElementsFacts
<1> DEFINE l == frames[o].list
<1>5. l \in 0 .. Len(lists) /\ (l # 0 => l \in 1 .. Len(lists))
  BY <1>2
<1>6. CleanupsOf(o) = IF l = 0 THEN {} ELSE Elements(lists[l])
  BY DEF CleanupsOf
<1> HIDE DEF l
<1>7. l # 0 => /\ CleanupsOf(o) = Elements(lists[l]) /\ Elements(lists[l]) # {}
               /\ Elements(lists[l]) \subseteq 1 .. Len(fired)
  BY <1>3, <1>4, <1>5, <1>6
<1>8. l = 0 => CleanupsOf(o) = {}
  BY <1>6
<1>9. CleanupsOf(o) \subseteq 1 .. Len(fired)
  BY <1>7, <1>8
<1> QED
  BY <1>1, <1>5, <1>7, <1>8, <1>9 DEF l

\* The array of a frame object, its own or a new one, gets the next cleanup.
LEMMA NewArray ==
  ASSUME NEW n \in Nat, NEW ls \in Seq(Seq(1 .. n)), \A l \in 1 .. Len(ls) : ls[l] # <<>>
  PROVE  LET ls2 == Append(ls, <<n + 1>>)
         IN  /\ ls2 \in Seq(Seq(1 .. n + 1)) /\ Len(ls2) = Len(ls) + 1
             /\ \A l \in 1 .. Len(ls) : ls2[l] = ls[l]
             /\ ls2[Len(ls) + 1] = <<n + 1>>
             /\ \A l \in 1 .. Len(ls2) : ls2[l] # <<>>
<1> DEFINE S == Seq(1 .. n + 1)
           x == <<n + 1>>
<1>1. \A s \in Seq(1 .. n) : s \in S
  <2>1. 1 .. n \subseteq 1 .. n + 1
    OBVIOUS
  <2> QED
    BY <2>1, SeqGrows
<1>2. x \in S /\ x # <<>>
  OBVIOUS
<1>3. ls \in Seq(S)
  BY <1>1, SeqGrows
<1> HIDE DEF S, x
<1> DEFINE ls2 == Append(ls, x)
<1>4. /\ ls2 \in Seq(S) /\ Len(ls2) = Len(ls) + 1
      /\ \A l \in 1 .. Len(ls) : ls2[l] = ls[l]
      /\ ls2[Len(ls) + 1] = x
  BY <1>2, <1>3
<1>5. \A l \in 1 .. Len(ls2) : l \in 1 .. Len(ls) \/ l = Len(ls) + 1
  BY <1>3, <1>4
<1>6. \A l \in 1 .. Len(ls2) : ls2[l] # <<>>
  BY <1>2, <1>4, <1>5
<1> QED
  BY <1>4, <1>6 DEF S, x

LEMMA LongerArray ==
  ASSUME NEW n \in Nat, NEW ls \in Seq(Seq(1 .. n)), \A l \in 1 .. Len(ls) : ls[l] # <<>>,
         NEW m \in 1 .. Len(ls)
  PROVE  LET ls2 == [ls EXCEPT ![m] = Append(@, n + 1)]
         IN  /\ ls2 \in Seq(Seq(1 .. n + 1)) /\ Len(ls2) = Len(ls)
             /\ \A l \in 1 .. Len(ls) : l # m => ls2[l] = ls[l]
             /\ ls2[m] = Append(ls[m], n + 1)
             /\ \A l \in 1 .. Len(ls2) : ls2[l] # <<>>
<1> DEFINE S == Seq(1 .. n + 1)
           x == Append(ls[m], n + 1)
<1>1. \A s \in Seq(1 .. n) : s \in S
  <2>1. 1 .. n \subseteq 1 .. n + 1
    OBVIOUS
  <2> QED
    BY <2>1, SeqGrows
<1>2. x \in S /\ x # <<>>
  <2>1. ls[m] \in S
    BY <1>1
  <2>2. S = Seq(1 .. n + 1) /\ n + 1 \in 1 .. n + 1
    OBVIOUS
  <2> DEFINE y == ls[m]
  <2>3. y \in Seq(1 .. n + 1)
    BY <2>1
  <2> HIDE DEF y
  <2>4. Append(y, n + 1) \in Seq(1 .. n + 1) /\ Append(y, n + 1) # <<>>
    BY <2>2, <2>3, Appended
  <2> QED
    BY <2>2, <2>4 DEF y
<1>3. ls \in Seq(S)
  BY <1>1, SeqGrows
<1> DEFINE ls2 == [ls EXCEPT ![m] = x]
<1>4. ls2 = [ls EXCEPT ![m] = Append(@, n + 1)]
  OBVIOUS
<1> HIDE DEF S, x
<1>5. /\ ls2 \in Seq(S) /\ Len(ls2) = Len(ls)
      /\ \A l \in 1 .. Len(ls) : l # m => ls2[l] = ls[l]
      /\ ls2[m] = x
  BY <1>2, <1>3
<1>6. \A l \in 1 .. Len(ls2) : ls2[l] # <<>>
  BY <1>2, <1>5
<1> HIDE DEF ls2
<1> QED
  BY <1>4, <1>5, <1>6 DEF S, x

\* A registered cleanup changes the arrays and the frame object at most.
LEMMA RegisterFacts ==
  ASSUME WellFormed, RegisterCleanup
  PROVE  /\ fired' = Append(fired, 0) /\ fired' \in Seq(0 .. 2) /\ Len(fired') = Len(fired) + 1
         /\ fired'[Len(fired) + 1] = 0 /\ \A c \in 1 .. Len(fired) : fired'[c] = fired[c]
         /\ Len(fired') <= MaxCleanups
         /\ lists' \in Seq(Seq(1 .. Len(fired'))) /\ Len(lists') <= Len(fired')
         /\ Len(lists) <= Len(lists')
         /\ \A l \in 1 .. Len(lists') : lists'[l] # <<>>
         /\ frames' \in Seq(FrameObject) /\ Len(frames') = Len(frames)
         /\ \A o \in 1 .. Len(frames) : frames'[o].list <= Len(lists')
         /\ program' \subseteq 1 .. Len(fired')
         /\ UNCHANGED <<k, control, captured, installs, status>>
<1> DEFINE c == Len(fired) + 1
           o == k[First(HandlesIn(k))].ref
<1>1. /\ Len(fired) \in Nat /\ Len(frames) \in Nat /\ Len(lists) \in Nat
      /\ fired' = Append(fired, 0) /\ c <= MaxCleanups
      /\ UNCHANGED <<k, control, captured, installs, status>>
  <2>1. fired' = Append(fired, 0) /\ Len(fired) < MaxCleanups
    BY DEF RegisterCleanup
  <2>2. UNCHANGED <<k, control, captured, installs, status>>
    BY DEF RegisterCleanup
  <2> QED
    BY <2>1, <2>2, Sizes, BoundsAssumption
<1>2. /\ fired' \in Seq(0 .. 2) /\ Len(fired') = c /\ fired'[c] = 0
      /\ \A d \in 1 .. Len(fired) : fired'[d] = fired[d]
  BY <1>1 DEF WellFormed
<1>3. lists \in Seq(Seq(1 .. Len(fired))) /\ \A l \in 1 .. Len(lists) : lists[l] # <<>>
      /\ Len(lists) <= Len(fired)
  BY DEF WellFormed
<1>4. lists \in Seq(Seq(1 .. c)) /\ Len(lists) <= c
  <2>1. 1 .. Len(fired) \subseteq 1 .. c
    BY <1>1
  <2>2. Seq(1 .. Len(fired)) \subseteq Seq(1 .. c)
    BY <2>1, SeqGrows
  <2>3. Len(lists) <= c
    <3>1. Len(lists) <= Len(fired)
      BY <1>3
    <3> QED
      BY <1>1, <3>1
  <2> DEFINE S0 == Seq(1 .. Len(fired))
             S1 == Seq(1 .. c)
  <2>4. lists \in Seq(S0) /\ S0 \subseteq S1
    BY <1>3, <2>2
  <2> HIDE DEF S0, S1
  <2>5. lists \in Seq(S1)
    BY <2>4, SeqGrows
  <2> QED
    BY <2>3, <2>5 DEF S1
<1>5. frames \in Seq(FrameObject) /\ \A p \in 1 .. Len(frames) : frames[p].list <= Len(lists)
  BY DEF WellFormed
<1>6. program \subseteq 1 .. c /\ c \in 1 .. c
  BY <1>1 DEF WellFormed
<1>7. CASE HandlesIn(k) = {}
  <2>1. program' = program \cup {c} /\ UNCHANGED <<frames, lists>>
    BY <1>7 DEF RegisterCleanup
  <2>2. program' \subseteq 1 .. c
    BY <1>6, <2>1
  <2>3. lists' \in Seq(Seq(1 .. c)) /\ Len(lists') <= c /\ Len(lists) <= Len(lists')
        /\ \A l \in 1 .. Len(lists') : lists'[l] # <<>>
    BY <1>1, <1>3, <1>4, <2>1
  <2>4. /\ frames' \in Seq(FrameObject) /\ Len(frames') = Len(frames)
        /\ \A p \in 1 .. Len(frames) : frames'[p].list <= Len(lists')
    BY <1>5, <2>1
  <2> QED
    BY <1>1, <1>2, <2>2, <2>3, <2>4
<1>8. CASE HandlesIn(k) # {}
  <2>1. o \in 1 .. Len(frames)
    BY <1>8, SkippedFacts, FrameOn DEF WellFormed, HandlesIn
  <2>2. /\ \/ /\ frames[o].list = 0
              /\ lists' = Append(lists, <<c>>)
              /\ frames' = ListedAt(frames, o, Len(lists) + 1)
           \/ /\ frames[o].list # 0
              /\ lists' = [lists EXCEPT ![frames[o].list] = Append(@, c)]
              /\ UNCHANGED frames
        /\ UNCHANGED program
    BY <1>8 DEF RegisterCleanup, ListedAt
  <2> HIDE DEF o
  <2>3. CASE frames[o].list = 0
    <3>1. lists' = Append(lists, <<c>>) /\ frames' = ListedAt(frames, o, Len(lists) + 1)
          /\ UNCHANGED program
      BY <2>2, <2>3
    <3>2. /\ lists' \in Seq(Seq(1 .. c)) /\ Len(lists') = Len(lists) + 1
          /\ \A l \in 1 .. Len(lists') : lists'[l] # <<>>
      BY <1>1, <1>3, <3>1, NewArray
    <3>3. frames \in Seq(ObjectRecord(BOOLEAN)) /\ Len(lists) + 1 \in 0 .. MaxCleanups
      BY <1>1, <1>3, BoundsAssumption DEF WellFormed, FrameObject, ObjectRecord
    <3>4. /\ frames' \in Seq(ObjectRecord(BOOLEAN)) /\ Len(frames') = Len(frames)
          /\ frames'[o].list = Len(lists) + 1
          /\ \A p \in 1 .. Len(frames) : p # o => frames'[p] = frames[p]
      BY <2>1, <3>1, <3>3, ListedAtFacts
    <3>5. \A p \in 1 .. Len(frames) : frames'[p].list <= Len(lists')
      <4> SUFFICES ASSUME NEW p \in 1 .. Len(frames) PROVE frames'[p].list <= Len(lists')
        OBVIOUS
      <4>1. CASE p = o
        BY <1>1, <3>2, <3>4, <4>1
      <4>2. CASE p # o
        <5>1. frames'[p].list = frames[p].list /\ frames[p].list <= Len(lists)
              /\ frames[p].list \in Nat
          BY <1>5, <3>4, <4>2, ArrayFacts
        <5> QED
          BY <1>1, <3>2, <5>1
      <4> QED
        BY <4>1, <4>2
    <3>6. frames' \in Seq(FrameObject)
      BY <3>4 DEF FrameObject, ObjectRecord
    <3> QED
      BY <1>1, <1>2, <1>3, <1>6, <3>1, <3>2, <3>4, <3>5, <3>6
  <2>4. CASE frames[o].list # 0
    <3>1. lists' = [lists EXCEPT ![frames[o].list] = Append(@, c)]
          /\ UNCHANGED <<frames, program>>
      BY <2>2, <2>4
    <3>2. frames[o].list \in 1 .. Len(lists)
      BY <2>1, <2>4, ArrayFacts
    <3>3. /\ lists' \in Seq(Seq(1 .. c)) /\ Len(lists') = Len(lists)
          /\ \A l \in 1 .. Len(lists') : lists'[l] # <<>>
      <4> DEFINE m == frames[o].list
      <4>1. m \in 1 .. Len(lists) /\ lists' = [lists EXCEPT ![m] = Append(@, Len(fired) + 1)]
        BY <3>1, <3>2
      <4> HIDE DEF m
      <4>2. /\ Len(fired) \in Nat /\ lists \in Seq(Seq(1 .. Len(fired)))
            /\ \A l \in 1 .. Len(lists) : lists[l] # <<>>
        BY <1>1, <1>3
      <4> DEFINE ls2 == [lists EXCEPT ![m] = Append(@, Len(fired) + 1)]
      <4>3. /\ ls2 \in Seq(Seq(1 .. Len(fired) + 1)) /\ Len(ls2) = Len(lists)
            /\ \A l \in 1 .. Len(ls2) : ls2[l] # <<>>
        BY <4>1, <4>2, LongerArray, ZenonT(30)
      <4>4. lists' = ls2
        BY <4>1
      <4> HIDE DEF ls2
      <4> QED
        BY <4>3, <4>4
    <3>4. /\ frames' \in Seq(FrameObject) /\ Len(frames') = Len(frames)
          /\ \A p \in 1 .. Len(frames) : frames'[p].list <= Len(lists')
          /\ program' \subseteq 1 .. c
      BY <1>5, <1>6, <3>1, <3>3
    <3>5. Len(lists') <= c /\ Len(lists) <= Len(lists')
      BY <1>1, <1>4, <3>3
    <3> QED
      BY <1>1, <1>2, <3>3, <3>4, <3>5
  <2> QED
    BY <2>3, <2>4
<1> QED
  BY <1>7, <1>8

LEMMA RegisterWellFormed == ASSUME WellFormed, RegisterCleanup PROVE WellFormed'
<1>1. /\ Len(frames') = Len(frames) /\ UNCHANGED <<k, control, captured, installs, status>>
      /\ Len(frames) <= MaxFrames
  BY RegisterFacts DEF WellFormed
<1>2. ContinuationOK(k)' /\ CodeInFront'
  BY <1>1 DEF WellFormed, ContinuationOK, CodeInFront
<1>3. \A r \in 1 .. Len(captured') : ResumeOK(r)'
  <2> SUFFICES ASSUME NEW r \in 1 .. Len(captured) PROVE ResumeOK(r)'
    BY <1>1
  <2>1. ResumeOK(r)
    BY DEF WellFormed
  <2> QED
    BY <1>1, <2>1 DEF ResumeOK, ContinuationOK
<1>4. /\ control' \in {"code", "value", "error"} /\ installs' \in 0 .. MaxInstalls
      /\ status' \in {"running", "completed", "error", "halted", "suspended"}
      /\ captured' \in Seq([performK : Continuation, used : BOOLEAN])
      /\ Len(captured') <= MaxResumes
  BY <1>1 DEF WellFormed
<1> QED
  BY <1>1, <1>2, <1>3, <1>4, RegisterFacts DEF WellFormed

LEMMA RaiseWellFormed ==
  ASSUME WellFormed, Running, Raise(k)
  PROVE  WellFormed'
<1>1. CASE Catchers(k, "error") # {} /\ Dispatch(k, First(Catchers(k, "error")))
  BY <1>1, CatcherFacts, DispatchWellFormed DEF Running
<1>2. CASE End("error")
  BY <1>2, EndWellFormed
<1> QED
  BY <1>1, <1>2 DEF Raise

LEMMA PerformWellFormed == ASSUME WellFormed, Perform PROVE WellFormed'
BY CatcherFacts, DispatchWellFormed DEF Perform, InCode, Running

LEMMA SuspendWellFormed == ASSUME WellFormed, Suspend PROVE WellFormed'
<1>1. CASE status' = "suspended" /\ UNCHANGED <<k, control, Heap>>
  <2>1. ContinuationOK(k') /\ CodeInFront'
    BY <1>1 DEF WellFormed, CodeInFront, ContinuationOK
  <2> QED
    BY <1>1, <2>1, SameHeap DEF Heap, WellFormed
<1>2. CASE Raise(k)
  BY <1>2, RaiseWellFormed DEF Suspend, InCode
<1> QED
  BY <1>1, <1>2 DEF Suspend

\* Every step leaves the state well-formed.
LEMMA NextWellFormed == ASSUME WellFormed, [Next]_vars PROVE WellFormed'
<1>1. CASE Perform
  BY <1>1, PerformWellFormed
<1>2. CASE Throw
  BY <1>2, RaiseWellFormed DEF Throw, InCode
<1>3. CASE ErrorStep
  BY <1>3, RaiseWellFormed DEF ErrorStep
<1>4. CASE Return
  BY <1>4, ReturnWellFormed
<1>5. CASE RegisterCleanup
  BY <1>5, RegisterWellFormed
<1>6. CASE Suspend
  BY <1>6, SuspendWellFormed
<1>7. CASE Halt
  BY <1>7, EndWellFormed DEF Halt
<1>8. CASE \E h \in Handlers : Install(h)
  BY <1>8, InstallWellFormed
<1>9. ASSUME NEW r \in DOMAIN captured, CallResume(r) \/ RefuseResume(r)
      PROVE  WellFormed'
  <2>1. r \in 1 .. Len(captured)
    BY <1>9 DEF WellFormed
  <2>2. CASE CallResume(r)
    BY <2>1, <2>2, ResumeWellFormed
  <2>3. CASE RefuseResume(r)
    BY <2>3, RaiseWellFormed DEF RefuseResume, InCode
  <2> QED
    BY <1>9, <2>2, <2>3
<1>10. CASE CodeContinues
  BY <1>10, CodeContinuesWellFormed
<1>11. CASE HandleCompletes
  BY <1>11, HandleCompletesWellFormed
<1>12. CASE TransformCompletes
  BY <1>12, TransformCompletesWellFormed
<1>13. CASE ClauseCompletes
  BY <1>13, ClauseCompletesWellFormed
<1>14. CASE CleanupFires
  BY <1>14, CleanupFiresWellFormed
<1>15. CASE ProgramCompletes
  BY <1>15, EndWellFormed DEF ProgramCompletes
<1>16. CASE UNCHANGED vars
  BY <1>16 DEF vars, WellFormed, ContinuationOK, CodeInFront, ResumeOK
<1> QED
  BY <1>1, <1>2, <1>3, <1>4, <1>5, <1>6, <1>7, <1>8, <1>9, <1>10, <1>11, <1>12, <1>13, <1>14,
     <1>15, <1>16 DEF Next, Terminated

\* In every run the continuation, the frame objects, the cleanup arrays, the resume
\* functions and their counters have the types of the model, and every handle frame
\* refers to a frame object: the stack operations of the evaluator lose none.
THEOREM TypeCorrect == Spec => []TypeOK
<1>1. Init => WellFormed
  BY InitWellFormed
<1>2. WellFormed /\ [Next]_vars => WellFormed'
  BY NextWellFormed
<1>3. WellFormed => TypeOK
  BY WellFormedTyped
<1> QED
  BY <1>1, <1>2, <1>3, PTL DEF Spec

-----------------------------------------------------------------------------
(* What holds a frame object: a handle or a cleanup frame of the            *)
(* continuation, or of what an unused resume function captured above its    *)
(* handler.  No two frames hold one object, no two held objects share an    *)
(* array, and the cleanups of a held object have not been called.           *)

Tokens(s) == {i \in 1 .. Len(s) : s[i].kind \in {"handle", "cleanup"}}
Held(s) == {s[i].ref : i \in Tokens(s)}
Once(s) == \A i, j \in Tokens(s) : s[i].ref = s[j].ref => i = j
Live == {r \in 1 .. Len(captured) : ~captured[r].used}
InResumes == UNION {Held(Inner(r)) : r \in Live}

HeldOnce ==
  /\ Once(k)
  /\ \A r \in Live : Once(Inner(r)) /\ Held(k) \cap Held(Inner(r)) = {}
  /\ \A r, q \in Live : r # q => Held(Inner(r)) \cap Held(Inner(q)) = {}
ArraysApart ==
  \A o, p \in Held(k) \cup InResumes :
    o # p /\ frames[o].list # 0 => frames[o].list # frames[p].list
HeldUnfired == \A o \in Held(k) \cup InResumes : \A c \in CleanupsOf(o) : fired[c] = 0
ListsDisjoint ==
  \A l, m \in 1 .. Len(lists) : l # m => Elements(lists[l]) \cap Elements(lists[m]) = {}
ProgramApart ==
  /\ \A l \in 1 .. Len(lists) : Elements(lists[l]) \cap program = {}
  /\ \A c \in program : fired[c] = 0

\* Inductive if every resume function is called at most once.
TokenInv ==
  /\ HeldOnce /\ ArraysApart /\ HeldUnfired /\ ListsDisjoint /\ ProgramApart
  /\ FiresAtMostOnce

\* A token of two joined continuations is one of the first or one of the second.
LEMMA TokensJoined ==
  ASSUME NEW S, NEW s \in Seq(S), NEW t \in Seq(S)
  PROVE  \A i : i \in Tokens(s \o t) <=>
                  \/ i \in Tokens(s)
                  \/ \E j \in Tokens(t) : i = Len(s) + j
<1>1. /\ Len(s) \in Nat /\ Len(t) \in Nat /\ Len(s \o t) = Len(s) + Len(t)
      /\ \A j \in 1 .. Len(s) : (s \o t)[j] = s[j]
      /\ \A j \in 1 .. Len(t) : (s \o t)[Len(s) + j] = t[j]
  BY Joined
<1> DEFINE st == s \o t
<1>2. /\ Len(st) = Len(s) + Len(t)
      /\ \A j \in 1 .. Len(s) : st[j] = s[j]
      /\ \A j \in 1 .. Len(t) : st[Len(s) + j] = t[j]
  BY <1>1
<1> HIDE DEF st
<1>3. ASSUME NEW i \in Tokens(st), i \notin Tokens(s)
      PROVE  \E j \in Tokens(t) : i = Len(s) + j
  <2>1. i \in 1 .. Len(s) + Len(t) /\ st[i].kind \in {"handle", "cleanup"}
    BY <1>2, <1>3 DEF Tokens
  <2>2. i \notin 1 .. Len(s)
    BY <1>2, <1>3, <2>1 DEF Tokens
  <2>3. i - Len(s) \in 1 .. Len(t) /\ i = Len(s) + (i - Len(s))
    BY <1>1, <2>1, <2>2
  <2>4. i - Len(s) \in Tokens(t)
    BY <1>2, <2>1, <2>3 DEF Tokens
  <2> QED
    BY <2>3, <2>4
<1>4. ASSUME NEW i \in Tokens(s)
      PROVE  i \in Tokens(st)
  BY <1>1, <1>2, <1>4 DEF Tokens
<1>5. ASSUME NEW j \in Tokens(t)
      PROVE  Len(s) + j \in Tokens(st)
  <2>1. j \in 1 .. Len(t) /\ Len(s) + j \in 1 .. Len(s) + Len(t)
    BY <1>1 DEF Tokens
  <2> QED
    BY <1>2, <2>1 DEF Tokens
<1> QED
  BY <1>3, <1>4, <1>5 DEF st

LEMMA HeldJoined ==
  ASSUME NEW S, NEW s \in Seq(S), NEW t \in Seq(S)
  PROVE  /\ Held(s \o t) = Held(s) \cup Held(t)
         /\ Once(s \o t) <=> Once(s) /\ Once(t) /\ Held(s) \cap Held(t) = {}
<1> DEFINE st == s \o t
           n == Len(s)
<1>1. /\ \A i : i \in Tokens(st) <=> i \in Tokens(s) \/ \E j \in Tokens(t) : i = n + j
      /\ \A i \in Tokens(s) : st[i] = s[i]
      /\ \A j \in Tokens(t) : st[n + j] = t[j]
  <2>1. \A i : i \in Tokens(st) <=> i \in Tokens(s) \/ \E j \in Tokens(t) : i = n + j
    BY TokensJoined
  <2>2. Tokens(s) \subseteq 1 .. Len(s) /\ Tokens(t) \subseteq 1 .. Len(t)
    BY DEF Tokens
  <2>3. (\A i \in 1 .. Len(s) : st[i] = s[i]) /\ \A j \in 1 .. Len(t) : st[n + j] = t[j]
    BY Joined
  <2> QED
    BY <2>1, <2>2, <2>3, Zenon
<1>2. n \in Nat /\ Tokens(s) \subseteq 1 .. n /\ Tokens(t) \subseteq Nat \ {0}
  BY DEF Tokens
<1> HIDE DEF st, n
<1>3. Held(st) = Held(s) \cup Held(t)
  BY <1>1 DEF Held
<1>4. ASSUME Once(st) PROVE Once(s) /\ Once(t) /\ Held(s) \cap Held(t) = {}
  <2>1. Once(s)
    BY <1>1, <1>4 DEF Once
  <2>2. Once(t)
    <3> SUFFICES ASSUME NEW i \in Tokens(t), NEW j \in Tokens(t), t[i].ref = t[j].ref
                 PROVE  i = j
      BY DEF Once
    <3>1. n + i = n + j
      BY <1>1, <1>4 DEF Once
    <3> QED
      BY <1>2, <3>1
  <2>3. ASSUME NEW i \in Tokens(s), NEW j \in Tokens(t), s[i].ref = t[j].ref PROVE FALSE
    <3>1. i = n + j
      BY <1>1, <1>4, <2>3 DEF Once
    <3> QED
      BY <1>2, <3>1
  <2> QED
    BY <2>1, <2>2, <2>3 DEF Held
<1>5. ASSUME Once(s), Once(t), Held(s) \cap Held(t) = {} PROVE Once(st)
  <2> SUFFICES ASSUME NEW i \in Tokens(st), NEW j \in Tokens(st), st[i].ref = st[j].ref
               PROVE  i = j
    BY DEF Once
  <2>0. \A a \in Tokens(s), b \in Tokens(t) : s[a].ref # t[b].ref
    BY <1>5 DEF Held
  <2>1. CASE i \in Tokens(s) /\ j \in Tokens(s)
    BY <1>1, <1>5, <2>1 DEF Once
  <2>2. CASE i \in Tokens(s) /\ j \notin Tokens(s)
    BY <1>1, <2>0, <2>2
  <2>3. CASE i \notin Tokens(s) /\ j \in Tokens(s)
    BY <1>1, <2>0, <2>3
  <2>4. CASE i \notin Tokens(s) /\ j \notin Tokens(s)
    <3>1. PICK a \in Tokens(t), b \in Tokens(t) : i = n + a /\ j = n + b
      BY <1>1, <2>4
    <3>2. t[a].ref = t[b].ref
      BY <1>1, <3>1
    <3> QED
      BY <1>5, <3>1, <3>2 DEF Once
  <2> QED
    BY <2>1, <2>2, <2>3, <2>4
<1> QED
  BY <1>3, <1>4, <1>5 DEF st

LEMMA HeldSingle ==
  ASSUME NEW f
  PROVE  /\ Once(<<f>>)
         /\ f.kind \in {"handle", "cleanup"} => Held(<<f>>) = {f.ref}
         /\ f.kind \notin {"handle", "cleanup"} => Held(<<f>>) = {}
<1> DEFINE s == <<f>>
<1>1. Len(s) = 1 /\ s[1] = f /\ 1 .. 1 = {1}
  OBVIOUS
<1> HIDE DEF s
<1>2. Tokens(s) \subseteq {1} /\ (1 \in Tokens(s) <=> f.kind \in {"handle", "cleanup"})
  BY <1>1 DEF Tokens
<1>3. Once(s)
  BY <1>2 DEF Once
<1>4. f.kind \in {"handle", "cleanup"} => Held(s) = {f.ref}
  BY <1>1, <1>2 DEF Held
<1>5. f.kind \notin {"handle", "cleanup"} => Held(s) = {}
  BY <1>2 DEF Held
<1> QED
  BY <1>3, <1>4, <1>5 DEF s

\* A continuation is what is above a frame, the frame, and what is below it.
LEMMA SplitAt ==
  ASSUME NEW S, NEW s \in Seq(S), NEW i \in 1 .. Len(s)
  PROVE  s = SubSeq(s, 1, i - 1) \o (<<s[i]>> \o Below(s, i))
<1> DEFINE a == SubSeq(s, 1, i - 1)
           b == <<s[i]>>
           c == Below(s, i)
<1>1. a \in Seq(S) /\ Len(a) = i - 1 /\ \A j \in 1 .. i - 1 : a[j] = s[j]
  <2> DEFINE m == i - 1
  <2>1. m \in 0 .. Len(s)
    OBVIOUS
  <2> HIDE DEF m
  <2>2. SubSeq(s, 1, m) \in Seq(S) /\ Len(SubSeq(s, 1, m)) = m
        /\ \A j \in 1 .. m : SubSeq(s, 1, m)[j] = s[j]
    BY <2>1, Parts
  <2> QED
    BY <2>2 DEF m
<1>2. c \in Seq(S) /\ Len(c) = Len(s) - i /\ \A j \in 1 .. Len(s) - i : c[j] = s[i + j]
  BY Parts
<1>3. b \in Seq(S) /\ Len(b) = 1 /\ b[1] = s[i]
  OBVIOUS
<1> DEFINE m == i - 1
           n == Len(s) - i
<1>4. m \in Nat /\ n \in Nat /\ i = m + 1 /\ Len(s) = m + 1 + n
  OBVIOUS
<1>5. /\ a \in Seq(S) /\ Len(a) = m /\ \A j \in 1 .. m : a[j] = s[j]
      /\ c \in Seq(S) /\ Len(c) = n /\ \A j \in 1 .. n : c[j] = s[i + j]
  <2> HIDE DEF a, c
  <2>1. a \in Seq(S) /\ Len(a) = m /\ \A j \in 1 .. m : a[j] = s[j]
    BY <1>1
  <2>2. c \in Seq(S) /\ Len(c) = n /\ \A j \in 1 .. n : c[j] = s[i + j]
    BY <1>2
  <2> QED
    BY <2>1, <2>2
<1> HIDE DEF a, b, c, m, n
<1>6. /\ a \o (b \o c) \in Seq(S) /\ Len(a \o (b \o c)) = m + 1 + n
      /\ \A j \in 1 .. m : (a \o (b \o c))[j] = a[j]
      /\ (a \o (b \o c))[m + 1] = s[i]
      /\ \A j \in 1 .. n : (a \o (b \o c))[m + 1 + j] = c[j]
  <2> DEFINE d == b \o c
  <2>1. /\ d \in Seq(S) /\ Len(d) = 1 + n /\ d[1] = s[i]
        /\ \A j \in 1 .. n : d[1 + j] = c[j]
    <3>1. b \in Seq(S) /\ c \in Seq(S) /\ 1 \in 1 .. 1
      BY <1>3, <1>5
    <3>2. /\ d \in Seq(S) /\ Len(d) = Len(b) + Len(c)
          /\ \A j \in 1 .. Len(b) : d[j] = b[j]
          /\ \A j \in 1 .. Len(c) : d[Len(b) + j] = c[j]
      BY <3>1, Joined
    <3> HIDE DEF d
    <3> QED
      BY <1>3, <1>5, <3>1, <3>2
  <2> HIDE DEF d
  <2>2. /\ a \o d \in Seq(S) /\ Len(a \o d) = m + (1 + n)
        /\ \A j \in 1 .. m : (a \o d)[j] = a[j]
        /\ \A j \in 1 .. 1 + n : (a \o d)[m + j] = d[j]
    <3>1. a \in Seq(S) /\ d \in Seq(S)
      BY <1>5, <2>1
    <3>2. /\ a \o d \in Seq(S) /\ Len(a \o d) = Len(a) + Len(d)
          /\ \A j \in 1 .. Len(a) : (a \o d)[j] = a[j]
          /\ \A j \in 1 .. Len(d) : (a \o d)[Len(a) + j] = d[j]
      BY <3>1, Joined
    <3>3. Len(a) = m /\ Len(d) = 1 + n
      BY <1>5, <2>1
    <3> QED
      BY <3>2, <3>3
  <2>3. (a \o d)[m + 1] = s[i]
    <3>1. 1 \in 1 .. 1 + n
      BY <1>4
    <3> QED
      BY <2>1, <2>2, <3>1
  <2>4. \A j \in 1 .. n : (a \o d)[m + 1 + j] = c[j]
    <3> SUFFICES ASSUME NEW j \in 1 .. n PROVE (a \o d)[m + 1 + j] = c[j]
      OBVIOUS
    <3>1. 1 + j \in 1 .. 1 + n /\ m + 1 + j = m + (1 + j)
      BY <1>4
    <3> QED
      BY <2>1, <2>2, <3>1
  <2>5. m + (1 + n) = m + 1 + n
    BY <1>4
  <2> QED
    BY <2>2, <2>3, <2>4, <2>5 DEF d
<1> DEFINE e == a \o (b \o c)
<1>7. /\ e \in Seq(S) /\ Len(e) = m + 1 + n
      /\ \A j \in 1 .. m : e[j] = a[j]
      /\ e[m + 1] = s[i]
      /\ \A j \in 1 .. n : e[m + 1 + j] = c[j]
  BY <1>6
<1> HIDE DEF e
<1>8. \A j \in 1 .. Len(s) : e[j] = s[j]
  <2> SUFFICES ASSUME NEW j \in 1 .. Len(s) PROVE e[j] = s[j]
    OBVIOUS
  <2>1. CASE j \in 1 .. m
    BY <1>5, <1>7, <2>1
  <2>2. CASE j = m + 1
    BY <1>4, <1>7, <2>2
  <2>3. CASE j > m + 1
    <3> DEFINE x == j - (m + 1)
    <3>1. x \in 1 .. n /\ j = m + 1 + x
      BY <1>4, <2>3
    <3> HIDE DEF x
    <3>2. e[j] = c[x] /\ c[x] = s[i + x] /\ i + x = j
      BY <1>4, <1>5, <1>7, <3>1
    <3> QED
      BY <3>2
  <2> QED
    BY <1>4, <2>1, <2>2, <2>3
<1>9. e = s
  BY <1>4, <1>7, <1>8
<1> QED
  BY <1>9 DEF a, b, c, e

\* Frames are dropped: what the others hold.
LEMMA HeldSplit ==
  ASSUME NEW S, NEW s \in Seq(S), NEW i \in 1 .. Len(s)
  PROVE  LET above == SubSeq(s, 1, i - 1)
             below == Below(s, i)
         IN  /\ Held(s) = Held(above) \cup Held(<<s[i]>>) \cup Held(below)
             /\ Once(s) => /\ Once(above) /\ Once(below)
                           /\ Held(above) \cap Held(below) = {}
                           /\ Held(above) \cap Held(<<s[i]>>) = {}
                           /\ Held(<<s[i]>>) \cap Held(below) = {}
<1> DEFINE a == SubSeq(s, 1, i - 1)
           b == <<s[i]>>
           c == Below(s, i)
<1>1. s = a \o (b \o c)
  BY SplitAt
<1>2. b \in Seq(S) /\ c \in Seq(S)
  BY Parts
<1>3. a \in Seq(S)
  <2> DEFINE m == i - 1
  <2>1. m \in 0 .. Len(s)
    OBVIOUS
  <2> HIDE DEF m
  <2>2. SubSeq(s, 1, m) \in Seq(S)
    BY <2>1, Parts
  <2> QED
    BY <2>2 DEF m
<1> HIDE DEF a, b, c
<1>4. /\ b \o c \in Seq(S) /\ Held(b \o c) = Held(b) \cup Held(c)
      /\ Once(b \o c) <=> Once(b) /\ Once(c) /\ Held(b) \cap Held(c) = {}
  BY <1>2, HeldJoined, Joined
<1> DEFINE d == b \o c
<1> HIDE DEF d
<1>5. /\ Held(a \o d) = Held(a) \cup Held(d)
      /\ Once(a \o d) <=> Once(a) /\ Once(d) /\ Held(a) \cap Held(d) = {}
  BY <1>3, <1>4, HeldJoined DEF d
<1>6. Held(d) = Held(b) \cup Held(c)
      /\ (Once(d) <=> Once(b) /\ Once(c) /\ Held(b) \cap Held(c) = {})
  BY <1>4 DEF d
<1>7. s = a \o d
  BY <1>1 DEF d
<1>8. Held(s) = Held(a) \cup Held(d)
      /\ (Once(s) <=> Once(a) /\ Once(d) /\ Held(a) \cap Held(d) = {})
  BY <1>5, <1>7
<1>9. Held(s) = Held(a) \cup Held(b) \cup Held(c)
  BY <1>6, <1>8
<1>10. Once(s) => /\ Once(a) /\ Once(c) /\ Held(a) \cap Held(c) = {}
                  /\ Held(a) \cap Held(b) = {} /\ Held(b) \cap Held(c) = {}
  BY <1>6, <1>8
<1> QED
  BY <1>9, <1>10 DEF a, b, c

LEMMA HeldBound ==
  ASSUME WellFormed, NEW kk, ContinuationOK(kk)
  PROVE  Held(kk) \subseteq 1 .. Len(frames)
BY FrameOn DEF Held, Tokens

\* What the frames above the handler of a resume function hold.
LEMMA ResumesBound ==
  ASSUME WellFormed
  PROVE  /\ InResumes \subseteq 1 .. Len(frames)
         /\ \A r \in Live : /\ r \in 1 .. Len(captured) /\ ContinuationOK(Inner(r))
                            /\ Held(Inner(r)) \subseteq InResumes
<1>1. \A r \in Live : /\ r \in 1 .. Len(captured) /\ ContinuationOK(Inner(r))
                      /\ Held(Inner(r)) \subseteq 1 .. Len(frames)
  BY InnerFacts, HeldBound DEF Live
<1> QED
  BY <1>1, Zenon DEF InResumes

\* The first frame of the continuation and the others.
LEMMA HeldTail ==
  ASSUME NEW S, NEW s \in Seq(S), s # <<>>
  PROVE  /\ Held(s) = Held(<<s[1]>>) \cup Held(Tail(s))
         /\ Once(s) => Once(Tail(s)) /\ Held(<<s[1]>>) \cap Held(Tail(s)) = {}
<1>1. s = <<s[1]>> \o Tail(s)
  <2>1. Head(s) = s[1]
    BY Parts
  <2>2. s = <<Head(s)>> \o Tail(s)
    OBVIOUS
  <2> QED
    BY <2>1, <2>2
<1>2. <<s[1]>> \in Seq(S) /\ Tail(s) \in Seq(S)
  OBVIOUS
<1> DEFINE a == <<s[1]>>
           b == Tail(s)
<1>3. a \in Seq(S) /\ b \in Seq(S) /\ s = a \o b
  BY <1>1, <1>2
<1> HIDE DEF a, b
<1>4. Held(a \o b) = Held(a) \cup Held(b)
      /\ (Once(a \o b) => Once(b) /\ Held(a) \cap Held(b) = {})
  BY <1>3, HeldJoined
<1>5. Held(s) = Held(a) \cup Held(b) /\ (Once(s) => Once(b) /\ Held(a) \cap Held(b) = {})
  BY <1>3, <1>4
<1> QED
  BY <1>5 DEF a, b

\* What is below a frame holds less.
LEMMA HeldBelow ==
  ASSUME NEW S, NEW s \in Seq(S), NEW i \in 1 .. Len(s)
  PROVE  Held(Below(s, i)) \subseteq Held(s) /\ (Once(s) => Once(Below(s, i)))
<1> DEFINE a == SubSeq(s, 1, i - 1)
           b == <<s[i]>>
           c == Below(s, i)
<1>1. Held(s) = Held(a) \cup Held(b) \cup Held(c) /\ (Once(s) => Once(c))
  BY HeldSplit
<1> HIDE DEF a, b, c
<1> QED
  BY <1>1 DEF c

\* The cleanups of a frame object whose array stays.
LEMMA SameCleanupsOf ==
  ASSUME NEW o, frames'[o].list = frames[o].list, lists' = lists
  PROVE  CleanupsOf(o)' = CleanupsOf(o)
BY DEF CleanupsOf, Elements

\* The continuation holds less and the resume functions what they held.
LEMMA HeldShrinks ==
  ASSUME WellFormed, TokenInv, UNCHANGED <<captured, lists>>, program' \subseteq program,
         \A o \in 1 .. Len(frames) : frames'[o].list = frames[o].list,
         Once(k'), Held(k') \subseteq Held(k),
         \A o \in Held(k') \cup InResumes : \A c \in CleanupsOf(o) : fired'[c] = 0,
         \A c \in program' : fired'[c] = 0,
         FiresAtMostOnce'
  PROVE  TokenInv'
<1>1. Held(k) \subseteq 1 .. Len(frames) /\ InResumes \subseteq 1 .. Len(frames)
  BY HeldBound, ResumesBound DEF WellFormed
<1>2. Live' = Live /\ \A r : Inner(r)' = Inner(r)
  BY DEF Live, Inner
<1>3. InResumes' = InResumes
  BY <1>2 DEF InResumes, Live
<1>4. HeldOnce'
  BY <1>2 DEF HeldOnce, TokenInv, Live
<1>5. ArraysApart'
  <2> SUFFICES ASSUME NEW o \in Held(k') \cup InResumes, NEW p \in Held(k') \cup InResumes,
                      o # p, frames'[o].list # 0
               PROVE  frames'[o].list # frames'[p].list
    BY <1>3 DEF ArraysApart
  <2>1. /\ o \in Held(k) \cup InResumes /\ p \in Held(k) \cup InResumes
        /\ frames'[o].list = frames[o].list /\ frames'[p].list = frames[p].list
    BY <1>1
  <2> QED
    BY <2>1 DEF ArraysApart, TokenInv
<1>6. \A o \in Held(k') \cup InResumes : CleanupsOf(o)' = CleanupsOf(o)
  BY <1>1, SameCleanupsOf
<1>7. HeldUnfired'
  BY <1>3, <1>6 DEF HeldUnfired
<1>8. ListsDisjoint' /\ ProgramApart'
  BY DEF ListsDisjoint, ProgramApart, TokenInv
<1> QED
  BY <1>4, <1>5, <1>7, <1>8 DEF TokenInv

\* The same, and nothing is called.
LEMMA OnlyShrinks ==
  ASSUME WellFormed, TokenInv, UNCHANGED Heap, Once(k'), Held(k') \subseteq Held(k)
  PROVE  TokenInv'
<1>1. UNCHANGED <<frames, lists, captured, fired, program>>
  BY DEF Heap
<1>2. \A o \in Held(k') \cup InResumes : \A c \in CleanupsOf(o) : fired'[c] = 0
  BY <1>1 DEF TokenInv, HeldUnfired
<1>3. (\A c \in program' : fired'[c] = 0) /\ FiresAtMostOnce'
  BY <1>1 DEF TokenInv, ProgramApart, FiresAtMostOnce, Registered
<1> QED
  BY <1>1, <1>2, <1>3, HeldShrinks

LEMMA EndTokens == ASSUME WellFormed, TokenInv, NEW how, End(how) PROVE TokenInv'
<1>1. fired' = Fire(program) /\ program' = {} /\ k' = k
      /\ UNCHANGED <<frames, lists, captured>>
  BY DEF End
<1>2. \A c \in 1 .. Len(fired) :
        fired'[c] = IF c \in program /\ fired[c] < 2 THEN fired[c] + 1 ELSE fired[c]
  BY <1>1, FireFacts
<1>3. Len(fired') = Len(fired) /\ fired' \in Seq(0 .. 2)
  BY <1>1, FireFacts
<1>4. Held(k) \cup InResumes \subseteq 1 .. Len(frames)
  BY HeldBound, ResumesBound DEF WellFormed
<1>5. \A o \in Held(k) \cup InResumes : \A c \in CleanupsOf(o) : fired'[c] = 0
  <2> SUFFICES ASSUME NEW o \in Held(k) \cup InResumes, NEW c \in CleanupsOf(o)
               PROVE  fired'[c] = 0
    OBVIOUS
  <2>1. o \in 1 .. Len(frames) /\ c \in 1 .. Len(fired) /\ fired[c] = 0
    BY <1>4, ArrayFacts DEF TokenInv, HeldUnfired
  <2>2. c \notin program
    <3>1. frames[o].list \in 1 .. Len(lists) /\ c \in Elements(lists[frames[o].list])
      BY <2>1, ArrayFacts
    <3> QED
      BY <3>1 DEF TokenInv, ProgramApart
  <2> QED
    BY <1>2, <2>1, <2>2
<1>6. FiresAtMostOnce'
  <2>1. \A c \in 1 .. Len(fired) : fired'[c] <= 1
    <3>1. \A c \in 1 .. Len(fired) : fired[c] \in 0 .. 2 /\ fired[c] <= 1
      BY DEF TokenInv, FiresAtMostOnce, Registered, WellFormed
    <3>2. \A c \in program : fired[c] = 0
      BY DEF TokenInv, ProgramApart
    <3> QED
      BY <1>2, <3>1, <3>2
  <2>2. DOMAIN fired' = 1 .. Len(fired)
    BY <1>3
  <2> QED
    BY <2>1, <2>2 DEF FiresAtMostOnce, Registered
<1> QED
  BY <1>1, <1>5, <1>6, HeldShrinks DEF TokenInv, HeldOnce

LEMMA HeldRest ==
  ASSUME NEW S, NEW s \in Seq(S), s # <<>>
  PROVE  Held(Tail(s)) \subseteq Held(s) /\ (Once(s) => Once(Tail(s)))
<1>1. Held(s) = Held(<<s[1]>>) \cup Held(Tail(s))
  BY HeldTail
<1>2. Once(s) => Once(Tail(s))
  BY HeldTail
<1> QED
  BY <1>1, <1>2

LEMMA ReturnTokens == ASSUME WellFormed, TokenInv, Return PROVE TokenInv'
<1>1. k \in Seq(Frame(Len(frames), Len(captured))) /\ k # <<>> /\ k' = Tail(k) /\ UNCHANGED Heap
  BY Sizes DEF Return, InCode
<1>2. Once(k') /\ Held(k') \subseteq Held(k)
  <2>1. Once(k)
    BY DEF TokenInv, HeldOnce
  <2> QED
    BY <1>1, <2>1, HeldRest
<1> QED
  BY <1>1, <1>2, OnlyShrinks

LEMMA CodeContinuesTokens == ASSUME WellFormed, TokenInv, CodeContinues PROVE TokenInv'
BY OnlyShrinks DEF CodeContinues, Heap, TokenInv, HeldOnce

LEMMA TransformCompletesTokens ==
  ASSUME WellFormed, TokenInv, TransformCompletes PROVE TokenInv'
<1>1. k \in Seq(Frame(Len(frames), Len(captured))) /\ k # <<>> /\ k' = Tail(k) /\ UNCHANGED Heap
  BY Sizes DEF TransformCompletes, Meets
<1>2. Once(k') /\ Held(k') \subseteq Held(k)
  <2>1. Once(k)
    BY DEF TokenInv, HeldOnce
  <2> QED
    BY <1>1, <2>1, HeldRest
<1> QED
  BY <1>1, <1>2, OnlyShrinks

\* The cleanup frame that a handler leaves holds its object.
LEMMA HeldLeave ==
  ASSUME WellFormed, NEW o \in 1 .. Len(frames), NEW rest, ContinuationOK(rest),
         Once(rest), o \notin Held(rest)
  PROVE  /\ Once(LeaveCleanup(o, rest)) /\ Held(LeaveCleanup(o, rest)) \subseteq {o} \cup Held(rest)
         /\ ContinuationOK(LeaveCleanup(o, rest))
<1> DEFINE F == Frame(Len(frames), Len(captured))
<1>1. <<Cleanup(o)>> \in Seq(F) /\ rest \in Seq(F)
  <2>1. Cleanup(o) \in F
    BY FrameTypes DEF WellFormed
  <2> QED
    BY <2>1 DEF ContinuationOK
<1>2. Held(<<Cleanup(o)>>) = {o} /\ Once(<<Cleanup(o)>>)
  BY HeldSingle DEF Cleanup
<1> HIDE DEF F
<1> DEFINE a == <<Cleanup(o)>>
<1>3. Once(a \o rest) /\ Held(a \o rest) = {o} \cup Held(rest)
  <2>1. a \in Seq(F) /\ Held(a) = {o} /\ Once(a) /\ rest \in Seq(F)
    BY <1>1, <1>2
  <2> HIDE DEF a
  <2>2. /\ Held(a \o rest) = Held(a) \cup Held(rest)
        /\ Once(a \o rest) <=> Once(a) /\ Once(rest) /\ Held(a) \cap Held(rest) = {}
    BY <2>1, HeldJoined
  <2> QED
    BY <2>1, <2>2
<1> QED
  BY <1>3, LeaveCleanupOK DEF LeaveCleanup

\* Two frames that hold nothing are put in front.
LEMMA HeldInFront ==
  ASSUME NEW S, NEW f \in S, NEW g \in S, NEW rest \in Seq(S),
         f.kind \notin {"handle", "cleanup"}, g.kind \notin {"handle", "cleanup"}
  PROVE  /\ Held(<<f, g>> \o rest) = Held(rest)
         /\ Once(<<f, g>> \o rest) <=> Once(rest)
<1> DEFINE s == <<f, g>>
<1>1. s \in Seq(S) /\ Len(s) = 2 /\ s[1] = f /\ s[2] = g /\ 1 .. 2 = {1, 2}
  OBVIOUS
<1> HIDE DEF s
<1>2. Tokens(s) = {}
  BY <1>1 DEF Tokens
<1>3. Held(s) = {} /\ Once(s)
  BY <1>2 DEF Held, Once
<1>4. Held(s \o rest) = Held(rest) /\ (Once(s \o rest) <=> Once(rest))
  BY <1>1, <1>3, HeldJoined
<1> QED
  BY <1>4 DEF s

LEMMA HandleCompletesTokens == ASSUME WellFormed, TokenInv, HandleCompletes PROVE TokenInv'
<1> DEFINE o == Head(k).ref
           rest == LeaveCleanup(o, Tail(k))
           F == Frame(Len(frames), Len(captured))
<1>1. /\ k # <<>> /\ k[1].kind = "handle" /\ k[1].ref = o /\ o \in 1 .. Len(frames)
      /\ ContinuationOK(Tail(k)) /\ k \in Seq(F) /\ UNCHANGED Heap
  BY FrameMet DEF HandleCompletes, Meets, WellFormed, ContinuationOK
<1>2. k' = <<Code, Transform>> \o rest \/ k' = rest
  BY DEF HandleCompletes
<1> HIDE DEF o
<1>3. Held(<<k[1]>>) = {o}
  BY <1>1, HeldSingle
<1>4. /\ Once(Tail(k)) /\ o \notin Held(Tail(k)) /\ Held(k) = {o} \cup Held(Tail(k))
  BY <1>1, <1>3, HeldTail DEF TokenInv, HeldOnce
<1>5. Once(rest) /\ Held(rest) \subseteq Held(k) /\ rest \in Seq(F)
  BY <1>1, <1>4, HeldLeave DEF ContinuationOK
<1> HIDE DEF rest
<1>6. Code \in F /\ Transform \in F /\ Code.kind = "code" /\ Transform.kind = "transform"
  BY FrameTypes DEF WellFormed, Code, Transform
<1> HIDE DEF F
<1>7. Once(k') /\ Held(k') \subseteq Held(k)
  <2>1. /\ Held(<<Code, Transform>> \o rest) = Held(rest)
        /\ Once(<<Code, Transform>> \o rest) <=> Once(rest)
    BY <1>5, <1>6, HeldInFront
  <2>2. CASE k' = <<Code, Transform>> \o rest
    BY <1>5, <2>1, <2>2, Zenon
  <2>3. CASE k' = rest
    BY <1>5, <2>3, Zenon
  <2> QED
    BY <1>2, <2>2, <2>3
<1> QED
  BY <1>1, <1>7, OnlyShrinks

LEMMA ClauseCompletesTokens == ASSUME WellFormed, TokenInv, ClauseCompletes PROVE TokenInv'
<1> DEFINE rest == Tail(k)
<1>1. k \in Seq(Frame(Len(frames), Len(captured))) /\ k # <<>> /\ UNCHANGED Heap
  BY DEF WellFormed, ContinuationOK, ClauseCompletes, Meets
<1>2. ContinuationOK(rest) /\ Once(rest) /\ Held(rest) \subseteq Held(k)
  <2>1. ContinuationOK(rest)
    BY <1>1, FrameMet
  <2>2. Once(rest) /\ Held(rest) \subseteq Held(k)
    <3>1. Once(k)
      BY DEF TokenInv, HeldOnce
    <3> QED
      BY <1>1, <3>1, HeldRest
  <2> QED
    BY <2>1, <2>2
<1>3. k' = IF HandlesIn(rest) = {} THEN rest ELSE Below(rest, First(HandlesIn(rest)))
  BY DEF ClauseCompletes
<1> HIDE DEF rest
<1>4. HandlesIn(rest) # {} => First(HandlesIn(rest)) \in 1 .. Len(rest)
  BY <1>2, SkippedFacts
<1>5. Once(k') /\ Held(k') \subseteq Held(k)
  <2>1. CASE HandlesIn(rest) = {}
    BY <1>2, <1>3, <2>1
  <2>2. CASE HandlesIn(rest) # {}
    <3>1. /\ Held(Below(rest, First(HandlesIn(rest)))) \subseteq Held(rest)
          /\ Once(Below(rest, First(HandlesIn(rest))))
      BY <1>2, <1>4, <2>2, HeldBelow DEF ContinuationOK
    <3> QED
      BY <1>2, <1>3, <2>2, <3>1
  <2> QED
    BY <2>1, <2>2
<1> QED
  BY <1>1, <1>5, OnlyShrinks

\* Two held objects have no cleanup in common.
LEMMA CleanupsApart ==
  ASSUME WellFormed, TokenInv, NEW o \in Held(k) \cup InResumes, NEW p \in Held(k) \cup InResumes,
         o # p
  PROVE  CleanupsOf(o) \cap CleanupsOf(p) = {}
<1>1. o \in 1 .. Len(frames) /\ p \in 1 .. Len(frames)
  BY HeldBound, ResumesBound DEF WellFormed
<1>2. CASE frames[o].list = 0 \/ frames[p].list = 0
  BY <1>1, <1>2, ArrayFacts
<1>3. CASE frames[o].list # 0 /\ frames[p].list # 0
  <2>1. /\ frames[o].list \in 1 .. Len(lists) /\ frames[p].list \in 1 .. Len(lists)
        /\ CleanupsOf(o) = Elements(lists[frames[o].list])
        /\ CleanupsOf(p) = Elements(lists[frames[p].list])
    BY <1>1, <1>3, ArrayFacts
  <2>2. frames[o].list # frames[p].list
    BY <1>3 DEF TokenInv, ArraysApart
  <2> QED
    BY <2>1, <2>2 DEF TokenInv, ListsDisjoint
<1> QED
  BY <1>2, <1>3

\* The cleanups of an object are not those of the program.
LEMMA CleanupsNotProgram ==
  ASSUME WellFormed, ProgramApart, NEW o \in 1 .. Len(frames)
  PROVE  CleanupsOf(o) \cap program = {}
<1>1. CASE frames[o].list = 0
  BY <1>1, ArrayFacts
<1>2. CASE frames[o].list # 0
  <2>1. frames[o].list \in 1 .. Len(lists) /\ CleanupsOf(o) = Elements(lists[frames[o].list])
    BY <1>2, ArrayFacts
  <2> QED
    BY <2>1 DEF ProgramApart
<1> QED
  BY <1>1, <1>2

LEMMA CleanupFiresTokens == ASSUME WellFormed, TokenInv, CleanupFires PROVE TokenInv'
<1> DEFINE o == Head(k).ref
<1>1. /\ k # <<>> /\ k[1].kind = "cleanup" /\ k[1].ref = o /\ o \in 1 .. Len(frames)
      /\ k \in Seq(Frame(Len(frames), Len(captured)))
  BY FrameMet DEF CleanupFires, Meets, WellFormed, ContinuationOK
<1>2. PICK yes \in BOOLEAN : yes = TRUE
  OBVIOUS
<1>3. /\ frames' = FiredAt(frames, o, yes) /\ fired' = Fire(CleanupsOf(o)) /\ k' = Tail(k)
      /\ UNCHANGED <<lists, captured, program>>
  BY <1>2 DEF CleanupFires, MarkFired, FiredAt
<1> HIDE DEF o
<1>4. Held(<<k[1]>>) = {o}
  BY <1>1, HeldSingle
<1>5. Once(k') /\ Held(k) = {o} \cup Held(k') /\ o \notin Held(k')
  BY <1>1, <1>3, <1>4, HeldTail DEF TokenInv, HeldOnce
<1>6. o \notin InResumes
  BY <1>5 DEF TokenInv, HeldOnce, InResumes
<1>7. \A p \in 1 .. Len(frames) : frames'[p].list = frames[p].list
  <2>1. frames \in Seq(ObjectRecord(BOOLEAN))
    BY DEF WellFormed, FrameObject, ObjectRecord
  <2> QED
    BY <1>1, <1>3, <2>1, FiredAtFacts
<1>8. /\ \A c \in 1 .. Len(fired) :
           fired'[c] = IF c \in CleanupsOf(o) /\ fired[c] < 2 THEN fired[c] + 1 ELSE fired[c]
      /\ Len(fired') = Len(fired) /\ fired' \in Seq(0 .. 2)
  BY <1>3, FireFacts
<1>9. \A p \in Held(k') \cup InResumes : \A c \in CleanupsOf(p) : fired'[c] = 0
  <2> SUFFICES ASSUME NEW p \in Held(k') \cup InResumes, NEW c \in CleanupsOf(p)
               PROVE  fired'[c] = 0
    OBVIOUS
  <2>1. p # o /\ p \in Held(k) \cup InResumes /\ o \in Held(k) \cup InResumes
    BY <1>5, <1>6
  <2>2. p \in 1 .. Len(frames)
    BY <2>1, HeldBound, ResumesBound DEF WellFormed
  <2>3. c \notin CleanupsOf(o)
    BY <2>1, CleanupsApart
  <2>4. c \in 1 .. Len(fired) /\ fired[c] = 0
    BY <2>1, <2>2, ArrayFacts DEF TokenInv, HeldUnfired
  <2> QED
    BY <1>8, <2>3, <2>4
<1>10. \A c \in program' : fired'[c] = 0
  <2> SUFFICES ASSUME NEW c \in program PROVE fired'[c] = 0
    BY <1>3
  <2>1. c \in 1 .. Len(fired) /\ fired[c] = 0 /\ c \notin CleanupsOf(o)
    BY <1>1, CleanupsNotProgram DEF WellFormed, TokenInv, ProgramApart
  <2> QED
    BY <1>8, <2>1
<1>11. FiresAtMostOnce'
  <2>1. \A c \in 1 .. Len(fired) : fired'[c] <= 1
    <3>1. \A c \in 1 .. Len(fired) : fired[c] \in 0 .. 2 /\ fired[c] <= 1
      BY DEF TokenInv, FiresAtMostOnce, Registered, WellFormed
    <3>2. \A c \in CleanupsOf(o) : fired[c] = 0
      BY <1>5 DEF TokenInv, HeldUnfired
    <3> QED
      BY <1>8, <3>1, <3>2
  <2>2. DOMAIN fired' = 1 .. Len(fired)
    BY <1>8
  <2> QED
    BY <2>1, <2>2 DEF FiresAtMostOnce, Registered
<1>12. Held(k') \subseteq Held(k) /\ UNCHANGED <<captured, lists>> /\ program' \subseteq program
  BY <1>3, <1>5
<1> QED
  BY <1>5, <1>7, <1>9, <1>10, <1>11, <1>12, HeldShrinks

\* The new handler holds a new object.
LEMMA InstallHeld ==
  ASSUME WellFormed, Once(k), NEW h \in Handlers, Install(h), NEW n, n = Len(frames) + 1
  PROVE  Once(k') /\ Held(k') = {n} \cup Held(k)
<1> DEFINE F == Frame(n, Len(captured))
<1>1. /\ k' = <<Code, Handle(n)>> \o k
      /\ n \in 1 .. MaxFrames /\ Len(frames) \in Nat /\ Len(captured) \in Nat
      /\ k \in Seq(Frame(Len(frames), Len(captured)))
  BY BoundsAssumption DEF Install, WellFormed, ContinuationOK
<1>2. Held(k) \subseteq 1 .. Len(frames) /\ n \notin 1 .. Len(frames)
  BY <1>1, HeldBound DEF WellFormed
<1>3. Code \in F /\ Handle(n) \in F /\ k \in Seq(F)
  <2>1. n \in Nat /\ n <= MaxFrames /\ Len(frames) <= n /\ n \in 1 .. n
    BY <1>1
  <2>2. k \in Seq(F)
    BY <1>1, <2>1, FrameGrows
  <2> QED
    BY <1>1, <2>1, <2>2, FrameTypes
<1> DEFINE a == <<Code>>
           b == <<Handle(n)>>
<1>4. a \in Seq(F) /\ b \in Seq(F) /\ k' = a \o (b \o k)
  BY <1>1, <1>3
<1>5. Once(a) /\ Held(a) = {} /\ Once(b) /\ Held(b) = {n}
  BY HeldSingle DEF Code, Handle
<1> HIDE DEF a, b, F
<1>6. b \o k \in Seq(F) /\ Once(b \o k) /\ Held(b \o k) = {n} \cup Held(k)
  <2>1. Once(k) /\ Held(b) \cap Held(k) = {}
    BY <1>2, <1>5
  <2> QED
    BY <1>3, <1>4, <1>5, <2>1, HeldJoined, Joined
<1>7. Once(a \o (b \o k)) /\ Held(a \o (b \o k)) = {n} \cup Held(k)
  <2> DEFINE d == b \o k
  <2>1. d \in Seq(F) /\ Once(d) /\ Held(d) = {n} \cup Held(k)
    BY <1>6
  <2> HIDE DEF d
  <2>2. /\ Held(a \o d) = Held(a) \cup Held(d)
        /\ Once(a \o d) <=> Once(a) /\ Once(d) /\ Held(a) \cap Held(d) = {}
    BY <1>4, <2>1, HeldJoined
  <2>3. Once(a \o d) /\ Held(a \o d) = {n} \cup Held(k)
    BY <1>5, <2>1, <2>2
  <2> QED
    BY <2>3 DEF d
<1> QED
  BY <1>4, <1>7

LEMMA InstallTokens == ASSUME WellFormed, TokenInv, NEW h \in Handlers, Install(h) PROVE TokenInv'
<1>0. PICK n : n = Len(frames) + 1
  OBVIOUS
<1>1. /\ frames' = Append(frames, Object(h, 0, {})) /\ k' = <<Code, Handle(n)>> \o k
      /\ UNCHANGED <<lists, captured, fired, program>>
      /\ n \in 1 .. MaxFrames /\ Len(frames) \in Nat /\ Len(captured) \in Nat
      /\ k \in Seq(Frame(Len(frames), Len(captured)))
  BY <1>0, BoundsAssumption DEF Install, WellFormed, ContinuationOK
<1>2. /\ \A p \in 1 .. Len(frames) : frames'[p] = frames[p]
      /\ frames'[n].list = 0
  <2> DEFINE new == Object(h, 0, {})
  <2>1. new.list = 0 /\ frames' = Append(frames, new) /\ frames \in Seq(FrameObject)
    BY <1>1 DEF Object, WellFormed
  <2> HIDE DEF new
  <2> QED
    BY <1>0, <2>1
<1>3. Held(k) \subseteq 1 .. Len(frames) /\ InResumes \subseteq 1 .. Len(frames)
  BY HeldBound, ResumesBound DEF WellFormed
<1>4. n \notin 1 .. Len(frames)
  BY <1>0, <1>1
<1>5. Once(k') /\ Held(k') = {n} \cup Held(k)
  BY <1>0, InstallHeld DEF TokenInv, HeldOnce
<1>6. Live' = Live /\ \A r : Inner(r)' = Inner(r)
  BY <1>1 DEF Live, Inner
<1>7. InResumes' = InResumes /\ \A r \in Live : Held(Inner(r)) \subseteq InResumes
  BY <1>1, <1>6 DEF InResumes, Live
<1>8. HeldOnce'
  <2>1. \A r \in Live : Once(Inner(r)) /\ Held(k') \cap Held(Inner(r)) = {}
    BY <1>3, <1>4, <1>5, <1>7 DEF TokenInv, HeldOnce
  <2> QED
    BY <1>5, <1>6, <2>1 DEF TokenInv, HeldOnce
<1>9. ArraysApart'
  <2> SUFFICES ASSUME NEW o \in Held(k') \cup InResumes, NEW p \in Held(k') \cup InResumes,
                      o # p, frames'[o].list # 0
               PROVE  frames'[o].list # frames'[p].list
    BY <1>7 DEF ArraysApart
  <2>1. o \in Held(k) \cup InResumes /\ o \in 1 .. Len(frames) /\ frames'[o].list = frames[o].list
    BY <1>2, <1>3, <1>5
  <2>2. CASE p = n
    BY <1>2, <2>2
  <2>3. CASE p # n
    <3>1. p \in Held(k) \cup InResumes /\ frames'[p].list = frames[p].list
      BY <1>2, <1>3, <1>5, <2>3
    <3> QED
      BY <2>1, <3>1 DEF ArraysApart, TokenInv
  <2> QED
    BY <2>2, <2>3
<1>10. HeldUnfired'
  <2>1. ASSUME NEW o \in 1 .. Len(frames) PROVE CleanupsOf(o)' = CleanupsOf(o)
    <3>1. frames'[o].list = frames[o].list /\ lists' = lists
      BY <1>1, <1>2
    <3> QED
      BY <3>1, SameCleanupsOf
  <2>2. CleanupsOf(n)' = {}
    BY <1>2 DEF CleanupsOf
  <2> QED
    BY <1>1, <1>3, <1>5, <1>7, <2>1, <2>2 DEF HeldUnfired, TokenInv
<1>11. ListsDisjoint' /\ ProgramApart' /\ FiresAtMostOnce'
  BY <1>1 DEF ListsDisjoint, ProgramApart, FiresAtMostOnce, Registered, TokenInv
<1> QED
  BY <1>8, <1>9, <1>10, <1>11 DEF TokenInv

\* One more element in a sequence.
LEMMA ElementsAppended ==
  ASSUME NEW T, NEW s \in Seq(T), NEW e \in T
  PROVE  Elements(Append(s, e)) = Elements(s) \cup {e}
<1> DEFINE t == Append(s, e)
<1>1. /\ t \in Seq(T) /\ Len(t) = Len(s) + 1 /\ \A i \in 1 .. Len(s) : t[i] = s[i]
      /\ t[Len(s) + 1] = e /\ Len(s) \in Nat
  BY Appended
<1> HIDE DEF t
<1>2. \A x : x \in Elements(t) <=> \E i \in 1 .. Len(t) : x = t[i]
  BY <1>1, ElementsFacts
<1>3. \A x : x \in Elements(s) <=> \E i \in 1 .. Len(s) : x = s[i]
  BY ElementsFacts
<1>4. ASSUME NEW x \in Elements(t) PROVE x \in Elements(s) \cup {e}
  <2>1. PICK i \in 1 .. Len(t) : x = t[i]
    BY <1>2, <1>4
  <2>2. i \in 1 .. Len(s) \/ i = Len(s) + 1
    BY <1>1
  <2> QED
    BY <1>1, <1>3, <2>1, <2>2
<1>5. ASSUME NEW x \in Elements(s) \cup {e} PROVE x \in Elements(t)
  <2>1. CASE x \in Elements(s)
    <3>1. PICK i \in 1 .. Len(s) : x = s[i]
      BY <1>3, <2>1
    <3>2. i \in 1 .. Len(t) /\ x = t[i]
      BY <1>1, <3>1
    <3> QED
      BY <1>2, <3>2
  <2>2. CASE x = e
    <3>1. Len(s) + 1 \in 1 .. Len(t)
      BY <1>1
    <3> QED
      BY <1>1, <1>2, <2>2, <3>1
  <2> QED
    BY <1>5, <2>1, <2>2
<1>6. Elements(t) = Elements(s) \cup {e}
  BY <1>4, <1>5
<1> QED
  BY <1>6 DEF t

\* Where a registered cleanup goes: to the program, or to the array l of the object o
\* that the first handle frame holds, a new one if it has none.
RegisteredAt(o, l, c) ==
  /\ program' = program
  /\ o \in Held(k) /\ o \in 1 .. Len(frames)
  /\ l \in 1 .. Len(lists') /\ frames'[o].list = l
  /\ IF frames[o].list = 0 THEN l = Len(lists) + 1 /\ Len(lists') = Len(lists) + 1
                           ELSE l = frames[o].list /\ Len(lists') = Len(lists)
  /\ \A p \in 1 .. Len(frames) : p # o => frames'[p].list = frames[p].list
  /\ \A p \in 1 .. Len(frames) : /\ frames'[p].needs = frames[p].needs
                                 /\ frames'[p].fired = frames[p].fired
  /\ \A m \in 1 .. Len(lists) : m # l => lists'[m] = lists[m]
  /\ Elements(lists'[l]) = CleanupsOf(o) \cup {c}

LEMMA RegisterCases ==
  ASSUME WellFormed, RegisterCleanup
  PROVE  \/ /\ HandlesIn(k) = {}
            /\ program' = program \cup {Len(fired) + 1} /\ UNCHANGED <<frames, lists>>
         \/ HandlesIn(k) # {} /\ \E l : RegisteredAt(k[First(HandlesIn(k))].ref, l, Len(fired) + 1)
<1>0. PICK c, o : c = Len(fired) + 1 /\ o = k[First(HandlesIn(k))].ref
  OBVIOUS
<1>1. CASE HandlesIn(k) = {}
  BY <1>1 DEF RegisterCleanup
<1>2. CASE HandlesIn(k) # {}
  <2>1. /\ o \in 1 .. Len(frames) /\ o \in Held(k)
    <3>1. First(HandlesIn(k)) \in HandlesIn(k) /\ First(HandlesIn(k)) \in 1 .. Len(k)
      BY <1>2, SkippedFacts DEF WellFormed
    <3>2. k[First(HandlesIn(k))].kind = "handle"
      BY <3>1 DEF HandlesIn
    <3> QED
      BY <1>0, <3>1, <3>2, FrameOn DEF WellFormed, Held, Tokens
  <2>2. /\ \/ /\ frames[o].list = 0
              /\ lists' = Append(lists, <<c>>)
              /\ frames' = ListedAt(frames, o, Len(lists) + 1)
           \/ /\ frames[o].list # 0
              /\ lists' = [lists EXCEPT ![frames[o].list] = Append(@, c)]
              /\ UNCHANGED frames
        /\ UNCHANGED program
    BY <1>0, <1>2 DEF RegisterCleanup, ListedAt
  <2>3. /\ lists \in Seq(Seq(1 .. Len(fired))) /\ Len(lists) <= Len(fired)
        /\ \A m \in 1 .. Len(lists) : lists[m] # <<>>
        /\ Len(fired) \in Nat /\ Len(lists) \in Nat /\ Len(fired) + 1 <= MaxCleanups
        /\ frames \in Seq(ObjectRecord(BOOLEAN))
    <3>1. frames \in Seq(ObjectRecord(BOOLEAN))
      BY DEF WellFormed, FrameObject, ObjectRecord
    <3>2. Len(fired) < MaxCleanups
      BY DEF RegisterCleanup
    <3>3. Len(fired) \in Nat /\ Len(lists) \in Nat
      BY DEF WellFormed
    <3> QED
      BY <3>1, <3>2, <3>3, BoundsAssumption DEF WellFormed
  <2>4. CASE frames[o].list = 0
    <3>0. PICK l : l = Len(lists) + 1
      OBVIOUS
    <3>1. lists' = Append(lists, <<c>>) /\ frames' = ListedAt(frames, o, l) /\ program' = program
      BY <2>2, <2>4, <3>0
    <3>2. /\ Len(lists') = l /\ lists'[l] = <<c>> /\ l \in 1 .. Len(lists')
          /\ \A m \in 1 .. Len(lists) : lists'[m] = lists[m]
      <4> DEFINE x == <<c>>
      <4>1. lists' = Append(lists, x)
        BY <3>1
      <4> HIDE DEF x
      <4>2. /\ Len(lists') = l /\ lists'[l] = x /\ l \in 1 .. Len(lists')
            /\ \A m \in 1 .. Len(lists) : lists'[m] = lists[m]
        BY <2>3, <3>0, <4>1
      <4> QED
        BY <4>2 DEF x
    <3>3. /\ frames'[o].list = l
          /\ \A p \in 1 .. Len(frames) : /\ p # o => frames'[p] = frames[p]
                                         /\ frames'[p].needs = frames[p].needs
                                         /\ frames'[p].fired = frames[p].fired
      <4>1. l \in 0 .. MaxCleanups
        BY <2>3, <3>0, BoundsAssumption
      <4>2. PICK fr2 : fr2 = ListedAt(frames, o, l)
        OBVIOUS
      <4>3. /\ fr2[o].list = l
            /\ \A p \in 1 .. Len(frames) : /\ p # o => fr2[p] = frames[p]
                                           /\ fr2[p].needs = frames[p].needs
                                           /\ fr2[p].fired = frames[p].fired
        BY <2>1, <2>3, <4>1, <4>2, ListedAtFacts
      <4> QED
        BY <3>1, <4>2, <4>3
    <3>4. Elements(lists'[l]) = {c}
      BY <3>2 DEF Elements
    <3>5. CleanupsOf(o) = {}
      BY <2>4 DEF CleanupsOf
    <3>6. \A p \in 1 .. Len(frames) : p # o => frames'[p].list = frames[p].list
      BY <3>3
    <3>7. l \in 1 .. Len(lists') /\ Len(lists') = Len(lists) + 1
      BY <3>0, <3>2
    <3>8. Elements(lists'[l]) = CleanupsOf(o) \cup {c}
      BY <3>4, <3>5
    <3>9. \A m \in 1 .. Len(lists) : m # l => lists'[m] = lists[m]
      BY <3>2
    <3>10. /\ program' = program
           /\ \A p \in 1 .. Len(frames) : /\ frames'[p].needs = frames[p].needs
                                          /\ frames'[p].fired = frames[p].fired
      BY <3>1, <3>3
    <3>11. RegisteredAt(o, l, c)
      BY <2>1, <2>4, <3>0, <3>3, <3>6, <3>7, <3>8, <3>9, <3>10, SMTT(20) DEF RegisteredAt
    <3> QED
      BY <1>0, <1>2, <2>1, <3>11
  <2>5. CASE frames[o].list # 0
    <3>0. PICK l : l = frames[o].list
      OBVIOUS
    <3>1. /\ lists' = [lists EXCEPT ![l] = Append(@, c)] /\ frames' = frames /\ program' = program
          /\ l \in 1 .. Len(lists) /\ CleanupsOf(o) = Elements(lists[l])
      BY <2>1, <2>2, <2>5, <3>0, ArrayFacts
    <3>2. /\ Len(lists') = Len(lists) /\ lists'[l] = Append(lists[l], c)
          /\ \A m \in 1 .. Len(lists) : m # l => lists'[m] = lists[m]
      <4> DEFINE y == Append(lists[l], c)
      <4>1. lists' = [lists EXCEPT ![l] = y]
        BY <3>1
      <4> HIDE DEF y
      <4>2. Len(lists') = Len(lists) /\ lists'[l] = y
            /\ \A m \in 1 .. Len(lists) : m # l => lists'[m] = lists[m]
        BY <2>3, <3>1, <4>1, SMTT(20)
      <4> QED
        BY <4>2 DEF y
    <3>3. Elements(lists'[l]) = CleanupsOf(o) \cup {c}
      <4> DEFINE s == lists[l]
      <4>1. s \in Seq(1 .. Len(fired))
        BY <2>3, <3>1
      <4> HIDE DEF s
      <4>2. s \in Seq(1 .. c) /\ c \in 1 .. c
        <5>1. 1 .. Len(fired) \subseteq 1 .. c /\ c \in 1 .. c
          BY <1>0, <2>3
        <5> QED
          BY <4>1, <5>1, SeqGrows
      <4>3. Elements(Append(s, c)) = Elements(s) \cup {c}
        BY <4>2, ElementsAppended
      <4> QED
        BY <3>1, <3>2, <4>3 DEF s
    <3> QED
      BY <1>0, <1>2, <2>1, <2>5, <3>0, <3>1, <3>2, <3>3 DEF RegisteredAt
  <2> QED
    BY <2>4, <2>5
<1> QED
  BY <1>1, <1>2

\* The next cleanup is new: nothing lists it.
LEMMA RegisterNew ==
  ASSUME WellFormed, RegisterCleanup, NEW c, c = Len(fired) + 1
  PROVE  /\ c \notin 1 .. Len(fired)
         /\ \A o \in 1 .. Len(frames) : CleanupsOf(o) \subseteq 1 .. Len(fired)
         /\ \A m \in 1 .. Len(lists) : Elements(lists[m]) \subseteq 1 .. Len(fired)
         /\ program \subseteq 1 .. Len(fired)
<1>1. Len(fired) \in Nat /\ program \subseteq 1 .. Len(fired)
      /\ \A m \in 1 .. Len(lists) : lists[m] \in Seq(1 .. Len(fired))
  BY DEF WellFormed
<1>2. \A m \in 1 .. Len(lists) : Elements(lists[m]) \subseteq 1 .. Len(fired)
  BY <1>1, ElementsFacts
<1>3. \A o \in 1 .. Len(frames) : CleanupsOf(o) \subseteq 1 .. Len(fired)
  BY ArrayFacts
<1> QED
  BY <1>1, <1>2, <1>3

\* The arrays and the program's cleanups stay apart.
LEMMA RegisterLists ==
  ASSUME WellFormed, ListsDisjoint, ProgramApart, RegisterCleanup
  PROVE  ListsDisjoint' /\ ProgramApart'
<1>0. PICK c : c = Len(fired) + 1
  OBVIOUS
<1>1. /\ Len(fired) \in Nat /\ Len(lists) \in Nat /\ Len(fired') = c /\ fired'[c] = 0
      /\ \A d \in 1 .. Len(fired) : fired'[d] = fired[d]
      /\ Len(lists) <= Len(lists')
  BY <1>0, RegisterFacts, Sizes
<1>2. /\ c \notin 1 .. Len(fired)
      /\ \A o \in 1 .. Len(frames) : CleanupsOf(o) \subseteq 1 .. Len(fired)
      /\ \A m \in 1 .. Len(lists) : Elements(lists[m]) \subseteq 1 .. Len(fired)
      /\ program \subseteq 1 .. Len(fired)
  BY <1>0, RegisterNew
<1>3. CASE HandlesIn(k) = {}
  <2>1. program' = program \cup {c} /\ UNCHANGED <<frames, lists>>
    BY <1>0, <1>3, RegisterCases
  <2>2. ListsDisjoint'
    BY <2>1 DEF ListsDisjoint
  <2>3. \A d \in program : fired[d] = 0 /\ \A m \in 1 .. Len(lists) : d \notin Elements(lists[m])
    BY DEF ProgramApart
  <2>4. \A m \in 1 .. Len(lists) : c \notin Elements(lists[m])
    BY <1>2
  <2>5. \A d \in program' : fired'[d] = 0
    BY <1>1, <1>2, <2>1, <2>3
  <2>6. \A m \in 1 .. Len(lists') : Elements(lists'[m]) \cap program' = {}
    BY <2>1, <2>3, <2>4
  <2> QED
    BY <2>2, <2>5, <2>6 DEF ProgramApart
<1>4. CASE HandlesIn(k) # {}
  <2>1. PICK o, l : RegisteredAt(o, l, c)
    BY <1>0, <1>4, RegisterCases
  <2>2. /\ program' = program /\ o \in 1 .. Len(frames) /\ l \in 1 .. Len(lists')
        /\ \A m \in 1 .. Len(lists) : m # l => lists'[m] = lists[m]
        /\ Elements(lists'[l]) = CleanupsOf(o) \cup {c}
    BY <2>1 DEF RegisteredAt
  <2>3. \/ frames[o].list = 0 /\ l = Len(lists) + 1 /\ Len(lists') = Len(lists) + 1
        \/ frames[o].list # 0 /\ l = frames[o].list /\ Len(lists') = Len(lists)
    BY <2>1 DEF RegisteredAt
  <2>4. \A m \in 1 .. Len(lists') : m # l => m \in 1 .. Len(lists) /\ lists'[m] = lists[m]
    BY <1>1, <2>2, <2>3
  <2>5. \A m \in 1 .. Len(lists) : m # l => Elements(lists[m]) \cap (CleanupsOf(o) \cup {c}) = {}
    <3> SUFFICES ASSUME NEW m \in 1 .. Len(lists), m # l
                 PROVE  Elements(lists[m]) \cap (CleanupsOf(o) \cup {c}) = {}
      OBVIOUS
    <3>1. c \notin Elements(lists[m])
      BY <1>2
    <3>2. CASE frames[o].list = 0
      BY <3>1, <3>2 DEF CleanupsOf
    <3>3. CASE frames[o].list # 0
      <4>1. CleanupsOf(o) = Elements(lists[l]) /\ l \in 1 .. Len(lists)
        BY <2>2, <2>3, <3>3, ArrayFacts
      <4>2. Elements(lists[m]) \cap Elements(lists[l]) = {}
        BY <4>1 DEF ListsDisjoint
      <4> QED
        BY <3>1, <4>1, <4>2
    <3> QED
      BY <3>2, <3>3
  <2>6. ListsDisjoint'
    <3> SUFFICES ASSUME NEW m \in 1 .. Len(lists'), NEW n \in 1 .. Len(lists'), m # n
                 PROVE  Elements(lists'[m]) \cap Elements(lists'[n]) = {}
      BY DEF ListsDisjoint
    <3>1. CASE m = l
      BY <2>2, <2>4, <2>5, <3>1
    <3>2. CASE n = l
      BY <2>2, <2>4, <2>5, <3>2
    <3>3. CASE m # l /\ n # l
      <4>1. /\ m \in 1 .. Len(lists) /\ lists'[m] = lists[m]
            /\ n \in 1 .. Len(lists) /\ lists'[n] = lists[n]
        BY <2>4, <3>3
      <4> QED
        BY <4>1 DEF ListsDisjoint
    <3> QED
      BY <3>1, <3>2, <3>3
  <2>7. \A d \in program : fired'[d] = 0
    BY <1>1, <1>2 DEF ProgramApart
  <2>8. (CleanupsOf(o) \cup {c}) \cap program = {}
    BY <1>2, <2>2, CleanupsNotProgram
  <2>9. ASSUME NEW m \in 1 .. Len(lists') PROVE Elements(lists'[m]) \cap program = {}
    <3>1. CASE m = l
      BY <2>2, <2>8, <3>1
    <3>2. CASE m # l
      <4>1. m \in 1 .. Len(lists) /\ lists'[m] = lists[m]
        BY <2>4, <3>2
      <4> QED
        BY <4>1 DEF ProgramApart
    <3> QED
      BY <3>1, <3>2
  <2> QED
    BY <2>2, <2>6, <2>7, <2>9 DEF ProgramApart
<1> QED
  BY <1>3, <1>4

LEMMA RegisterTokens == ASSUME WellFormed, TokenInv, RegisterCleanup PROVE TokenInv'
<1>0. PICK c : c = Len(fired) + 1
  OBVIOUS
<1>1. /\ UNCHANGED <<k, captured>> /\ Len(fired) \in Nat /\ Len(lists) \in Nat
      /\ fired' \in Seq(0 .. 2) /\ Len(fired') = c /\ fired'[c] = 0
      /\ \A d \in 1 .. Len(fired) : fired'[d] = fired[d]
      /\ Len(lists) <= Len(lists')
  BY <1>0, RegisterFacts DEF WellFormed
<1>2. Live' = Live /\ \A r : Inner(r)' = Inner(r)
  BY <1>1 DEF Live, Inner
<1>3. InResumes' = InResumes
  BY <1>2 DEF InResumes, Live
<1>4. HeldOnce'
  BY <1>1, <1>2 DEF HeldOnce, TokenInv, Live
<1>5. c \in 1 .. c
  BY <1>0, <1>1
<1>6. /\ \A o \in 1 .. Len(frames) : CleanupsOf(o) \subseteq 1 .. Len(fired)
      /\ \A m \in 1 .. Len(lists) : Elements(lists[m]) \subseteq 1 .. Len(fired)
      /\ program \subseteq 1 .. Len(fired)
  BY <1>0, RegisterNew
<1>7. FiresAtMostOnce'
  <2>1. \A d \in 1 .. c : d \in 1 .. Len(fired) \/ d = c
    BY <1>0, <1>1
  <2>2. \A d \in 1 .. Len(fired) : fired[d] <= 1
    BY DEF TokenInv, FiresAtMostOnce, Registered, WellFormed
  <2>3. \A d \in 1 .. c : fired'[d] <= 1
    BY <1>1, <2>1, <2>2
  <2>4. DOMAIN fired' = 1 .. c
    BY <1>1
  <2> QED
    BY <2>3, <2>4 DEF FiresAtMostOnce, Registered
<1>8. Held(k) \subseteq 1 .. Len(frames) /\ InResumes \subseteq 1 .. Len(frames)
  BY HeldBound, ResumesBound DEF WellFormed
<1>9. \A o \in Held(k) \cup InResumes : \A d \in CleanupsOf(o) : fired'[d] = 0
  BY <1>1, <1>6, <1>8 DEF TokenInv, HeldUnfired
<1>10. ListsDisjoint' /\ ProgramApart'
  BY RegisterLists DEF TokenInv
<1>11. CASE HandlesIn(k) = {}
  <2>1. program' = program \cup {c} /\ UNCHANGED <<frames, lists>>
    BY <1>0, <1>11, RegisterCases
  <2>2. ArraysApart'
    BY <1>1, <1>3, <2>1 DEF ArraysApart, TokenInv
  <2>3. HeldUnfired'
    <3>1. \A o : CleanupsOf(o)' = CleanupsOf(o)
      BY <2>1 DEF CleanupsOf
    <3> QED
      BY <1>1, <1>3, <1>9, <3>1 DEF HeldUnfired
  <2> QED
    BY <1>4, <1>7, <1>10, <2>2, <2>3 DEF TokenInv
<1>12. CASE HandlesIn(k) # {}
  <2>1. PICK o, l : RegisteredAt(o, l, c)
    BY <1>0, <1>12, RegisterCases
  <2>2. /\ program' = program
        /\ o \in Held(k) /\ o \in 1 .. Len(frames)
        /\ l \in 1 .. Len(lists') /\ frames'[o].list = l
        /\ \A p \in 1 .. Len(frames) : p # o => frames'[p].list = frames[p].list
        /\ \A m \in 1 .. Len(lists) : m # l => lists'[m] = lists[m]
        /\ Elements(lists'[l]) = CleanupsOf(o) \cup {c}
    BY <2>1 DEF RegisteredAt
  <2>3. \/ frames[o].list = 0 /\ l = Len(lists) + 1 /\ Len(lists') = Len(lists) + 1
        \/ frames[o].list # 0 /\ l = frames[o].list /\ Len(lists') = Len(lists)
    BY <2>1 DEF RegisteredAt
  <2>4. \A m \in 1 .. Len(lists') : m # l => m \in 1 .. Len(lists)
    BY <1>1, <2>3
  <2>5. \A p \in Held(k) \cup InResumes : p # o => frames[p].list # l
    <3> SUFFICES ASSUME NEW p \in Held(k) \cup InResumes, p # o PROVE frames[p].list # l
      OBVIOUS
    <3>1. frames[p].list \in 0 .. Len(lists)
      BY <1>8, ArrayFacts
    <3> QED
      BY <1>1, <2>2, <2>3, <3>1 DEF TokenInv, ArraysApart
  <2>6. ArraysApart'
    <3> SUFFICES ASSUME NEW p \in Held(k) \cup InResumes, NEW q \in Held(k) \cup InResumes,
                        p # q, frames'[p].list # 0
                 PROVE  frames'[p].list # frames'[q].list
      BY <1>1, <1>3 DEF ArraysApart
    <3>1. p \in 1 .. Len(frames) /\ q \in 1 .. Len(frames)
      BY <1>8
    <3>2. CASE p = o
      BY <2>2, <2>5, <3>1, <3>2
    <3>3. CASE q = o
      BY <2>2, <2>5, <3>1, <3>3
    <3>4. CASE p # o /\ q # o
      BY <2>2, <3>1, <3>4 DEF TokenInv, ArraysApart
    <3> QED
      BY <3>2, <3>3, <3>4
  <2>7. \A p \in Held(k) \cup InResumes : p # o => CleanupsOf(p)' = CleanupsOf(p)
    <3> SUFFICES ASSUME NEW p \in Held(k) \cup InResumes, p # o
                 PROVE  CleanupsOf(p)' = CleanupsOf(p)
      OBVIOUS
    <3>1. /\ p \in 1 .. Len(frames) /\ frames'[p].list = frames[p].list /\ frames[p].list # l
          /\ (frames[p].list # 0 => frames[p].list \in 1 .. Len(lists))
      BY <1>8, <2>2, <2>5, ArrayFacts
    <3> QED
      BY <2>2, <3>1 DEF CleanupsOf
  <2>8. CleanupsOf(o)' = CleanupsOf(o) \cup {c}
    <3>1. l # 0
      BY <2>2
    <3> QED
      BY <2>2, <3>1 DEF CleanupsOf
  <2>9. HeldUnfired'
    <3> SUFFICES ASSUME NEW p \in Held(k) \cup InResumes, NEW d \in CleanupsOf(p)'
                 PROVE  fired'[d] = 0
      BY <1>1, <1>3 DEF HeldUnfired
    <3>1. CASE p = o
      BY <1>1, <1>9, <2>8, <3>1
    <3>2. CASE p # o
      BY <1>9, <2>7, <3>2
    <3> QED
      BY <3>1, <3>2
  <2> QED
    BY <1>4, <1>7, <1>10, <2>6, <2>9 DEF TokenInv
<1> QED
  BY <1>11, <1>12

\* The beginning of a beginning.
LEMMA ShorterPrefix ==
  ASSUME NEW S, NEW s \in Seq(S), NEW i \in 1 .. Len(s)
  PROVE  SubSeq(SubSeq(s, 1, i), 1, i - 1) = SubSeq(s, 1, i - 1)
<1>0. PICK m : m = i - 1
  OBVIOUS
<1>1. m \in 0 .. Len(s) /\ m \in 0 .. i /\ i \in 0 .. Len(s)
  BY <1>0
<1> DEFINE a == SubSeq(s, 1, i)
           b == SubSeq(s, 1, m)
           c == SubSeq(a, 1, m)
<1>2. a \in Seq(S) /\ Len(a) = i /\ \A j \in 1 .. i : a[j] = s[j]
  BY <1>1, Parts
<1>3. b \in Seq(S) /\ Len(b) = m /\ \A j \in 1 .. m : b[j] = s[j]
  BY <1>1, Parts
<1>4. c \in Seq(S) /\ Len(c) = m /\ \A j \in 1 .. m : c[j] = a[j]
  <2> HIDE DEF a
  <2> QED
    BY <1>1, <1>2, Parts
<1> HIDE DEF a, b, c
<1>5. \A j \in 1 .. m : c[j] = b[j]
  BY <1>1, <1>2, <1>3, <1>4
<1>6. c = b
  BY <1>3, <1>4, <1>5
<1> QED
  BY <1>0, <1>6 DEF a, b, c

\* A caught effect: the new resume function holds what was above the handler; the
\* clause runs on what was below it.
LEMMA DispatchFacts ==
  ASSUME WellFormed, NEW i \in HandlesIn(k), Dispatch(k, i), NEW n, n = Len(captured) + 1
  PROVE  /\ n \notin 1 .. Len(captured)
         /\ Len(captured') = n
         /\ \A r \in 1 .. Len(captured) : captured'[r] = captured[r]
         /\ captured'[n].performK = SubSeq(k, 1, i)
         /\ ~captured'[n].used
         /\ Inner(n)' = SubSeq(k, 1, i - 1)
<1>1. i \in 1 .. Len(k) /\ k \in Seq(Frame(Len(frames), Len(captured))) /\ Len(captured) \in Nat
  BY DEF WellFormed, ContinuationOK, HandlesIn
<1> DEFINE perf == SubSeq(k, 1, i)
           new == [performK |-> perf, used |-> FALSE]
<1>2. captured' = Append(captured, new) /\ captured \in Seq([performK : Continuation, used : BOOLEAN])
  BY DEF Dispatch, WellFormed
<1>3. new.performK = perf /\ ~new.used
  <2> HIDE DEF perf
  <2> QED
    OBVIOUS
<1> HIDE DEF new
<1>4. /\ Len(captured') = n /\ captured'[n] = new
      /\ \A r \in 1 .. Len(captured) : captured'[r] = captured[r]
  BY <1>2
<1>5. captured'[n].performK = perf /\ ~captured'[n].used
  BY <1>3, <1>4
<1>6. Len(perf) = i
  BY <1>1, Parts
<1>7. Inner(n)' = SubSeq(perf, 1, i - 1)
  <2> HIDE DEF perf
  <2> QED
    BY <1>5, <1>6 DEF Inner
<1>8. Inner(n)' = SubSeq(k, 1, i - 1)
  BY <1>1, <1>7, ShorterPrefix
<1>9. n \notin 1 .. Len(captured)
  BY <1>1
<1> QED
  BY <1>4, <1>5, <1>8, <1>9

\* A dispatch leaves the tokens below the handler and at most its own.
LEMMA DispatchHeld ==
  ASSUME WellFormed, Once(k), NEW i \in HandlesIn(k), Dispatch(k, i),
         NEW o, o = k[i].ref, NEW below, below = Below(k, i)
  PROVE  Once(k') /\ Held(k') \subseteq {o} \cup Held(below)
<1>0. PICK n : n = Len(captured) + 1
  OBVIOUS
<1>1. /\ i \in 1 .. Len(k) /\ k \in Seq(Frame(Len(frames), Len(captured)))
      /\ k[i].kind = "handle" /\ o \in 1 .. Len(frames)
  BY FrameOn DEF WellFormed, ContinuationOK, HandlesIn
<1>2. Held(<<k[i]>>) = {o}
  BY <1>1, HeldSingle
<1>3. Once(below) /\ o \notin Held(below)
  BY <1>1, <1>2, HeldSplit
<1>4. ContinuationOK(below)
  BY <1>1, Parts DEF ContinuationOK
<1>5. PICK rest : rest = LeaveCleanup(o, below)
  OBVIOUS
<1>6. Once(rest) /\ Held(rest) \subseteq {o} \cup Held(below) /\ ContinuationOK(rest)
  BY <1>1, <1>3, <1>4, <1>5, HeldLeave
<1>7. k' = <<Code, Clause(n)>> \o rest
  BY <1>0, <1>5 DEF Dispatch, ClauseContinuation
<1>8. Code.kind \notin {"handle", "cleanup"} /\ Clause(n).kind \notin {"handle", "cleanup"}
  BY DEF Code, Clause
<1>9. PICK S : S = Frame(Len(frames), Len(captured)) \cup {Code, Clause(n)}
  OBVIOUS
<1>10. Code \in S /\ Clause(n) \in S /\ rest \in Seq(S)
  BY <1>6, <1>9, SeqGrows DEF ContinuationOK
<1>11. PICK f, g : f = Code /\ g = Clause(n)
  OBVIOUS
<1>12. Held(<<f, g>> \o rest) = Held(rest) /\ (Once(<<f, g>> \o rest) <=> Once(rest))
  BY <1>8, <1>10, <1>11, HeldInFront
<1> QED
  BY <1>6, <1>7, <1>11, <1>12

\* The tokens above the handler go to the new resume function, those below stay;
\* the handler's own goes to the cleanup frame, if there is one.
LEMMA DispatchTokens ==
  ASSUME WellFormed, TokenInv, NEW i \in HandlesIn(k), Dispatch(k, i)
  PROVE  TokenInv'
<1>0. PICK n : n = Len(captured) + 1
  OBVIOUS
<1>1. PICK above : above = SubSeq(k, 1, i - 1)
  OBVIOUS
<1>2. PICK below : below = Below(k, i)
  OBVIOUS
<1>3. PICK o : o = k[i].ref
  OBVIOUS
<1>4. /\ i \in 1 .. Len(k) /\ k \in Seq(Frame(Len(frames), Len(captured)))
      /\ k[i].kind = "handle" /\ o \in 1 .. Len(frames)
  BY <1>3, FrameOn DEF WellFormed, ContinuationOK, HandlesIn
<1>5. Held(<<k[i]>>) = {o}
  BY <1>3, <1>4, HeldSingle
<1>6. /\ Held(k) = Held(above) \cup {o} \cup Held(below)
      /\ Once(above) /\ Once(below)
      /\ Held(above) \cap Held(below) = {} /\ o \notin Held(above) /\ o \notin Held(below)
  <2>1. Once(k)
    BY DEF TokenInv, HeldOnce
  <2> QED
    BY <1>1, <1>2, <1>4, <1>5, <2>1, HeldSplit
<1>10. UNCHANGED Store
  BY DEF Dispatch
<1>11. Once(k') /\ Held(k') \subseteq {o} \cup Held(below)
  BY <1>2, <1>3, DispatchHeld DEF TokenInv, HeldOnce
<1>12. /\ n \notin 1 .. Len(captured) /\ Len(captured') = n /\ Len(captured) \in Nat
       /\ \A r \in 1 .. Len(captured) : captured'[r] = captured[r]
       /\ ~captured'[n].used /\ Inner(n)' = above
  BY <1>0, <1>1, DispatchFacts DEF WellFormed
<1>13. /\ \A r \in 1 .. n : r \in 1 .. Len(captured) \/ r = n
       /\ \A r \in 1 .. Len(captured) : r \in 1 .. n
       /\ n \in 1 .. n
  BY <1>0, <1>12
<1>14. Live' = Live \cup {n} /\ n \notin Live
  BY <1>12, <1>13 DEF Live
<1>15. \A r \in Live : Inner(r)' = Inner(r)
  BY <1>12 DEF Inner, Live
<1>16. InResumes' = InResumes \cup Held(above)
  <2>1. \A x : x \in InResumes' <=> \E r \in Live' : x \in Held(Inner(r)')
    BY DEF InResumes
  <2>2. \A x : x \in InResumes <=> \E r \in Live : x \in Held(Inner(r))
    BY DEF InResumes
  <2> QED
    BY <1>12, <1>14, <1>15, <2>1, <2>2
<1>17. Held(k') \cup InResumes' \subseteq Held(k) \cup InResumes
  BY <1>6, <1>11, <1>16
<1>18. \A r \in Live : /\ Once(Inner(r)) /\ Held(k) \cap Held(Inner(r)) = {}
                       /\ Held(k') \cap Held(Inner(r)) = {}
                       /\ Held(above) \cap Held(Inner(r)) = {}
  <2>1. \A r \in Live : Once(Inner(r)) /\ Held(k) \cap Held(Inner(r)) = {}
    BY DEF TokenInv, HeldOnce
  <2> QED
    BY <1>6, <1>11, <2>1
<1>19. HeldOnce'
  <2>1. ASSUME NEW r \in Live'
        PROVE  Once(Inner(r)') /\ Held(k') \cap Held(Inner(r)') = {}
    <3>1. CASE r = n
      BY <1>6, <1>11, <1>12, <3>1
    <3>2. CASE r \in Live
      BY <1>15, <1>18, <3>2
    <3> QED
      BY <1>14, <3>1, <3>2
  <2>2. ASSUME NEW r \in Live', NEW q \in Live', r # q
        PROVE  Held(Inner(r)') \cap Held(Inner(q)') = {}
    <3>1. CASE r = n
      <4>1. q \in Live /\ Inner(q)' = Inner(q) /\ Inner(r)' = above
        BY <1>12, <1>14, <1>15, <2>2, <3>1
      <4> QED
        BY <1>18, <4>1
    <3>2. CASE q = n
      <4>1. r \in Live /\ Inner(r)' = Inner(r) /\ Inner(q)' = above
        BY <1>12, <1>14, <1>15, <2>2, <3>2
      <4> QED
        BY <1>18, <4>1
    <3>3. CASE r # n /\ q # n
      <4>1. r \in Live /\ Inner(r)' = Inner(r) /\ q \in Live /\ Inner(q)' = Inner(q)
        BY <1>14, <1>15, <3>3
      <4> QED
        BY <2>2, <4>1 DEF TokenInv, HeldOnce
    <3> QED
      BY <3>1, <3>2, <3>3
  <2> QED
    BY <1>11, <2>1, <2>2 DEF HeldOnce
<1>20. frames' = frames /\ lists' = lists /\ fired' = fired /\ program' = program
  BY <1>10 DEF Store
<1>21. \A p : CleanupsOf(p)' = CleanupsOf(p)
  BY <1>20 DEF CleanupsOf, Elements
<1>22. ArraysApart' /\ HeldUnfired'
  <2>1. ArraysApart'
    BY <1>17, <1>20 DEF TokenInv, ArraysApart
  <2>2. HeldUnfired'
    BY <1>17, <1>20, <1>21 DEF TokenInv, HeldUnfired
  <2> QED
    BY <2>1, <2>2
<1>23. ListsDisjoint' /\ ProgramApart' /\ FiresAtMostOnce'
  BY <1>20 DEF ListsDisjoint, ProgramApart, FiresAtMostOnce, Registered, TokenInv
<1> QED
  BY <1>19, <1>22, <1>23 DEF TokenInv

LEMMA RaiseTokens == ASSUME WellFormed, TokenInv, Running, Raise(k) PROVE TokenInv'
<1>1. CASE Catchers(k, "error") # {} /\ Dispatch(k, First(Catchers(k, "error")))
  BY <1>1, CatcherFacts, DispatchTokens
<1>2. CASE End("error")
  BY <1>2, EndTokens
<1> QED
  BY <1>1, <1>2 DEF Raise

LEMMA PerformTokens == ASSUME WellFormed, TokenInv, Perform PROVE TokenInv'
BY CatcherFacts, DispatchTokens DEF Perform

LEMMA SuspendTokens == ASSUME WellFormed, TokenInv, Suspend PROVE TokenInv'
<1>1. CASE UNCHANGED <<k, control, Heap>>
  BY <1>1, OnlyShrinks DEF TokenInv, HeldOnce
<1>2. CASE Raise(k)
  BY <1>2, RaiseTokens DEF Suspend, InCode
<1> QED
  BY <1>1, <1>2 DEF Suspend

LEMMA InitTokens == Init => TokenInv
<1> SUFFICES ASSUME Init PROVE TokenInv
  OBVIOUS
<1>1. /\ Len(lists) = 0 /\ Len(captured) = 0 /\ DOMAIN fired = {} /\ program = {}
      /\ k = <<Code>>
  BY DEF Init
<1>2. Once(k) /\ Held(k) = {}
  BY <1>1, HeldSingle DEF Code
<1>3. Live = {} /\ InResumes = {}
  BY <1>1 DEF Live, InResumes
<1>4. HeldOnce /\ ArraysApart /\ HeldUnfired
  BY <1>2, <1>3 DEF HeldOnce, ArraysApart, HeldUnfired
<1>5. ListsDisjoint /\ ProgramApart
  BY <1>1 DEF ListsDisjoint, ProgramApart
<1>6. FiresAtMostOnce
  BY <1>1 DEF FiresAtMostOnce, Registered
<1> QED
  BY <1>4, <1>5, <1>6 DEF TokenInv

\* The tokens a call of r puts in front: the copies of the captured handlers, each
\* with the array of the handler it is a copy of, the captured cleanups themselves,
\* and the new handler, which has no array.
CopyRefs(r) == {Len(frames) + CopyOf(r, i) : i \in HandlesIn(Inner(r))}
CleanupRefs(r) == {Inner(r)[i].ref : i \in Tokens(Inner(r)) \ HandlesIn(Inner(r))}
NewRefs(r) == {x \in 1 .. Len(frames') : x > Len(frames) + Copies(r)}

LEMMA RenewedTokens ==
  ASSUME WellFormed, NEW r \in 1 .. Len(captured)
  PROVE  /\ Tokens(Renewed(r)) = Tokens(Inner(r))
         /\ HandlesIn(Inner(r)) \subseteq Tokens(Inner(r))
         /\ \A i \in HandlesIn(Inner(r)) : Renewed(r)[i].ref = Len(frames) + CopyOf(r, i)
         /\ \A i \in Tokens(Inner(r)) \ HandlesIn(Inner(r)) : Renewed(r)[i] = Inner(r)[i]
<1>1. HandlesIn(Inner(r)) \subseteq 1 .. Len(Inner(r))
  BY InnerFacts, HandlesFacts DEF ContinuationOK
<1>2. \A i \in HandlesIn(Inner(r)) : Inner(r)[i].kind = "handle"
  BY DEF HandlesIn
<1>3. HandlesIn(Inner(r)) \subseteq Tokens(Inner(r))
  BY <1>1, <1>2 DEF Tokens
<1>4. \A i \in HandlesIn(Inner(r)) : /\ Renewed(r)[i].ref = Len(frames) + CopyOf(r, i)
                                     /\ Renewed(r)[i].kind = "handle"
  <2>1. \A x : Handle(x).ref = x /\ Handle(x).kind = "handle"
    BY DEF Handle
  <2>2. \A i \in HandlesIn(Inner(r)) : Renewed(r)[i] = Handle(Len(frames) + CopyOf(r, i))
    BY <1>1, RenewedFacts
  <2> QED
    BY <2>1, <2>2
<1>5. \A i \in 1 .. Len(Inner(r)) : i \notin HandlesIn(Inner(r)) => Renewed(r)[i] = Inner(r)[i]
  BY RenewedFacts
<1>6. Len(Renewed(r)) = Len(Inner(r))
  BY RenewedFacts
<1>7. \A i \in 1 .. Len(Inner(r)) : i \in Tokens(Renewed(r)) <=> i \in Tokens(Inner(r))
  <2> SUFFICES ASSUME NEW i \in 1 .. Len(Inner(r))
               PROVE  i \in Tokens(Renewed(r)) <=> i \in Tokens(Inner(r))
    OBVIOUS
  <2>1. CASE i \in HandlesIn(Inner(r))
    BY <1>3, <1>4, <1>6, <2>1 DEF Tokens
  <2>2. CASE i \notin HandlesIn(Inner(r))
    BY <1>5, <1>6, <2>2 DEF Tokens
  <2> QED
    BY <2>1, <2>2
<1>8. Tokens(Renewed(r)) = Tokens(Inner(r))
  BY <1>6, <1>7 DEF Tokens
<1> QED
  BY <1>3, <1>4, <1>5, <1>8 DEF Tokens

LEMMA RenewedHeld ==
  ASSUME WellFormed, NEW r \in 1 .. Len(captured), Once(Inner(r))
  PROVE  /\ Held(Renewed(r)) \subseteq CopyRefs(r) \cup CleanupRefs(r)
         /\ Once(Renewed(r))
         /\ CleanupRefs(r) \subseteq Held(Inner(r))
         /\ \A i \in HandlesIn(Inner(r)) : /\ Inner(r)[i].ref \in Held(Inner(r))
                                           /\ Inner(r)[i].ref \notin CleanupRefs(r)
         /\ \A x \in CopyRefs(r) : x \in Nat /\ x > Len(frames) /\ x <= Len(frames) + Copies(r)
<1> DEFINE s == Inner(r)
           t == Renewed(r)
           H == HandlesIn(Inner(r))
           T == Tokens(Inner(r))
           N == Len(frames)
<1>1. /\ Tokens(t) = T /\ H \subseteq T
      /\ \A i \in H : t[i].ref = N + CopyOf(r, i)
      /\ \A i \in T \ H : t[i] = s[i]
  BY RenewedTokens
<1>2. /\ N \in Nat /\ Copies(r) \in Nat
      /\ \A i \in H : CopyOf(r, i) \in 1 .. Copies(r)
      /\ \A i, j \in H : CopyOf(r, i) = CopyOf(r, j) => i = j
  BY CopyFacts DEF Copies, WellFormed
<1>3. /\ Held(s) = {s[i].ref : i \in T}
      /\ \A i, j \in T : s[i].ref = s[j].ref => i = j
      /\ CleanupRefs(r) = {s[i].ref : i \in T \ H}
      /\ CopyRefs(r) = {N + CopyOf(r, i) : i \in H}
      /\ Held(s) \subseteq 1 .. N
  BY InnerFacts, HeldBound DEF Held, Once, CleanupRefs, CopyRefs
<1> HIDE DEF s, t, H, T, N
<1>4. CleanupRefs(r) \subseteq Held(s) /\ \A i \in H : s[i].ref \in Held(s)
  BY <1>1, <1>3
<1>5. \A i \in H : s[i].ref \notin CleanupRefs(r)
  BY <1>1, <1>3
<1>6. \A x \in CopyRefs(r) : x \in Nat /\ x > N /\ x <= N + Copies(r)
  BY <1>2, <1>3
<1>7. Held(t) \subseteq CopyRefs(r) \cup CleanupRefs(r)
  BY <1>1, <1>3 DEF Held
<1>8. /\ \A i \in H : t[i].ref \notin 1 .. N
      /\ \A i \in T : i \notin H => t[i].ref \in 1 .. N
  <2>1. \A i \in H : t[i].ref \notin 1 .. N
    BY <1>1, <1>2
  <2>2. \A i \in T : i \notin H => t[i].ref \in 1 .. N
    BY <1>1, <1>3
  <2> QED
    BY <2>1, <2>2
<1>9. ASSUME NEW i \in T, NEW j \in T, t[i].ref = t[j].ref
      PROVE  i = j
  <2>1. CASE i \in H /\ j \in H
    <3>1. CopyOf(r, i) \in Nat /\ CopyOf(r, j) \in Nat /\ N + CopyOf(r, i) = N + CopyOf(r, j)
      BY <1>1, <1>2, <1>9, <2>1
    <3> QED
      BY <1>2, <2>1, <3>1
  <2>2. CASE i \notin H /\ j \notin H
    BY <1>1, <1>3, <1>9, <2>2
  <2>3. CASE i \in H /\ j \notin H
    BY <1>8, <1>9, <2>3
  <2>4. CASE i \notin H /\ j \in H
    BY <1>8, <1>9, <2>4
  <2> QED
    BY <2>1, <2>2, <2>3, <2>4
<1>10. Once(t)
  BY <1>1, <1>9 DEF Once
<1> QED
  BY <1>4, <1>5, <1>6, <1>7, <1>10 DEF s, t, H, T, N

LEMMA AroundHeld ==
  ASSUME WellFormed, NEW r \in 1 .. Len(captured), CallResume(r)
  PROVE  Once(Around(r)) /\ Held(Around(r)) \subseteq NewRefs(r)
<1>1. CASE Around(r) = <<>>
  <2>1. Tokens(Around(r)) = {}
    BY <1>1 DEF Tokens
  <2> QED
    BY <2>1 DEF Once, Held
<1>2. CASE Around(r) # <<>>
  <2>1. PICK x : x = Len(frames) + Copies(r) + 1
    OBVIOUS
  <2>2. Around(r) = <<Handle(x)>>
    BY <1>2, <2>1 DEF Around, Copies
  <2>3. Once(Around(r)) /\ Held(Around(r)) = {x}
    BY <2>2, HeldSingle DEF Handle
  <2>4. x \in NewRefs(r)
    <3>1. /\ Len(frames') = x /\ Len(frames') <= MaxFrames
          /\ Len(frames) \in Nat /\ Copies(r) \in Nat
      BY <1>2, <2>1, ResumeFacts DEF WellFormed
    <3> QED
      BY <2>1, <3>1, BoundsAssumption DEF NewRefs
  <2> QED
    BY <2>3, <2>4
<1> QED
  BY <1>1, <1>2

\* One list of cleanups, or none.
LEMMA ListsGiveCleanups ==
  ASSUME lists' = lists, NEW x, NEW y, frames'[x].list = frames[y].list
  PROVE  CleanupsOf(x)' = CleanupsOf(y)
BY DEF CleanupsOf, Elements

\* The tokens that a used resume function held come back, once.
LEMMA ResumeTokens ==
  ASSUME OneShot, WellFormed, TokenInv, NEW r \in 1 .. Len(captured), CallResume(r)
  PROVE  TokenInv'
<1> DEFINE N == Len(frames)
           H == HandlesIn(Inner(r))
           Old == Held(k) \cup CleanupRefs(r) \cup InResumes'
<1>1. r \in Live
  BY DEF CallResume, Callable, Live
<1>2. /\ Len(captured') = Len(captured) /\ captured'[r].used
      /\ \A q \in 1 .. Len(captured) : /\ captured'[q].performK = captured[q].performK
                                       /\ q # r => captured'[q].used = captured[q].used
  BY ResumedCaptured
<1>3. Live' = Live \ {r} /\ \A q \in Live : Inner(q)' = Inner(q)
  BY <1>2 DEF Live, Inner
<1>4. /\ Once(k) /\ Once(Inner(r)) /\ Held(k) \cap Held(Inner(r)) = {}
      /\ \A q \in Live : q # r => Held(Inner(r)) \cap Held(Inner(q)) = {}
      /\ \A q \in Live : Once(Inner(q)) /\ Held(k) \cap Held(Inner(q)) = {}
      /\ \A q, p \in Live : q # p => Held(Inner(q)) \cap Held(Inner(p)) = {}
  BY <1>1 DEF TokenInv, HeldOnce
<1>5. /\ InResumes' \subseteq InResumes /\ Held(Inner(r)) \subseteq InResumes
      /\ \A q \in Live' : Held(Inner(q)) \subseteq InResumes'
      /\ Held(Inner(r)) \cap InResumes' = {}
  <2>1. \A x : x \in InResumes' <=> \E q \in Live' : x \in Held(Inner(q)')
    BY DEF InResumes
  <2>2. \A x : x \in InResumes <=> \E q \in Live : x \in Held(Inner(q))
    BY DEF InResumes
  <2> QED
    BY <1>1, <1>3, <1>4, <2>1, <2>2
<1>6. /\ Held(k) \subseteq 1 .. N /\ InResumes \subseteq 1 .. N /\ N \in Nat /\ Copies(r) \in Nat
  BY HeldBound, ResumesBound, CopyFacts DEF WellFormed, Copies
<1>7. /\ Held(Renewed(r)) \subseteq CopyRefs(r) \cup CleanupRefs(r)
      /\ Once(Renewed(r))
      /\ CleanupRefs(r) \subseteq Held(Inner(r))
      /\ \A i \in H : /\ Inner(r)[i].ref \in Held(Inner(r))
                      /\ Inner(r)[i].ref \notin CleanupRefs(r)
      /\ \A x \in CopyRefs(r) : x \in Nat /\ x > N /\ x <= N + Copies(r)
  BY <1>4, RenewedHeld
<1>8. Once(Around(r)) /\ Held(Around(r)) \subseteq NewRefs(r)
  BY AroundHeld
<1>9. /\ \A x \in Old : x \in 1 .. N
      /\ \A i \in H : Inner(r)[i].ref \notin Old
      /\ Old \subseteq Held(k) \cup InResumes
      /\ \A x \in NewRefs(r) : x \notin 1 .. N /\ x \notin CopyRefs(r) /\ x > N + Copies(r)
                               /\ x \in 1 .. Len(frames')
      /\ \A x \in CopyRefs(r) : x \notin 1 .. N
  <2>1. \A x \in NewRefs(r) : x \notin 1 .. N /\ x \notin CopyRefs(r) /\ x > N + Copies(r)
                              /\ x \in 1 .. Len(frames')
    BY <1>6, <1>7 DEF NewRefs
  <2>2. \A x \in CopyRefs(r) : x \notin 1 .. N
    BY <1>6, <1>7
  <2>3. Old \subseteq Held(k) \cup InResumes
    BY <1>5, <1>7
  <2>4. \A i \in H : Inner(r)[i].ref \notin Old
    BY <1>4, <1>5, <1>7
  <2> QED
    BY <1>6, <2>1, <2>2, <2>3, <2>4
<1>10. Once(k') /\ Held(k') \subseteq Held(k) \cup CleanupRefs(r) \cup CopyRefs(r) \cup NewRefs(r)
  <2>1. PICK S : Renewed(r) \in Seq(S) /\ Around(r) \in Seq(S) /\ k \in Seq(S)
    BY ResumedFrames
  <2>2. PICK a : a = Renewed(r) \o Around(r)
    OBVIOUS
  <2>3. a \in Seq(S)
    BY <2>1, <2>2
  <2>4. k' = a \o k
    BY <2>2 DEF CallResume
  <2>5. Held(Renewed(r)) \cap Held(Around(r)) = {}
    BY <1>7, <1>8, <1>9
  <2>6. Once(a) /\ Held(a) = Held(Renewed(r)) \cup Held(Around(r))
    BY <1>7, <1>8, <2>1, <2>2, <2>5, HeldJoined
  <2>7. Held(a) \cap Held(k) = {}
    BY <1>4, <1>6, <1>7, <1>8, <1>9, <2>6
  <2>8. Once(a \o k) /\ Held(a \o k) = Held(a) \cup Held(k)
    BY <1>4, <2>1, <2>3, <2>6, <2>7, HeldJoined
  <2> QED
    BY <1>7, <1>8, <2>4, <2>6, <2>8
<1>11. HeldOnce'
  <2>1. ASSUME NEW q \in Live'
        PROVE  Once(Inner(q)') /\ Held(k') \cap Held(Inner(q)') = {}
    <3>1. q \in Live /\ q # r /\ Inner(q)' = Inner(q)
      BY <1>3
    <3>2. Held(Inner(q)) \subseteq 1 .. N
      BY <1>5, <1>6
    <3>3. Held(k) \cap Held(Inner(q)) = {} /\ CleanupRefs(r) \cap Held(Inner(q)) = {}
      BY <1>4, <1>7, <3>1
    <3>4. CopyRefs(r) \cap Held(Inner(q)) = {} /\ NewRefs(r) \cap Held(Inner(q)) = {}
      BY <1>9, <3>2
    <3> QED
      BY <1>4, <1>10, <3>1, <3>3, <3>4
  <2>2. ASSUME NEW q \in Live', NEW p \in Live', q # p
        PROVE  Held(Inner(q)') \cap Held(Inner(p)') = {}
    BY <1>3, <1>4, <2>2
  <2> QED
    BY <1>10, <2>1, <2>2 DEF HeldOnce
<1>12. lists' = lists /\ fired' = fired /\ program' = program
  BY DEF CallResume
<1> DEFINE From(x, y) == \/ x \in Old /\ y = x
                         \/ \E i \in H : x = N + CopyOf(r, i) /\ y = Inner(r)[i].ref
<1>13. ASSUME NEW x \in Held(k') \cup InResumes'
       PROVE  \/ frames'[x].list = 0
              \/ \E y \in Held(k) \cup InResumes : From(x, y) /\ frames'[x].list = frames[y].list
  <2>1. CASE x \in Old
    <3>1. frames'[x] = frames[x]
      BY <1>9, <2>1, ResumeFacts
    <3> QED
      BY <1>9, <2>1, <3>1
  <2>2. CASE x \in CopyRefs(r)
    <3>1. PICK i \in H : x = N + CopyOf(r, i)
      BY <2>2 DEF CopyRefs
    <3>2. CopyOf(r, i) \in 1 .. Copies(r) /\ Copied(r)[CopyOf(r, i)] = frames[Inner(r)[i].ref]
      BY <3>1, CopyFacts DEF Copies
    <3>3. frames'[x] = frames[Inner(r)[i].ref]
      BY <3>1, <3>2, ResumeFacts
    <3>4. Inner(r)[i].ref \in Held(k) \cup InResumes
      BY <1>5, <1>7
    <3> QED
      BY <3>1, <3>3, <3>4
  <2>3. CASE x \in NewRefs(r)
    <3>1. frames'[x] = NewHandler(OwnHandler(r))
      BY <1>9, <2>3, ResumeFacts
    <3> QED
      BY <3>1, InnerFacts, NewHandlerOK
  <2> QED
    BY <1>10, <2>1, <2>2, <2>3
<1>14. ASSUME NEW x, NEW z, NEW y, From(x, y), From(z, y)
       PROVE  x = z
  <2>1. CASE \E i \in H : z = N + CopyOf(r, i) /\ y = Inner(r)[i].ref
    <3>1. PICK i \in H : z = N + CopyOf(r, i) /\ y = Inner(r)[i].ref
      BY <2>1
    <3>2. ~(x \in Old /\ y = x)
      BY <1>9, <3>1
    <3>3. PICK j \in H : x = N + CopyOf(r, j) /\ y = Inner(r)[j].ref
      BY <1>14, <3>2
    <3>4. i \in Tokens(Inner(r)) /\ j \in Tokens(Inner(r))
      BY RenewedTokens
    <3>5. i = j
      BY <1>4, <3>1, <3>3, <3>4 DEF Once
    <3> QED
      BY <3>1, <3>3, <3>5
  <2>2. CASE z \in Old /\ y = z
    <3>1. ~ \E i \in H : x = N + CopyOf(r, i) /\ y = Inner(r)[i].ref
      BY <1>9, <2>2
    <3> QED
      BY <1>14, <2>2, <3>1
  <2> QED
    BY <1>14, <2>1, <2>2
<1> HIDE DEF From, Old
<1>15. ArraysApart'
  <2> SUFFICES ASSUME NEW o \in Held(k') \cup InResumes', NEW p \in Held(k') \cup InResumes',
                      o # p, frames'[o].list # 0
               PROVE  frames'[o].list # frames'[p].list
    BY DEF ArraysApart
  <2>1. CASE frames'[p].list = 0
    BY <2>1
  <2>2. CASE frames'[p].list # 0
    <3>1. PICK y \in Held(k) \cup InResumes : From(o, y) /\ frames'[o].list = frames[y].list
      BY <1>13
    <3>2. PICK z \in Held(k) \cup InResumes : From(p, z) /\ frames'[p].list = frames[z].list
      BY <1>13, <2>2
    <3>3. y # z
      BY <1>14, <3>1, <3>2
    <3> QED
      BY <3>1, <3>2, <3>3 DEF TokenInv, ArraysApart
  <2> QED
    BY <2>1, <2>2
<1>16. HeldUnfired'
  <2> SUFFICES ASSUME NEW x \in Held(k') \cup InResumes', NEW c \in CleanupsOf(x)'
               PROVE  fired[c] = 0
    BY <1>12 DEF HeldUnfired
  <2>1. frames'[x].list # 0
    BY DEF CleanupsOf
  <2>2. PICK y \in Held(k) \cup InResumes : From(x, y) /\ frames'[x].list = frames[y].list
    BY <1>13, <2>1
  <2>3. c \in CleanupsOf(y)
    BY <1>12, <2>2, ListsGiveCleanups
  <2> QED
    BY <2>3 DEF TokenInv, HeldUnfired
<1>17. ListsDisjoint' /\ ProgramApart' /\ FiresAtMostOnce'
  BY <1>12 DEF ListsDisjoint, ProgramApart, FiresAtMostOnce, Registered, TokenInv
<1> QED
  BY <1>11, <1>15, <1>16, <1>17 DEF TokenInv

LEMMA NextTokens ==
  ASSUME OneShot, WellFormed, TokenInv, [Next]_vars
  PROVE  TokenInv'
<1>1. CASE Perform
  BY <1>1, PerformTokens
<1>2. CASE Throw
  BY <1>2, RaiseTokens DEF Throw, InCode
<1>3. CASE ErrorStep
  BY <1>3, RaiseTokens DEF ErrorStep
<1>4. CASE Return
  BY <1>4, ReturnTokens
<1>5. CASE RegisterCleanup
  BY <1>5, RegisterTokens
<1>6. CASE Suspend
  BY <1>6, SuspendTokens
<1>7. CASE Halt
  BY <1>7, EndTokens DEF Halt
<1>8. CASE \E h \in Handlers : Install(h)
  BY <1>8, InstallTokens
<1>9. ASSUME NEW r \in DOMAIN captured, CallResume(r) \/ RefuseResume(r)
      PROVE  TokenInv'
  <2>1. r \in 1 .. Len(captured)
    BY <1>9 DEF WellFormed
  <2>2. CASE CallResume(r)
    BY <2>1, <2>2, ResumeTokens
  <2>3. CASE RefuseResume(r)
    BY <2>3, RaiseTokens DEF RefuseResume, InCode
  <2> QED
    BY <1>9, <2>2, <2>3
<1>10. CASE CodeContinues
  BY <1>10, CodeContinuesTokens
<1>11. CASE HandleCompletes
  BY <1>11, HandleCompletesTokens
<1>12. CASE TransformCompletes
  BY <1>12, TransformCompletesTokens
<1>13. CASE ClauseCompletes
  BY <1>13, ClauseCompletesTokens
<1>14. CASE CleanupFires
  BY <1>14, CleanupFiresTokens
<1>15. CASE ProgramCompletes
  BY <1>15, EndTokens DEF ProgramCompletes
<1>16. CASE UNCHANGED vars
  BY <1>16, OnlyShrinks DEF vars, Heap, TokenInv, HeldOnce
<1> QED
  BY <1>1, <1>2, <1>3, <1>4, <1>5, <1>6, <1>7, <1>8, <1>9, <1>10, <1>11, <1>12, <1>13, <1>14,
     <1>15, <1>16 DEF Next, Terminated

\* In a program that calls each resume function at most once, every cleanup that a
\* host handler registered is called at most once: not again when its continuation
\* is resumed, copied, dropped or ended, whatever handlers are nested and wherever
\* the resume functions are called.
THEOREM OneShotFiresOnce ==
  ASSUME OneShot
  PROVE  Spec => []FiresAtMostOnce
<1>1. Init => WellFormed /\ TokenInv
  BY InitWellFormed, InitTokens
<1>2. WellFormed /\ TokenInv /\ [Next]_vars => (WellFormed /\ TokenInv)'
  BY NextWellFormed, NextTokens
<1>3. TokenInv => FiresAtMostOnce
  BY DEF TokenInv
<1> QED
  BY <1>1, <1>2, <1>3, PTL DEF Spec

-----------------------------------------------------------------------------
(* Which frames stand above which.                                         *)

Of(kinds) == {f \in [kind : Kinds, ref : Ref] : f.kind \in kinds}
FramesOf(s) == {s[i] : i \in 1 .. Len(s)}
NeverAbove(s, X, Y) == \A i, j \in 1 .. Len(s) : i < j /\ s[i] \in X => s[j] \notin Y

LEMMA FramesJoined ==
  ASSUME NEW S, NEW s \in Seq(S), NEW t \in Seq(S)
  PROVE  FramesOf(s \o t) = FramesOf(s) \cup FramesOf(t)
<1> DEFINE st == s \o t
<1>1. /\ Len(st) = Len(s) + Len(t) /\ Len(s) \in Nat /\ Len(t) \in Nat
      /\ \A j \in 1 .. Len(s) : st[j] = s[j]
      /\ \A j \in 1 .. Len(t) : st[Len(s) + j] = t[j]
  BY Joined
<1> HIDE DEF st
<1>2. ASSUME NEW x \in FramesOf(st) PROVE x \in FramesOf(s) \cup FramesOf(t)
  <2>1. PICK i \in 1 .. Len(st) : x = st[i]
    BY DEF FramesOf
  <2>2. CASE i <= Len(s)
    BY <1>1, <2>1, <2>2 DEF FramesOf
  <2>3. CASE ~(i <= Len(s))
    <3>1. PICK j : j = i - Len(s)
      OBVIOUS
    <3>2. j \in 1 .. Len(t) /\ i = Len(s) + j
      BY <1>1, <2>3, <3>1
    <3> QED
      BY <1>1, <2>1, <3>2 DEF FramesOf
  <2> QED
    BY <2>2, <2>3
<1>3. ASSUME NEW x \in FramesOf(s) PROVE x \in FramesOf(st)
  <2>1. PICK i \in 1 .. Len(s) : x = s[i]
    BY DEF FramesOf
  <2>2. i \in 1 .. Len(st) /\ st[i] = x
    BY <1>1, <2>1
  <2> QED
    BY <2>2 DEF FramesOf
<1>4. ASSUME NEW x \in FramesOf(t) PROVE x \in FramesOf(st)
  <2>1. PICK i \in 1 .. Len(t) : x = t[i]
    BY DEF FramesOf
  <2>2. Len(s) + i \in 1 .. Len(st) /\ st[Len(s) + i] = x
    BY <1>1, <2>1
  <2> QED
    BY <2>2 DEF FramesOf
<1> QED
  BY <1>2, <1>3, <1>4 DEF st

LEMMA NeverAboveJoined ==
  ASSUME NEW S, NEW s \in Seq(S), NEW t \in Seq(S), NEW X, NEW Y,
         NeverAbove(s, X, Y), NeverAbove(t, X, Y),
         FramesOf(s) \cap X = {} \/ FramesOf(t) \cap Y = {}
  PROVE  NeverAbove(s \o t, X, Y)
<1> DEFINE st == s \o t
<1>1. /\ Len(st) = Len(s) + Len(t) /\ Len(s) \in Nat /\ Len(t) \in Nat
      /\ \A j \in 1 .. Len(s) : st[j] = s[j]
      /\ \A j \in 1 .. Len(t) : st[Len(s) + j] = t[j]
  BY Joined
<1> HIDE DEF st
<1>2. \A i \in 1 .. Len(st) : i \notin 1 .. Len(s) => \E j \in 1 .. Len(t) : i = Len(s) + j
  <2> SUFFICES ASSUME NEW i \in 1 .. Len(st), i \notin 1 .. Len(s)
               PROVE  \E j \in 1 .. Len(t) : i = Len(s) + j
    OBVIOUS
  <2>1. i - Len(s) \in 1 .. Len(t) /\ i = Len(s) + (i - Len(s))
    BY <1>1
  <2> QED
    BY <2>1
<1>3. ASSUME NEW i \in 1 .. Len(st), NEW j \in 1 .. Len(st), i < j, st[i] \in X
      PROVE  st[j] \notin Y
  <2>1. CASE j \in 1 .. Len(s)
    <3>1. i \in 1 .. Len(s)
      BY <1>1, <1>3, <2>1
    <3> QED
      BY <1>1, <1>3, <2>1, <3>1 DEF NeverAbove
  <2>2. CASE j \notin 1 .. Len(s)
    <3>1. PICK b \in 1 .. Len(t) : j = Len(s) + b
      BY <1>2, <2>2
    <3>2. CASE i \in 1 .. Len(s)
      <4>1. s[i] \in FramesOf(s) \cap X /\ t[b] \in FramesOf(t) /\ st[j] = t[b]
        BY <1>1, <1>3, <3>1, <3>2 DEF FramesOf
      <4> QED
        BY <4>1
    <3>3. CASE i \notin 1 .. Len(s)
      <4>1. PICK a \in 1 .. Len(t) : i = Len(s) + a
        BY <1>2, <3>3
      <4>2. a < b /\ st[i] = t[a] /\ st[j] = t[b]
        <5>1. st[i] = t[a] /\ st[j] = t[b]
          BY <1>1, <3>1, <4>1
        <5>2. a \in Nat /\ b \in Nat /\ Len(s) + a < Len(s) + b
          BY <1>3, <3>1, <4>1
        <5> QED
          BY <1>1, <5>1, <5>2
      <4> QED
        BY <1>3, <4>2 DEF NeverAbove
    <3> QED
      BY <3>2, <3>3
  <2> QED
    BY <2>1, <2>2
<1> QED
  BY <1>3 DEF NeverAbove, st

LEMMA ShortFrames ==
  ASSUME NEW f, NEW g, NEW X, NEW Y
  PROVE  /\ FramesOf(<<>>) = {} /\ FramesOf(<<f>>) = {f} /\ FramesOf(<<f, g>>) = {f, g}
         /\ NeverAbove(<<>>, X, Y) /\ NeverAbove(<<f>>, X, Y)
         /\ f \notin X \/ g \notin Y => NeverAbove(<<f, g>>, X, Y)
BY DEF FramesOf, NeverAbove

\* A part of a continuation.
LEMMA FramesOfParts ==
  ASSUME NEW S, NEW s \in Seq(S), NEW X, NEW Y, NeverAbove(s, X, Y)
  PROVE  /\ s # <<>> => NeverAbove(Tail(s), X, Y)
         /\ \A i \in 1 .. Len(s) : NeverAbove(Below(s, i), X, Y)
<1>1. ASSUME s # <<>> PROVE NeverAbove(Tail(s), X, Y)
  <2>1. Len(s) \in Nat /\ Len(Tail(s)) = Len(s) - 1
        /\ \A j \in 1 .. Len(s) - 1 : Tail(s)[j] = s[j + 1]
    BY <1>1, Parts
  <2> SUFFICES ASSUME NEW i \in 1 .. Len(s) - 1, NEW j \in 1 .. Len(s) - 1, i < j,
                      Tail(s)[i] \in X
               PROVE  Tail(s)[j] \notin Y
    BY <2>1 DEF NeverAbove
  <2>2. i + 1 \in 1 .. Len(s) /\ j + 1 \in 1 .. Len(s) /\ i + 1 < j + 1
    BY <2>1
  <2> QED
    BY <2>1, <2>2 DEF NeverAbove
<1>2. ASSUME NEW m \in 1 .. Len(s) PROVE NeverAbove(Below(s, m), X, Y)
  <2> DEFINE b == Below(s, m)
  <2>1. Len(s) \in Nat /\ Len(b) = Len(s) - m
        /\ \A j \in 1 .. Len(s) - m : b[j] = s[m + j]
    BY Parts
  <2> HIDE DEF b
  <2> SUFFICES ASSUME NEW i \in 1 .. Len(s) - m, NEW j \in 1 .. Len(s) - m, i < j, b[i] \in X
               PROVE  b[j] \notin Y
    BY <2>1 DEF NeverAbove, b
  <2>2. m + i \in 1 .. Len(s) /\ m + j \in 1 .. Len(s) /\ m + i < m + j
    BY <2>1
  <2> QED
    BY <2>1, <2>2 DEF NeverAbove
<1> QED
  BY <1>1, <1>2

LEMMA FramesOfPart ==
  ASSUME NEW S, NEW s \in Seq(S)
  PROVE  /\ s # <<>> => FramesOf(Tail(s)) \subseteq FramesOf(s)
         /\ \A i \in 1 .. Len(s) : /\ FramesOf(Below(s, i)) \subseteq FramesOf(s)
                                   /\ FramesOf(SubSeq(s, 1, i - 1)) \subseteq FramesOf(s)
<1>1. ASSUME s # <<>> PROVE FramesOf(Tail(s)) \subseteq FramesOf(s)
  <2>1. Len(s) \in Nat /\ Len(Tail(s)) = Len(s) - 1
        /\ \A j \in 1 .. Len(s) - 1 : Tail(s)[j] = s[j + 1]
    BY <1>1, Parts
  <2>2. \A j \in 1 .. Len(s) - 1 : j + 1 \in 1 .. Len(s)
    BY <2>1
  <2> QED
    BY <2>1, <2>2 DEF FramesOf
<1>2. ASSUME NEW m \in 1 .. Len(s) PROVE FramesOf(Below(s, m)) \subseteq FramesOf(s)
  <2> DEFINE b == Below(s, m)
  <2>1. Len(s) \in Nat /\ Len(b) = Len(s) - m
        /\ \A j \in 1 .. Len(s) - m : b[j] = s[m + j]
    BY Parts
  <2> HIDE DEF b
  <2>2. \A j \in 1 .. Len(s) - m : m + j \in 1 .. Len(s)
    BY <2>1
  <2> QED
    BY <2>1, <2>2 DEF FramesOf, b
<1>3. ASSUME NEW m \in 1 .. Len(s) PROVE FramesOf(SubSeq(s, 1, m - 1)) \subseteq FramesOf(s)
  <2>0. PICK n : n = m - 1
    OBVIOUS
  <2> DEFINE b == SubSeq(s, 1, n)
  <2>1. Len(s) \in Nat /\ Len(b) = n /\ \A j \in 1 .. n : b[j] = s[j]
    BY <2>0, Parts
  <2> HIDE DEF b
  <2>2. \A j \in 1 .. n : j \in 1 .. Len(s)
    BY <2>0, <2>1
  <2> QED
    BY <2>0, <2>1, <2>2 DEF FramesOf, b
<1> QED
  BY <1>1, <1>2, <1>3

\* The frame in front of a continuation, and the rest of it.
LEMMA FramesMet ==
  ASSUME NEW S, NEW s \in Seq(S), s # <<>>, NEW X, NEW Y, NeverAbove(s, X, Y), s[1] \in X
  PROVE  FramesOf(Tail(s)) \cap Y = {}
<1>1. Len(s) \in Nat /\ Len(Tail(s)) = Len(s) - 1
      /\ \A j \in 1 .. Len(s) - 1 : Tail(s)[j] = s[j + 1]
  BY Parts
<1>2. \A j \in 1 .. Len(s) - 1 : j + 1 \in 1 .. Len(s) /\ 1 \in 1 .. Len(s) /\ 1 < j + 1
  BY <1>1
<1> QED
  BY <1>1, <1>2 DEF NeverAbove, FramesOf

\* What is above a frame of Y is not in X, and if Y is part of X nothing below it is in Y.
LEMMA AroundFrame ==
  ASSUME NEW S, NEW s \in Seq(S), NEW X, NEW Y, NeverAbove(s, X, Y),
         NEW i \in 1 .. Len(s), s[i] \in Y
  PROVE  /\ FramesOf(SubSeq(s, 1, i - 1)) \cap X = {}
         /\ s[i] \in X => FramesOf(Below(s, i)) \cap Y = {}
<1>0. PICK n : n = i - 1
  OBVIOUS
<1> DEFINE a == SubSeq(s, 1, n)
           b == Below(s, i)
<1>1. /\ Len(s) \in Nat /\ Len(a) = n /\ \A j \in 1 .. n : a[j] = s[j]
      /\ Len(b) = Len(s) - i /\ \A j \in 1 .. Len(s) - i : b[j] = s[i + j]
  BY <1>0, Parts
<1> HIDE DEF a, b
<1>2. /\ \A j \in 1 .. n : j \in 1 .. Len(s) /\ j < i
      /\ \A j \in 1 .. Len(s) - i : i + j \in 1 .. Len(s) /\ i < i + j
  BY <1>0, <1>1
<1>3. FramesOf(a) \cap X = {}
  BY <1>1, <1>2 DEF NeverAbove, FramesOf
<1>4. s[i] \in X => FramesOf(b) \cap Y = {}
  BY <1>1, <1>2 DEF NeverAbove, FramesOf
<1> QED
  BY <1>0, <1>3, <1>4 DEF a, b

-----------------------------------------------------------------------------
(* One handle block: its resume functions are called at most once each, or  *)
(* there is only one of them.                                               *)

OneBlock == MaxInstalls <= 1 /\ (OneShot \/ MaxResumes <= 1)

\* An effect can still be caught.
Quiet == captured = <<>> \/ OneShot
HandleFrames == Of({"handle"})
ClauseFrames == Of({"clause"})
Scoped == Of({"handle", "cleanup", "clause"})

\* Nothing but code is above a handler, and what was captured is nothing but code.
InstalledOnce == installs = 0 => frames = <<>>
PlainResumes == \A r \in 1 .. Len(captured) : FramesOf(Inner(r)) \cap Scoped = {}
OneScope == Quiet => NeverAbove(k, Scoped, HandleFrames)
ClausesOutside == NeverAbove(k, ClauseFrames, HandleFrames)
\* The block is on the continuation or in a resume function that was not called.
OneWay ==
  OneShot => \A r \in Live : /\ FramesOf(k) \cap HandleFrames = {}
                             /\ \A q \in Live : q = r
\* A cleanup that has not been called is in the array of a frame that will call it.
AllHeld ==
  status = "running" =>
    \A c \in 1 .. Len(fired) :
      fired[c] = 0 => c \in program \/ \E o \in Held(k) : c \in CleanupsOf(o)

BlockInv ==
  /\ InstalledOnce /\ PlainResumes /\ OneScope /\ ClausesOutside /\ OneWay
  /\ AllHeld /\ CompletedRunsCleanUp

LEMMA KindFacts ==
  ASSUME WellFormed, NEW kk, ContinuationOK(kk), NEW f \in FramesOf(kk), NEW kinds
  PROVE  f \in Of(kinds) <=> f.kind \in kinds
BY FrameOn DEF FramesOf, Of

LEMMA SubKinds ==
  /\ HandleFrames \subseteq Scoped /\ ClauseFrames \subseteq Scoped
  /\ Code \notin Scoped /\ Transform \notin Scoped
  /\ Code \notin HandleFrames /\ Transform \notin HandleFrames
  /\ \A o : /\ Cleanup(o) \notin HandleFrames /\ Clause(o) \notin HandleFrames
            /\ Cleanup(o) \notin ClauseFrames /\ Handle(o) \notin ClauseFrames
BY DEF HandleFrames, ClauseFrames, Scoped, Of, Code, Transform, Cleanup, Clause, Handle

\* A continuation has no handler frame, or it has one.
LEMMA HandlesAreFrames ==
  ASSUME WellFormed, NEW kk, ContinuationOK(kk)
  PROVE  /\ \A i \in HandlesIn(kk) : i \in 1 .. Len(kk) /\ kk[i] \in HandleFrames
         /\ FramesOf(kk) \cap HandleFrames = {} <=> HandlesIn(kk) = {}
<1>1. DOMAIN kk = 1 .. Len(kk)
  BY DEF ContinuationOK
<1>2. \A i \in 1 .. Len(kk) : kk[i] \in FramesOf(kk)
  BY DEF FramesOf
<1>3. \A i \in 1 .. Len(kk) : kk[i] \in HandleFrames <=> kk[i].kind = "handle"
  <2> SUFFICES ASSUME NEW i \in 1 .. Len(kk)
               PROVE  kk[i] \in HandleFrames <=> kk[i].kind = "handle"
    OBVIOUS
  <2>1. kk[i] \in Of({"handle"}) <=> kk[i].kind \in {"handle"}
    BY <1>2, KindFacts
  <2> QED
    BY <2>1 DEF HandleFrames
<1>4. HandlesIn(kk) = {i \in 1 .. Len(kk) : kk[i] \in HandleFrames}
  BY <1>1, <1>3 DEF HandlesIn
<1> QED
  BY <1>4 DEF FramesOf

\* Steps that add nothing: the continuation keeps its shape or loses frames.
LEMMA BlockKept ==
  ASSUME WellFormed, BlockInv, UNCHANGED <<captured, installs>>,
         frames = <<>> => frames' = <<>>,
         OneScope', ClausesOutside', FramesOf(k') \cap HandleFrames \subseteq FramesOf(k),
         AllHeld', CompletedRunsCleanUp'
  PROVE  BlockInv'
<1>1. InstalledOnce' /\ PlainResumes'
  BY DEF BlockInv, InstalledOnce, PlainResumes, Inner
<1>2. OneWay'
  <2>1. Live' = Live
    BY DEF Live
  <2> QED
    BY <2>1 DEF BlockInv, OneWay
<1> QED
  BY <1>1, <1>2 DEF BlockInv

\* The frame in front is done with.
LEMMA PoppedShape ==
  ASSUME WellFormed, BlockInv, k # <<>>, k' = Tail(k), captured' = captured
  PROVE  /\ OneScope' /\ ClausesOutside'
         /\ FramesOf(k') \cap HandleFrames \subseteq FramesOf(k)
         /\ Held(k) = Held(<<k[1]>>) \cup Held(k')
<1>1. k \in Seq(Frame(Len(frames), Len(captured)))
  BY DEF WellFormed, ContinuationOK
<1>2. OneScope' /\ ClausesOutside'
  BY <1>1, FramesOfParts DEF BlockInv, OneScope, ClausesOutside, Quiet
<1> QED
  BY <1>1, <1>2, FramesOfPart, HeldTail

\* The heap stays as it is, and so does what holds the cleanups.
LEMMA SameHeld ==
  ASSUME BlockInv, UNCHANGED <<Heap, status>>, Running,
         \A o \in Held(k) : CleanupsOf(o) # {} => o \in Held(k')
  PROVE  AllHeld' /\ CompletedRunsCleanUp'
<1>1. \A o : CleanupsOf(o)' = CleanupsOf(o)
  BY DEF CleanupsOf, Heap
<1>2. fired' = fired /\ program' = program /\ status' = "running"
  BY DEF Heap, Running
<1> QED
  BY <1>1, <1>2 DEF BlockInv, AllHeld, CompletedRunsCleanUp, Running

\* A frame that holds nothing is done with.
LEMMA PlainPopped ==
  ASSUME WellFormed, BlockInv, k # <<>>, k[1].kind \notin {"handle", "cleanup"},
         k' = Tail(k), UNCHANGED <<Heap, status>>, Running
  PROVE  BlockInv'
<1>1. Held(k) \subseteq Held(k') /\ UNCHANGED <<captured, installs, frames>>
  BY PoppedShape, HeldSingle DEF Heap
<1> QED
  BY <1>1, PoppedShape, SameHeld, BlockKept

LEMMA BlockSame ==
  ASSUME WellFormed, BlockInv, UNCHANGED <<k, Heap, status>>
  PROVE  BlockInv'
<1>1. UNCHANGED <<k, frames, lists, captured, fired, program, installs, status>>
  BY DEF Heap
<1>2. \A o : CleanupsOf(o)' = CleanupsOf(o)
  BY <1>1 DEF CleanupsOf
<1>3. Held(k') = Held(k) /\ NeverAbove(k', ClauseFrames, HandleFrames)
      /\ (Quiet' => NeverAbove(k', Scoped, HandleFrames))
  BY <1>1 DEF BlockInv, OneScope, ClausesOutside, Quiet
<1>4. AllHeld'
  BY <1>1, <1>2, <1>3 DEF BlockInv, AllHeld
<1>5. CompletedRunsCleanUp'
  BY <1>1 DEF BlockInv, CompletedRunsCleanUp, Registered
<1>6. OneScope' /\ ClausesOutside'
  BY <1>1, <1>3 DEF OneScope, ClausesOutside, Quiet
<1> QED
  BY <1>1, <1>4, <1>5, <1>6, BlockKept

LEMMA ReturnBlock == ASSUME WellFormed, BlockInv, Return PROVE BlockInv'
<1>1. k # <<>> /\ k[1].kind = "code" /\ k' = Tail(k) /\ UNCHANGED <<Heap, status>> /\ Running
  BY DEF Return, InCode, WellFormed, CodeInFront, Code
<1> QED
  BY <1>1, PlainPopped

LEMMA TransformBlock == ASSUME WellFormed, BlockInv, TransformCompletes PROVE BlockInv'
<1>1. /\ k # <<>> /\ k[1].kind = "transform" /\ k' = Tail(k)
      /\ UNCHANGED <<Heap, status>> /\ Running
  BY FrameMet DEF TransformCompletes, Meets
<1> QED
  BY <1>1, PlainPopped

\* No handler is under a clause, so the value of a clause skips nothing.
LEMMA ClauseSkipsNothing ==
  ASSUME WellFormed, BlockInv, ClauseCompletes
  PROVE  k # <<>> /\ k[1].kind = "clause" /\ k' = Tail(k)
<1>1. k # <<>> /\ k[1].kind = "clause"
  BY FrameMet DEF ClauseCompletes, Meets
<1>2. ContinuationOK(k) /\ ContinuationOK(Tail(k)) /\ 1 \in 1 .. Len(k)
  BY <1>1, FrameMet DEF WellFormed
<1>3. k[1] \in ClauseFrames
  BY <1>1, <1>2, KindFacts DEF FramesOf, ClauseFrames
<1>4. FramesOf(Tail(k)) \cap HandleFrames = {}
  BY <1>1, <1>2, <1>3, FramesMet DEF BlockInv, ClausesOutside, ContinuationOK
<1>5. HandlesIn(Tail(k)) = {}
  BY <1>2, <1>4, HandlesAreFrames
<1> QED
  BY <1>1, <1>5 DEF ClauseCompletes

LEMMA ClauseBlock == ASSUME WellFormed, BlockInv, ClauseCompletes PROVE BlockInv'
BY ClauseSkipsNothing, PlainPopped DEF ClauseCompletes, Meets

LEMMA CleanupBlock == ASSUME WellFormed, BlockInv, CleanupFires PROVE BlockInv'
<1>1. PICK o : o = Head(k).ref
  OBVIOUS
<1>2. /\ k # <<>> /\ k[1].kind = "cleanup" /\ k[1].ref = o /\ o \in 1 .. Len(frames)
      /\ k' = Tail(k) /\ fired' = Fire(CleanupsOf(o)) /\ Running
      /\ UNCHANGED <<lists, captured, program, installs, status>>
  BY <1>1, FrameMet DEF CleanupFires, Meets
<1>3. Len(frames') = Len(frames) /\ frames' \in Seq(FrameObject)
      /\ \A p \in 1 .. Len(frames) : frames'[p].list = frames[p].list
  <2>1. PICK yes \in BOOLEAN : yes = TRUE
    OBVIOUS
  <2>2. frames \in Seq(ObjectRecord(BOOLEAN))
    BY DEF WellFormed, FrameObject, ObjectRecord
  <2>3. frames' = FiredAt(frames, o, yes)
    BY <1>1, <2>1 DEF CleanupFires, MarkFired, FiredAt
  <2>4. FrameObject = ObjectRecord(BOOLEAN)
    BY DEF FrameObject, ObjectRecord
  <2> QED
    BY <1>2, <2>2, <2>3, <2>4, FiredAtFacts
<1>4. \A p \in 1 .. Len(frames) : CleanupsOf(p)' = CleanupsOf(p)
  BY <1>2, <1>3 DEF CleanupsOf
<1>5. Held(k) = {o} \cup Held(k') /\ Held(k) \subseteq 1 .. Len(frames)
  BY <1>2, PoppedShape, HeldSingle, HeldBound DEF WellFormed
<1>6. AllHeld'
  <2> SUFFICES ASSUME NEW c \in 1 .. Len(fired'), fired'[c] = 0
               PROVE  c \in program' \/ \E p \in Held(k') : c \in CleanupsOf(p)'
    BY DEF AllHeld
  <2>1. c \in 1 .. Len(fired) /\ fired[c] \in 0 .. 2
        /\ fired'[c] = IF c \in CleanupsOf(o) /\ fired[c] < 2 THEN fired[c] + 1 ELSE fired[c]
    BY <1>2, FireFacts DEF WellFormed
  <2>2. fired[c] = 0 /\ c \notin CleanupsOf(o)
    BY <2>1
  <2>3. c \in program \/ \E p \in Held(k) : c \in CleanupsOf(p)
    BY <1>2, <2>1, <2>2 DEF BlockInv, AllHeld, Running
  <2> QED
    BY <1>2, <1>4, <1>5, <2>2, <2>3
<1>7. CompletedRunsCleanUp'
  BY <1>2 DEF CompletedRunsCleanUp, Running
<1>8. frames = <<>> => frames' = <<>>
  BY <1>3
<1>9. OneScope' /\ ClausesOutside' /\ FramesOf(k') \cap HandleFrames \subseteq FramesOf(k)
  BY <1>2, PoppedShape
<1> QED
  BY <1>2, <1>6, <1>7, <1>8, <1>9, BlockKept

\* A handler frame leaves its cleanups in its place.
LEMMA LeftFacts ==
  ASSUME WellFormed, NEW o \in 1 .. Len(frames), NEW rest, ContinuationOK(rest)
  PROVE  /\ ContinuationOK(LeaveCleanup(o, rest))
         /\ Held(rest) \subseteq Held(LeaveCleanup(o, rest))
         /\ CleanupsOf(o) # {} => o \in Held(LeaveCleanup(o, rest))
         /\ FramesOf(LeaveCleanup(o, rest)) \subseteq {Cleanup(o)} \cup FramesOf(rest)
         /\ \A X : Cleanup(o) \notin X /\ NeverAbove(rest, X, HandleFrames)
                     => NeverAbove(LeaveCleanup(o, rest), X, HandleFrames)
<1>1. ContinuationOK(LeaveCleanup(o, rest))
  BY LeaveCleanupOK
<1>2. CASE CleanupsOf(o) = {}
  BY <1>1, <1>2 DEF LeaveCleanup
<1>3. CASE CleanupsOf(o) # {}
  <2> DEFINE F == Frame(Len(frames), Len(captured))
             one == <<Cleanup(o)>>
  <2>1. rest \in Seq(F) /\ Cleanup(o) \in F
    <3>1. Len(frames) \in Nat /\ Len(captured) \in Nat /\ Len(frames) <= MaxFrames
      BY DEF WellFormed
    <3> QED
      BY <3>1, FrameTypes DEF ContinuationOK
  <2>2. one \in Seq(F)
    BY <2>1
  <2>3. LeaveCleanup(o, rest) = one \o rest
    BY <1>3 DEF LeaveCleanup
  <2>4. Held(one) = {o} /\ FramesOf(one) = {Cleanup(o)}
        /\ \A X : NeverAbove(one, X, HandleFrames)
    BY HeldSingle, ShortFrames DEF Cleanup
  <2> HIDE DEF F, one
  <2>5. Held(one \o rest) = Held(one) \cup Held(rest)
        /\ FramesOf(one \o rest) = FramesOf(one) \cup FramesOf(rest)
    BY <2>1, <2>2, HeldJoined, FramesJoined
  <2>6. ASSUME NEW X, Cleanup(o) \notin X, NeverAbove(rest, X, HandleFrames)
        PROVE  NeverAbove(one \o rest, X, HandleFrames)
    <3>1. FramesOf(one) \cap X = {}
      BY <2>4, <2>6
    <3> QED
      BY <2>1, <2>2, <2>4, <2>6, <3>1, NeverAboveJoined
  <2> QED
    BY <1>1, <2>3, <2>4, <2>5, <2>6
<1> QED
  BY <1>2, <1>3

\* A continuation with no handler frame.
LEMMA NoneBelow ==
  ASSUME NEW s, NEW X, NEW Y, FramesOf(s) \cap Y = {}
  PROVE  NeverAbove(s, X, Y)
BY DEF NeverAbove, FramesOf

\* Two frames of code, a clause or a transform in front.
LEMMA TwoInFront ==
  ASSUME NEW S, NEW f \in S, NEW g \in S, NEW rest \in Seq(S), NEW X,
         f \notin HandleFrames, g \notin HandleFrames
  PROVE  /\ FramesOf(<<f, g>> \o rest) = {f, g} \cup FramesOf(rest)
         /\ f \notin X /\ g \notin X /\ NeverAbove(rest, X, HandleFrames)
               => NeverAbove(<<f, g>> \o rest, X, HandleFrames)
<1> DEFINE two == <<f, g>>
<1>1. two \in Seq(S) /\ FramesOf(two) = {f, g} /\ NeverAbove(two, X, HandleFrames)
  <2>1. two \in Seq(S)
    OBVIOUS
  <2>2. FramesOf(two) = {f, g} /\ NeverAbove(two, X, HandleFrames)
    BY ShortFrames
  <2> HIDE DEF two
  <2> QED
    BY <2>1, <2>2
<1> HIDE DEF two
<1>2. FramesOf(two \o rest) = FramesOf(two) \cup FramesOf(rest)
  BY <1>1, FramesJoined
<1>3. ASSUME f \notin X, g \notin X, NeverAbove(rest, X, HandleFrames)
      PROVE  NeverAbove(two \o rest, X, HandleFrames)
  <2>1. FramesOf(two) \cap X = {}
    BY <1>1, <1>3
  <2> QED
    BY <1>1, <1>3, <2>1, NeverAboveJoined
<1> QED
  BY <1>1, <1>2, <1>3 DEF two

LEMMA HandleBlock == ASSUME WellFormed, BlockInv, HandleCompletes PROVE BlockInv'
<1>1. PICK o : o = Head(k).ref
  OBVIOUS
<1> DEFINE rest == LeaveCleanup(o, Tail(k))
<1>2. /\ k # <<>> /\ k[1].kind = "handle" /\ k[1].ref = o /\ o \in 1 .. Len(frames)
      /\ Running /\ UNCHANGED <<Heap, status>>
      /\ k' = rest \/ k' = <<Code, Transform>> \o rest
  BY <1>1, FrameMet DEF HandleCompletes, Meets
<1>3. ContinuationOK(k) /\ ContinuationOK(Tail(k)) /\ 1 \in 1 .. Len(k)
  BY <1>2, FrameMet DEF WellFormed
<1>4. k[1] \in HandleFrames /\ k[1] \in Scoped
  BY <1>2, <1>3, KindFacts DEF FramesOf, HandleFrames, Scoped
<1>5. /\ ContinuationOK(rest) /\ Held(Tail(k)) \subseteq Held(rest)
      /\ CleanupsOf(o) # {} => o \in Held(rest)
      /\ FramesOf(rest) \subseteq {Cleanup(o)} \cup FramesOf(Tail(k))
      /\ \A X : Cleanup(o) \notin X /\ NeverAbove(Tail(k), X, HandleFrames)
                  => NeverAbove(rest, X, HandleFrames)
  BY <1>2, <1>3, LeftFacts
<1>6. Quiet => FramesOf(Tail(k)) \cap HandleFrames = {}
  BY <1>2, <1>3, <1>4, FramesMet DEF BlockInv, OneScope, ContinuationOK
<1>7. NeverAbove(Tail(k), ClauseFrames, HandleFrames)
      /\ FramesOf(Tail(k)) \subseteq FramesOf(k) /\ Held(k) = {o} \cup Held(Tail(k))
  BY <1>2, <1>3, FramesOfParts, FramesOfPart, HeldTail, HeldSingle
     DEF BlockInv, ClausesOutside, ContinuationOK
<1>8. /\ NeverAbove(rest, ClauseFrames, HandleFrames)
      /\ Quiet => NeverAbove(rest, Scoped, HandleFrames)
      /\ FramesOf(rest) \cap HandleFrames \subseteq FramesOf(k)
  <2>1. Cleanup(o) \notin HandleFrames /\ Cleanup(o) \notin ClauseFrames
    BY SubKinds
  <2> HIDE DEF rest
  <2>2. NeverAbove(rest, ClauseFrames, HandleFrames)
    BY <1>5, <1>7, <2>1
  <2>3. Quiet => FramesOf(rest) \cap HandleFrames = {}
    BY <1>5, <1>6, <2>1
  <2> QED
    BY <1>5, <1>7, <2>1, <2>2, <2>3, NoneBelow
<1> HIDE DEF rest
<1>9. /\ NeverAbove(k', ClauseFrames, HandleFrames)
      /\ Quiet => NeverAbove(k', Scoped, HandleFrames)
      /\ FramesOf(k') \cap HandleFrames \subseteq FramesOf(k)
      /\ Held(k') = Held(rest)
  <2>1. CASE k' = rest
    BY <1>8, <2>1
  <2>2. CASE k' = <<Code, Transform>> \o rest
    <3> DEFINE F == Frame(Len(frames), Len(captured))
    <3>1. rest \in Seq(F) /\ Code \in F /\ Transform \in F
      BY <1>5, FrameTypes DEF ContinuationOK, WellFormed
    <3>2. Code.kind = "code" /\ Transform.kind = "transform"
      BY DEF Code, Transform
    <3>3. Code \notin ClauseFrames /\ Transform \notin ClauseFrames
      BY SubKinds
    <3> HIDE DEF F
    <3>4. Held(<<Code, Transform>> \o rest) = Held(rest)
      BY <3>1, <3>2, HeldInFront
    <3> QED
      BY <1>8, <2>2, <3>1, <3>3, <3>4, SubKinds, TwoInFront
  <2> QED
    BY <1>2, <2>1, <2>2
<1>10. AllHeld' /\ CompletedRunsCleanUp'
  <2>1. \A p \in Held(k) : CleanupsOf(p) # {} => p \in Held(k')
    BY <1>5, <1>7, <1>9
  <2> QED
    BY <1>2, <2>1, SameHeld
<1>11. UNCHANGED <<captured, installs, frames>>
  BY <1>2 DEF Heap
<1>12. OneScope' /\ ClausesOutside'
  BY <1>9, <1>11 DEF OneScope, ClausesOutside, Quiet
<1> QED
  BY <1>9, <1>10, <1>11, <1>12, BlockKept

\* The one installation: no object was made before it.
LEMMA InstallBlock ==
  ASSUME MaxInstalls <= 1, WellFormed, BlockInv, NEW h \in Handlers, Install(h)
  PROVE  BlockInv'
<1>0. PICK n : n = Len(frames) + 1
  OBVIOUS
<1>1. /\ k' = <<Code, Handle(n)>> \o k /\ installs' = installs + 1 /\ Running
      /\ UNCHANGED <<lists, captured, fired, program, status>>
  BY <1>0 DEF Install, InCode
<1>2. installs = 0 /\ installs' # 0
  BY <1>1, BoundsAssumption DEF Install, WellFormed
<1>3. frames = <<>> /\ Len(frames) = 0 /\ n = 1
  BY <1>0, <1>2 DEF BlockInv, InstalledOnce
<1>4. Held(k) = {} /\ HandlesIn(k) = {} /\ ContinuationOK(k)
  <2>1. ContinuationOK(k)
    BY DEF WellFormed
  <2>2. Held(k) = {}
    BY <1>3, <2>1, HeldBound
  <2>3. \A i \in HandlesIn(k) : k[i].ref \in Held(k)
    BY <2>1 DEF HandlesIn, Held, Tokens, ContinuationOK
  <2> QED
    BY <2>1, <2>2, <2>3
<1>5. Len(captured) = 0 /\ captured = <<>>
  <2>1. \A r \in 1 .. Len(captured) : OwnHandler(r) \in 1 .. Len(frames)
    BY InnerFacts
  <2>2. Len(captured) \in Nat /\ captured \in Seq([performK : Continuation, used : BOOLEAN])
    BY DEF WellFormed
  <2>3. Len(captured) = 0
    <3>1. Len(captured) # 0 => 1 \in 1 .. Len(captured)
      BY <2>2
    <3> QED
      BY <1>3, <2>1, <3>1
  <2> QED
    BY <2>2, <2>3
<1>6. FramesOf(k) \cap HandleFrames = {}
  BY <1>4, HandlesAreFrames
<1>7. OneScope' /\ ClausesOutside'
  <2> DEFINE S == FramesOf(k) \cup {Code, Handle(n)}
             two == <<Code, Handle(n)>>
  <2>1. k \in Seq(S)
    BY <1>4 DEF FramesOf, ContinuationOK
  <2>2. two \in Seq(S)
    OBVIOUS
  <2>3. \A X : Code \notin X => NeverAbove(two, X, HandleFrames)
    BY ShortFrames
  <2>4. Code \notin Scoped /\ Code \notin ClauseFrames
    BY SubKinds
  <2>5. NeverAbove(two, Scoped, HandleFrames) /\ NeverAbove(two, ClauseFrames, HandleFrames)
        /\ NeverAbove(k, Scoped, HandleFrames) /\ NeverAbove(k, ClauseFrames, HandleFrames)
    BY <1>6, <2>3, <2>4, NoneBelow
  <2> HIDE DEF S, two
  <2>6. NeverAbove(two \o k, Scoped, HandleFrames)
    BY <1>6, <2>1, <2>2, <2>5, NeverAboveJoined
  <2>7. NeverAbove(two \o k, ClauseFrames, HandleFrames)
    BY <1>6, <2>1, <2>2, <2>5, NeverAboveJoined
  <2> QED
    BY <1>1, <2>6, <2>7 DEF OneScope, ClausesOutside, two
<1>8. InstalledOnce' /\ PlainResumes' /\ OneWay'
  <2>1. Len(captured') = 0
    BY <1>1, <1>5
  <2>2. Live' = {}
    BY <2>1 DEF Live
  <2> QED
    BY <1>2, <2>1, <2>2 DEF InstalledOnce, PlainResumes, OneWay
<1>9. AllHeld' /\ CompletedRunsCleanUp'
  <2>1. \A c \in 1 .. Len(fired) : fired[c] = 0 => c \in program
    BY <1>1, <1>4 DEF BlockInv, AllHeld, Running
  <2> QED
    BY <1>1, <2>1 DEF AllHeld, CompletedRunsCleanUp, Running
<1> QED
  BY <1>7, <1>8, <1>9 DEF BlockInv

\* Arrays only grow, and a new cleanup is in one of them or in the program's.
LEMMA RegisterGrows ==
  ASSUME WellFormed, RegisterCleanup
  PROVE  /\ \A p \in 1 .. Len(frames) : CleanupsOf(p) \subseteq CleanupsOf(p)'
         /\ program \subseteq program'
         /\ Len(fired) + 1 \in program' \/ \E o \in Held(k) : Len(fired) + 1 \in CleanupsOf(o)'
<1>0. PICK c : c = Len(fired) + 1
  OBVIOUS
<1>1. CASE HandlesIn(k) = {}
  <2>1. program' = program \cup {c} /\ UNCHANGED <<frames, lists>>
    BY <1>0, <1>1, RegisterCases
  <2>2. \A p : CleanupsOf(p)' = CleanupsOf(p)
    BY <2>1 DEF CleanupsOf
  <2> QED
    BY <1>0, <2>1, <2>2
<1>2. CASE HandlesIn(k) # {}
  <2>1. PICK o, l : RegisteredAt(o, l, c)
    BY <1>0, <1>2, RegisterCases
  <2>2. /\ program' = program
        /\ o \in Held(k) /\ o \in 1 .. Len(frames)
        /\ l \in 1 .. Len(lists') /\ frames'[o].list = l
        /\ \A p \in 1 .. Len(frames) : p # o => frames'[p].list = frames[p].list
        /\ \A m \in 1 .. Len(lists) : m # l => lists'[m] = lists[m]
        /\ Elements(lists'[l]) = CleanupsOf(o) \cup {c}
    BY <2>1 DEF RegisteredAt
  <2>3. \/ frames[o].list = 0 /\ l = Len(lists) + 1
        \/ frames[o].list # 0 /\ l = frames[o].list
    BY <2>1 DEF RegisteredAt
  <2>4. Len(lists) \in Nat
    BY DEF WellFormed
  <2>5. CleanupsOf(o)' = CleanupsOf(o) \cup {c}
    <3>1. l # 0
      BY <2>2, <2>3, <2>4
    <3>2. CleanupsOf(o)' = IF frames'[o].list = 0 THEN {} ELSE Elements(lists'[frames'[o].list])
      BY DEF CleanupsOf, Elements
    <3> QED
      BY <2>2, <3>1, <3>2
  <2>6. ASSUME NEW p \in 1 .. Len(frames), p # o
        PROVE  CleanupsOf(p) \subseteq CleanupsOf(p)'
    <3>1. CASE frames[p].list = 0
      BY <3>1 DEF CleanupsOf
    <3>2. CASE frames[p].list # 0
      <4>1. /\ frames[p].list \in 1 .. Len(lists) /\ CleanupsOf(p) = Elements(lists[frames[p].list])
            /\ frames'[p].list = frames[p].list
        BY <2>2, <2>6, <3>2, ArrayFacts
      <4>2. CleanupsOf(p)' = Elements(lists'[frames[p].list])
        BY <3>2, <4>1 DEF CleanupsOf, Elements
      <4>3. CASE frames[p].list # l
        BY <2>2, <4>1, <4>2, <4>3
      <4>4. CASE frames[p].list = l
        <5>1. frames[o].list = l
          BY <2>3, <2>4, <4>1, <4>4
        <5>2. CleanupsOf(o) = Elements(lists[l])
          BY <3>2, <4>4, <5>1 DEF CleanupsOf
        <5> QED
          BY <2>2, <4>1, <4>2, <4>4, <5>2
      <4> QED
        BY <4>3, <4>4
    <3> QED
      BY <3>1, <3>2
  <2> QED
    BY <1>0, <2>2, <2>5, <2>6
<1> QED
  BY <1>1, <1>2

LEMMA RegisterBlock == ASSUME WellFormed, BlockInv, RegisterCleanup PROVE BlockInv'
<1>0. PICK c : c = Len(fired) + 1
  OBVIOUS
<1>1. /\ UNCHANGED <<k, captured, installs, status>> /\ Running
      /\ Len(fired) \in Nat /\ Len(fired') = c
      /\ \A d \in 1 .. Len(fired) : fired'[d] = fired[d]
      /\ Len(frames') = Len(frames) /\ frames' \in Seq(FrameObject)
  <2>1. Running
    BY DEF RegisterCleanup, InCode
  <2> QED
    BY <1>0, <2>1, RegisterFacts, Sizes
<1>2. Held(k) \subseteq 1 .. Len(frames)
  BY HeldBound DEF WellFormed
<1>3. /\ \A p \in Held(k) : CleanupsOf(p) \subseteq CleanupsOf(p)'
      /\ program \subseteq program'
      /\ c \in program' \/ \E o \in Held(k) : c \in CleanupsOf(o)'
  BY <1>0, <1>2, RegisterGrows
<1>4. AllHeld'
  <2> SUFFICES ASSUME NEW d \in 1 .. c, fired'[d] = 0
               PROVE  d \in program' \/ \E o \in Held(k) : d \in CleanupsOf(o)'
    BY <1>1 DEF AllHeld
  <2>1. CASE d = c
    BY <1>3, <2>1
  <2>2. CASE d # c
    <3>1. d \in 1 .. Len(fired) /\ fired[d] = 0
      BY <1>0, <1>1, <2>2
    <3>2. d \in program \/ \E o \in Held(k) : d \in CleanupsOf(o)
      BY <1>1, <3>1 DEF BlockInv, AllHeld, Running
    <3> QED
      BY <1>3, <3>2
  <2> QED
    BY <2>1, <2>2
<1>5. frames = <<>> => frames' = <<>>
  BY <1>1
<1>6. OneScope' /\ ClausesOutside' /\ FramesOf(k') \cap HandleFrames \subseteq FramesOf(k)
  BY <1>1 DEF BlockInv, OneScope, ClausesOutside, Quiet
<1>7. CompletedRunsCleanUp'
  BY <1>1 DEF CompletedRunsCleanUp, Running
<1> QED
  BY <1>1, <1>4, <1>5, <1>6, <1>7, BlockKept

\* The end of a run; if the program completes, nothing is left on its continuation.
LEMMA EndBlock ==
  ASSUME WellFormed, BlockInv, NEW how, End(how), how # "running",
         how = "completed" => k = <<>> /\ Running
  PROVE  BlockInv'
<1>1. /\ fired' = Fire(program) /\ status' = how
      /\ UNCHANGED <<k, frames, captured, installs>>
  BY DEF End
<1>2. AllHeld'
  BY <1>1 DEF AllHeld
<1>3. CompletedRunsCleanUp'
  <2> SUFFICES ASSUME how = "completed", NEW c \in DOMAIN fired' PROVE fired'[c] > 0
    BY <1>1 DEF CompletedRunsCleanUp, Registered
  <2>1. /\ Len(fired') = Len(fired) /\ fired' \in Seq(0 .. 2)
        /\ c \in 1 .. Len(fired)
        /\ fired'[c] = IF c \in program /\ fired[c] < 2 THEN fired[c] + 1 ELSE fired[c]
        /\ fired[c] \in 0 .. 2
    BY <1>1, FireFacts DEF WellFormed
  <2>2. Held(k) = {}
    <3>1. Tokens(k) = {}
      BY DEF Tokens
    <3> QED
      BY <3>1 DEF Held
  <2>3. fired[c] = 0 => c \in program
    BY <2>1, <2>2 DEF BlockInv, AllHeld, Running
  <2> QED
    BY <2>1, <2>3
<1>4. OneScope' /\ ClausesOutside' /\ FramesOf(k') \cap HandleFrames \subseteq FramesOf(k)
  BY <1>1 DEF BlockInv, OneScope, ClausesOutside, Quiet
<1> QED
  BY <1>1, <1>2, <1>3, <1>4, BlockKept

\* A continuation of code only holds nothing.
LEMMA PlainHoldsNothing ==
  ASSUME WellFormed, NEW kk, ContinuationOK(kk), FramesOf(kk) \cap Scoped = {}
  PROVE  Held(kk) = {} /\ HandlesIn(kk) = {}
<1>1. \A i \in 1 .. Len(kk) : kk[i].kind \notin {"handle", "cleanup"}
  <2> SUFFICES ASSUME NEW i \in 1 .. Len(kk) PROVE kk[i].kind \notin {"handle", "cleanup"}
    OBVIOUS
  <2>1. kk[i] \in FramesOf(kk) /\ kk[i] \notin Scoped
    BY DEF FramesOf
  <2>2. kk[i].kind \notin {"handle", "cleanup", "clause"}
    BY <2>1, KindFacts DEF Scoped
  <2> QED
    BY <2>2
<1>2. Tokens(kk) = {} /\ HandlesIn(kk) = {}
  BY <1>1 DEF Tokens, HandlesIn, ContinuationOK
<1> QED
  BY <1>2 DEF Held

\* The block is caught: what was above its handler is the resume function.
LEMMA DispatchBlock ==
  ASSUME OneBlock, WellFormed, BlockInv, NEW i \in HandlesIn(k), Dispatch(k, i), Running
  PROVE  BlockInv'
<1>0. PICK n, above, below, o : /\ n = Len(captured) + 1 /\ above = SubSeq(k, 1, i - 1)
                                /\ below = Below(k, i) /\ o = k[i].ref
  OBVIOUS
<1>1. /\ i \in 1 .. Len(k) /\ k \in Seq(Frame(Len(frames), Len(captured)))
      /\ k[i].kind = "handle" /\ o \in 1 .. Len(frames) /\ k[i] \in HandleFrames
  BY <1>0, FrameOn, HandlesAreFrames DEF WellFormed, ContinuationOK, HandlesIn
<1>2. Quiet
  <2>1. Len(captured) \in Nat /\ Len(captured) < MaxResumes /\ MaxResumes \in Nat
    BY BoundsAssumption DEF Dispatch, WellFormed
  <2>2. CASE OneShot
    BY <2>2 DEF Quiet
  <2>3. CASE MaxResumes <= 1
    <3>1. Len(captured) = 0
      BY <2>1, <2>3
    <3> QED
      BY <3>1 DEF Quiet, WellFormed
  <2> QED
    BY <2>2, <2>3 DEF OneBlock
<1>3. FramesOf(above) \cap Scoped = {} /\ FramesOf(below) \cap HandleFrames = {}
  <2>1. NeverAbove(k, Scoped, HandleFrames) /\ k[i] \in Scoped
    BY <1>1, <1>2, SubKinds DEF BlockInv, OneScope
  <2> QED
    BY <1>0, <1>1, <2>1, AroundFrame
<1>4. ContinuationOK(above) /\ ContinuationOK(below)
  <2>1. PICK m : m = i - 1 /\ m \in 0 .. Len(k)
    BY <1>1
  <2>2. SubSeq(k, 1, m) \in Seq(Frame(Len(frames), Len(captured)))
    BY <1>1, <2>1, Parts
  <2> QED
    BY <1>0, <1>1, <2>1, <2>2, Parts DEF ContinuationOK
<1>5. Held(above) = {} /\ Held(k) = {o} \cup Held(below)
  <2>1. Held(<<k[i]>>) = {o}
    BY <1>0, <1>1, HeldSingle
  <2>2. Held(k) = Held(above) \cup Held(<<k[i]>>) \cup Held(below)
    BY <1>0, <1>1, HeldSplit
  <2> QED
    BY <1>3, <1>4, <2>1, <2>2, PlainHoldsNothing
<1>6. PICK rest : rest = LeaveCleanup(o, below)
  OBVIOUS
<1>7. /\ k' = <<Code, Clause(n)>> \o rest /\ status' = "running"
      /\ UNCHANGED <<frames, lists, fired, program, installs>>
  BY <1>0, <1>6 DEF Dispatch, ClauseContinuation, Store, Running
<1>8. /\ ContinuationOK(rest) /\ Held(below) \subseteq Held(rest)
      /\ CleanupsOf(o) # {} => o \in Held(rest)
      /\ FramesOf(rest) \subseteq {Cleanup(o)} \cup FramesOf(below)
  BY <1>1, <1>4, <1>6, LeftFacts
<1>9. FramesOf(k') \cap HandleFrames = {} /\ Held(k') = Held(rest)
  <2>1. PICK S : S = Frame(Len(frames), Len(captured)) \cup {Code, Clause(n)}
    OBVIOUS
  <2>2. Code \in S /\ Clause(n) \in S /\ rest \in Seq(S)
    BY <1>8, <2>1, SeqGrows DEF ContinuationOK
  <2>3. PICK f, g : f = Code /\ g = Clause(n)
    OBVIOUS
  <2>4. f \notin HandleFrames /\ g \notin HandleFrames /\ Cleanup(o) \notin HandleFrames
    BY <2>3, SubKinds
  <2>5. FramesOf(<<f, g>> \o rest) = {f, g} \cup FramesOf(rest)
    BY <2>2, <2>3, <2>4, TwoInFront
  <2>6. f.kind \notin {"handle", "cleanup"} /\ g.kind \notin {"handle", "cleanup"}
    BY <2>3 DEF Code, Clause
  <2>7. Held(<<f, g>> \o rest) = Held(rest)
    BY <2>2, <2>3, <2>6, HeldInFront
  <2> QED
    BY <1>3, <1>7, <1>8, <2>3, <2>4, <2>5, <2>7
<1>10. OneScope' /\ ClausesOutside'
  BY <1>9, NoneBelow DEF OneScope, ClausesOutside
<1>11. /\ n \notin 1 .. Len(captured) /\ Len(captured') = n /\ Len(captured) \in Nat
       /\ \A r \in 1 .. Len(captured) : captured'[r] = captured[r]
       /\ ~captured'[n].used /\ Inner(n)' = above
  BY <1>0, DispatchFacts DEF WellFormed
<1>12. \A r \in 1 .. n : r \in 1 .. Len(captured) \/ r = n
  BY <1>0, <1>11
<1>13. PlainResumes'
  <2> SUFFICES ASSUME NEW r \in 1 .. n PROVE FramesOf(Inner(r)') \cap Scoped = {}
    BY <1>11 DEF PlainResumes, FramesOf
  <2>1. CASE r = n
    BY <1>3, <1>11, <2>1
  <2>2. CASE r \in 1 .. Len(captured)
    <3>1. Inner(r)' = Inner(r)
      BY <1>11, <2>2 DEF Inner
    <3> QED
      BY <2>2, <3>1 DEF BlockInv, PlainResumes
  <2> QED
    BY <1>12, <2>1, <2>2
<1>14. OneWay'
  <2> SUFFICES ASSUME OneShot, NEW r \in Live'
               PROVE  FramesOf(k') \cap HandleFrames = {} /\ \A q \in Live' : q = r
    BY DEF OneWay
  <2>1. Live = {}
    <3>1. k[i] \in FramesOf(k) \cap HandleFrames
      BY <1>1 DEF FramesOf
    <3> QED
      BY <3>1 DEF BlockInv, OneWay
  <2>2. Live' = {q \in 1 .. n : ~captured'[q].used}
    BY <1>11 DEF Live
  <2>3. \A q \in Live' : q = n
    <3> SUFFICES ASSUME NEW q \in 1 .. Len(captured), ~captured'[q].used PROVE FALSE
      BY <1>12, <2>2
    <3>1. ~captured[q].used
      BY <1>11
    <3> QED
      BY <2>1, <3>1 DEF Live
  <2> QED
    BY <1>9, <2>3
<1>15. AllHeld'
  <2>1. \A p : CleanupsOf(p)' = CleanupsOf(p)
    BY <1>7 DEF CleanupsOf
  <2>2. \A p \in Held(k) : CleanupsOf(p) # {} => p \in Held(k')
    BY <1>5, <1>8, <1>9
  <2> QED
    BY <1>7, <2>1, <2>2 DEF BlockInv, AllHeld, Running
<1>16. CompletedRunsCleanUp' /\ InstalledOnce'
  BY <1>7 DEF CompletedRunsCleanUp, BlockInv, InstalledOnce
<1> QED
  BY <1>10, <1>13, <1>14, <1>15, <1>16 DEF BlockInv

\* What a call of r puts in front is code, and the handler around it.
LEMMA ResumedBlock ==
  ASSUME WellFormed, BlockInv, NEW r \in 1 .. Len(captured), CallResume(r)
  PROVE  /\ HandlesIn(Inner(r)) = {} /\ Copies(r) = 0
         /\ FramesOf(Renewed(r)) \cap Scoped = {}
         /\ FramesOf(Renewed(r) \o Around(r)) \cap ClauseFrames = {}
         /\ NeverAbove(Renewed(r) \o Around(r), Scoped, HandleFrames)
         /\ Around(r) = <<>> \/ Around(r) = <<Handle(Len(frames) + 1)>>
<1>1. ContinuationOK(Inner(r)) /\ FramesOf(Inner(r)) \cap Scoped = {}
  BY InnerFacts DEF BlockInv, PlainResumes
<1>2. HandlesIn(Inner(r)) = {}
  BY <1>1, PlainHoldsNothing
<1>3. Copies(r) = 0
  <2>1. \A j \in 1 .. Len(InnerHandles(r)) : InnerHandles(r)[j] \in HandlesIn(Inner(r))
    BY <1>1, HandlesFacts, ListingFacts DEF InnerHandles, ContinuationOK
  <2>2. Len(InnerHandles(r)) \in Nat
    BY CopyFacts
  <2>3. Len(InnerHandles(r)) # 0 => 1 \in 1 .. Len(InnerHandles(r))
    BY <2>2
  <2> QED
    BY <1>2, <2>1, <2>2, <2>3 DEF Copies
<1>4. FramesOf(Renewed(r)) \cap Scoped = {}
  <2>1. \A i \in 1 .. Len(Inner(r)) : Renewed(r)[i] = Inner(r)[i]
    BY <1>2, RenewedFacts
  <2>2. FramesOf(Renewed(r)) = FramesOf(Inner(r))
    BY <2>1, RenewedFacts DEF FramesOf
  <2> QED
    BY <1>1, <2>2
<1>5. Around(r) = <<>> \/ Around(r) = <<Handle(Len(frames) + 1)>>
  BY <1>3 DEF Around, Copies, WellFormed
<1>6. FramesOf(Around(r)) \cap ClauseFrames = {} /\ NeverAbove(Around(r), Scoped, HandleFrames)
  <2>1. CASE Around(r) = <<>>
    <3>1. FramesOf(<<>>) = {} /\ NeverAbove(<<>>, Scoped, HandleFrames)
      BY DEF FramesOf, NeverAbove
    <3> QED
      BY <2>1, <3>1
  <2>2. CASE Around(r) = <<Handle(Len(frames) + 1)>>
    <3>1. PICK f : f = Handle(Len(frames) + 1)
      OBVIOUS
    <3>2. f \notin ClauseFrames
      BY <3>1, SubKinds
    <3>3. FramesOf(<<f>>) = {f} /\ NeverAbove(<<f>>, Scoped, HandleFrames)
      BY DEF FramesOf, NeverAbove
    <3> QED
      BY <2>2, <3>1, <3>2, <3>3
  <2> QED
    BY <1>5, <2>1, <2>2
<1>7. PICK S : Renewed(r) \in Seq(S) /\ Around(r) \in Seq(S)
  BY ResumedFrames
<1>8. FramesOf(Renewed(r) \o Around(r)) \cap ClauseFrames = {}
  <2>1. FramesOf(Renewed(r) \o Around(r)) = FramesOf(Renewed(r)) \cup FramesOf(Around(r))
    BY <1>7, FramesJoined
  <2> QED
    BY <1>4, <1>6, <2>1, SubKinds
<1>9. NeverAbove(Renewed(r) \o Around(r), Scoped, HandleFrames)
  <2>1. NeverAbove(Renewed(r), Scoped, HandleFrames)
    BY <1>4 DEF NeverAbove, FramesOf
  <2> QED
    BY <1>4, <1>6, <1>7, <2>1, NeverAboveJoined
<1> QED
  BY <1>2, <1>3, <1>4, <1>5, <1>8, <1>9

LEMMA ResumeBlock ==
  ASSUME OneBlock, WellFormed, BlockInv, NEW r \in 1 .. Len(captured), CallResume(r)
  PROVE  BlockInv'
<1>1. PICK a : a = Renewed(r) \o Around(r)
  OBVIOUS
<1>2. /\ k' = a \o k /\ Running /\ UNCHANGED <<lists, fired, program, installs, status>>
      /\ OneShot => ~captured[r].used
  BY <1>1 DEF CallResume, Callable, InCode
<1>3. PICK S : a \in Seq(S) /\ k \in Seq(S)
  <2>1. PICK S : Renewed(r) \in Seq(S) /\ Around(r) \in Seq(S) /\ k \in Seq(S)
    BY ResumedFrames
  <2> QED
    BY <1>1, <2>1, Joined
<1>4. FramesOf(a) \cap ClauseFrames = {} /\ NeverAbove(a, Scoped, HandleFrames)
  BY <1>1, ResumedBlock
<1>5. OneShot => FramesOf(k) \cap HandleFrames = {} /\ \A q \in Live : q = r
  BY <1>2 DEF BlockInv, OneWay, Live
<1>6. ClausesOutside'
  <2>1. NeverAbove(a, ClauseFrames, HandleFrames)
    BY <1>4 DEF NeverAbove, FramesOf
  <2> QED
    BY <1>2, <1>3, <1>4, <2>1, NeverAboveJoined DEF BlockInv, ClausesOutside
<1>7. /\ Len(captured') = Len(captured) /\ captured'[r].used
      /\ captured' \in Seq([performK : Continuation, used : BOOLEAN])
      /\ \A q \in 1 .. Len(captured) : /\ captured'[q].performK = captured[q].performK
                                       /\ q # r => captured'[q].used = captured[q].used
  BY ResumedCaptured
<1>8. OneScope'
  <2> SUFFICES ASSUME Quiet' PROVE NeverAbove(k', Scoped, HandleFrames)
    BY DEF OneScope
  <2>1. OneShot
    BY <1>7 DEF Quiet
  <2>2. NeverAbove(k, Scoped, HandleFrames)
    BY <1>5, <2>1, NoneBelow
  <2> QED
    BY <1>2, <1>3, <1>4, <1>5, <2>1, <2>2, NeverAboveJoined
<1>9. PlainResumes'
  <2>1. \A q \in 1 .. Len(captured) : Inner(q)' = Inner(q)
    BY <1>7 DEF Inner
  <2> QED
    BY <1>7, <2>1 DEF BlockInv, PlainResumes
<1>10. OneWay'
  <2> SUFFICES ASSUME OneShot PROVE Live' = {}
    BY DEF OneWay
  <2>1. \A q \in Live' : q \in Live /\ q # r
    BY <1>7 DEF Live
  <2> QED
    BY <1>5, <2>1
<1>11. InstalledOnce'
  <2>1. OwnHandler(r) \in 1 .. Len(frames)
    BY InnerFacts
  <2>2. installs # 0
    BY <2>1 DEF BlockInv, InstalledOnce
  <2> QED
    BY <1>2, <2>2 DEF InstalledOnce
<1>12. AllHeld' /\ CompletedRunsCleanUp'
  <2>1. \A o \in 1 .. Len(frames) : frames'[o] = frames[o]
    BY ResumeFacts
  <2>2. \A o \in 1 .. Len(frames) : CleanupsOf(o)' = CleanupsOf(o)
    BY <1>2, <2>1 DEF CleanupsOf
  <2>3. Held(k) \subseteq 1 .. Len(frames) /\ Held(k') = Held(a) \cup Held(k)
    BY <1>2, <1>3, HeldBound, HeldJoined DEF WellFormed
  <2> QED
    BY <1>2, <2>2, <2>3 DEF BlockInv, AllHeld, CompletedRunsCleanUp, Running
<1> QED
  BY <1>6, <1>8, <1>9, <1>10, <1>11, <1>12 DEF BlockInv

LEMMA RaiseBlock ==
  ASSUME OneBlock, WellFormed, BlockInv, Running, Raise(k)
  PROVE  BlockInv'
<1>1. CASE Catchers(k, "error") # {} /\ Dispatch(k, First(Catchers(k, "error")))
  BY <1>1, CatcherFacts, DispatchBlock
<1>2. CASE End("error")
  BY <1>2, EndBlock
<1> QED
  BY <1>1, <1>2 DEF Raise

LEMMA SuspendBlock == ASSUME OneBlock, WellFormed, BlockInv, Suspend PROVE BlockInv'
<1>1. CASE UNCHANGED <<k, control, Heap>> /\ status' = "suspended"
  <2>1. UNCHANGED <<k, frames, lists, captured, fired, program, installs>>
    BY <1>1 DEF Heap
  <2>2. AllHeld' /\ CompletedRunsCleanUp'
    BY <1>1 DEF AllHeld, CompletedRunsCleanUp
  <2>3. OneScope' /\ ClausesOutside' /\ FramesOf(k') \cap HandleFrames \subseteq FramesOf(k)
    BY <2>1 DEF BlockInv, OneScope, ClausesOutside, Quiet
  <2> QED
    BY <2>1, <2>2, <2>3, BlockKept
<1>2. CASE Raise(k)
  BY <1>2, RaiseBlock DEF Suspend, InCode
<1> QED
  BY <1>1, <1>2 DEF Suspend

LEMMA InitBlock == Init => BlockInv
<1> SUFFICES ASSUME Init PROVE BlockInv
  OBVIOUS
<1>1. /\ frames = <<>> /\ Len(captured) = 0 /\ Len(fired) = 0 /\ status = "running"
      /\ k = <<Code>>
  BY DEF Init
<1>2. NeverAbove(k, ClauseFrames, HandleFrames) /\ NeverAbove(k, Scoped, HandleFrames)
  BY <1>1, ShortFrames
<1>3. Live = {}
  BY <1>1 DEF Live
<1> QED
  BY <1>1, <1>2, <1>3 DEF BlockInv, InstalledOnce, PlainResumes, OneScope, ClausesOutside,
                          OneWay, AllHeld, CompletedRunsCleanUp

LEMMA NextBlock ==
  ASSUME OneBlock, WellFormed, BlockInv, [Next]_vars
  PROVE  BlockInv'
<1>1. CASE Perform
  BY <1>1, CatcherFacts, DispatchBlock DEF Perform, InCode
<1>2. CASE Throw
  BY <1>2, RaiseBlock DEF Throw, InCode
<1>3. CASE ErrorStep
  BY <1>3, RaiseBlock DEF ErrorStep
<1>4. CASE Return
  BY <1>4, ReturnBlock
<1>5. CASE RegisterCleanup
  BY <1>5, RegisterBlock
<1>6. CASE Suspend
  BY <1>6, SuspendBlock
<1>7. CASE Halt
  BY <1>7, EndBlock DEF Halt
<1>8. CASE \E h \in Handlers : Install(h)
  BY <1>8, InstallBlock DEF OneBlock
<1>9. ASSUME NEW r \in DOMAIN captured, CallResume(r) \/ RefuseResume(r)
      PROVE  BlockInv'
  <2>1. r \in 1 .. Len(captured)
    BY <1>9 DEF WellFormed
  <2>2. CASE CallResume(r)
    BY <2>1, <2>2, ResumeBlock
  <2>3. CASE RefuseResume(r)
    BY <2>3, RaiseBlock DEF RefuseResume, InCode
  <2> QED
    BY <1>9, <2>2, <2>3
<1>10. CASE CodeContinues
  BY <1>10, BlockSame DEF CodeContinues
<1>11. CASE HandleCompletes
  BY <1>11, HandleBlock
<1>12. CASE TransformCompletes
  BY <1>12, TransformBlock
<1>13. CASE ClauseCompletes
  BY <1>13, ClauseBlock
<1>14. CASE CleanupFires
  BY <1>14, CleanupBlock
<1>15. CASE ProgramCompletes
  BY <1>15, EndBlock DEF ProgramCompletes
<1>16. CASE UNCHANGED vars
  BY <1>16, BlockSame DEF vars, Heap
<1> QED
  BY <1>1, <1>2, <1>3, <1>4, <1>5, <1>6, <1>7, <1>8, <1>9, <1>10, <1>11, <1>12, <1>13, <1>14,
     <1>15, <1>16 DEF Next, Terminated

\* A program with one handle block that completes has called every cleanup that was
\* registered, in the block, in its clauses or outside: through transforms, aborts
\* and resumes of a continuation that escapes and is resumed anywhere, once, or any
\* number of times if the block was caught only once.
THEOREM OneBlockCleansUp ==
  ASSUME OneBlock
  PROVE  Spec => []CompletedRunsCleanUp
<1>1. Init => WellFormed /\ BlockInv
  BY InitWellFormed, InitBlock
<1>2. WellFormed /\ BlockInv /\ [Next]_vars => (WellFormed /\ BlockInv)'
  BY NextWellFormed, NextBlock
<1>3. BlockInv => CompletedRunsCleanUp
  BY DEF BlockInv
<1> QED
  BY <1>1, <1>2, <1>3, PTL DEF Spec

-----------------------------------------------------------------------------
(* Resume functions that are called at most once, and only from their own   *)
(* clause: whatever a handler on the continuation may rely on is held by a  *)
(* frame below it.                                                          *)

\* What the frames of a continuation hold.
Provided(s) == UNION {CleanupsOf(o) : o \in Held(s)}
\* What a frame needs below it: the code that performed r relies on dep[r].
Requires(dep, f) ==
  IF f.kind = "handle" THEN frames[f.ref].needs
  ELSE IF f.kind = "clause" THEN dep[f.ref] ELSE {}
Supported(s, dep, base) ==
  \A i \in 1 .. Len(s) : \A c \in Requires(dep, s[i]) :
    c \in base \/ \E j \in Tokens(s) : i < j /\ c \in CleanupsOf(s[j].ref)
\* The handler of a clause left its cleanups right under the clause, or has none.
CleanupNext(s) ==
  \A i \in 1 .. Len(s) : s[i].kind = "clause" =>
    \/ frames[OwnHandler(s[i].ref)].list = 0
    \/ i < Len(s) /\ s[i + 1] = Cleanup(OwnHandler(s[i].ref))

ReliesOn(dep) ==
  /\ Supported(k, dep, {})
  /\ \A r \in Live : /\ Supported(Inner(r), dep, dep[r])
                     /\ frames[OwnHandler(r)].needs \subseteq dep[r]
OrderInv ==
  /\ CleanupNext(k) /\ \A r \in Live : CleanupNext(Inner(r))
  /\ \A r \in 1 .. Len(captured) : Handle(OwnHandler(r)) \notin FramesOf(k)
  /\ \E dep : ReliesOn(dep)

LEMMA ProvidedJoined ==
  ASSUME NEW S, NEW s \in Seq(S), NEW t \in Seq(S)
  PROVE  Provided(s \o t) = Provided(s) \cup Provided(t)
<1>1. Held(s \o t) = Held(s) \cup Held(t)
  BY HeldJoined
<1> QED
  BY <1>1 DEF Provided

LEMMA ProvidedByToken ==
  ASSUME NEW s, NEW c
  PROVE  c \in Provided(s) <=> \E j \in Tokens(s) : c \in CleanupsOf(s[j].ref)
BY DEF Provided, Held

LEMMA SupportedJoined ==
  ASSUME NEW S, NEW s \in Seq(S), NEW t \in Seq(S), NEW dep, NEW B
  PROVE  Supported(s \o t, dep, B) <=>
           Supported(s, dep, B \cup Provided(t)) /\ Supported(t, dep, B)
<1> DEFINE st == s \o t
           n == Len(s)
<1>1. /\ Len(st) = n + Len(t) /\ n \in Nat /\ Len(t) \in Nat
      /\ \A j \in 1 .. n : st[j] = s[j]
      /\ \A j \in 1 .. Len(t) : st[n + j] = t[j]
  BY Joined
<1>2. \A i : i \in Tokens(st) <=> i \in Tokens(s) \/ \E j \in Tokens(t) : i = n + j
  BY TokensJoined
<1>3. Tokens(s) \subseteq 1 .. n /\ Tokens(t) \subseteq 1 .. Len(t)
  BY DEF Tokens
<1>4. \A i \in 1 .. n + Len(t) : i \notin 1 .. n => \E j \in 1 .. Len(t) : i = n + j
  <2> SUFFICES ASSUME NEW i \in 1 .. n + Len(t), i \notin 1 .. n
               PROVE  \E j \in 1 .. Len(t) : i = n + j
    OBVIOUS
  <2>1. i - n \in 1 .. Len(t) /\ i = n + (i - n)
    BY <1>1
  <2> QED
    BY <2>1
<1> HIDE DEF st, n
<1>5. ASSUME Supported(st, dep, B), NEW i \in 1 .. n, NEW c \in Requires(dep, s[i])
      PROVE  \/ c \in B \cup Provided(t)
             \/ \E j \in Tokens(s) : i < j /\ c \in CleanupsOf(s[j].ref)
  <2>1. i \in 1 .. Len(st) /\ st[i] = s[i]
    BY <1>1
  <2>2. c \in B \/ \E j \in Tokens(st) : i < j /\ c \in CleanupsOf(st[j].ref)
    BY <1>5, <2>1 DEF Supported
  <2>3. ASSUME NEW j \in Tokens(st), i < j, c \in CleanupsOf(st[j].ref)
        PROVE  \/ c \in Provided(t)
               \/ \E m \in Tokens(s) : i < m /\ c \in CleanupsOf(s[m].ref)
    <3>1. CASE j \in Tokens(s)
      BY <1>1, <1>3, <2>3, <3>1
    <3>2. CASE \E m \in Tokens(t) : j = n + m
      BY <1>1, <1>3, <2>3, <3>2, ProvidedByToken
    <3> QED
      BY <1>2, <3>1, <3>2
  <2> QED
    BY <2>2, <2>3
<1>6. ASSUME Supported(st, dep, B), NEW i \in 1 .. Len(t), NEW c \in Requires(dep, t[i])
      PROVE  c \in B \/ \E j \in Tokens(t) : i < j /\ c \in CleanupsOf(t[j].ref)
  <2>1. n + i \in 1 .. Len(st) /\ st[n + i] = t[i]
    BY <1>1
  <2>2. c \in B \/ \E j \in Tokens(st) : n + i < j /\ c \in CleanupsOf(st[j].ref)
    BY <1>6, <2>1 DEF Supported
  <2>3. ASSUME NEW j \in Tokens(st), n + i < j, c \in CleanupsOf(st[j].ref)
        PROVE  \E m \in Tokens(t) : i < m /\ c \in CleanupsOf(t[m].ref)
    <3>1. j \notin Tokens(s)
      BY <1>1, <1>3, <2>3
    <3>2. PICK m \in Tokens(t) : j = n + m
      BY <1>2, <3>1
    <3>3. m \in 1 .. Len(t) /\ i < m /\ st[j] = t[m]
      BY <1>1, <1>3, <2>3, <3>2
    <3> QED
      BY <2>3, <3>3
  <2> QED
    BY <2>2, <2>3
<1>7. ASSUME Supported(s, dep, B \cup Provided(t)), Supported(t, dep, B),
             NEW i \in 1 .. Len(st), NEW c \in Requires(dep, st[i])
      PROVE  c \in B \/ \E j \in Tokens(st) : i < j /\ c \in CleanupsOf(st[j].ref)
  <2>1. CASE i \in 1 .. n
    <3>1. \/ c \in B \/ c \in Provided(t)
          \/ \E j \in Tokens(s) : i < j /\ c \in CleanupsOf(s[j].ref)
      BY <1>1, <1>7, <2>1 DEF Supported, n
    <3>2. ASSUME c \in Provided(t)
          PROVE  \E j \in Tokens(st) : i < j /\ c \in CleanupsOf(st[j].ref)
      <4>1. PICK m \in Tokens(t) : c \in CleanupsOf(t[m].ref)
        BY <3>2, ProvidedByToken
      <4>2. n + m \in Tokens(st) /\ i < n + m /\ st[n + m] = t[m]
        BY <1>1, <1>2, <1>3, <2>1
      <4> QED
        BY <4>1, <4>2
    <3>3. \A j \in Tokens(s) : j \in Tokens(st) /\ st[j] = s[j]
      BY <1>1, <1>2, <1>3
    <3> QED
      BY <3>1, <3>2, <3>3
  <2>2. CASE i \notin 1 .. n
    <3>1. PICK a \in 1 .. Len(t) : i = n + a
      BY <1>1, <1>4, <2>2
    <3>2. c \in Requires(dep, t[a])
      BY <1>1, <1>7, <3>1
    <3>3. c \in B \/ \E j \in Tokens(t) : a < j /\ c \in CleanupsOf(t[j].ref)
      BY <1>7, <3>2 DEF Supported
    <3>4. \A j \in Tokens(t) : n + j \in Tokens(st) /\ st[n + j] = t[j] /\ (a < j => i < n + j)
      BY <1>1, <1>2, <1>3, <3>1
    <3> QED
      BY <3>3, <3>4
  <2> QED
    BY <2>1, <2>2
<1>8. Supported(st, dep, B) => Supported(s, dep, B \cup Provided(t)) /\ Supported(t, dep, B)
  BY <1>5, <1>6 DEF Supported, n
<1>9. Supported(s, dep, B \cup Provided(t)) /\ Supported(t, dep, B) => Supported(st, dep, B)
  BY <1>7 DEF Supported
<1> QED
  BY <1>8, <1>9 DEF st

LEMMA SupportedSingle ==
  ASSUME NEW f, NEW dep, NEW B
  PROVE  /\ Supported(<<f>>, dep, B) <=> Requires(dep, f) \subseteq B
         /\ Supported(<<>>, dep, B)
         /\ Provided(<<f>>) = IF f.kind \in {"handle", "cleanup"} THEN CleanupsOf(f.ref) ELSE {}
         /\ Provided(<<>>) = {}
<1> DEFINE s == <<f>>
           e == <<>>
<1>1. Len(s) = 1 /\ s[1] = f /\ 1 .. 1 = {1} /\ Len(e) = 0
  OBVIOUS
<1>2. Held(s) = IF f.kind \in {"handle", "cleanup"} THEN {f.ref} ELSE {}
  BY HeldSingle
<1> HIDE DEF s, e
<1>3. Tokens(s) \subseteq {1} /\ Tokens(e) = {}
  BY <1>1 DEF Tokens
<1>4. Supported(s, dep, B) <=> Requires(dep, f) \subseteq B
  BY <1>1, <1>3 DEF Supported
<1>5. Supported(e, dep, B)
  BY <1>1 DEF Supported
<1>6. Provided(s) = (IF f.kind \in {"handle", "cleanup"} THEN CleanupsOf(f.ref) ELSE {})
  BY <1>2 DEF Provided
<1>7. Provided(e) = {}
  BY <1>3 DEF Provided, Held
<1> QED
  BY <1>4, <1>5, <1>6, <1>7 DEF s, e

\* More is provided, and what is needed stays.
LEMMA SupportKept ==
  ASSUME WellFormed, NEW kk, ContinuationOK(kk), NEW dep, NEW dep2, NEW B, NEW B2, B \subseteq B2,
         \A o \in 1 .. Len(frames) : /\ frames'[o].needs = frames[o].needs
                                     /\ CleanupsOf(o) \subseteq CleanupsOf(o)',
         \A r \in 1 .. Len(captured) : dep2[r] = dep[r],
         Supported(kk, dep, B)
  PROVE  Supported(kk, dep2, B2)'
<1>1. \A i \in 1 .. Len(kk) : Requires(dep2, kk[i])' = Requires(dep, kk[i])
  <2> SUFFICES ASSUME NEW i \in 1 .. Len(kk)
               PROVE  Requires(dep2, kk[i])' = Requires(dep, kk[i])
    OBVIOUS
  <2>1. /\ kk[i].kind = "handle" => kk[i].ref \in 1 .. Len(frames)
        /\ kk[i].kind = "clause" => kk[i].ref \in 1 .. Len(captured)
    BY FrameOn
  <2> QED
    BY <2>1 DEF Requires
<1>2. \A j \in Tokens(kk) : CleanupsOf(kk[j].ref) \subseteq CleanupsOf(kk[j].ref)'
  <2> SUFFICES ASSUME NEW j \in Tokens(kk)
               PROVE  CleanupsOf(kk[j].ref) \subseteq CleanupsOf(kk[j].ref)'
    OBVIOUS
  <2>1. kk[j].ref \in 1 .. Len(frames)
    BY FrameOn DEF Tokens
  <2> QED
    BY <2>1
<1>3. ASSUME NEW i \in 1 .. Len(kk), NEW c \in Requires(dep2, kk[i])'
      PROVE  c \in B2 \/ \E j \in Tokens(kk) : i < j /\ c \in CleanupsOf(kk[j].ref)'
  <2>1. c \in Requires(dep, kk[i])
    BY <1>1, <1>3
  <2>2. c \in B \/ \E j \in Tokens(kk) : i < j /\ c \in CleanupsOf(kk[j].ref)
    BY <2>1 DEF Supported
  <2> QED
    BY <1>2, <2>2
<1> QED
  BY <1>3 DEF Supported

LEMMA ProvidedKept ==
  ASSUME WellFormed, NEW kk, ContinuationOK(kk),
         \A o \in 1 .. Len(frames) : CleanupsOf(o) \subseteq CleanupsOf(o)'
  PROVE  Provided(kk) \subseteq Provided(kk)'
<1>1. Held(kk) \subseteq 1 .. Len(frames)
  BY HeldBound
<1> QED
  BY <1>1 DEF Provided

LEMMA NextKept ==
  ASSUME WellFormed, NEW kk, ContinuationOK(kk), CleanupNext(kk),
         \A r \in 1 .. Len(captured) :
           /\ captured'[r].performK = captured[r].performK
           /\ frames[OwnHandler(r)].list = 0 => frames'[OwnHandler(r)].list = 0
  PROVE  CleanupNext(kk)'
<1> SUFFICES ASSUME NEW i \in 1 .. Len(kk), kk[i].kind = "clause"
             PROVE  \/ frames'[OwnHandler(kk[i].ref)'].list = 0
                    \/ i < Len(kk) /\ kk[i + 1] = Cleanup(OwnHandler(kk[i].ref)')
  BY DEF CleanupNext
<1>1. PICK r : r = kk[i].ref
  OBVIOUS
<1>2. r \in 1 .. Len(captured)
  BY <1>1, FrameOn
<1>3. OwnHandler(r)' = OwnHandler(r)
  BY <1>2 DEF OwnHandler
<1>4. frames[OwnHandler(r)].list = 0 \/ (i < Len(kk) /\ kk[i + 1] = Cleanup(OwnHandler(r)))
  BY <1>1 DEF CleanupNext
<1> QED
  BY <1>1, <1>2, <1>3, <1>4

LEMMA NextJoined ==
  ASSUME NEW S, NEW s \in Seq(S), NEW t \in Seq(S)
  PROVE  /\ CleanupNext(s) /\ CleanupNext(t) => CleanupNext(s \o t)
         /\ CleanupNext(s \o t) => CleanupNext(t)
<1> DEFINE st == s \o t
           n == Len(s)
<1>1. /\ Len(st) = n + Len(t) /\ n \in Nat /\ Len(t) \in Nat
      /\ \A j \in 1 .. n : st[j] = s[j]
      /\ \A j \in 1 .. Len(t) : st[n + j] = t[j]
  BY Joined
<1>2. \A i \in 1 .. n + Len(t) : i \notin 1 .. n => \E j \in 1 .. Len(t) : i = n + j
  <2> SUFFICES ASSUME NEW i \in 1 .. n + Len(t), i \notin 1 .. n
               PROVE  \E j \in 1 .. Len(t) : i = n + j
    OBVIOUS
  <2>1. i - n \in 1 .. Len(t) /\ i = n + (i - n)
    BY <1>1
  <2> QED
    BY <2>1
<1> HIDE DEF st, n
<1>3. ASSUME CleanupNext(s), CleanupNext(t), NEW i \in 1 .. Len(st), st[i].kind = "clause"
      PROVE  \/ frames[OwnHandler(st[i].ref)].list = 0
             \/ i < Len(st) /\ st[i + 1] = Cleanup(OwnHandler(st[i].ref))
  <2>1. CASE i \in 1 .. n
    <3>1. \/ frames[OwnHandler(s[i].ref)].list = 0
          \/ i < n /\ s[i + 1] = Cleanup(OwnHandler(s[i].ref))
      BY <1>1, <1>3, <2>1 DEF CleanupNext, n
    <3>2. i < n => i + 1 \in 1 .. n /\ i < Len(st)
      BY <1>1, <2>1
    <3> QED
      BY <1>1, <2>1, <3>1, <3>2
  <2>2. CASE i \notin 1 .. n
    <3>1. PICK a \in 1 .. Len(t) : i = n + a
      BY <1>1, <1>2, <2>2
    <3>2. \/ frames[OwnHandler(t[a].ref)].list = 0
          \/ a < Len(t) /\ t[a + 1] = Cleanup(OwnHandler(t[a].ref))
      BY <1>1, <1>3, <3>1 DEF CleanupNext
    <3>3. a < Len(t) => a + 1 \in 1 .. Len(t) /\ i + 1 = n + (a + 1) /\ i < Len(st)
      BY <1>1, <3>1
    <3> QED
      BY <1>1, <3>1, <3>2, <3>3
  <2> QED
    BY <2>1, <2>2
<1>4. ASSUME CleanupNext(st), NEW a \in 1 .. Len(t), t[a].kind = "clause"
      PROVE  \/ frames[OwnHandler(t[a].ref)].list = 0
             \/ a < Len(t) /\ t[a + 1] = Cleanup(OwnHandler(t[a].ref))
  <2>1. n + a \in 1 .. Len(st) /\ st[n + a] = t[a]
    BY <1>1
  <2>2. \/ frames[OwnHandler(t[a].ref)].list = 0
        \/ n + a < Len(st) /\ st[n + a + 1] = Cleanup(OwnHandler(t[a].ref))
    BY <1>4, <2>1 DEF CleanupNext
  <2>3. n + a < Len(st) => a < Len(t) /\ a + 1 \in 1 .. Len(t) /\ n + a + 1 = n + (a + 1)
    BY <1>1
  <2> QED
    BY <1>1, <2>2, <2>3
<1>5. CleanupNext(s) /\ CleanupNext(t) => CleanupNext(st)
  BY <1>3 DEF CleanupNext
<1>6. CleanupNext(st) => CleanupNext(t)
  BY <1>4 DEF CleanupNext
<1> QED
  BY <1>5, <1>6 DEF st

\* A frame that is no clause, or one whose handler holds nothing.
LEMMA NextSingle ==
  ASSUME NEW f, f.kind = "clause" => frames[OwnHandler(f.ref)].list = 0
  PROVE  CleanupNext(<<f>>) /\ CleanupNext(<<>>)
<1> DEFINE s == <<f>>
           e == <<>>
<1>1. Len(s) = 1 /\ s[1] = f /\ 1 .. 1 = {1} /\ Len(e) = 0
  OBVIOUS
<1> HIDE DEF s, e
<1>2. CleanupNext(s) /\ CleanupNext(e)
  BY <1>1 DEF CleanupNext
<1> QED
  BY <1>2 DEF s, e

\* What is above a handler.
LEMMA NextAbove ==
  ASSUME NEW S, NEW s \in Seq(S), NEW i \in 1 .. Len(s), s[i].kind = "handle", CleanupNext(s)
  PROVE  CleanupNext(SubSeq(s, 1, i - 1))
<1>0. PICK n : n = i - 1
  OBVIOUS
<1> DEFINE a == SubSeq(s, 1, n)
<1>1. Len(s) \in Nat /\ Len(a) = n /\ \A j \in 1 .. n : a[j] = s[j]
  BY <1>0, Parts
<1> HIDE DEF a
<1>2. ASSUME NEW j \in 1 .. n, a[j].kind = "clause"
      PROVE  \/ frames[OwnHandler(a[j].ref)].list = 0
             \/ j < n /\ a[j + 1] = Cleanup(OwnHandler(a[j].ref))
  <2>1. j \in 1 .. Len(s) /\ j + 1 \in 1 .. Len(s) /\ (j < n => j + 1 \in 1 .. n)
        /\ (~(j < n) => j + 1 = i)
    BY <1>0, <1>1
  <2>2. \/ frames[OwnHandler(s[j].ref)].list = 0
        \/ j < Len(s) /\ s[j + 1] = Cleanup(OwnHandler(s[j].ref))
    BY <1>1, <1>2, <2>1 DEF CleanupNext
  <2>3. \A o : s[i] # Cleanup(o)
    BY DEF Cleanup
  <2> QED
    BY <1>1, <2>1, <2>2, <2>3
<1>3. CleanupNext(a)
  BY <1>1, <1>2 DEF CleanupNext
<1> QED
  BY <1>0, <1>3 DEF a

\* The handler frame of object o.
LEMMA HandleAt ==
  ASSUME WellFormed, NEW kk, ContinuationOK(kk), NEW i \in 1 .. Len(kk), kk[i].kind = "handle"
  PROVE  kk[i] = Handle(kk[i].ref) /\ Handle(kk[i].ref) \in FramesOf(kk)
<1>1. kk[i] \in [kind : Kinds, ref : Ref]
  BY FrameOn
<1>2. kk[i] = Handle(kk[i].ref)
  BY <1>1 DEF Handle
<1> QED
  BY <1>2, Zenon DEF FramesOf

\* Steps that capture nothing and keep the handlers and what they need.
LEMMA OrderKept ==
  ASSUME WellFormed, OrderInv, captured' = captured,
         \A o \in 1 .. Len(frames) : /\ frames'[o].needs = frames[o].needs
                                     /\ CleanupsOf(o) \subseteq CleanupsOf(o)',
         \A r \in 1 .. Len(captured) :
           frames[OwnHandler(r)].list = 0 => frames'[OwnHandler(r)].list = 0,
         NEW kk, k' = kk, ContinuationOK(kk), CleanupNext(kk),
         \A dep : Supported(k, dep, {}) => Supported(kk, dep, {}),
         FramesOf(kk) \cap HandleFrames \subseteq FramesOf(k)
  PROVE  OrderInv'
<1>1. \A r : Inner(r)' = Inner(r) /\ OwnHandler(r)' = OwnHandler(r)
  BY DEF Inner, OwnHandler
<1>2. Live' = Live /\ Len(captured') = Len(captured) /\ Live \subseteq 1 .. Len(captured)
  BY DEF Live
<1>3. \A r \in Live : ContinuationOK(Inner(r)) /\ OwnHandler(r) \in 1 .. Len(frames)
  BY <1>2, InnerFacts
<1>4. CleanupNext(k)'
  <2>1. CleanupNext(kk)'
    BY NextKept
  <2> QED
    BY <2>1 DEF CleanupNext
<1>5. \A r \in Live : CleanupNext(Inner(r))'
  <2> SUFFICES ASSUME NEW r \in Live PROVE CleanupNext(Inner(r))'
    OBVIOUS
  <2>1. PICK s : s = Inner(r)
    OBVIOUS
  <2>2. ContinuationOK(s) /\ CleanupNext(s)
    BY <1>3, <2>1 DEF OrderInv
  <2>3. CleanupNext(s)'
    BY <2>2, NextKept
  <2>4. Inner(r)' = s
    BY <1>1, <2>1
  <2> QED
    BY <2>3, <2>4 DEF CleanupNext
<1>6. \A r \in 1 .. Len(captured) : Handle(OwnHandler(r)) \notin FramesOf(kk)
  <2> SUFFICES ASSUME NEW r \in 1 .. Len(captured), Handle(OwnHandler(r)) \in FramesOf(kk)
               PROVE  FALSE
    OBVIOUS
  <2>1. Handle(OwnHandler(r)) \in HandleFrames
    <3>1. Handle(OwnHandler(r)).kind = "handle"
      BY DEF Handle
    <3> QED
      BY <3>1, KindFacts DEF HandleFrames
  <2> QED
    BY <2>1 DEF OrderInv
<1>7. \E dep : ReliesOn(dep)'
  <2>1. PICK dep : ReliesOn(dep)
    BY DEF OrderInv
  <2>2. Supported(k, dep, {})'
    <3>1. Supported(kk, dep, {})
      BY <2>1 DEF ReliesOn
    <3>2. Supported(kk, dep, {})'
      BY <3>1, SupportKept
    <3> QED
      BY <3>2 DEF Supported
  <2>3. ASSUME NEW r \in Live
        PROVE  Supported(Inner(r), dep, dep[r])' /\ frames'[OwnHandler(r)].needs \subseteq dep[r]
    <3>1. PICK s, B : s = Inner(r) /\ B = dep[r]
      OBVIOUS
    <3>2. ContinuationOK(s) /\ Supported(s, dep, B) /\ frames[OwnHandler(r)].needs \subseteq dep[r]
      BY <1>3, <2>1, <3>1 DEF ReliesOn
    <3>3. Supported(s, dep, B)'
      BY <3>2, SupportKept
    <3>4. Inner(r)' = s /\ dep[r] = B
      BY <1>1, <3>1
    <3>5. Supported(Inner(r), dep, dep[r])'
      BY <3>3, <3>4 DEF Supported
    <3> QED
      BY <1>3, <3>2, <3>5
  <2> QED
    BY <1>1, <1>2, <2>2, <2>3 DEF ReliesOn
<1> QED
  BY <1>1, <1>2, <1>4, <1>5, <1>6, <1>7 DEF OrderInv, FramesOf

\* Frames are dropped from the front.
LEMMA DroppedShape ==
  ASSUME NEW S, NEW s \in Seq(S)
  PROVE  /\ s # <<>> => /\ CleanupNext(s) => CleanupNext(Tail(s))
                        /\ \A dep : Supported(s, dep, {}) => Supported(Tail(s), dep, {})
         /\ \A i \in 1 .. Len(s) :
              /\ CleanupNext(s) => CleanupNext(Below(s, i))
              /\ \A dep : Supported(s, dep, {}) => Supported(Below(s, i), dep, {})
<1>1. ASSUME s # <<>>
      PROVE  /\ CleanupNext(s) => CleanupNext(Tail(s))
             /\ \A dep : Supported(s, dep, {}) => Supported(Tail(s), dep, {})
  <2>1. PICK a, b : a = <<Head(s)>> /\ b = Tail(s)
    OBVIOUS
  <2>2. a \in Seq(S) /\ b \in Seq(S) /\ s = a \o b
    BY <1>1, <2>1
  <2> QED
    BY <2>1, <2>2, NextJoined, SupportedJoined
<1>2. ASSUME NEW i \in 1 .. Len(s)
      PROVE  /\ CleanupNext(s) => CleanupNext(Below(s, i))
             /\ \A dep : Supported(s, dep, {}) => Supported(Below(s, i), dep, {})
  <2>0. PICK n : n = i - 1 /\ n \in 0 .. Len(s)
    OBVIOUS
  <2>1. PICK a, b, c : a = SubSeq(s, 1, n) /\ b = <<s[i]>> /\ c = Below(s, i)
    OBVIOUS
  <2>2. s = a \o (b \o c)
    BY <2>0, <2>1, SplitAt
  <2>3. a \in Seq(S) /\ b \in Seq(S) /\ c \in Seq(S)
    BY <2>0, <2>1, Parts
  <2>4. PICK d : d = b \o c
    OBVIOUS
  <2>5. d \in Seq(S) /\ s = a \o d
    BY <2>2, <2>3, <2>4, Joined
  <2>6. CleanupNext(s) => CleanupNext(c)
    BY <2>3, <2>4, <2>5, NextJoined
  <2>7. \A dep : Supported(s, dep, {}) => Supported(c, dep, {})
    BY <2>3, <2>4, <2>5, SupportedJoined
  <2> QED
    BY <2>1, <2>6, <2>7
<1> QED
  BY <1>1, <1>2

\* The same heap, and frames dropped.
LEMMA OrderDropped ==
  ASSUME WellFormed, OrderInv, UNCHANGED <<captured, lists>>,
         \A o \in 1 .. Len(frames) : /\ frames'[o].needs = frames[o].needs
                                     /\ frames'[o].list = frames[o].list,
         NEW kk, k' = kk, ContinuationOK(kk), CleanupNext(kk),
         \A dep : Supported(k, dep, {}) => Supported(kk, dep, {}),
         FramesOf(kk) \cap HandleFrames \subseteq FramesOf(k)
  PROVE  OrderInv'
<1>1. \A o \in 1 .. Len(frames) : CleanupsOf(o)' = CleanupsOf(o)
  BY SameCleanupsOf
<1>2. \A r \in 1 .. Len(captured) : OwnHandler(r) \in 1 .. Len(frames)
  BY InnerFacts
<1> QED
  BY <1>1, <1>2, OrderKept

LEMMA PoppedOrder ==
  ASSUME WellFormed, OrderInv, k # <<>>, k' = Tail(k), UNCHANGED <<captured, lists>>,
         \A o \in 1 .. Len(frames) : /\ frames'[o].needs = frames[o].needs
                                     /\ frames'[o].list = frames[o].list
  PROVE  OrderInv'
<1>1. k \in Seq(Frame(Len(frames), Len(captured))) /\ CleanupNext(k)
  BY DEF WellFormed, ContinuationOK, OrderInv
<1>2. PICK kk : kk = Tail(k)
  OBVIOUS
<1>3. ContinuationOK(kk)
  BY <1>2, FrameMet
<1>4. CleanupNext(kk) /\ \A dep : Supported(k, dep, {}) => Supported(kk, dep, {})
  BY <1>1, <1>2, DroppedShape
<1>5. FramesOf(kk) \subseteq FramesOf(k)
  BY <1>1, <1>2, FramesOfPart
<1> QED
  BY <1>2, <1>3, <1>4, <1>5, OrderDropped

LEMMA SameOrder ==
  ASSUME WellFormed, OrderInv, UNCHANGED <<k, captured, lists, frames>>
  PROVE  OrderInv'
<1>1. PICK kk : kk = k
  OBVIOUS
<1>2. ContinuationOK(kk) /\ CleanupNext(kk)
  BY <1>1 DEF WellFormed, OrderInv
<1>3. \A dep : Supported(k, dep, {}) => Supported(kk, dep, {})
  BY <1>1
<1> QED
  BY <1>1, <1>2, <1>3, OrderDropped

LEMMA ReturnOrder == ASSUME WellFormed, OrderInv, Return PROVE OrderInv'
<1>1. k # <<>> /\ k' = Tail(k) /\ UNCHANGED <<captured, lists, frames>>
  BY DEF Return, InCode, WellFormed, CodeInFront, Heap
<1> QED
  BY <1>1, PoppedOrder

LEMMA TransformOrder == ASSUME WellFormed, OrderInv, TransformCompletes PROVE OrderInv'
<1>1. k # <<>> /\ k' = Tail(k) /\ UNCHANGED <<captured, lists, frames>>
  BY DEF TransformCompletes, Meets, Heap
<1> QED
  BY <1>1, PoppedOrder

\* A frame object is marked as discharged.
LEMMA CleanupOrder == ASSUME WellFormed, OrderInv, CleanupFires PROVE OrderInv'
<1>1. PICK o : o = Head(k).ref
  OBVIOUS
<1>2. k # <<>> /\ k' = Tail(k) /\ o \in 1 .. Len(frames) /\ UNCHANGED <<captured, lists>>
  BY <1>1, FrameMet DEF CleanupFires, Meets
<1>3. \A p \in 1 .. Len(frames) : /\ frames'[p].needs = frames[p].needs
                                  /\ frames'[p].list = frames[p].list
  <2>1. PICK yes \in BOOLEAN : yes = TRUE
    OBVIOUS
  <2>2. frames \in Seq(ObjectRecord(BOOLEAN))
    BY DEF WellFormed, FrameObject, ObjectRecord
  <2>3. frames' = FiredAt(frames, o, yes)
    BY <1>1, <2>1 DEF CleanupFires, MarkFired, FiredAt
  <2> QED
    BY <1>2, <2>2, <2>3, FiredAtFacts
<1> QED
  BY <1>2, <1>3, PoppedOrder

LEMMA ClauseOrder == ASSUME WellFormed, OrderInv, ClauseCompletes PROVE OrderInv'
<1>1. PICK rest : rest = Tail(k)
  OBVIOUS
<1>2. /\ k # <<>> /\ UNCHANGED <<captured, lists, frames>>
      /\ k \in Seq(Frame(Len(frames), Len(captured))) /\ CleanupNext(k)
  BY DEF ClauseCompletes, Meets, Heap, WellFormed, ContinuationOK, OrderInv
<1>3. ContinuationOK(rest)
  BY <1>1, <1>2, FrameMet
<1>4. /\ CleanupNext(rest) /\ FramesOf(rest) \subseteq FramesOf(k)
      /\ \A dep : Supported(k, dep, {}) => Supported(rest, dep, {})
  BY <1>1, <1>2, DroppedShape, FramesOfPart
<1>5. PICK kk : kk = IF HandlesIn(rest) = {} THEN rest ELSE Below(rest, First(HandlesIn(rest)))
  OBVIOUS
<1>6. k' = kk
  BY <1>1, <1>5 DEF ClauseCompletes
<1>7. CASE HandlesIn(rest) = {}
  <2>1. kk = rest
    BY <1>5, <1>7
  <2> QED
    BY <1>2, <1>3, <1>4, <1>6, <2>1, OrderDropped
<1>8. CASE HandlesIn(rest) # {}
  <2>1. PICK i : i = First(HandlesIn(rest))
    OBVIOUS
  <2>2. i \in 1 .. Len(rest) /\ ContinuationOK(Below(rest, i)) /\ kk = Below(rest, i)
    BY <1>3, <1>5, <1>8, <2>1, SkippedFacts
  <2>3. /\ CleanupNext(kk) /\ FramesOf(kk) \subseteq FramesOf(rest)
        /\ \A dep : Supported(rest, dep, {}) => Supported(kk, dep, {})
    BY <1>3, <1>4, <2>2, DroppedShape, FramesOfPart DEF ContinuationOK
  <2>4. ContinuationOK(kk) /\ FramesOf(kk) \subseteq FramesOf(k)
        /\ \A dep : Supported(k, dep, {}) => Supported(kk, dep, {})
    BY <1>4, <2>2, <2>3
  <2> QED
    BY <1>2, <1>6, <2>3, <2>4, OrderDropped
<1> QED
  BY <1>7, <1>8

\* The handler of a resume function is not on the continuation, so its array stays.
LEMMA RegisterOrder == ASSUME WellFormed, OrderInv, RegisterCleanup PROVE OrderInv'
<1>0. PICK c : c = Len(fired) + 1
  OBVIOUS
<1>1. UNCHANGED <<k, captured>>
  BY DEF RegisterCleanup
<1>2. \A o \in 1 .. Len(frames) : CleanupsOf(o) \subseteq CleanupsOf(o)'
  BY RegisterGrows
<1>3. /\ \A o \in 1 .. Len(frames) : frames'[o].needs = frames[o].needs
      /\ \A r \in 1 .. Len(captured) :
           frames[OwnHandler(r)].list = 0 => frames'[OwnHandler(r)].list = 0
  <2>1. CASE HandlesIn(k) = {}
    BY <2>1, RegisterCases
  <2>2. CASE HandlesIn(k) # {}
    <3>1. PICK i, o, l : i = First(HandlesIn(k)) /\ o = k[i].ref /\ RegisteredAt(o, l, c)
      BY <1>0, <2>2, RegisterCases
    <3>2. i \in 1 .. Len(k) /\ k[i].kind = "handle" /\ ContinuationOK(k)
      BY <2>2, <3>1, SkippedFacts DEF WellFormed, HandlesIn
    <3>3. Handle(o) \in FramesOf(k)
      BY <3>1, <3>2, HandleAt
    <3>4. \A r \in 1 .. Len(captured) : OwnHandler(r) # o /\ OwnHandler(r) \in 1 .. Len(frames)
      BY <3>3, InnerFacts DEF OrderInv
    <3> QED
      BY <3>1, <3>4 DEF RegisteredAt
  <2> QED
    BY <2>1, <2>2
<1>4. PICK kk : kk = k
  OBVIOUS
<1>5. ContinuationOK(kk) /\ CleanupNext(kk)
  BY <1>4 DEF WellFormed, OrderInv
<1>6. \A dep : Supported(k, dep, {}) => Supported(kk, dep, {})
  BY <1>4
<1> QED
  BY <1>1, <1>2, <1>3, <1>4, <1>5, <1>6, OrderKept

\* A cleanup frame in the place of a handler provides what the handler did.
LEMMA LeftOrder ==
  ASSUME WellFormed, NEW o \in 1 .. Len(frames), NEW rest, ContinuationOK(rest), NEW dep
  PROVE  /\ Supported(rest, dep, {}) => Supported(LeaveCleanup(o, rest), dep, {})
         /\ CleanupNext(rest) => CleanupNext(LeaveCleanup(o, rest))
         /\ Provided(LeaveCleanup(o, rest)) = CleanupsOf(o) \cup Provided(rest)
         /\ CleanupsOf(o) # {} => /\ LeaveCleanup(o, rest) # <<>>
                                  /\ LeaveCleanup(o, rest)[1] = Cleanup(o)
<1>1. CASE CleanupsOf(o) = {}
  BY <1>1 DEF LeaveCleanup
<1>2. CASE CleanupsOf(o) # {}
  <2>1. PICK F : F = Frame(Len(frames), Len(captured))
    OBVIOUS
  <2>2. PICK f, one : f = Cleanup(o) /\ one = <<f>>
    OBVIOUS
  <2>3. rest \in Seq(F) /\ f \in F
    <3>1. Len(frames) \in Nat /\ Len(captured) \in Nat /\ Len(frames) <= MaxFrames
      BY DEF WellFormed
    <3> QED
      BY <2>1, <2>2, <3>1, FrameTypes DEF ContinuationOK
  <2>4. one \in Seq(F) /\ Len(one) = 1 /\ one[1] = f
    BY <2>2, <2>3
  <2>5. LeaveCleanup(o, rest) = one \o rest
    BY <1>2, <2>2 DEF LeaveCleanup
  <2>6. f.kind = "cleanup" /\ f.ref = o /\ f.kind # "clause" /\ f.kind # "handle"
    BY <2>2 DEF Cleanup
  <2>7. Requires(dep, f) = {}
    BY <2>6 DEF Requires
  <2>8. \A B : Supported(one, dep, B)
    BY <2>2, <2>7, SupportedSingle
  <2>9. CleanupNext(one) /\ Provided(one) = CleanupsOf(o)
    BY <2>2, <2>6, NextSingle, SupportedSingle
  <2>10. Supported(rest, dep, {}) => Supported(one \o rest, dep, {})
    BY <2>3, <2>4, <2>8, SupportedJoined
  <2>11. CleanupNext(rest) => CleanupNext(one \o rest)
    BY <2>3, <2>4, <2>9, NextJoined
  <2>12. Provided(one \o rest) = CleanupsOf(o) \cup Provided(rest)
    BY <2>3, <2>4, <2>9, ProvidedJoined
  <2>13. one \o rest # <<>> /\ (one \o rest)[1] = f
    BY <2>3, <2>4, Joined
  <2> QED
    BY <2>2, <2>5, <2>10, <2>11, <2>12, <2>13
<1> QED
  BY <1>1, <1>2

LEMMA TwoFrames ==
  ASSUME NEW S, NEW f \in S, NEW g \in S
  PROVE  /\ <<f>> \in Seq(S) /\ <<g>> \in Seq(S) /\ <<f, g>> \in Seq(S)
         /\ <<f>> \o <<g>> = <<f, g>>
<1>1. PICK a, b, two, p : a = <<f>> /\ b = <<g>> /\ two = <<f, g>> /\ p = a \o b
  OBVIOUS
<1>2. a \in Seq(S) /\ Len(a) = 1 /\ a[1] = f
  BY <1>1
<1>3. b \in Seq(S) /\ Len(b) = 1 /\ b[1] = g
  BY <1>1
<1>4. two \in Seq(S) /\ Len(two) = 2 /\ two[1] = f /\ two[2] = g
  BY <1>1
<1>5. p \in Seq(S) /\ Len(p) = 2 /\ p[1] = f /\ p[1 + 1] = g
  BY <1>1, <1>2, <1>3, Joined
<1>6. \A j \in 1 .. 2 : p[j] = two[j]
  BY <1>4, <1>5
<1>7. p = two
  BY <1>4, <1>5, <1>6
<1> QED
  BY <1>1, <1>2, <1>3, <1>4, <1>7

\* Two frames that need nothing are put in front.
LEMMA PlainInFront ==
  ASSUME NEW S, NEW f \in S, NEW g \in S, NEW rest \in Seq(S),
         f.kind \in {"code", "transform"}, g.kind \in {"code", "transform"}
  PROVE  /\ \A dep : Supported(rest, dep, {}) => Supported(<<f, g>> \o rest, dep, {})
         /\ CleanupNext(rest) => CleanupNext(<<f, g>> \o rest)
<1>1. PICK a, b : a = <<f>> /\ b = <<g>>
  OBVIOUS
<1>2. a \in Seq(S) /\ b \in Seq(S) /\ a \o b = <<f, g>>
  BY <1>1, TwoFrames
<1>3. \A dep : Requires(dep, f) = {} /\ Requires(dep, g) = {}
  BY DEF Requires
<1>4. \A dep, B : Supported(a, dep, B) /\ Supported(b, dep, B)
  BY <1>1, <1>3, SupportedSingle
<1>5. CleanupNext(a) /\ CleanupNext(b)
  BY <1>1, NextSingle
<1>6. PICK c : c = a \o b
  OBVIOUS
<1>7. c \in Seq(S) /\ (\A dep, B : Supported(c, dep, B)) /\ CleanupNext(c)
  BY <1>2, <1>4, <1>5, <1>6, Joined, SupportedJoined, NextJoined
<1>8. /\ \A dep : Supported(rest, dep, {}) => Supported(c \o rest, dep, {})
      /\ CleanupNext(rest) => CleanupNext(c \o rest)
  BY <1>7, SupportedJoined, NextJoined
<1> QED
  BY <1>2, <1>6, <1>8

LEMMA HandleOrder == ASSUME WellFormed, OrderInv, HandleCompletes PROVE OrderInv'
<1>1. PICK o, tail, rest : o = Head(k).ref /\ tail = Tail(k) /\ rest = LeaveCleanup(o, tail)
  OBVIOUS
<1>2. /\ k # <<>> /\ o \in 1 .. Len(frames) /\ UNCHANGED <<captured, lists, frames>>
      /\ k' = rest \/ k' = <<Code, Transform>> \o rest
  BY <1>1, FrameMet DEF HandleCompletes, Meets, Heap
<1>3. ContinuationOK(tail) /\ k \in Seq(Frame(Len(frames), Len(captured))) /\ CleanupNext(k)
  BY <1>1, <1>2, FrameMet DEF WellFormed, ContinuationOK, OrderInv
<1>4. /\ CleanupNext(tail) /\ FramesOf(tail) \subseteq FramesOf(k)
      /\ \A dep : Supported(k, dep, {}) => Supported(tail, dep, {})
  BY <1>1, <1>2, <1>3, DroppedShape, FramesOfPart
<1>5. /\ ContinuationOK(rest) /\ CleanupNext(rest)
      /\ \A dep : Supported(k, dep, {}) => Supported(rest, dep, {})
      /\ FramesOf(rest) \subseteq {Cleanup(o)} \cup FramesOf(k)
  BY <1>1, <1>2, <1>3, <1>4, LeftFacts, LeftOrder
<1>6. FramesOf(rest) \cap HandleFrames \subseteq FramesOf(k)
  BY <1>5, SubKinds
<1>7. CASE k' = rest
  BY <1>2, <1>5, <1>6, <1>7, OrderDropped
<1>8. CASE k' = <<Code, Transform>> \o rest
  <2>1. PICK F, f, g : F = Frame(Len(frames), Len(captured)) /\ f = Code /\ g = Transform
    OBVIOUS
  <2>2. rest \in Seq(F) /\ f \in F /\ g \in F
    BY <1>5, <2>1, FrameTypes DEF ContinuationOK, WellFormed
  <2>3. f.kind \in {"code", "transform"} /\ g.kind \in {"code", "transform"}
    BY <2>1 DEF Code, Transform
  <2>4. PICK kk : kk = <<f, g>> \o rest
    OBVIOUS
  <2>5. CleanupNext(kk) /\ \A dep : Supported(k, dep, {}) => Supported(kk, dep, {})
    BY <1>5, <2>2, <2>3, <2>4, PlainInFront
  <2>6. f \notin HandleFrames /\ g \notin HandleFrames
    BY <2>1, SubKinds
  <2>7. FramesOf(kk) = {f, g} \cup FramesOf(rest)
    BY <2>2, <2>4, <2>6, TwoInFront
  <2>8. ContinuationOK(kk)
    <3>1. PICK two : two = <<f, g>>
      OBVIOUS
    <3>2. two \in Seq(F)
      BY <2>2, <3>1
    <3> QED
      BY <2>1, <2>2, <2>4, <3>1, <3>2, Joined DEF ContinuationOK
  <2>9. FramesOf(kk) \cap HandleFrames \subseteq FramesOf(k)
    BY <1>6, <2>6, <2>7
  <2> QED
    BY <1>2, <1>8, <2>1, <2>4, <2>5, <2>8, <2>9, OrderDropped
<1> QED
  BY <1>2, <1>7, <1>8

\* The facts on joined continuations, for the state after a step.
Composes ==
  /\ \A S : \A s, t \in Seq(S) :
       /\ \A dep, B : Supported(s \o t, dep, B) <=>
                        Supported(s, dep, B \cup Provided(t)) /\ Supported(t, dep, B)
       /\ CleanupNext(s) /\ CleanupNext(t) => CleanupNext(s \o t)
       /\ Provided(s \o t) = Provided(s) \cup Provided(t)
  /\ \A f, dep, B : /\ Supported(<<f>>, dep, B) <=> Requires(dep, f) \subseteq B
                    /\ Supported(<<>>, dep, B) /\ CleanupNext(<<>>)
                    /\ f.kind # "clause" => CleanupNext(<<f>>)

LEMMA ComposesNow == Composes
<1>1. \A S : \A s, t \in Seq(S) :
        /\ \A dep, B : Supported(s \o t, dep, B) <=>
                         Supported(s, dep, B \cup Provided(t)) /\ Supported(t, dep, B)
        /\ CleanupNext(s) /\ CleanupNext(t) => CleanupNext(s \o t)
        /\ Provided(s \o t) = Provided(s) \cup Provided(t)
  BY SupportedJoined, NextJoined, ProvidedJoined
<1>2. \A f, dep, B : /\ Supported(<<f>>, dep, B) <=> Requires(dep, f) \subseteq B
                     /\ Supported(<<>>, dep, B)
  BY SupportedSingle
<1>3. CleanupNext(<<>>)
  BY DEF CleanupNext
<1>4. \A f : f.kind # "clause" => CleanupNext(<<f>>)
  BY NextSingle
<1> QED
  BY <1>1, <1>2, <1>3, <1>4 DEF Composes

LEMMA ComposesNext == Composes'
BY ComposesNow, PTL

LEMMA JoinedAfter ==
  ASSUME NEW S, NEW s \in Seq(S), NEW t \in Seq(S)
  PROVE  /\ \A dep, B : Supported(s \o t, dep, B)' <=>
                          Supported(s, dep, B \cup Provided(t))' /\ Supported(t, dep, B)'
         /\ CleanupNext(s)' /\ CleanupNext(t)' => CleanupNext(s \o t)'
         /\ Provided(s \o t)' = Provided(s)' \cup Provided(t)'
BY ComposesNext DEF Composes

LEMMA SingleAfter ==
  ASSUME NEW f
  PROVE  /\ \A dep, B : /\ Supported(<<f>>, dep, B)' <=> Requires(dep, f)' \subseteq B
                        /\ Supported(<<>>, dep, B)'
         /\ f.kind # "clause" => CleanupNext(<<f>>)'
         /\ CleanupNext(<<>>)'
BY ComposesNext DEF Composes

\* Frames are put in front, with objects that are new or known.
LEMMA OrderGrown ==
  ASSUME WellFormed, OrderInv, lists' = lists, Len(captured') = Len(captured), Live' \subseteq Live,
         \A q \in 1 .. Len(captured) : captured'[q].performK = captured[q].performK,
         \A o \in 1 .. Len(frames) : frames'[o] = frames[o],
         NEW kk, kk = k, NEW S, NEW a \in Seq(S), kk \in Seq(S), k' = a \o kk,
         CleanupNext(a)',
         \A dep : ReliesOn(dep) => Supported(a, dep, Provided(kk))',
         \A q \in 1 .. Len(captured) : Handle(OwnHandler(q)) \notin FramesOf(a)
  PROVE  OrderInv'
<1>1. \A q \in 1 .. Len(captured) : Inner(q)' = Inner(q) /\ OwnHandler(q)' = OwnHandler(q)
  BY DEF Inner, OwnHandler
<1>2. Live \subseteq 1 .. Len(captured)
  BY DEF Live
<1>3. \A q \in 1 .. Len(captured) : ContinuationOK(Inner(q)) /\ OwnHandler(q) \in 1 .. Len(frames)
  BY InnerFacts
<1>4. /\ \A o \in 1 .. Len(frames) : /\ frames'[o].needs = frames[o].needs
                                     /\ CleanupsOf(o) \subseteq CleanupsOf(o)'
      /\ \A q \in 1 .. Len(captured) :
           frames[OwnHandler(q)].list = 0 => frames'[OwnHandler(q)].list = 0
  <2>1. \A o \in 1 .. Len(frames) : CleanupsOf(o)' = CleanupsOf(o)
    BY SameCleanupsOf
  <2> QED
    BY <1>3, <2>1
<1>5. ContinuationOK(kk) /\ CleanupNext(kk)
  BY DEF WellFormed, OrderInv
<1>6. CleanupNext(k)'
  <2>1. CleanupNext(kk)'
    BY <1>4, <1>5, NextKept
  <2>2. CleanupNext(a \o kk)'
    BY <2>1, JoinedAfter
  <2> QED
    BY <2>2 DEF CleanupNext
<1>7. \A q \in Live : CleanupNext(Inner(q))'
  <2> SUFFICES ASSUME NEW q \in Live PROVE CleanupNext(Inner(q))'
    OBVIOUS
  <2>1. PICK s : s = Inner(q)
    OBVIOUS
  <2>2. ContinuationOK(s) /\ CleanupNext(s)
    BY <1>2, <1>3, <2>1 DEF OrderInv
  <2>3. CleanupNext(s)'
    BY <1>4, <2>2, NextKept
  <2>4. Inner(q)' = s
    BY <1>1, <1>2, <2>1
  <2> QED
    BY <2>3, <2>4 DEF CleanupNext
<1>8. \A q \in 1 .. Len(captured) : Handle(OwnHandler(q)) \notin FramesOf(k')
  <2>1. FramesOf(a \o kk) = FramesOf(a) \cup FramesOf(kk)
    BY FramesJoined
  <2> QED
    BY <2>1 DEF OrderInv
<1>9. \E dep : ReliesOn(dep)'
  <2>1. PICK dep : ReliesOn(dep)
    BY DEF OrderInv
  <2>2. Supported(k, dep, {})'
    <3>1. PICK none : none = {}
      OBVIOUS
    <3>2. Supported(kk, dep, none)
      BY <2>1, <3>1 DEF ReliesOn
    <3>3. Supported(kk, dep, none)'
      BY <1>4, <1>5, <3>2, SupportKept
    <3>4. Supported(a, dep, none \cup Provided(kk))'
      <4>1. Supported(a, dep, Provided(kk))'
        BY <2>1
      <4> QED
        BY <3>1, <4>1 DEF Supported
    <3>5. Supported(a \o kk, dep, none)'
      BY <3>3, <3>4, JoinedAfter
    <3> QED
      BY <3>1, <3>5 DEF Supported
  <2>3. ASSUME NEW q \in Live
        PROVE  Supported(Inner(q), dep, dep[q])' /\ frames'[OwnHandler(q)].needs \subseteq dep[q]
    <3>1. PICK s, B : s = Inner(q) /\ B = dep[q]
      OBVIOUS
    <3>2. ContinuationOK(s) /\ Supported(s, dep, B) /\ frames[OwnHandler(q)].needs \subseteq dep[q]
      BY <1>2, <1>3, <2>1, <3>1 DEF ReliesOn
    <3>3. Supported(s, dep, B)'
      BY <1>4, <3>2, SupportKept
    <3>4. Inner(q)' = s /\ dep[q] = B
      BY <1>1, <1>2, <3>1
    <3>5. Supported(Inner(q), dep, dep[q])'
      BY <3>3, <3>4 DEF Supported
    <3> QED
      BY <1>2, <1>3, <3>2, <3>5
  <2> QED
    BY <1>1, <1>2, <2>2, <2>3 DEF ReliesOn
<1> QED
  BY <1>1, <1>2, <1>6, <1>7, <1>8, <1>9 DEF OrderInv, FramesOf

\* A new handler needs nothing.
LEMMA InstallOrder ==
  ASSUME WellFormed, OrderInv, NEW h \in Handlers, Install(h)
  PROVE  OrderInv'
<1>0. PICK n, f, g, kk : n = Len(frames) + 1 /\ f = Code /\ g = Handle(n) /\ kk = k
  OBVIOUS
<1>1. PICK a, x, y : a = <<f, g>> /\ x = <<f>> /\ y = <<g>>
  OBVIOUS
<1>2. /\ k' = a \o kk /\ UNCHANGED <<lists, captured>>
      /\ Len(frames) \in Nat /\ n \in 1 .. MaxFrames
  BY <1>0, <1>1, BoundsAssumption DEF Install, WellFormed
<1>3. /\ \A o \in 1 .. Len(frames) : frames'[o] = frames[o]
      /\ frames'[n].needs = {}
  <2> DEFINE new == Object(h, 0, {})
  <2>1. new.needs = {} /\ frames' = Append(frames, new) /\ frames \in Seq(FrameObject)
    BY DEF Object, WellFormed, Install
  <2> HIDE DEF new
  <2> QED
    BY <1>0, <2>1
<1>4. PICK S : S = Frame(Len(frames), Len(captured)) \cup {f, g}
  OBVIOUS
<1>5. kk \in Seq(S) /\ f \in S /\ g \in S
  BY <1>0, <1>4, SeqGrows DEF WellFormed, ContinuationOK
<1>6. a \in Seq(S) /\ x \in Seq(S) /\ y \in Seq(S) /\ a = x \o y
  BY <1>1, <1>5, TwoFrames
<1>7. /\ f.kind = "code" /\ f.kind # "clause" /\ g.kind = "handle" /\ g.kind # "clause"
      /\ g.ref = n
  BY <1>0 DEF Code, Handle
<1>8. \A dep : Requires(dep, f)' = {} /\ Requires(dep, g)' = {}
  BY <1>3, <1>7 DEF Requires
<1>9. CleanupNext(a)'
  <2>1. CleanupNext(x)' /\ CleanupNext(y)'
    BY <1>1, <1>7, SingleAfter
  <2> QED
    BY <1>6, <2>1, JoinedAfter
<1>10. \A dep, B : Supported(a, dep, B)'
  <2> SUFFICES ASSUME NEW dep, NEW B PROVE Supported(a, dep, B)'
    OBVIOUS
  <2>1. \A C : Supported(x, dep, C)' /\ Supported(y, dep, C)'
    BY <1>1, <1>8, SingleAfter
  <2>2. Supported(x, dep, B \cup Provided(y))' /\ Supported(y, dep, B)'
    BY <2>1 DEF Supported
  <2> QED
    BY <1>6, <2>2, JoinedAfter
<1>11. \A q \in 1 .. Len(captured) : Handle(OwnHandler(q)) \notin FramesOf(a)
  <2>1. \A q \in 1 .. Len(captured) : OwnHandler(q) # n
    BY <1>0, <1>2, InnerFacts
  <2>2. \A o : Handle(o) # f /\ (Handle(o) = g => o = n)
    BY <1>0 DEF Handle, Code
  <2>3. FramesOf(a) = {f, g}
    BY <1>1, ShortFrames
  <2> QED
    BY <2>1, <2>2, <2>3
<1>12. Live' \subseteq Live
  BY <1>2 DEF Live
<1>13. \A dep : Supported(a, dep, Provided(kk))'
  BY <1>10 DEF Supported
<1> QED
  BY <1>0, <1>2, <1>3, <1>5, <1>6, <1>9, <1>11, <1>12, <1>13, OrderGrown

\* What the continuation says of a handler on it, and of the frames above and below.
LEMMA AtHandler ==
  ASSUME WellFormed, NEW i \in HandlesIn(k), NEW dep, Supported(k, dep, {})
  PROVE  LET o == k[i].ref
             above == SubSeq(k, 1, i - 1)
             below == Below(k, i)
         IN  /\ Supported(below, dep, {})
             /\ frames[o].needs \subseteq Provided(below)
             /\ Supported(above, dep, CleanupsOf(o) \cup Provided(below))
<1>1. PICK o, n, above, below, f, one :
        /\ o = k[i].ref /\ n = i - 1 /\ above = SubSeq(k, 1, n) /\ below = Below(k, i)
        /\ f = k[i] /\ one = <<f>>
  OBVIOUS
<1>2. PICK S : S = Frame(Len(frames), Len(captured))
  OBVIOUS
<1>3. i \in 1 .. Len(k) /\ k \in Seq(S) /\ f.kind = "handle" /\ f.ref = o /\ f \in S
  BY <1>1, <1>2 DEF WellFormed, ContinuationOK, HandlesIn
<1>4. above \in Seq(S) /\ below \in Seq(S) /\ one \in Seq(S)
  <2>1. n \in 0 .. Len(k)
    BY <1>1, <1>3
  <2>2. one \in Seq(S)
    BY <1>1, <1>3
  <2> QED
    BY <1>1, <1>3, <2>1, <2>2, Parts
<1>5. PICK d : d = one \o below
  OBVIOUS
<1>6. d \in Seq(S) /\ k = above \o d /\ Provided(d) = CleanupsOf(o) \cup Provided(below)
  <2>1. k = above \o (one \o below)
    BY <1>1, <1>3, SplitAt
  <2>2. Provided(one) = CleanupsOf(o)
    BY <1>1, <1>3, SupportedSingle
  <2> QED
    BY <1>4, <1>5, <2>1, <2>2, Joined, ProvidedJoined
<1>7. Supported(above, dep, {} \cup Provided(d)) /\ Supported(d, dep, {})
  BY <1>4, <1>6, SupportedJoined
<1>8. Supported(one, dep, {} \cup Provided(below)) /\ Supported(below, dep, {})
  BY <1>4, <1>5, <1>7, SupportedJoined
<1>9. Requires(dep, f) \subseteq {} \cup Provided(below)
  BY <1>1, <1>8, SupportedSingle
<1>10. Requires(dep, f) = frames[o].needs
  BY <1>3 DEF Requires
<1>11. {} \cup Provided(d) = CleanupsOf(o) \cup Provided(below)
  BY <1>6
<1> QED
  BY <1>1, <1>7, <1>8, <1>9, <1>10, <1>11

\* The handler that caught the effect is gone from the continuation.
LEMMA OwnGone ==
  ASSUME WellFormed, Once(k), NEW i \in HandlesIn(k)
  PROVE  Handle(k[i].ref) \notin FramesOf(Below(k, i))
<1>1. PICK o, below : o = k[i].ref /\ below = Below(k, i)
  OBVIOUS
<1>2. i \in 1 .. Len(k) /\ k \in Seq(Frame(Len(frames), Len(captured))) /\ k[i].kind = "handle"
  BY DEF WellFormed, ContinuationOK, HandlesIn
<1>3. Held(<<k[i]>>) = {o}
  BY <1>1, <1>2, HeldSingle
<1>4. o \notin Held(below)
  BY <1>1, <1>2, <1>3, HeldSplit
<1>5. ASSUME Handle(o) \in FramesOf(below) PROVE FALSE
  <2>1. PICK j \in 1 .. Len(below) : below[j] = Handle(o)
    BY <1>5 DEF FramesOf
  <2>2. j \in Tokens(below) /\ below[j].ref = o
    BY <2>1 DEF Tokens, Handle
  <2> QED
    BY <1>4, <2>2 DEF Held
<1> QED
  BY <1>1, <1>5

\* The effect is caught: the code that performed relies on what is below it and on
\* what the handler holds.
LEMMA DispatchOrder ==
  ASSUME WellFormed, Once(k), OrderInv, NEW i \in HandlesIn(k), Dispatch(k, i)
  PROVE  OrderInv'
<1>0. PICK n, above, below, o : /\ n = Len(captured) + 1 /\ above = SubSeq(k, 1, i - 1)
                                /\ below = Below(k, i) /\ o = k[i].ref
  OBVIOUS
<1>1. PICK rest, f, g : rest = LeaveCleanup(o, below) /\ f = Code /\ g = Clause(n)
  OBVIOUS
<1>2. /\ i \in 1 .. Len(k) /\ k \in Seq(Frame(Len(frames), Len(captured)))
      /\ k[i].kind = "handle" /\ o \in 1 .. Len(frames) /\ CleanupNext(k)
  BY <1>0, FrameOn DEF WellFormed, ContinuationOK, HandlesIn, OrderInv
<1>3. k' = <<f, g>> \o rest /\ frames' = frames /\ lists' = lists
  BY <1>0, <1>1 DEF Dispatch, ClauseContinuation, Store
<1>4. ContinuationOK(above) /\ ContinuationOK(below)
  <2>1. PICK m : m = i - 1 /\ m \in 0 .. Len(k)
    BY <1>2
  <2>2. SubSeq(k, 1, m) \in Seq(Frame(Len(frames), Len(captured)))
    BY <1>2, <2>1, Parts
  <2> QED
    BY <1>0, <1>2, <2>1, <2>2, Parts DEF ContinuationOK
<1>5. /\ n \notin 1 .. Len(captured) /\ Len(captured') = n /\ Len(captured) \in Nat
      /\ \A r \in 1 .. Len(captured) : captured'[r] = captured[r]
      /\ ~captured'[n].used /\ captured'[n].performK = SubSeq(k, 1, i) /\ Inner(n)' = above
  BY <1>0, DispatchFacts DEF WellFormed
<1>6. OwnHandler(n)' = o
  <2>1. PICK p : p = SubSeq(k, 1, i)
    OBVIOUS
  <2>2. Len(p) = i /\ p[i] = k[i]
    BY <1>2, <2>1, Parts
  <2> QED
    BY <1>0, <1>5, <2>1, <2>2 DEF OwnHandler
<1>7. \A r \in 1 .. Len(captured) : /\ Inner(r)' = Inner(r) /\ OwnHandler(r)' = OwnHandler(r)
                                    /\ captured'[r].performK = captured[r].performK
                                    /\ ContinuationOK(Inner(r)) /\ OwnHandler(r) \in 1 .. Len(frames)
  BY <1>5, InnerFacts DEF Inner, OwnHandler
<1>8. \A r \in 1 .. n : r \in 1 .. Len(captured) \/ r = n
  BY <1>0, <1>5
<1>9. Live' \subseteq Live \cup {n} /\ Live \subseteq 1 .. Len(captured)
  BY <1>5, <1>8 DEF Live
<1>10. /\ \A p \in 1 .. Len(frames) : /\ frames'[p].needs = frames[p].needs
                                      /\ CleanupsOf(p) \subseteq CleanupsOf(p)'
       /\ \A r \in 1 .. Len(captured) :
            /\ captured'[r].performK = captured[r].performK
            /\ frames[OwnHandler(r)].list = 0 => frames'[OwnHandler(r)].list = 0
  BY <1>3, <1>7, SameCleanupsOf
<1>11. ContinuationOK(rest) /\ FramesOf(rest) \subseteq {Cleanup(o)} \cup FramesOf(below)
  BY <1>1, <1>2, <1>4, LeftFacts
<1>12. PICK S : S = Frame(Len(frames), Len(captured)) \cup {f, g}
  OBVIOUS
<1>13. rest \in Seq(S) /\ f \in S /\ g \in S
  BY <1>11, <1>12, SeqGrows DEF ContinuationOK
<1>14. PICK a, b, two : a = <<f>> /\ b = <<g>> /\ two = <<f, g>>
  OBVIOUS
<1>15. a \in Seq(S) /\ b \in Seq(S) /\ two \in Seq(S) /\ two = a \o b
  BY <1>13, <1>14, TwoFrames
<1>16. /\ f.kind = "code" /\ f.kind # "clause" /\ f.kind # "handle"
       /\ g.kind = "clause" /\ g.kind # "handle" /\ g.ref = n
  BY <1>1 DEF Code, Clause
<1>17. CleanupNext(above) /\ CleanupNext(below) /\ CleanupNext(rest)
  <2>1. CleanupNext(above)
    BY <1>0, <1>2, NextAbove
  <2>2. CleanupNext(below)
    BY <1>0, <1>2, DroppedShape
  <2>3. CleanupNext(rest)
    BY <1>1, <1>2, <1>4, <2>2, LeftOrder
  <2> QED
    BY <2>1, <2>2, <2>3
<1>18. CleanupNext(k)'
  <2>1. CleanupNext(rest)'
    BY <1>10, <1>11, <1>17, NextKept
  <2>2. PICK t : t = b \o rest
    OBVIOUS
  <2>3. /\ t \in Seq(S) /\ Len(t) = 1 + Len(rest) /\ t[1] = g /\ Len(rest) \in Nat
        /\ \A j \in 1 .. Len(rest) : t[1 + j] = rest[j]
    <3>1. Len(b) = 1 /\ b[1] = g
      BY <1>14
    <3>2. /\ t \in Seq(S) /\ Len(t) = Len(b) + Len(rest)
          /\ \A j \in 1 .. Len(b) : t[j] = b[j]
          /\ \A j \in 1 .. Len(rest) : t[Len(b) + j] = rest[j]
      BY <1>13, <1>15, <2>2, Joined
    <3>3. Len(rest) \in Nat
      BY <1>13
    <3> QED
      BY <3>1, <3>2, <3>3
  <2>4. CleanupNext(t)'
    <3> SUFFICES ASSUME NEW j \in 1 .. Len(t), t[j].kind = "clause"
                 PROVE  \/ frames'[OwnHandler(t[j].ref)'].list = 0
                        \/ j < Len(t) /\ t[j + 1] = Cleanup(OwnHandler(t[j].ref)')
      BY DEF CleanupNext
    <3>1. CASE j = 1
      <4>1. OwnHandler(t[j].ref)' = o
        BY <1>6, <1>16, <2>3, <3>1 DEF OwnHandler
      <4>2. CASE frames[o].list = 0
        BY <1>3, <4>1, <4>2
      <4>3. CASE frames[o].list # 0
        <5>1. CleanupsOf(o) # {}
          BY <1>2, <4>3, ArrayFacts
        <5>2. rest # <<>> /\ rest[1] = Cleanup(o)
          BY <1>1, <1>2, <1>4, <5>1, LeftOrder
        <5>3. 1 \in 1 .. Len(rest)
          BY <1>11, <5>2 DEF ContinuationOK
        <5> QED
          BY <2>3, <3>1, <4>1, <5>2, <5>3
      <4> QED
        BY <4>2, <4>3
    <3>2. CASE j # 1
      <4>1. PICK m : m = j - 1
        OBVIOUS
      <4>2. m \in 1 .. Len(rest) /\ j = 1 + m /\ (m < Len(rest) => m + 1 \in 1 .. Len(rest))
        BY <2>3, <3>2, <4>1
      <4>3. t[j] = rest[m] /\ (m < Len(rest) => t[j + 1] = rest[m + 1] /\ j < Len(t))
        BY <2>3, <4>2
      <4>4. PICK q : q = rest[m].ref
        OBVIOUS
      <4>5. \/ frames'[OwnHandler(q)'].list = 0
            \/ m < Len(rest) /\ rest[m + 1] = Cleanup(OwnHandler(q)')
        BY <2>1, <4>2, <4>3, <4>4 DEF CleanupNext
      <4>6. OwnHandler(t[j].ref)' = OwnHandler(q)'
        BY <4>3, <4>4 DEF OwnHandler
      <4> QED
        BY <4>3, <4>5, <4>6
    <3> QED
      BY <3>1, <3>2
  <2>5. CleanupNext(a)'
    BY <1>14, <1>16, SingleAfter
  <2>6. CleanupNext(a \o t)'
    BY <1>15, <2>3, <2>4, <2>5, JoinedAfter
  <2>7. k' = a \o t
    <3>1. two \o rest = a \o (b \o rest)
      BY <1>13, <1>15
    <3> QED
      BY <1>3, <1>14, <2>2, <3>1
  <2> QED
    BY <2>6, <2>7 DEF CleanupNext
<1>19. \A r \in Live' : CleanupNext(Inner(r))'
  <2> SUFFICES ASSUME NEW r \in Live' PROVE CleanupNext(Inner(r))'
    OBVIOUS
  <2>1. PICK s : s = Inner(r)'
    OBVIOUS
  <2>2. ContinuationOK(s) /\ CleanupNext(s)
    <3>1. CASE r = n
      BY <1>4, <1>5, <1>17, <2>1, <3>1
    <3>2. CASE r \in Live
      BY <1>7, <1>9, <2>1, <3>2 DEF OrderInv
    <3> QED
      BY <1>9, <3>1, <3>2
  <2>3. CleanupNext(s)'
    BY <1>10, <2>2, NextKept
  <2> QED
    BY <2>1, <2>3 DEF CleanupNext
<1>20. \A r \in 1 .. n : Handle(OwnHandler(r)') \notin FramesOf(k')
  <2>1. f \notin HandleFrames /\ g \notin HandleFrames
    BY <1>1, SubKinds
  <2>2. FramesOf(k') = {f, g} \cup FramesOf(rest)
    BY <1>3, <1>13, <2>1, TwoInFront
  <2>3. \A x : Handle(x) # f /\ Handle(x) # g /\ Handle(x) # Cleanup(o)
    BY <1>1 DEF Handle, Code, Clause, Cleanup
  <2>4. FramesOf(below) \subseteq FramesOf(k) /\ Handle(o) \notin FramesOf(below)
    BY <1>0, <1>2, FramesOfPart, OwnGone
  <2>5. \A r \in 1 .. Len(captured) : Handle(OwnHandler(r)') \notin FramesOf(below)
    BY <1>7, <2>4 DEF OrderInv
  <2> QED
    BY <1>6, <1>8, <1>11, <2>2, <2>3, <2>4, <2>5
<1>21. \E dep2 : ReliesOn(dep2)'
  <2>1. PICK dep : ReliesOn(dep)
    BY DEF OrderInv
  <2>2. PICK D, none : D = CleanupsOf(o) \cup Provided(below) /\ none = {}
    OBVIOUS
  <2>3. Supported(below, dep, none) /\ Supported(above, dep, D) /\ frames[o].needs \subseteq D
    BY <1>0, <2>1, <2>2, AtHandler DEF ReliesOn
  <2>4. PICK dep2 : dep2 = [q \in 1 .. n |-> IF q = n THEN D ELSE dep[q]]
    OBVIOUS
  <2>5. dep2[n] = D /\ \A q \in 1 .. Len(captured) : dep2[q] = dep[q]
    BY <1>0, <1>5, <2>4
  <2>6. Supported(rest, dep, none) /\ Provided(rest) = D
    BY <1>1, <1>2, <1>4, <2>2, <2>3, LeftOrder
  <2>7. Supported(rest, dep2, none)' /\ D \subseteq Provided(rest)'
    BY <1>10, <1>11, <2>5, <2>6, SupportKept, ProvidedKept
  <2>8. Supported(two \o rest, dep2, none)'
    <3>1. Requires(dep2, f)' = {} /\ Requires(dep2, g)' = D
      BY <1>16, <2>5 DEF Requires
    <3>2. \A B : Supported(a, dep2, B)'
      BY <1>14, <3>1, SingleAfter
    <3>3. \A B : D \subseteq B => Supported(b, dep2, B)'
      BY <1>14, <3>1, SingleAfter
    <3>4. PICK P : P = none \cup Provided(rest)'
      OBVIOUS
    <3>5. Supported(b, dep2, P)'
      BY <2>7, <3>3, <3>4
    <3>6. Supported(a, dep2, P \cup Provided(b))'
      <4>1. PICK Q : Q = P \cup Provided(b)'
        OBVIOUS
      <4>2. Supported(a, dep2, Q)'
        BY <3>2
      <4> QED
        BY <4>1, <4>2 DEF Supported
    <3>7. Supported(two, dep2, P)'
      BY <1>15, <3>5, <3>6, JoinedAfter
    <3>8. Supported(two, dep2, none \cup Provided(rest))'
      BY <3>4, <3>7 DEF Supported
    <3> QED
      BY <1>13, <1>15, <2>7, <3>8, JoinedAfter
  <2>9. Supported(k, dep2, {})'
    BY <1>3, <1>14, <2>2, <2>8 DEF Supported
  <2>10. ASSUME NEW r \in Live'
         PROVE  Supported(Inner(r), dep2, dep2[r])' /\ frames[OwnHandler(r)'].needs \subseteq dep2[r]
    <3>1. PICK s, B : s = Inner(r)' /\ B = dep2[r]
      OBVIOUS
    <3>2. ContinuationOK(s) /\ Supported(s, dep, B) /\ frames[OwnHandler(r)'].needs \subseteq B
      <4>1. CASE r = n
        BY <1>4, <1>5, <1>6, <2>3, <2>5, <3>1, <4>1
      <4>2. CASE r \in Live
        BY <1>7, <1>9, <2>1, <2>5, <3>1, <4>2 DEF ReliesOn
      <4> QED
        BY <1>9, <4>1, <4>2
    <3>3. Supported(s, dep2, B)'
      BY <1>10, <2>5, <3>2, SupportKept
    <3> QED
      BY <3>1, <3>2, <3>3 DEF Supported
  <2> QED
    BY <1>3, <2>9, <2>10 DEF ReliesOn
<1> QED
  BY <1>5, <1>18, <1>19, <1>20, <1>21 DEF OrderInv, FramesOf

\* A resume function is called in its own clause: what it relies on, and what its
\* handler held, is below the clause.
LEMMA InOwnClause ==
  ASSUME WellFormed, OrderInv, NEW r \in 1 .. Len(captured), Len(k) >= 2, k[2] = Clause(r),
         NEW dep, ReliesOn(dep)
  PROVE  dep[r] \subseteq Provided(k) /\ CleanupsOf(OwnHandler(r)) \subseteq Provided(k)
<1>1. k[2].kind = "clause" /\ k[2].ref = r /\ 2 \in 1 .. Len(k) /\ Len(k) \in Nat
  BY DEF Clause, WellFormed, ContinuationOK
<1>2. dep[r] \subseteq Provided(k)
  <2> SUFFICES ASSUME NEW c \in dep[r] PROVE c \in Provided(k)
    OBVIOUS
  <2>1. Supported(k, dep, {}) /\ c \in Requires(dep, k[2])
    BY <1>1 DEF ReliesOn, Requires
  <2>2. \E j \in Tokens(k) : c \in CleanupsOf(k[j].ref)
    BY <1>1, <2>1 DEF Supported
  <2> QED
    BY <2>2, ProvidedByToken
<1>3. CleanupsOf(OwnHandler(r)) \subseteq Provided(k)
  <2>1. PICK w : w = OwnHandler(r)
    OBVIOUS
  <2>2. frames[w].list = 0 \/ (2 < Len(k) /\ k[3] = Cleanup(w))
    BY <1>1, <2>1 DEF OrderInv, CleanupNext
  <2>3. CASE frames[w].list = 0
    BY <2>1, <2>3 DEF CleanupsOf
  <2>4. CASE 2 < Len(k) /\ k[3] = Cleanup(w)
    <3>1. 3 \in Tokens(k) /\ k[3].ref = w
      BY <1>1, <2>4 DEF Tokens, Cleanup
    <3> QED
      BY <2>1, <3>1, ProvidedByToken
  <2> QED
    BY <2>2, <2>3, <2>4
<1> QED
  BY <1>2, <1>3

\* The copies need and hold what the captured handlers needed and held.
LEMMA RenewedSupport ==
  ASSUME WellFormed, NEW r \in 1 .. Len(captured), CallResume(r), NEW dep, NEW B, NEW B2,
         B \subseteq B2, Supported(Inner(r), dep, B), NEW t, t = Renewed(r)
  PROVE  Supported(t, dep, B2)'
<1>1. PICK s, H, N : s = Inner(r) /\ H = HandlesIn(s) /\ N = Len(frames)
  OBVIOUS
<1>2. /\ Tokens(t) = Tokens(s) /\ H \subseteq Tokens(s) /\ ContinuationOK(s) /\ Len(t) = Len(s)
      /\ \A i \in 1 .. Len(s) : /\ i \in H => t[i] = Handle(N + CopyOf(r, i))
                                /\ i \notin H => t[i] = s[i]
  BY <1>1, RenewedTokens, InnerFacts, RenewedFacts
<1>3. lists' = lists /\ \A o \in 1 .. N : frames'[o] = frames[o]
  BY <1>1, ResumeFacts DEF CallResume
<1>4. \A i \in H : /\ i \in 1 .. Len(s) /\ s[i].kind = "handle"
                   /\ frames'[N + CopyOf(r, i)] = frames[s[i].ref]
  <2> SUFFICES ASSUME NEW i \in H
               PROVE  /\ i \in 1 .. Len(s) /\ s[i].kind = "handle"
                      /\ frames'[N + CopyOf(r, i)] = frames[s[i].ref]
    OBVIOUS
  <2>1. CopyOf(r, i) \in 1 .. Copies(r) /\ Copied(r)[CopyOf(r, i)] = frames[s[i].ref]
    BY <1>1, CopyFacts DEF Copies
  <2>2. frames'[N + CopyOf(r, i)] = Copied(r)[CopyOf(r, i)]
    BY <1>1, <2>1, ResumeFacts
  <2> QED
    BY <1>1, <1>2, <2>1, <2>2 DEF HandlesIn, Tokens
<1>5. \A x : Handle(x).kind = "handle" /\ Handle(x).ref = x
  BY DEF Handle
<1>6. ASSUME NEW i \in 1 .. Len(s) PROVE Requires(dep, t[i])' = Requires(dep, s[i])
  <2>1. CASE i \in H
    <3>1. t[i].kind = "handle" /\ t[i].ref = N + CopyOf(r, i)
      BY <1>2, <1>5, <2>1
    <3> QED
      BY <1>4, <2>1, <3>1 DEF Requires
  <2>2. CASE i \notin H
    <3>1. t[i] = s[i] /\ s[i].kind # "handle"
      BY <1>1, <1>2, <2>2 DEF HandlesIn, ContinuationOK
    <3> QED
      BY <3>1 DEF Requires
  <2> QED
    BY <2>1, <2>2
<1>7. ASSUME NEW j \in Tokens(s) PROVE CleanupsOf(t[j].ref)' = CleanupsOf(s[j].ref)
  <2>0. j \in 1 .. Len(s) /\ s[j].ref \in 1 .. N
    BY <1>1, <1>2, FrameOn DEF Tokens
  <2>1. CASE j \in H
    <3>1. t[j].ref = N + CopyOf(r, j) /\ frames'[t[j].ref].list = frames[s[j].ref].list
      BY <1>2, <1>4, <1>5, <2>0, <2>1
    <3> QED
      BY <1>3, <3>1, ListsGiveCleanups
  <2>2. CASE j \notin H
    <3>1. frames'[t[j].ref].list = frames[s[j].ref].list
      BY <1>2, <1>3, <2>0, <2>2
    <3> QED
      BY <1>3, <3>1, ListsGiveCleanups
  <2> QED
    BY <2>1, <2>2
<1>8. ASSUME NEW i \in 1 .. Len(t), NEW c \in Requires(dep, t[i])'
      PROVE  c \in B2 \/ \E j \in Tokens(t) : i < j /\ c \in CleanupsOf(t[j].ref)'
  <2>1. i \in 1 .. Len(s) /\ c \in Requires(dep, s[i])
    BY <1>2, <1>6, <1>8
  <2>2. c \in B \/ \E j \in Tokens(s) : i < j /\ c \in CleanupsOf(s[j].ref)
    BY <1>1, <2>1 DEF Supported
  <2> QED
    BY <1>2, <1>7, <2>2
<1> QED
  BY <1>8 DEF Supported

\* Captured clauses and cleanups are put back as they are.
LEMMA RenewedNext ==
  ASSUME WellFormed, NEW r \in 1 .. Len(captured), CallResume(r), CleanupNext(Inner(r)),
         NEW t, t = Renewed(r)
  PROVE  CleanupNext(t)'
<1>1. PICK s, H : s = Inner(r) /\ H = HandlesIn(s)
  OBVIOUS
<1>2. /\ ContinuationOK(s) /\ Len(t) = Len(s) /\ CleanupNext(s)
      /\ \A i \in 1 .. Len(s) : /\ i \in H => t[i] = Handle(Len(frames) + CopyOf(r, i))
                                /\ i \notin H => t[i] = s[i]
  BY <1>1, InnerFacts, RenewedFacts
<1>3. \A q \in 1 .. Len(captured) : OwnHandler(q)' = OwnHandler(q) /\ OwnHandler(q) \in 1 .. Len(frames)
  BY ResumedCaptured, InnerFacts DEF OwnHandler
<1>4. \A o \in 1 .. Len(frames) : frames'[o] = frames[o]
  BY ResumeFacts
<1> SUFFICES ASSUME NEW i \in 1 .. Len(t), t[i].kind = "clause"
             PROVE  \/ frames'[OwnHandler(t[i].ref)'].list = 0
                    \/ i < Len(t) /\ t[i + 1] = Cleanup(OwnHandler(t[i].ref)')
  BY DEF CleanupNext
<1>5. t[i] = s[i] /\ i \in 1 .. Len(s)
  <2>1. i \in 1 .. Len(s)
    BY <1>2
  <2>2. i \notin H
    <3>1. \A x : Handle(x).kind = "handle"
      BY DEF Handle
    <3> QED
      BY <1>2, <2>1, <3>1
  <2> QED
    BY <1>2, <2>1, <2>2
<1>6. PICK q : q = s[i].ref
  OBVIOUS
<1>7. q \in 1 .. Len(captured)
  BY <1>2, <1>5, <1>6, FrameOn
<1>8. OwnHandler(t[i].ref)' = OwnHandler(q)
  BY <1>3, <1>5, <1>6, <1>7 DEF OwnHandler
<1>9. frames[OwnHandler(q)].list = 0 \/ (i < Len(s) /\ s[i + 1] = Cleanup(OwnHandler(q)))
  BY <1>2, <1>5, <1>6 DEF CleanupNext
<1>10. CASE frames[OwnHandler(q)].list = 0
  BY <1>3, <1>4, <1>7, <1>8, <1>10
<1>11. CASE i < Len(s) /\ s[i + 1] = Cleanup(OwnHandler(q))
  <2>1. i + 1 \in 1 .. Len(s) /\ s[i + 1].kind = "cleanup"
    BY <1>2, <1>5, <1>11 DEF ContinuationOK, Cleanup
  <2>2. i + 1 \notin H
    BY <1>1, <2>1 DEF HandlesIn
  <2> QED
    BY <1>2, <1>8, <1>11, <2>1, <2>2
<1> QED
  BY <1>9, <1>10, <1>11

LEMMA ResumeOrder ==
  ASSUME OneShot, ~Escapes, WellFormed, OrderInv, NEW r \in 1 .. Len(captured), CallResume(r)
  PROVE  OrderInv'
<1>1. PICK kk, s, t, b, a : /\ kk = k /\ s = Inner(r) /\ t = Renewed(r) /\ b = Around(r)
                            /\ a = t \o b
  OBVIOUS
<1>2. /\ r \in Live /\ Len(k) >= 2 /\ k[2] = Clause(r)
      /\ k' = a \o kk /\ lists' = lists
  BY <1>1 DEF CallResume, Callable, Live
<1>3. PICK S : t \in Seq(S) /\ b \in Seq(S) /\ kk \in Seq(S)
  BY <1>1, ResumedFrames
<1>4. a \in Seq(S)
  BY <1>1, <1>3, Joined
<1>5. /\ Len(captured') = Len(captured)
      /\ \A q \in 1 .. Len(captured) : captured'[q].performK = captured[q].performK
      /\ Live' \subseteq Live
  <2>1. /\ Len(captured') = Len(captured) /\ captured'[r].used
        /\ \A q \in 1 .. Len(captured) : /\ captured'[q].performK = captured[q].performK
                                         /\ q # r => captured'[q].used = captured[q].used
    BY ResumedCaptured
  <2> QED
    BY <2>1 DEF Live
<1>6. /\ \A o \in 1 .. Len(frames) : frames'[o] = frames[o]
      /\ Len(frames) \in Nat /\ Copies(r) \in Nat
  BY ResumeFacts DEF WellFormed
<1>7. PICK x, h : x = Len(frames) + Copies(r) + 1 /\ h = Handle(x)
  OBVIOUS
<1>8. b = <<>> \/ (b = <<h>> /\ frames'[x].needs = frames[OwnHandler(r)].needs \cup CleanupsOf(OwnHandler(r)))
  <2>1. CASE b = <<>>
    BY <2>1
  <2>2. CASE b # <<>>
    <3>1. b = <<h>>
      BY <1>1, <1>7, <2>2 DEF Around, Copies
    <3>2. Len(frames') = x
      BY <1>1, <1>7, <2>2, ResumeFacts
    <3>3. x \in 1 .. Len(frames') /\ x > Len(frames) + Copies(r)
      BY <1>6, <1>7, <3>2
    <3>4. frames'[x] = NewHandler(OwnHandler(r))
      BY <3>3, ResumeFacts
    <3> QED
      BY <3>1, <3>4 DEF NewHandler, Object
  <2> QED
    BY <2>1, <2>2
<1>9. h.kind = "handle" /\ h.kind # "clause" /\ h.ref = x
  BY <1>7 DEF Handle
<1>10. CleanupNext(a)'
  <2>1. CleanupNext(t)'
    BY <1>1, <1>2, RenewedNext DEF OrderInv
  <2>2. CleanupNext(b)'
    BY <1>8, <1>9, SingleAfter
  <2> QED
    BY <1>1, <1>3, <2>1, <2>2, JoinedAfter
<1>11. ASSUME NEW dep, ReliesOn(dep)
       PROVE  Supported(a, dep, Provided(kk))'
  <2>1. PICK P : P = Provided(kk)
    OBVIOUS
  <2>2. dep[r] \subseteq P /\ CleanupsOf(OwnHandler(r)) \subseteq P
    BY <1>1, <1>2, <1>11, <2>1, InOwnClause
  <2>3. frames[OwnHandler(r)].needs \subseteq P /\ Supported(s, dep, dep[r])
    BY <1>1, <1>2, <1>11, <2>2 DEF ReliesOn
  <2>4. P \subseteq Provided(kk)'
    <3>1. ContinuationOK(kk)
      BY <1>1 DEF WellFormed
    <3>2. \A o \in 1 .. Len(frames) : CleanupsOf(o)' = CleanupsOf(o)
      BY <1>2, <1>6, SameCleanupsOf
    <3> QED
      BY <2>1, <3>1, <3>2, ProvidedKept
  <2>5. PICK P2, Q2 : P2 = Provided(kk)' /\ Q2 = P2 \cup Provided(b)'
    OBVIOUS
  <2>6. Supported(b, dep, P2)'
    <3>1. CASE b = <<>>
      BY <3>1, SingleAfter
    <3>2. CASE b # <<>>
      <4>1. Requires(dep, h)' \subseteq P2
        BY <1>8, <1>9, <2>2, <2>3, <2>4, <2>5, <3>2 DEF Requires
      <4>2. b = <<h>>
        BY <1>8, <3>2
      <4> QED
        BY <4>1, <4>2, SingleAfter
    <3> QED
      BY <3>1, <3>2
  <2>7. Supported(t, dep, Q2)'
    <3>1. dep[r] \subseteq Q2
      BY <2>2, <2>4, <2>5
    <3>2. PICK B : B = dep[r]
      OBVIOUS
    <3> QED
      BY <1>1, <2>3, <3>1, <3>2, RenewedSupport
  <2> QED
    BY <1>1, <1>3, <2>5, <2>6, <2>7, JoinedAfter
<1>12. \A q \in 1 .. Len(captured) : Handle(OwnHandler(q)) \notin FramesOf(a)
  <2> SUFFICES ASSUME NEW q \in 1 .. Len(captured), Handle(OwnHandler(q)) \in FramesOf(a)
               PROVE  FALSE
    OBVIOUS
  <2>1. PICK w : w = OwnHandler(q) /\ w \in 1 .. Len(frames)
    BY InnerFacts
  <2>2. FramesOf(a) = FramesOf(t) \cup FramesOf(b)
    BY <1>1, <1>3, FramesJoined
  <2>3. Handle(w) \notin FramesOf(b)
    <3>1. FramesOf(<<>>) = {} /\ FramesOf(<<h>>) = {h}
      BY DEF FramesOf
    <3>2. Handle(w) # h
      BY <1>6, <1>7, <1>9, <2>1 DEF Handle
    <3> QED
      BY <1>8, <3>1, <3>2
  <2>4. PICK i \in 1 .. Len(t) : t[i] = Handle(w)
    BY <2>1, <2>2, <2>3 DEF FramesOf
  <2>5. i \in 1 .. Len(s) /\ ContinuationOK(s) /\ Handle(w).kind = "handle"
    BY <1>1, <2>4, RenewedFacts, InnerFacts DEF Handle
  <2>6. CASE i \in HandlesIn(s)
    <3>1. t[i] = Handle(Len(frames) + CopyOf(r, i)) /\ CopyOf(r, i) \in 1 .. Copies(r)
      BY <1>1, <2>5, <2>6, RenewedFacts, CopyFacts DEF Copies
    <3>2. w = Len(frames) + CopyOf(r, i)
      BY <2>4, <3>1 DEF Handle
    <3> QED
      BY <1>6, <2>1, <3>1, <3>2
  <2>7. CASE i \notin HandlesIn(s)
    <3>1. s[i].kind = "handle"
      BY <1>1, <2>4, <2>5, <2>7, RenewedFacts
    <3> QED
      BY <2>5, <2>7, <3>1 DEF HandlesIn, ContinuationOK
  <2> QED
    BY <2>6, <2>7
<1> QED
  BY <1>1, <1>2, <1>3, <1>4, <1>5, <1>6, <1>10, <1>11, <1>12, OrderGrown

LEMMA RaiseOrder ==
  ASSUME WellFormed, TokenInv, OrderInv, Raise(k)
  PROVE  OrderInv'
<1>1. CASE Catchers(k, "error") # {} /\ Dispatch(k, First(Catchers(k, "error")))
  BY <1>1, CatcherFacts, DispatchOrder DEF TokenInv, HeldOnce
<1>2. CASE End("error")
  BY <1>2, SameOrder DEF End
<1> QED
  BY <1>1, <1>2 DEF Raise

LEMMA InitOrder == Init => OrderInv
<1> SUFFICES ASSUME Init PROVE OrderInv
  OBVIOUS
<1>1. k = <<Code>> /\ Len(captured) = 0 /\ Code.kind = "code" /\ Code.kind # "clause"
  BY DEF Init, Code
<1>2. Live = {}
  BY <1>1 DEF Live
<1>3. PICK dep : dep = <<>>
  OBVIOUS
<1>4. Requires(dep, Code) = {}
  BY <1>1 DEF Requires
<1>5. PICK f : f = Code
  OBVIOUS
<1>6. Supported(<<f>>, dep, {}) /\ CleanupNext(<<f>>)
  BY <1>1, <1>4, <1>5, SupportedSingle, NextSingle
<1>7. ReliesOn(dep)
  BY <1>1, <1>2, <1>5, <1>6 DEF ReliesOn
<1> QED
  BY <1>1, <1>2, <1>5, <1>6, <1>7 DEF OrderInv

LEMMA NextOrder ==
  ASSUME OneShot, ~Escapes, WellFormed, TokenInv, OrderInv, [Next]_vars
  PROVE  OrderInv'
<1>1. CASE Perform
  BY <1>1, CatcherFacts, DispatchOrder DEF Perform, TokenInv, HeldOnce
<1>2. CASE Throw
  BY <1>2, RaiseOrder DEF Throw
<1>3. CASE ErrorStep
  BY <1>3, RaiseOrder DEF ErrorStep
<1>4. CASE Return
  BY <1>4, ReturnOrder
<1>5. CASE RegisterCleanup
  BY <1>5, RegisterOrder
<1>6. CASE Suspend
  <2>1. CASE UNCHANGED <<k, control, Heap>>
    BY <2>1, SameOrder DEF Heap
  <2>2. CASE Raise(k)
    BY <2>2, RaiseOrder
  <2> QED
    BY <1>6, <2>1, <2>2 DEF Suspend
<1>7. CASE Halt
  BY <1>7, SameOrder DEF Halt, End
<1>8. CASE \E h \in Handlers : Install(h)
  BY <1>8, InstallOrder
<1>9. ASSUME NEW r \in DOMAIN captured, CallResume(r) \/ RefuseResume(r)
      PROVE  OrderInv'
  <2>1. r \in 1 .. Len(captured)
    BY <1>9 DEF WellFormed
  <2>2. CASE CallResume(r)
    BY <2>1, <2>2, ResumeOrder
  <2>3. CASE RefuseResume(r)
    BY <2>3, RaiseOrder DEF RefuseResume
  <2> QED
    BY <1>9, <2>2, <2>3
<1>10. CASE CodeContinues
  BY <1>10, SameOrder DEF CodeContinues, Heap
<1>11. CASE HandleCompletes
  BY <1>11, HandleOrder
<1>12. CASE TransformCompletes
  BY <1>12, TransformOrder
<1>13. CASE ClauseCompletes
  BY <1>13, ClauseOrder
<1>14. CASE CleanupFires
  BY <1>14, CleanupOrder
<1>15. CASE ProgramCompletes
  BY <1>15, SameOrder DEF ProgramCompletes, End
<1>16. CASE UNCHANGED vars
  BY <1>16, SameOrder DEF vars
<1> QED
  BY <1>1, <1>2, <1>3, <1>4, <1>5, <1>6, <1>7, <1>8, <1>9, <1>10, <1>11, <1>12, <1>13, <1>14,
     <1>15, <1>16 DEF Next, Terminated

\* What a handler on the continuation may rely on is held by a frame on it.
LEMMA NothingReleased ==
  ASSUME WellFormed, TokenInv, OrderInv
  PROVE  NoUseAfterCleanup
<1> SUFFICES ASSUME NEW i \in HandlesIn(k), NEW c \in frames[k[i].ref].needs \cup CleanupsOf(k[i].ref)
             PROVE  fired[c] = 0
  BY DEF NoUseAfterCleanup
<1>1. i \in 1 .. Len(k) /\ k[i].kind = "handle"
  BY DEF WellFormed, ContinuationOK, HandlesIn
<1>2. \A j \in Tokens(k) : k[j].ref \in Held(k)
  BY DEF Held
<1>3. CASE c \in CleanupsOf(k[i].ref)
  <2>1. i \in Tokens(k)
    BY <1>1 DEF Tokens
  <2> QED
    BY <1>2, <1>3, <2>1 DEF TokenInv, HeldUnfired
<1>4. CASE c \in frames[k[i].ref].needs
  <2>1. PICK dep : Supported(k, dep, {})
    BY DEF OrderInv, ReliesOn
  <2>2. c \in Requires(dep, k[i])
    BY <1>1, <1>4 DEF Requires
  <2>3. PICK j \in Tokens(k) : c \in CleanupsOf(k[j].ref)
    BY <1>1, <2>1, <2>2 DEF Supported
  <2> QED
    BY <1>2, <2>3 DEF TokenInv, HeldUnfired
<1> QED
  BY <1>3, <1>4

\* In a program that calls each resume function at most once, in the body of its own
\* clause, code never runs in a scope one of whose resources has been released: not
\* after a perform, a resume, a deep handler's reinstallation, a transform or an abort,
\* whatever handlers are nested.
THEOREM OwnClausesAreSafe ==
  ASSUME OneShot, ~Escapes
  PROVE  Spec => []NoUseAfterCleanup
<1>1. Init => WellFormed /\ TokenInv /\ OrderInv
  BY InitWellFormed, InitTokens, InitOrder
<1>2. WellFormed /\ TokenInv /\ OrderInv /\ [Next]_vars => (WellFormed /\ TokenInv /\ OrderInv)'
  BY NextWellFormed, NextTokens, NextOrder
<1>3. WellFormed /\ TokenInv /\ OrderInv => NoUseAfterCleanup
  BY NothingReleased
<1> QED
  BY <1>1, <1>2, <1>3, PTL DEF Spec

-----------------------------------------------------------------------------
(* One handle block that is caught once: its resume function may be called  *)
(* any number of times, anywhere, until its cleanups have been called.      *)

OneCatch == MaxInstalls <= 1 /\ MaxResumes <= 1

\* No two objects share an array, on the continuation or not.
AllArraysApart ==
  \A o, p \in 1 .. Len(frames) :
    o # p /\ frames[o].list # 0 => frames[o].list # frames[p].list
Unreleased(o) == \A c \in CleanupsOf(o) : fired[c] = 0
InForce(o) == Handle(o) \in FramesOf(k)

\* The resume function of w: all that its copies rely on is what w holds; once that
\* is released no handler is in force, before it no cleanup of w is above one.
Guarded(w) ==
  /\ ~InForce(w)
  /\ \A o \in 1 .. Len(frames) : frames[o].needs \subseteq CleanupsOf(w)
  /\ IF frames[w].fired THEN FramesOf(k) \cap HandleFrames = {} ELSE Unreleased(w)
  /\ NeverAbove(k, {Cleanup(w)}, HandleFrames)

GuardInv ==
  /\ Once(k) /\ AllArraysApart /\ ListsDisjoint /\ ProgramApart
  /\ \A o \in 1 .. Len(frames) : InForce(o) => Unreleased(o)
  /\ captured = <<>> => \A o \in 1 .. Len(frames) : frames[o].needs = {}
  /\ \A r \in 1 .. Len(captured) : Guarded(OwnHandler(r))

LEMMA ObjectFrames ==
  ASSUME WellFormed, NEW o \in 1 .. Len(frames)
  PROVE  Handle(o) \in HandleFrames /\ Cleanup(o) \notin HandleFrames
<1>1. Len(frames) \in Nat /\ Len(captured) \in Nat /\ Len(frames) <= MaxFrames
  BY DEF WellFormed
<1>2. Handle(o) \in [kind : Kinds, ref : Ref]
  BY <1>1, FrameTypes
<1> QED
  BY <1>2, SubKinds DEF HandleFrames, Of, Handle

\* Steps that leave the objects and their arrays as they are, and add no handler.
LEMMA GuardKept ==
  ASSUME WellFormed, GuardInv, UNCHANGED <<frames, lists, captured>>,
         NEW kk, k' = kk, Once(kk), FramesOf(kk) \cap HandleFrames \subseteq FramesOf(k),
         \A r \in 1 .. Len(captured) : NeverAbove(kk, {Cleanup(OwnHandler(r))}, HandleFrames),
         ProgramApart',
         \A o \in 1 .. Len(frames) : \A c \in CleanupsOf(o) : fired'[c] = fired[c]
  PROVE  GuardInv'
<1>1. \A o : CleanupsOf(o)' = CleanupsOf(o)
  BY DEF CleanupsOf
<1>2. \A r \in 1 .. Len(captured) : OwnHandler(r)' = OwnHandler(r) /\ OwnHandler(r) \in 1 .. Len(frames)
  BY InnerFacts DEF OwnHandler
<1>3. /\ \A o \in 1 .. Len(frames) : Handle(o) \in FramesOf(kk) => Handle(o) \in FramesOf(k)
      /\ FramesOf(k)' = FramesOf(kk)
  BY ObjectFrames DEF FramesOf
<1>4. AllArraysApart' /\ ListsDisjoint'
  BY DEF GuardInv, AllArraysApart, ListsDisjoint
<1>5. ASSUME NEW r \in 1 .. Len(captured) PROVE Guarded(OwnHandler(r))'
  <2>1. PICK w : w = OwnHandler(r)
    OBVIOUS
  <2>2. w \in 1 .. Len(frames) /\ OwnHandler(r)' = w
    BY <1>2, <2>1
  <2>3. Guarded(w) /\ NeverAbove(kk, {Cleanup(w)}, HandleFrames)
    BY <2>1 DEF GuardInv
  <2>4. Handle(w) \notin FramesOf(kk)
    BY <1>3, <2>2, <2>3 DEF Guarded, InForce
  <2>5. \A o \in 1 .. Len(frames) : frames[o].needs \subseteq CleanupsOf(w)'
    BY <1>1, <2>3 DEF Guarded
  <2>6. CASE frames[w].fired
    <3>1. FramesOf(kk) \cap HandleFrames = {}
      BY <2>3, <2>6 DEF Guarded
    <3> QED
      BY <1>3, <2>2, <2>3, <2>4, <2>5, <2>6, <3>1 DEF Guarded, InForce
  <2>7. CASE ~frames[w].fired
    <3>1. \A c \in CleanupsOf(w)' : fired'[c] = 0
      BY <1>1, <2>2, <2>3, <2>7 DEF Guarded, Unreleased
    <3> QED
      BY <1>3, <2>2, <2>3, <2>4, <2>5, <2>7, <3>1 DEF Guarded, InForce, Unreleased
  <2> QED
    BY <2>6, <2>7
<1>6. Once(k)'
  BY DEF Once, Tokens
<1>7. \A o \in 1 .. Len(frames) : InForce(o)' => Unreleased(o)'
  BY <1>1, <1>3 DEF GuardInv, InForce, Unreleased
<1> QED
  BY <1>4, <1>5, <1>6, <1>7 DEF GuardInv

\* The heap stays.
LEMMA GuardMoved ==
  ASSUME WellFormed, GuardInv, UNCHANGED Heap,
         NEW kk, k' = kk, Once(kk), FramesOf(kk) \cap HandleFrames \subseteq FramesOf(k),
         \A r \in 1 .. Len(captured) : NeverAbove(kk, {Cleanup(OwnHandler(r))}, HandleFrames)
  PROVE  GuardInv'
<1>1. UNCHANGED <<frames, lists, captured, fired, program>>
  BY DEF Heap
<1>2. ProgramApart'
  BY <1>1 DEF GuardInv, ProgramApart
<1> QED
  BY <1>1, <1>2, GuardKept

LEMMA GuardSame == ASSUME WellFormed, GuardInv, UNCHANGED <<k, Heap>> PROVE GuardInv'
BY GuardMoved DEF GuardInv, Guarded

LEMMA GuardPopped ==
  ASSUME WellFormed, GuardInv, k # <<>>, k' = Tail(k), UNCHANGED Heap
  PROVE  GuardInv'
<1>1. k \in Seq(Frame(Len(frames), Len(captured))) /\ Once(k)
  BY DEF WellFormed, ContinuationOK, GuardInv
<1>2. Once(Tail(k)) /\ FramesOf(Tail(k)) \subseteq FramesOf(k)
  BY <1>1, HeldTail, FramesOfPart
<1>3. \A r \in 1 .. Len(captured) : NeverAbove(Tail(k), {Cleanup(OwnHandler(r))}, HandleFrames)
  BY <1>1, FramesOfParts DEF GuardInv, Guarded
<1> QED
  BY <1>2, <1>3, GuardMoved

LEMMA ReturnGuard == ASSUME WellFormed, GuardInv, Return PROVE GuardInv'
BY GuardPopped DEF Return, InCode, WellFormed, CodeInFront

LEMMA TransformGuard == ASSUME WellFormed, GuardInv, TransformCompletes PROVE GuardInv'
BY GuardPopped DEF TransformCompletes, Meets

LEMMA ClauseGuard == ASSUME WellFormed, BlockInv, GuardInv, ClauseCompletes PROVE GuardInv'
<1>1. k # <<>> /\ k' = Tail(k) /\ UNCHANGED Heap
  BY ClauseSkipsNothing DEF ClauseCompletes, Meets
<1> QED
  BY <1>1, GuardPopped

LEMMA EndGuard == ASSUME WellFormed, GuardInv, NEW how, End(how) PROVE GuardInv'
<1>1. fired' = Fire(program) /\ program' = {} /\ k' = k /\ UNCHANGED <<frames, lists, captured>>
  BY DEF End
<1>2. \A o \in 1 .. Len(frames) : \A c \in CleanupsOf(o) : fired'[c] = fired[c]
  <2> SUFFICES ASSUME NEW o \in 1 .. Len(frames), NEW c \in CleanupsOf(o)
               PROVE  fired'[c] = fired[c]
    OBVIOUS
  <2>1. c \in 1 .. Len(fired) /\ frames[o].list \in 1 .. Len(lists)
        /\ CleanupsOf(o) = Elements(lists[frames[o].list])
    BY ArrayFacts
  <2>2. c \notin program
    BY <2>1 DEF GuardInv, ProgramApart
  <2> QED
    BY <1>1, <2>1, <2>2, FireFacts
<1>3. ProgramApart'
  BY <1>1 DEF ProgramApart
<1>4. \A r \in 1 .. Len(captured) : NeverAbove(k, {Cleanup(OwnHandler(r))}, HandleFrames)
  BY DEF GuardInv, Guarded
<1>5. Once(k)
  BY DEF GuardInv
<1> QED
  BY <1>1, <1>2, <1>3, <1>4, <1>5, GuardKept

\* The block completes: its object was caught by no effect, or is a copy's, and not
\* the one the resume function belongs to.
LEMMA HandleGuard == ASSUME WellFormed, GuardInv, HandleCompletes PROVE GuardInv'
<1>1. PICK o, rest, F : /\ o = Head(k).ref /\ rest = LeaveCleanup(o, Tail(k))
                        /\ F = Frame(Len(frames), Len(captured))
  OBVIOUS
<1>2. /\ k # <<>> /\ k[1].kind = "handle" /\ k[1].ref = o /\ o \in 1 .. Len(frames)
      /\ UNCHANGED Heap /\ ContinuationOK(k) /\ ContinuationOK(Tail(k)) /\ 1 \in 1 .. Len(k)
      /\ k' = rest \/ k' = <<Code, Transform>> \o rest
  BY <1>1, FrameMet DEF HandleCompletes, Meets, WellFormed
<1>3. Held(<<k[1]>>) = {o} /\ k[1] = Handle(o) /\ InForce(o)
  BY <1>2, HeldSingle, HandleAt DEF InForce
<1>4. Once(Tail(k)) /\ o \notin Held(Tail(k)) /\ FramesOf(Tail(k)) \subseteq FramesOf(k)
  BY <1>2, <1>3, HeldTail, FramesOfPart DEF GuardInv, ContinuationOK
<1>5. /\ Once(rest) /\ ContinuationOK(rest)
      /\ FramesOf(rest) \subseteq {Cleanup(o)} \cup FramesOf(Tail(k))
      /\ \A X : Cleanup(o) \notin X /\ NeverAbove(Tail(k), X, HandleFrames)
                  => NeverAbove(rest, X, HandleFrames)
  BY <1>1, <1>2, <1>4, HeldLeave, LeftFacts
<1>6. FramesOf(rest) \cap HandleFrames \subseteq FramesOf(k)
  BY <1>2, <1>4, <1>5, ObjectFrames
<1>7. ASSUME NEW r \in 1 .. Len(captured)
      PROVE  /\ NeverAbove(rest, {Cleanup(OwnHandler(r))}, HandleFrames)
             /\ Code # Cleanup(OwnHandler(r)) /\ Transform # Cleanup(OwnHandler(r))
  <2>1. NeverAbove(Tail(k), {Cleanup(OwnHandler(r))}, HandleFrames) /\ OwnHandler(r) # o
    BY <1>2, <1>3, FramesOfParts DEF GuardInv, Guarded, ContinuationOK
  <2>2. Cleanup(o) # Cleanup(OwnHandler(r))
    BY <2>1 DEF Cleanup
  <2>3. Code # Cleanup(OwnHandler(r)) /\ Transform # Cleanup(OwnHandler(r))
    BY DEF Cleanup, Code, Transform
  <2> QED
    BY <1>5, <2>1, <2>2, <2>3
<1>8. PICK f, g : f = Code /\ g = Transform
  OBVIOUS
<1>9. /\ f \in F /\ g \in F /\ rest \in Seq(F)
      /\ f.kind \notin {"handle", "cleanup"} /\ g.kind \notin {"handle", "cleanup"}
      /\ f \notin HandleFrames /\ g \notin HandleFrames
  <2>1. Len(frames) \in Nat /\ Len(captured) \in Nat
    BY DEF WellFormed
  <2>2. f \in F /\ g \in F /\ rest \in Seq(F)
    BY <1>1, <1>5, <1>8, <2>1, FrameTypes DEF ContinuationOK
  <2>3. f.kind \notin {"handle", "cleanup"} /\ g.kind \notin {"handle", "cleanup"}
    BY <1>8 DEF Code, Transform
  <2> QED
    BY <1>8, <2>2, <2>3, SubKinds
<1>10. PICK kk : kk = <<f, g>> \o rest
  OBVIOUS
<1>11. /\ Once(kk) /\ FramesOf(kk) \cap HandleFrames \subseteq FramesOf(k)
       /\ \A r \in 1 .. Len(captured) : NeverAbove(kk, {Cleanup(OwnHandler(r))}, HandleFrames)
  <2>1. Once(kk)
    BY <1>5, <1>9, <1>10, HeldInFront
  <2>2. FramesOf(kk) = {f, g} \cup FramesOf(rest)
    BY <1>9, <1>10, TwoInFront
  <2>3. ASSUME NEW r \in 1 .. Len(captured)
        PROVE  NeverAbove(kk, {Cleanup(OwnHandler(r))}, HandleFrames)
    <3>1. PICK X : X = {Cleanup(OwnHandler(r))}
      OBVIOUS
    <3>2. f \notin X /\ g \notin X /\ NeverAbove(rest, X, HandleFrames)
      BY <1>7, <1>8, <3>1
    <3> QED
      BY <1>9, <1>10, <3>1, <3>2, TwoInFront
  <2> QED
    BY <1>6, <1>9, <2>1, <2>2, <2>3
<1>12. CASE k' = rest
  BY <1>2, <1>5, <1>6, <1>7, <1>12, GuardMoved
<1>13. CASE k' = <<Code, Transform>> \o rest
  BY <1>2, <1>8, <1>10, <1>11, <1>13, GuardMoved
<1> QED
  BY <1>2, <1>12, <1>13

\* Two objects have no cleanup in common.
LEMMA ObjectsApart ==
  ASSUME WellFormed, AllArraysApart, ListsDisjoint,
         NEW o \in 1 .. Len(frames), NEW p \in 1 .. Len(frames), o # p
  PROVE  CleanupsOf(o) \cap CleanupsOf(p) = {}
<1>1. CASE frames[o].list = 0 \/ frames[p].list = 0
  BY <1>1, ArrayFacts
<1>2. CASE frames[o].list # 0 /\ frames[p].list # 0
  <2>1. /\ frames[o].list \in 1 .. Len(lists) /\ frames[p].list \in 1 .. Len(lists)
        /\ CleanupsOf(o) = Elements(lists[frames[o].list])
        /\ CleanupsOf(p) = Elements(lists[frames[p].list])
    BY <1>2, ArrayFacts
  <2>2. frames[o].list # frames[p].list
    BY <1>2 DEF AllArraysApart
  <2> QED
    BY <2>1, <2>2 DEF ListsDisjoint
<1> QED
  BY <1>1, <1>2

\* A handler in force is held.
LEMMA InForceHeld ==
  ASSUME NEW s, NEW o, Handle(o) \in FramesOf(s)
  PROVE  o \in Held(s)
<1>1. PICK i \in 1 .. Len(s) : s[i] = Handle(o)
  BY DEF FramesOf
<1>2. i \in Tokens(s) /\ s[i].ref = o
  BY <1>1 DEF Tokens, Handle
<1> QED
  BY <1>2 DEF Held

\* The cleanups of a frame are called: no handler in force relies on them, and no
\* handler is left in force if they are those of the resume function's handler.
LEMMA CleanupGuard == ASSUME WellFormed, GuardInv, CleanupFires PROVE GuardInv'
<1>1. PICK o : o = Head(k).ref
  OBVIOUS
<1>2. /\ k # <<>> /\ k[1].kind = "cleanup" /\ k[1].ref = o /\ o \in 1 .. Len(frames)
      /\ 1 \in 1 .. Len(k) /\ k[1] = Cleanup(o)
      /\ k \in Seq(Frame(Len(frames), Len(captured)))
  <2>1. /\ k # <<>> /\ k[1].kind = "cleanup" /\ k[1].ref = o /\ o \in 1 .. Len(frames)
        /\ 1 \in 1 .. Len(k) /\ k \in Seq(Frame(Len(frames), Len(captured)))
    BY <1>1, FrameMet DEF CleanupFires, Meets, WellFormed, ContinuationOK
  <2>2. k[1] \in [kind : Kinds, ref : Ref]
    BY <2>1, FrameOn DEF WellFormed
  <2> QED
    BY <2>1, <2>2 DEF Cleanup
<1>3. PICK yes \in BOOLEAN : yes = TRUE
  OBVIOUS
<1>4. /\ frames' = FiredAt(frames, o, yes) /\ fired' = Fire(CleanupsOf(o)) /\ k' = Tail(k)
      /\ UNCHANGED <<lists, captured, program>>
  BY <1>1, <1>3 DEF CleanupFires, MarkFired, FiredAt
<1>5. /\ frames'[o].fired /\ Len(frames') = Len(frames)
      /\ \A p \in 1 .. Len(frames) : /\ frames'[p].list = frames[p].list
                                     /\ frames'[p].needs = frames[p].needs
                                     /\ p # o => frames'[p].fired = frames[p].fired
  <2>1. frames \in Seq(ObjectRecord(BOOLEAN))
    BY DEF WellFormed, FrameObject, ObjectRecord
  <2>2. PICK fr2 : fr2 = FiredAt(frames, o, yes)
    OBVIOUS
  <2>3. /\ fr2[o].fired = yes /\ Len(fr2) = Len(frames)
        /\ \A p \in 1 .. Len(frames) : /\ fr2[p].list = frames[p].list
                                       /\ fr2[p].needs = frames[p].needs
                                       /\ p # o => fr2[p] = frames[p]
    BY <1>2, <2>1, <2>2, FiredAtFacts
  <2> QED
    BY <1>3, <1>4, <2>2, <2>3
<1>6. \A p \in 1 .. Len(frames) : CleanupsOf(p)' = CleanupsOf(p)
  BY <1>4, <1>5, SameCleanupsOf
<1>7. /\ Once(Tail(k)) /\ o \notin Held(Tail(k)) /\ FramesOf(Tail(k)) \subseteq FramesOf(k)
  <2>1. Held(<<k[1]>>) = {o}
    BY <1>2, HeldSingle
  <2>2. Once(k)
    BY DEF GuardInv
  <2>3. Once(Tail(k)) /\ Held(<<k[1]>>) \cap Held(Tail(k)) = {}
    BY <1>2, <2>2, HeldTail
  <2>4. FramesOf(Tail(k)) \subseteq FramesOf(k)
    BY <1>2, FramesOfPart
  <2> QED
    BY <2>1, <2>3, <2>4
<1>8. /\ Once(k)' /\ FramesOf(k)' = FramesOf(Tail(k))
      /\ \A X : NeverAbove(k, X, HandleFrames) => NeverAbove(k', X, HandleFrames)
  BY <1>2, <1>4, <1>7, FramesOfParts DEF Once, Tokens, FramesOf
<1>9. \A p \in 1 .. Len(frames) : p # o => \A c \in CleanupsOf(p) : fired'[c] = fired[c]
  <2> SUFFICES ASSUME NEW p \in 1 .. Len(frames), p # o, NEW c \in CleanupsOf(p)
               PROVE  fired'[c] = fired[c]
    OBVIOUS
  <2>1. c \in 1 .. Len(fired)
    BY ArrayFacts
  <2>2. c \notin CleanupsOf(o)
    BY <1>2, ObjectsApart DEF GuardInv
  <2> QED
    BY <1>4, <2>1, <2>2, FireFacts
<1>10. AllArraysApart' /\ ListsDisjoint'
  <2>1. AllArraysApart'
    BY <1>5 DEF GuardInv, AllArraysApart
  <2> QED
    BY <1>4, <2>1 DEF GuardInv, ListsDisjoint
<1>11. ProgramApart'
  <2>1. ProgramApart
    BY DEF GuardInv
  <2>2. \A c \in program : fired'[c] = 0
    <3> SUFFICES ASSUME NEW c \in program PROVE fired'[c] = 0
      OBVIOUS
    <3>1. c \in 1 .. Len(fired) /\ fired[c] = 0 /\ c \notin CleanupsOf(o)
      BY <1>2, <2>1, CleanupsNotProgram DEF WellFormed, ProgramApart
    <3> QED
      BY <1>4, <3>1, FireFacts
  <2> QED
    BY <1>4, <2>1, <2>2 DEF ProgramApart
<1>12. \A p \in 1 .. Len(frames) : Handle(p) \in FramesOf(Tail(k)) =>
         p # o /\ Handle(p) \in FramesOf(k)
  BY <1>7, InForceHeld
<1>13. \A p \in 1 .. Len(frames) : InForce(p)' => Unreleased(p)'
  BY <1>6, <1>8, <1>9, <1>12 DEF GuardInv, InForce, Unreleased
<1>14. captured = <<>> => \A p \in 1 .. Len(frames) : frames'[p].needs = {}
  BY <1>5 DEF GuardInv
<1>15. ASSUME NEW r \in 1 .. Len(captured) PROVE Guarded(OwnHandler(r))'
  <2>1. PICK w : w = OwnHandler(r)
    OBVIOUS
  <2>2. w \in 1 .. Len(frames) /\ OwnHandler(r)' = w
    BY <1>4, <2>1, InnerFacts DEF OwnHandler
  <2>3. Guarded(w)
    BY <2>1 DEF GuardInv
  <2>4. Handle(w) \notin FramesOf(Tail(k)) /\ NeverAbove(k', {Cleanup(w)}, HandleFrames)
    BY <1>7, <1>8, <2>3 DEF Guarded, InForce
  <2>5. \A p \in 1 .. Len(frames) : frames'[p].needs \subseteq CleanupsOf(w)'
    BY <1>5, <1>6, <2>2, <2>3 DEF Guarded
  <2>6. CASE w = o
    <3>1. FramesOf(Tail(k)) \cap HandleFrames = {}
      BY <1>2, <2>3, <2>6, FramesMet DEF Guarded
    <3> QED
      BY <1>5, <1>8, <2>2, <2>4, <2>5, <2>6, <3>1 DEF Guarded, InForce
  <2>7. CASE w # o /\ frames[w].fired
    <3>1. FramesOf(Tail(k)) \cap HandleFrames = {} /\ frames'[w].fired
      BY <1>5, <1>7, <2>2, <2>3, <2>7 DEF Guarded
    <3> QED
      BY <1>5, <1>8, <2>2, <2>4, <2>5, <3>1 DEF Guarded, InForce
  <2>8. CASE w # o /\ ~frames[w].fired
    <3>1. ~frames'[w].fired /\ \A c \in CleanupsOf(w)' : fired'[c] = 0
      BY <1>5, <1>6, <1>9, <2>2, <2>3, <2>8 DEF Guarded, Unreleased
    <3> QED
      BY <1>5, <1>8, <2>2, <2>4, <2>5, <3>1 DEF Guarded, InForce, Unreleased
  <2> QED
    BY <2>6, <2>7, <2>8
<1> QED
  BY <1>4, <1>5, <1>8, <1>10, <1>11, <1>13, <1>14, <1>15 DEF GuardInv

\* Registering adds the new cleanup to one object at most.
LEMMA RegisterObjects ==
  ASSUME WellFormed, AllArraysApart, RegisterCleanup, NEW c, c = Len(fired) + 1
  PROVE  /\ AllArraysApart' /\ Len(frames') = Len(frames)
         /\ \A p \in 1 .. Len(frames) : /\ CleanupsOf(p) \subseteq CleanupsOf(p)'
                                        /\ CleanupsOf(p)' \subseteq CleanupsOf(p) \cup {c}
                                        /\ frames'[p].needs = frames[p].needs
                                        /\ frames'[p].fired = frames[p].fired
<1>0. Len(frames') = Len(frames) /\ Len(lists) \in Nat
  BY RegisterFacts DEF WellFormed
<1>1. CASE HandlesIn(k) = {}
  <2>1. UNCHANGED <<frames, lists>>
    BY <1>1, RegisterCases
  <2>2. \A p : CleanupsOf(p)' = CleanupsOf(p)
    BY <2>1 DEF CleanupsOf
  <2>3. AllArraysApart'
    BY <2>1 DEF AllArraysApart
  <2> QED
    BY <1>0, <2>1, <2>2, <2>3
<1>2. CASE HandlesIn(k) # {}
  <2>1. PICK o, l : RegisteredAt(o, l, c)
    BY <1>2, RegisterCases
  <2>2. /\ o \in 1 .. Len(frames) /\ l \in 1 .. Len(lists') /\ frames'[o].list = l
        /\ \A p \in 1 .. Len(frames) : p # o => frames'[p].list = frames[p].list
        /\ \A p \in 1 .. Len(frames) : /\ frames'[p].needs = frames[p].needs
                                       /\ frames'[p].fired = frames[p].fired
        /\ \A m \in 1 .. Len(lists) : m # l => lists'[m] = lists[m]
        /\ Elements(lists'[l]) = CleanupsOf(o) \cup {c}
        /\ \/ frames[o].list = 0 /\ l = Len(lists) + 1
           \/ frames[o].list # 0 /\ l = frames[o].list
    BY <2>1 DEF RegisteredAt
  <2>3. \A p \in 1 .. Len(frames) : p # o => frames[p].list # l
    <3> SUFFICES ASSUME NEW p \in 1 .. Len(frames), p # o PROVE frames[p].list # l
      OBVIOUS
    <3>1. frames[p].list \in 0 .. Len(lists)
      BY ArrayFacts
    <3> QED
      BY <1>0, <2>2, <3>1 DEF AllArraysApart
  <2>4. AllArraysApart'
    <3> SUFFICES ASSUME NEW p \in 1 .. Len(frames), NEW q \in 1 .. Len(frames),
                        p # q, frames'[p].list # 0
                 PROVE  frames'[p].list # frames'[q].list
      BY <1>0 DEF AllArraysApart
    <3>1. CASE p = o
      BY <2>2, <2>3, <3>1
    <3>2. CASE q = o
      BY <2>2, <2>3, <3>2
    <3>3. CASE p # o /\ q # o
      BY <2>2, <3>3 DEF AllArraysApart
    <3> QED
      BY <3>1, <3>2, <3>3
  <2>5. \A p \in 1 .. Len(frames) : p # o => CleanupsOf(p)' = CleanupsOf(p)
    <3> SUFFICES ASSUME NEW p \in 1 .. Len(frames), p # o
                 PROVE  CleanupsOf(p)' = CleanupsOf(p)
      OBVIOUS
    <3>1. /\ frames'[p].list = frames[p].list /\ frames[p].list # l
          /\ (frames[p].list # 0 => frames[p].list \in 1 .. Len(lists))
      BY <2>2, <2>3, ArrayFacts
    <3> QED
      BY <2>2, <3>1 DEF CleanupsOf
  <2>6. CleanupsOf(o)' = CleanupsOf(o) \cup {c}
    <3>1. l # 0
      BY <2>2
    <3> QED
      BY <2>2, <3>1 DEF CleanupsOf
  <2>7. \A p \in 1 .. Len(frames) : /\ CleanupsOf(p) \subseteq CleanupsOf(p)'
                                    /\ CleanupsOf(p)' \subseteq CleanupsOf(p) \cup {c}
    BY <2>5, <2>6
  <2> QED
    BY <1>0, <2>2, <2>4, <2>7
<1> QED
  BY <1>1, <1>2

LEMMA RegisterGuard == ASSUME WellFormed, GuardInv, RegisterCleanup PROVE GuardInv'
<1>0. PICK c : c = Len(fired) + 1
  OBVIOUS
<1>1. /\ UNCHANGED <<k, captured>> /\ Len(fired') = c /\ fired'[c] = 0
      /\ \A d \in 1 .. Len(fired) : fired'[d] = fired[d]
  BY <1>0, RegisterFacts DEF WellFormed
<1>2. /\ AllArraysApart' /\ Len(frames') = Len(frames)
      /\ \A p \in 1 .. Len(frames) : /\ CleanupsOf(p) \subseteq CleanupsOf(p)'
                                     /\ CleanupsOf(p)' \subseteq CleanupsOf(p) \cup {c}
                                     /\ frames'[p].needs = frames[p].needs
                                     /\ frames'[p].fired = frames[p].fired
  BY <1>0, RegisterObjects DEF GuardInv
<1>3. ListsDisjoint' /\ ProgramApart'
  BY RegisterLists DEF GuardInv
<1>4. Once(k)' /\ FramesOf(k)' = FramesOf(k)
      /\ \A X : NeverAbove(k, X, HandleFrames) => NeverAbove(k', X, HandleFrames)
  BY <1>1 DEF GuardInv, Once, Tokens, FramesOf
<1>5. \A p \in 1 .. Len(frames) :
        (\A d \in CleanupsOf(p) : fired[d] = 0) => \A d \in CleanupsOf(p)' : fired'[d] = 0
  <2> SUFFICES ASSUME NEW p \in 1 .. Len(frames), \A d \in CleanupsOf(p) : fired[d] = 0,
                      NEW d \in CleanupsOf(p)'
               PROVE  fired'[d] = 0
    OBVIOUS
  <2>1. d \in CleanupsOf(p) \/ d = c
    BY <1>2
  <2>2. d \in CleanupsOf(p) => d \in 1 .. Len(fired)
    BY ArrayFacts
  <2> QED
    BY <1>1, <2>1, <2>2
<1>6. \A p \in 1 .. Len(frames) : InForce(p)' => Unreleased(p)'
  BY <1>4, <1>5 DEF GuardInv, InForce, Unreleased
<1>7. captured = <<>> => \A p \in 1 .. Len(frames) : frames'[p].needs = {}
  BY <1>2 DEF GuardInv
<1>8. ASSUME NEW r \in 1 .. Len(captured) PROVE Guarded(OwnHandler(r))'
  <2>1. PICK w : w = OwnHandler(r)
    OBVIOUS
  <2>2. w \in 1 .. Len(frames) /\ OwnHandler(r)' = w
    BY <1>1, <2>1, InnerFacts DEF OwnHandler
  <2>3. Guarded(w)
    BY <2>1 DEF GuardInv
  <2>4. Handle(w) \notin FramesOf(k) /\ NeverAbove(k', {Cleanup(w)}, HandleFrames)
    BY <1>4, <2>3 DEF Guarded, InForce
  <2>5. \A p \in 1 .. Len(frames) : frames'[p].needs \subseteq CleanupsOf(w)'
    BY <1>2, <2>2, <2>3 DEF Guarded
  <2>6. CASE frames[w].fired
    <3>1. FramesOf(k) \cap HandleFrames = {} /\ frames'[w].fired
      BY <1>2, <2>2, <2>3, <2>6 DEF Guarded
    <3> QED
      BY <1>2, <1>4, <2>2, <2>4, <2>5, <3>1 DEF Guarded, InForce
  <2>7. CASE ~frames[w].fired
    <3>1. ~frames'[w].fired /\ \A d \in CleanupsOf(w)' : fired'[d] = 0
      BY <1>2, <1>5, <2>2, <2>3, <2>7 DEF Guarded, Unreleased
    <3> QED
      BY <1>2, <1>4, <2>2, <2>4, <2>5, <3>1 DEF Guarded, InForce, Unreleased
  <2> QED
    BY <2>6, <2>7
<1> QED
  BY <1>1, <1>2, <1>3, <1>4, <1>6, <1>7, <1>8 DEF GuardInv

\* The one handler is installed: it has no cleanups, and nothing was caught.
LEMMA InstallGuard ==
  ASSUME OneCatch, WellFormed, BlockInv, GuardInv, NEW h \in Handlers, Install(h)
  PROVE  GuardInv'
<1>1. /\ frames' = Append(frames, Object(h, 0, {}))
      /\ UNCHANGED <<lists, captured, fired, program>>
  BY DEF Install
<1>2. installs = 0
  BY BoundsAssumption DEF OneCatch, Install, WellFormed
<1>3. frames = <<>>
  BY <1>2 DEF BlockInv, InstalledOnce
<1>4. Len(captured') = 0
  <2>1. \A r \in 1 .. Len(captured) : OwnHandler(r) \in 1 .. Len(frames)
    BY InnerFacts
  <2>2. Len(captured) \in Nat
    BY DEF WellFormed
  <2>3. Len(captured) # 0 => 1 \in 1 .. Len(captured)
    BY <2>2
  <2> QED
    BY <1>1, <1>3, <2>1, <2>3
<1>5. Len(frames') = 1 /\ frames'[1].list = 0 /\ frames'[1].needs = {}
  <2>1. PICK new : new = Object(h, 0, {})
    OBVIOUS
  <2>2. new.list = 0 /\ new.needs = {}
    BY <2>1 DEF Object
  <2>3. frames' = Append(<<>>, new)
    BY <1>1, <1>3, <2>1
  <2> QED
    BY <2>2, <2>3
<1>6. Once(k)'
  <2>1. Once(k')
    BY InstallHeld DEF GuardInv
  <2> QED
    BY <2>1 DEF Once, Tokens
<1>7. \A o \in 1 .. Len(frames') : o = 1 /\ frames'[o].list = 0 /\ frames'[o].needs = {}
  BY <1>5
<1>8. AllArraysApart' /\ \A o \in 1 .. Len(frames') : Unreleased(o)'
  BY <1>7 DEF AllArraysApart, Unreleased, CleanupsOf
<1>9. ListsDisjoint' /\ ProgramApart'
  BY <1>1 DEF GuardInv, ListsDisjoint, ProgramApart
<1> QED
  BY <1>4, <1>6, <1>7, <1>8, <1>9 DEF GuardInv

\* The block is caught: its object is left to the cleanup frame.
LEMMA DispatchGuard ==
  ASSUME OneCatch, WellFormed, BlockInv, GuardInv, NEW i \in HandlesIn(k), Dispatch(k, i)
  PROVE  GuardInv'
<1>0. PICK o, below, rest : o = k[i].ref /\ below = Below(k, i) /\ rest = LeaveCleanup(o, below)
  OBVIOUS
<1>1. /\ i \in 1 .. Len(k) /\ k \in Seq(Frame(Len(frames), Len(captured)))
      /\ k[i].kind = "handle" /\ o \in 1 .. Len(frames) /\ k[i] \in HandleFrames
      /\ k[i] = Handle(o) /\ InForce(o)
  BY <1>0, FrameOn, HandlesAreFrames, HandleAt DEF WellFormed, ContinuationOK, HandlesIn, InForce
<1>2. captured = <<>> /\ Len(captured) = 0
  <2>1. Len(captured) \in Nat /\ Len(captured) < MaxResumes /\ MaxResumes \in Nat
    BY BoundsAssumption DEF Dispatch, WellFormed
  <2>2. Len(captured) = 0
    BY <2>1 DEF OneCatch
  <2> QED
    BY <2>2 DEF WellFormed
<1>3. FramesOf(below) \cap HandleFrames = {}
  <2>1. NeverAbove(k, Scoped, HandleFrames) /\ k[i] \in Scoped
    BY <1>1, <1>2, SubKinds DEF BlockInv, OneScope, Quiet
  <2> QED
    BY <1>0, <1>1, <2>1, AroundFrame
<1>4. ContinuationOK(rest) /\ FramesOf(rest) \subseteq {Cleanup(o)} \cup FramesOf(below)
  <2>1. ContinuationOK(below)
    BY <1>0, <1>1, Parts DEF ContinuationOK
  <2> QED
    BY <1>0, <1>1, <2>1, LeftFacts
<1>5. k' = <<Code, Clause(1)>> \o rest /\ UNCHANGED <<frames, lists, fired, program>>
  BY <1>0, <1>2 DEF Dispatch, ClauseContinuation, Store
<1>6. FramesOf(k)' \cap HandleFrames = {}
  <2>1. PICK S : S = Frame(Len(frames), Len(captured)) \cup {Code, Clause(1)}
    OBVIOUS
  <2>2. Code \in S /\ Clause(1) \in S /\ rest \in Seq(S)
    BY <1>4, <2>1, SeqGrows DEF ContinuationOK
  <2>3. PICK f, g : f = Code /\ g = Clause(1)
    OBVIOUS
  <2>4. f \notin HandleFrames /\ g \notin HandleFrames /\ Cleanup(o) \notin HandleFrames
    BY <2>3, SubKinds
  <2>5. FramesOf(<<f, g>> \o rest) = {f, g} \cup FramesOf(rest)
    BY <2>2, <2>3, <2>4, TwoInFront
  <2>6. FramesOf(k') \cap HandleFrames = {}
    BY <1>3, <1>4, <1>5, <2>3, <2>4, <2>5
  <2> QED
    BY <2>6 DEF FramesOf
<1>7. \A p \in 1 .. Len(frames) : ~InForce(p)'
  <2>1. \A p \in 1 .. Len(frames) : Handle(p) \in HandleFrames
    BY ObjectFrames
  <2> QED
    BY <1>6, <2>1 DEF InForce
<1>8. Once(k)'
  <2>1. Once(k')
    BY <1>0, DispatchHeld DEF GuardInv
  <2> QED
    BY <2>1 DEF Once, Tokens
<1>9. Len(captured') = 1 /\ OwnHandler(1)' = o
  <2>1. /\ Len(captured') = 1 /\ captured'[1].performK = SubSeq(k, 1, i)
    <3>1. PICK n : n = Len(captured) + 1
      OBVIOUS
    <3>2. Len(captured') = n /\ captured'[n].performK = SubSeq(k, 1, i)
      BY <3>1, DispatchFacts
    <3> QED
      BY <1>2, <3>1, <3>2
  <2>2. PICK pk : pk = SubSeq(k, 1, i)
    OBVIOUS
  <2>3. Len(pk) = i /\ pk[i] = k[i]
    <3>1. i \in 0 .. Len(k) /\ i \in 1 .. i
      BY <1>1
    <3>2. Len(SubSeq(k, 1, i)) = i /\ \A j \in 1 .. i : SubSeq(k, 1, i)[j] = k[j]
      BY <1>1, <3>1, Parts
    <3> QED
      BY <2>2, <3>1, <3>2
  <2> QED
    BY <1>0, <2>1, <2>2, <2>3 DEF OwnHandler
<1>10. \A p : CleanupsOf(p)' = CleanupsOf(p)
  BY <1>5 DEF CleanupsOf
<1>11. AllArraysApart' /\ ListsDisjoint' /\ ProgramApart'
  BY <1>5 DEF GuardInv, AllArraysApart, ListsDisjoint, ProgramApart
<1>12. \A c \in CleanupsOf(o)' : fired'[c] = 0
  BY <1>1, <1>5, <1>10 DEF GuardInv, Unreleased
<1>13. \A p \in 1 .. Len(frames') : frames'[p].needs = {}
  BY <1>2, <1>5 DEF GuardInv
<1>14. NeverAbove(k', {Cleanup(o)}, HandleFrames)
  <2>1. FramesOf(k') \cap HandleFrames = {}
    BY <1>6 DEF FramesOf
  <2> QED
    BY <2>1, NoneBelow
<1>15. Guarded(o)'
  <2>1. ~InForce(o)'
    BY <1>1, <1>7
  <2> QED
    BY <1>6, <1>12, <1>13, <1>14, <2>1 DEF Guarded, Unreleased
<1>16. \A r \in 1 .. Len(captured') : Guarded(OwnHandler(r))'
  <2>1. \A r \in 1 .. Len(captured') : r = 1
    BY <1>9
  <2>2. Guarded(OwnHandler(1))'
    BY <1>9, <1>15 DEF Guarded, InForce, Unreleased, CleanupsOf
  <2> QED
    BY <2>1, <2>2
<1>17. captured' # <<>>
  BY <1>9
<1> QED
  BY <1>5, <1>7, <1>8, <1>11, <1>13, <1>16, <1>17 DEF GuardInv

\* A call puts code in front, and one new object that holds nothing around it.
LEMMA ResumedHeld ==
  ASSUME WellFormed, BlockInv, Once(k), NEW r \in 1 .. Len(captured), CallResume(r)
  PROVE  Once(k')
<1>1. Tokens(Renewed(r)) = {}
  <2>1. Held(Inner(r)) = {}
    BY InnerFacts, PlainHoldsNothing DEF BlockInv, PlainResumes
  <2>2. Tokens(Inner(r)) = {}
    BY <2>1 DEF Held
  <2> QED
    BY <2>2, RenewedTokens
<1>2. Once(Renewed(r)) /\ Held(Renewed(r)) = {}
  BY <1>1 DEF Once, Held
<1>3. Once(Around(r)) /\ Held(Around(r)) \subseteq NewRefs(r)
  BY AroundHeld
<1>4. NewRefs(r) \cap Held(k) = {}
  <2>1. Copies(r) = 0 /\ Len(frames) \in Nat
    BY ResumedBlock DEF WellFormed
  <2>2. Held(k) \subseteq 1 .. Len(frames)
    BY HeldBound DEF WellFormed
  <2> QED
    BY <2>1, <2>2 DEF NewRefs
<1>5. PICK S : Renewed(r) \in Seq(S) /\ Around(r) \in Seq(S) /\ k \in Seq(S)
  BY ResumedFrames
<1>6. PICK t, a : t = Renewed(r) /\ a = Around(r)
  OBVIOUS
<1>7. Once(t \o a) /\ Held(t \o a) \cap Held(k) = {} /\ t \o a \in Seq(S)
  <2>1. Held(t \o a) = Held(t) \cup Held(a)
        /\ (Once(t \o a) <=> Once(t) /\ Once(a) /\ Held(t) \cap Held(a) = {})
    BY <1>5, <1>6, HeldJoined
  <2> QED
    BY <1>2, <1>3, <1>4, <1>5, <1>6, <2>1
<1>8. Once((t \o a) \o k)
  <2>1. PICK b : b = t \o a
    OBVIOUS
  <2>2. Once(b \o k) <=> Once(b) /\ Once(k) /\ Held(b) \cap Held(k) = {}
    BY <1>5, <1>7, <2>1, HeldJoined
  <2> QED
    BY <1>7, <2>1, <2>2
<1> QED
  BY <1>6, <1>8 DEF CallResume

LEMMA ResumeGuard ==
  ASSUME OneCatch, WellFormed, BlockInv, GuardInv, NEW r \in 1 .. Len(captured), CallResume(r)
  PROVE  GuardInv'
<1>0. PICK w, N, a : w = OwnHandler(r) /\ N = Len(frames) /\ a = Renewed(r) \o Around(r)
  OBVIOUS
<1>1. /\ k' = a \o k /\ UNCHANGED <<lists, fired, program>> /\ ContinuationValid(r)
      /\ w \in 1 .. N /\ N \in Nat /\ Guarded(w)
  BY <1>0, InnerFacts DEF CallResume, GuardInv, WellFormed
<1>2. ~frames[w].fired /\ Unreleased(w) /\ ~InForce(w)
      /\ \A o \in 1 .. N : frames[o].needs \subseteq CleanupsOf(w)
  <2>1. PICK pk : pk = captured[r].performK
    OBVIOUS
  <2>2. ContinuationOK(pk) /\ pk # <<>> /\ pk[Len(pk)].kind = "handle" /\ pk[Len(pk)].ref = w
    BY <1>0, <2>1 DEF WellFormed, ResumeOK, OwnHandler
  <2>3. Len(pk) \in HandlesIn(pk)
    BY <2>2 DEF HandlesIn, ContinuationOK
  <2>4. ~frames[w].fired
    BY <1>1, <2>1, <2>2, <2>3 DEF ContinuationValid
  <2> QED
    BY <1>0, <1>1, <2>4 DEF Guarded
<1>3. /\ Len(frames') >= N
      /\ \A o \in 1 .. N : frames'[o] = frames[o]
      /\ \A o \in 1 .. Len(frames') : o > N => frames'[o] = NewHandler(w)
      /\ Len(frames') \in Nat
  <2>1. Copies(r) = 0
    BY ResumedBlock
  <2>2. PICK z : z = N + Copies(r)
    OBVIOUS
  <2>3. z = N
    BY <1>1, <2>1, <2>2
  <2> QED
    BY <1>0, <2>2, <2>3, ResumeFacts
<1>4. \A o \in 1 .. N : CleanupsOf(o)' = CleanupsOf(o)
  BY <1>1, <1>3 DEF CleanupsOf
<1>5. \A o \in 1 .. Len(frames') : o \notin 1 .. N =>
        /\ frames'[o].list = 0 /\ CleanupsOf(o)' = {}
        /\ frames'[o].needs \subseteq CleanupsOf(w)
  <2>1. PICK new : new = NewHandler(w)
    OBVIOUS
  <2>2. new.list = 0 /\ new.needs = frames[w].needs \cup CleanupsOf(w)
    BY <2>1 DEF NewHandler, Object
  <2> SUFFICES ASSUME NEW o \in 1 .. Len(frames'), o \notin 1 .. N
               PROVE  /\ frames'[o].list = 0 /\ CleanupsOf(o)' = {}
                      /\ frames'[o].needs \subseteq CleanupsOf(w)
    OBVIOUS
  <2>3. frames'[o] = new
    BY <1>1, <1>3, <2>1
  <2> QED
    BY <1>1, <1>2, <2>2, <2>3 DEF CleanupsOf
<1>6. Len(captured') = 1 /\ r = 1 /\ OwnHandler(r)' = w
  <2>1. Len(captured) = 1 /\ r = 1
    <3>1. Len(captured) \in Nat /\ Len(captured) <= MaxResumes /\ MaxResumes <= 1
          /\ MaxResumes \in Nat
      BY BoundsAssumption DEF OneCatch, WellFormed
    <3> QED
      BY <3>1
  <2> QED
    BY <1>0, <2>1, ResumedCaptured DEF OwnHandler
<1>7. PICK S : a \in Seq(S) /\ k \in Seq(S) /\ Renewed(r) \in Seq(S) /\ Around(r) \in Seq(S)
  <2>1. PICK S : Renewed(r) \in Seq(S) /\ Around(r) \in Seq(S) /\ k \in Seq(S)
    BY ResumedFrames
  <2> QED
    BY <1>0, <2>1, Joined
<1>8. \A o \in 1 .. N : Handle(o) \notin FramesOf(a) /\ Cleanup(o) \notin FramesOf(a)
  <2> SUFFICES ASSUME NEW o \in 1 .. N
               PROVE  Handle(o) \notin FramesOf(a) /\ Cleanup(o) \notin FramesOf(a)
    OBVIOUS
  <2>1. Handle(o) \in Scoped /\ Cleanup(o) \in Scoped
    <3>1. Len(frames) \in Nat /\ Len(captured) \in Nat /\ Len(frames) <= MaxFrames
      BY DEF WellFormed
    <3>2. Handle(o) \in [kind : Kinds, ref : Ref] /\ Cleanup(o) \in [kind : Kinds, ref : Ref]
      BY <1>0, <3>1, FrameTypes
    <3>3. Handle(o).kind = "handle" /\ Cleanup(o).kind = "cleanup"
      BY DEF Handle, Cleanup
    <3> QED
      BY <3>2, <3>3 DEF Scoped, Of
  <2>2. FramesOf(a) = FramesOf(Renewed(r)) \cup FramesOf(Around(r))
    BY <1>0, <1>7, FramesJoined
  <2>3. FramesOf(Renewed(r)) \cap Scoped = {}
    BY ResumedBlock
  <2>4. Handle(o) \notin FramesOf(Around(r)) /\ Cleanup(o) \notin FramesOf(Around(r))
    <3>1. Around(r) = <<>> \/ Around(r) = <<Handle(N + 1)>>
      BY <1>0, ResumedBlock
    <3>2. FramesOf(Around(r)) \subseteq {Handle(N + 1)}
      BY <3>1 DEF FramesOf
    <3>3. Handle(N + 1) # Handle(o) /\ Handle(N + 1) # Cleanup(o)
      <4>1. N + 1 # o
        BY <1>1
      <4> QED
        BY <4>1 DEF Handle, Cleanup
    <3> QED
      BY <3>2, <3>3
  <2> QED
    BY <2>1, <2>2, <2>3, <2>4
<1>9. \A o \in 1 .. N : InForce(o)' => InForce(o)
  <2>1. FramesOf(k') = FramesOf(a) \cup FramesOf(k)
    BY <1>1, <1>7, FramesJoined
  <2>2. FramesOf(k)' = FramesOf(k')
    BY DEF FramesOf
  <2> QED
    BY <1>8, <2>1, <2>2 DEF InForce
<1>10. NeverAbove(k', {Cleanup(w)}, HandleFrames)
  <2>1. FramesOf(a) \cap {Cleanup(w)} = {}
    BY <1>1, <1>8
  <2>2. NeverAbove(a, {Cleanup(w)}, HandleFrames)
    BY <2>1 DEF NeverAbove, FramesOf
  <2>3. NeverAbove(k, {Cleanup(w)}, HandleFrames)
    BY <1>1 DEF Guarded
  <2> QED
    BY <1>1, <1>7, <2>1, <2>2, <2>3, NeverAboveJoined
<1>11. Once(k)'
  <2>1. Once(k')
    BY ResumedHeld DEF GuardInv
  <2> QED
    BY <2>1 DEF Once, Tokens
<1>12. AllArraysApart'
  <2> SUFFICES ASSUME NEW o \in 1 .. Len(frames'), NEW p \in 1 .. Len(frames'),
                      o # p, frames'[o].list # 0
               PROVE  frames'[o].list # frames'[p].list
    BY DEF AllArraysApart
  <2>1. o \in 1 .. N
    BY <1>5
  <2>2. CASE p \notin 1 .. N
    BY <1>5, <2>2
  <2>3. CASE p \in 1 .. N
    BY <1>0, <1>3, <2>1, <2>3 DEF GuardInv, AllArraysApart
  <2> QED
    BY <2>2, <2>3
<1>13. ListsDisjoint' /\ ProgramApart'
  BY <1>1 DEF GuardInv, ListsDisjoint, ProgramApart
<1>14. \A o \in 1 .. Len(frames') : InForce(o)' => Unreleased(o)'
  <2> SUFFICES ASSUME NEW o \in 1 .. Len(frames'), InForce(o)', NEW c \in CleanupsOf(o)'
               PROVE  fired'[c] = 0
    BY DEF Unreleased
  <2>1. o \in 1 .. N
    BY <1>5
  <2>2. InForce(o) /\ c \in CleanupsOf(o)
    BY <1>4, <1>9, <2>1
  <2> QED
    BY <1>0, <1>1, <2>1, <2>2 DEF GuardInv, Unreleased
<1>15. Guarded(w)'
  <2>1. ~InForce(w)'
    BY <1>1, <1>2, <1>9
  <2>2. \A o \in 1 .. Len(frames') : frames'[o].needs \subseteq CleanupsOf(w)'
    BY <1>1, <1>2, <1>3, <1>4, <1>5
  <2>3. ~frames'[w].fired /\ \A c \in CleanupsOf(w)' : fired'[c] = 0
    BY <1>1, <1>2, <1>3, <1>4 DEF Unreleased
  <2> QED
    BY <1>10, <2>1, <2>2, <2>3 DEF Guarded, Unreleased
<1>16. \A q \in 1 .. Len(captured') : Guarded(OwnHandler(q))'
  <2>1. \A q \in 1 .. Len(captured') : q = r
    BY <1>6
  <2>2. Guarded(OwnHandler(r))'
    BY <1>6, <1>15 DEF Guarded, InForce, Unreleased, CleanupsOf
  <2> QED
    BY <2>1, <2>2
<1>17. captured' # <<>>
  BY <1>6
<1> QED
  BY <1>11, <1>12, <1>13, <1>14, <1>16, <1>17 DEF GuardInv

LEMMA RaiseGuard ==
  ASSUME OneCatch, WellFormed, BlockInv, GuardInv, Running, Raise(k)
  PROVE  GuardInv'
<1>1. CASE Catchers(k, "error") # {} /\ Dispatch(k, First(Catchers(k, "error")))
  BY <1>1, CatcherFacts, DispatchGuard
<1>2. CASE End("error")
  BY <1>2, EndGuard
<1> QED
  BY <1>1, <1>2 DEF Raise

LEMMA InitGuard == Init => GuardInv
<1> SUFFICES ASSUME Init PROVE GuardInv
  OBVIOUS
<1>1. /\ Len(frames) = 0 /\ Len(captured) = 0 /\ Len(lists) = 0 /\ program = {}
      /\ k = <<Code>>
  BY DEF Init
<1>2. Once(k)
  BY <1>1, HeldSingle
<1> QED
  BY <1>1, <1>2 DEF GuardInv, AllArraysApart, ListsDisjoint, ProgramApart

LEMMA NextGuard ==
  ASSUME OneCatch, WellFormed, BlockInv, GuardInv, [Next]_vars
  PROVE  GuardInv'
<1>1. CASE Perform
  BY <1>1, CatcherFacts, DispatchGuard DEF Perform
<1>2. CASE Throw
  BY <1>2, RaiseGuard DEF Throw, InCode
<1>3. CASE ErrorStep
  BY <1>3, RaiseGuard DEF ErrorStep
<1>4. CASE Return
  BY <1>4, ReturnGuard
<1>5. CASE RegisterCleanup
  BY <1>5, RegisterGuard
<1>6. CASE Suspend
  <2>1. CASE UNCHANGED <<k, control, Heap>>
    BY <2>1, GuardSame
  <2>2. CASE Raise(k)
    BY <1>6, <2>2, RaiseGuard DEF Suspend, InCode
  <2> QED
    BY <1>6, <2>1, <2>2 DEF Suspend
<1>7. CASE Halt
  BY <1>7, EndGuard DEF Halt
<1>8. CASE \E h \in Handlers : Install(h)
  BY <1>8, InstallGuard
<1>9. ASSUME NEW r \in DOMAIN captured, CallResume(r) \/ RefuseResume(r)
      PROVE  GuardInv'
  <2>1. r \in 1 .. Len(captured)
    BY <1>9 DEF WellFormed
  <2>2. CASE CallResume(r)
    BY <2>1, <2>2, ResumeGuard
  <2>3. CASE RefuseResume(r)
    BY <2>3, RaiseGuard DEF RefuseResume, InCode
  <2> QED
    BY <1>9, <2>2, <2>3
<1>10. CASE CodeContinues
  BY <1>10, GuardSame DEF CodeContinues
<1>11. CASE HandleCompletes
  BY <1>11, HandleGuard
<1>12. CASE TransformCompletes
  BY <1>12, TransformGuard
<1>13. CASE ClauseCompletes
  BY <1>13, ClauseGuard
<1>14. CASE CleanupFires
  BY <1>14, CleanupGuard
<1>15. CASE ProgramCompletes
  BY <1>15, EndGuard DEF ProgramCompletes
<1>16. CASE UNCHANGED vars
  BY <1>16, GuardSame DEF vars, Heap
<1> QED
  BY <1>1, <1>2, <1>3, <1>4, <1>5, <1>6, <1>7, <1>8, <1>9, <1>10, <1>11, <1>12, <1>13, <1>14,
     <1>15, <1>16 DEF Next, Terminated

\* A handler in force relies on what it holds, or on what the resume function's holds.
LEMMA GuardedUse == ASSUME WellFormed, GuardInv PROVE NoUseAfterCleanup
<1> SUFFICES ASSUME NEW i \in HandlesIn(k),
                    NEW c \in frames[k[i].ref].needs \cup CleanupsOf(k[i].ref)
             PROVE  fired[c] = 0
  BY DEF NoUseAfterCleanup
<1>1. PICK o : o = k[i].ref
  OBVIOUS
<1>2. /\ i \in 1 .. Len(k) /\ k[i].kind = "handle" /\ k[i] = Handle(o) /\ InForce(o)
      /\ o \in 1 .. Len(frames) /\ k[i] \in HandleFrames
  BY <1>1, FrameOn, HandlesAreFrames, HandleAt DEF WellFormed, ContinuationOK, HandlesIn, InForce
<1>3. CASE c \in CleanupsOf(o)
  BY <1>2, <1>3 DEF GuardInv, Unreleased
<1>4. CASE c \in frames[o].needs
  <2>1. captured # <<>>
    BY <1>2, <1>4 DEF GuardInv
  <2>2. 1 \in 1 .. Len(captured)
    BY <2>1 DEF WellFormed
  <2>3. PICK w : w = OwnHandler(1) /\ Guarded(w)
    BY <2>2 DEF GuardInv
  <2>4. FramesOf(k) \cap HandleFrames # {}
    BY <1>2 DEF FramesOf
  <2> QED
    BY <1>2, <1>4, <2>3, <2>4 DEF Guarded, Unreleased
<1> QED
  BY <1>1, <1>3, <1>4

\* With one handle block that is caught once, code never runs in a scope one of whose
\* resources has been released, however often, wherever and whenever the resume
\* function is called: once the cleanups of the block have been called a call of it
\* is refused, and no handler it put back is left in force when they are.
THEOREM OneCatchIsSafe ==
  ASSUME OneCatch
  PROVE  Spec => []NoUseAfterCleanup
<1>0. OneBlock
  BY DEF OneCatch, OneBlock
<1>1. Init => WellFormed /\ BlockInv /\ GuardInv
  BY InitWellFormed, InitBlock, InitGuard
<1>2. WellFormed /\ BlockInv /\ GuardInv /\ [Next]_vars => (WellFormed /\ BlockInv /\ GuardInv)'
  BY <1>0, NextWellFormed, NextBlock, NextGuard
<1>3. WellFormed /\ GuardInv => NoUseAfterCleanup
  BY GuardedUse
<1> QED
  BY <1>1, <1>2, <1>3, PTL DEF Spec
=============================================================================
