----------------------- MODULE ParallelGroup_refinement -----------------------
(***************************************************************************)
(* Proof that a group implements ConcurrentPrimitive: for every number of  *)
(* branches, what the two waves, the composed frames and the replayed      *)
(* checkpoints deliver is what parallel, race and settled promise for the  *)
(* outcomes of their branches.  Two hypotheses are needed: no handler      *)
(* halts a branch of a wave, and none fails the primary branch while it    *)
(* continues alone (its error leaves settled and race by the wrong door).  *)
(***************************************************************************)
EXTENDS ParallelGroup_proofs

AllOk(slots) == \A b \in DOMAIN slots : slots[b].tag = "ok"

\* What the refinement needs besides IInv: a run that has not ended has delivered
\* nothing, a primary never fails, and parallel caches no error.
RInv ==
  /\ phase # "ended" => outcome = NoOutcome
  /\ phase = "primary" => st[resumed.primary] # "error"
  /\ mode = "parallel" => AllOk(snapshot.kept) /\ AllOk(resumed.kept)

-----------------------------------------------------------------------------
(* The refinement mapping, point by point.                                 *)

LEMMA FateInType == \A f, b : FateIn(f, b) \in {"open", "ok", "failed"}
BY DEF FateIn

LEMMA FateOfCases ==
  \A b : /\ st[b] = "completed" => FateOf(b) = "ok"
         /\ st[b] = "error" => FateOf(b) = "failed"
         /\ st[b] \notin {"completed", "error"} => FateOf(b) = "open"
BY DEF FateOf

LEMMA FateOfCasesPrime ==
  \A b : /\ st'[b] = "completed" => FateOf(b)' = "ok"
         /\ st'[b] = "error" => FateOf(b)' = "failed"
         /\ st'[b] \notin {"completed", "error"} => FateOf(b)' = "open"
BY DEF FateOf

\* The fate of a branch at each phase.
LEMMA AbsFateCases ==
  /\ AbsFate = [b \in Branch |-> AbsFate[b]]
  /\ \A b \in Branch :
       /\ phase = "suspended" => AbsFate[b] = FateIn(snapshot, b)
       /\ phase # "suspended" /\ st[b] # "idle" => AbsFate[b] = FateOf(b)
       /\ phase # "suspended" /\ st[b] = "idle" =>
            AbsFate[b] = IF PrimaryIsDone /\ b = resumed.primary THEN "ok"
                         ELSE FateIn(resumed, b)
BY DEF AbsFate

LEMMA AbsFateCasesPrime ==
  /\ AbsFate' = [b \in Branch |-> AbsFate'[b]]
  /\ \A b \in Branch :
       /\ phase' = "suspended" => AbsFate'[b] = FateIn(snapshot', b)
       /\ phase' # "suspended" /\ st'[b] # "idle" => AbsFate'[b] = FateOf(b)'
       /\ phase' # "suspended" /\ st'[b] = "idle" =>
            AbsFate'[b] = IF PrimaryIsDone' /\ b = resumed'.primary THEN "ok"
                          ELSE FateIn(resumed', b)
BY DEF AbsFate, FateIn

\* Steps that leave the branches and the frames alone leave the fates alone.
LEMMA SameFates ==
  ASSUME UNCHANGED <<st, resumed>>, phase # "suspended", phase' # "suspended"
  PROVE  AbsFate' = AbsFate
<1>1. PrimaryIsDone' = PrimaryIsDone
  BY DEF PrimaryIsDone
<1>2. \A b \in Branch : FateOf(b)' = FateOf(b)
  BY DEF FateOf
<1>3. \A b \in Branch : AbsFate'[b] = AbsFate[b]
  BY <1>1, <1>2, AbsFateCases, AbsFateCasesPrime
<1> QED
  BY <1>3, AbsFateCases, AbsFateCasesPrime

\* In a wave the branches with a slot are decided, as the slot says.
LEMMA CollectedFate ==
  ASSUME IInv, phase = "group", NEW b \in DOMAIN Collected
  PROVE  /\ b \in Branch
         /\ AbsFate[b] = IF Collected[b].tag = "ok" THEN "ok" ELSE "failed"
         /\ b \notin Suspended
<1>1. b \in Branch /\ b \in DOMAIN Cached \cup Done
  BY CollectedType DEF Slots
<1>2. Members = Wave
  BY DEF IInv, WaveOK
<1>3. CASE b \in Done
  <2>1. /\ st[b] \in {"completed", "error"}
        /\ Collected[b].tag = IF st[b] = "error" THEN "error" ELSE "ok"
    BY <1>3 DEF Done, Yields, Collected
  <2> QED
    BY <1>1, <2>1, AbsFateCases, FateOfCases DEF Suspended, In
<1>4. CASE b \notin Done
  <2>1. Collected[b] = Cached[b] /\ resumed.kind # "first"
    BY <1>1, <1>4, CachedType DEF Collected
  <2>2. resumed.primary \notin Members /\ resumed.primary \in Branch
    BY <1>2, <2>1 DEF Wave, SecondWave, IInv, TypeOK, FrameOK, Frame
  <2>3. PrimaryIsDone
    BY <2>1, <2>2 DEF PrimaryIsDone, Members
  <2>4. CASE b = resumed.primary
    <3>1. Cached[b].tag = "ok" /\ st[b] = "idle"
      BY <2>1, <2>2, <2>4 DEF Cached, Members
    <3> QED
      BY <1>1, <2>1, <2>3, <2>4, <3>1, AbsFateCases DEF Suspended, In
  <2>5. CASE b # resumed.primary
    <3>1. b \in DOMAIN resumed.kept /\ Cached[b] = resumed.kept[b]
      BY <1>1, <1>4, <2>1, <2>5, CachedType DEF Cached
    <3>2. mode # "race" /\ resumed.kind = "resume"
      BY <2>1, <3>1 DEF IInv, RaceSuspendsUndecided, FrameOK, TypeOK, Frame
    <3>3. st[b] = "idle"
      BY <1>1, <1>4, <3>2, WaveCovers DEF Members
    <3>4. b \notin resumed.siblings
      BY <3>1, <3>2 DEF IInv, NoBranchLost, Partition
    <3>5. FateIn(resumed, b) = IF resumed.kept[b].tag = "ok" THEN "ok" ELSE "failed"
      BY <2>5, <3>1, <3>2, <3>4 DEF FateIn
    <3> QED
      BY <1>1, <2>1, <2>5, <3>1, <3>3, <3>5, AbsFateCases DEF Suspended, In
  <2> QED
    BY <2>4, <2>5
<1> QED
  BY <1>3, <1>4

-----------------------------------------------------------------------------
(* RInv is an invariant.                                                   *)

\* parallel caches and delivers values only.
LEMMA ParallelOk ==
  ASSUME IInv, RInv, mode = "parallel"
  PROVE  AllOk(Collected)
<1> SUFFICES ASSUME NEW b \in DOMAIN Collected PROVE Collected[b].tag = "ok"
  BY DEF AllOk
<1>1. b \in DOMAIN Cached \cup Done
  BY CollectedType
<1>2. CASE b \in Done
  BY <1>2 DEF Done, Yields, Collected
<1>3. CASE b \notin Done
  BY <1>1, <1>3, CachedType DEF Collected, Cached, RInv, AllOk
<1> QED
  BY <1>2, <1>3

\* A primary that no handler fails does not fail.
LEMMA BranchStepNoError ==
  ASSUME IInv, "fail" \notin ResumedOps, NEW b \in Branch, BranchStep(b),
         phase = "primary"
  PROVE  st'[b] # "error"
<1>1. st \in [Branch -> Status] /\ "fail" \notin OpsNow
  BY DEF IInv, TypeOK, OpsNow
<1>2. \A status, at, next : Become(b, status, at, next) => st'[b] = status
  BY <1>1 DEF Become
<1>3. \A op : Answer(b, op) =>
        \E status \in {"ready", "paused", "suspended", "halted"} : \E at, next :
          Become(b, status, at, next)
  BY <1>1 DEF Answer, Settle
<1>4. ~Launch(b) /\ ~Throw(b)
  BY <1>1 DEF Launch, Throw
<1>5. CASE \E op \in Ops : HandlerAnswersNow(b, op) \/ HandlerAnswersLater(b, op)
  BY <1>2, <1>3, <1>5 DEF HandlerAnswersNow, HandlerAnswersLater
<1>6. CASE AutoSuspend(b)
  BY <1>2, <1>6 DEF AutoSuspend, Settle
<1>7. CASE HandlerDefers(b) \/ Pause(b)
  BY <1>2, <1>7 DEF HandlerDefers, Pause
<1>8. CASE Wake(b)
  BY <1>2, <1>8 DEF Wake
<1>9. CASE Return(b)
  BY <1>2, <1>9 DEF Return, Settle
<1> QED
  BY <1>4, <1>5, <1>6, <1>7, <1>8, <1>9 DEF BranchStep

\* The frame stored when the primary suspends caches what its own frame cached.
LEMMA PrimaryFrameParts ==
  ASSUME IInv, NEW captured
  PROVE  LET f == PrimaryFrame(captured)
         IN  /\ f.kind = resumed.kind /\ f.primary = resumed.primary
             /\ f.kept = resumed.kept /\ f.siblings = resumed.siblings
<1>1. resumed \in Frame
  BY DEF IInv, TypeOK
<1> QED
  BY <1>1 DEF PrimaryFrame, Frame

LEMMA NextRInv ==
  ASSUME IInv, RInv, "fail" \notin ResumedOps, [Next]_vars
  PROVE  RInv'
<1> USE DEF RInv
<1>1. ASSUME NEW b \in Branch, BranchStep(b)
      PROVE  RInv'
  <2>1. UNCHANGED GroupVars
    BY <1>1, BranchStepFrame
  <2>2. phase = "primary" => b = resumed.primary
    <3>1. st[b] # "idle"
      BY <1>1, StatusFacts DEF BranchStep, Launch, Queued, In, AutoSuspend, Performing,
         HandlerDefers, HandlerAnswersNow, HandlerAnswersLater, Pause, Wake,
         Return, Throw, Answer, Settle
    <3> QED
      BY <3>1 DEF IInv, PrimaryOK, Members
  <2> QED
    BY <1>1, <2>1, <2>2, BranchStepNoError DEF GroupVars
<1>2. CASE \E b \in Branch : Observe(b)
  BY <1>2 DEF Observe, BranchVars
<1>3. CASE CollectError \/ CollectValue \/ PrimaryThrows \/ PrimaryHalts
  BY <1>3 DEF CollectError, CollectValue, PrimaryThrows, PrimaryHalts, Deliver
<1>4. CASE CollectSuspension
  <2>1. mode = "parallel" => AllOk(snapshot'.kept)
    BY <1>4, ParallelOk DEF CollectSuspension, SuspendedFrame
  <2> QED
    BY <1>4, <2>1 DEF CollectSuspension, AllObserved
<1>5. CASE PrimaryReturns
  BY <1>5 DEF PrimaryReturns, PrimaryHas
<1>6. CASE PrimarySuspends
  BY <1>6, PrimaryFrameParts DEF PrimarySuspends, PrimaryHas
<1>7. ASSUME NEW status \in {"ready", "atEffect"}, NEW at, NEW fired,
             Rerun(status, at, fired)
      PROVE  RInv'
  <2>1. snapshot.primary \in Branch
    BY DEF IInv, TypeOK, Frame
  <2> QED
    BY <1>7, <2>1 DEF Rerun
<1>8. CASE Resume \/ Retrigger
  BY <1>7, <1>8 DEF Resume, Retrigger
<1>9. CASE HostRestart
  BY <1>9 DEF HostRestart
<1>10. CASE ParentAborts
  BY <1>10 DEF ParentAborts, BranchVars
<1>11. ASSUME NEW b \in Branch, Checkpoint(b)
       PROVE  RInv'
  <2>1. AllOk(NoSlots)
    BY NoSlotsType DEF AllOk
  <2> QED
    BY <1>11, <2>1, PrimaryFrameParts DEF Checkpoint, BranchVars, ReRunFrame
<1>12. CASE Terminated \/ UNCHANGED vars
  BY <1>12 DEF Terminated, vars
<1> QED
  BY <1>1, <1>2, <1>3, <1>4, <1>5, <1>6, <1>8, <1>9, <1>10, <1>11, <1>12
     DEF Next, Progress, GroupStep, PrimaryStep, HostStep

\* RInv holds in every reachable state.
LEMMA RInvariant ==
  ASSUME "halt" \notin GroupOps, "fail" \notin ResumedOps
  PROVE  Spec => []RInv
<1>1. Init => RInv
  BY NoSlotsType DEF Init, RInv, NoFrame, AllOk
<1>2. IInv /\ RInv /\ [Next]_vars => RInv'
  BY NextRInv
<1> QED
  BY <1>1, <1>2, InductiveInvariant, PTL DEF Spec

-----------------------------------------------------------------------------
(* The steps.                                                              *)

\* The state of the primitive that a state of the group stands for.
AbsStored == [b \in Branch |-> FateIn(snapshot, b)]
AbsResult == [type |-> outcome.type,
              tags |-> [b \in DOMAIN outcome.slots |-> outcome.slots[b].tag]]

LEMMA NothingYet == outcome = NoOutcome => AbsResult = Primitive!NoResult
BY NoSlotsType DEF AbsResult, NoOutcome, Primitive!NoResult, Primitive!NoTags

\* A group at its launch is a primitive at its start.
LEMMA PrimitiveInit ==
  ASSUME Init
  PROVE  Primitive!Init
<1>1. AbsFate = [b \in Branch |-> "open"]
  <2>1. \A b \in Branch : st[b] = "queued"
    BY DEF Init
  <2>2. phase # "suspended"
    BY DEF Init
  <2>3. \A b \in Branch : AbsFate[b] = "open"
    BY <2>1, <2>2, AbsFateCases, FateOfCases
  <2> QED
    BY <2>3, AbsFateCases
<1>2. AbsStored = [b \in Branch |-> "open"]
  BY NoFrameType DEF Init, AbsStored, FateIn
<1>3. AbsResult = Primitive!NoResult
  BY NothingYet DEF Init
<1>4. mode \in Modes
  BY DEF Init
<1> QED
  BY <1>1, <1>2, <1>3, <1>4 DEF Primitive!Init, Primitive!AllOpen, AbsStored, AbsResult

LEMMA StutterStep ==
  ASSUME UNCHANGED <<mode, outcome, snapshot>>, AbsFate' = AbsFate
  PROVE  [Primitive!Next]_(Primitive!vars)
BY DEF Primitive!vars, FateIn

\* A branch that settles with a value or an error decides its fate.
LEMMA BranchRefines ==
  ASSUME IInv, RInv, NEW b \in Branch, BranchStep(b)
  PROVE  [Primitive!Next]_(Primitive!vars)
<1>1. Live /\ UNCHANGED GroupVars
  BY BranchStepFrame
<1>2. st \in [Branch -> Status] /\ st[b] \in Branch \cup Status
  BY DEF IInv, TypeOK
<1>3. PICK status \in Status \ {"idle"} :
       \E at, next : Become(b, status, at, next)
  <2>1. LaunchStatus \in Status \ {"idle"}
    BY StatusFacts DEF LaunchStatus
  <2> QED
    BY <2>1, StatusFacts DEF BranchStep, Launch, AutoSuspend, HandlerDefers,
       HandlerAnswersNow, HandlerAnswersLater, Pause, Wake, Return, Throw, Answer,
       Settle
<1>4. st[b] \notin {"idle", "completed", "error"}
  BY StatusFacts DEF BranchStep, Launch, Queued, In, AutoSuspend, Performing,
     HandlerDefers, HandlerAnswersNow, HandlerAnswersLater, Pause, Wake,
     Return, Throw, Answer, Settle
<1>5. \A c \in Branch : st'[c] = IF c = b THEN status ELSE st[c]
  BY <1>2, <1>3 DEF Become
<1>6. phase # "suspended" /\ phase' # "suspended"
  BY <1>1 DEF Live, GroupVars
<1>7. ASSUME NEW c \in Branch, c # b
      PROVE  AbsFate'[c] = AbsFate[c]
  <2>1. st'[c] = st[c] /\ resumed' = resumed
    BY <1>1, <1>5, <1>7 DEF GroupVars
  <2>2. FateOf(c)' = FateOf(c)
    BY <2>1 DEF FateOf
  <2>3. c = resumed.primary => PrimaryIsDone' = PrimaryIsDone
    BY <2>1 DEF PrimaryIsDone
  <2> QED
    BY <1>6, <2>1, <2>2, <2>3, AbsFateCases, AbsFateCasesPrime
<1>8. AbsFate[b] = "open" /\ AbsFate'[b] \in {"open", "ok", "failed"}
  BY <1>4, <1>5, <1>6, AbsFateCases, AbsFateCasesPrime, FateOfCases, FateOfCasesPrime
<1>9. AbsFate' = [AbsFate EXCEPT ![b] = AbsFate'[b]]
  BY <1>7, AbsFateCases, AbsFateCasesPrime
<1>10. CASE AbsFate'[b] = "open"
  <2>1. AbsFate' = AbsFate
    BY <1>7, <1>8, <1>10, AbsFateCases, AbsFateCasesPrime
  <2> QED
    BY <1>1, <2>1, StutterStep DEF GroupVars
<1>11. CASE AbsFate'[b] \in {"ok", "failed"}
  <2>1. AbsResult = Primitive!NoResult
    BY <1>1, NothingYet DEF RInv, Live
  <2>2. Primitive!Decide(b)
    BY <1>1, <1>8, <1>9, <1>11, <2>1 DEF Primitive!Decide, AbsResult, GroupVars, FateIn
  <2> QED
    BY <2>2 DEF Primitive!Next
<1> QED
  BY <1>8, <1>10, <1>11

\* A delivery of what the mode promises.
LEMMA DeliverRefines ==
  ASSUME RInv, NEW type, NEW slots, phase # "suspended", phase # "ended",
         Deliver(type, slots),
         [type |-> type, tags |-> [b \in DOMAIN slots |-> slots[b].tag]]
           \in Primitive!Promised
  PROVE  [Primitive!Next]_(Primitive!vars)
<1>1. AbsResult = Primitive!NoResult
  BY NothingYet DEF RInv
<1>2. AbsResult' = [type |-> type, tags |-> [b \in DOMAIN slots |-> slots[b].tag]]
  BY DEF AbsResult, Deliver
<1>3. AbsFate' = AbsFate
  BY SameFates DEF Deliver
<1>4. Primitive!Deliver
  BY <1>1, <1>2, <1>3 DEF Primitive!Deliver, AbsResult, Deliver, FateIn
<1> QED
  BY <1>4 DEF Primitive!Next

\* A snapshot that forgets outcomes but invents none.
LEMMA StoreRefines ==
  ASSUME RInv, phase # "ended", UNCHANGED <<mode, outcome>>, AbsFate' = AbsFate,
         \A b \in Branch : FateIn(snapshot', b) \in {"open", AbsFate[b]}
  PROVE  [Primitive!Next]_(Primitive!vars)
<1>1. AbsResult = Primitive!NoResult /\ AbsResult' = AbsResult
  BY NothingYet DEF RInv, AbsResult
<1>2. AbsStored' = [b \in Branch |-> FateIn(snapshot', b)]
  BY DEF AbsStored, FateIn
<1>3. AbsStored' \in [Branch -> Primitive!Fate]
  BY <1>2, FateInType DEF Primitive!Fate
<1>4. \A b \in Branch : AbsStored'[b] \in {"open", AbsFate[b]}
  BY <1>2
<1>5. Primitive!Store
  BY <1>1, <1>3, <1>4 DEF Primitive!Store, AbsStored, AbsResult
<1> QED
  BY <1>5 DEF Primitive!Next

\* The host goes back to a snapshot.
LEMMA RewindRefines ==
  ASSUME UNCHANGED <<mode, snapshot>>, outcome' = NoOutcome,
         \A b \in Branch : AbsFate'[b] = FateIn(snapshot, b)
  PROVE  [Primitive!Next]_(Primitive!vars)
<1>1. AbsFate' = AbsStored
  BY AbsFateCasesPrime DEF AbsStored
<1>2. AbsResult' = Primitive!NoResult
  BY NoSlotsType DEF AbsResult, NoOutcome, Primitive!NoResult, Primitive!NoTags
<1>3. Primitive!Rewind
  BY <1>1, <1>2 DEF Primitive!Rewind, AbsStored, AbsResult, FateIn
<1> QED
  BY <1>3 DEF Primitive!Next

\* An error: of a branch in parallel, of all the branches in race.
LEMMA CollectErrorRefines ==
  ASSUME IInv, RInv, CollectError
  PROVE  [Primitive!Next]_(Primitive!vars)
<1>1. phase = "group" /\ Deliver("error", NoSlots)
  BY DEF CollectError, AllObserved
<1>2. [type |-> "error", tags |-> [b \in DOMAIN NoSlots |-> NoSlots[b].tag]]
        = [type |-> "error", tags |-> Primitive!NoTags]
  BY NoSlotsType DEF Primitive!NoTags
<1>3. \A b \in Branch : st[b] = "error" => AbsFate[b] = "failed"
  BY <1>1, AbsFateCases, FateOfCases
<1>4. CASE mode = "parallel"
  <2>1. PICK b \in Branch : st[b] = "error"
    BY <1>4 DEF CollectError, Throws, In
  <2>2. AbsFate[b] = "failed"
    BY <1>3, <2>1
  <2>3. [type |-> "error", tags |-> Primitive!NoTags] \in Primitive!Promised
    BY <1>4, <2>1, <2>2 DEF Primitive!Promised
  <2> QED
    BY <1>1, <1>2, <2>3, DeliverRefines
<1>5. CASE mode = "race"
  <2>1. winner = NoBranch /\ DOMAIN Cached = {} /\ Suspended = {}
    BY <1>5 DEF CollectError, Throws, Decided
  <2>2. resumed.kind = "first"
    BY <2>1, CachedType
  <2>3. Members = Branch
    BY <1>1, <2>2 DEF IInv, WaveOK, Wave
  <2>4. \A b \in Branch : st[b] \in Settled \ {"completed", "suspended", "halted"}
    BY <1>1, <1>5, <2>1, <2>2, <2>3
       DEF CollectError, AllObserved, IInv, WaveOK, WinnerOK, FirstRace, Suspended, In
  <2>5. \A b \in Branch : AbsFate[b] = "failed"
    BY <1>3, <2>4, StatusFacts
  <2>6. [type |-> "error", tags |-> Primitive!NoTags] \in Primitive!Promised
    BY <1>5, <2>5 DEF Primitive!Promised
  <2> QED
    BY <1>1, <1>2, <2>6, DeliverRefines
<1> QED
  BY <1>4, <1>5 DEF CollectError, Throws

\* Values: every branch's, or in a race the winner's or the resumed branch's.
LEMMA CollectValueRefines ==
  ASSUME IInv, RInv, CollectValue
  PROVE  [Primitive!Next]_(Primitive!vars)
<1> DEFINE tags == [b \in DOMAIN Result |-> Result[b].tag]
<1>1. phase = "group" /\ Deliver("value", Result)
  BY DEF CollectValue, AllObserved
<1>2. \A b \in DOMAIN Collected :
        /\ b \in Branch
        /\ AbsFate[b] = IF Collected[b].tag = "ok" THEN "ok" ELSE "failed"
  BY <1>1, CollectedFate
<1>3. \A b \in DOMAIN Collected : Collected[b].tag \in {"ok", "error"}
  BY CollectedType DEF Slots, Value
<1>4. CASE mode = "race"
  <2>1. RaceBranch \in DOMAIN Collected
    BY <1>4, RaceHasValue, CollectedType
  <2>2. Collected[RaceBranch].tag = "ok"
    <3>1. CASE RaceBranch \in Done
      BY <1>4, <3>1 DEF Done, Yields, Collected
    <3>2. CASE RaceBranch \notin Done
      <4>1. resumed.kind # "first" /\ DOMAIN resumed.kept = {}
        BY <1>4, <2>1, <3>2, CollectedType, CachedType DEF IInv, RaceSuspendsUndecided
      <4>2. RaceBranch = resumed.primary /\ RaceBranch \in DOMAIN Cached
        BY <2>1, <3>2, <4>1, CollectedType, CachedType
      <4>3. Collected[RaceBranch] = Cached[RaceBranch]
        BY <3>2, <4>2 DEF Collected
      <4> QED
        BY <4>1, <4>2, <4>3 DEF Cached
    <3> QED
      BY <3>1, <3>2
  <2>3. RaceBranch \in Branch /\ AbsFate[RaceBranch] = "ok"
    BY <1>2, <2>1, <2>2
  <2>4. tags = [b \in {RaceBranch} |-> "ok"]
    BY <1>4, <2>2 DEF Result
  <2>5. [type |-> "value", tags |-> tags] \in Primitive!Promised
    BY <1>4, <2>3, <2>4 DEF Primitive!Promised
  <2> QED
    BY <1>1, <2>5, DeliverRefines
<1>5. CASE mode # "race"
  <2>1. Suspended = {}
    BY <1>5 DEF CollectValue, Suspends
  <2>2. DOMAIN Collected = Branch
    BY <1>5, <2>1, WaveCovers, MembersSettled, CollectedType
       DEF CollectValue, AllObserved
  <2>3. Result = Collected
    BY <1>5 DEF Result
  <2>4. CASE mode = "parallel"
    <3>1. \A b \in Branch : Collected[b].tag = "ok" /\ AbsFate[b] = "ok"
      BY <1>2, <2>2, <2>4, ParallelOk DEF AllOk
    <3>2. tags = [b \in Branch |-> "ok"]
      BY <2>2, <2>3, <3>1
    <3>3. [type |-> "value", tags |-> tags] \in Primitive!Promised
      BY <2>4, <3>1, <3>2 DEF Primitive!Promised
    <3> QED
      BY <1>1, <3>3, DeliverRefines
  <2>5. CASE mode = "settled"
    <3>1. \A b \in Branch : /\ AbsFate[b] # "open"
                            /\ Collected[b].tag = IF AbsFate[b] = "ok" THEN "ok" ELSE "error"
      BY <1>2, <1>3, <2>2
    <3>2. tags = [b \in Branch |-> IF AbsFate[b] = "ok" THEN "ok" ELSE "error"]
      BY <2>2, <2>3, <3>1
    <3>3. [type |-> "value", tags |-> tags] \in Primitive!Promised
      BY <2>5, <3>1, <3>2 DEF Primitive!Promised
    <3> QED
      BY <1>1, <3>3, DeliverRefines
  <2> QED
    BY <1>5, <2>4, <2>5, ModesAssumption DEF IInv, TypeOK
<1> QED
  BY <1>4, <1>5

\* The composed frame stands for exactly the fates of the wave it ends.
LEMMA CollectSuspensionRefines ==
  ASSUME IInv, RInv, CollectSuspension
  PROVE  [Primitive!Next]_(Primitive!vars)
<1>1. PICK p \in Suspended : snapshot' = SuspendedFrame(p)
  BY DEF CollectSuspension
<1>2. phase = "group" /\ phase' = "suspended" /\ UNCHANGED <<mode, outcome>>
  BY DEF CollectSuspension, AllObserved
<1>3. \A b \in DOMAIN Collected :
        /\ b \in Branch
        /\ AbsFate[b] = IF Collected[b].tag = "ok" THEN "ok" ELSE "failed"
        /\ b \notin Suspended
  BY <1>2, CollectedFate
<1>4. ASSUME NEW b \in Branch
      PROVE  FateIn(snapshot', b) = AbsFate[b]
  <2>1. CASE b \in Suspended
    <3>1. AbsFate[b] = "open"
      BY <1>2, <2>1, AbsFateCases, FateOfCases DEF Suspended, In
    <3> QED
      BY <1>1, <2>1, <3>1 DEF FateIn, SuspendedFrame
  <2>2. CASE b \in DOMAIN Collected
    BY <1>1, <1>3, <2>2 DEF FateIn, SuspendedFrame
  <2>3. CASE b \notin Suspended /\ b \notin DOMAIN Collected
    <3>1. mode = "race"
      BY <2>3, WaveCovers, MembersSettled, CollectedType
         DEF CollectSuspension, AllObserved, Suspends
    <3>2. winner = NoBranch /\ resumed.kind = "first"
      BY <3>1, CachedType DEF CollectSuspension, Suspends, Decided
    <3>3. st[b] = "error"
      <4>1. b \in observed /\ st[b] \in Settled /\ st[b] # "halted"
        BY <1>2, <3>2 DEF CollectSuspension, AllObserved, IInv, WaveOK, Wave
      <4>2. st[b] # "completed" /\ st[b] # "suspended"
        BY <1>2, <2>3, <3>1, <3>2, <4>1
           DEF IInv, WinnerOK, FirstRace, Suspended, In
      <4> QED
        BY <4>1, <4>2, StatusFacts
    <3>4. AbsFate[b] = "failed"
      BY <1>2, <3>3, AbsFateCases, FateOfCases
    <3> QED
      BY <1>1, <2>3, <3>4 DEF FateIn, SuspendedFrame
  <2> QED
    BY <2>1, <2>2, <2>3
<1>5. AbsFate' = AbsFate
  BY <1>2, <1>4, AbsFateCases, AbsFateCasesPrime
<1> QED
  BY <1>2, <1>4, <1>5, StoreRefines

\* While the primary is alone, it is open or done and the frame says the rest.
LEMMA PrimaryFates ==
  ASSUME IInv, RInv, phase = "primary", NEW b \in Branch
  PROVE  AbsFate[b] = IF b = resumed.primary THEN FateOf(b) ELSE FateIn(resumed, b)
<1>1. resumed.primary \in Branch /\ Members = {resumed.primary}
  BY DEF IInv, TypeOK, PrimaryOK, Frame
<1>2. st[resumed.primary] # "idle" /\ (b # resumed.primary => st[b] = "idle")
  BY <1>1 DEF Members
<1> QED
  BY <1>1, <1>2, AbsFateCases DEF PrimaryIsDone

\* The second wave starts with the branches the frame leaves open.
LEMMA PrimaryReturnsRefines ==
  ASSUME IInv, RInv, PrimaryReturns
  PROVE  [Primitive!Next]_(Primitive!vars)
<1>1. phase = "primary" /\ phase' = "group" /\ st[resumed.primary] = "completed"
      /\ UNCHANGED <<mode, resumed, snapshot, outcome>>
  BY DEF PrimaryReturns, PrimaryHas
<1>2. \A b \in Branch : st'[b] = IF b \in SecondWave THEN "queued" ELSE "idle"
  BY DEF PrimaryReturns
<1>3. resumed \in Frame /\ resumed.primary \in Branch /\ resumed.kind # "first"
      /\ FrameOK(resumed)
  BY <1>1 DEF IInv, TypeOK, PrimaryOK, Frame
<1>4. resumed.primary \notin SecondWave
  BY <1>3 DEF FrameOK, SecondWave
<1>5. PrimaryIsDone'
  BY <1>1, <1>2, <1>3, <1>4 DEF PrimaryIsDone
<1>6. ASSUME NEW b \in Branch
      PROVE  AbsFate'[b] = AbsFate[b]
  <2>1. CASE b = resumed.primary
    BY <1>1, <1>2, <1>4, <1>5, <2>1, PrimaryFates, AbsFateCasesPrime, FateOfCases
  <2>2. CASE b # resumed.primary /\ b \in SecondWave
    <3>1. FateIn(resumed, b) = "open"
      BY <2>2 DEF SecondWave, FateIn
    <3>2. AbsFate'[b] = "open"
      BY <1>1, <1>2, <2>2, AbsFateCasesPrime, FateOfCasesPrime
    <3> QED
      BY <1>1, <2>2, <3>1, <3>2, PrimaryFates
  <2>3. CASE b # resumed.primary /\ b \notin SecondWave
    BY <1>1, <1>2, <2>3, PrimaryFates, AbsFateCasesPrime
  <2> QED
    BY <2>1, <2>2, <2>3
<1>7. AbsFate' = AbsFate
  BY <1>6, AbsFateCases, AbsFateCasesPrime
<1> QED
  BY <1>1, <1>7, StutterStep

\* The primary suspends again: its frame keeps what it stood for.
LEMMA PrimarySuspendsRefines ==
  ASSUME IInv, RInv, PrimarySuspends
  PROVE  [Primitive!Next]_(Primitive!vars)
<1>1. phase = "primary" /\ phase' = "suspended" /\ st[resumed.primary] = "suspended"
      /\ UNCHANGED <<mode, outcome>> /\ snapshot' = PrimaryFrame(TRUE)
  BY DEF PrimarySuspends, PrimaryHas
<1>2. ASSUME NEW b \in Branch
      PROVE  FateIn(snapshot', b) = AbsFate[b]
  <2>1. FateIn(snapshot', b) = FateIn(resumed, b)
    BY <1>1, PrimaryFrameParts DEF FateIn
  <2>2. b = resumed.primary => FateIn(resumed, b) = "open" /\ FateOf(b) = "open"
    BY <1>1, FateOfCases DEF FateIn
  <2> QED
    BY <1>1, <2>1, <2>2, PrimaryFates
<1>3. \A b \in Branch : AbsFate'[b] = AbsFate[b]
  BY <1>1, <1>2, AbsFateCasesPrime
<1>4. AbsFate' = AbsFate
  BY <1>3, AbsFateCases, AbsFateCasesPrime
<1> QED
  BY <1>1, <1>2, <1>4, StoreRefines

\* A primary halts the program; that it throws is excluded.
LEMMA PrimaryEndsRefines ==
  ASSUME IInv, RInv, PrimaryHalts \/ PrimaryThrows
  PROVE  [Primitive!Next]_(Primitive!vars)
<1>1. phase = "primary" /\ Deliver("halted", NoSlots)
  BY DEF PrimaryHalts, PrimaryThrows, PrimaryHas, RInv
<1>2. AbsResult = Primitive!NoResult
  BY <1>1, NothingYet DEF RInv
<1>3. AbsResult' = [type |-> "halted", tags |-> Primitive!NoTags]
  BY <1>1, NoSlotsType DEF Deliver, AbsResult, Primitive!NoTags
<1>4. AbsFate' = AbsFate
  BY <1>1, SameFates DEF Deliver
<1>5. Primitive!Halt
  BY <1>1, <1>2, <1>3, <1>4 DEF Primitive!Halt, AbsResult, Deliver, FateIn
<1> QED
  BY <1>5 DEF Primitive!Next

\* resume and retrigger go back to the snapshot.
LEMMA RerunRefines ==
  ASSUME IInv, NEW status \in {"ready", "atEffect"}, NEW at, NEW fired,
         Rerun(status, at, fired)
  PROVE  [Primitive!Next]_(Primitive!vars)
<1>1. phase' = "primary" /\ resumed' = snapshot /\ snapshot.primary \in Branch
      /\ UNCHANGED <<mode, snapshot>> /\ outcome' = NoOutcome
  BY DEF Rerun, IInv, TypeOK, Frame
<1>2. \A b \in Branch : st'[b] = IF b = snapshot.primary THEN status ELSE "idle"
  BY DEF Rerun
<1>3. ~PrimaryIsDone'
  BY <1>1, <1>2 DEF PrimaryIsDone
<1>4. ASSUME NEW b \in Branch
      PROVE  AbsFate'[b] = FateIn(snapshot, b)
  <2>1. CASE b = snapshot.primary
    <3>1. FateIn(snapshot, b) = "open"
      BY <2>1 DEF FateIn
    <3> QED
      BY <1>1, <1>2, <2>1, <3>1, AbsFateCasesPrime, FateOfCasesPrime
  <2>2. CASE b # snapshot.primary
    BY <1>1, <1>2, <1>3, <2>2, AbsFateCasesPrime
  <2> QED
    BY <2>1, <2>2
<1> QED
  BY <1>1, <1>4, RewindRefines

\* So does a restart of the host process.
LEMMA HostRestartRefines ==
  ASSUME HostRestart
  PROVE  [Primitive!Next]_(Primitive!vars)
BY AbsFateCasesPrime, RewindRefines DEF HostRestart

\* A checkpoint in a wave forgets every outcome, one of the primary none.
LEMMA CheckpointRefines ==
  ASSUME IInv, RInv, NEW b \in Branch, Checkpoint(b)
  PROVE  [Primitive!Next]_(Primitive!vars)
<1>1. Live /\ st[b] = "waiting" /\ UNCHANGED <<mode, phase, st, resumed, outcome>>
  BY DEF Checkpoint, BranchVars
<1>2. AbsFate' = AbsFate
  BY <1>1, SameFates DEF Live
<1>3. ASSUME NEW c \in Branch
      PROVE  FateIn(snapshot', c) \in {"open", AbsFate[c]}
  <2>1. CASE phase = "group"
    BY <2>1 DEF Checkpoint, ReRunFrame, FateIn
  <2>2. CASE phase = "primary"
    <3>1. FateIn(snapshot', c) = FateIn(resumed, c)
      BY <2>2, PrimaryFrameParts DEF Checkpoint, FateIn
    <3>2. c = resumed.primary => FateIn(resumed, c) = "open"
      BY DEF FateIn
    <3> QED
      BY <2>2, <3>1, <3>2, PrimaryFates
  <2> QED
    BY <1>1, <2>1, <2>2 DEF Live
<1> QED
  BY <1>1, <1>2, <1>3, StoreRefines DEF Live

\* Every step of the group is a step of the primitive or none.
LEMMA StepRefines ==
  ASSUME IInv, RInv, [Next]_vars
  PROVE  [Primitive!Next]_(Primitive!vars)
<1>1. CASE \E b \in Branch : BranchStep(b)
  BY <1>1, BranchRefines
<1>2. ASSUME NEW b \in Branch, Observe(b)
      PROVE  [Primitive!Next]_(Primitive!vars)
  BY <1>2, SameFates, StutterStep DEF Observe, BranchVars
<1>3. CASE CollectError
  BY <1>3, CollectErrorRefines
<1>4. CASE CollectSuspension
  BY <1>4, CollectSuspensionRefines
<1>5. CASE CollectValue
  BY <1>5, CollectValueRefines
<1>6. CASE PrimaryReturns
  BY <1>6, PrimaryReturnsRefines
<1>7. CASE PrimaryThrows \/ PrimaryHalts
  BY <1>7, PrimaryEndsRefines
<1>8. CASE PrimarySuspends
  BY <1>8, PrimarySuspendsRefines
<1>9. CASE Resume \/ Retrigger
  BY <1>9, RerunRefines DEF Resume, Retrigger
<1>10. CASE HostRestart
  BY <1>10, HostRestartRefines
<1>11. CASE ParentAborts
  BY <1>11, SameFates, StutterStep DEF ParentAborts, BranchVars, Live
<1>12. CASE \E b \in Branch : Checkpoint(b)
  BY <1>12, CheckpointRefines
<1>13. CASE Terminated \/ UNCHANGED vars
  <2>1. UNCHANGED vars
    BY <1>13 DEF Terminated
  <2>2. AbsFate' = AbsFate
    BY <2>1 DEF vars, AbsFate, FateIn, FateOf, PrimaryIsDone
  <2> QED
    BY <2>1, <2>2, StutterStep DEF vars
<1> QED
  BY <1>1, <1>2, <1>3, <1>4, <1>5, <1>6, <1>7, <1>8, <1>9, <1>10, <1>11, <1>12, <1>13
     DEF Next, Progress, GroupStep, PrimaryStep, HostStep

\* Whatever the number of branches, the waves, the frames and the replays of a group
\* deliver only what parallel, race and settled promise for its branches' outcomes.
THEOREM GroupImplementsPrimitive ==
  ASSUME "halt" \notin GroupOps, "fail" \notin ResumedOps
  PROVE  Spec => ImplementsPrimitive
<1>1. Init => Primitive!Init
  BY PrimitiveInit
<1>2. IInv /\ RInv /\ [Next]_vars => [Primitive!Next]_(Primitive!vars)
  BY StepRefines
<1> QED
  BY <1>1, <1>2, InductiveInvariant, RInvariant, PTL
     DEF Spec, ImplementsPrimitive, Primitive!Spec
=============================================================================
