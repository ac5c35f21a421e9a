------------------------ MODULE ParallelGroup_proofs ------------------------
(***************************************************************************)
(* Proofs that, for every number of branches and every bound on their      *)
(* effects, no suspension of a parallel or settled group loses a branch    *)
(* and no array it delivers has a missing slot, as long as no handler      *)
(* halts a branch of a wave.                                               *)
(***************************************************************************)
EXTENDS ParallelGroup, TLAPS

\* Branches are numbered from 0; NoBranch is none of them.
LEMMA BranchFacts ==
  /\ 0 \in Branch
  /\ NoBranch \notin Branch
  /\ Branch \subseteq Int
  /\ 0 \in Pos
BY NAssumption, EffectsAssumption DEF Branch, NoBranch, Pos

\* The empty array of results.
LEMMA NoSlotsType == NoSlots \in Slots /\ DOMAIN NoSlots = {}
BY DEF NoSlots, Slots

\* The frame of a group that was never resumed.
LEMMA NoFrameType == NoFrame \in Frame /\ NoFrame.kind = "first"
BY BranchFacts, NoSlotsType DEF NoFrame, Frame, Start

\* The statuses, spelled out for the provers.
LEMMA StatusFacts ==
  /\ {"idle", "queued", "ready", "atEffect", "waiting", "paused", "completed",
      "error", "suspended", "halted"} = Status
  /\ Settled = {"completed", "error", "suspended", "halted"}
BY DEF Status, Settled

\* A group at its launch.
LEMMA InitInv == Init => IInv
<1> SUFFICES ASSUME Init PROVE IInv
  OBVIOUS
<1>1. TypeOK
  BY BranchFacts, NoSlotsType, NoFrameType, StatusFacts
     DEF Init, TypeOK, Start, NoOutcome, Outcome, SignalledAtStart, NoBranch
<1>2. FrameOK(snapshot) /\ FrameOK(resumed) /\ NoBranchLost
  BY NoFrameType DEF Init, FrameOK, NoBranchLost, Partition
<1>3. WaveOK
  BY NoFrameType DEF Init, WaveOK, Wave, Members
<1>4. PrimaryOK /\ SuspendedOK
  BY DEF Init, PrimaryOK, SuspendedOK
<1>5. AtEffectOK
  BY NoFrameType DEF Init, AtEffectOK
<1>6. ResultIsComplete
  BY DEF Init, ResultIsComplete, NoOutcome
<1>7. WinnerOK /\ RaceSuspendsUndecided
  BY NoSlotsType DEF Init, WinnerOK, RaceSuspendsUndecided, NoFrame
<1> QED
  BY <1>1, <1>2, <1>3, <1>4, <1>5, <1>6, <1>7 DEF IInv

\* A step of one branch that is neither idle nor settled, to a status that the
\* phase allows.
LEMMA BecomeInv ==
  ASSUME IInv,
         NEW b \in Branch, NEW status \in Status \ {"idle", "queued"},
         NEW at \in Pos, NEW next \in Branch \cup {NoBranch},
         st[b] \notin Settled \cup {"idle"},
         phase = "group" => status # "halted",
         status \in {"atEffect", "waiting", "suspended"} => at < Effects,
         Become(b, status, at, next)
  PROVE  IInv'
<1> USE DEF GroupVars, Become
<1>1. TypeOK'
  BY DEF IInv, TypeOK
<1>2. FrameOK(snapshot)' /\ FrameOK(resumed)' /\ NoBranchLost'
  BY DEF IInv, FrameOK, NoBranchLost, Partition
<1>3. WaveOK'
  <2> SUFFICES ASSUME phase = "group" PROVE WaveOK'
    BY DEF WaveOK
  <2>1. st \in [Branch -> Status] /\ st' = [st EXCEPT ![b] = status]
    BY DEF IInv, TypeOK
  <2>2. Members' = Members
    BY <2>1, StatusFacts DEF Members
  <2>3. Wave' = Wave
    BY DEF Wave, SecondWave
  <2>4. \A c \in Branch : st'[c] # "halted"
    BY <2>1 DEF IInv, WaveOK
  <2>5. \A c \in observed' : st'[c] \in Settled
    <3> TAKE c \in observed'
    <3>1. c \in Branch /\ st[c] \in Settled
      BY DEF IInv, WaveOK, TypeOK
    <3> QED
      BY <2>1, <3>1
  <2> QED
    BY <2>2, <2>3, <2>4, <2>5 DEF IInv, WaveOK
<1>4. PrimaryOK' /\ SuspendedOK'
  BY StatusFacts DEF IInv, PrimaryOK, SuspendedOK, Members, TypeOK
<1>5. AtEffectOK'
  BY DEF IInv, AtEffectOK, TypeOK
<1>6. ResultIsComplete' /\ RaceSuspendsUndecided'
  BY DEF IInv, ResultIsComplete, RaceSuspendsUndecided
<1>7. WinnerOK'
  <2> SUFFICES ASSUME phase = "group" PROVE WinnerOK'
    BY DEF WinnerOK
  <2>1. st \in [Branch -> Status] /\ st' = [st EXCEPT ![b] = status]
    BY DEF IInv, TypeOK
  <2>2. winner # NoBranch => winner \in Branch /\ winner # b /\ st[winner] = "completed"
    BY StatusFacts DEF IInv, WinnerOK, TypeOK
  <2>3. \A c \in observed : c \in Branch /\ c # b
    BY DEF IInv, WaveOK, TypeOK
  <2> QED
    BY <2>1, <2>2, <2>3 DEF IInv, WinnerOK, FirstRace
<1> QED
  BY <1>1, <1>2, <1>3, <1>4, <1>5, <1>6, <1>7 DEF IInv

\* An answer of a handler settles a waiting or performing branch, or lets it go on.
LEMMA AnswerInv ==
  ASSUME IInv, "halt" \notin GroupOps,
         NEW b \in Branch, NEW op,
         st[b] \in {"ready", "atEffect", "waiting"}, pos[b] < Effects,
         phase \in {"group", "primary"},
         Answer(b, op)
  PROVE  IInv'
<1>1. pos[b] \in Pos /\ pos[b] + 1 \in Pos
  BY EffectsAssumption DEF IInv, TypeOK, Pos
<1>2. st[b] \notin Settled \cup {"idle"}
  BY StatusFacts
<1>3. CASE op = "resume" /\ Become(b, "ready", pos[b] + 1, b)
  BY <1>1, <1>2, <1>3, BecomeInv, StatusFacts
<1>4. CASE op = "resume" /\ Become(b, "paused", pos[b] + 1, NoBranch)
  BY <1>1, <1>2, <1>4, BecomeInv, StatusFacts
<1>5. CASE op = "fail" /\ Settle(b, "error")
  BY <1>1, <1>2, <1>5, BecomeInv, StatusFacts DEF Settle
<1>6. CASE op = "suspend" /\ Settle(b, "suspended")
  BY <1>1, <1>2, <1>6, BecomeInv, StatusFacts DEF Settle
<1>7. CASE op = "halt" /\ Settle(b, "halted")
  <2>1. phase # "group"
    BY <1>7 DEF Answer, OpsNow
  <2> QED
    BY <1>1, <1>2, <1>7, <2>1, BecomeInv, StatusFacts DEF Settle
<1> QED
  BY <1>3, <1>4, <1>5, <1>6, <1>7 DEF Answer

\* Every step of a branch or of its host handler.
LEMMA BranchStepInv ==
  ASSUME IInv, "halt" \notin GroupOps, NEW b \in Branch, BranchStep(b)
  PROVE  IInv'
<1>1. pos[b] \in Pos /\ pos[b] \in Int /\ st[b] \in Status
  BY EffectsAssumption DEF IInv, TypeOK, Pos
<1>2. ASSUME Performing(b)
      PROVE  st[b] \in {"ready", "atEffect"} /\ pos[b] < Effects
             /\ phase \in {"group", "primary"}
  BY <1>2 DEF Performing, Live
<1>3. CASE Launch(b)
  <2>1. st[b] = "queued"
    BY <1>3 DEF Launch, Queued, In
  <2>2. LaunchStatus \in {"ready", "atEffect"}
    BY DEF LaunchStatus
  <2>3. LaunchStatus = "atEffect" => pos[b] < Effects
    BY <2>1 DEF LaunchStatus, IInv, AtEffectOK
  <2>4. Become(b, LaunchStatus, pos[b], b)
    BY <1>3 DEF Launch
  <2> QED
    BY <1>1, <2>1, <2>2, <2>3, <2>4, BecomeInv, StatusFacts
<1>4. CASE AutoSuspend(b)
  BY <1>1, <1>2, <1>4, BecomeInv, StatusFacts DEF AutoSuspend, Settle
<1>5. CASE HandlerDefers(b)
  BY <1>1, <1>2, <1>5, BecomeInv, StatusFacts DEF HandlerDefers
<1>6. ASSUME NEW op \in Ops, HandlerAnswersNow(b, op)
      PROVE  IInv'
  BY <1>2, <1>6, AnswerInv DEF HandlerAnswersNow
<1>7. ASSUME NEW op \in Ops, HandlerAnswersLater(b, op)
      PROVE  IInv'
  <2>1. st[b] = "waiting" /\ phase \in {"group", "primary"}
    BY <1>7 DEF HandlerAnswersLater, Live
  <2>2. pos[b] < Effects
    BY <2>1 DEF IInv, AtEffectOK
  <2> QED
    BY <1>7, <2>1, <2>2, AnswerInv DEF HandlerAnswersLater
<1>8. CASE Pause(b)
  <2>1. AfterPause(b) \in Pos
    BY <1>1, <1>8, EffectsAssumption DEF Pause, AfterPause, Pos
  <2> QED
    BY <1>8, <2>1, BecomeInv, StatusFacts DEF Pause
<1>9. CASE Wake(b)
  BY <1>1, <1>9, BecomeInv, StatusFacts DEF Wake
<1>10. CASE Return(b)
  BY <1>1, <1>10, BecomeInv, StatusFacts DEF Return, Settle
<1>11. CASE Throw(b)
  BY <1>1, <1>11, BecomeInv, StatusFacts DEF Throw, Settle
<1> QED
  BY <1>3, <1>4, <1>5, <1>6, <1>7, <1>8, <1>9, <1>10, <1>11 DEF BranchStep

\* A branch's end reaches the group: winner and abort signals.
LEMMA ObserveInv ==
  ASSUME IInv, NEW b \in Branch, Observe(b)
  PROVE  IInv'
<1> USE DEF Observe, BranchVars
<1>1. TypeOK'
  BY DEF IInv, TypeOK
<1>2. FrameOK(snapshot)' /\ FrameOK(resumed)' /\ NoBranchLost'
  BY DEF IInv, FrameOK, NoBranchLost, Partition
<1>3. WaveOK'
  BY DEF IInv, WaveOK, Members, Wave, SecondWave
<1>4. PrimaryOK' /\ SuspendedOK' /\ AtEffectOK'
  BY DEF IInv, PrimaryOK, SuspendedOK, AtEffectOK, Members
<1>5. ResultIsComplete' /\ RaceSuspendsUndecided'
  BY DEF IInv, ResultIsComplete, RaceSuspendsUndecided
<1>6. WinnerOK'
  <2>1. CASE Wins(b)
    BY <2>1, BranchFacts DEF WinnerOK, Wins
  <2>2. CASE ~Wins(b)
    BY <2>2 DEF IInv, WinnerOK, FirstRace, Wins
  <2> QED
    BY <2>1, <2>2
<1> QED
  BY <1>1, <1>2, <1>3, <1>4, <1>5, <1>6 DEF IInv

\* The surrounding group aborts this one.
LEMMA ParentAbortsInv == IInv /\ ParentAborts => IInv'
<1> SUFFICES ASSUME IInv, ParentAborts PROVE IInv'
  OBVIOUS
<1> USE DEF ParentAborts, BranchVars
<1>1. TypeOK'
  BY DEF IInv, TypeOK
<1>2. FrameOK(snapshot)' /\ FrameOK(resumed)' /\ NoBranchLost'
  BY DEF IInv, FrameOK, NoBranchLost, Partition
<1>3. WaveOK'
  BY DEF IInv, WaveOK, Members, Wave, SecondWave
<1>4. PrimaryOK' /\ SuspendedOK' /\ AtEffectOK'
  BY DEF IInv, PrimaryOK, SuspendedOK, AtEffectOK, Members
<1>5. ResultIsComplete' /\ RaceSuspendsUndecided'
  BY DEF IInv, ResultIsComplete, RaceSuspendsUndecided
<1>6. WinnerOK'
  BY DEF IInv, WinnerOK, FirstRace
<1> QED
  BY <1>1, <1>2, <1>3, <1>4, <1>5, <1>6 DEF IInv

\* What the collectors have: slots of branches, and which branches these are.
LEMMA CachedType ==
  ASSUME IInv
  PROVE  /\ Cached \in Slots
         /\ DOMAIN Cached = IF resumed.kind = "first" THEN {}
                            ELSE DOMAIN resumed.kept \cup {resumed.primary}
<1>1. resumed \in Frame /\ pos \in [Branch -> Pos]
  BY DEF IInv, TypeOK
<1>2. resumed.kept \in Slots /\ resumed.primary \in Branch
  BY <1>1 DEF Frame
<1>3. PICK S \in SUBSET Branch : resumed.kept \in [S -> Value]
  BY <1>2 DEF Slots
<1>4. CASE resumed.kind = "first"
  BY <1>4, NoSlotsType DEF Cached
<1>5. CASE resumed.kind # "first"
  <2> DEFINE T == DOMAIN resumed.kept \cup {resumed.primary}
  <2>1. T \in SUBSET Branch
    BY <1>2, <1>3
  <2>2. Cached \in [T -> Value]
    <3>1. [tag |-> "ok", pos |-> pos[resumed.primary]] \in Value
      BY <1>1, <1>2 DEF Value
    <3>2. \A b \in DOMAIN resumed.kept : resumed.kept[b] \in Value
      BY <1>3
    <3> QED
      BY <1>5, <3>1, <3>2 DEF Cached
  <2> HIDE DEF T
  <2>3. Cached \in Slots /\ DOMAIN Cached = T
    BY <2>1, <2>2 DEF Slots
  <2> QED
    BY <1>5, <2>3 DEF T
<1> QED
  BY <1>4, <1>5

\* What the collectors gather is an array of branch results.
LEMMA CollectedType ==
  ASSUME IInv
  PROVE  Collected \in Slots /\ DOMAIN Collected = DOMAIN Cached \cup Done
<1>1. Cached \in Slots
  BY CachedType
<1>2. PICK S \in SUBSET Branch : Cached \in [S -> Value]
  BY <1>1 DEF Slots
<1>3. pos \in [Branch -> Pos]
  BY DEF IInv, TypeOK
<1> DEFINE T == DOMAIN Cached \cup Done
<1>4. T \in SUBSET Branch
  BY <1>2 DEF Done
<1>5. \A b \in Done : [tag |-> IF st[b] = "error" THEN "error" ELSE "ok",
                       pos |-> pos[b]] \in Value
  BY <1>3 DEF Done, Value
<1>6. \A b \in DOMAIN Cached : Cached[b] \in Value
  BY <1>2
<1>7. Collected \in [T -> Value]
  BY <1>5, <1>6 DEF Collected
<1> HIDE DEF T
<1>8. Collected \in Slots /\ DOMAIN Collected = T
  BY <1>4, <1>7 DEF Slots
<1> QED
  BY <1>8 DEF T

\* A wave and the values cached before it share no branch and cover them all.
LEMMA WaveCovers ==
  ASSUME IInv, phase = "group", mode # "race"
  PROVE  /\ Members \cup DOMAIN Cached = Branch
         /\ Members \cap DOMAIN Cached = {}
<1>1. Members = Wave
  BY DEF IInv, WaveOK
<1>2. Partition(resumed)
  BY DEF IInv, NoBranchLost
<1>3. resumed \in Frame
  BY DEF IInv, TypeOK
<1>4. CASE resumed.kind = "first"
  BY <1>1, <1>4, CachedType DEF Wave
<1>5. CASE resumed.kind = "resume"
  BY <1>1, <1>2, <1>5, CachedType DEF Wave, SecondWave, Partition
<1>6. CASE resumed.kind = "rerun"
  <2>1. DOMAIN resumed.kept = {}
    BY <1>6 DEF IInv, FrameOK
  <2>2. resumed.primary \in Branch
    BY <1>3 DEF Frame
  <2> QED
    BY <1>1, <1>6, <2>1, <2>2, CachedType DEF Wave, SecondWave
<1> QED
  BY <1>3, <1>4, <1>5, <1>6 DEF Frame

\* When every member has been observed and nothing throws, each of them has a
\* slot or is suspended.
LEMMA MembersSettled ==
  ASSUME IInv, AllObserved, mode # "race", ~Throws
  PROVE  Members = Done \cup Suspended /\ Done \cap Suspended = {}
<1>1. \A b \in Members : st[b] \in {"completed", "error", "suspended"}
  BY StatusFacts DEF IInv, WaveOK, AllObserved, Members
<1>2. mode = "settled" \/ In("error") = {}
  BY ModesAssumption DEF Throws, IInv, TypeOK
<1> QED
  BY <1>1, <1>2, ModesAssumption
     DEF Members, Done, Yields, Suspended, In, IInv, TypeOK

\* A group that delivers an outcome over a complete result.
LEMMA DeliverInv ==
  ASSUME IInv, NEW type \in {"value", "error", "halted"}, NEW slots \in Slots,
         mode # "race" /\ type = "value" => DOMAIN slots = Branch,
         Deliver(type, slots)
  PROVE  IInv'
<1> USE DEF Deliver
<1>1. TypeOK'
  <2>1. outcome' \in Outcome
    BY DEF Outcome
  <2> QED
    BY <2>1 DEF IInv, TypeOK
<1>2. FrameOK(snapshot)' /\ FrameOK(resumed)' /\ NoBranchLost'
  BY DEF IInv, FrameOK, NoBranchLost, Partition
<1>3. WaveOK' /\ PrimaryOK' /\ SuspendedOK'
  BY DEF WaveOK, PrimaryOK, SuspendedOK
<1>4. AtEffectOK'
  BY DEF IInv, AtEffectOK
<1>5. ResultIsComplete'
  BY DEF ResultIsComplete
<1>6. WinnerOK' /\ RaceSuspendsUndecided'
  BY DEF IInv, WinnerOK, RaceSuspendsUndecided
<1> QED
  BY <1>1, <1>2, <1>3, <1>4, <1>5, <1>6 DEF IInv

\* A race that delivers has the value of the branch it delivers.
LEMMA RaceHasValue ==
  ASSUME IInv, CollectValue, mode = "race"
  PROVE  RaceBranch \in DOMAIN Cached \cup Done
<1>1. CASE winner # NoBranch
  BY <1>1 DEF IInv, TypeOK, WinnerOK, RaceBranch, Done, Yields, CollectValue,
              AllObserved
<1>2. CASE winner = NoBranch
  <2>1. DOMAIN Cached # {}
    BY <1>2 DEF CollectValue, Throws, Suspends, Decided
  <2> QED
    BY <1>2, <2>1, CachedType DEF RaceBranch
<1> QED
  BY <1>1, <1>2

\* The collector delivers: with no error and no suspension every slot is filled.
LEMMA CollectValueInv == IInv /\ CollectValue => IInv'
<1> SUFFICES ASSUME IInv, CollectValue PROVE IInv'
  OBVIOUS
<1>1. Collected \in Slots /\ DOMAIN Collected = DOMAIN Cached \cup Done
  BY CollectedType
<1>2. CASE mode = "race"
  <2>1. Result \in Slots
    <3>1. RaceBranch \in Branch
      BY DEF IInv, TypeOK, RaceBranch, Frame
    <3>2. RaceBranch \in DOMAIN Collected
      BY <1>1, <1>2, <3>1, RaceHasValue DEF CollectValue
    <3>3. Collected[RaceBranch] \in Value
      BY <1>1, <3>2 DEF Slots
    <3> DEFINE T == {RaceBranch}
    <3>4. T \in SUBSET Branch
      BY <3>1
    <3>5. [b \in T |-> Collected[b]] \in [T -> Value]
      BY <3>3
    <3> QED
      BY <1>2, <3>4, <3>5 DEF Result, Slots
  <2> QED
    BY <1>2, <2>1, DeliverInv DEF CollectValue
<1>3. CASE mode # "race"
  <2>1. Suspended = {}
    BY <1>3 DEF CollectValue, Suspends
  <2>2. DOMAIN Collected = Branch
    BY <1>1, <1>3, <2>1, WaveCovers, MembersSettled DEF CollectValue, AllObserved
  <2>3. Result = Collected
    BY <1>3 DEF Result
  <2> QED
    BY <1>1, <2>2, <2>3, DeliverInv DEF CollectValue
<1> QED
  BY <1>2, <1>3

\* The collector suspends: the composed frame partitions the branches.
LEMMA CollectSuspensionInv == IInv /\ CollectSuspension => IInv'
<1> SUFFICES ASSUME IInv, CollectSuspension PROVE IInv'
  OBVIOUS
<1>1. PICK p \in Suspended : /\ \A b \in Suspended : p <= b
                             /\ snapshot' = SuspendedFrame(p)
  BY DEF CollectSuspension
<1> DEFINE f == SuspendedFrame(p)
<1>2. Collected \in Slots /\ DOMAIN Collected = DOMAIN Cached \cup Done
  BY CollectedType
<1>3. p \in Branch /\ Suspended \subseteq Branch
  BY <1>1 DEF Suspended, In
<1>4. f \in Frame
  <2>1. [b \in Branch |-> IF b \in Suspended THEN pos[b] ELSE 0] \in [Branch -> Pos]
    BY BranchFacts DEF IInv, TypeOK
  <2> QED
    BY <1>2, <1>3, <2>1 DEF SuspendedFrame, Frame
<1>5. /\ f.kind = "resume" /\ f.primary = p /\ f.siblings = Suspended \ {p}
      /\ f.kept = Collected
      /\ \A b \in Suspended : f.pos[b] = pos[b]
  BY <1>3 DEF SuspendedFrame
<1>6. \A b \in Suspended : pos[b] < Effects
  BY DEF IInv, AtEffectOK, Suspended, In
<1> HIDE DEF f
<1>7. snapshot' = f /\ UNCHANGED resumed
  BY <1>1 DEF f, CollectSuspension
<1>8. TypeOK'
  BY <1>4, <1>7 DEF IInv, TypeOK, CollectSuspension, BranchVars
<1>9. FrameOK(snapshot)' /\ FrameOK(resumed)'
  <2>1. FrameOK(f)
    BY <1>1, <1>5, <1>6 DEF FrameOK
  <2> QED
    BY <1>7, <2>1 DEF IInv, FrameOK
<1>10. NoBranchLost'
  <2>1. ASSUME mode # "race" PROVE Partition(f)
    <3>1. Members \cup DOMAIN Cached = Branch /\ Members \cap DOMAIN Cached = {}
      BY <2>1, WaveCovers DEF CollectSuspension, AllObserved
    <3>2. Members = Done \cup Suspended /\ Done \cap Suspended = {}
      BY <2>1, MembersSettled DEF CollectSuspension, Suspends
    <3> QED
      BY <1>1, <1>2, <1>5, <3>1, <3>2 DEF Partition
  <2>2. mode' = mode
    BY DEF CollectSuspension
  <2> QED
    BY <1>7, <2>1, <2>2 DEF IInv, NoBranchLost, Partition
<1>11. WaveOK' /\ PrimaryOK' /\ WinnerOK'
  BY DEF CollectSuspension, WaveOK, PrimaryOK, WinnerOK
<1>12. SuspendedOK'
  BY <1>5, <1>7 DEF SuspendedOK
<1>13. AtEffectOK' /\ ResultIsComplete'
  BY <1>7 DEF IInv, AtEffectOK, ResultIsComplete, CollectSuspension, BranchVars
<1>14. RaceSuspendsUndecided'
  <2>1. ASSUME mode = "race" PROVE winner = NoBranch /\ DOMAIN Collected = {}
    <3>1. winner = NoBranch /\ DOMAIN Cached = {}
      BY <2>1 DEF CollectSuspension, Suspends, Decided
    <3>2. resumed.kind = "first"
      BY <3>1, CachedType
    <3>3. Done = {}
      BY <2>1, <3>1, <3>2
         DEF IInv, WinnerOK, FirstRace, Done, Yields, CollectSuspension,
             AllObserved, Members
    <3> QED
      BY <1>2, <3>1, <3>3
  <2> QED
    BY <1>5, <1>7, <2>1 DEF IInv, RaceSuspendsUndecided, CollectSuspension
<1> QED
  BY <1>8, <1>9, <1>10, <1>11, <1>12, <1>13, <1>14 DEF IInv

\* The snapshots taken outside the collectors.
LEMMA ReRunFrameOK ==
  ASSUME IInv, NEW b \in Branch, pos[b] < Effects
  PROVE  /\ ReRunFrame(b) \in Frame
         /\ FrameOK(ReRunFrame(b)) /\ Partition(ReRunFrame(b))
         /\ ReRunFrame(b).kind = "rerun"
         /\ DOMAIN ReRunFrame(b).kept = {}
<1>1. pos \in [Branch -> Pos] /\ Start \in [Branch -> Pos]
  BY BranchFacts DEF IInv, TypeOK, Start
<1> QED
  BY <1>1, NoSlotsType DEF ReRunFrame, Frame, FrameOK, Partition

\* A checkpoint of the primary keeps the frame under it.
LEMMA PrimaryFrameOK ==
  ASSUME IInv, NEW captured \in BOOLEAN,
         resumed.kind # "first", pos[resumed.primary] < Effects
  PROVE  LET f == PrimaryFrame(captured)
         IN  /\ f \in Frame
             /\ FrameOK(f) /\ f.kind # "first"
             /\ Partition(resumed) => Partition(f)
             /\ f.kept = resumed.kept
<1>1. resumed \in Frame /\ pos \in [Branch -> Pos] /\ FrameOK(resumed)
  BY DEF IInv, TypeOK
<1>2. resumed.primary \in Branch /\ resumed.pos \in [Branch -> Pos]
  BY <1>1 DEF Frame
<1> DEFINE f == PrimaryFrame(captured)
<1>3. /\ f.kind = resumed.kind /\ f.primary = resumed.primary
      /\ f.siblings = resumed.siblings /\ f.kept = resumed.kept
      /\ f.pos = [resumed.pos EXCEPT ![resumed.primary] = pos[resumed.primary]]
  BY <1>1 DEF PrimaryFrame, Frame
<1>4. f \in Frame
  BY <1>1, <1>2 DEF PrimaryFrame, Frame
<1> HIDE DEF f
<1>5. FrameOK(f)
  <2>1. resumed.siblings \subseteq Branch
    BY <1>1 DEF Frame
  <2> QED
    BY <1>1, <1>2, <1>3, <2>1 DEF FrameOK
<1>6. Partition(resumed) => Partition(f)
  BY <1>3 DEF Partition
<1> QED
  BY <1>3, <1>4, <1>5, <1>6 DEF f

\* A checkpoint taken in a branch or by the primary.
LEMMA CheckpointInv ==
  ASSUME IInv, NEW b \in Branch, Checkpoint(b)
  PROVE  IInv'
<1> USE DEF Checkpoint, BranchVars
<1>1. pos[b] < Effects
  BY DEF IInv, AtEffectOK
<1>2. /\ snapshot' \in Frame
      /\ FrameOK(snapshot')
      /\ snapshot'.kind # "first"
      /\ mode # "race" => Partition(snapshot')
      /\ mode = "race" => DOMAIN snapshot'.kept = {}
  <2>1. CASE phase = "group"
    BY <1>1, <2>1, ReRunFrameOK
  <2>2. CASE phase = "primary"
    <3>1. resumed.kind # "first"
      BY <2>2 DEF IInv, PrimaryOK
    <3>2. b = resumed.primary
      BY <2>2 DEF IInv, PrimaryOK, Members
    <3> QED
      BY <1>1, <2>2, <3>1, <3>2, PrimaryFrameOK
         DEF IInv, NoBranchLost, RaceSuspendsUndecided
  <2> QED
    BY <2>1, <2>2 DEF Live
<1>3. TypeOK'
  BY <1>2 DEF IInv, TypeOK
<1>4. FrameOK(snapshot)' /\ FrameOK(resumed)' /\ NoBranchLost'
  BY <1>2 DEF IInv, FrameOK, NoBranchLost, Partition
<1>5. WaveOK'
  BY DEF IInv, WaveOK, Members, Wave, SecondWave
<1>6. PrimaryOK' /\ SuspendedOK' /\ AtEffectOK' /\ WinnerOK'
  BY <1>2 DEF IInv, PrimaryOK, SuspendedOK, AtEffectOK, WinnerOK, FirstRace, Members
<1>7. ResultIsComplete' /\ RaceSuspendsUndecided'
  BY <1>2 DEF IInv, ResultIsComplete, RaceSuspendsUndecided, Live
<1> QED
  BY <1>3, <1>4, <1>5, <1>6, <1>7 DEF IInv

\* A stored frame starts a new run of its primary.
LEMMA RerunInv ==
  ASSUME IInv, NEW status \in {"ready", "atEffect"}, NEW at \in Pos,
         NEW fired \in BOOLEAN,
         status = "atEffect" => at < Effects,
         Rerun(status, at, fired)
  PROVE  IInv'
<1> USE DEF Rerun
<1>1. snapshot \in Frame /\ snapshot.kind # "first"
  BY DEF IInv, TypeOK, SuspendedOK
<1>2. snapshot.primary \in Branch /\ snapshot.pos \in [Branch -> Pos]
  BY <1>1 DEF Frame
<1>3. TypeOK'
  <2>1. st' \in [Branch -> Status] /\ pos' \in [Branch -> Pos]
    BY <1>2, StatusFacts
  <2>2. outcome' \in Outcome
    BY NoSlotsType DEF NoOutcome, Outcome
  <2> QED
    BY <1>1, <1>2, <2>1, <2>2 DEF IInv, TypeOK
<1>4. FrameOK(snapshot)' /\ FrameOK(resumed)' /\ NoBranchLost'
  BY DEF IInv, FrameOK, NoBranchLost, Partition
<1>5. WaveOK' /\ SuspendedOK' /\ WinnerOK'
  BY DEF WaveOK, SuspendedOK, WinnerOK
<1>6. PrimaryOK'
  <2>1. Members' = {snapshot.primary}
    BY <1>2 DEF Members
  <2> QED
    BY <1>1, <2>1 DEF PrimaryOK
<1>7. AtEffectOK'
  BY <1>2 DEF AtEffectOK
<1>8. ResultIsComplete' /\ RaceSuspendsUndecided'
  BY DEF IInv, ResultIsComplete, RaceSuspendsUndecided, NoOutcome
<1> QED
  BY <1>3, <1>4, <1>5, <1>6, <1>7, <1>8 DEF IInv

\* A crash leaves the stored snapshot.
LEMMA HostRestartInv == IInv /\ HostRestart => IInv'
<1> SUFFICES ASSUME IInv, HostRestart PROVE IInv'
  OBVIOUS
<1> USE DEF HostRestart
<1>1. TypeOK'
  <2>1. outcome' \in Outcome
    BY NoSlotsType DEF NoOutcome, Outcome
  <2>2. st' \in [Branch -> Status]
    BY StatusFacts
  <2> QED
    BY <2>1, <2>2 DEF IInv, TypeOK
<1>2. FrameOK(snapshot)' /\ FrameOK(resumed)' /\ NoBranchLost'
  BY DEF IInv, FrameOK, NoBranchLost, Partition
<1>3. WaveOK' /\ PrimaryOK' /\ SuspendedOK' /\ WinnerOK' /\ AtEffectOK'
  BY DEF WaveOK, PrimaryOK, SuspendedOK, WinnerOK, AtEffectOK
<1>4. ResultIsComplete' /\ RaceSuspendsUndecided'
  BY DEF IInv, ResultIsComplete, RaceSuspendsUndecided, NoOutcome
<1> QED
  BY <1>1, <1>2, <1>3, <1>4 DEF IInv

\* The primary's value starts the second wave.
LEMMA PrimaryReturnsInv == IInv /\ PrimaryReturns => IInv'
<1> SUFFICES ASSUME IInv, PrimaryReturns PROVE IInv'
  OBVIOUS
<1> USE DEF PrimaryReturns, PrimaryHas
<1> DEFINE p == resumed.primary
<1>1. resumed \in Frame /\ resumed.kind # "first" /\ FrameOK(resumed)
      /\ pos \in [Branch -> Pos]
  BY DEF IInv, TypeOK, PrimaryOK
<1>2. p \in Branch /\ resumed.siblings \subseteq Branch
      /\ resumed.pos \in [Branch -> Pos]
  BY <1>1 DEF Frame
<1>3. TypeOK'
  <2>1. st' \in [Branch -> Status]
    BY StatusFacts
  <2>2. pos' \in [Branch -> Pos]
    BY <1>1, <1>2
  <2> QED
    BY <2>1, <2>2 DEF IInv, TypeOK
<1>4. FrameOK(snapshot)' /\ FrameOK(resumed)' /\ NoBranchLost'
  BY DEF IInv, FrameOK, NoBranchLost, Partition
<1>5. WaveOK'
  <2>1. SecondWave \subseteq Branch /\ SecondWave' = SecondWave
    BY <1>2 DEF SecondWave
  <2>2. Members' = SecondWave
    BY <2>1 DEF Members
  <2>3. observed' = {}
    BY DEF IInv, PrimaryOK
  <2> QED
    BY <1>1, <2>1, <2>2, <2>3 DEF WaveOK, Wave
<1>6. PrimaryOK' /\ SuspendedOK' /\ WinnerOK'
  BY DEF IInv, PrimaryOK, SuspendedOK, WinnerOK
<1>7. AtEffectOK'
  BY <1>1, <1>2 DEF AtEffectOK, SecondWave, FrameOK
<1>8. ResultIsComplete' /\ RaceSuspendsUndecided'
  BY DEF IInv, ResultIsComplete, RaceSuspendsUndecided
<1> QED
  BY <1>3, <1>4, <1>5, <1>6, <1>7, <1>8 DEF IInv

\* The primary suspends on its own.
LEMMA PrimarySuspendsInv == IInv /\ PrimarySuspends => IInv'
<1> SUFFICES ASSUME IInv, PrimarySuspends PROVE IInv'
  OBVIOUS
<1> USE DEF PrimarySuspends, PrimaryHas, BranchVars
<1>1. resumed.kind # "first" /\ resumed.primary \in Branch
  BY DEF IInv, TypeOK, PrimaryOK, Frame
<1>2. pos[resumed.primary] < Effects
  BY <1>1 DEF IInv, AtEffectOK
<1>3. /\ snapshot' \in Frame
      /\ FrameOK(snapshot')
      /\ snapshot'.kind # "first"
      /\ mode # "race" => Partition(snapshot')
      /\ mode = "race" => DOMAIN snapshot'.kept = {}
  BY <1>1, <1>2, PrimaryFrameOK DEF IInv, NoBranchLost, RaceSuspendsUndecided
<1>4. TypeOK'
  BY <1>3 DEF IInv, TypeOK
<1>5. FrameOK(snapshot)' /\ FrameOK(resumed)' /\ NoBranchLost'
  BY <1>3 DEF IInv, FrameOK, NoBranchLost, Partition
<1>6. WaveOK' /\ PrimaryOK' /\ SuspendedOK' /\ WinnerOK' /\ AtEffectOK'
  BY <1>3 DEF IInv, WaveOK, PrimaryOK, SuspendedOK, WinnerOK, AtEffectOK
<1>7. ResultIsComplete' /\ RaceSuspendsUndecided'
  BY <1>3 DEF IInv, ResultIsComplete, RaceSuspendsUndecided, PrimaryOK
<1> QED
  BY <1>3, <1>4, <1>5, <1>6, <1>7 DEF IInv

\* Every step of the group.
LEMMA NextInv ==
  ASSUME IInv, "halt" \notin GroupOps, [Next]_vars
  PROVE  IInv'
<1>1. CASE \E b \in Branch : BranchStep(b)
  BY <1>1, BranchStepInv
<1>2. CASE \E b \in Branch : Observe(b)
  BY <1>2, ObserveInv
<1>3. CASE CollectError
  BY <1>3, NoSlotsType, DeliverInv DEF CollectError
<1>4. CASE CollectSuspension
  BY <1>4, CollectSuspensionInv
<1>5. CASE CollectValue
  BY <1>5, CollectValueInv
<1>6. CASE PrimaryReturns
  BY <1>6, PrimaryReturnsInv
<1>7. CASE PrimaryThrows
  BY <1>7, NoSlotsType, DeliverInv DEF PrimaryThrows
<1>8. CASE PrimaryHalts
  BY <1>8, NoSlotsType, DeliverInv DEF PrimaryHalts
<1>9. CASE PrimarySuspends
  BY <1>9, PrimarySuspendsInv
<1>10. CASE Resume
  <2>1. snapshot \in Frame /\ snapshot.kind # "first" /\ FrameOK(snapshot)
    BY <1>10 DEF IInv, TypeOK, SuspendedOK, Resume, Rerun
  <2>2. snapshot.primary \in Branch /\ snapshot.pos \in [Branch -> Pos]
    BY <2>1 DEF Frame
  <2>3. snapshot.pos[snapshot.primary] \in Pos
        /\ snapshot.pos[snapshot.primary] < Effects
    BY <2>1, <2>2 DEF FrameOK
  <2>4. snapshot.pos[snapshot.primary] + 1 \in Pos
    BY <2>3, EffectsAssumption DEF Pos
  <2> QED
    BY <1>10, <2>4, RerunInv DEF Resume
<1>11. CASE Retrigger
  <2>1. snapshot \in Frame /\ snapshot.kind # "first" /\ FrameOK(snapshot)
    BY <1>11 DEF IInv, TypeOK, SuspendedOK, Retrigger, Rerun
  <2>2. snapshot.primary \in Branch /\ snapshot.pos \in [Branch -> Pos]
    BY <2>1 DEF Frame
  <2>3. snapshot.pos[snapshot.primary] \in Pos
        /\ snapshot.pos[snapshot.primary] < Effects
    BY <2>1, <2>2 DEF FrameOK
  <2>4. PICK fired \in BOOLEAN :
          Rerun("atEffect", snapshot.pos[snapshot.primary], fired)
    BY <1>11 DEF Retrigger
  <2> QED
    BY <2>3, <2>4, RerunInv
<1>12. CASE HostRestart
  BY <1>12, HostRestartInv
<1>13. CASE ParentAborts
  BY <1>13, ParentAbortsInv
<1>14. CASE \E b \in Branch : Checkpoint(b)
  BY <1>14, CheckpointInv
<1>15. CASE Terminated \/ UNCHANGED vars
  BY <1>15 DEF Terminated, vars, IInv, TypeOK, FrameOK, NoBranchLost, Partition,
     WaveOK, Wave, SecondWave, Members, PrimaryOK, SuspendedOK, WinnerOK,
     FirstRace, AtEffectOK, ResultIsComplete, RaceSuspendsUndecided
<1> QED
  BY <1>1, <1>2, <1>3, <1>4, <1>5, <1>6, <1>7, <1>8, <1>9, <1>10, <1>11, <1>12,
     <1>13, <1>14, <1>15
     DEF Next, Progress, GroupStep, PrimaryStep, HostStep

\* The inductive invariant, for every number of branches, every bound on their
\* effects and every set of modes: executeParallelBranches, executeRaceBranches,
\* executeReRunParallel and executeResumeParallel keep the frames they compose
\* consistent with the branches in flight.
THEOREM InductiveInvariant ==
  ASSUME "halt" \notin GroupOps
  PROVE  Spec => []IInv
<1>1. Init => IInv
  BY InitInv
<1>2. IInv /\ [Next]_vars => IInv'
  BY NextInv
<1> QED
  BY <1>1, <1>2, PTL DEF Spec

\* Every variable keeps its type, whatever the number of branches.
THEOREM TypeCorrect ==
  ASSUME "halt" \notin GroupOps
  PROVE  Spec => []TypeOK
<1>1. IInv => TypeOK
  BY DEF IInv
<1> QED
  BY <1>1, InductiveInvariant, PTL

\* No suspension of a parallel or settled group loses or duplicates a branch.
THEOREM SuspensionsLoseNoBranch ==
  ASSUME "halt" \notin GroupOps
  PROVE  Spec => []NoBranchLost
<1>1. IInv => NoBranchLost
  BY DEF IInv
<1> QED
  BY <1>1, InductiveInvariant, PTL

\* Every array that parallel or settled delivers has a slot for every branch.
THEOREM ResultsAreComplete ==
  ASSUME "halt" \notin GroupOps
  PROVE  Spec => []ResultIsComplete
<1>1. IInv => ResultIsComplete
  BY DEF IInv
<1> QED
  BY <1>1, InductiveInvariant, PTL

\* No snapshot of a race holds a value.
THEOREM RacesSuspendUndecided ==
  ASSUME "halt" \notin GroupOps
  PROVE  Spec => []RaceSuspendsUndecided
<1>1. IInv => RaceSuspendsUndecided
  BY DEF IInv
<1> QED
  BY <1>1, InductiveInvariant, PTL

-----------------------------------------------------------------------------
(* Cached values, errors, signals and winners.  What the four properties   *)
(* below need besides IInv.                                                *)

\* A run in flight has delivered nothing; only a race has a winner.
NothingDelivered == Live => outcome.type = "none"
OnlyRacesHaveWinners == winner # NoBranch => mode = "race"

\* Once the group has seen a suspension every branch is signalled.
SuspensionSignalled ==
  phase = "group" /\ ~FirstRace /\ (\E c \in observed : st[c] = "suspended") =>
    aborted = Branch

OInv ==
  /\ NothingDelivered /\ OnlyRacesHaveWinners /\ SuspensionSignalled
  /\ CachedValuesSurvive /\ ErrorBeatsSuspension

\* What a step of a branch leaves alone: the group, and every settled branch.
LEMMA BranchStepFrame ==
  ASSUME IInv, NEW b \in Branch, BranchStep(b)
  PROVE  /\ Live
         /\ UNCHANGED GroupVars
         /\ \A c \in Branch : st[c] \in Settled => st'[c] = st[c]
<1>1. st \in [Branch -> Status]
  BY DEF IInv, TypeOK
<1>2. ASSUME NEW status, NEW at, NEW next, Become(b, status, at, next),
             st[b] \notin Settled
      PROVE  /\ UNCHANGED GroupVars
             /\ \A c \in Branch : st[c] \in Settled => st'[c] = st[c]
  BY <1>1, <1>2 DEF Become
<1>3. ASSUME NEW op, Answer(b, op), st[b] \notin Settled
      PROVE  /\ UNCHANGED GroupVars
             /\ \A c \in Branch : st[c] \in Settled => st'[c] = st[c]
  BY <1>2, <1>3 DEF Answer, Settle
<1>4. Performing(b) => Live /\ st[b] \notin Settled
  BY StatusFacts DEF Performing
<1>5. CASE Launch(b)
  <2>1. st[b] = "queued" /\ Live
    BY <1>5 DEF Launch, Queued, In, Live
  <2> QED
    BY <1>2, <1>5, <2>1, StatusFacts DEF Launch
<1>6. CASE AutoSuspend(b)
  BY <1>2, <1>4, <1>6 DEF AutoSuspend, Settle
<1>7. CASE HandlerDefers(b)
  BY <1>2, <1>4, <1>7 DEF HandlerDefers
<1>8. CASE \E op \in Ops : HandlerAnswersNow(b, op)
  BY <1>3, <1>4, <1>8 DEF HandlerAnswersNow
<1>9. CASE \E op \in Ops : HandlerAnswersLater(b, op)
  BY <1>3, <1>9, StatusFacts DEF HandlerAnswersLater
<1>10. CASE Pause(b)
  BY <1>2, <1>10, StatusFacts DEF Pause
<1>11. CASE Wake(b)
  BY <1>2, <1>11, StatusFacts DEF Wake
<1>12. CASE Return(b)
  BY <1>2, <1>12, StatusFacts DEF Return, Settle
<1>13. CASE Throw(b)
  BY <1>2, <1>13, StatusFacts DEF Throw, Settle
<1> QED
  BY <1>5, <1>6, <1>7, <1>8, <1>9, <1>10, <1>11, <1>12, <1>13 DEF BranchStep

\* A branch step keeps the five.
LEMMA BranchStepOutcome ==
  ASSUME IInv, OInv, NEW b \in Branch, BranchStep(b)
  PROVE  OInv'
<1>1. /\ Live
      /\ UNCHANGED GroupVars
      /\ \A c \in Branch : st[c] \in Settled => st'[c] = st[c]
  BY BranchStepFrame
<1>2. NothingDelivered' /\ OnlyRacesHaveWinners' /\ CachedValuesSurvive'
  BY <1>1 DEF OInv, NothingDelivered, OnlyRacesHaveWinners, CachedValuesSurvive,
     GroupVars, Live
<1>3. SuspensionSignalled'
  <2> SUFFICES ASSUME phase = "group", ~FirstRace,
                      NEW c \in observed, st'[c] = "suspended"
               PROVE  aborted = Branch
    BY <1>1 DEF SuspensionSignalled, GroupVars, FirstRace
  <2>1. c \in Branch /\ st[c] \in Settled
    BY DEF IInv, TypeOK, WaveOK
  <2> QED
    BY <1>1, <2>1 DEF OInv, SuspensionSignalled
<1>4. ErrorBeatsSuspension'
  BY <1>1 DEF ErrorBeatsSuspension, GroupVars, Live
<1> QED
  BY <1>2, <1>3, <1>4 DEF OInv

\* A new run of a snapshot starts with nothing delivered.
LEMMA RerunOutcome ==
  ASSUME NEW status, NEW at, NEW fired, Rerun(status, at, fired)
  PROVE  OInv'
BY DEF Rerun, OInv, NothingDelivered, NoOutcome, OnlyRacesHaveWinners,
   SuspensionSignalled, CachedValuesSurvive, ErrorBeatsSuspension

\* A delivery that carries the cached values over keeps the five.
LEMMA DeliverOutcome ==
  ASSUME OInv, NEW type, NEW slots, Deliver(type, slots),
         mode # "race" /\ type = "value" /\ resumed.kind = "resume" =>
           \A b \in DOMAIN resumed.kept : slots[b] = resumed.kept[b]
  PROVE  OInv'
BY DEF Deliver, OInv, NothingDelivered, Live, OnlyRacesHaveWinners,
   SuspensionSignalled, CachedValuesSurvive, ErrorBeatsSuspension

\* The second wave holds no cached branch, so the collector finds the cached value.
LEMMA CollectValueOutcome ==
  ASSUME IInv, OInv, CollectValue
  PROVE  OInv'
<1>1. ASSUME mode # "race", resumed.kind = "resume",
             NEW b \in DOMAIN resumed.kept
      PROVE  Result[b] = resumed.kept[b]
  <2>1. phase = "group"
    BY DEF CollectValue, AllObserved
  <2>2. b # resumed.primary
    BY <1>1 DEF IInv, NoBranchLost, Partition
  <2>3. b \in DOMAIN Cached /\ Cached[b] = resumed.kept[b]
    BY <1>1, <2>2 DEF Cached
  <2>4. b \notin Members
    BY <1>1, <2>1, <2>3, WaveCovers
  <2>5. b \notin Done
    BY <2>4 DEF Done, Yields, Members
  <2>6. Collected[b] = Cached[b]
    BY <2>3, <2>5 DEF Collected
  <2> QED
    BY <1>1, <2>3, <2>6 DEF Result
<1> QED
  BY <1>1, DeliverOutcome DEF CollectValue

\* The five, step by step.
LEMMA NextOutcome ==
  ASSUME IInv, OInv, [Next]_vars
  PROVE  OInv'
<1> USE DEF OInv, NothingDelivered, OnlyRacesHaveWinners
<1>1. CASE \E b \in Branch : BranchStep(b)
  BY <1>1, BranchStepOutcome
<1>2. ASSUME NEW b \in Branch, Observe(b)
      PROVE  OInv'
  <2>1. NothingDelivered' /\ CachedValuesSurvive' /\ ErrorBeatsSuspension'
    BY <1>2 DEF Observe, Live, CachedValuesSurvive, ErrorBeatsSuspension
  <2>2. OnlyRacesHaveWinners'
    BY <1>2 DEF Observe, Wins, FirstRace
  <2>3. SuspensionSignalled'
    <3>1. CASE SuspensionAborts(b)
      BY <1>2, <3>1 DEF Observe, SuspensionSignalled, SuspensionAborts, Wins, FirstRace
    <3>2. CASE ~SuspensionAborts(b)
      <4>1. st' = st /\ FirstRace' = FirstRace /\ observed' = observed \cup {b}
        BY <1>2 DEF Observe, BranchVars, FirstRace
      <4>2. ~FirstRace => st[b] # "suspended" /\ aborted' = aborted
        BY <1>2, <3>2 DEF SuspensionAborts, Observe, Wins
      <4> QED
        BY <1>2, <4>1, <4>2 DEF Observe, SuspensionSignalled
    <3> QED
      BY <3>1, <3>2
  <2> QED
    BY <2>1, <2>2, <2>3
<1>3. CASE CollectError
  BY <1>3, DeliverOutcome DEF CollectError
<1>4. CASE CollectSuspension
  <2>1. phase = "group" /\ (mode = "parallel" => In("error") = {})
    BY <1>4 DEF CollectSuspension, Suspends, Throws, AllObserved
  <2> QED
    BY <1>4, <2>1 DEF CollectSuspension, BranchVars, SuspensionSignalled, Live,
       CachedValuesSurvive, ErrorBeatsSuspension, In
<1>5. CASE CollectValue
  BY <1>5, CollectValueOutcome
<1>6. CASE PrimaryReturns
  <2>1. phase = "primary" /\ observed = {}
    BY <1>6 DEF PrimaryReturns, PrimaryHas, IInv, PrimaryOK
  <2> QED
    BY <1>6, <2>1 DEF PrimaryReturns, SuspensionSignalled, Live,
       CachedValuesSurvive, ErrorBeatsSuspension
<1>7. CASE PrimaryThrows
  BY <1>7, DeliverOutcome DEF PrimaryThrows
<1>8. CASE PrimaryHalts
  BY <1>8, DeliverOutcome DEF PrimaryHalts
<1>9. CASE PrimarySuspends
  <2>1. phase = "primary" /\ st[resumed.primary] = "suspended"
        /\ Members = {resumed.primary}
    BY <1>9 DEF PrimarySuspends, PrimaryHas, IInv, PrimaryOK
  <2>2. In("error") = {}
    BY <2>1 DEF In, Members
  <2> QED
    BY <1>9, <2>1, <2>2 DEF PrimarySuspends, BranchVars, SuspensionSignalled, Live,
       CachedValuesSurvive, ErrorBeatsSuspension, In
<1>10. CASE Resume
  BY <1>10, RerunOutcome DEF Resume
<1>11. CASE Retrigger
  BY <1>11, RerunOutcome DEF Retrigger
<1>12. CASE HostRestart
  <2>1. st' = [b \in Branch |-> "idle"]
    BY <1>12 DEF HostRestart
  <2> QED
    BY <1>12, <2>1 DEF HostRestart, NoOutcome, SuspensionSignalled, Live,
       CachedValuesSurvive, ErrorBeatsSuspension, In
<1>13. CASE ParentAborts
  BY <1>13 DEF ParentAborts, BranchVars, SuspensionSignalled, Live,
     CachedValuesSurvive, ErrorBeatsSuspension
<1>14. CASE \E b \in Branch : Checkpoint(b)
  BY <1>14 DEF Checkpoint, BranchVars, SuspensionSignalled, FirstRace, Live,
     CachedValuesSurvive, ErrorBeatsSuspension
<1>15. CASE Terminated \/ UNCHANGED vars
  BY <1>15 DEF Terminated, vars, SuspensionSignalled, FirstRace, Live,
     CachedValuesSurvive, ErrorBeatsSuspension, In
<1> QED
  BY <1>1, <1>2, <1>3, <1>4, <1>5, <1>6, <1>7, <1>8, <1>9, <1>10, <1>11, <1>12,
     <1>13, <1>14, <1>15
     DEF Next, Progress, GroupStep, PrimaryStep, HostStep

\* The five hold in every reachable state.
THEOREM OutcomeInvariant ==
  ASSUME "halt" \notin GroupOps
  PROVE  Spec => []OInv
<1>1. Init => OInv
  BY DEF Init, OInv, NothingDelivered, NoOutcome, OnlyRacesHaveWinners,
     SuspensionSignalled, CachedValuesSurvive, ErrorBeatsSuspension
<1>2. IInv /\ OInv /\ [Next]_vars => OInv'
  BY NextOutcome
<1> QED
  BY <1>1, <1>2, InductiveInvariant, PTL DEF Spec

\* A value cached by a suspension arrives in the array unchanged.
THEOREM CachedValuesArrive ==
  ASSUME "halt" \notin GroupOps
  PROVE  Spec => []CachedValuesSurvive
<1>1. OInv => CachedValuesSurvive
  BY DEF OInv
<1> QED
  BY <1>1, OutcomeInvariant, PTL

\* No snapshot of a parallel group hides the error of a branch.
THEOREM ErrorsBeatSuspensions ==
  ASSUME "halt" \notin GroupOps
  PROVE  Spec => []ErrorBeatsSuspension
<1>1. OInv => ErrorBeatsSuspension
  BY DEF OInv
<1> QED
  BY <1>1, OutcomeInvariant, PTL

\* While a winner stands only the collector of the value ends the wave.
LEMMA WinnerStep ==
  ASSUME IInv, OInv, [Next]_vars,
         winner # NoBranch, phase = "group", phase' # "suspended"
  PROVE  /\ winner' = winner
         /\ outcome'.type # "none" => DOMAIN outcome'.slots = {winner}
<1>1. outcome.type = "none" /\ mode = "race"
  BY DEF OInv, NothingDelivered, Live, OnlyRacesHaveWinners
<1>2. CASE \E b \in Branch : BranchStep(b)
  BY <1>1, <1>2, BranchStepFrame DEF GroupVars
<1>3. CASE \E b \in Branch : Observe(b)
  BY <1>1, <1>3 DEF Observe, Wins
<1>4. CASE CollectError
  BY <1>1, <1>4 DEF CollectError, Throws, Decided
<1>5. CASE CollectValue
  <2>1. outcome' = [type |-> "value", slots |-> Result] /\ winner' = winner
    BY <1>5 DEF CollectValue, Deliver
  <2>2. DOMAIN Result = {winner}
    BY <1>1 DEF Result, RaceBranch
  <2> QED
    BY <2>1, <2>2
<1>6. CASE CollectSuspension \/ PrimaryStep \/ Resume \/ Retrigger \/ HostRestart
  BY <1>6 DEF CollectSuspension, PrimaryStep, PrimaryReturns, PrimaryThrows,
     PrimaryHalts, PrimarySuspends, PrimaryHas, Resume, Retrigger, Rerun, HostRestart
<1>7. CASE ParentAborts
  BY <1>1, <1>7 DEF ParentAborts
<1>8. CASE \E b \in Branch : Checkpoint(b)
  BY <1>1, <1>8 DEF Checkpoint
<1>9. CASE Terminated \/ UNCHANGED vars
  BY <1>1, <1>9 DEF Terminated, vars
<1> QED
  BY <1>2, <1>3, <1>4, <1>5, <1>6, <1>7, <1>8, <1>9
     DEF Next, Progress, GroupStep, HostStep

\* The winner of a race stands: nothing replaces it, and only its value is delivered.
THEOREM WinnersStand ==
  ASSUME "halt" \notin GroupOps
  PROVE  Spec => WinnerStands
<1>1. IInv /\ OInv /\ [Next]_vars =>
        [winner # NoBranch /\ phase = "group" /\ phase' # "suspended" =>
           /\ winner' = winner
           /\ outcome'.type # "none" => DOMAIN outcome'.slots = {winner}]_vars
  BY WinnerStep
<1> QED
  BY <1>1, InductiveInvariant, OutcomeInvariant, PTL DEF Spec, WinnerStands

\* A signalled branch starts no handler: only the dispatch of an effect does, and
\* it finds the signal first.
LEMMA SignalledStep ==
  ASSUME IInv, NEW b \in Branch, BranchStep(b), aborted = Branch,
         NEW c \in Branch
  PROVE  ~HandlerStarts(c)
<1>1. st \in [Branch -> Status] /\ pos \in [Branch -> Pos]
  BY DEF IInv, TypeOK
<1>2. pos[c] \in Int
  BY <1>1, EffectsAssumption DEF Pos
<1>3. \A status, at, next : Become(b, status, at, next) =>
        /\ st'[c] = IF c = b THEN status ELSE st[c]
        /\ pos'[c] = IF c = b THEN at ELSE pos[c]
  BY <1>1 DEF Become
<1>4. pos'[c] = pos[c] \/ st'[c] # "ready" => ~(pos'[c] = pos[c] + 1 /\ st'[c] = "ready")
  BY <1>2
<1>5. CASE Launch(b)
  <2>1. Become(b, LaunchStatus, pos[b], b) /\ st[b] = "queued"
    BY <1>5 DEF Launch, Queued, In
  <2>2. LaunchStatus # "waiting"
    BY DEF LaunchStatus
  <2>3. c # b => st'[c] = st[c] /\ pos'[c] = pos[c]
    BY <1>3, <2>1
  <2>4. c = b => st'[c] = LaunchStatus /\ pos'[c] = pos[c]
    BY <1>3, <2>1
  <2> QED
    BY <1>4, <2>1, <2>2, <2>3, <2>4 DEF HandlerStarts
<1>6. CASE AutoSuspend(b)
  BY <1>3, <1>4, <1>6 DEF AutoSuspend, Settle, HandlerStarts
<1>7. ~HandlerDefers(b)
  BY DEF HandlerDefers
<1>8. \A op \in Ops : ~HandlerAnswersNow(b, op)
  BY DEF HandlerAnswersNow
<1>9. ASSUME NEW op \in Ops, HandlerAnswersLater(b, op)
      PROVE  ~HandlerStarts(c)
  <2>1. st[b] = "waiting" /\ running # c /\ Answer(b, op)
    BY <1>9, BranchFacts DEF HandlerAnswersLater, Quiet
  <2>2. \E status \in {"ready", "error", "suspended", "halted"} : \E at, next :
          Become(b, status, at, next)
    BY <2>1 DEF Answer, Settle
  <2> QED
    BY <1>3, <2>1, <2>2 DEF HandlerStarts
<1>10. CASE Pause(b)
  BY <1>3, <1>4, <1>10 DEF Pause, HandlerStarts
<1>11. CASE Wake(b)
  BY <1>3, <1>4, <1>11 DEF Wake, HandlerStarts
<1>12. CASE Return(b)
  BY <1>3, <1>4, <1>12 DEF Return, Settle, HandlerStarts
<1>13. CASE Throw(b)
  BY <1>3, <1>4, <1>13 DEF Throw, Settle, HandlerStarts
<1> QED
  BY <1>5, <1>6, <1>7, <1>8, <1>9, <1>10, <1>11, <1>12, <1>13 DEF BranchStep

\* No other step starts a handler in a wave.
LEMMA GroupStepsStartNoHandler ==
  ASSUME IInv, [Next]_vars, phase = "group",
         ~\E b \in Branch : BranchStep(b),
         NEW c \in Branch
  PROVE  ~HandlerStarts(c)
<1>1. pos[c] \in Int
  BY EffectsAssumption DEF IInv, TypeOK, Pos
<1>2. CASE UNCHANGED <<st, pos>>
  BY <1>1, <1>2 DEF HandlerStarts
<1>3. CASE GroupStep
  BY <1>2, <1>3 DEF GroupStep, Observe, CollectError, CollectSuspension, CollectValue,
     Deliver, BranchVars
<1>4. CASE HostRestart
  <2>1. st'[c] = "idle"
    BY <1>4 DEF HostRestart
  <2> QED
    BY <2>1 DEF HandlerStarts
<1>5. ~PrimaryStep /\ ~Resume /\ ~Retrigger
  BY DEF PrimaryStep, PrimaryReturns, PrimaryThrows, PrimaryHalts, PrimarySuspends,
     PrimaryHas, Resume, Retrigger, Rerun
<1>6. CASE ParentAborts \/ \E b \in Branch : Checkpoint(b)
  BY <1>2, <1>6 DEF ParentAborts, Checkpoint, BranchVars
<1>7. CASE Terminated \/ UNCHANGED vars
  BY <1>2, <1>7 DEF Terminated, vars
<1> QED
  BY <1>3, <1>4, <1>5, <1>6, <1>7 DEF Next, Progress, HostStep

\* After a suspension that the group has seen no branch starts a host handler.
THEOREM SuspensionsStopHandlers ==
  ASSUME "halt" \notin GroupOps
  PROVE  Spec => NoHandlerAfterSuspension
<1>1. IInv /\ OInv /\ [Next]_vars =>
        [phase = "group" /\ ~FirstRace /\ (\E c \in observed : st[c] = "suspended") =>
           \A b \in Branch : ~HandlerStarts(b)]_vars
  BY SignalledStep, GroupStepsStartNoHandler DEF OInv, SuspensionSignalled
<1> QED
  BY <1>1, InductiveInvariant, OutcomeInvariant, PTL
     DEF Spec, NoHandlerAfterSuspension
=============================================================================
