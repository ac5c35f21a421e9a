---- MODULE HostDispatch_proofs ----
(***************************************************************************)
(* Proofs about HostDispatch, for every number of handlers: the effect's   *)
(* continuation is used at most once, the handlers are called in order,    *)
(* the first answer stands and is snapshotted at most once.                *)
(*                                                                         *)
(* The argument: at most one handler "holds" the effect (it runs for the   *)
(* first time, or its promise is awaited), everyone behind it is idle, and *)
(* only it, or the promise it gave to resume(), can reach the program.     *)
(***************************************************************************)
EXTENDS HostDispatch, TLAPS

\* What handler h does next may still reach the program.
Holds(h) ==
  \/ handlers[h].stage = "sync"
  \/ handlers[h].stage = "async" /\ handlers[h].awaited

\* A handler that has answered is settled, one that is not waited for has answered, and
\* only one that has ended is late.
RecordsOK ==
  \A h \in Handler :
    /\ handlers[h].stage = "idle" => handlers[h] = Uncalled
    /\ handlers[h].outcome # "none" => handlers[h].settled
    /\ handlers[h].stage = "async" /\ ~handlers[h].awaited => handlers[h].settled
    /\ handlers[h].stage = "sync" => ~handlers[h].awaited
    /\ handlers[h].late => handlers[h].settled /\ Ended(h)

\* The holder is the last handler called, and the program still waits.
HolderOK ==
  \A h \in Handler : Holds(h) =>
    /\ program = "performs" /\ promise # "pending"
    /\ \A g \in Handler : g > h => handlers[g].stage = "idle"

PromiseOK ==
  promise = "pending" =>
    /\ program = "performs"
    /\ \E h \in Handler : /\ Decides(h) /\ Answer(h) = "promise"
                          /\ handlers[h].stage # "thrown"

IInv ==
  /\ TypeOK /\ RecordsOK /\ HolderOK /\ PromiseOK
  /\ DeliveredOnce /\ ChainInOrder /\ FirstAnswerStands /\ OneAutoSnapshot

USE DispatchAssumption DEF Handler

\* A dispatch starts with nobody called.
LEMMA InitInv == Init => IInv
<1> SUFFICES ASSUME Init PROVE IInv
  OBVIOUS
<1>1. \A h \in Handler : handlers[h] = Uncalled
  BY DEF Init
<1>2. TypeOK
  BY DEF Init, TypeOK, Records, Uncalled, Stages, Outcomes, Steps, Signals, Fates
<1>3. RecordsOK /\ HolderOK /\ PromiseOK
  BY <1>1 DEF Init, RecordsOK, HolderOK, PromiseOK, Holds, Uncalled
<1>4. DeliveredOnce /\ ChainInOrder /\ FirstAnswerStands /\ OneAutoSnapshot
  BY <1>1 DEF Init, DeliveredOnce, ChainInOrder, FirstAnswerStands, OneAutoSnapshot, Decides, Uncalled
<1> QED
  BY <1>2, <1>3, <1>4 DEF IInv

\* Only one handler can have the last word.
LEMMA OneDecides ==
  ASSUME NEW g \in Handler, NEW h \in Handler, Decides(g), Decides(h)
  PROVE g = h
<1>1. ~(g < h) /\ ~(h < g)
  BY DEF Decides, PassedOn
<1> QED
  BY <1>1

\* If somebody holds the effect, nobody else can have the last word.
LEMMA HolderDecides ==
  ASSUME IInv, NEW h \in Handler, Holds(h), NEW g \in Handler, Decides(g)
  PROVE g = h
<1>1. PassedOn(h)
  BY DEF IInv, ChainInOrder, Holds
<1>2. ~(g < h)
  BY <1>1 DEF PassedOn, Decides
<1>3. ~(h < g)
  BY DEF IInv, HolderOK, Decides
<1> QED
  BY <1>2, <1>3

\* There is one holder at a time.
LEMMA OneHolder ==
  ASSUME IInv, NEW g \in Handler, NEW h \in Handler, Holds(g), Holds(h)
  PROVE g = h
<1>1. ~(g < h) /\ ~(h < g)
  BY DEF IInv, HolderOK, Holds
<1> QED
  BY <1>1

\* The end of handler h, or its first await, with what the program is given: the part of
\* the invariant that does not look at the fate.
LEMMA StageInv ==
  ASSUME IInv, NEW h \in Handler, Holds(h),
         NEW s \in {"returned", "async", "thrown", "rejected"},
         s = "async" => ~handlers[h].awaited /\ handlers[h].settled,
         handlers' = To(h, s), UNCHANGED <<effect, auto, explicit>>,
         inTick' \in BOOLEAN, promise' \in {"none", "pending", "settled"}
  PROVE /\ handlers' \in [Handler -> Records]
        /\ RecordsOK' /\ ChainInOrder' /\ OneAutoSnapshot'
        /\ \A g \in Handler : ~Holds(g)'
        /\ \A g \in Handler : Decides(g)' => g = h
        /\ \A g \in Handler : Answer(g)' = Answer(g)
        /\ Answer(h) = handlers[h].outcome
        /\ handlers'[h].stage = s
        /\ PassedOn(h)'
<1>1. handlers \in [Handler -> Records] /\ s \in Stages /\ ~handlers[h].late
  BY DEF IInv, TypeOK, RecordsOK, Stages, EndStages, Ended, Holds
<1>2. handlers' = [handlers EXCEPT ![h].stage = s]
  BY DEF To
<1>3. /\ \A g \in Handler : g # h => handlers'[g] = handlers[g]
      /\ handlers'[h] = [handlers[h] EXCEPT !.stage = s]
      /\ handlers' \in [Handler -> Records]
  BY <1>1, <1>2 DEF Records
<1>4. /\ handlers'[h].stage = s /\ handlers'[h].settled = handlers[h].settled
      /\ handlers'[h].outcome = handlers[h].outcome /\ handlers'[h].awaited = handlers[h].awaited
      /\ handlers'[h].late = handlers[h].late
  BY <1>1, <1>3 DEF Records
<1>5. \A g \in Handler : Answer(g)' = Answer(g) /\ handlers'[g].settled = handlers[g].settled
  BY <1>3, <1>4 DEF Answer
<1>6. \A g \in Handler : PassedOn(g)' <=> PassedOn(g)
  BY <1>5 DEF PassedOn
<1>7. handlers[h].stage # "idle" /\ s # "idle"
  BY DEF Holds
<1>8. \A g \in Handler : Decides(g)' <=> Decides(g)
  BY <1>3, <1>4, <1>5, <1>6, <1>7 DEF Decides
<1>9. RecordsOK'
  <2> SUFFICES ASSUME NEW g \in Handler
               PROVE /\ handlers'[g].stage = "idle" => handlers'[g] = Uncalled
                     /\ handlers'[g].outcome # "none" => handlers'[g].settled
                     /\ handlers'[g].stage = "async" /\ ~handlers'[g].awaited => handlers'[g].settled
                     /\ handlers'[g].stage = "sync" => ~handlers'[g].awaited
                     /\ handlers'[g].late => handlers'[g].settled /\ Ended(g)'
    BY DEF RecordsOK
  <2>1. CASE g = h
    BY <1>1, <1>4, <1>7, <2>1 DEF IInv, RecordsOK
  <2>2. CASE g # h
    BY <1>3, <2>2 DEF IInv, RecordsOK, Ended
  <2> QED
    BY <2>1, <2>2
<1>10. ChainInOrder'
  BY <1>3, <1>4, <1>6, <1>7 DEF IInv, ChainInOrder
<1>11. OneAutoSnapshot'
  BY <1>5, <1>8 DEF IInv, OneAutoSnapshot
<1>12. \A g \in Handler : ~Holds(g)'
  <2> SUFFICES ASSUME NEW g \in Handler, Holds(g)' PROVE FALSE
    OBVIOUS
  <2>1. g # h
    BY <1>4 DEF Holds
  <2>2. Holds(g)
    BY <2>1, <1>3 DEF Holds
  <2> QED
    BY <2>1, <2>2, OneHolder
<1>13. \A g \in Handler : Decides(g)' => g = h
  BY <1>8, HolderDecides
<1>14. PassedOn(h)'
  BY <1>6, <1>7 DEF IInv, ChainInOrder
<1>15. Answer(h) = handlers[h].outcome
  BY <1>1 DEF Answer
<1> QED
  BY <1>3, <1>4, <1>5, <1>9, <1>10, <1>11, <1>12, <1>13, <1>14, <1>15

\* The holder ends, and the program is given something: nothing can reach it again.
LEMMA DeliverInv ==
  ASSUME IInv, NEW h \in Handler, Holds(h),
         NEW s \in {"returned", "async", "thrown", "rejected"},
         s = "async" => ~handlers[h].awaited /\ handlers[h].settled,
         handlers' = To(h, s), UNCHANGED <<effect, auto, explicit, promise>>, inTick' \in BOOLEAN,
         NEW fate \in Fates \ {"performs"}, Deliver(fate),
         \/ handlers[h].outcome = "next" /\ s # "thrown"
         \/ fate \in Meant(IF s = "thrown" THEN "none" ELSE handlers[h].outcome)
  PROVE IInv'
<1>1. promise' \in {"none", "pending", "settled"}
  BY DEF IInv, TypeOK
<1>2. /\ handlers' \in [Handler -> Records]
      /\ RecordsOK' /\ ChainInOrder' /\ OneAutoSnapshot'
      /\ \A g \in Handler : ~Holds(g)'
      /\ \A g \in Handler : Decides(g)' => g = h
      /\ Answer(h)' = handlers[h].outcome
      /\ handlers'[h].stage = s
      /\ PassedOn(h)'
  BY <1>1, StageInv
<1>3. program = "performs" /\ delivered = 0 /\ promise # "pending"
  BY DEF IInv, HolderOK, DeliveredOnce
<1>4. program' = fate /\ delivered' = 1
  BY <1>3 DEF Deliver
<1>5. TypeOK'
  BY <1>1, <1>2, <1>4 DEF IInv, TypeOK
<1>6. HolderOK' /\ PromiseOK' /\ DeliveredOnce'
  BY <1>2, <1>3, <1>4 DEF HolderOK, PromiseOK, DeliveredOnce
<1>7. FirstAnswerStands'
  <2> SUFFICES ASSUME NEW g \in Handler, Decides(g)'
               PROVE program' \in Meant(IF handlers'[g].stage = "thrown" THEN "none" ELSE Answer(g)')
    BY DEF FirstAnswerStands, Meant
  <2>1. g = h /\ Answer(h)' # "next"
    BY <1>2 DEF Decides
  <2> QED
    BY <2>1, <1>2, <1>4
<1> QED
  BY <1>2, <1>5, <1>6, <1>7 DEF IInv

\* The next handler of the chain is called.
LEMMA CallInv ==
  ASSUME IInv, NEW h \in Handler, Holds(h), h < N, handlers[h].outcome = "next",
         NEW s \in {"returned", "async", "rejected"},
         s = "async" => ~handlers[h].awaited /\ handlers[h].settled,
         handlers' = Call(To(h, s), h + 1), NotDelivered,
         UNCHANGED <<effect, auto, explicit, promise>>, inTick' \in BOOLEAN
  PROVE IInv'
<1>0. handlers \in [Handler -> Records] /\ s \in Stages /\ "sync" \in Stages /\ h + 1 \in Handler
  BY DEF IInv, TypeOK, Stages, EndStages
<1>1. /\ program = "performs" /\ promise # "pending" /\ delivered = 0
      /\ \A g \in Handler : g > h => handlers[g] = Uncalled
  BY DEF IInv, HolderOK, DeliveredOnce, RecordsOK
<1>2. /\ handlers[h].stage # "idle" /\ ~handlers[h].late
      /\ \A g \in Handler : g <= h => Answer(g) = "next"
  BY DEF IInv, ChainInOrder, PassedOn, Holds, RecordsOK, Ended, EndStages, Answer
<1>3. handlers' = [[handlers EXCEPT ![h].stage = s] EXCEPT ![h + 1].stage = "sync"]
  BY DEF Call, To
<1>4. /\ \A g \in Handler : g # h /\ g # h + 1 => handlers'[g] = handlers[g]
      /\ handlers'[h] = [handlers[h] EXCEPT !.stage = s]
      /\ handlers'[h + 1] = [handlers[h + 1] EXCEPT !.stage = "sync"]
      /\ handlers' \in [Handler -> Records]
  <2> DEFINE hs == [handlers EXCEPT ![h].stage = s]
  <2> h + 1 # h /\ h \in Handler
    OBVIOUS
  <2>1. /\ hs \in [Handler -> Records] /\ hs[h] = [handlers[h] EXCEPT !.stage = s]
        /\ \A g \in Handler : g # h => hs[g] = handlers[g]
    BY <1>0 DEF Records
  <2>2. handlers' = [hs EXCEPT ![h + 1].stage = "sync"]
    BY <1>3
  <2>3. hs[h + 1] = handlers[h + 1] /\ hs[h] = [handlers[h] EXCEPT !.stage = s]
    BY <2>1, <1>0
  <2> HIDE DEF hs
  <2>4. handlers' \in [Handler -> Records]
    <3> DEFINE r == [hs[h + 1] EXCEPT !.stage = "sync"]
    <3>1. r \in Records
      <4>1. hs[h + 1] \in Records /\ "sync" \in Stages
        BY <2>1, <1>0 DEF Stages
      <4> QED
        BY <4>1 DEF Records
    <3>2. handlers' = [hs EXCEPT ![h + 1] = r]
      BY <2>2
    <3> HIDE DEF r
    <3> QED
      BY <3>1, <3>2, <2>1, <1>0
  <2>5. /\ \A g \in Handler : g # h + 1 => handlers'[g] = hs[g]
        /\ handlers'[h + 1] = [hs[h + 1] EXCEPT !.stage = "sync"]
    BY <2>1, <2>2, <1>0
  <2> QED
    BY <2>1, <2>3, <2>4, <2>5
<1>5. /\ handlers'[h].stage = s /\ handlers'[h].settled = handlers[h].settled
      /\ handlers'[h].outcome = "next" /\ handlers'[h].awaited = handlers[h].awaited
      /\ handlers'[h].late = FALSE /\ handlers'[h + 1].late = FALSE
      /\ handlers'[h + 1].stage = "sync" /\ handlers'[h + 1].settled = FALSE
      /\ handlers'[h + 1].outcome = "none" /\ handlers'[h + 1].awaited = FALSE
  <2>1. handlers[h] \in Records /\ handlers[h + 1] = Uncalled
    BY <1>0, <1>1
  <2> QED
    BY <1>2, <1>4, <2>1 DEF Uncalled, Records
<1>6. \A g \in Handler : Answer(g)' = Answer(g) /\ handlers'[g].settled = handlers[g].settled
  <2>1. handlers[h + 1].outcome = "none" /\ ~handlers[h + 1].settled /\ ~handlers[h + 1].late
    BY <1>0, <1>1 DEF Uncalled
  <2>2. Answer(h)' = Answer(h) /\ Answer(h + 1)' = Answer(h + 1)
    BY <1>2, <1>5, <2>1 DEF Answer
  <2>3. \A g \in Handler : g # h /\ g # h + 1 => Answer(g)' = Answer(g)
    BY <1>4 DEF Answer
  <2>4. /\ handlers'[h].settled = handlers[h].settled
        /\ handlers'[h + 1].settled = handlers[h + 1].settled
    <3>1. handlers[h + 1].settled = FALSE
      BY <1>0, <1>1 DEF Uncalled
    <3> QED
      BY <1>5, <3>1
  <2>5. \A g \in Handler : g # h /\ g # h + 1 => handlers'[g].settled = handlers[g].settled
    BY <1>4
  <2> QED
    BY <2>2, <2>3, <2>4, <2>5
<1>7. \A g \in Handler : g > h + 1 => handlers'[g].stage = "idle"
  BY <1>0, <1>1, <1>4 DEF Uncalled
<1>8. ChainInOrder'
  BY <1>0, <1>2, <1>4, <1>5, <1>6, <1>7, SMTT(30) DEF IInv, ChainInOrder, PassedOn
<1>9. RecordsOK'
  <2> SUFFICES ASSUME NEW g \in Handler
               PROVE /\ handlers'[g].stage = "idle" => handlers'[g] = Uncalled
                     /\ handlers'[g].outcome # "none" => handlers'[g].settled
                     /\ handlers'[g].stage = "async" /\ ~handlers'[g].awaited => handlers'[g].settled
                     /\ handlers'[g].stage = "sync" => ~handlers'[g].awaited
                     /\ handlers'[g].late => handlers'[g].settled /\ Ended(g)'
    BY DEF RecordsOK
  <2>1. CASE g = h
    BY <1>5, <2>1 DEF IInv, RecordsOK
  <2>2. CASE g = h + 1
    BY <1>5, <2>2
  <2>3. CASE g # h /\ g # h + 1
    BY <1>4, <2>3 DEF IInv, RecordsOK, Ended
  <2> QED
    BY <2>1, <2>2, <2>3
<1>10. program' = "performs" /\ delivered' = 0 /\ promise' # "pending"
  BY <1>1 DEF NotDelivered
<1>11. HolderOK'
  <2> SUFFICES ASSUME NEW g \in Handler, Holds(g)' PROVE g = h + 1
    BY <1>7, <1>10 DEF HolderOK
  <2>1. g # h
    BY <1>5 DEF Holds
  <2>2. CASE g # h + 1
    <3>1. Holds(g)
      BY <2>1, <2>2, <1>4 DEF Holds
    <3> QED
      BY <3>1, <2>1, OneHolder
  <2> QED
    BY <2>2
<1>12. PromiseOK' /\ DeliveredOnce' /\ FirstAnswerStands'
  BY <1>10 DEF PromiseOK, DeliveredOnce, FirstAnswerStands
<1>13. OneAutoSnapshot'
  <2>1. \A g \in Handler : ~Decides(g)
    BY <1>2, HolderDecides DEF Decides
  <2> QED
    BY <2>1 DEF IInv, OneAutoSnapshot, TypeOK
<1>14. TypeOK'
  BY <1>4, <1>10 DEF IInv, TypeOK, Fates
<1> QED
  BY <1>8, <1>9, <1>11, <1>12, <1>13, <1>14 DEF IInv

\* A handler's answer is used.
LEMMA ResolveInv ==
  ASSUME IInv, NEW h \in Handler, Holds(h), handlers[h].outcome # "none",
         NEW s \in {"returned", "async", "rejected"}, s = "async" => ~handlers[h].awaited,
         NEW tick \in BOOLEAN, resolveOutcome(To(h, s), h, tick),
         UNCHANGED <<effect, auto, explicit>>, inTick' \in BOOLEAN
  PROVE IInv'
<1>1. handlers[h].settled /\ handlers[h].outcome \in Outcomes
  BY DEF IInv, RecordsOK, TypeOK, Records
<1>2. To(h, s)[h].outcome = handlers[h].outcome
  BY DEF IInv, TypeOK, Records, To
<1> DEFINE o == handlers[h].outcome
<1>3. CASE o = "value" /\ Deliver("continues") /\ handlers' = To(h, s) /\ UNCHANGED promise
  BY <1>1, <1>3, DeliverInv DEF Fates, Meant, Signals
<1>4. CASE o = "error" /\ Deliver("raises") /\ handlers' = To(h, s) /\ UNCHANGED promise
  BY <1>1, <1>4, DeliverInv DEF Fates, Meant, Signals
<1>5. CASE o \in Signals /\ Deliver("leaves") /\ handlers' = To(h, s) /\ UNCHANGED promise
  BY <1>1, <1>5, DeliverInv DEF Fates, Meant, Signals
<1>6. CASE o = "promise" /\ handlers' = To(h, s) /\ promise' = "pending" /\ NotDelivered
  <2>1. /\ handlers' \in [Handler -> Records]
        /\ RecordsOK' /\ ChainInOrder' /\ OneAutoSnapshot'
        /\ \A g \in Handler : ~Holds(g)'
        /\ Answer(h)' = o
        /\ handlers'[h].stage = s /\ PassedOn(h)'
    BY <1>1, <1>6, StageInv
  <2>2. program' = "performs" /\ delivered' = 0
    BY <1>6 DEF NotDelivered, IInv, HolderOK, DeliveredOnce
  <2>3. Decides(h)' /\ Answer(h)' = "promise" /\ handlers'[h].stage # "thrown"
    BY <1>6, <2>1 DEF Decides
  <2>4. TypeOK'
    BY <1>6, <2>1, <2>2 DEF IInv, TypeOK, Fates
  <2>5. HolderOK' /\ PromiseOK' /\ DeliveredOnce' /\ FirstAnswerStands'
    BY <2>1, <2>2, <2>3 DEF HolderOK, PromiseOK, DeliveredOnce, FirstAnswerStands
  <2> QED
    BY <2>1, <2>4, <2>5 DEF IInv
<1>7. CASE o = "next" /\ h < N /\ handlers' = Call(To(h, s), h + 1) /\ NotDelivered /\ UNCHANGED promise
  BY <1>1, <1>7, CallInv
<1>8. CASE o = "next" /\ h = N /\ handlers' = To(h, s) /\ FallThrough(tick) /\ UNCHANGED promise
  <2>1. PICK fate \in {"continues", "raises", "fails"} : Deliver(fate)
    BY <1>8 DEF FallThrough, ThrowDvalaError
  <2> QED
    BY <1>1, <1>8, <2>1, DeliverInv DEF Fates
<1> QED
  BY <1>2, <1>3, <1>4, <1>5, <1>6, <1>7, <1>8 DEF resolveOutcome

\* A handler ends; without an answer that is an error.
LEMMA ConcludeInv ==
  ASSUME IInv, NEW h \in Handler, Holds(h), NEW tick \in BOOLEAN,
         Conclude(To(h, "returned"), h, tick), UNCHANGED <<effect, auto, explicit>>, inTick' \in BOOLEAN
  PROVE IInv'
<1>1. To(h, "returned")[h].outcome = handlers[h].outcome
  BY DEF IInv, TypeOK, Records, To
<1>2. CASE handlers[h].outcome = "none" /\ ThrowDvalaError(tick) /\ handlers' = To(h, "returned") /\ UNCHANGED promise
  <2>1. PICK fate \in {"raises", "fails"} : Deliver(fate)
    BY <1>2 DEF ThrowDvalaError
  <2> QED
    BY <1>2, <2>1, DeliverInv DEF Fates, Meant, Signals
<1>3. CASE handlers[h].outcome # "none" /\ resolveOutcome(To(h, "returned"), h, tick)
  BY <1>3, ResolveInv
<1> QED
  BY <1>1, <1>2, <1>3 DEF Conclude

\* Handler g is what it was to the chain: its answer, whether it was called, and whether
\* it threw.
Alike(g) ==
  /\ Answer(g)' = Answer(g) /\ handlers'[g].settled = handlers[g].settled
  /\ (PassedOn(g)' <=> PassedOn(g)) /\ (Decides(g)' <=> Decides(g))
  /\ handlers'[g].stage = "idle" <=> handlers[g].stage = "idle"
  /\ handlers'[g].stage = "thrown" <=> handlers[g].stage = "thrown"

\* As long as every handler is, nothing else has to be looked at.
LEMMA AlikeInv ==
  ASSUME IInv, \A g \in Handler : Alike(g), UNCHANGED <<promise, program, delivered, auto>>
  PROVE PromiseOK' /\ DeliveredOnce' /\ ChainInOrder' /\ OneAutoSnapshot' /\ FirstAnswerStands'
<1>1. PromiseOK'
  BY DEF IInv, PromiseOK, Alike
<1>2. DeliveredOnce' /\ ChainInOrder'
  BY DEF IInv, DeliveredOnce, ChainInOrder, Alike
<1>3. OneAutoSnapshot'
  BY DEF IInv, OneAutoSnapshot, Alike
<1>4. FirstAnswerStands'
  <2> SUFFICES ASSUME NEW g \in Handler, Decides(g)', program' # "performs"
               PROVE program' \in Meant(IF handlers'[g].stage = "thrown" THEN "none" ELSE Answer(g)')
    BY DEF FirstAnswerStands
  <2>1. program \in Meant(IF handlers[g].stage = "thrown" THEN "none" ELSE Answer(g))
    BY DEF IInv, FirstAnswerStands, Alike
  <2>2. (IF handlers'[g].stage = "thrown" THEN "none" ELSE Answer(g)')
          = IF handlers[g].stage = "thrown" THEN "none" ELSE Answer(g)
    BY DEF Alike
  <2> QED
    BY <2>1, <2>2
<1> QED
  BY <1>1, <1>2, <1>3, <1>4

\* A handler that is no longer waited for goes on: nothing of it reaches the program.
LEMMA TailInv ==
  ASSUME IInv, NEW h \in Handler, handlers[h].stage = "async", ~handlers[h].awaited,
         NEW s \in {"returned", "rejected"}, handlers' = To(h, s),
         UNCHANGED <<effect, inTick, promise, program, delivered, auto, explicit>>
  PROVE IInv'
<1>1. handlers \in [Handler -> Records] /\ s \in Stages /\ ~handlers[h].late
  BY DEF IInv, TypeOK, RecordsOK, Stages, EndStages, Ended
<1>2. handlers' = [handlers EXCEPT ![h].stage = s]
  BY DEF To
<1>3. /\ \A g \in Handler : g # h => handlers'[g] = handlers[g]
      /\ handlers'[h] = [handlers[h] EXCEPT !.stage = s]
      /\ handlers' \in [Handler -> Records]
  BY <1>1, <1>2 DEF Records
<1>4. /\ handlers'[h].stage = s /\ handlers'[h].settled = handlers[h].settled
      /\ handlers'[h].outcome = handlers[h].outcome /\ handlers'[h].awaited = handlers[h].awaited
      /\ handlers'[h].late = handlers[h].late
  BY <1>1, <1>3 DEF Records
<1>5. \A g \in Handler : Answer(g)' = Answer(g) /\ handlers'[g].settled = handlers[g].settled
  BY <1>3, <1>4 DEF Answer
<1>9. \A g \in Handler : PassedOn(g)' <=> PassedOn(g)
  BY <1>5 DEF PassedOn
<1>6. \A g \in Handler : (PassedOn(g)' <=> PassedOn(g)) /\ (Decides(g)' <=> Decides(g))
  BY <1>3, <1>4, <1>5, <1>9 DEF Decides
<1>7. \A g \in Handler : Holds(g)' => Holds(g) /\ g # h
  BY <1>3, <1>4 DEF Holds
<1>8. TypeOK'
  BY <1>3 DEF IInv, TypeOK
<1>12. RecordsOK'
  <2> SUFFICES ASSUME NEW g \in Handler
               PROVE /\ handlers'[g].stage = "idle" => handlers'[g] = Uncalled
                     /\ handlers'[g].outcome # "none" => handlers'[g].settled
                     /\ handlers'[g].stage = "async" /\ ~handlers'[g].awaited => handlers'[g].settled
                     /\ handlers'[g].stage = "sync" => ~handlers'[g].awaited
                     /\ handlers'[g].late => handlers'[g].settled /\ Ended(g)'
    BY DEF RecordsOK
  <2>1. CASE g = h
    BY <1>1, <1>4, <2>1 DEF IInv, RecordsOK
  <2>2. CASE g # h
    BY <1>3, <2>2 DEF IInv, RecordsOK, Ended
  <2> QED
    BY <2>1, <2>2
<1>11. HolderOK'
  <2> SUFFICES ASSUME NEW g \in Handler, Holds(g)', NEW f \in Handler, f > g
               PROVE program' = "performs" /\ promise' # "pending" /\ handlers'[f].stage = "idle"
    BY <1>7 DEF IInv, HolderOK
  <2>1. f # h
    BY <1>7 DEF IInv, HolderOK
  <2> QED
    BY <2>1, <1>3, <1>7 DEF IInv, HolderOK
<1>10. ASSUME NEW g \in Handler PROVE Alike(g)
  <2>1. Answer(g)' = Answer(g)
    BY <1>5
  <2>2. handlers'[g].settled = handlers[g].settled
    BY <1>5
  <2>3. PassedOn(g)' <=> PassedOn(g)
    BY <1>6
  <2>4. Decides(g)' <=> Decides(g)
    BY <1>6
  <2>5. /\ handlers'[g].stage = "idle" <=> handlers[g].stage = "idle"
        /\ handlers'[g].stage = "thrown" <=> handlers[g].stage = "thrown"
    BY <1>3, <1>4
  <2> QED
    BY <2>1, <2>2, <2>3, <2>4, <2>5 DEF Alike
<1> QED
  BY <1>8, <1>11, <1>10, <1>12, AlikeInv DEF IInv

\* An operation of ctx is accepted or refused, by the handler that holds the effect or,
\* too late, by one that has ended without an answer: either has the last word.
LEMMA OperateInv ==
  ASSUME IInv, NEW h \in Handler, NEW o \in Outcomes, NEW accepted \in BOOLEAN, Operate(h, o, accepted)
  PROVE IInv'
<1> DEFINE new == IF accepted THEN o ELSE "none"
<1>1. /\ handlers \in [Handler -> Records] /\ handlers[h].outcome = "none"
      /\ ~handlers[h].settled /\ ~handlers[h].late
  BY DEF IInv, TypeOK, Records, RecordsOK, Operate
<1>2. handlers[h].stage # "idle" /\ (Holds(h) \/ Ended(h))
  BY DEF IInv, TypeOK, Records, RecordsOK, Operate, Running, Holds, Ended, Stages
<1>3. /\ \A g \in Handler : g # h => handlers'[g] = handlers[g]
      /\ handlers' \in [Handler -> Records]
      /\ handlers'[h].stage = handlers[h].stage /\ handlers'[h].settled
      /\ handlers'[h].outcome = new /\ handlers'[h].awaited = handlers[h].awaited
      /\ handlers'[h].late = Ended(h)
  <2> DEFINE e == Ended(h)
             r == [handlers[h] EXCEPT !.settled = TRUE, !.outcome = new, !.late = e]
  <2>7. handlers' = [handlers EXCEPT ![h].settled = TRUE,
                                     ![h].outcome = IF accepted THEN o ELSE handlers[h].outcome,
                                     ![h].late = e]
    BY <1>1 DEF Operate
  <2>5. handlers' = [handlers EXCEPT ![h].settled = TRUE, ![h].outcome = new, ![h].late = e]
    BY <1>1, <2>7
  <2>6. e \in BOOLEAN /\ new \in Outcomes \cup {"none"}
    BY DEF Ended
  <2> HIDE DEF e, new
  <2>1. handlers' = [handlers EXCEPT ![h] = r]
    BY <2>5
  <2>2. r \in Records /\ r.stage = handlers[h].stage /\ r.settled /\ r.outcome = new
        /\ r.awaited = handlers[h].awaited /\ r.late = e
    BY <1>1, <2>6 DEF Records
  <2>3. handlers' = [handlers EXCEPT ![h] = r]
    BY <2>1
  <2> HIDE DEF r
  <2>4. (\A g \in Handler : g # h => handlers'[g] = handlers[g]) /\ handlers'[h] = r
        /\ handlers' \in [Handler -> Records]
    BY <1>1, <2>2, <2>3
  <2> QED
    BY <2>2, <2>4 DEF e
<1>4. UNCHANGED <<program, promise, delivered, effect, inTick, explicit>>
  BY DEF Operate
<1>5. \A g \in Handler : Holds(g)' <=> Holds(g)
  BY <1>3 DEF Holds
<1>6. Answer(h) = "none" /\ \A g \in Handler : g # h => Answer(g)' = Answer(g)
  BY <1>1, <1>3 DEF Answer
<1>7. Decides(h) /\ PassedOn(h)'
  BY <1>2, <1>6 DEF IInv, ChainInOrder, Decides, PassedOn
<1>8. \A g \in Handler : g > h => handlers[g].stage = "idle"
  <2> SUFFICES ASSUME NEW g \in Handler, g > h, handlers[g].stage # "idle" PROVE FALSE
    OBVIOUS
  <2> QED
    BY <1>6 DEF IInv, ChainInOrder, PassedOn
<1>9. ChainInOrder'
  <2> SUFFICES ASSUME NEW g \in Handler, handlers'[g].stage # "idle" PROVE PassedOn(g)'
    BY DEF ChainInOrder
  <2>1. g <= h
    BY <1>3, <1>8
  <2> QED
    BY <2>1, <1>7 DEF PassedOn
<1>10. RecordsOK'
  <2> SUFFICES ASSUME NEW g \in Handler
               PROVE /\ handlers'[g].stage = "idle" => handlers'[g] = Uncalled
                     /\ handlers'[g].outcome # "none" => handlers'[g].settled
                     /\ handlers'[g].stage = "async" /\ ~handlers'[g].awaited => handlers'[g].settled
                     /\ handlers'[g].stage = "sync" => ~handlers'[g].awaited
                     /\ handlers'[g].late => handlers'[g].settled /\ Ended(g)'
    BY DEF RecordsOK
  <2>1. CASE g = h
    BY <1>2, <1>3, <2>1 DEF IInv, RecordsOK, Ended
  <2>2. CASE g # h
    BY <1>3, <2>2 DEF IInv, RecordsOK, Ended
  <2> QED
    BY <2>1, <2>2
<1>11. HolderOK' /\ DeliveredOnce'
  BY <1>3, <1>4, <1>5 DEF IInv, HolderOK, DeliveredOnce
<1>12. promise # "pending"
  <2> SUFFICES ASSUME promise = "pending" PROVE FALSE
    OBVIOUS
  <2>1. PICK g \in Handler : Decides(g) /\ Answer(g) = "promise"
    BY DEF IInv, PromiseOK
  <2>2. g = h
    BY <1>7, <2>1, OneDecides
  <2> QED
    BY <1>6, <2>1, <2>2
<1>13. PromiseOK'
  BY <1>4, <1>12 DEF PromiseOK
<1>14. FirstAnswerStands'
  <2>1. CASE Holds(h)
    BY <1>4, <2>1 DEF IInv, HolderOK, FirstAnswerStands
  <2>2. CASE Ended(h)
    <3>1. \A g \in Handler : Answer(g)' = Answer(g)
      BY <1>3, <1>6, <2>2 DEF Answer
    <3>2. \A g \in Handler : handlers'[g].stage = handlers[g].stage
      BY <1>3
    <3>3. \A g \in Handler : Decides(g)' <=> Decides(g)
      BY <3>1, <3>2 DEF Decides, PassedOn
    <3> QED
      BY <1>4, <3>1, <3>2, <3>3 DEF IInv, FirstAnswerStands
  <2> QED
    BY <1>2, <2>1, <2>2
<1>15. auto = 0
  <2> SUFFICES ASSUME auto # 0 PROVE FALSE
    OBVIOUS
  <2>1. PICK g \in Handler : handlers[g].settled /\ Decides(g)
    BY DEF IInv, OneAutoSnapshot, TypeOK
  <2>2. g = h
    BY <1>7, <2>1, OneDecides
  <2> QED
    BY <1>1, <2>1, <2>2
<1>16. OneAutoSnapshot'
  <2>1. CASE auto' = 0
    BY <2>1 DEF OneAutoSnapshot
  <2>2. CASE auto' # 0
    <3>1. auto' = 1 /\ o \in {"value", "promise"}
      BY <1>15, <2>2 DEF Operate, Snapshots
    <3>2. Decides(h)' /\ handlers'[h].settled
      BY <3>1, <1>2, <1>3, <1>7 DEF Decides, Answer
    <3> QED
      BY <3>1, <3>2 DEF OneAutoSnapshot
  <2> QED
    BY <2>1, <2>2
<1>17. TypeOK'
  BY <1>3, <1>4, <1>15 DEF IInv, TypeOK, Operate, Snapshots
<1> QED
  BY <1>9, <1>10, <1>11, <1>13, <1>14, <1>16, <1>17 DEF IInv

\* The effect is dispatched, or its branch has been aborted before.
LEMMA DispatchInv == IInv /\ Dispatch => IInv'
<1> SUFFICES ASSUME IInv, Dispatch PROVE IInv'
  OBVIOUS
<1>1. \A h \in Handler : handlers[h] = Uncalled
  BY DEF IInv, ChainInOrder, PassedOn, Answer, RecordsOK, Dispatch, Uncalled
<1>2. program = "performs" /\ delivered = 0 /\ auto # 1 /\ promise # "pending"
  BY <1>1 DEF IInv, Dispatch, DeliveredOnce, OneAutoSnapshot, PromiseOK, Decides, Uncalled
<1>3. CASE Deliver("leaves") /\ UNCHANGED handlers
  BY <1>1, <1>2, <1>3 DEF IInv, Dispatch, Deliver, TypeOK, RecordsOK, HolderOK, PromiseOK, DeliveredOnce,
     ChainInOrder, FirstAnswerStands, OneAutoSnapshot, Holds, Decides, Uncalled, Fates, PassedOn
<1>4. CASE handlers' = Call(handlers, 1) /\ NotDelivered
  <2>1. handlers \in [Handler -> Records] /\ 1 \in Handler /\ "sync" \in Stages
    BY DEF IInv, TypeOK, Stages, EndStages
  <2>2. /\ handlers' \in [Handler -> Records]
        /\ handlers'[1] = [Uncalled EXCEPT !.stage = "sync"]
        /\ \A g \in Handler : g # 1 => handlers'[g] = Uncalled
    <3> DEFINE r == [Uncalled EXCEPT !.stage = "sync"]
    <3>1. handlers' = [handlers EXCEPT ![1] = [handlers[1] EXCEPT !.stage = "sync"]]
      BY <1>4 DEF Call
    <3>2. handlers' = [handlers EXCEPT ![1] = r]
      BY <1>1, <2>1, <3>1
    <3>3. r \in Records
      BY <2>1 DEF Records, Uncalled
    <3> HIDE DEF r
    <3>4. handlers' \in [Handler -> Records] /\ handlers'[1] = r
          /\ \A g \in Handler : g # 1 => handlers'[g] = handlers[g]
      BY <2>1, <3>2, <3>3
    <3> QED
      BY <1>1, <3>4 DEF r
  <2>3. TypeOK'
    BY <1>4, <2>2 DEF IInv, TypeOK, Dispatch, NotDelivered
  <2>4. /\ program' = "performs" /\ delivered' = 0 /\ promise' # "pending" /\ auto' = 0
    BY <1>2, <1>4 DEF IInv, Dispatch, NotDelivered, TypeOK, OneAutoSnapshot
  <2>6. RecordsOK' /\ ChainInOrder'
    BY <2>1, <2>2 DEF RecordsOK, ChainInOrder, PassedOn, Uncalled
  <2>7. PromiseOK' /\ DeliveredOnce' /\ FirstAnswerStands' /\ OneAutoSnapshot'
    BY <2>4 DEF PromiseOK, DeliveredOnce, FirstAnswerStands, OneAutoSnapshot
  <2>5. HolderOK'
    <3>1. \A g \in Handler : g # 1 => handlers'[g].stage = "idle"
      BY <2>2 DEF Uncalled
    <3>2. \A g \in Handler : Holds(g)' => g = 1
      BY <3>1 DEF Holds
    <3> QED
      BY <2>4, <3>1, <3>2 DEF HolderOK
  <2> QED
    BY <2>3, <2>5, <2>6, <2>7 DEF IInv
<1> QED
  BY <1>3, <1>4 DEF Dispatch

\* The promise given to resume() settles: its handler had the last word.
LEMMA PromiseInv == IInv /\ PromiseSettles => IInv'
<1> SUFFICES ASSUME IInv, PromiseSettles PROVE IInv'
  OBVIOUS
<1>1. program = "performs" /\ delivered = 0 /\ \A h \in Handler : ~Holds(h)
  BY DEF IInv, PromiseSettles, PromiseOK, DeliveredOnce, HolderOK
<1>2. PICK h \in Handler : Decides(h) /\ Answer(h) = "promise" /\ handlers[h].stage # "thrown"
  BY DEF IInv, PromiseSettles, PromiseOK
<1>3. PICK fate \in {"continues", "raises"} : Deliver(fate)
  BY DEF PromiseSettles
<1>4. program' = fate /\ delivered' = 1 /\ promise' = "settled" /\ handlers' = handlers
  BY <1>1, <1>3 DEF Deliver, PromiseSettles
<1>5. FirstAnswerStands'
  <2> SUFFICES ASSUME NEW g \in Handler, Decides(g)'
               PROVE Answer(g)' = "promise" /\ handlers'[g].stage # "thrown"
    BY <1>4 DEF FirstAnswerStands, Meant, Signals
  <2>1. Decides(g)
    BY <1>4 DEF Decides, PassedOn, Answer
  <2> QED
    BY <2>1, <1>2, <1>4, OneDecides DEF Answer
<1>6. TypeOK' /\ RecordsOK' /\ HolderOK' /\ PromiseOK' /\ DeliveredOnce'
  BY <1>1, <1>4 DEF IInv, PromiseSettles, TypeOK, Fates, RecordsOK, HolderOK, Holds, PromiseOK, DeliveredOnce, Ended
<1>7. ChainInOrder' /\ OneAutoSnapshot'
  BY <1>4 DEF IInv, PromiseSettles, ChainInOrder, OneAutoSnapshot, PassedOn, Decides, Answer
<1> QED
  BY <1>5, <1>6, <1>7 DEF IInv

\* Nothing but checkpoints moves, or nothing at all.
LEMMA QuietInv ==
  ASSUME IInv, UNCHANGED <<handlers, effect, inTick, promise, program, delivered, auto>>,
         explicit' \in 0 .. MaxCheckpoints
  PROVE IInv'
<1>1. TypeOK' /\ RecordsOK' /\ HolderOK' /\ DeliveredOnce' /\ ChainInOrder'
  BY DEF IInv, TypeOK, RecordsOK, Ended, HolderOK, Holds, DeliveredOnce, ChainInOrder, PassedOn, Answer
<1>2. PromiseOK' /\ FirstAnswerStands' /\ OneAutoSnapshot'
  BY DEF IInv, PromiseOK, FirstAnswerStands, OneAutoSnapshot, Decides, PassedOn, Answer
<1> QED
  BY <1>1, <1>2 DEF IInv

\* Every step preserves the invariant.
LEMMA NextInv == IInv /\ [Next]_vars => IInv'
<1> SUFFICES ASSUME IInv, [Next]_vars PROVE IInv'
  OBVIOUS
<1>1. CASE Dispatch
  BY <1>1, DispatchInv
<1>2. CASE PromiseSettles
  BY <1>2, PromiseInv
<1>3. ASSUME NEW h \in Handler, NEW o \in Outcomes, NEW accepted \in BOOLEAN, Operate(h, o, accepted) PROVE IInv'
  BY <1>3, OperateInv
<1>4. ASSUME NEW h \in Handler, Checkpoint(h) PROVE IInv'
  <2>1. explicit' \in 0 .. MaxCheckpoints
    BY <1>4 DEF Checkpoint, IInv, TypeOK
  <2> QED
    BY <1>4, <2>1, QuietInv DEF Checkpoint
<1>5. ASSUME NEW h \in Handler, Returns(h) PROVE IInv'
  BY <1>5, ConcludeInv DEF Returns, Holds, IInv, TypeOK
<1>6. ASSUME NEW h \in Handler, Awaits(h) PROVE IInv'
  <2>1. Holds(h) /\ ~handlers[h].awaited
    BY <1>6 DEF Awaits, Holds, IInv, RecordsOK
  <2>2. CASE handlers[h].outcome # "none"
    BY <1>6, <2>1, <2>2, ResolveInv DEF Awaits, IInv, TypeOK
  <2>3. CASE handlers[h].outcome = "none"
    <3>1. handlers \in [Handler -> Records] /\ "async" \in Stages /\ ~handlers[h].late
      BY <2>1 DEF IInv, TypeOK, RecordsOK, Stages, EndStages, Ended, Holds
    <3>2. handlers' = [[handlers EXCEPT ![h].stage = "async"] EXCEPT ![h].awaited = TRUE]
      BY <1>6, <2>3 DEF Awaits, To
    <3>3. /\ \A g \in Handler : g # h => handlers'[g] = handlers[g]
          /\ handlers' \in [Handler -> Records]
          /\ handlers'[h].stage = "async" /\ handlers'[h].awaited
          /\ handlers'[h].settled = handlers[h].settled /\ handlers'[h].outcome = handlers[h].outcome
          /\ ~handlers'[h].late
      BY <3>1, <3>2 DEF Records
    <3>4. handlers[h].stage = "sync"
      BY <1>6 DEF Awaits
    <3>5. \A g \in Handler : /\ Answer(g)' = Answer(g) /\ handlers'[g].settled = handlers[g].settled
                             /\ handlers'[g].stage = "idle" <=> handlers[g].stage = "idle"
                             /\ Holds(g)' <=> Holds(g)
      BY <3>1, <3>3, <3>4 DEF Holds, Answer
    <3>6. \A g \in Handler : (PassedOn(g)' <=> PassedOn(g)) /\ (Decides(g)' <=> Decides(g))
      BY <3>5 DEF PassedOn, Decides
    <3>7. program' = program /\ delivered' = delivered /\ promise' = promise /\ auto' = auto /\ effect' = effect
          /\ inTick' = FALSE /\ explicit' = explicit
      BY <1>6, <2>3 DEF Awaits
    <3>8. TypeOK' /\ HolderOK' /\ DeliveredOnce'
      <4>1. TypeOK'
        BY <3>3, <3>7 DEF IInv, TypeOK
      <4>2. HolderOK' /\ DeliveredOnce'
        BY <3>5, <3>7 DEF IInv, HolderOK, DeliveredOnce
      <4> QED
        BY <4>1, <4>2
    <3>11. RecordsOK'
      <4> SUFFICES ASSUME NEW g \in Handler
                   PROVE /\ handlers'[g].stage = "idle" => handlers'[g] = Uncalled
                         /\ handlers'[g].outcome # "none" => handlers'[g].settled
                         /\ handlers'[g].stage = "async" /\ ~handlers'[g].awaited => handlers'[g].settled
                         /\ handlers'[g].stage = "sync" => ~handlers'[g].awaited
                         /\ handlers'[g].late => handlers'[g].settled /\ Ended(g)'
        BY DEF RecordsOK
      <4>1. CASE g = h
        BY <4>1, <3>3, <2>3
      <4>2. CASE g # h
        BY <4>2, <3>3 DEF IInv, RecordsOK, Ended
      <4> QED
        BY <4>1, <4>2
    <3>9. PromiseOK' /\ ChainInOrder' /\ OneAutoSnapshot'
      BY <2>1, <3>5, <3>6, <3>7 DEF IInv, HolderOK, PromiseOK, ChainInOrder, OneAutoSnapshot
    <3>10. FirstAnswerStands'
      BY <2>1, <3>7 DEF IInv, HolderOK, FirstAnswerStands
    <3> QED
      BY <3>8, <3>9, <3>10, <3>11 DEF IInv
  <2> QED
    BY <2>2, <2>3
<1>7. ASSUME NEW h \in Handler, Throws(h) PROVE IInv'
  <2>1. PICK fate \in {"raises", "leaves", "fails"} : Deliver(fate)
    BY <1>7 DEF Throws, ThrowDvalaError
  <2> QED
    BY <1>7, <2>1, DeliverInv DEF Throws, Holds, IInv, TypeOK, Fates, Meant, Signals
<1>8. ASSUME NEW h \in Handler, Fulfils(h) PROVE IInv'
  <2>1. CASE handlers[h].awaited
    BY <1>8, <2>1, ConcludeInv DEF Fulfils, Holds, IInv, TypeOK
  <2>2. CASE ~handlers[h].awaited
    BY <1>8, <2>2, TailInv DEF Fulfils, NotDelivered
  <2> QED
    BY <2>1, <2>2
<1>9. ASSUME NEW h \in Handler, Rejects(h) PROVE IInv'
  <2>1. CASE ~handlers[h].awaited /\ handlers' = To(h, "rejected") /\ UNCHANGED promise /\ NotDelivered
    BY <1>9, <2>1, TailInv DEF Rejects, NotDelivered
  <2>2. CASE handlers[h].awaited /\ handlers[h].outcome = "none" /\ handlers' = To(h, "rejected")
             /\ UNCHANGED promise /\ (Deliver("raises") \/ Deliver("leaves"))
    <3>1. PICK fate \in {"raises", "leaves"} : Deliver(fate)
      BY <2>2
    <3> QED
      BY <1>9, <2>2, <3>1, DeliverInv DEF Rejects, Holds, IInv, TypeOK, Fates, Meant, Signals
  <2>3. CASE handlers[h].awaited /\ handlers[h].outcome # "none" /\ resolveOutcome(To(h, "rejected"), h, FALSE)
    BY <1>9, <2>3, ResolveInv DEF Rejects, Holds, IInv, TypeOK
  <2> QED
    BY <1>9, <2>1, <2>2, <2>3 DEF Rejects
<1>10. CASE Over \/ UNCHANGED vars
  BY <1>10, QuietInv DEF Over, vars, IInv, TypeOK
<1> QED
  BY <1>1, <1>2, <1>3, <1>4, <1>5, <1>6, <1>7, <1>8, <1>9, <1>10 DEF Next, Ends, Settles

\* The invariant of every dispatch.
LEMMA Invariant == Spec => []IInv
  BY InitInv, NextInv, PTL DEF Spec

\* In every dispatch the stages, outcomes and fates are those of the model
\* (dispatchHostHandler).
THEOREM TypeCorrect == Spec => []TypeOK
<1>1. IInv => TypeOK
  BY DEF IInv
<1> QED
  BY <1>1, Invariant, PTL

\* The effect's continuation is used at most once, for every number of handlers and
\* whatever they do (dispatchHostHandler).
THEOREM AtMostOneAnswer == Spec => []DeliveredOnce
<1>1. IInv => DeliveredOnce
  BY DEF IInv
<1> QED
  BY <1>1, Invariant, PTL

\* Handlers are called in order, each only after all before it have passed the effect on
\* (tryHandler).
THEOREM HandlersInOrder == Spec => []ChainInOrder
<1>1. IInv => ChainInOrder
  BY DEF IInv
<1> QED
  BY <1>1, Invariant, PTL

\* The first answer of the handler that decides is what the program gets, even if that
\* handler fails later (resolveOutcome).
THEOREM FirstAnswerIsFinal == Spec => []FirstAnswerStands
<1>1. IInv => FirstAnswerStands
  BY DEF IInv
<1> QED
  BY <1>1, Invariant, PTL

\* An effect leaves at most one automatic snapshot (ctx.resume).
THEOREM SnapshotOnce == Spec => []OneAutoSnapshot
<1>1. IInv => OneAutoSnapshot
  BY DEF IInv
<1> QED
  BY <1>1, Invariant, PTL
====
