-------------------------- MODULE TimeTravel_proofs --------------------------
(***************************************************************************)
(* Proofs that, for all programs, numbers of branches and values of        *)
(* maxSnapshots, a handle to a snapshot never comes to mean another one,   *)
(* the list of snapshots stays in the order of capture, in programs        *)
(* without groups it is the end of the path that led to where they stand,  *)
(* and every checkpoint, in a group or not, is a continuation of the whole *)
(* program.                                                                *)
(***************************************************************************)
EXTENDS TimeTravel, SequenceTheorems, Positions

\* What is recorded of the past: every snapshot bears the number of its execution,
\* and those of the current one have an index the counter has passed.
PastOK ==
  \A s \in captured :
    /\ s.index \in Nat /\ s.exec \in Nat
    /\ s.exec <= exec
    /\ s.exec = exec => s.index < next

\* The lists in memory and in the host's hands, each with its counter.
ListsOK ==
  /\ snapshots \in Seq(captured) /\ Chronological
  /\ \A b \in stored :
       b.snapshots \in Seq(captured) /\ InOrder(b.snapshots, b.next) /\ b.next \in Nat

IndexInv ==
  /\ next \in Nat /\ exec \in Nat
  /\ PastOK
  /\ ListsOK
  /\ HandlesStayValid

-----------------------------------------------------------------------------
(* Lists in order of capture.                                              *)

\* A snapshot that takes the next index goes to the end of the list.
LEMMA AppendInOrder ==
  ASSUME NEW S, NEW list \in Seq(S), NEW s \in S, NEW n \in Nat,
         \A t \in S : t.index \in Nat,
         s.index = n, InOrder(list, n)
  PROVE  Append(list, s) \in Seq(S) /\ InOrder(Append(list, s), n + 1)
<1> DEFINE longer == Append(list, s)
<1>1. longer \in Seq(S) /\ Len(longer) = Len(list) + 1
  OBVIOUS
<1>2. \A i \in DOMAIN list : longer[i] = list[i] /\ list[i].index < n
  BY DEF InOrder
<1>3. longer[Len(list) + 1] = s
  OBVIOUS
<1>4. \A i \in DOMAIN longer : i \in DOMAIN list \/ i = Len(list) + 1
  BY <1>1
<1>5. \A i \in DOMAIN list : list[i].index \in Nat
  OBVIOUS
<1>6. \A i \in DOMAIN longer : longer[i].index < n + 1
  BY <1>2, <1>3, <1>4, <1>5
<1>7. ASSUME NEW i \in DOMAIN longer, NEW j \in DOMAIN longer, i < j
      PROVE  longer[i].index < longer[j].index
  <2>1. i \in DOMAIN list
    BY <1>1, <1>4, <1>7
  <2>2. CASE j \in DOMAIN list
    BY <1>2, <1>7, <2>1, <2>2 DEF InOrder
  <2>3. CASE j = Len(list) + 1
    BY <1>2, <1>3, <2>1, <2>3
  <2> QED
    BY <1>4, <2>2, <2>3
<1> QED
  BY <1>1, <1>6, <1>7 DEF InOrder

\* Eviction of the oldest.
LEMMA TailInOrder ==
  ASSUME NEW S, NEW list \in Seq(S), NEW n, InOrder(list, n), list # <<>>
  PROVE  Tail(list) \in Seq(S) /\ InOrder(Tail(list), n)
<1>1. /\ Tail(list) \in Seq(S)
      /\ Len(Tail(list)) = Len(list) - 1
      /\ \A i \in 1 .. Len(Tail(list)) : Tail(list)[i] = list[i + 1]
  BY HeadTailProperties
<1>2. \A i \in DOMAIN Tail(list) : i + 1 \in DOMAIN list
  BY <1>1
<1> QED
  BY <1>1, <1>2 DEF InOrder

\* Whether or not the list is too long.
LEMMA EvictingInOrder ==
  ASSUME NEW S, NEW list \in Seq(S), NEW n, InOrder(list, n), list # <<>>
  PROVE  Evicting(list) \in Seq(S) /\ InOrder(Evicting(list), n)
BY TailInOrder DEF Evicting

\* Travel cuts the end off.
LEMMA TrimInOrder ==
  ASSUME NEW S, snapshots \in Seq(S), NEW n, InOrder(snapshots, n), NEW index
  PROVE  Trim(index) \in Seq(S) /\ InOrder(Trim(index), n)
<1>1. CASE Later(index) = {}
  BY <1>1 DEF Trim
<1>2. CASE Later(index) # {}
  <2> DEFINE first == CHOOSE i \in Later(index) : \A j \in Later(index) : i <= j
  <2>1. Later(index) \subseteq 1 .. Len(snapshots)
    BY DEF Later
  <2>2. \E i \in Later(index) : \A j \in Later(index) : i <= j
    BY <1>2, <2>1, LeastPosition
  <2>3. first \in 1 .. Len(snapshots)
    BY <2>1, <2>2
  <2>4. Trim(index) = SubSeq(snapshots, 1, first - 1)
    BY <1>2 DEF Trim
  <2> HIDE DEF first
  <2>5. /\ SubSeq(snapshots, 1, first - 1) \in Seq(S)
        /\ Len(SubSeq(snapshots, 1, first - 1)) = first - 1
        /\ \A i \in 1 .. first - 1 : SubSeq(snapshots, 1, first - 1)[i] = snapshots[i]
    BY <2>3
  <2>6. DOMAIN SubSeq(snapshots, 1, first - 1) = 1 .. first - 1
    BY <2>5
  <2> QED
    BY <2>3, <2>4, <2>5, <2>6 DEF InOrder
<1> QED
  BY <1>1, <1>2

-----------------------------------------------------------------------------
(* Steps.                                                                  *)

\* Sets of snapshots: a new one under the current execution, with an index that
\* the counter has not passed, has a handle of its own.
LEMMA NewHandle ==
  ASSUME IndexInv, NEW s, NEW e \in Nat, NEW n \in Nat,
         s.exec = e, s.index = n, exec <= e, e = exec => n = next,
         exec' = e, next' = n + 1, captured' = captured \cup {s}
  PROVE  PastOK' /\ HandlesStayValid' /\ \A t \in captured' : t.index \in Nat
<1>1. PastOK'
  BY DEF IndexInv, PastOK
<1>2. \A t \in captured : Id(t) # Id(s)
  BY DEF IndexInv, PastOK, Id
<1>3. HandlesStayValid'
  BY <1>2 DEF IndexInv, HandlesStayValid
<1> QED
  BY <1>1, <1>3 DEF PastOK

\* Nothing new is taken; the counter stays, or goes on.
LEMMA NothingTaken ==
  ASSUME IndexInv, NEW e \in Nat, NEW n \in Nat,
         exec <= e, e = exec => next <= n,
         exec' = e, next' = n, captured' = captured
  PROVE  PastOK' /\ HandlesStayValid'
<1>1. PastOK'
  BY DEF IndexInv, PastOK
<1> QED
  BY <1>1 DEF IndexInv, HandlesStayValid

\* What the host holds stays in order while snapshots are taken.
LEMMA StoredKept ==
  ASSUME IndexInv, captured \subseteq captured', NEW b \in stored
  PROVE  b.snapshots \in Seq(captured') /\ InOrder(b.snapshots, b.next) /\ b.next \in Nat
BY SeqMonotonic DEF IndexInv, ListsOK

\* A handler takes a snapshot.
LEMMA TakeInv ==
  ASSUME IndexInv, NEW s, s.index = next, s.exec = exec, Take(s),
         UNCHANGED <<exec, stored>>
  PROVE  IndexInv'
<1>1. next \in Nat /\ exec \in Nat /\ next' = next + 1 /\ captured' = captured \cup {s}
  BY DEF IndexInv, Take
<1>2. PastOK' /\ HandlesStayValid' /\ \A t \in captured' : t.index \in Nat
  BY <1>1, NewHandle
<1>3. snapshots \in Seq(captured')
  BY <1>1, SeqMonotonic DEF IndexInv, ListsOK
<1>7. \A b \in stored' :
        b.snapshots \in Seq(captured') /\ InOrder(b.snapshots, b.next) /\ b.next \in Nat
  BY <1>1, StoredKept
<1>4. /\ Append(snapshots, s) \in Seq(captured')
      /\ InOrder(Append(snapshots, s), next + 1)
  BY <1>1, <1>2, <1>3, AppendInOrder DEF IndexInv, ListsOK, Chronological
<1>5. Append(snapshots, s) # <<>>
  <2>1. s \in captured' /\ Len(snapshots) \in Nat
    BY <1>1, <1>3
  <2>2. Len(Append(snapshots, s)) = Len(snapshots) + 1
    BY <1>3, <2>1, AppendProperties
  <2>3. Len(<<>>) = 0
    OBVIOUS
  <2> QED
    BY <2>1, <2>2, <2>3
<1>6. snapshots' \in Seq(captured') /\ InOrder(snapshots', next')
  BY <1>1, <1>4, <1>5, EvictingInOrder DEF Take
<1>8. Chronological'
  BY <1>6 DEF Chronological, InOrder
<1>9. ListsOK'
  <2>1. ASSUME NEW b \in stored'
        PROVE  (b.snapshots \in Seq(captured) /\ InOrder(b.snapshots, b.next) /\ b.next \in Nat)'
    BY <1>7, <2>1 DEF InOrder
  <2> QED
    BY <1>6, <1>8, <2>1 DEF ListsOK
<1> QED
  BY <1>1, <1>2, <1>9 DEF IndexInv

\* A run begins, with a list in order, under a new execution id.
LEMMA BeginInv ==
  ASSUME IndexInv, NEW rest, NEW list \in Seq(captured), NEW index \in Nat,
         InOrder(list, index), NEW again, NEW first, NEW last,
         Begin(rest, exec + 1, list, index, again, first, last),
         stored' = stored
  PROVE  IndexInv'
<1> DEFINE s == [index |-> index, exec |-> exec + 1, k |-> first, again |-> again,
                 by |-> "start", prev |-> last]
<1>1. exec' = exec + 1 /\ exec \in Nat
  BY DEF Begin, IndexInv
<1>3. \A b \in stored' :
        b.snapshots \in Seq(captured') /\ InOrder(b.snapshots, b.next) /\ b.next \in Nat
  <2>1. captured \subseteq captured'
    BY DEF Begin
  <2> QED
    BY <2>1, StoredKept
<1>4. CASE auto'
  <2>1. /\ snapshots' = Append(list, s)
        /\ next' = index + 1
        /\ captured' = captured \cup {s}
    BY <1>4 DEF Begin
  <2>2. PastOK' /\ HandlesStayValid' /\ \A t \in captured' : t.index \in Nat
    <3> s.index = index /\ s.exec = exec + 1
      OBVIOUS
    <3> HIDE DEF s
    <3> QED
      BY <1>1, <2>1, NewHandle
  <2>3. list \in Seq(captured')
    BY <2>1, SeqMonotonic
  <2>4. snapshots' \in Seq(captured') /\ InOrder(snapshots', next')
    BY <2>1, <2>2, <2>3, AppendInOrder
  <2> QED
    BY <1>1, <1>3, <2>1, <2>2, <2>4 DEF IndexInv, ListsOK, Chronological, InOrder
<1>5. CASE ~auto'
  <2>1. snapshots' = list /\ next' = index /\ captured' = captured
    BY <1>5 DEF Begin
  <2>2. PastOK' /\ HandlesStayValid'
    BY <1>1, <2>1, NothingTaken
  <2> QED
    BY <1>1, <1>3, <2>1, <2>2 DEF IndexInv, ListsOK, Chronological, InOrder
<1> QED
  BY <1>4, <1>5

\* Steps that leave the book alone.
LEMMA UnchangedInv ==
  ASSUME IndexInv, UNCHANGED <<snapshots, next, captured, exec, stored>>
  PROVE  IndexInv'
BY DEF IndexInv, PastOK, ListsOK, Chronological, InOrder, HandlesStayValid

-----------------------------------------------------------------------------
\* The first state, with or without a "Program start" snapshot.
LEMMA InitInv == Init => IndexInv
<1> SUFFICES ASSUME Init PROVE IndexInv
  OBVIOUS
<1>1. stored = {} /\ exec = 1 /\ next \in Nat
  BY DEF Init
<1>2. CASE auto
  <2> DEFINE s == [index |-> 0, exec |-> 1, k |-> Tail(ProgramK), again |-> ProgramK,
                   by |-> "start", prev |-> NoId]
  <2>1. /\ snapshots = <<s>> /\ next = 1 /\ captured = {s}
        /\ s.index = 0 /\ s.exec = 1
    BY <1>2 DEF Init
  <2> HIDE DEF s
  <2> QED
    BY <1>1, <2>1 DEF IndexInv, PastOK, ListsOK, Chronological, InOrder, HandlesStayValid
<1>3. CASE ~auto
  <2>1. snapshots = <<>> /\ next = 0 /\ captured = {}
    BY <1>3 DEF Init
  <2> QED
    BY <1>1, <2>1 DEF IndexInv, PastOK, ListsOK, Chronological, InOrder, HandlesStayValid
<1> QED
  BY <1>2, <1>3

\* Every step of a handler, a group or the host.
LEMMA NextInv == IndexInv /\ [Next]_vars => IndexInv'
<1> SUFFICES ASSUME IndexInv, [Next]_vars PROVE IndexInv'
  OBVIOUS
<1>1. ASSUME NEW l \in DOMAIN loops, Checkpoint(l) PROVE IndexInv'
  <2>1. PICK s : s.index = next /\ s.exec = exec /\ Take(s)
    BY <1>1 DEF Checkpoint, Snapshot
  <2> QED
    BY <1>1, <2>1, TakeInv DEF Checkpoint, Run
<1>2. ASSUME NEW l \in DOMAIN loops, Answer(l) PROVE IndexInv'
  <2>1. CASE auto
    <3>1. PICK s : s.index = next /\ s.exec = exec /\ Take(s)
      BY <1>2, <2>1 DEF Answer, Snapshot
    <3> QED
      BY <1>2, <3>1, TakeInv DEF Answer, Run
  <2>2. CASE ~auto
    BY <1>2, <2>2, UnchangedInv DEF Answer, Run, Book
  <2> QED
    BY <2>1, <2>2
<1>3. ASSUME NEW l \in DOMAIN loops, NEW i \in DOMAIN snapshots, Travel(l, i) PROVE IndexInv'
  <2>1. PICK index : snapshots' = Trim(index)
    BY <1>3 DEF Travel
  <2>2. next' = next /\ captured' = captured /\ exec' = exec /\ stored' = stored
    BY <1>3 DEF Travel, KeepCounter, Run
  <2>3. Trim(index) \in Seq(captured) /\ InOrder(Trim(index), next)
    BY TrimInOrder DEF IndexInv, ListsOK, Chronological
  <2> QED
    BY <2>1, <2>2, <2>3 DEF IndexInv, PastOK, ListsOK, Chronological, InOrder, HandlesStayValid
<1>4. ASSUME NEW l \in DOMAIN loops, NEW i \in DOMAIN snapshots, TravelRefused(l, i)
      PROVE  IndexInv'
  BY <1>4, UnchangedInv DEF TravelRefused, Book, Run
<1>11. ASSUME NEW l \in DOMAIN loops, NEW s \in captured, NEW accepted \in BOOLEAN,
              TravelThrows(l, s, accepted)
       PROVE  IndexInv'
  BY <1>11, UnchangedInv DEF TravelThrows, Book, Run
<1>5. ASSUME NEW l \in DOMAIN loops,
             Launch(l) \/ ReRun(l) \/ Complete(l) \/ Collect(l)
      PROVE  IndexInv'
  BY <1>5, UnchangedInv DEF Launch, ReRun, Complete, Collect, Book, Run
<1>6. ASSUME NEW l \in DOMAIN loops, StartBranch(l) PROVE IndexInv'
  <2>1. CASE auto
    <3>1. PICK s : /\ s.index = next /\ s.exec = exec
                   /\ snapshots' = Append(snapshots, s)
                   /\ next' = next + 1
                   /\ captured' = captured \cup {s}
      BY <1>6, <2>1 DEF StartBranch, Snapshot
    <3>2. exec' = exec /\ stored' = stored /\ next \in Nat /\ exec \in Nat
      BY <1>6 DEF StartBranch, Run, IndexInv
    <3>3. PastOK' /\ HandlesStayValid' /\ \A t \in captured' : t.index \in Nat
      BY <3>1, <3>2, NewHandle
    <3>4. snapshots \in Seq(captured')
      BY <3>1, SeqMonotonic DEF IndexInv, ListsOK
    <3>6. \A b \in stored' :
            b.snapshots \in Seq(captured') /\ InOrder(b.snapshots, b.next) /\ b.next \in Nat
      BY <3>1, <3>2, StoredKept
    <3>5. snapshots' \in Seq(captured') /\ InOrder(snapshots', next')
      BY <3>1, <3>2, <3>3, <3>4, AppendInOrder DEF IndexInv, ListsOK, Chronological
    <3> QED
      BY <3>1, <3>2, <3>3, <3>5, <3>6 DEF IndexInv, ListsOK, Chronological, InOrder
  <2>2. CASE ~auto
    BY <1>6, <2>2, UnchangedInv DEF StartBranch, Run, Book
  <2> QED
    BY <2>1, <2>2
<1>7. ASSUME Suspend PROVE IndexInv'
  <2>1. PICK s : /\ s.index = next /\ s.exec = exec
                 /\ next' = next + 1
                 /\ captured' = captured \cup {s}
    BY <1>7 DEF Suspend, Snapshot
  <2>2. /\ exec' = exec /\ snapshots' = snapshots /\ next \in Nat /\ exec \in Nat
    BY <1>7 DEF Suspend, IndexInv
  <2>8. ASSUME NEW b \in stored', b \notin stored
        PROVE  b.snapshots = snapshots /\ b.next = next
    <3>1. b = [k |-> Rest(1), snapshots |-> snapshots, next |-> next, last |-> loops[1].last]
      BY <1>7, <2>8 DEF Suspend
    <3> QED
      BY <3>1
  <2>3. PastOK' /\ HandlesStayValid' /\ \A t \in captured : t.index \in Nat
    BY <2>1, <2>2, NewHandle DEF IndexInv, PastOK
  <2>4. snapshots \in Seq(captured')
    BY <2>1, SeqMonotonic DEF IndexInv, ListsOK
  <2>5. InOrder(snapshots, next + 1)
    BY <2>2, <2>3, ElementOfSeq DEF IndexInv, ListsOK, Chronological, InOrder
  <2>6. InOrder(snapshots, next)
    BY DEF IndexInv, ListsOK, Chronological
  <2>7. \A b \in stored' :
          b.snapshots \in Seq(captured') /\ InOrder(b.snapshots, b.next) /\ b.next \in Nat
    BY <2>1, <2>2, <2>4, <2>6, <2>8, StoredKept
  <2> QED
    BY <2>1, <2>2, <2>3, <2>4, <2>5, <2>7 DEF IndexInv, ListsOK, Chronological, InOrder
<1>8. ASSUME NEW b \in stored, Resume(b) PROVE IndexInv'
  <2>1. /\ Begin(b.k, exec + 1, b.snapshots, b.next, <<>>, <<>>, b.last)
        /\ stored' = stored
    BY <1>8 DEF Resume
  <2>2. /\ b.snapshots \in Seq(captured) /\ b.next \in Nat
        /\ InOrder(b.snapshots, b.next)
    BY DEF IndexInv, ListsOK
  <2> QED
    BY <2>1, <2>2, BeginInv
<1>9. ASSUME NEW i \in DOMAIN snapshots, ResumeCheckpoint(i) PROVE IndexInv'
  <2>1. \E rest, again, first, last :
          Begin(rest, exec + 1, <<>>, 0, again, first, last)
    BY <1>9 DEF ResumeCheckpoint
  <2>2. stored' = stored
    BY <1>9 DEF ResumeCheckpoint
  <2>3. <<>> \in Seq(captured) /\ InOrder(<<>>, 0) /\ 0 \in Nat
    BY DEF InOrder
  <2> QED
    BY <2>1, <2>2, <2>3, BeginInv
<1>10. ASSUME Terminated \/ UNCHANGED vars PROVE IndexInv'
  BY <1>10, UnchangedInv DEF Terminated, vars
<1> QED
  BY <1>1, <1>2, <1>3, <1>4, <1>5, <1>6, <1>7, <1>8, <1>9, <1>10, <1>11 DEF Next

\* Handles stay valid and the list stays in order, for every program and bound: the
\* counter passes every index of the current execution, and no travel, eviction,
\* suspension or resume takes it back within one.
THEOREM Indices == Spec => []IndexInv
BY InitInv, NextInv, PTL DEF Spec

\* A handle the host keeps never comes to mean another snapshot.
THEOREM HandlesValid == Spec => []HandlesStayValid
<1>1. IndexInv => HandlesStayValid
  BY DEF IndexInv
<1> QED
  BY Indices, <1>1, PTL

\* The list of snapshots is always in the order of capture.
THEOREM ListInOrder == Spec => []Chronological
<1>1. IndexInv => Chronological
  BY DEF IndexInv, ListsOK
<1> QED
  BY Indices, <1>1, PTL

-----------------------------------------------------------------------------
(* The list is the end of the path that led here.                          *)

Groupless == \A i \in DOMAIN program : program[i] # "group"
EffectK == Seq({Frame("effect", 0)})

\* The program's loop, when there is no other.
OnlyLoop == [k : EffectK, status : {"running", "completed", "error", "suspended"},
             wave : {{}}, last : IdSet]

\* Each snapshot was taken right after the one before it, the newest is last.
Linked(list, last) ==
  /\ list # <<>> => last = Id(list[Len(list)])
  /\ \A i \in 2 .. Len(list) : list[i].prev = Id(list[i - 1])

LinearInv ==
  Groupless =>
    /\ DOMAIN loops = {1} /\ loops[1] \in OnlyLoop
    /\ \A s \in captured : s.k \in EffectK /\ s.again \in EffectK
    /\ Linked(snapshots, loops[1].last)
    /\ \A b \in stored :
         b.k \in EffectK /\ b.last \in IdSet /\ Linked(b.snapshots, b.last)

\* A snapshot taken after the newest becomes the newest.
LEMMA AppendLinked ==
  ASSUME NEW S, NEW list \in Seq(S), NEW last, Linked(list, last), NEW s, s.prev = last
  PROVE  Linked(Append(list, s), Id(s))
<1> DEFINE longer == Append(list, s)
<1>1. /\ Len(longer) = Len(list) + 1 /\ Len(list) \in Nat
      /\ longer[Len(list) + 1] = s
      /\ \A i \in 1 .. Len(list) : longer[i] = list[i]
  <2>1. list \in Seq(S \cup {s}) /\ s \in S \cup {s}
    BY SeqMonotonic
  <2> QED
    BY <2>1, AppendProperties
<1> HIDE DEF longer
<1>2. ASSUME NEW i \in 2 .. Len(longer)
      PROVE  longer[i].prev = Id(longer[i - 1])
  <2>1. CASE i \in 2 .. Len(list)
    <3>1. i \in 1 .. Len(list) /\ i - 1 \in 1 .. Len(list)
      BY <2>1
    <3>2. longer[i] = list[i] /\ longer[i - 1] = list[i - 1]
      BY <1>1, <3>1
    <3> QED
      BY <2>1, <3>2 DEF Linked
  <2>2. CASE i = Len(list) + 1
    <3>1. list # <<>> /\ i - 1 = Len(list) /\ Len(list) \in 1 .. Len(list)
      BY <1>1, <1>2, <2>2
    <3> QED
      BY <1>1, <2>2, <3>1 DEF Linked, Id
  <2> QED
    BY <1>1, <1>2, <2>1, <2>2
<1> QED
  BY <1>1, <1>2 DEF Linked, longer, Id

\* Eviction cuts off the beginning.
LEMMA EvictingLinked ==
  ASSUME NEW S, NEW list \in Seq(S), NEW last, Linked(list, last), list # <<>>
  PROVE  Linked(Evicting(list), last)
<1>1. /\ Tail(list) \in Seq(S)
      /\ Len(Tail(list)) = Len(list) - 1 /\ Len(list) \in Nat
      /\ \A i \in 1 .. Len(Tail(list)) : Tail(list)[i] = list[i + 1]
  BY HeadTailProperties
<1>2. ASSUME NEW i \in 2 .. Len(Tail(list))
      PROVE  Tail(list)[i].prev = Id(Tail(list)[i - 1])
  <2>1. Tail(list)[i] = list[i + 1] /\ Tail(list)[i - 1] = list[i]
    BY <1>1
  <2>2. i + 1 \in 2 .. Len(list) /\ (i + 1) - 1 = i
    BY <1>1
  <2> QED
    BY <2>1, <2>2 DEF Linked
<1>3. Tail(list) # <<>> => Tail(list)[Len(Tail(list))] = list[Len(list)]
  BY <1>1
<1> QED
  BY <1>2, <1>3 DEF Evicting, Linked

\* Travel cuts off the end, right behind the target.
LEMMA TrimAt ==
  ASSUME NEW S, snapshots \in Seq(S), \A s \in S : s.index \in Nat, Chronological,
         NEW i \in DOMAIN snapshots
  PROVE  LET list == Trim(snapshots[i].index)
         IN  /\ list \in Seq(S) /\ Len(list) = i
             /\ \A j \in 1 .. i : list[j] = snapshots[j]
<1> DEFINE index == snapshots[i].index
<1>1. \A j \in DOMAIN snapshots : snapshots[j].index \in Nat
  BY ElementOfSeq
<1>2. Later(index) = {j \in DOMAIN snapshots : j > i}
  <2>1. ASSUME NEW j \in DOMAIN snapshots
        PROVE  snapshots[j].index <= index <=> ~(j > i)
    <3>1. j \in Int /\ i \in Int
      OBVIOUS
    <3>2. CASE j > i
      BY <1>1, <3>1, <3>2 DEF Chronological, InOrder
    <3>3. CASE j = i
      BY <1>1, <3>3
    <3>4. CASE j < i
      BY <1>1, <3>1, <3>4 DEF Chronological, InOrder
    <3> QED
      BY <3>1, <3>2, <3>3, <3>4
  <2> QED
    BY <2>1 DEF Later, UpTo
<1>3. CASE Later(index) = {}
  <2>1. i \in 1 .. Len(snapshots) /\ Len(snapshots) \in 1 .. Len(snapshots)
    OBVIOUS
  <2>2. ~(Len(snapshots) > i)
    BY <1>2, <1>3, <2>1
  <2>3. i = Len(snapshots)
    BY <2>1, <2>2
  <2> QED
    BY <1>3, <2>3 DEF Trim
<1>4. CASE Later(index) # {}
  <2> DEFINE first == CHOOSE j \in Later(index) : \A m \in Later(index) : j <= m
  <2>1. i + 1 \in Later(index) /\ \A m \in Later(index) : i + 1 <= m
    BY <1>2, <1>4
  <2>2. first = i + 1
    <3>1. first \in Later(index) /\ \A m \in Later(index) : first <= m
      BY <2>1
    <3>2. first <= i + 1 /\ i + 1 <= first /\ first \in Int /\ i \in Int
      BY <1>2, <2>1, <3>1
    <3> QED
      BY <3>2
  <2>3. Trim(index) = SubSeq(snapshots, 1, first - 1)
    BY <1>4 DEF Trim
  <2> HIDE DEF first
  <2>4. i \in Nat /\ first - 1 = i
    <3>1. i \in 1 .. Len(snapshots) /\ Len(snapshots) \in Nat
      OBVIOUS
    <3> QED
      BY <2>2, <3>1
  <2>5. /\ SubSeq(snapshots, 1, i) \in Seq(S)
        /\ Len(SubSeq(snapshots, 1, i)) = i
        /\ \A j \in 1 .. i : SubSeq(snapshots, 1, i)[j] = snapshots[j]
    BY <2>4
  <2> QED
    BY <2>3, <2>4, <2>5
<1> QED
  BY <1>3, <1>4

\* What is left of the list when the program travels to i.
LEMMA TrimLinked ==
  ASSUME NEW S, snapshots \in Seq(S), \A s \in S : s.index \in Nat, Chronological,
         NEW last, Linked(snapshots, last), NEW i \in DOMAIN snapshots
  PROVE  Linked(Trim(snapshots[i].index), Id(snapshots[i]))
<1> DEFINE list == Trim(snapshots[i].index)
<1>1. list \in Seq(S) /\ Len(list) = i /\ \A j \in 1 .. i : list[j] = snapshots[j]
  BY TrimAt
<1> HIDE DEF list
<1>2. list[Len(list)] = snapshots[i]
  BY <1>1
<1>3. ASSUME NEW j \in 2 .. Len(list) PROVE list[j].prev = Id(list[j - 1])
  <2>1. list[j] = snapshots[j] /\ list[j - 1] = snapshots[j - 1]
    BY <1>1
  <2>2. j \in 2 .. Len(snapshots)
    BY <1>1
  <2> QED
    BY <2>1, <2>2 DEF Linked
<1> QED
  BY <1>2, <1>3 DEF Linked, list

\* Continuations of effects only.
LEMMA EffectKFacts ==
  /\ <<>> \in EffectK
  /\ \A kk \in EffectK :
       /\ Compose(kk) \in EffectK
       /\ kk # <<>> => Tail(kk) \in EffectK /\ Head(kk).kind = "effect"
<1>1. ASSUME NEW kk \in EffectK PROVE Compose(kk) \in EffectK
  <2>1. kk \in [1 .. Len(kk) -> {Frame("effect", 0)}] /\ Len(kk) \in Nat
        /\ DOMAIN kk = 1 .. Len(kk)
    BY DEF EffectK
  <2>2. \A i \in DOMAIN kk : kk[i] = Frame("effect", 0) /\ kk[i].kind = "effect"
    BY <2>1 DEF Frame
  <2>3. Compose(kk) \in [1 .. Len(kk) -> {Frame("effect", 0)}]
    BY <2>1, <2>2 DEF Compose
  <2> QED
    BY <2>1, <2>3 DEF EffectK
<1>2. ASSUME NEW kk \in EffectK, kk # <<>>
      PROVE  Tail(kk) \in EffectK /\ Head(kk).kind = "effect"
  BY <1>2 DEF EffectK, Frame
<1> QED
  BY <1>1, <1>2 DEF EffectK

\* A groupless program starts as a sequence of effects.
LEMMA ProgramKType ==
  ASSUME Init, Groupless
  PROVE  ProgramK \in EffectK /\ Tail(ProgramK) \in EffectK
<1>1. program \in Seq({"effect", "group"}) /\ program # <<>>
  BY ProgramsAssumption DEF Init
<1>2. Len(program) \in Nat /\ Len(program) # 0 /\ DOMAIN program = 1 .. Len(program)
      /\ \A i \in 1 .. Len(program) : program[i] \in {"effect", "group"}
  BY <1>1
<1>3. \A i \in 1 .. Len(program) : Frame(program[i], 0) = Frame("effect", 0)
  BY <1>2 DEF Groupless
<1>4. ProgramK = [i \in 1 .. Len(program) |-> Frame("effect", 0)]
  BY <1>2, <1>3 DEF ProgramK, Work
<1>5. ProgramK \in EffectK /\ Len(ProgramK) = Len(program)
  BY <1>2, <1>4 DEF EffectK
<1> QED
  BY <1>2, <1>5, EffectKFacts

\* Identifiers of snapshots.
LEMMA IdType ==
  ASSUME IndexInv, NEW s \in captured
  PROVE  Id(s) \in IdSet
BY DEF IndexInv, PastOK, Id, IdSet

\* The first state, with or without a "Program start" snapshot.
LEMMA LinearInit == Init => LinearInv
<1> SUFFICES ASSUME Init, Groupless PROVE LinearInv
  BY DEF LinearInv
<1>1. ProgramK \in EffectK /\ Tail(ProgramK) \in EffectK
  BY ProgramKType
<1>2. NoId \in IdSet
  BY DEF NoId, IdSet
<1>3. stored = {}
  BY DEF Init
<1>4. CASE auto
  <2> DEFINE s == [index |-> 0, exec |-> 1, k |-> Tail(ProgramK), again |-> ProgramK,
                   by |-> "start", prev |-> NoId]
  <2>1. snapshots = <<s>> /\ captured = {s} /\ loops = <<Loop(ProgramK, "running", Id(s))>>
    BY <1>4 DEF Init
  <2>2. Id(s) \in IdSet
    BY DEF Id, IdSet
  <2>3. s.k \in EffectK /\ s.again \in EffectK
    BY <1>1
  <2> HIDE DEF s
  <2>4. DOMAIN loops = {1} /\ loops[1].last = Id(s)
    BY <2>1 DEF Loop
  <2>5. loops[1] \in OnlyLoop
    BY <1>1, <2>1, <2>2 DEF Loop, OnlyLoop
  <2>6. Linked(snapshots, loops[1].last)
    BY <2>1, <2>4 DEF Linked
  <2> QED
    BY <1>3, <2>1, <2>3, <2>4, <2>5, <2>6 DEF LinearInv
<1>5. CASE ~auto
  <2>1. snapshots = <<>> /\ captured = {} /\ loops = <<Loop(ProgramK, "running", NoId)>>
    BY <1>5 DEF Init
  <2>2. DOMAIN loops = {1} /\ loops[1] \in OnlyLoop
    BY <1>1, <1>2, <2>1 DEF Loop, OnlyLoop
  <2>3. Linked(snapshots, loops[1].last)
    BY <2>1 DEF Linked
  <2> QED
    BY <1>3, <2>1, <2>2, <2>3 DEF LinearInv
<1> QED
  BY <1>4, <1>5

\* The loop's continuation and newest snapshot change together.
LEMMA LoopChanges ==
  ASSUME DOMAIN loops = {1}, loops[1] \in OnlyLoop,
         NEW kk \in EffectK, NEW last \in IdSet,
         loops' = [loops EXCEPT ![1].k = kk, ![1].last = last]
  PROVE  DOMAIN loops' = {1} /\ loops'[1] \in OnlyLoop /\ loops'[1].last = last
BY DEF OnlyLoop

\* A handler takes a snapshot and the program stays, or goes on with kk.
LEMMA TakeLinear ==
  ASSUME IndexInv, LinearInv, Groupless, NEW s, NEW kk \in EffectK,
         s.index = next, s.exec = exec, s.prev = loops[1].last,
         s.k \in EffectK, s.again \in EffectK,
         Take(s), UNCHANGED <<program, exec, stored>>,
         loops' = [loops EXCEPT ![1].k = kk, ![1].last = Id(s)]
  PROVE  LinearInv'
<1>1. DOMAIN loops = {1} /\ loops[1] \in OnlyLoop
  BY DEF LinearInv
<1>2. Id(s) \in IdSet
  BY DEF IndexInv, Id, IdSet
<1>3. DOMAIN loops' = {1} /\ loops'[1] \in OnlyLoop /\ loops'[1].last = Id(s)
  BY <1>1, <1>2, LoopChanges
<1>4. Linked(Append(snapshots, s), Id(s))
  BY AppendLinked DEF LinearInv, IndexInv, ListsOK
<1>5. Append(snapshots, s) \in Seq(captured \cup {s}) /\ Append(snapshots, s) # <<>>
  BY SeqMonotonic DEF IndexInv, ListsOK
<1>6. Linked(snapshots', loops'[1].last)
  BY <1>3, <1>4, <1>5, EvictingLinked DEF Take
<1>7. \A t \in captured' : t.k \in EffectK /\ t.again \in EffectK
  BY DEF Take, LinearInv
<1> QED
  BY <1>3, <1>6, <1>7 DEF LinearInv, Groupless

\* A run begins at the end of an old path.
LEMMA BeginLinear ==
  ASSUME IndexInv, LinearInv, Groupless, program' = program,
         NEW rest \in EffectK, NEW list \in Seq(captured), NEW index \in Nat,
         NEW again \in EffectK, NEW first \in EffectK, NEW last \in IdSet,
         Linked(list, last),
         Begin(rest, exec + 1, list, index, again, first, last),
         stored' = stored
  PROVE  LinearInv'
<1> DEFINE s == [index |-> index, exec |-> exec + 1, k |-> first, again |-> again,
                 by |-> "start", prev |-> last]
<1>1. \A b \in stored' :
        b.k \in EffectK /\ b.last \in IdSet /\ Linked(b.snapshots, b.last)
  BY DEF LinearInv
<1>2. CASE auto'
  <2>1. /\ snapshots' = Append(list, s) /\ captured' = captured \cup {s}
        /\ loops' = <<Loop(rest, "running", Id(s))>>
    BY <1>2 DEF Begin
  <2>2. Id(s) \in IdSet
    BY DEF IndexInv, Id, IdSet
  <2>3. s.k \in EffectK /\ s.again \in EffectK /\ s.prev = last
    OBVIOUS
  <2> HIDE DEF s
  <2>4. DOMAIN loops' = {1} /\ loops'[1].last = Id(s)
    BY <2>1 DEF Loop
  <2>5. loops'[1] \in OnlyLoop
    BY <2>1, <2>2 DEF Loop, OnlyLoop
  <2>6. Linked(snapshots', loops'[1].last)
    BY <2>1, <2>3, <2>4, AppendLinked
  <2> QED
    BY <1>1, <2>1, <2>3, <2>4, <2>5, <2>6 DEF LinearInv, Groupless
<1>3. CASE ~auto'
  <2>1. /\ snapshots' = list /\ captured' = captured
        /\ loops' = <<Loop(rest, "running", last)>>
    BY <1>3 DEF Begin
  <2>2. DOMAIN loops' = {1} /\ loops'[1] \in OnlyLoop /\ loops'[1].last = last
    BY <2>1 DEF Loop, OnlyLoop
  <2> QED
    BY <1>1, <2>1, <2>2 DEF LinearInv, Groupless
<1> QED
  BY <1>2, <1>3

\* Every step of a program without groups.
LEMMA LinearNext == IndexInv /\ LinearInv /\ [Next]_vars => LinearInv'
<1> SUFFICES ASSUME IndexInv, LinearInv, [Next]_vars, Groupless' PROVE LinearInv'
  BY DEF LinearInv
<1>1. program' = program /\ Groupless
  BY DEF Next, Checkpoint, Answer, Travel, TravelThrows, TravelRefused, Launch, ReRun, StartBranch,
     Complete, Collect, Suspend, Resume, ResumeCheckpoint, Terminated, Run, vars, Groupless
<1>2. DOMAIN loops = {1} /\ loops[1] \in OnlyLoop /\ loops[1].k \in EffectK
      /\ loops[1].last \in IdSet
  BY <1>1 DEF LinearInv, OnlyLoop
<1>3. /\ \A s \in captured : s.k \in EffectK /\ s.again \in EffectK
      /\ snapshots \in Seq(captured) /\ Chronological /\ Linked(snapshots, loops[1].last)
      /\ \A s \in captured : s.index \in Nat
  BY <1>1 DEF LinearInv, IndexInv, ListsOK, PastOK
<1>4. ASSUME NEW kind, At(1, kind)
      PROVE  kind = "effect" /\ Rest(1) \in EffectK /\ Compose(Rest(1)) \in EffectK
  BY <1>2, <1>4, EffectKFacts DEF At, Rest
<1>5. CASE Checkpoint(1)
  <2> DEFINE s == Snapshot(Compose(Rest(1)), Compose(Rest(1)), "handler", loops[1].last)
  <2>1. Take(s) /\ loops' = [loops EXCEPT ![1].last = Id(s)]
        /\ UNCHANGED <<program, exec, stored>> /\ At(1, "effect")
    BY <1>5 DEF Checkpoint, Run
  <2>2. s.index = next /\ s.exec = exec /\ s.prev = loops[1].last
        /\ s.k \in EffectK /\ s.again \in EffectK
    BY <1>4, <2>1 DEF Snapshot
  <2> HIDE DEF s
  <2>3. loops' = [loops EXCEPT ![1].k = loops[1].k, ![1].last = Id(s)]
    BY <1>2, <2>1 DEF OnlyLoop
  <2> QED
    BY <1>1, <1>2, <2>1, <2>2, <2>3, TakeLinear
<1>6. CASE Answer(1)
  <2>1. At(1, "effect") /\ UNCHANGED <<program, exec, stored>> /\ Rest(1) \in EffectK
    BY <1>4, <1>6 DEF Answer, Run
  <2>2. CASE auto
    <3> DEFINE s == Snapshot(Compose(Rest(1)), Compose(Rest(1)), "handler", loops[1].last)
    <3>1. Take(s) /\ loops' = [loops EXCEPT ![1].k = Rest(1), ![1].last = Id(s)]
      BY <1>6, <2>2 DEF Answer
    <3>2. s.index = next /\ s.exec = exec /\ s.prev = loops[1].last
          /\ s.k \in EffectK /\ s.again \in EffectK
      BY <1>4, <2>1 DEF Snapshot
    <3> HIDE DEF s
    <3> QED
      BY <1>1, <2>1, <3>1, <3>2, TakeLinear
  <2>3. CASE ~auto
    <3>1. loops' = [loops EXCEPT ![1].k = Rest(1)] /\ UNCHANGED Book
      BY <1>6, <2>3 DEF Answer
    <3>2. DOMAIN loops' = {1} /\ loops'[1] \in OnlyLoop /\ loops'[1].last = loops[1].last
      BY <1>2, <2>1, <3>1 DEF OnlyLoop
    <3> QED
      BY <2>1, <3>1, <3>2 DEF LinearInv, Groupless, Book
  <2> QED
    BY <2>2, <2>3
<1>7. ASSUME NEW i \in DOMAIN snapshots, Travel(1, i) PROVE LinearInv'
  <2> DEFINE s == snapshots[i]
  <2>1. /\ loops' = [loops EXCEPT ![1].k = s.k, ![1].last = Id(s)]
        /\ snapshots' = Trim(s.index)
        /\ UNCHANGED <<program, captured, stored>>
    BY <1>7 DEF Travel, Run
  <2>2. s \in captured /\ s.k \in EffectK /\ Id(s) \in IdSet
    <3>1. s \in captured
      BY <1>3, ElementOfSeq
    <3> QED
      BY <1>3, <3>1, IdType
  <2>3. Linked(snapshots', Id(s))
    BY <1>3, <2>1, TrimLinked
  <2> HIDE DEF s
  <2>4. DOMAIN loops' = {1} /\ loops'[1] \in OnlyLoop /\ loops'[1].last = Id(s)
    BY <1>2, <2>1, <2>2, LoopChanges
  <2> QED
    BY <1>1, <2>1, <2>3, <2>4 DEF LinearInv, Groupless
<1>8. ASSUME NEW how \in {"completed", "error", "suspended"}, Ends(1, how)
      PROVE  DOMAIN loops' = {1} /\ loops'[1] \in OnlyLoop /\ loops'[1].last = loops[1].last
  BY <1>2, <1>8, EffectKFacts DEF Ends, OnlyLoop
<1>9. CASE \/ \E i \in DOMAIN snapshots : TravelRefused(1, i)
           \/ \E s \in captured, accepted \in BOOLEAN : TravelThrows(1, s, accepted)
           \/ Complete(1)
  <2>1. UNCHANGED Book /\ UNCHANGED Run /\ (Ends(1, "error") \/ Ends(1, "completed"))
    BY <1>9 DEF TravelThrows, TravelRefused, Complete
  <2> QED
    BY <1>1, <1>8, <2>1 DEF LinearInv, Groupless, Book, Run
<1>10. ~Launch(1) /\ ~ReRun(1) /\ ~StartBranch(1) /\ ~Collect(1)
  BY <1>2, <1>4 DEF Launch, ReRun, StartBranch, Collect, OnlyLoop
<1>11. CASE Suspend
  <2> DEFINE s == Snapshot(Rest(1), Rest(1), "suspend", loops[1].last)
  <2>1. /\ stored' = stored \cup {[k |-> Rest(1), snapshots |-> snapshots, next |-> next,
                                    last |-> loops[1].last]}
        /\ captured' = captured \cup {s} /\ snapshots' = snapshots
        /\ Ends(1, "suspended") /\ Rest(1) \in EffectK
    BY <1>4, <1>11 DEF Suspend
  <2>2. s.k \in EffectK /\ s.again \in EffectK
    BY <2>1 DEF Snapshot
  <2> HIDE DEF s
  <2>3. \A b \in stored' :
          b.k \in EffectK /\ b.last \in IdSet /\ Linked(b.snapshots, b.last)
    BY <1>1, <1>2, <1>3, <2>1 DEF LinearInv
  <2> QED
    BY <1>1, <1>2, <1>3, <1>8, <2>1, <2>2, <2>3 DEF LinearInv, Groupless
<1>12. ASSUME NEW b \in stored, Resume(b) PROVE LinearInv'
  <2>1. b.k \in EffectK /\ b.last \in IdSet
        /\ Linked(b.snapshots, b.last) /\ <<>> \in EffectK
    BY <1>1, EffectKFacts DEF LinearInv
  <2>2. b.snapshots \in Seq(captured) /\ b.next \in Nat
    BY DEF IndexInv, ListsOK
  <2> QED
    BY <1>1, <1>12, <2>1, <2>2, BeginLinear DEF Resume
<1>13. ASSUME NEW i \in DOMAIN snapshots, ResumeCheckpoint(i) PROVE LinearInv'
  <2> DEFINE s == snapshots[i]
             fresh == s.by = "start" /\ s.again # <<>>
  <2>1. s \in captured
    BY <1>3, ElementOfSeq
  <2>2. s.k \in EffectK /\ s.again \in EffectK /\ Id(s) \in IdSet
    BY <1>3, <2>1, IdType
  <2>3. /\ Begin(s.again, exec + 1, <<>>, 0, IF fresh THEN s.again ELSE <<>>,
                 IF fresh THEN s.k ELSE <<>>, Id(s))
        /\ stored' = stored
    BY <1>13 DEF ResumeCheckpoint
  <2>4. <<>> \in Seq(captured) /\ Linked(<<>>, Id(s))
    BY DEF Linked
  <2> HIDE DEF s
  <2>5. (IF fresh THEN s.again ELSE <<>>) \in EffectK /\ (IF fresh THEN s.k ELSE <<>>) \in EffectK
    BY <2>2, EffectKFacts
  <2> HIDE DEF fresh
  <2> QED
    BY <1>1, <2>2, <2>3, <2>4, <2>5, BeginLinear
<1>14. CASE Terminated \/ UNCHANGED vars
  BY <1>1, <1>14 DEF Terminated, vars, LinearInv, Groupless
<1> QED
  BY <1>2, <1>5, <1>6, <1>7, <1>9, <1>10, <1>11, <1>12, <1>13, <1>14 DEF Next

\* Whatever is travelled back over, evicted, suspended and resumed, the list of a
\* program without groups is the end of the path that led to where it stands.
THEOREM HistoryLinear == Spec => []HistoryIsLinear
<1>1. LinearInv => HistoryIsLinear
  BY DEF LinearInv, Groupless, Linked, HistoryIsLinear
<1> QED
  BY <1>1, LinearInit, LinearNext, Indices, PTL DEF Spec

-----------------------------------------------------------------------------
(* Types, and what every continuation ends with.                           *)

\* Continuations that end the way the program does, and what holds one.
Whole == {kk \in Continuation : EndsAsProgram(kk)}
Statuses == {"queued", "running", "waiting", "completed", "error", "suspended"}
LoopRecord == [k : Whole, last : IdSet, wave : SUBSET Nat, status : Statuses]
WholeLoop == {r \in LoopRecord : r.status = "queued" => r.k # <<>>}
WholeSnapshot == [index : Nat, exec : Nat, k : Whole, again : Whole,
                  by : {"start", "handler", "suspend"}, prev : IdSet]
WholeStored == [k : Whole, snapshots : Seq(WholeSnapshot), next : Nat, last : IdSet]
NoBarrier(kk) == \A i \in DOMAIN kk : kk[i].kind # "barrier"

ShapeInv ==
  /\ program \in Programs
  /\ loops \in Seq(WholeLoop) /\ 1 \in DOMAIN loops
  /\ captured \subseteq WholeSnapshot
  /\ \A s \in captured : s.by = "handler" => NoBarrier(s.k)
  /\ stored \subseteq WholeStored
  /\ exec # 0 /\ auto \in BOOLEAN
  /\ status \in {"running", "suspended", "completed", "error"}
  /\ hostOps \in 0 .. MaxHostOps

\* One element of a sequence is replaced.
LEMMA Replaced ==
  ASSUME NEW R, NEW s \in Seq(R), NEW l \in 1 .. Len(s)
  PROVE  /\ s[l] \in R
         /\ \A x \in R : [s EXCEPT ![l] = x] \in Seq(R)
OBVIOUS

\* A continuation that loses its first frame.
LEMMA TailWhole ==
  ASSUME NEW kk \in Whole, kk # <<>>
  PROVE  Tail(kk) \in Whole
<1>1. kk \in Continuation /\ EndsAsProgram(kk) /\ Len(kk) \in Nat
  BY DEF Whole, Continuation
<1> DEFINE t == Tail(kk)
<1>2. /\ t \in Continuation /\ Len(t) = Len(kk) - 1 /\ DOMAIN t = 1 .. Len(t)
      /\ \A i \in 1 .. Len(t) : t[i] = kk[i + 1]
  BY <1>1, HeadTailProperties DEF Continuation
<1> HIDE DEF t
<1>3. ASSUME NEW i \in DOMAIN t, Outside(t, i)
      PROVE  /\ Len(t) - i < Len(ProgramK)
             /\ t[i] = ProgramK[Len(ProgramK) - (Len(t) - i)]
  <2>0. DOMAIN kk = 1 .. Len(kk)
    BY <1>1 DEF Continuation
  <2>1. i + 1 \in DOMAIN kk /\ Len(t) - i = Len(kk) - (i + 1) /\ t[i] = kk[i + 1]
    BY <1>1, <1>2, <2>0
  <2>2. Outside(kk, i + 1)
    <3> SUFFICES ASSUME NEW j \in i + 1 .. Len(kk) PROVE ~IsBoundary(kk[j])
      BY DEF Outside
    <3>1. PICK m : m = j - 1
      OBVIOUS
    <3>2. m \in i .. Len(t) /\ m \in 1 .. Len(t) /\ j = m + 1
      BY <1>1, <1>2, <3>1
    <3> QED
      BY <1>2, <1>3, <3>2 DEF Outside
  <2>3. PICK m : m = i + 1
    OBVIOUS
  <2>4. Len(kk) - m < Len(ProgramK) /\ kk[m] = ProgramK[Len(ProgramK) - (Len(kk) - m)]
    BY <1>1, <2>1, <2>2, <2>3 DEF EndsAsProgram
  <2> QED
    BY <2>1, <2>3, <2>4
<1>4. EndsAsProgram(t)
  BY <1>3 DEF EndsAsProgram
<1> QED
  BY <1>2, <1>4 DEF Whole, t

\* What a checkpoint stores of a continuation.
LEMMA ComposeWhole ==
  ASSUME NEW kk \in Whole
  PROVE  Compose(kk) \in Whole /\ NoBarrier(Compose(kk))
<1>1. kk \in Continuation /\ EndsAsProgram(kk) /\ Len(kk) \in Nat /\ DOMAIN kk = 1 .. Len(kk)
  BY DEF Whole, Continuation
<1> DEFINE c == Compose(kk)
<1>2. \A i \in 1 .. Len(kk) : kk[i] \in [kind : Kinds, branch : 0 .. Branches]
  <2> DEFINE G == [kind : Kinds, branch : 0 .. Branches]
  <2>1. kk \in Seq(G)
    BY <1>1 DEF Continuation
  <2> HIDE DEF G
  <2>2. \A i \in 1 .. Len(kk) : kk[i] \in G
    BY <2>1
  <2> QED
    BY <2>2 DEF G
<1>3. \A i \in 1 .. Len(kk) :
        (IF kk[i].kind = "barrier" THEN Frame("rerun", kk[i].branch) ELSE kk[i])
          \in [kind : Kinds, branch : 0 .. Branches]
  BY <1>2 DEF Frame, Kinds
<1>4. /\ DOMAIN c = 1 .. Len(kk) /\ Len(c) = Len(kk) /\ c \in Continuation
      /\ \A i \in 1 .. Len(kk) :
           c[i] = IF kk[i].kind = "barrier" THEN Frame("rerun", kk[i].branch) ELSE kk[i]
  <2> DEFINE G == [kind : Kinds, branch : 0 .. Branches]
             new(i) == IF kk[i].kind = "barrier" THEN Frame("rerun", kk[i].branch) ELSE kk[i]
  <2>1. c = [i \in 1 .. Len(kk) |-> new(i)]
    BY <1>1 DEF Compose
  <2>2. \A i \in 1 .. Len(kk) : new(i) \in G
    BY <1>3
  <2> HIDE DEF G, new, c
  <2>3. DOMAIN c = 1 .. Len(kk) /\ Len(c) = Len(kk) /\ c \in Seq(G)
    BY <1>1, <2>1, <2>2
  <2>4. \A i \in 1 .. Len(kk) : c[i] = new(i)
    BY <2>1
  <2> QED
    BY <2>3, <2>4 DEF G, new, Continuation
<1> HIDE DEF c
<1>5. \A i \in 1 .. Len(kk) : /\ IsBoundary(c[i]) <=> IsBoundary(kk[i])
                              /\ ~IsBoundary(c[i]) => c[i] = kk[i]
                              /\ c[i].kind # "barrier"
  BY <1>4 DEF IsBoundary, Frame
<1>6. EndsAsProgram(c)
  <2> SUFFICES ASSUME NEW i \in DOMAIN c, Outside(c, i)
               PROVE  /\ Len(c) - i < Len(ProgramK)
                      /\ c[i] = ProgramK[Len(ProgramK) - (Len(c) - i)]
    BY DEF EndsAsProgram
  <2>1. i \in 1 .. Len(kk) /\ i \in i .. Len(kk) /\ \A j \in i .. Len(kk) : j \in 1 .. Len(kk)
    BY <1>1, <1>4
  <2>2. Outside(kk, i) /\ ~IsBoundary(c[i])
    BY <1>4, <1>5, <2>1 DEF Outside
  <2> QED
    BY <1>1, <1>4, <1>5, <2>1, <2>2 DEF EndsAsProgram
<1>7. NoBarrier(c)
  BY <1>4, <1>5 DEF NoBarrier
<1> QED
  BY <1>4, <1>6, <1>7 DEF Whole, c

\* A sequence with one more element.
LEMMA OneMore ==
  ASSUME NEW S, NEW s \in Seq(S), NEW x \in S
  PROVE  /\ s \o <<x>> \in Seq(S) /\ Len(s \o <<x>>) = Len(s) + 1
         /\ (s \o <<x>>)[Len(s) + 1] = x
<1>0. <<x>> \in Seq(S) /\ Len(<<x>>) = 1 /\ <<x>>[1] = x
  OBVIOUS
<1>1. PICK t : t = <<x>> /\ t \in Seq(S) /\ Len(t) = 1 /\ t[1] = x
  BY <1>0
<1>2. s \o t \in Seq(S) /\ Len(s \o t) = Len(s) + Len(t)
  BY <1>1, Joined
<1>3. \A j \in 1 .. Len(t) : (s \o t)[Len(s) + j] = t[j]
  BY <1>1, Joined
<1> QED
  BY <1>1, <1>2, <1>3

\* The continuation of a branch: its work, the barrier, and what is around the group.
LEMMA BranchWhole ==
  ASSUME NEW outer \in Whole, NEW b \in 0 .. Branches
  PROVE  BranchK(b, outer) \in Whole /\ BranchK(b, outer) # <<>>
<1> DEFINE F == [kind : Kinds, branch : 0 .. Branches]
           front == BranchBody \o <<Frame("barrier", b)>>
           m == BranchLength + 1
<1>1. /\ outer \in Seq(F) /\ EndsAsProgram(outer) /\ Len(outer) \in Nat
      /\ DOMAIN outer = 1 .. Len(outer)
  BY DEF Whole, Continuation
<1>2. Frame("effect", 0) \in F /\ Frame("barrier", b) \in F
  BY NumbersAssumption DEF Frame, Kinds
<1>3. BranchBody \in Seq(F) /\ Len(BranchBody) = BranchLength /\ <<Frame("barrier", b)>> \in Seq(F)
  BY <1>2, NumbersAssumption DEF BranchBody
<1>4. front \in Seq(F) /\ Len(front) = Len(BranchBody) + 1
      /\ front[Len(BranchBody) + 1] = Frame("barrier", b)
  BY <1>2, <1>3, OneMore
<1>5. Len(BranchBody) + 1 = m
  BY <1>3
<1>6. front \in Seq(F) /\ Len(front) = m /\ front[m] = Frame("barrier", b)
  BY <1>4, <1>5
<1> DEFINE kk == front \o outer
<1>7. m \in Nat /\ m \in 1 .. m
  BY NumbersAssumption
<1> HIDE DEF front, m, F
<1>8. /\ kk \in Seq(F) /\ Len(kk) = m + Len(outer)
      /\ \A i \in 1 .. m : kk[i] = front[i]
      /\ \A i \in 1 .. Len(outer) : kk[m + i] = outer[i]
  <2>0. front \in Seq(F) /\ outer \in Seq(F)
    BY <1>1, <1>6
  <2>1. /\ front \o outer \in Seq(F) /\ Len(front \o outer) = Len(front) + Len(outer)
        /\ \A i \in 1 .. Len(front) : (front \o outer)[i] = front[i]
        /\ \A i \in 1 .. Len(outer) : (front \o outer)[Len(front) + i] = outer[i]
    BY <2>0, Joined
  <2>2. kk = front \o outer
    OBVIOUS
  <2> HIDE DEF kk
  <2> QED
    BY <1>6, <2>1, <2>2
<1> HIDE DEF kk
<1>9. IsBoundary(kk[m])
  BY <1>6, <1>7, <1>8 DEF IsBoundary, Frame
<1>10. EndsAsProgram(kk)
  <2> SUFFICES ASSUME NEW i \in DOMAIN kk, Outside(kk, i)
               PROVE  /\ Len(kk) - i < Len(ProgramK)
                      /\ kk[i] = ProgramK[Len(ProgramK) - (Len(kk) - i)]
    BY DEF EndsAsProgram
  <2>1. i \in 1 .. m + Len(outer)
    BY <1>8
  <2>2. ~(i <= m)
    <3> SUFFICES ASSUME i <= m PROVE FALSE
      OBVIOUS
    <3>1. m \in i .. Len(kk)
      BY <1>1, <1>7, <1>8, <2>1
    <3> QED
      BY <1>9, <3>1 DEF Outside
  <2>3. PICK x : x = i - m
    OBVIOUS
  <2>4. x \in 1 .. Len(outer) /\ i = m + x /\ kk[i] = outer[x] /\ Len(kk) - i = Len(outer) - x
    <3>1. m \in Nat /\ Len(outer) \in Nat /\ i \in 1 .. m + Len(outer) /\ ~(i <= m)
          /\ Len(kk) = m + Len(outer)
      BY <1>1, <1>7, <1>8, <2>1, <2>2
    <3>2. x \in 1 .. Len(outer) /\ i = m + x /\ Len(kk) - i = Len(outer) - x
      BY <2>3, <3>1
    <3> QED
      BY <1>8, <3>2
  <2>5. Outside(outer, x)
    <3> SUFFICES ASSUME NEW j \in x .. Len(outer) PROVE ~IsBoundary(outer[j])
      BY DEF Outside
    <3>1. m + j \in i .. Len(kk) /\ j \in 1 .. Len(outer)
      BY <1>1, <1>7, <1>8, <2>4
    <3> QED
      BY <1>8, <3>1 DEF Outside
  <2> QED
    BY <1>1, <2>4, <2>5 DEF EndsAsProgram
<1>11. kk # <<>>
  BY <1>1, <1>7, <1>8
<1> QED
  BY <1>8, <1>10, <1>11 DEF Whole, Continuation, BranchK, kk, front, F

\* The program's own continuation.
LEMMA ProgramWhole ==
  ASSUME program \in Programs
  PROVE  ProgramK \in Whole /\ ProgramK # <<>> /\ <<>> \in Whole
<1>1. program \in Seq({"effect", "group"}) /\ program # <<>>
  BY ProgramsAssumption
<1>2. Len(program) \in Nat /\ Len(program) # 0 /\ DOMAIN program = 1 .. Len(program)
      /\ \A i \in 1 .. Len(program) : program[i] \in {"effect", "group"}
  BY <1>1
<1>3. \A i \in 1 .. Len(program) : Frame(program[i], 0) \in [kind : Kinds, branch : 0 .. Branches]
  BY <1>2, NumbersAssumption DEF Frame, Kinds
<1>4. /\ ProgramK \in Continuation /\ DOMAIN ProgramK = 1 .. Len(program)
      /\ Len(ProgramK) = Len(program)
  BY <1>2, <1>3 DEF ProgramK, Work, Continuation
<1>5. EndsAsProgram(ProgramK)
  <2>1. \A i \in 1 .. Len(program) : /\ Len(ProgramK) - i < Len(ProgramK)
                                     /\ Len(ProgramK) - (Len(ProgramK) - i) = i
    BY <1>2, <1>4
  <2> QED
    BY <1>4, <2>1 DEF EndsAsProgram
<1>6. ProgramK # <<>>
  BY <1>2, <1>4
<1>7. <<>> \in Whole
  BY DEF Whole, Continuation, EndsAsProgram
<1> QED
  BY <1>4, <1>5, <1>6, <1>7 DEF Whole

\* The program does not change, and so neither does what a continuation must end with.
LEMMA SameWhole ==
  ASSUME program' = program
  PROVE  /\ Whole' = Whole /\ WholeLoop' = WholeLoop
         /\ WholeSnapshot' = WholeSnapshot /\ WholeStored' = WholeStored
<1>1. ProgramK' = ProgramK
  BY DEF ProgramK, Work
<1>2. Whole' = Whole
  BY <1>1 DEF Whole, EndsAsProgram
<1>3. WholeLoop' = WholeLoop /\ WholeSnapshot' = WholeSnapshot
  BY <1>2 DEF WholeLoop, LoopRecord, WholeSnapshot
<1> QED
  BY <1>2, <1>3 DEF WholeStored

\* What every step keeps.
LEMMA ShapeKept ==
  ASSUME ShapeInv, program' = program,
         loops' \in Seq(WholeLoop), 1 \in DOMAIN loops',
         captured' \subseteq WholeSnapshot,
         \A s \in captured' : s \notin captured /\ s.by = "handler" => NoBarrier(s.k),
         stored' \subseteq WholeStored,
         exec' # 0, auto' \in BOOLEAN,
         status' \in {"running", "suspended", "completed", "error"},
         hostOps' \in 0 .. MaxHostOps
  PROVE  ShapeInv'
<1>1. \A s \in captured' : s.by = "handler" => NoBarrier(s.k)
  BY DEF ShapeInv
<1> QED
  BY <1>1, SameWhole DEF ShapeInv, NoBarrier

\* A handler or a trampoline takes snapshot s; the rest is as before.
LEMMA TakenShape ==
  ASSUME ShapeInv, NEW s \in WholeSnapshot, s.by = "handler" => NoBarrier(s.k),
         captured' = captured \cup {s} \/ captured' = captured,
         UNCHANGED <<Run, status>>,
         loops' \in Seq(WholeLoop), 1 \in DOMAIN loops', hostOps' \in 0 .. MaxHostOps
  PROVE  ShapeInv'
<1>1. /\ program' = program /\ exec' = exec /\ auto' = auto /\ stored' = stored
      /\ status' = status
  BY DEF Run
<1>2. captured' \subseteq WholeSnapshot
  BY DEF ShapeInv
<1>3. \A t \in captured' : t \notin captured /\ t.by = "handler" => NoBarrier(t.k)
  BY DEF ShapeInv
<1> QED
  BY <1>1, <1>2, <1>3, ShapeKept DEF ShapeInv

\* The fields of a trampoline.
LEMMA LoopFields ==
  ASSUME ShapeInv, NEW l \in DOMAIN loops
  PROVE  /\ l \in 1 .. Len(loops) /\ loops[l] \in WholeLoop
         /\ loops[l].k \in Whole /\ loops[l].last \in IdSet
         /\ loops[l].status = "queued" => loops[l].k # <<>>
<1>1. l \in 1 .. Len(loops) /\ loops[l] \in WholeLoop
  BY DEF ShapeInv
<1> QED
  BY <1>1 DEF WholeLoop, LoopRecord

\* One trampoline goes on: its continuation, its newest snapshot, its status change.
LEMMA LoopUpdated ==
  ASSUME ShapeInv, NEW l \in DOMAIN loops, NEW a \in Whole, NEW b \in IdSet,
         NEW c \in SUBSET Nat, NEW d \in Statuses \ {"queued"}
  PROVE  /\ loops[l].status # "queued" =>
              /\ [loops EXCEPT ![l].last = b] \in Seq(WholeLoop)
              /\ [loops EXCEPT ![l].k = a] \in Seq(WholeLoop)
              /\ [loops EXCEPT ![l].k = a, ![l].last = b] \in Seq(WholeLoop)
         /\ [loops EXCEPT ![l].status = d] \in Seq(WholeLoop)
         /\ [loops EXCEPT ![l].status = d, ![l].k = a] \in Seq(WholeLoop)
         /\ [loops EXCEPT ![l].status = d, ![l].last = b] \in Seq(WholeLoop)
         /\ [loops EXCEPT ![l].status = d, ![l].wave = c] \in Seq(WholeLoop)
         /\ [loops EXCEPT ![l].k = a, ![l].status = d, ![l].wave = c] \in Seq(WholeLoop)
<1>1. loops \in Seq(WholeLoop) /\ l \in 1 .. Len(loops)
  BY LoopFields DEF ShapeInv
<1>2. loops[l] \in WholeLoop /\ \A x \in WholeLoop : [loops EXCEPT ![l] = x] \in Seq(WholeLoop)
  BY <1>1, Replaced
<1>3. /\ loops[l].status # "queued" =>
           /\ [loops[l] EXCEPT !.last = b] \in WholeLoop
           /\ [loops[l] EXCEPT !.k = a] \in WholeLoop
           /\ [loops[l] EXCEPT !.k = a, !.last = b] \in WholeLoop
      /\ [loops[l] EXCEPT !.status = d] \in WholeLoop
      /\ [loops[l] EXCEPT !.status = d, !.k = a] \in WholeLoop
      /\ [loops[l] EXCEPT !.status = d, !.last = b] \in WholeLoop
      /\ [loops[l] EXCEPT !.status = d, !.wave = c] \in WholeLoop
      /\ [loops[l] EXCEPT !.k = a, !.status = d, !.wave = c] \in WholeLoop
  BY <1>2 DEF WholeLoop, LoopRecord
<1>4. /\ [loops EXCEPT ![l].last = b]
           = [loops EXCEPT ![l] = [loops[l] EXCEPT !.last = b]]
      /\ [loops EXCEPT ![l].k = a]
           = [loops EXCEPT ![l] = [loops[l] EXCEPT !.k = a]]
      /\ [loops EXCEPT ![l].status = d]
           = [loops EXCEPT ![l] = [loops[l] EXCEPT !.status = d]]
      /\ [loops EXCEPT ![l].k = a, ![l].last = b]
           = [loops EXCEPT ![l] = [loops[l] EXCEPT !.k = a, !.last = b]]
      /\ [loops EXCEPT ![l].status = d, ![l].k = a]
           = [loops EXCEPT ![l] = [loops[l] EXCEPT !.status = d, !.k = a]]
      /\ [loops EXCEPT ![l].status = d, ![l].last = b]
           = [loops EXCEPT ![l] = [loops[l] EXCEPT !.status = d, !.last = b]]
      /\ [loops EXCEPT ![l].status = d, ![l].wave = c]
           = [loops EXCEPT ![l] = [loops[l] EXCEPT !.status = d, !.wave = c]]
      /\ [loops EXCEPT ![l].k = a, ![l].status = d, ![l].wave = c]
           = [loops EXCEPT ![l] = [loops[l] EXCEPT !.k = a, !.status = d, !.wave = c]]
  OBVIOUS
<1> QED
  BY <1>2, <1>3, <1>4, Zenon

\* The snapshots of a handler, of a branch and of the program's own suspension.
LEMMA SnapshotShape ==
  ASSUME IndexInv, NEW a \in Whole, NEW b \in Whole, NEW last \in IdSet,
         NEW by \in {"start", "handler", "suspend"}
  PROVE  /\ Snapshot(a, b, by, last) \in WholeSnapshot
         /\ Snapshot(a, b, by, last).by = by
         /\ Snapshot(a, b, by, last).k = a
         /\ Id(Snapshot(a, b, by, last)) \in IdSet
BY DEF IndexInv, Snapshot, WholeSnapshot, Id, IdSet

LEMMA EndsShape ==
  ASSUME ShapeInv, NEW l \in DOMAIN loops, NEW how \in {"completed", "error", "suspended"},
         Ends(l, how)
  PROVE  /\ loops' \in Seq(WholeLoop) /\ 1 \in DOMAIN loops'
         /\ status' \in {"running", "suspended", "completed", "error"}
<1>1. how \in Statuses \ {"queued"} /\ <<>> \in Whole /\ l \in 1 .. Len(loops)
  BY ProgramWhole, LoopFields DEF Statuses, ShapeInv
<1>2. loops' = [loops EXCEPT ![l].status = how, ![l].k = <<>>]
  BY DEF Ends
<1>3. loops[l].last \in IdSet /\ {} \in SUBSET Nat
  BY LoopFields
<1> DEFINE e == <<>>
<1>4. [loops EXCEPT ![l].status = how, ![l].k = e] \in Seq(WholeLoop)
  BY <1>1, <1>3, LoopUpdated
<1>5. DOMAIN loops' = DOMAIN loops
  BY <1>2
<1> QED
  BY <1>2, <1>4, <1>5 DEF ShapeInv, Ends

LEMMA WaveShape ==
  ASSUME ShapeInv, NEW l \in DOMAIN loops, NEW order \in Seq(0 .. Branches), NEW outer \in Whole,
         Wave(l, order, outer)
  PROVE  loops' \in Seq(WholeLoop) /\ 1 \in DOMAIN loops'
<1>0. PICK B : B = 0 .. Branches
  OBVIOUS
<1>2. Len(order) \in Nat /\ DOMAIN order = 1 .. Len(order)
      /\ \A i \in 1 .. Len(order) : order[i] \in B
  <2>1. order \in Seq(B)
    BY <1>0
  <2> QED
    BY <2>1
<1> DEFINE new == [i \in DOMAIN order |->
                     Loop(BranchK(order[i], outer), "queued", loops[l].last)]
           w == {Len(loops) + i : i \in DOMAIN order}
           own == [loops EXCEPT ![l].k = outer, ![l].status = "waiting", ![l].wave = w]
<1>1. loops \in Seq(WholeLoop) /\ Len(loops) \in Nat /\ l \in 1 .. Len(loops)
      /\ loops[l].last \in IdSet
  BY LoopFields DEF ShapeInv
<1>3. \A i \in 1 .. Len(order) :
        Loop(BranchK(order[i], outer), "queued", loops[l].last) \in WholeLoop
  BY <1>0, <1>1, <1>2, BranchWhole DEF Loop, WholeLoop, LoopRecord, Statuses
<1>4. new \in Seq(WholeLoop)
  BY <1>2, <1>3
<1>5. w \in SUBSET Nat /\ "waiting" \in Statuses \ {"queued"}
  BY <1>1, <1>2 DEF Statuses
<1>6. own \in Seq(WholeLoop) /\ DOMAIN own = DOMAIN loops
  <2> HIDE DEF w
  <2>1. own \in Seq(WholeLoop)
    BY <1>1, <1>5, LoopUpdated
  <2> QED
    BY <2>1
<1>7. loops' = own \o new
  BY DEF Wave
<1> HIDE DEF own, new, w
<1>8. /\ own \o new \in Seq(WholeLoop) /\ Len(own \o new) = Len(own) + Len(new)
      /\ Len(own) \in Nat /\ Len(new) \in Nat
      /\ DOMAIN own = 1 .. Len(own)
      /\ DOMAIN (own \o new) = 1 .. Len(own \o new)
  BY <1>4, <1>6, Joined
<1>9. 1 \in DOMAIN own
  BY <1>6 DEF ShapeInv
<1>10. 1 \in DOMAIN (own \o new)
  BY <1>8, <1>9
<1> QED
  BY <1>7, <1>8, <1>10

LEMMA InitShape == Init => ShapeInv
<1> SUFFICES ASSUME Init PROVE ShapeInv
  OBVIOUS
<1>1. program \in Programs /\ ProgramK \in Whole /\ <<>> \in Whole /\ Tail(ProgramK) \in Whole
  BY ProgramWhole, TailWhole DEF Init
<1>2. NoId \in IdSet /\ "running" \in Statuses
  BY DEF NoId, IdSet, Statuses
<1>3. \A last \in IdSet : Loop(ProgramK, "running", last) \in WholeLoop
  BY <1>1, <1>2 DEF Loop, WholeLoop, LoopRecord
<1>4. stored \subseteq WholeStored
  BY DEF Init
<1>5. exec # 0 /\ auto \in BOOLEAN /\ status = "running" /\ hostOps \in 0 .. MaxHostOps
  BY NumbersAssumption DEF Init
<1>6. /\ loops \in Seq(WholeLoop) /\ 1 \in DOMAIN loops /\ captured \subseteq WholeSnapshot
      /\ \A t \in captured : t.by = "start"
  <2> DEFINE s == [index |-> 0, exec |-> 1, k |-> Tail(ProgramK), again |-> ProgramK,
                   by |-> "start", prev |-> NoId]
  <2>1. s \in WholeSnapshot /\ s.by = "start" /\ Id(s) \in IdSet
    BY <1>1, <1>2 DEF WholeSnapshot, Id, IdSet
  <2>2. \/ captured = {s} /\ loops = <<Loop(ProgramK, "running", Id(s))>>
        \/ captured = {} /\ loops = <<Loop(ProgramK, "running", NoId)>>
    BY DEF Init
  <2> HIDE DEF s
  <2>3. PICK x \in WholeLoop : loops = <<x>>
    BY <1>2, <1>3, <2>1, <2>2
  <2>4. captured \subseteq WholeSnapshot /\ \A t \in captured : t.by = "start"
    BY <2>1, <2>2
  <2> QED
    BY <2>3, <2>4
<1> QED
  BY <1>1, <1>4, <1>5, <1>6 DEF ShapeInv

\* A run begins in the host's hands.
LEMMA BeginShape ==
  ASSUME ShapeInv, NEW kk \in Whole, NEW e \in Nat \ {0}, NEW list, NEW index \in Nat,
         NEW again \in Whole, NEW first \in Whole, NEW last \in IdSet,
         Begin(kk, e, list, index, again, first, last),
         stored' = stored, program' = program, hostOps' \in 0 .. MaxHostOps
  PROVE  ShapeInv'
<1> DEFINE s == [index |-> index, exec |-> e, k |-> first, again |-> again, by |-> "start",
                 prev |-> last]
<1>1. s \in WholeSnapshot /\ s.by = "start" /\ Id(s) \in IdSet
  BY DEF WholeSnapshot, Id, IdSet
<1>2. /\ exec' = e /\ auto' \in BOOLEAN /\ status' = "running"
      /\ \/ captured' = captured \cup {s} /\ loops' = <<Loop(kk, "running", Id(s))>>
         \/ captured' = captured /\ loops' = <<Loop(kk, "running", last)>>
  BY DEF Begin
<1> HIDE DEF s
<1>3. \A x \in IdSet : Loop(kk, "running", x) \in WholeLoop
  BY DEF Loop, WholeLoop, LoopRecord, Statuses
<1>4. PICK x \in WholeLoop : loops' = <<x>>
  BY <1>1, <1>2, <1>3
<1>5. loops' \in Seq(WholeLoop) /\ 1 \in DOMAIN loops'
  BY <1>4
<1>6. captured' \subseteq WholeSnapshot /\ \A t \in captured' : t \notin captured => t.by = "start"
  BY <1>1, <1>2 DEF ShapeInv
<1>7. stored' \subseteq WholeStored
  BY DEF ShapeInv
<1> QED
  BY <1>2, <1>5, <1>6, <1>7, ShapeKept

\* The order of a wave.
LEMMA WaveOrders ==
  ASSUME NEW b
  PROVE  AllBranches \in Seq(0 .. Branches) /\ AllBut(b) \in Seq(0 .. Branches)
<1>1. /\ \A i \in 1 .. Branches : i \in 0 .. Branches
      /\ \A i \in 1 .. Branches - 1 : (IF i < b THEN i ELSE i + 1) \in 0 .. Branches
      /\ Branches \in Nat /\ Branches - 1 \in Nat
  BY NumbersAssumption
<1> DEFINE B == 0 .. Branches
           f(i) == IF i < b THEN i ELSE i + 1
           n == Branches - 1
<1>2. \A i \in 1 .. Branches : i \in B
  BY <1>1
<1>3. \A i \in 1 .. n : f(i) \in B
  BY <1>1
<1>4. AllBut(b) = [i \in 1 .. n |-> f(i)] /\ n \in Nat /\ Branches \in Nat
  BY <1>1 DEF AllBut
<1> HIDE DEF B, f, n
<1> QED
  <2>1. AllBranches \in Seq(B)
    BY <1>2, <1>4 DEF AllBranches
  <2>2. AllBut(b) \in Seq(B)
    BY <1>3, <1>4
  <2> QED
    BY <2>1, <2>2 DEF B

\* The effect, the group or the boundary in front of a loop is done with.
LEMMA RestWhole ==
  ASSUME ShapeInv, NEW l \in DOMAIN loops, loops[l].k # <<>>
  PROVE  Rest(l) \in Whole /\ Compose(Rest(l)) \in Whole /\ NoBarrier(Compose(Rest(l)))
BY LoopFields, TailWhole, ComposeWhole DEF Rest

\* A snapshot of the list.
LEMMA ListedShape ==
  ASSUME IndexInv, ShapeInv, NEW i \in DOMAIN snapshots
  PROVE  /\ snapshots[i] \in WholeSnapshot
         /\ snapshots[i].k \in Whole /\ snapshots[i].again \in Whole
         /\ Id(snapshots[i]) \in IdSet
<1>1. snapshots[i] \in WholeSnapshot
  BY DEF IndexInv, ListsOK, ShapeInv
<1> QED
  BY <1>1 DEF WholeSnapshot, Id, IdSet

LEMMA HostOpType ==
  ASSUME ShapeInv, HostOp
  PROVE  hostOps' \in 0 .. MaxHostOps
BY NumbersAssumption DEF ShapeInv, HostOp

\* Nothing is taken.
LEMMA NothingTakenShape ==
  ASSUME ShapeInv, captured' = captured, UNCHANGED Run,
         loops' \in Seq(WholeLoop), 1 \in DOMAIN loops', hostOps' \in 0 .. MaxHostOps,
         status' \in {"running", "suspended", "completed", "error"}
  PROVE  ShapeInv'
<1>1. program' = program /\ exec' = exec /\ auto' = auto /\ stored' = stored
  BY DEF Run
<1>2. captured' \subseteq WholeSnapshot /\ \A t \in captured' : t \in captured
  BY DEF ShapeInv
<1> QED
  BY <1>1, <1>2, ShapeKept DEF ShapeInv

LEMMA CheckpointShape ==
  ASSUME IndexInv, ShapeInv, NEW l \in DOMAIN loops, Checkpoint(l)
  PROVE  ShapeInv'
<1> DEFINE c == Compose(Rest(l))
           s == Snapshot(c, c, "handler", loops[l].last)
<1>1. c \in Whole /\ NoBarrier(c) /\ loops[l].last \in IdSet
  BY RestWhole, LoopFields DEF Checkpoint, At
<1>2. s \in WholeSnapshot /\ (s.by = "handler" => NoBarrier(s.k)) /\ Id(s) \in IdSet
  <2> HIDE DEF c
  <2> QED
    BY <1>1, SnapshotShape
<1>3. captured' = captured \cup {s} /\ loops' = [loops EXCEPT ![l].last = Id(s)]
      /\ UNCHANGED <<Run, status>> /\ HostOp /\ loops[l].status # "queued"
  BY DEF Checkpoint, Take, At, Running
<1> HIDE DEF s
<1>4. loops' \in Seq(WholeLoop) /\ DOMAIN loops' = DOMAIN loops
  <2>1. loops[l].k \in Whole /\ {} \in SUBSET Nat /\ "running" \in Statuses \ {"queued"}
    BY LoopFields DEF Statuses
  <2> QED
    BY <1>2, <1>3, <2>1, LoopUpdated
<1>5. 1 \in DOMAIN loops'
  BY <1>4 DEF ShapeInv
<1> QED
  BY <1>2, <1>3, <1>4, <1>5, HostOpType, TakenShape

LEMMA AnswerShape ==
  ASSUME IndexInv, ShapeInv, NEW l \in DOMAIN loops, Answer(l)
  PROVE  ShapeInv'
<1> DEFINE c == Compose(Rest(l))
           s == Snapshot(c, c, "handler", loops[l].last)
<1>1. Rest(l) \in Whole /\ c \in Whole /\ NoBarrier(c) /\ loops[l].last \in IdSet
  BY RestWhole, LoopFields DEF Answer, At
<1>2. s \in WholeSnapshot /\ (s.by = "handler" => NoBarrier(s.k)) /\ Id(s) \in IdSet
  <2> HIDE DEF c
  <2> QED
    BY <1>1, SnapshotShape
<1>3. /\ \/ /\ captured' = captured \cup {s}
            /\ loops' = [loops EXCEPT ![l].k = Rest(l), ![l].last = Id(s)]
         \/ captured' = captured /\ loops' = [loops EXCEPT ![l].k = Rest(l)]
      /\ UNCHANGED <<Run, status, hostOps>> /\ loops[l].status # "queued"
  BY DEF Answer, Take, Book, At, Running
<1> HIDE DEF s
<1>4. loops' \in Seq(WholeLoop) /\ DOMAIN loops' = DOMAIN loops
  <2>1. {} \in SUBSET Nat /\ "running" \in Statuses \ {"queued"}
    BY DEF Statuses
  <2> DEFINE x == Id(s)
             y == Rest(l)
  <2>2. x \in IdSet /\ y \in Whole
    BY <1>1, <1>2
  <2> HIDE DEF x, y
  <2>3. /\ [loops EXCEPT ![l].k = y, ![l].last = x] \in Seq(WholeLoop)
        /\ [loops EXCEPT ![l].k = y] \in Seq(WholeLoop)
    BY <1>3, <2>1, <2>2, LoopUpdated
  <2> QED
    BY <1>3, <2>3 DEF x, y
<1>5. 1 \in DOMAIN loops' /\ hostOps' \in 0 .. MaxHostOps
  BY <1>3, <1>4 DEF ShapeInv
<1> QED
  BY <1>2, <1>3, <1>4, <1>5, TakenShape

LEMMA TravelShape ==
  ASSUME IndexInv, ShapeInv, NEW l \in DOMAIN loops, NEW i \in DOMAIN snapshots, Travel(l, i)
  PROVE  ShapeInv'
<1>1. snapshots[i].k \in Whole /\ Id(snapshots[i]) \in IdSet
  BY ListedShape
<1>2. /\ loops' = [loops EXCEPT ![l].k = snapshots[i].k, ![l].last = Id(snapshots[i])]
      /\ captured' = captured /\ UNCHANGED <<Run, status>> /\ HostOp
      /\ loops[l].status # "queued"
  BY DEF Travel, At, Running
<1>3. loops' \in Seq(WholeLoop) /\ DOMAIN loops' = DOMAIN loops
  <2>1. {} \in SUBSET Nat /\ "running" \in Statuses \ {"queued"}
    BY DEF Statuses
  <2> DEFINE x == Id(snapshots[i])
             y == snapshots[i].k
  <2>2. x \in IdSet /\ y \in Whole
    BY <1>1
  <2>3. loops' = [loops EXCEPT ![l].k = y, ![l].last = x]
    BY <1>2
  <2> HIDE DEF x, y
  <2>4. [loops EXCEPT ![l].k = y, ![l].last = x] \in Seq(WholeLoop)
    BY <1>2, <2>1, <2>2, LoopUpdated
  <2> QED
    BY <2>3, <2>4
<1>4. 1 \in DOMAIN loops' /\ status' \in {"running", "suspended", "completed", "error"}
  BY <1>2, <1>3 DEF ShapeInv
<1> QED
  BY <1>2, <1>3, <1>4, HostOpType, NothingTakenShape

LEMMA WaveStepShape ==
  ASSUME IndexInv, ShapeInv, NEW l \in DOMAIN loops, Launch(l) \/ ReRun(l)
  PROVE  ShapeInv'
<1>1. Rest(l) \in Whole
  BY RestWhole DEF Launch, ReRun, At
<1>2. loops' \in Seq(WholeLoop) /\ 1 \in DOMAIN loops'
  BY <1>1, WaveOrders, WaveShape DEF Launch, ReRun
<1>3. captured' = captured /\ UNCHANGED <<Run, status, hostOps>>
  BY DEF Launch, ReRun, Book
<1>4. hostOps' \in 0 .. MaxHostOps /\ status' \in {"running", "suspended", "completed", "error"}
  BY <1>3 DEF ShapeInv
<1> QED
  BY <1>2, <1>3, <1>4, NothingTakenShape

LEMMA StartBranchShape ==
  ASSUME IndexInv, ShapeInv, NEW l \in DOMAIN loops, StartBranch(l)
  PROVE  ShapeInv'
<1> DEFINE s == Snapshot(Tail(loops[l].k), loops[l].k, "start", loops[l].last)
<1>1. \/ /\ captured' = captured \cup {s}
         /\ loops' = [loops EXCEPT ![l].status = "running", ![l].last = Id(s)]
      \/ captured' = captured /\ loops' = [loops EXCEPT ![l].status = "running"]
  BY DEF StartBranch, Book
<1>2. UNCHANGED <<Run, status, hostOps>> /\ loops[l].status = "queued"
  BY DEF StartBranch
<1>3. loops[l].k \in Whole /\ Tail(loops[l].k) \in Whole /\ loops[l].last \in IdSet
  BY <1>2, LoopFields, TailWhole
<1>4. s \in WholeSnapshot /\ s.by = "start" /\ Id(s) \in IdSet
  <2> DEFINE a == Tail(loops[l].k)
  <2>1. a \in Whole
    BY <1>3
  <2> HIDE DEF a
  <2> QED
    BY <1>3, <2>1, SnapshotShape
<1> HIDE DEF s
<1>5. loops' \in Seq(WholeLoop) /\ DOMAIN loops' = DOMAIN loops
  <2>1. {} \in SUBSET Nat /\ "running" \in Statuses \ {"queued"}
    BY DEF Statuses
  <2> DEFINE x == Id(s)
  <2>2. x \in IdSet
    BY <1>4
  <2> HIDE DEF x
  <2>3. /\ [loops EXCEPT ![l].status = "running", ![l].last = x] \in Seq(WholeLoop)
        /\ [loops EXCEPT ![l].status = "running"] \in Seq(WholeLoop)
    BY <1>3, <2>1, <2>2, LoopUpdated
  <2> QED
    BY <1>1, <2>3 DEF x
<1>6. 1 \in DOMAIN loops' /\ hostOps' \in 0 .. MaxHostOps
  BY <1>2, <1>5 DEF ShapeInv
<1> QED
  BY <1>1, <1>2, <1>4, <1>5, <1>6, TakenShape

LEMMA EndingShape ==
  ASSUME ShapeInv, NEW l \in DOMAIN loops, NEW how \in {"completed", "error", "suspended"},
         Ends(l, how), captured' = captured, UNCHANGED Run, hostOps' \in 0 .. MaxHostOps
  PROVE  ShapeInv'
BY EndsShape, NothingTakenShape

LEMMA CollectShape ==
  ASSUME ShapeInv, NEW l \in DOMAIN loops, Collect(l)
  PROVE  ShapeInv'
<1>1. captured' = captured /\ UNCHANGED Run /\ hostOps' \in 0 .. MaxHostOps
  BY DEF Collect, Book, ShapeInv
<1>2. CASE Ends(l, "error")
  BY <1>1, <1>2, EndingShape
<1>3. CASE /\ loops' = [loops EXCEPT ![l].status = "running", ![l].wave = {}]
           /\ UNCHANGED status
  <2>1. {} \in SUBSET Nat /\ "running" \in Statuses \ {"queued"} /\ loops[l].k \in Whole
        /\ loops[l].last \in IdSet
    BY LoopFields DEF Statuses
  <2> DEFINE w == {}
  <2>2. w \in SUBSET Nat /\ loops' = [loops EXCEPT ![l].status = "running", ![l].wave = w]
    BY <1>3
  <2> HIDE DEF w
  <2>3. [loops EXCEPT ![l].status = "running", ![l].wave = w] \in Seq(WholeLoop)
    BY <2>1, <2>2, LoopUpdated
  <2>4. loops' \in Seq(WholeLoop) /\ 1 \in DOMAIN loops'
    BY <2>2, <2>3 DEF ShapeInv
  <2>5. status' \in {"running", "suspended", "completed", "error"}
    BY <1>3 DEF ShapeInv
  <2> QED
    BY <1>1, <2>4, <2>5, NothingTakenShape
<1> QED
  BY <1>2, <1>3 DEF Collect

LEMMA SuspendShape ==
  ASSUME IndexInv, ShapeInv, Suspend
  PROVE  ShapeInv'
<1> DEFINE s == Snapshot(Rest(1), Rest(1), "suspend", loops[1].last)
<1>0. 1 \in DOMAIN loops
  BY DEF ShapeInv
<1>1. Rest(1) \in Whole /\ loops[1].last \in IdSet
  BY <1>0, RestWhole, LoopFields DEF Suspend, At
<1>2. s \in WholeSnapshot /\ s.by = "suspend"
  BY <1>1, SnapshotShape
<1>3. /\ captured' = captured \cup {s} /\ Ends(1, "suspended") /\ HostOp
      /\ stored' = stored \cup
           {[k |-> Rest(1), snapshots |-> snapshots, next |-> next, last |-> loops[1].last]}
      /\ program' = program /\ exec' = exec /\ auto' = auto
  BY DEF Suspend
<1> HIDE DEF s
<1>4. captured' \subseteq WholeSnapshot
      /\ \A t \in captured' : t \notin captured => t.by = "suspend"
  BY <1>2, <1>3 DEF ShapeInv
<1>5. stored' \subseteq WholeStored
  <2>1. snapshots \in Seq(WholeSnapshot) /\ next \in Nat
    BY SeqGrows DEF IndexInv, ListsOK, ShapeInv
  <2>2. [k |-> Rest(1), snapshots |-> snapshots, next |-> next, last |-> loops[1].last]
          \in WholeStored
    BY <1>1, <2>1 DEF WholeStored
  <2> QED
    BY <1>3, <2>2 DEF ShapeInv
<1>6. /\ loops' \in Seq(WholeLoop) /\ 1 \in DOMAIN loops'
      /\ status' \in {"running", "suspended", "completed", "error"}
  BY <1>0, <1>3, EndsShape
<1> QED
  BY <1>3, <1>4, <1>5, <1>6, HostOpType, ShapeKept DEF ShapeInv

LEMMA ResumeShape ==
  ASSUME IndexInv, ShapeInv,
         (\E b \in stored : Resume(b)) \/ \E i \in DOMAIN snapshots : ResumeCheckpoint(i)
  PROVE  ShapeInv'
<1>1. exec + 1 \in Nat \ {0} /\ <<>> \in Whole /\ 0 \in Nat
  BY ProgramWhole DEF IndexInv, ShapeInv
<1>2. CASE \E b \in stored : Resume(b)
  <2>3. PICK b \in stored : Resume(b)
    BY <1>2
  <2> DEFINE kk == b.k
             list == b.snapshots
             index == b.next
             last == b.last
             none == <<>>
             e == exec + 1
  <2>1. kk \in Whole /\ index \in Nat /\ last \in IdSet /\ none \in Whole /\ e \in Nat \ {0}
    <3>1. b \in WholeStored
      BY DEF ShapeInv
    <3> QED
      BY <1>1, <3>1 DEF WholeStored
  <2>2. Begin(kk, e, list, index, none, none, last) /\ HostOp
        /\ stored' = stored /\ program' = program
    BY <2>3 DEF Resume
  <2> HIDE DEF kk, list, index, last, none, e
  <2> QED
    BY <2>1, <2>2, HostOpType, BeginShape
<1>3. CASE \E i \in DOMAIN snapshots : ResumeCheckpoint(i)
  <2>1. PICK i \in DOMAIN snapshots : ResumeCheckpoint(i)
    BY <1>3
  <2> DEFINE s == snapshots[i]
             fresh == s.by = "start" /\ s.again # <<>>
             kk == s.again
             again == IF fresh THEN s.again ELSE <<>>
             first == IF fresh THEN s.k ELSE <<>>
             last == Id(s)
             list == <<>>
             e == exec + 1
  <2>2. s.k \in Whole /\ s.again \in Whole /\ Id(s) \in IdSet
    BY ListedShape
  <2>3. kk \in Whole /\ again \in Whole /\ first \in Whole /\ last \in IdSet /\ e \in Nat \ {0}
    BY <1>1, <2>2
  <2>4. Begin(kk, e, list, 0, again, first, last) /\ HostOp
        /\ stored' = stored /\ program' = program
    BY <2>1 DEF ResumeCheckpoint
  <2> HIDE DEF kk, list, again, first, last, e
  <2> QED
    BY <1>1, <2>3, <2>4, HostOpType, BeginShape
<1> QED
  BY <1>2, <1>3

LEMMA ShapeNext == IndexInv /\ ShapeInv /\ [Next]_vars => ShapeInv'
<1> SUFFICES ASSUME IndexInv, ShapeInv, [Next]_vars PROVE ShapeInv'
  OBVIOUS
<1>0. hostOps \in 0 .. MaxHostOps
  BY DEF ShapeInv
<1>1. ASSUME NEW l \in DOMAIN loops, Checkpoint(l) PROVE ShapeInv'
  BY <1>1, CheckpointShape
<1>2. ASSUME NEW l \in DOMAIN loops, Answer(l) PROVE ShapeInv'
  BY <1>2, AnswerShape
<1>3. ASSUME NEW l \in DOMAIN loops, NEW i \in DOMAIN snapshots, Travel(l, i) PROVE ShapeInv'
  BY <1>3, TravelShape
<1>4. ASSUME NEW l \in DOMAIN loops, NEW i \in DOMAIN snapshots, TravelRefused(l, i)
      PROVE  ShapeInv'
  <2>1. Ends(l, "error") /\ captured' = captured /\ UNCHANGED Run /\ HostOp
    BY <1>4 DEF TravelRefused, Book
  <2> QED
    BY <2>1, HostOpType, EndingShape
<1>12. ASSUME NEW l \in DOMAIN loops, NEW s \in captured, NEW accepted \in BOOLEAN,
              TravelThrows(l, s, accepted)
       PROVE  ShapeInv'
  <2>1. Ends(l, "error") /\ captured' = captured /\ UNCHANGED Run /\ HostOp
    BY <1>12 DEF TravelThrows, Book
  <2> QED
    BY <2>1, HostOpType, EndingShape
<1>5. ASSUME NEW l \in DOMAIN loops, Launch(l) \/ ReRun(l) PROVE ShapeInv'
  BY <1>5, WaveStepShape
<1>6. ASSUME NEW l \in DOMAIN loops, StartBranch(l) PROVE ShapeInv'
  BY <1>6, StartBranchShape
<1>7. ASSUME NEW l \in DOMAIN loops, Complete(l) PROVE ShapeInv'
  <2>1. Ends(l, "completed") /\ captured' = captured /\ UNCHANGED <<Run, hostOps>>
    BY <1>7 DEF Complete, Book
  <2> QED
    BY <1>0, <2>1, EndingShape
<1>8. ASSUME NEW l \in DOMAIN loops, Collect(l) PROVE ShapeInv'
  BY <1>8, CollectShape
<1>9. CASE Suspend
  BY <1>9, SuspendShape
<1>10. CASE (\E b \in stored : Resume(b)) \/ \E i \in DOMAIN snapshots : ResumeCheckpoint(i)
  BY <1>10, ResumeShape
<1>11. CASE UNCHANGED vars
  <2>1. /\ captured' = captured /\ UNCHANGED Run /\ loops' = loops
        /\ status' = status /\ hostOps' = hostOps
    BY <1>11 DEF vars, Run
  <2> QED
    BY <1>0, <2>1, NothingTakenShape DEF ShapeInv
<1> QED
  BY <1>1, <1>2, <1>3, <1>4, <1>5, <1>6, <1>7, <1>8, <1>9, <1>10, <1>11, <1>12 DEF Next, Terminated

LEMMA ShapeIsType == IndexInv /\ ShapeInv => TypeOK
<1> SUFFICES ASSUME IndexInv, ShapeInv PROVE TypeOK
  OBVIOUS
<1>1. Whole \subseteq Continuation
  BY DEF Whole
<1>2. WholeLoop \subseteq LoopSet /\ WholeSnapshot \subseteq SnapshotSet
  BY <1>1 DEF WholeLoop, LoopRecord, LoopSet, WholeSnapshot, SnapshotSet, Statuses
<1>3. loops \in Seq(LoopSet) /\ loops # <<>>
  BY <1>2, SeqGrows DEF ShapeInv
<1>4. captured \subseteq SnapshotSet
  BY <1>2 DEF ShapeInv
<1>5. snapshots \in Seq(SnapshotSet)
  BY <1>4, SeqGrows DEF IndexInv, ListsOK
<1>6. stored \subseteq StoredSet
  <2>1. Seq(WholeSnapshot) \subseteq Seq(SnapshotSet)
    BY <1>2, SeqGrows
  <2> DEFINE A == Seq(WholeSnapshot)
             B == Seq(SnapshotSet)
  <2>2. A \subseteq B /\ stored \subseteq [k : Whole, snapshots : A, next : Nat, last : IdSet]
    BY <2>1 DEF ShapeInv, WholeStored
  <2> HIDE DEF A, B
  <2>3. stored \subseteq [k : Continuation, snapshots : B, next : Nat, last : IdSet]
    BY <1>1, <2>2
  <2> QED
    BY <2>3 DEF B, StoredSet
<1> QED
  BY <1>3, <1>4, <1>5, <1>6 DEF TypeOK, IndexInv, ShapeInv

LEMMA ShapeHolds == Spec => []ShapeInv
<1>1. Spec => []IndexInv
  BY Indices
<1>2. IndexInv /\ ShapeInv /\ [Next]_vars => ShapeInv'
  BY ShapeNext
<1> QED
  BY <1>1, <1>2, InitShape, PTL DEF Spec

\* Every continuation, stored or running, is a sequence of known frames, and the
\* lists, records and counters of the snapshot state keep their types.
THEOREM TypeCorrect == Spec => []TypeOK
BY Indices, ShapeHolds, ShapeIsType, PTL

\* Every checkpoint a handler takes, in the program or deep inside groups, while they
\* run or while they run again, is a continuation of the whole program.
THEOREM CheckpointsAreWhole == Spec => []WholeProgram
<1>1. ShapeInv => WholeProgram
  <2> SUFFICES ASSUME ShapeInv, NEW s \in captured, s.by = "handler"
               PROVE  /\ \A i \in DOMAIN s.k : s.k[i].kind # "barrier"
                      /\ EndsAsProgram(s.k)
    BY DEF WholeProgram
  <2>1. s \in WholeSnapshot /\ NoBarrier(s.k)
    BY DEF ShapeInv
  <2>2. s.k \in Whole
    BY <2>1 DEF WholeSnapshot
  <2> QED
    BY <2>1, <2>2 DEF NoBarrier, Whole
<1> QED
  BY <1>1, ShapeHolds, PTL

=============================================================================
