----------------------------- MODULE TimeTravel -----------------------------
(***************************************************************************)
(* Snapshots of a Dvala run: capture, eviction, resumeFrom (time travel),  *)
(* suspension, and the host's resume of a stored snapshot, in programs     *)
(* with parallel groups.                                                   *)
(*                                                                         *)
(* A run is a tree of trampolines (runEffectLoop), one for the program and *)
(* one for each branch of a group.  All of them share one SnapshotState:   *)
(* a list of snapshots and a counter of indices.  At each host effect the  *)
(* handler may take checkpoints, and then answers, suspends or travels.    *)
(*                                                                         *)
(* Source: packages/dvala-engine/src/evaluator/trampoline-evaluator.ts.    *)
(***************************************************************************)
EXTENDS Integers, Sequences

CONSTANTS
  Programs,     \* the programs considered: sequences of "effect" and "group"
  Branches,     \* number of branches of every group
  BranchLength, \* host effects of a branch
  MaxSnapshots, \* the maxSnapshots option
  MaxHostOps    \* bound: checkpoints, travels, suspensions and resumes

ASSUME ProgramsAssumption == Programs \subseteq Seq({"effect", "group"}) \ {<<>>}
ASSUME NumbersAssumption ==
  /\ Branches \in Nat \ {0} /\ BranchLength \in Nat \ {0}
  /\ MaxSnapshots \in Nat \ {0} /\ MaxHostOps \in Nat

VARIABLES
  program,   \* the program of this run; never changes
  loops,     \* the trampolines of this process; loops[1] is the program's
  snapshots, \* SnapshotState.snapshots, oldest first
  next,      \* SnapshotState.nextSnapshotIndex
  exec,      \* SnapshotState.executionId
  auto,      \* SnapshotState.autoCheckpoint
  status,    \* how the run stands: "running", "suspended", "completed", "error"
  stored,    \* the suspension snapshots in the host's hands
  captured,  \* history: every snapshot ever taken
  hostOps    \* bound: host operations so far

vars == <<program, loops, snapshots, next, exec, auto, status, stored, captured, hostOps>>

-----------------------------------------------------------------------------
(* Continuations.  What is left to do, first thing first.  A barrier ends a *)
(* branch; a rerun frame, which stands for it in a stored continuation,     *)
(* starts the other branches again.                                         *)

Frame(kind, b) == [kind |-> kind, branch |-> b]
Work(kinds) == [i \in DOMAIN kinds |-> Frame(kinds[i], 0)]
BranchBody == [i \in 1 .. BranchLength |-> Frame("effect", 0)]
BranchK(b, outerK) == BranchBody \o <<Frame("barrier", b)>> \o outerK

IsBoundary(f) == f.kind \in {"barrier", "rerun"}
Path(k) == [i \in DOMAIN SelectSeq(k, IsBoundary) |-> SelectSeq(k, IsBoundary)[i].branch]

\* Barriers of a captured continuation become rerun frames.
Raw(k) == k   \* mutant: the barrier is stored as it is
Compose(k) ==
  [i \in DOMAIN k |-> IF k[i].kind = "barrier" THEN Frame("rerun", k[i].branch) ELSE k[i]]

-----------------------------------------------------------------------------
(* Snapshots.  k is what resumeFrom restores, again what the host's resume  *)
(* restores (they differ for "Program start").  by and prev are history: what *)
(* took the snapshot, and the snapshot before it on its path.               *)

NoId == [exec |-> 0, index |-> 0]
Id(s) == [exec |-> s.exec, index |-> s.index]
Snapshot(k, again, by, prev) ==
  [index |-> next, exec |-> exec, k |-> k, again |-> again, by |-> by, prev |-> prev]

\* One more snapshot; if that makes too many, the oldest goes.
Evicting(list) == IF Len(list) > MaxSnapshots THEN Tail(list) ELSE list
Take(s) ==
  /\ snapshots' = Evicting(Append(snapshots, s))
  /\ next' = next + 1
  /\ captured' = captured \cup {s}

Loop(k, st, last) == [k |-> k, status |-> st, wave |-> {}, last |-> last]
Running(l) == status = "running" /\ loops[l].status = "running"
At(l, kind) == Running(l) /\ loops[l].k # <<>> /\ Head(loops[l].k).kind = kind
Rest(l) == Tail(loops[l].k)

HostOp == hostOps < MaxHostOps /\ hostOps' = hostOps + 1
Run == <<program, exec, auto, stored>>
Book == <<snapshots, next, captured>>

\* How a run begins: the "Program start" snapshot, if checkpoints are automatic.
\* s is that snapshot, list and index what the run inherits.
Begin(k, e, list, index, again, first, last) ==
  LET s == [index |-> index, exec |-> e, k |-> first, again |-> again, by |-> "start",
            prev |-> last]
  IN /\ exec' = e
     /\ auto' \in BOOLEAN
     /\ status' = "running"
     /\ IF auto'
        THEN /\ snapshots' = Append(list, s)
             /\ next' = index + 1
             /\ captured' = captured \cup {s}
             /\ loops' = <<Loop(k, "running", Id(s))>>
        ELSE /\ snapshots' = list
             /\ next' = index
             /\ captured' = captured
             /\ loops' = <<Loop(k, "running", last)>>

ProgramK == Work(program)

Init ==
  /\ program \in Programs
  /\ auto \in BOOLEAN
  /\ exec = 1 /\ status = "running" /\ stored = {} /\ hostOps = 0
  /\ LET s == [index |-> 0, exec |-> 1, k |-> Tail(ProgramK), again |-> ProgramK,
               by |-> "start", prev |-> NoId]
     IN IF auto
        THEN /\ snapshots = <<s>> /\ next = 1 /\ captured = {s}
             /\ loops = <<Loop(ProgramK, "running", Id(s))>>
        ELSE /\ snapshots = <<>> /\ next = 0 /\ captured = {}
             /\ loops = <<Loop(ProgramK, "running", NoId)>>

-----------------------------------------------------------------------------
(* A handler call at the effect in front of loop l.                        *)

\* ctx.checkpoint.
Checkpoint(l) ==
  /\ At(l, "effect") /\ HostOp
  /\ LET s == Snapshot(Compose(Rest(l)), Compose(Rest(l)), "handler", loops[l].last)
     IN Take(s) /\ loops' = [loops EXCEPT ![l].last = Id(s)]
  /\ UNCHANGED <<Run, status>>

\* ctx.resume: an automatic checkpoint, then the program goes on.
Answer(l) ==
  /\ At(l, "effect")
  /\ IF auto
     THEN LET s == Snapshot(Compose(Rest(l)), Compose(Rest(l)), "handler", loops[l].last)
          IN Take(s) /\ loops' = [loops EXCEPT ![l].k = Rest(l), ![l].last = Id(s)]
     ELSE loops' = [loops EXCEPT ![l].k = Rest(l)] /\ UNCHANGED Book
  /\ UNCHANGED <<Run, status, hostOps>>

\* The loop ends; the end of the program's loop is the end of the run.
Ends(l, how) ==
  /\ loops' = [loops EXCEPT ![l].status = how, ![l].k = <<>>]
  /\ status' = IF l = 1 THEN how ELSE status

\* All snapshots after the target are discarded; the counter goes on.
UpToNext(index, s) == s.index <= index + 1   \* mutant: keeps one too many
UpTo(index, s) == s.index <= index
Later(index) == {i \in DOMAIN snapshots : ~UpTo(index, snapshots[i])}
\* splice: the list is cut off before the first later snapshot.
Trim(index) ==
  IF Later(index) = {} THEN snapshots
  ELSE SubSeq(snapshots, 1, (CHOOSE i \in Later(index) : \A j \in Later(index) : i <= j) - 1)
ResetCounter(index) == index + 1             \* mutant: indices are used again
RewindTo(index) == index                     \* mutant: the target's index is used again
Below(index) == index - 1                    \* mutant: off by two
KeepCounter(index) == next                   \* what becomes of the counter

SamePath(s, l) == Path(loops[l].k) = <<>> \/ Path(s.k) = Path(loops[l].k)

\* ctx.resumeFrom.
Travel(l, i) ==
  /\ At(l, "effect") /\ HostOp
  /\ LET s == snapshots[i]
     IN /\ SamePath(s, l)
        /\ loops' = [loops EXCEPT ![l].k = s.k, ![l].last = Id(s)]
        /\ snapshots' = Trim(s.index)
        /\ next' = KeepCounter(s.index)
  /\ UNCHANGED <<captured, Run, status>>

\* ctx.resumeFrom throws, and the handler with it: the handle finds no snapshot (evicted,
\* trimmed, of another execution), or finds one, and the value to go on with is refused.
Listed(s) == \E i \in DOMAIN snapshots : Id(snapshots[i]) = Id(s)
TravelThrows(l, s, accepted) ==
  /\ At(l, "effect") /\ HostOp
  /\ Listed(s) => ~accepted
  /\ Ends(l, "error")
  /\ UNCHANGED <<Book, Run>>

\* From inside a branch out of it, or into another: the loop fails.
TravelRefused(l, i) ==
  /\ At(l, "effect") /\ HostOp
  /\ ~SamePath(snapshots[i], l)
  /\ Ends(l, "error")
  /\ UNCHANGED <<Book, Run>>

\* ctx.suspend by the program itself.
Suspend ==
  /\ At(1, "effect") /\ HostOp
  /\ stored' = stored \cup
       {[k |-> Rest(1), snapshots |-> snapshots, next |-> next, last |-> loops[1].last]}
  /\ captured' = captured \cup {Snapshot(Rest(1), Rest(1), "suspend", loops[1].last)}
  /\ next' = next + 1
  /\ Ends(1, "suspended")
  /\ UNCHANGED <<program, snapshots, exec, auto>>

-----------------------------------------------------------------------------
(* Groups.                                                                 *)

\* Branches to run, in the order they are started: all, or all but one.
AllBranches == [i \in 1 .. Branches |-> i]
AllBut(b) == [i \in 1 .. Branches - 1 |-> IF i < b THEN i ELSE i + 1]

\* The branches of order are queued under loop l; each is started in its turn.
Wave(l, order, outerK) ==
  LET new == [i \in DOMAIN order |-> Loop(BranchK(order[i], outerK), "queued", loops[l].last)]
  IN loops' = [loops EXCEPT ![l].k = outerK,
                            ![l].status = "waiting",
                            ![l].wave = {Len(loops) + i : i \in DOMAIN order}] \o new

Launch(l) ==
  /\ At(l, "group")
  /\ Wave(l, AllBranches, Rest(l))
  /\ UNCHANGED <<Book, Run, status, hostOps>>

\* A value meets a rerun frame: the other branches start from the beginning.
ReRun(l) ==
  /\ At(l, "rerun")
  /\ Wave(l, AllBut(Head(loops[l].k).branch), Rest(l))
  /\ UNCHANGED <<Book, Run, status, hostOps>>

\* runEffectLoop of a branch: its own "Program start" snapshot, never evicting.
StartBranch(l) ==
  /\ status = "running" /\ loops[l].status = "queued"
  /\ \A m \in 1 .. l - 1 : loops[m].status # "queued"
  /\ LET k == loops[l].k
         s == Snapshot(Tail(k), k, "start", loops[l].last)
     IN IF auto
        THEN /\ snapshots' = Append(snapshots, s)
             /\ next' = next + 1
             /\ captured' = captured \cup {s}
             /\ loops' = [loops EXCEPT ![l].status = "running", ![l].last = Id(s)]
        ELSE loops' = [loops EXCEPT ![l].status = "running"] /\ UNCHANGED Book
  /\ UNCHANGED <<Run, status, hostOps>>

\* A loop is complete when it meets a barrier or the end of its continuation.
Complete(l) ==
  /\ Running(l)
  /\ loops[l].k = <<>> \/ At(l, "barrier")
  /\ Ends(l, "completed")
  /\ UNCHANGED <<Book, Run, hostOps>>

\* The collector of a group, once every branch of the wave has ended.
Collect(l) ==
  /\ status = "running" /\ loops[l].status = "waiting"
  /\ \A m \in loops[l].wave : loops[m].status \in {"completed", "error"}
  /\ IF \E m \in loops[l].wave : loops[m].status = "error"
     THEN Ends(l, "error")
     ELSE loops' = [loops EXCEPT ![l].status = "running", ![l].wave = {}] /\ UNCHANGED status
  /\ UNCHANGED <<Book, Run, hostOps>>

-----------------------------------------------------------------------------
(* The host resumes a stored snapshot, in a new execution; it may do so     *)
(* with the same one again, also when the run resumed from it is over.      *)

Resume(b) ==
  /\ status # "running" /\ HostOp
  /\ Begin(b.k, exec + 1, b.snapshots, b.next, <<>>, <<>>, b.last)
  /\ UNCHANGED <<program, stored>>

\* resume() of a checkpoint taken out of the list of a run that is over.
ResumeCheckpoint(i) ==
  /\ status # "running" /\ HostOp
  /\ LET s == snapshots[i]
         fresh == s.by = "start" /\ s.again # <<>>
     IN Begin(s.again, exec + 1, <<>>, 0,
              IF fresh THEN s.again ELSE <<>>, IF fresh THEN s.k ELSE <<>>, Id(s))
  /\ UNCHANGED <<program, stored>>

Terminated == status # "running" /\ UNCHANGED vars

Next ==
  \/ \E l \in DOMAIN loops :
       \/ Checkpoint(l) \/ Answer(l)
       \/ \E i \in DOMAIN snapshots : Travel(l, i) \/ TravelRefused(l, i)
       \/ \E s \in captured, accepted \in BOOLEAN : TravelThrows(l, s, accepted)
       \/ Launch(l) \/ ReRun(l) \/ StartBranch(l) \/ Complete(l) \/ Collect(l)
  \/ Suspend \/ \E b \in stored : Resume(b)
  \/ \E i \in DOMAIN snapshots : ResumeCheckpoint(i)
  \/ Terminated

Spec == Init /\ [][Next]_vars
-----------------------------------------------------------------------------
(* Safety.                                                                 *)

Kinds == {"effect", "group", "barrier", "rerun"}
Continuation == Seq([kind : Kinds, branch : 0 .. Branches])
IdSet == [exec : Nat, index : Nat]
SnapshotSet == [index : Nat, exec : Nat, k : Continuation, again : Continuation,
                by : {"start", "handler", "suspend"}, prev : IdSet]
StoredSet == [k : Continuation, snapshots : Seq(SnapshotSet), next : Nat, last : IdSet]
LoopSet == [k : Continuation, last : IdSet, wave : SUBSET Nat,
            status : {"queued", "running", "waiting", "completed", "error", "suspended"}]

TypeOK ==
  /\ program \in Programs
  /\ loops \in Seq(LoopSet) /\ loops # <<>>
  /\ snapshots \in Seq(SnapshotSet)
  /\ next \in Nat /\ exec \in Nat \ {0} /\ auto \in BOOLEAN
  /\ status \in {"running", "suspended", "completed", "error"}
  /\ stored \subseteq StoredSet
  /\ captured \subseteq SnapshotSet
  /\ hostOps \in 0 .. MaxHostOps

\* A handle the host keeps (index and execution id) never comes to mean another
\* snapshot, whatever is travelled back over, trimmed, evicted, suspended or resumed.
HandlesStayValid == \A s, t \in captured : Id(s) = Id(t) => s = t

InOrder(list, index) ==
  /\ \A i, j \in DOMAIN list : i < j => list[i].index < list[j].index
  /\ \A i \in DOMAIN list : list[i].index < index

\* The list is in the order of capture, and the counter is ahead of it: trimming by
\* index (splice at the first greater one) discards exactly what came later.
Chronological == InOrder(snapshots, next)

\* In a program without groups the list is the end of the path that led here: each
\* snapshot was taken right after the one before it, and the newest is the last one
\* on the path.  Eviction cuts off the beginning and travel the end, never between.
HistoryIsLinear ==
  (\A i \in DOMAIN program : program[i] # "group")
    /\ status = "running" /\ snapshots # <<>> =>
      /\ loops[1].last = Id(snapshots[Len(snapshots)])
      /\ \A i \in 2 .. Len(snapshots) : snapshots[i].prev = Id(snapshots[i - 1])

\* Below the last boundary, a continuation ends the way the program does.
Outside(k, i) == \A j \in i .. Len(k) : ~IsBoundary(k[j])
EndsAsProgram(k) ==
  \A i \in DOMAIN k : Outside(k, i) =>
    /\ Len(k) - i < Len(ProgramK)
    /\ k[i] = ProgramK[Len(ProgramK) - (Len(k) - i)]

\* Every checkpoint is a continuation of the whole program, wherever it was taken:
\* it contains no barrier and ends the way the program does.
WholeProgram ==
  \A s \in captured : s.by = "handler" =>
    /\ \A i \in DOMAIN s.k : s.k[i].kind # "barrier"
    /\ EndsAsProgram(s.k)
=============================================================================
