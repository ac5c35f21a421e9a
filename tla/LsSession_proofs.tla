---- MODULE LsSession_proofs ----
(***************************************************************************)
(* Proofs about LsSession, for any number of paths, models, kinds of       *)
(* request, edits, calls and workers: the state is well formed, and, as    *)
(* long as no path that has a model gets another one, no promise is lost,  *)
(* the worker's mirror follows, and results and markers are of the text    *)
(* the editor shows.                                                       *)
(*                                                                         *)
(* The argument: what the inbox of the live worker will make of its mirror *)
(* is at every moment what the main thread believes (MirrorOK, where       *)
(* History replays the queue), so a request is served with the version it  *)
(* asks for, or a resync comes back; a resync that would be dropped as a   *)
(* repeat finds the version in the mirror (Served); and no step of the     *)
(* main thread, which composes helpers, drops a pending request (Carries). *)
(* The helpers are treated one by one: each lemma says what a helper       *)
(* keeps, and a handler's lemma composes those of the helpers it calls.    *)
(***************************************************************************)
EXTENDS LsSession, Positions

\* A member of S, or no value.
Optional(S) == S \cup {None}

\* The protocol's messages.
ToWorker ==
  [type : {"open"}, path : Paths, doc : Docs]
    \cup [type : {"update"}, path : Paths, previous : Nat, doc : Docs]
    \cup [type : {"close"}, path : Paths]
    \cup [type : {"cancel"}, id : Nat \ {0}]
    \cup [type : {"request"}, kind : Tracked, id : Nat \ {0}, path : Paths, version : Versions]

ToMain ==
  [type : {"resync"}, path : Paths]
    \cup [type : {"answer"}, kind : Tracked, id : Nat \ {0}, path : Paths, version : Versions, result : Optional(Docs)]

\* The values of the record's fields.
Promises == {Unasked, Waiting, Empty} \cup {Result(d) : d \in Docs}

Fingerprints == [version : Versions, pending : [Tracked -> Nat]]
Retries == [model : Models, worker : Workers]

\* The main thread's record has these fields, each of its type.
Session ==
  [tab : [Models -> Paths \cup {"unborn", "closed"}],
   version : [Models -> Versions],
   active : Optional(Models),
   switches : Nat,
   edits : 0 .. MaxEdits,
   worker : 0 .. MaxWorkers,
   born : Workers,
   nextRequestId : Nat \ {0},
   registered : [Paths -> Optional(Models)],
   lastSent : [Paths -> Versions \cup {0}],
   timer : [Paths -> Versions \cup {0}],
   fingerprint : [Paths -> Optional(Fingerprints)],
   pending : [Tracked -> [Paths -> Nat]],
   resolver : [Kinds -> [Paths -> SUBSET Calls]],
   retry : [Kinds -> [Paths -> Optional(Retries)]],
   hoverKey : [Paths -> Optional(Versions \X Positions)],
   answer : [Calls -> Promises],
   markers : [Models -> Optional(Docs)],
   inbox : [Workers -> Seq(ToWorker)]]

(***************************************************************************)
(* The parts of the invariant, of the main thread's record s               *)
(***************************************************************************)
\* The active tab has a path, and edits account for the versions.
TabsOK(s) ==
  /\ s.active # None => IsOpen(s, s.active)
  /\ \A m \in Models : s.version[m] <= s.edits + 1

\* Only waiting promises have a resolver, and each has one.
ResolversOK(s) ==
  \A k \in Kinds, p \in Paths : \A n \in s.resolver[k][p] :
    /\ s.answer[n] = Waiting
    /\ \A j \in Kinds, q \in Paths : n \in s.resolver[j][q] => j = k /\ q = p

\* There is at most one live worker, the last one born; a worker that died leaves
\* room for another, and one that is not born has received nothing.
WorkersOK(s, out) ==
  /\ s.worker \in {0, s.born}
  /\ \A w \in Workers : w <= s.born /\ w # s.worker => health[w] = "reported"
  /\ s.worker # 0 => health[s.worker] \in {"up", "dead"}
  /\ s.worker = 0 \/ health[s.worker] = "dead" => s.born < MaxWorkers
  /\ \A w \in Workers : w > s.born =>
       /\ health[w] = "up" /\ s.inbox[w] = <<>> /\ out[w] = <<>> /\ flags[w] = {}
       /\ mirror[w] = [p \in Paths |-> None]

\* Request ids are given out once: those in use are smaller than the next one.
IdsOK(s, out) ==
  /\ \A k \in Tracked, p \in Paths :
       /\ s.pending[k][p] < s.nextRequestId
       /\ \A j \in Tracked, q \in Paths :
            s.pending[k][p] # 0 /\ s.pending[j][q] = s.pending[k][p] => j = k /\ q = p
       /\ s.fingerprint[p] # None => s.fingerprint[p].pending[k] < s.nextRequestId
  /\ \A w \in Workers :
       /\ \A i \in DOMAIN s.inbox[w] : s.inbox[w][i].type \in {"request", "cancel"} =>
            s.inbox[w][i].id < s.nextRequestId
       /\ \A i \in DOMAIN out[w] : out[w][i].type = "answer" => out[w][i].id < s.nextRequestId
       /\ \A id \in flags[w] : id < s.nextRequestId

\* What the main thread keeps of a path is of its model's versions so far.
VersionsOK(s) ==
  \A p \in Paths : 
    /\ s.registered[p] # None =>
         /\ s.lastSent[p] <= s.version[s.registered[p]]
         /\ s.timer[p] <= s.version[s.registered[p]]
    /\ s.fingerprint[p] # None =>
         /\ s.registered[p] # None
         /\ s.fingerprint[p].version <= s.version[s.registered[p]]

\* A request that has a promise is pending, and can be retried in the present worker.
RetriesOK(s) ==
  \A k \in Kinds, p \in Paths :
    /\ s.pending[k][p] # 0 <=> s.retry[k][p] # None
    /\ s.resolver[k][p] # {} => s.retry[k][p] # None
    /\ s.retry[k][p] # None =>
         s.worker # 0 /\ s.retry[k][p].worker = s.worker

\* As long as its path is registered, it is retried on the present model.
ModelsOK(s) ==
  \A k \in Kinds, p \in Paths :
    s.retry[k][p] # None /\ s.registered[p] # None => s.retry[k][p].model = s.registered[p]

\* A path without a model has nothing under way.
ClosedOK(s) ==
  \A p \in Paths : s.registered[p] = None =>
    s.lastSent[p] = 0 /\ s.timer[p] = 0 /\ \A k \in Tracked : s.pending[k][p] = 0

\* The message is the pending request of kind k for path p, or the answer to it.
IsRequest(s, k, p, msg) ==
  /\ msg.type = "request" /\ msg.kind = k /\ msg.path = p
  /\ s.pending[k][p] # 0 /\ msg.id = s.pending[k][p]

IsAnswer(s, k, p, msg) ==
  /\ msg.type = "answer" /\ msg.kind = k /\ msg.path = p
  /\ s.pending[k][p] # 0 /\ msg.id = s.pending[k][p]

\* A pending request asks for a version its model had, and its answer, if it has a
\* result, was computed from that version.
RequestsOK(s) ==
  \A w \in Workers, k \in Tracked, p \in Paths : \A i \in DOMAIN s.inbox[w] :
    IsRequest(s, k, p, s.inbox[w][i]) /\ s.registered[p] # None
      => s.inbox[w][i].version <= s.version[s.registered[p]]

RepliesOK(s, out) ==
  \A w \in Workers, k \in Tracked, p \in Paths : \A i \in DOMAIN out[w] :
    IsAnswer(s, k, p, out[w][i]) /\ s.registered[p] # None =>
      /\ out[w][i].version <= s.version[s.registered[p]]
      /\ out[w][i].result # None =>
           out[w][i].result = [model |-> s.registered[p], version |-> out[w][i].version]

\* What a message makes of a document of the mirror.
After(msg, p, d) ==
  IF msg.type \in {"cancel", "request"} THEN d
  ELSE IF msg.path # p THEN d
  ELSE IF msg.type = "close" THEN None
  ELSE IF msg.type = "open" THEN (IF d # None /\ d.version > msg.doc.version THEN d ELSE msg.doc)
  ELSE IF d = None \/ d.version # msg.previous \/ d.version > msg.doc.version THEN d ELSE msg.doc

\* h is what the first n messages of queue make of the document d of path p.
History(queue, p, d, n, h) ==
  /\ n \in 0 .. Len(queue) /\ h[0] = d
  /\ \A i \in 1 .. n : h[i] = After(queue[i], p, h[i - 1])

\* What the main thread believes of the live worker's mirror.
Belief(s, p) == IF s.registered[p] = None THEN None
                ELSE [model |-> s.registered[p], version |-> s.lastSent[p]]

\* A resync of path p would be taken for a repeat, as far as kind k is concerned.
Repeats(s, k, p) ==
  /\ s.registered[p] # None /\ s.fingerprint[p] # None
  /\ s.fingerprint[p].version = s.version[s.registered[p]]
  /\ s.fingerprint[p].pending[k] = s.pending[k][p]

\* When the worker comes to a pending request, its mirror has no other model's
\* document, and the version asked for if the main thread has dealt with a resync.
Served(s, k, p, msg, d) ==
  IsRequest(s, k, p, msg) /\ s.registered[p] # None =>
    /\ d # None => d.model = s.registered[p]
    /\ Repeats(s, k, p) => d # None /\ d.version = msg.version

\* When its inbox is handled the live worker's mirror is what the main thread believes,
\* and until then every pending request is served.
MirrorOK(s) ==
  s.worker # 0 =>
  \A p \in Paths, n \in Nat : \A h \in [Nat -> Optional(Docs)] :
    History(s.inbox[s.worker], p, mirror[s.worker][p], n, h) =>
      /\ n = Len(s.inbox[s.worker]) => h[n] = Belief(s, p)
      /\ \A k \in Tracked : n < Len(s.inbox[s.worker]) =>
           Served(s, k, p, s.inbox[s.worker][n + 1], h[n])

\* What was cancelled is not pending.
CancelsOK(s) ==
  \A k \in Tracked, p \in Paths, w \in Workers : s.pending[k][p] # 0 =>
    /\ s.pending[k][p] \notin flags[w]
    /\ \A i \in DOMAIN s.inbox[w] :
         s.inbox[w][i].type = "cancel" => s.inbox[w][i].id # s.pending[k][p]

\* A pending request of a promise is under way.
UnderWay(s, out, k, p) ==
  \/ /\ s.worker # 0
     /\ \/ \E i \in DOMAIN s.inbox[s.worker] : IsRequest(s, k, p, s.inbox[s.worker][i])
        \/ /\ ~Repeats(s, k, p)
           /\ \E i \in DOMAIN out[s.worker] : out[s.worker][i] = [type |-> "resync", path |-> p]
  \/ \E w \in Workers : \E i \in DOMAIN out[w] : IsAnswer(s, k, p, out[w][i])

\* Every pending request that belongs to a promise is under way.
AllUnderWay(s, out) ==
  \A k \in Kinds, p \in Paths : s.pending[k][p] # 0 => UnderWay(s, out, k, p)

\* The types of the workers' variables.
EnvOK(out) ==
  /\ mirror \in [Workers -> [Paths -> Optional(Docs)]]
  /\ flags \in [Workers -> SUBSET (Nat \ {0})]
  /\ out \in [Workers -> Seq(ToMain)]
  /\ health \in [Workers -> {"up", "dead", "reported"}]

\* What holds whatever becomes of the files, between two calls of helpers ...
Sound(s, out) ==
  /\ s \in Session
  /\ TabsOK(s) /\ ResolversOK(s) /\ WorkersOK(s, out) /\ IdsOK(s, out) /\ CancelsOK(s)

\* ... and what holds as long as no path gets another model.
Faithful(s, out) == VersionsOK(s) /\ RequestsOK(s) /\ RepliesOK(s, out) /\ MirrorOK(s)

\* From s to t, no request that is still pending gets lost, and one that is new is sent.
Carries(s, t, out) ==
  \A k \in Kinds, p \in Paths :
    t.pending[k][p] # 0 /\ (t.pending[k][p] = s.pending[k][p] => UnderWay(s, out, k, p))
      => UnderWay(t, out, k, p)
(***************************************************************************)
(* What the helpers change                                                 *)
(***************************************************************************)
SameEditor(s, t) ==
  /\ t.tab = s.tab /\ t.version = s.version /\ t.active = s.active
  /\ t.switches = s.switches /\ t.edits = s.edits
SameWorker(s, t) == t.worker = s.worker /\ t.born = s.born
SameDocs(s, t) ==
  /\ t.registered = s.registered /\ t.lastSent = s.lastSent
  /\ t.timer = s.timer /\ t.fingerprint = s.fingerprint
SamePromises(s, t) ==
  t.resolver = s.resolver /\ t.retry = s.retry /\ t.hoverKey = s.hoverKey /\ t.answer = s.answer
SameQueues(s, t) ==
  t.inbox = s.inbox /\ t.pending = s.pending /\ t.nextRequestId = s.nextRequestId

\* Posting a message appends it to the worker's inbox.
LEMMA PostFields ==
  ASSUME NEW s \in Session, NEW w \in Workers, NEW msg \in ToWorker
  PROVE  LET t == Post(s, w, msg)
         IN /\ t \in Session /\ t = [s EXCEPT !.inbox = t.inbox]
            /\ t.inbox = [s.inbox EXCEPT ![w] = Append(@, msg)]
            /\ SameEditor(s, t) /\ SameWorker(s, t) /\ SameDocs(s, t) /\ SamePromises(s, t)
            /\ t.markers = s.markers /\ t.pending = s.pending /\ t.nextRequestId = s.nextRequestId
<1> DEFINE q == [s.inbox EXCEPT ![w] = Append(@, msg)]
<1>1. s.inbox \in [Workers -> Seq(ToWorker)]
  BY DEF Session
<1>2. q \in [Workers -> Seq(ToWorker)]
  BY <1>1
<1>3. Post(s, w, msg) = [s EXCEPT !.inbox = q]
  BY Zenon DEF Post
<1> HIDE DEF q
<1> QED
  BY <1>2, <1>3, ZenonT(60) DEF Session, SameEditor, SameWorker, SameDocs, SamePromises, q

\* A model's document has the model's version.
LEMMA DocFields ==
  ASSUME NEW s \in Session, NEW m \in Models
  PROVE  Doc(s, m) \in Docs /\ Doc(s, m).model = m /\ Doc(s, m).version = s.version[m] /\ s.version[m] \in Versions
BY DEF Session, Doc, Docs

\* A path that has a model has one of Models.
LEMMA RegisteredModel ==
  ASSUME NEW s \in Session, NEW p \in Paths, s.registered[p] # None
  PROVE  s.registered[p] \in Models
BY DEF Session, Optional

\* What syncModelToWorker does to the record.
Synced(s, w, p, t) ==
  LET d == Doc(s, s.registered[p])
  IN /\ t \in Session
     /\ t.inbox = [s.inbox EXCEPT ![w] = Append(@, [type |-> "open", path |-> p, doc |-> d])]
     /\ t.lastSent = [s.lastSent EXCEPT ![p] = d.version]
     /\ SameEditor(s, t) /\ SameWorker(s, t) /\ SamePromises(s, t)
     /\ t.registered = s.registered /\ t.timer = s.timer /\ t.fingerprint = s.fingerprint
     /\ t.markers = s.markers /\ t.pending = s.pending /\ t.nextRequestId = s.nextRequestId

\* What syncModelToWorker changes.
LEMMA SyncFields ==
  ASSUME NEW s \in Session, NEW w \in Workers, NEW p \in Paths, s.registered[p] # None
  PROVE  Synced(s, w, p, syncModelToWorker(s, w, p))
<1> DEFINE m == s.registered[p]
           d == Doc(s, m)
           msg == [type |-> "open", path |-> p, doc |-> d]
           u == Post(s, w, msg)
           sent == [s.lastSent EXCEPT ![p] = d.version]
<1>1. d \in Docs /\ d.version \in Versions
  BY DocFields, RegisteredModel
<1>2. msg \in ToWorker
  <2> HIDE DEF d
  <2> QED BY <1>1 DEF ToWorker
<1>3. /\ u \in Session
      /\ u.inbox = [s.inbox EXCEPT ![w] = Append(@, msg)]
      /\ SameEditor(s, u) /\ SameWorker(s, u) /\ SameDocs(s, u) /\ SamePromises(s, u)
      /\ u.markers = s.markers /\ u.pending = s.pending /\ u.nextRequestId = s.nextRequestId
  <2> HIDE DEF msg
  <2> QED BY <1>2, PostFields
<1>4. sent \in [Paths -> Versions \cup {0}]
  <2> HIDE DEF d
  <2> QED BY <1>1 DEF Session
<1>5. syncModelToWorker(s, w, p) = [u EXCEPT !.lastSent = sent]
  <2>1. syncModelToWorker(s, w, p) = [u EXCEPT !.lastSent = [u.lastSent EXCEPT ![p] = d.version]]
    BY Zenon DEF syncModelToWorker
  <2> HIDE DEF u, d
  <2> QED BY <2>1, <1>3 DEF SameDocs
<1> DEFINE t == syncModelToWorker(s, w, p)
<1> HIDE DEF u, sent
<1>6. /\ t \in Session /\ t.lastSent = sent
      /\ SameEditor(u, t) /\ SameWorker(u, t) /\ SamePromises(u, t) /\ SameQueues(u, t)
      /\ t.registered = u.registered /\ t.timer = u.timer /\ t.fingerprint = u.fingerprint
      /\ t.markers = u.markers
  BY <1>3, <1>4, <1>5, ZenonT(60) DEF Session, SameEditor, SameWorker, SamePromises, SameQueues
<1> HIDE DEF t
<1>7. /\ t \in Session
      /\ t.inbox = [s.inbox EXCEPT ![w] = Append(@, msg)] /\ t.lastSent = [s.lastSent EXCEPT ![p] = d.version]
      /\ SameEditor(s, t) /\ SameWorker(s, t) /\ SamePromises(s, t)
      /\ t.registered = s.registered /\ t.timer = s.timer /\ t.fingerprint = s.fingerprint
      /\ t.markers = s.markers /\ t.pending = s.pending /\ t.nextRequestId = s.nextRequestId
  <2> HIDE DEF msg, d
  <2> QED BY <1>3, <1>6 DEF SameEditor, SameWorker, SamePromises, SameDocs, SameQueues, sent
<1> QED
  BY <1>7, Zenon DEF t, Synced

\* Only the pending id of kind k and path p changes, and becomes id.
PendingBecomes(old, new, k, p, id) ==
  /\ new[k][p] = id
  /\ \A j \in Tracked, q \in Paths : j # k \/ q # p => new[j][q] = old[j][q]

\* Making one request pending, or none, changes nothing else of pending.
LEMMA PendingTyped ==
  ASSUME NEW s \in Session, NEW k \in Tracked, NEW p \in Paths, NEW id \in Nat,
         NEW f, f = [s.pending EXCEPT ![k][p] = id]
  PROVE  f \in [Tracked -> [Paths -> Nat]] /\ PendingBecomes(s.pending, f, k, p, id)
<1>1. s.pending \in [Tracked -> [Paths -> Nat]]
  BY DEF Session
<1> QED
  BY <1>1 DEF PendingBecomes

\* A request that is pending is cancelled and forgotten.
LEMMA CancelFields ==
  ASSUME NEW s \in Session, NEW k \in Tracked, NEW p \in Paths, NEW w \in Workers,
         NEW t, t = cancelPendingRequest(s, k, p, w)
  PROVE  /\ t \in Session
         /\ s.pending[k][p] = 0 => t = s
         /\ s.pending[k][p] # 0 =>
              t.inbox = [s.inbox EXCEPT ![w] = Append(@, [type |-> "cancel", id |-> s.pending[k][p]])]
         /\ PendingBecomes(s.pending, t.pending, k, p, 0)
         /\ SameEditor(s, t) /\ SameWorker(s, t) /\ SamePromises(s, t) /\ SameDocs(s, t)
         /\ t.markers = s.markers /\ t.nextRequestId = s.nextRequestId
<1>1. CASE s.pending[k][p] = 0
  BY <1>1, Zenon DEF cancelPendingRequest, PendingBecomes, SameEditor, SameWorker, SamePromises, SameDocs
<1>2. CASE s.pending[k][p] # 0
  <2> DEFINE msg == [type |-> "cancel", id |-> s.pending[k][p]]
             u == Post(s, w, msg)
             f == [s.pending EXCEPT ![k][p] = 0]
  <2>1. s.pending[k][p] \in Nat
    BY DEF Session
  <2>2. msg \in ToWorker
    BY <1>2, <2>1 DEF ToWorker
  <2>3. /\ u \in Session /\ u.inbox = [s.inbox EXCEPT ![w] = Append(@, msg)]
        /\ SameEditor(s, u) /\ SameWorker(s, u) /\ SameDocs(s, u) /\ SamePromises(s, u)
        /\ u.markers = s.markers /\ u.pending = s.pending /\ u.nextRequestId = s.nextRequestId
    <3> HIDE DEF msg
    <3> QED BY <2>2, PostFields
  <2>4. t = [u EXCEPT !.pending = f]
    <3>1. t = [u EXCEPT !.pending = [u.pending EXCEPT ![k][p] = 0]]
      BY <1>2, Zenon DEF cancelPendingRequest
    <3> HIDE DEF u
    <3> QED BY <3>1, <2>3
  <2>5. f \in [Tracked -> [Paths -> Nat]] /\ PendingBecomes(s.pending, f, k, p, 0)
    BY PendingTyped
  <2> HIDE DEF u, f
  <2>6. t \in Session
    BY <2>3, <2>4, <2>5, ZenonT(60) DEF Session
  <2>7. /\ t.pending = f /\ t.inbox = u.inbox
        /\ SameEditor(u, t) /\ SameWorker(u, t) /\ SamePromises(u, t) /\ SameDocs(u, t)
        /\ t.markers = u.markers /\ t.nextRequestId = u.nextRequestId
    BY <2>3, <2>4 DEF Session, SameEditor, SameWorker, SamePromises, SameDocs
  <2> HIDE DEF msg
  <2> QED
    BY <1>2, <2>3, <2>5, <2>6, <2>7 DEF SameEditor, SameWorker, SamePromises, SameDocs, PendingBecomes, msg
<1> QED
  BY <1>1, <1>2

\* The second half of startTrackedRequest.
Started(s, k, p, w, v) ==
  [Post(s, w, [type |-> "request", kind |-> k, id |-> s.nextRequestId, path |-> p, version |-> v])
     EXCEPT !.nextRequestId = @ + 1, !.pending[k][p] = s.nextRequestId]

\* startTrackedRequest cancels what is pending, then starts.
LEMMA StartTrackedIs ==
  ASSUME NEW s, NEW k, NEW p, NEW w, NEW v
  PROVE  startTrackedRequest(s, k, p, w, v) = Started(cancelPendingRequest(s, k, p, w), k, p, w, v)
BY Zenon DEF startTrackedRequest, Started

\* What starting a request changes.
LEMMA StartedFields ==
  ASSUME NEW s \in Session, NEW k \in Tracked, NEW p \in Paths, NEW w \in Workers, NEW v \in Versions,
         NEW t, t = Started(s, k, p, w, v)
  PROVE  /\ t \in Session
         /\ t.inbox = [s.inbox EXCEPT ![w] = Append(@,
              [type |-> "request", kind |-> k, id |-> s.nextRequestId, path |-> p, version |-> v])]
         /\ PendingBecomes(s.pending, t.pending, k, p, s.nextRequestId) /\ t.nextRequestId = s.nextRequestId + 1
         /\ SameEditor(s, t) /\ SameWorker(s, t) /\ SamePromises(s, t) /\ SameDocs(s, t)
         /\ t.markers = s.markers
<1> DEFINE id == s.nextRequestId
           msg == [type |-> "request", kind |-> k, id |-> id, path |-> p, version |-> v]
           u == Post(s, w, msg)
           f == [s.pending EXCEPT ![k][p] = id]
<1>1. id \in Nat \ {0} /\ id + 1 \in Nat \ {0}
  BY DEF Session
<1>2. msg \in ToWorker
  BY <1>1 DEF ToWorker
<1>3. /\ u \in Session /\ u.inbox = [s.inbox EXCEPT ![w] = Append(@, msg)]
      /\ SameEditor(s, u) /\ SameWorker(s, u) /\ SameDocs(s, u) /\ SamePromises(s, u)
      /\ u.markers = s.markers /\ u.pending = s.pending /\ u.nextRequestId = s.nextRequestId
  <2> HIDE DEF msg
  <2> QED BY <1>2, PostFields
<1>4. t = [u EXCEPT !.nextRequestId = id + 1, !.pending = f]
  <2>1. t = [u EXCEPT !.nextRequestId = u.nextRequestId + 1, !.pending = [u.pending EXCEPT ![k][p] = id]]
    BY Zenon DEF Started
  <2> HIDE DEF u
  <2> QED BY <2>1, <1>3
<1>5. f \in [Tracked -> [Paths -> Nat]] /\ PendingBecomes(s.pending, f, k, p, id)
  BY <1>1, PendingTyped
<1> HIDE DEF u, f
<1>6. t \in Session
  <2>1. id + 1 \in Nat \ {0} /\ u \in Session /\ f \in [Tracked -> [Paths -> Nat]]
    BY <1>1, <1>3, <1>5
  <2> HIDE DEF id
  <2> QED
    BY <2>1, <1>4, ZenonT(60) DEF Session
<1>7. /\ t.pending = f /\ t.inbox = u.inbox /\ t.nextRequestId = id + 1
      /\ SameEditor(u, t) /\ SameWorker(u, t) /\ SamePromises(u, t) /\ SameDocs(u, t)
      /\ t.markers = u.markers
  BY <1>3, <1>4 DEF Session, SameEditor, SameWorker, SamePromises, SameDocs
<1> HIDE DEF msg
<1> QED
  BY <1>3, <1>5, <1>6, <1>7 DEF SameEditor, SameWorker, SamePromises, SameDocs, PendingBecomes, msg

\* The promises of kind k and path p get their result, and nothing is kept of them.
LEMMA ResolveFields ==
  ASSUME NEW s \in Session, NEW k \in Kinds, NEW p \in Paths, NEW result \in Promises,
         NEW t, t = Resolve(s, k, p, result)
  PROVE  /\ t \in Session
         /\ t.resolver[k][p] = {} /\ t.retry[k][p] = None
         /\ \A j \in Kinds, q \in Paths : j # k \/ q # p =>
              t.resolver[j][q] = s.resolver[j][q] /\ t.retry[j][q] = s.retry[j][q]
         /\ \A n \in Calls : t.answer[n] = IF n \in s.resolver[k][p] THEN result ELSE s.answer[n]
         /\ SameEditor(s, t) /\ SameWorker(s, t) /\ SameDocs(s, t) /\ SameQueues(s, t)
         /\ t.markers = s.markers
<1> DEFINE answers == [n \in Calls |-> IF n \in s.resolver[k][p] THEN result ELSE s.answer[n]]
           resolvers == [s.resolver EXCEPT ![k][p] = {}]
           retries == [s.retry EXCEPT ![k][p] = None]
           keys == [s.hoverKey EXCEPT ![p] = IF k = "hover" THEN None ELSE @]
<1>1. /\ s.resolver \in [Kinds -> [Paths -> SUBSET Calls]] /\ s.retry \in [Kinds -> [Paths -> Optional(Retries)]]
      /\ s.hoverKey \in [Paths -> Optional(Versions \X Positions)] /\ s.answer \in [Calls -> Promises]
  BY DEF Session
<1>2. t = [s EXCEPT !.answer = answers, !.resolver = resolvers, !.retry = retries, !.hoverKey = keys]
  BY Zenon DEF Resolve
<1>3. answers \in [Calls -> Promises]
  BY <1>1
<1>4. /\ resolvers \in [Kinds -> [Paths -> SUBSET Calls]] /\ resolvers[k][p] = {}
      /\ \A j \in Kinds, q \in Paths : j # k \/ q # p => resolvers[j][q] = s.resolver[j][q]
  BY <1>1
<1>5. /\ retries \in [Kinds -> [Paths -> Optional(Retries)]] /\ retries[k][p] = None
      /\ \A j \in Kinds, q \in Paths : j # k \/ q # p => retries[j][q] = s.retry[j][q]
  BY <1>1 DEF Optional
<1>6. keys \in [Paths -> Optional(Versions \X Positions)]
  BY <1>1 DEF Optional
<1> HIDE DEF answers, resolvers, retries, keys
<1>7. t \in Session
  <2>1. /\ answers \in [Calls -> Promises] /\ resolvers \in [Kinds -> [Paths -> SUBSET Calls]]
        /\ retries \in [Kinds -> [Paths -> Optional(Retries)]]
        /\ keys \in [Paths -> Optional(Versions \X Positions)]
    BY <1>3, <1>4, <1>5, <1>6
  <2> DEFINE u == [s EXCEPT !.answer = answers, !.resolver = resolvers]
  <2>2. u \in Session
    BY <2>1, Zenon DEF Session
  <2>3. t = [u EXCEPT !.retry = retries, !.hoverKey = keys]
    BY <1>2, Zenon
  <2> HIDE DEF u
  <2> QED
    BY <2>1, <2>2, <2>3, ZenonT(60) DEF Session
<1>8. /\ t.answer = answers /\ t.resolver = resolvers /\ t.retry = retries
      /\ SameEditor(s, t) /\ SameWorker(s, t) /\ SameDocs(s, t) /\ SameQueues(s, t)
      /\ t.markers = s.markers
  BY <1>2 DEF Session, SameEditor, SameWorker, SameQueues, SameDocs
<1> QED
  BY <1>4, <1>5, <1>7, <1>8 DEF answers

(***************************************************************************)
(* Histories of the mirror                                                 *)
(***************************************************************************)
\* The history of a longer queue is one of the queue, and what the last message does.
LEMMA HistoryAppend ==
  ASSUME NEW q \in Seq(ToWorker), NEW msg, NEW p, NEW d, NEW n \in Nat, NEW h,
         History(Append(q, msg), p, d, n, h)
  PROVE  \/ n <= Len(q) /\ History(q, p, d, n, h)
         \/ /\ n = Len(q) + 1 /\ History(q, p, d, Len(q), h)
            /\ h[n] = After(msg, p, h[Len(q)])
<1>1. /\ Append(q, msg) \in Seq(ToWorker \cup {msg})
      /\ Len(Append(q, msg)) = Len(q) + 1 /\ Len(q) \in Nat
      /\ \A i \in 1 .. Len(q) : Append(q, msg)[i] = q[i]
      /\ Append(q, msg)[Len(q) + 1] = msg
  OBVIOUS
<1>2. h[0] = d /\ \A i \in 1 .. n : h[i] = After(Append(q, msg)[i], p, h[i - 1])
  BY Zenon DEF History
<1>3. n <= Len(q) + 1
  BY <1>1 DEF History
<1>4. CASE n <= Len(q)
  <2>1. n \in 0 .. Len(q) /\ \A i \in 1 .. n : i \in 1 .. Len(q)
    BY <1>1, <1>4
  <2>2. \A i \in 1 .. n : h[i] = After(q[i], p, h[i - 1])
    BY <1>1, <1>2, <2>1, Zenon
  <2> QED
    BY <1>2, <1>4, <2>1, <2>2, Zenon DEF History
<1>5. CASE n = Len(q) + 1
  <2>1. Len(q) \in 0 .. Len(q) /\ n \in 1 .. n /\ n - 1 = Len(q) /\ \A i \in 1 .. Len(q) : i \in 1 .. n
    BY <1>1, <1>5
  <2>2. \A i \in 1 .. Len(q) : h[i] = After(q[i], p, h[i - 1])
    BY <1>1, <1>2, <2>1, Zenon
  <2>3. h[n] = After(Append(q, msg)[n], p, h[n - 1])
    BY <1>2, <2>1, Zenon
  <2>4. h[n] = After(msg, p, h[Len(q)])
    BY <2>1, <2>3, <1>1, <1>5, Zenon
  <2> QED
    BY <1>2, <1>5, <2>1, <2>2, <2>4, Zenon DEF History
<1> QED
  BY <1>1, <1>3, <1>4, <1>5

\* Folding syncModelToWorker over the registered paths is what createWorker does.
LEMMA CreateIs ==
  ASSUME NEW s
  PROVE  createWorker(s) =
           LET R == {p \in Paths : s.registered[p] # None}
               g == CHOOSE g : g = [T \in SUBSET R |->
                      IF T = {} THEN [s EXCEPT !.born = s.born + 1, !.worker = s.born + 1]
                      ELSE LET x == CHOOSE y \in T : TRUE
                           IN syncModelToWorker(g[T \ {x}], s.born + 1, x)]
           IN g[R]
BY Zenon DEF createWorker, FSE!FoldSet, FSE!MapThenFoldSet

\* The documents a new worker is sent: those of the registered models.
Sent(s, p) == IF s.registered[p] = None THEN s.lastSent[p] ELSE s.version[s.registered[p]]
DocOf(s, p) == IF s.registered[p] = None THEN None ELSE Doc(s, s.registered[p])

\* What createWorker does: the new worker's inbox opens every registered model, and
\* nothing else.
Created(s, t) ==
  /\ t \in Session
  /\ t.worker = s.born + 1 /\ t.born = s.born + 1 /\ t.worker \in Workers
  /\ SameEditor(s, t) /\ SamePromises(s, t)
  /\ t.registered = s.registered /\ t.timer = s.timer /\ t.fingerprint = s.fingerprint
  /\ t.markers = s.markers /\ t.pending = s.pending /\ t.nextRequestId = s.nextRequestId
  /\ \A p \in Paths : t.lastSent[p] = Sent(s, p)
  /\ \A v \in Workers : v # t.worker => t.inbox[v] = s.inbox[v]
  /\ \A i \in DOMAIN t.inbox[t.worker] : t.inbox[t.worker][i].type = "open"
  /\ \A p \in Paths, n \in Nat : \A h \in [Nat -> Optional(Docs)] :
       n = Len(t.inbox[t.worker]) /\ History(t.inbox[t.worker], p, None, n, h) => h[n] = DocOf(s, p)

\* createWorker leaves a worker that is told of every model, and of nothing else.
LEMMA CreateFields ==
  ASSUME NEW s \in Session, s.born < MaxWorkers, s.inbox[s.born + 1] = <<>>,
         NEW t, t = createWorker(s)
  PROVE  Created(s, t)
<1> DEFINE w == s.born + 1
           R == {p \in Paths : s.registered[p] # None}
           s0 == [s EXCEPT !.born = w, !.worker = w]
           Base(u) == /\ u \in Session /\ SameEditor(s, u) /\ SamePromises(s, u)
                      /\ u.worker = w /\ u.born = w
                      /\ u.registered = s.registered /\ u.timer = s.timer /\ u.fingerprint = s.fingerprint
                      /\ u.markers = s.markers /\ u.pending = s.pending /\ u.nextRequestId = s.nextRequestId
                      /\ \A v \in Workers : v # w => u.inbox[v] = s.inbox[v]
           S == {u \in Session : Base(u)}
           F == [y \in R \X S |-> syncModelToWorker(y[2], w, y[1])]
           Opened(T, u) ==
             /\ \A p \in Paths : u.lastSent[p] = IF p \in T THEN s.version[s.registered[p]] ELSE s.lastSent[p]
             /\ \A i \in DOMAIN u.inbox[w] : u.inbox[w][i].type = "open"
             /\ \A p \in Paths, n \in Nat : \A h \in [Nat -> Optional(Docs)] :
                  n = Len(u.inbox[w]) /\ History(u.inbox[w], p, None, n, h)
                    => h[n] = IF p \in T THEN Doc(s, s.registered[p]) ELSE None
           Q == {y \in (SUBSET R) \X S : Opened(y[1], y[2])}
<1>1. w \in Workers /\ w \in 0 .. MaxWorkers /\ IsFiniteSet(R)
  <2>1. w \in Workers /\ w \in 0 .. MaxWorkers
    BY SessionAssumption DEF Session, Workers
  <2>2. R \subseteq Paths
    OBVIOUS
  <2> QED
    BY <2>1, <2>2, SessionAssumption, FS_Subset
<1>2. s0 \in S
  <2>1. s0 \in Session
    BY <1>1, Zenon DEF Session
  <2> QED
    BY <2>1 DEF Session, SameEditor, SamePromises
<1>3. ASSUME NEW u \in S, NEW p \in R, NEW v, v = syncModelToWorker(u, w, p)
      PROVE  /\ v \in S
             /\ v.lastSent = [u.lastSent EXCEPT ![p] = s.version[s.registered[p]]]
             /\ v.inbox = [u.inbox EXCEPT ![w] = Append(@, [type |-> "open", path |-> p, doc |-> Doc(s, s.registered[p])])]
  <2>1. u \in Session /\ p \in Paths /\ u.registered[p] # None /\ u.registered = s.registered
    OBVIOUS
  <2>2. Doc(u, u.registered[p]) = Doc(s, s.registered[p]) /\ Doc(s, s.registered[p]).version = s.version[s.registered[p]]
    BY DEF Doc, SameEditor
  <2> DEFINE d == Doc(u, u.registered[p])
  <2>3. /\ v \in Session
        /\ v.inbox = [u.inbox EXCEPT ![w] = Append(@, [type |-> "open", path |-> p, doc |-> d])]
        /\ v.lastSent = [u.lastSent EXCEPT ![p] = d.version]
        /\ SameEditor(u, v) /\ SameWorker(u, v) /\ SamePromises(u, v)
        /\ v.registered = u.registered /\ v.timer = u.timer /\ v.fingerprint = u.fingerprint
        /\ v.markers = u.markers /\ v.pending = u.pending /\ v.nextRequestId = u.nextRequestId
    <3>1. Synced(u, w, p, v)
      <4> HIDE DEF w
      <4> QED
        BY <1>1, <1>3, <2>1, SyncFields
    <3> HIDE DEF w
    <3> QED
      BY <3>1 DEF Synced
  <2>4. \A x \in Workers : x # w => v.inbox[x] = s.inbox[x]
    <3>1. u.inbox \in [Workers -> Seq(ToWorker)]
      BY <2>1 DEF Session
    <3> HIDE DEF w, d
    <3> QED
      BY <3>1, <2>3
  <2>5. Base(u)
    OBVIOUS
  <2>6. Base(v)
    <3> HIDE DEF d, w
    <3> QED
      BY <2>3, <2>4, <2>5 DEF SameEditor, SamePromises, SameWorker
  <2> HIDE DEF Base
  <2> QED
    BY <2>2, <2>3, <2>6
<1>4. F \in [R \X S -> S] /\ \A p \in R, u \in S : F[<<p, u>>] = syncModelToWorker(u, w, p)
  BY <1>3
<1>5. <<{}, s0>> \in Q
  <2>1. s0.lastSent = s.lastSent /\ s0.inbox = s.inbox
    BY DEF Session
  <2>2. \A p \in Paths, n \in Nat : \A h \in [Nat -> Optional(Docs)] :
          n = Len(s0.inbox[w]) /\ History(s0.inbox[w], p, None, n, h) => h[n] = None
    BY <2>1 DEF History
  <2>3. Opened({}, s0)
    BY <2>1, <2>2
  <2> HIDE DEF Opened, S, R, s0
  <2> QED
    BY <1>2, <2>3
<1>6. ASSUME NEW T \in SUBSET R, NEW p \in T, NEW u \in S, <<T \ {p}, u>> \in Q
      PROVE  <<T, F[<<p, u>>]>> \in Q
  <2> DEFINE v == syncModelToWorker(u, w, p)
             m == s.registered[p]
             d == Doc(s, m)
             msg == [type |-> "open", path |-> p, doc |-> d]
  <2>1. /\ v \in S /\ F[<<p, u>>] = v
        /\ v.lastSent = [u.lastSent EXCEPT ![p] = s.version[m]]
        /\ v.inbox = [u.inbox EXCEPT ![w] = Append(@, msg)]
    <3>1. p \in R
      BY Zenon
    <3> HIDE DEF F, S, R, w
    <3> QED
      BY <3>1, <1>3, <1>4, SMTT(60)
  <2>2. Opened(T \ {p}, u)
    <3> HIDE DEF Opened, S, R
    <3> QED
      BY <1>6
  <2>3. u.inbox[w] \in Seq(ToWorker) /\ u.lastSent \in [Paths -> Versions \cup {0}] /\ u.inbox \in [Workers -> Seq(ToWorker)]
    BY <1>1 DEF Session
  <2>4. p \in Paths /\ m \in Models /\ d \in Docs /\ d.version = s.version[m] /\ d # None
    BY RegisteredModel, DocFields, NoneAssumption
  <2> DEFINE q == u.inbox[w]
  <2>5. v.inbox[w] = Append(q, msg)
    BY <1>1, <2>1, <2>3
  <2> HIDE DEF v, F, S, d, m, w
  <2>6. \A x \in Paths : v.lastSent[x] = IF x \in T THEN s.version[s.registered[x]] ELSE s.lastSent[x]
    BY <2>1, <2>2, <2>3, <2>4 DEF m
  <2>7. \A i \in DOMAIN v.inbox[w] : v.inbox[w][i].type = "open"
    <3>1. \A i \in DOMAIN q : q[i].type = "open"
      BY <2>2
    <3> HIDE DEF q
    <3>2. \A i \in DOMAIN Append(q, msg) : (i \in DOMAIN q /\ Append(q, msg)[i] = q[i]) \/ Append(q, msg)[i] = msg
      BY <2>3 DEF q
    <3> QED
      BY <3>1, <3>2, <2>5
  <2>8. ASSUME NEW x \in Paths, NEW n \in Nat, NEW h \in [Nat -> Optional(Docs)],
               n = Len(v.inbox[w]), History(v.inbox[w], x, None, n, h)
        PROVE  h[n] = IF x \in T THEN Doc(s, s.registered[x]) ELSE None
    <3>1. Len(v.inbox[w]) = Len(q) + 1 /\ Len(q) \in Nat
      BY <2>5, <2>3
    <3>2. History(q, x, None, Len(q), h) /\ h[n] = After(msg, x, h[Len(q)])
      <4> HIDE DEF q, msg
      <4>1. q \in Seq(ToWorker) /\ History(Append(q, msg), x, None, n, h) /\ ~(n <= Len(q))
        BY <2>3, <2>5, <2>8, <3>1 DEF q
      <4> QED
        BY <4>1, HistoryAppend
    <3>3. h[Len(q)] = IF x \in T \ {p} THEN Doc(s, s.registered[x]) ELSE None
      BY <2>2, <3>1, <3>2
    <3>4. CASE x = p
      <4>1. h[Len(q)] = None
        BY <3>3, <3>4
      <4>2. After(msg, x, None) = d
        BY <3>4 DEF After
      <4> QED
        BY <3>2, <3>4, <4>1, <4>2 DEF d, m
    <3>5. CASE x # p
      <4>1. After(msg, x, h[Len(q)]) = h[Len(q)]
        BY <3>5 DEF After
      <4> QED
        BY <3>2, <3>3, <3>5, <4>1
    <3> QED
      BY <3>4, <3>5
  <2>9. Opened(T, v)
    <3> HIDE DEF q, msg
    <3> QED
      BY <2>6, <2>7, <2>8
  <2> HIDE DEF Opened, R
  <2> QED
    BY <2>1, <2>9
<1> HIDE DEF S, F, Q, R, s0, w
<1>7. PICK g : IsFold(R, s0, F, g) /\ \A T \in SUBSET R : g[T] \in S /\ <<T, g[T]>> \in Q
  <2>1. Foldable(R, S, s0, F, Q)
    BY <1>1, <1>2, <1>4, <1>5, <1>6 DEF Foldable
  <2> QED
    BY <2>1, FoldOver
<1> DEFINE Loop(f) == [T \in SUBSET R |-> IF T = {} THEN s0
                                         ELSE LET x == CHOOSE y \in T : TRUE IN syncModelToWorker(f[T \ {x}], w, x)]
           f == CHOOSE f : f = Loop(f)
<1>8. t = f[R]
  BY CreateIs, Zenon DEF R, w, s0
<1>9. g = Loop(g)
  <2>1. \A T \in SUBSET R : T # {} =>
          LET x == CHOOSE y \in T : TRUE IN F[<<x, g[T \ {x}]>>] = syncModelToWorker(g[T \ {x}], w, x)
    <3> SUFFICES ASSUME NEW T \in SUBSET R, T # {}
                 PROVE LET x == CHOOSE y \in T : TRUE IN F[<<x, g[T \ {x}]>>] = syncModelToWorker(g[T \ {x}], w, x)
      OBVIOUS
    <3> DEFINE x == CHOOSE y \in T : TRUE
    <3>1. x \in R /\ T \ {x} \in SUBSET R
      BY Zenon
    <3>2. F[<<x, g[T \ {x}]>>] = syncModelToWorker(g[T \ {x}], w, x)
      <4> HIDE DEF x
      <4> QED
        BY <3>1, <1>4, <1>7, Zenon
    <3> QED
      BY <3>2, Zenon
  <2> QED
    BY <2>1, <1>7, Zenon DEF IsFold
<1>10. f = Loop(f)
  BY <1>9, Zenon
<1> HIDE DEF f
<1>11. f[R] = g[R]
  <2>1. f[{}] = g[{}]
    <3>1. {} \in SUBSET R
      OBVIOUS
    <3> QED
      BY <3>1, <1>9, <1>10, Zenon
  <2>2. \A T \in SUBSET R : T # {} =>
          LET x == CHOOSE y \in T : TRUE IN f[T \ {x}] = g[T \ {x}] => f[T] = g[T]
    <3> SUFFICES ASSUME NEW T \in SUBSET R, T # {}
                 PROVE LET x == CHOOSE y \in T : TRUE IN f[T \ {x}] = g[T \ {x}] => f[T] = g[T]
      OBVIOUS
    <3> DEFINE x == CHOOSE y \in T : TRUE
    <3>1. f[T] = syncModelToWorker(f[T \ {x}], w, x)
      BY <1>10, Zenon
    <3>2. g[T] = syncModelToWorker(g[T \ {x}], w, x)
      BY <1>9, Zenon
    <3> QED
      BY <3>1, <3>2, Zenon
  <2> QED
    BY <1>1, <2>1, <2>2, FoldsAgree, Zenon
<1>12. t \in S /\ Opened(R, t)
  <2>1. R \in SUBSET R
    OBVIOUS
  <2>2. <<R, g[R]>> \in Q /\ g[R] \in S
    BY <2>1, <1>7, Zenon
  <2> HIDE DEF Opened
  <2> QED
    BY <2>2, <1>8, <1>11 DEF Q
<1> QED
  BY <1>1, <1>12 DEF S, R, w, Sent, DocOf, Created

(***************************************************************************)
(* Posting keeps the queues in order                                       *)
(***************************************************************************)
\* The inboxes are as they were, but for msg, sent to the present worker.
Queued(s, t, msg) ==
  \A w \in Workers : \A i \in DOMAIN t.inbox[w] :
    \/ i \in DOMAIN s.inbox[w] /\ t.inbox[w][i] = s.inbox[w][i]
    \/ w = s.worker /\ t.inbox[w][i] = msg

\* Pending ids stay, go, or one of them is the next request id.
PendingMoves(s, t) ==
  /\ t.nextRequestId >= s.nextRequestId
  /\ \A k \in Tracked, p \in Paths :
       \/ t.pending[k][p] \in {s.pending[k][p], 0}
       \/ t.pending[k][p] = s.nextRequestId /\ s.nextRequestId < t.nextRequestId
  /\ \A k, j \in Tracked, p, q \in Paths :
       t.pending[k][p] = s.nextRequestId /\ t.pending[j][q] = s.nextRequestId => j = k /\ q = p

\* A message that is posted is the only one that is new.
LEMMA AppendQueued ==
  ASSUME NEW s \in Session, NEW t, NEW w \in Workers, NEW msg,
         t.inbox = [s.inbox EXCEPT ![w] = Append(@, msg)], w = s.worker
  PROVE  Queued(s, t, msg)
<1>1. s.inbox \in [Workers -> Seq(ToWorker)]
  BY DEF Session
<1> SUFFICES ASSUME NEW v \in Workers, NEW i \in DOMAIN t.inbox[v]
             PROVE \/ i \in DOMAIN s.inbox[v] /\ t.inbox[v][i] = s.inbox[v][i]
                   \/ v = s.worker /\ t.inbox[v][i] = msg
  BY DEF Queued
<1>2. CASE v # w
  BY <1>1, <1>2
<1>3. CASE v = w
  <2> DEFINE q == s.inbox[w]
  <2>1. t.inbox[v] = Append(q, msg) /\ q \in Seq(ToWorker)
    BY <1>1, <1>3
  <2> HIDE DEF q
  <2>2. (i \in DOMAIN q /\ Append(q, msg)[i] = q[i]) \/ Append(q, msg)[i] = msg
    BY <2>1
  <2> QED
    BY <2>1, <2>2, <1>3 DEF q
<1> QED
  BY <1>2, <1>3

\* s.pending is a function of kinds and paths, with its ids below the next one.
LEMMA PendingStays ==
  ASSUME NEW s \in Session, NEW t, NEW out, IdsOK(s, out),
         t.pending = s.pending, t.nextRequestId = s.nextRequestId
  PROVE  PendingMoves(s, t)
<1>1. \A k \in Tracked, p \in Paths : s.pending[k][p] < s.nextRequestId
  BY DEF IdsOK
<1>2. s.nextRequestId \in Nat /\ \A k \in Tracked, p \in Paths : s.pending[k][p] \in Nat
  BY DEF Session
<1> QED
  BY <1>1, <1>2 DEF PendingMoves

\* A request that is no longer pending is a move of pending ...
LEMMA PendingGoes ==
  ASSUME NEW s \in Session, NEW t \in Session, NEW out, IdsOK(s, out), NEW k \in Tracked, NEW p \in Paths,
         PendingBecomes(s.pending, t.pending, k, p, 0), t.nextRequestId = s.nextRequestId
  PROVE  PendingMoves(s, t)
<1>1. \A j \in Tracked, q \in Paths : s.pending[j][q] < s.nextRequestId
  BY DEF IdsOK
<1>2. s.nextRequestId \in Nat \ {0} /\ \A j \in Tracked, q \in Paths : s.pending[j][q] \in Nat
  BY DEF Session
<1> QED
  BY <1>1, <1>2 DEF PendingMoves, PendingBecomes

\* ... and so is one that gets the next id.
LEMMA PendingComes ==
  ASSUME NEW s \in Session, NEW t \in Session, NEW out, IdsOK(s, out), NEW k \in Tracked, NEW p \in Paths,
         PendingBecomes(s.pending, t.pending, k, p, s.nextRequestId), t.nextRequestId = s.nextRequestId + 1
  PROVE  PendingMoves(s, t)
<1>1. \A j \in Tracked, q \in Paths : s.pending[j][q] < s.nextRequestId
  BY DEF IdsOK
<1>2. s.nextRequestId \in Nat \ {0} /\ \A j \in Tracked, q \in Paths : s.pending[j][q] \in Nat
  BY DEF Session
<1> QED
  BY <1>1, <1>2 DEF PendingMoves, PendingBecomes

\* Ids stay in order if what is posted is in order.
LEMMA QueuesKept ==
  ASSUME NEW s \in Session, NEW t \in Session, NEW out, NEW msg, EnvOK(out),
         IdsOK(s, out), CancelsOK(s), Queued(s, t, msg), PendingMoves(s, t),
         msg.type \in {"request", "cancel"} => msg.id < t.nextRequestId,
         msg.type = "cancel" => \A k \in Tracked, p \in Paths : t.pending[k][p] # msg.id,
         \A p \in Paths : t.fingerprint[p] \in {None, s.fingerprint[p]}
  PROVE  IdsOK(t, out) /\ CancelsOK(t)
<1>1. /\ s.nextRequestId \in Nat \ {0} /\ t.nextRequestId \in Nat \ {0} /\ t.nextRequestId >= s.nextRequestId
      /\ \A k \in Tracked, p \in Paths : s.pending[k][p] \in Nat /\ t.pending[k][p] \in Nat
  BY DEF Session, PendingMoves
<1>2. \A k \in Tracked, p \in Paths : s.fingerprint[p] # None => s.fingerprint[p].pending[k] \in Nat
  BY DEF Session, Optional, Fingerprints
<1>3. \A w \in Workers : s.inbox[w] \in Seq(ToWorker) /\ out[w] \in Seq(ToMain) /\ flags[w] \subseteq Nat
  BY DEF Session, EnvOK
<1>4. \A w \in Workers : \A i \in DOMAIN s.inbox[w] :
        s.inbox[w][i].type \in {"request", "cancel"} => s.inbox[w][i].id \in Nat
  <2> SUFFICES ASSUME NEW w \in Workers, NEW i \in DOMAIN s.inbox[w]
               PROVE s.inbox[w][i].type \in {"request", "cancel"} => s.inbox[w][i].id \in Nat
    OBVIOUS
  <2>1. s.inbox[w][i] \in ToWorker
    BY <1>3
  <2> QED
    BY <2>1 DEF ToWorker
<1>5. \A w \in Workers : \A i \in DOMAIN out[w] : out[w][i].type = "answer" => out[w][i].id \in Nat
  <2> SUFFICES ASSUME NEW w \in Workers, NEW i \in DOMAIN out[w]
               PROVE out[w][i].type = "answer" => out[w][i].id \in Nat
    OBVIOUS
  <2>1. out[w][i] \in ToMain
    BY <1>3
  <2> QED
    BY <2>1 DEF ToMain
<1>6. ASSUME NEW k \in Tracked, NEW p \in Paths
      PROVE  /\ t.pending[k][p] < t.nextRequestId
             /\ \A j \in Tracked, q \in Paths :
                  t.pending[k][p] # 0 /\ t.pending[j][q] = t.pending[k][p] => j = k /\ q = p
             /\ t.fingerprint[p] # None => t.fingerprint[p].pending[k] < t.nextRequestId
  <2>1. t.pending[k][p] < t.nextRequestId
    BY <1>1 DEF IdsOK, PendingMoves
  <2>2. ASSUME NEW j \in Tracked, NEW q \in Paths, t.pending[k][p] # 0, t.pending[j][q] = t.pending[k][p]
        PROVE  j = k /\ q = p
    <3>1. s.pending[k][p] < s.nextRequestId /\ s.pending[j][q] < s.nextRequestId
      BY DEF IdsOK
    <3>2. CASE t.pending[k][p] = s.nextRequestId
      BY <2>2, <3>2 DEF PendingMoves
    <3>3. CASE t.pending[k][p] # s.nextRequestId
      <4>1. t.pending[k][p] = s.pending[k][p] /\ t.pending[j][q] = s.pending[j][q]
        BY <2>2, <3>3 DEF PendingMoves
      <4> QED
        BY <2>2, <4>1 DEF IdsOK
    <3> QED
      BY <3>2, <3>3
  <2>3. t.fingerprint[p] # None => t.fingerprint[p].pending[k] < t.nextRequestId
    <3>1. t.fingerprint[p] # None => t.fingerprint[p] = s.fingerprint[p] /\ s.fingerprint[p].pending[k] < s.nextRequestId
      BY DEF IdsOK
    <3> QED
      BY <3>1, <1>1, <1>2
  <2> QED
    BY <2>1, <2>2, <2>3
<1>7. ASSUME NEW w \in Workers
      PROVE  /\ \A i \in DOMAIN t.inbox[w] : t.inbox[w][i].type \in {"request", "cancel"} =>
                  t.inbox[w][i].id < t.nextRequestId
             /\ \A i \in DOMAIN out[w] : out[w][i].type = "answer" => out[w][i].id < t.nextRequestId
             /\ \A id \in flags[w] : id < t.nextRequestId
  <2>1. \A i \in DOMAIN out[w] : out[w][i].type = "answer" => out[w][i].id < s.nextRequestId
    BY DEF IdsOK
  <2>2. \A i \in DOMAIN s.inbox[w] : s.inbox[w][i].type \in {"request", "cancel"} =>
          s.inbox[w][i].id < s.nextRequestId
    BY DEF IdsOK
  <2>3. \A id \in flags[w] : id < s.nextRequestId
    BY DEF IdsOK
  <2>4. \A i \in DOMAIN out[w] : out[w][i].type = "answer" => out[w][i].id < t.nextRequestId
    BY <1>1, <1>5, <2>1
  <2>5. \A id \in flags[w] : id < t.nextRequestId
    BY <1>1, <1>3, <2>3
  <2>6. ASSUME NEW i \in DOMAIN t.inbox[w], t.inbox[w][i].type \in {"request", "cancel"}
        PROVE t.inbox[w][i].id < t.nextRequestId
    <3>1. CASE t.inbox[w][i] = msg
      BY <2>6, <3>1
    <3>2. CASE i \in DOMAIN s.inbox[w] /\ t.inbox[w][i] = s.inbox[w][i]
      <4>1. s.inbox[w][i].id \in Nat /\ s.inbox[w][i].id < s.nextRequestId
        BY <2>2, <2>6, <3>2, <1>4
      <4> QED
        BY <4>1, <3>2, <1>1
    <3> QED
      BY <3>1, <3>2 DEF Queued
  <2> QED
    BY <2>4, <2>5, <2>6
<1>8. IdsOK(t, out)
  BY <1>6, <1>7 DEF IdsOK
<1>9. ASSUME NEW k \in Tracked, NEW p \in Paths, NEW w \in Workers, t.pending[k][p] # 0
      PROVE  /\ t.pending[k][p] \notin flags[w]
             /\ \A i \in DOMAIN t.inbox[w] :
                  t.inbox[w][i].type = "cancel" => t.inbox[w][i].id # t.pending[k][p]
  <2>1. \/ t.pending[k][p] = s.pending[k][p]
        \/ t.pending[k][p] = s.nextRequestId
    BY <1>9 DEF PendingMoves
  <2>2. t.pending[k][p] \notin flags[w]
    <3>1. \A id \in flags[w] : id \in Nat /\ id < s.nextRequestId
      BY <1>3 DEF IdsOK
    <3>2. CASE t.pending[k][p] = s.pending[k][p]
      BY <1>9, <3>2 DEF CancelsOK
    <3>3. CASE t.pending[k][p] = s.nextRequestId
      BY <3>1, <3>3, <1>1
    <3> QED
      BY <2>1, <3>2, <3>3
  <2>3. ASSUME NEW i \in DOMAIN t.inbox[w], t.inbox[w][i].type = "cancel"
        PROVE  t.inbox[w][i].id # t.pending[k][p]
    <3>1. CASE t.inbox[w][i] = msg
      BY <2>3, <3>1
    <3>2. CASE i \in DOMAIN s.inbox[w] /\ t.inbox[w][i] = s.inbox[w][i]
      <4>1. s.inbox[w][i].id \in Nat /\ s.inbox[w][i].id < s.nextRequestId
        BY <2>3, <3>2, <1>4 DEF IdsOK
      <4>2. CASE t.pending[k][p] = s.pending[k][p]
        BY <1>9, <2>3, <3>2, <4>2 DEF CancelsOK
      <4>3. CASE t.pending[k][p] = s.nextRequestId
        BY <3>2, <4>1, <4>3, <1>1
      <4> QED
        BY <2>1, <4>2, <4>3
    <3> QED
      BY <3>1, <3>2 DEF Queued
  <2> QED
    BY <2>2, <2>3
<1> QED
  BY <1>8, <1>9 DEF CancelsOK

\* Only the present worker's inbox grows.
LEMMA WorkersKept ==
  ASSUME NEW s \in Session, NEW t \in Session, NEW out, NEW msg,
         WorkersOK(s, out), SameWorker(s, t), Queued(s, t, msg)
  PROVE  WorkersOK(t, out)
<1>1. s.born \in Workers /\ s.worker \in 0 .. MaxWorkers /\ s.inbox \in [Workers -> Seq(ToWorker)]
      /\ t.inbox \in [Workers -> Seq(ToWorker)]
  BY DEF Session
<1>2. ASSUME NEW w \in Workers, w > s.born
      PROVE  t.inbox[w] = <<>>
  <2>1. s.inbox[w] = <<>> /\ w # s.worker
    BY <1>1, <1>2, SessionAssumption DEF WorkersOK, Workers
  <2>2. DOMAIN t.inbox[w] = {}
    BY <2>1 DEF Queued
  <2>3. t.inbox[w] \in Seq(ToWorker)
    BY <1>1
  <2> DEFINE q == t.inbox[w]
  <2> HIDE DEF q
  <2>4. q \in Seq(ToWorker) /\ DOMAIN q = {}
    BY <2>2, <2>3 DEF q
  <2>5. q = <<>>
    BY <2>4, EmptySeq
  <2> QED
    BY <2>5 DEF q
<1> QED
  BY <1>2 DEF WorkersOK, SameWorker

(***************************************************************************)
(* What a step of the main thread keeps                                    *)
(***************************************************************************)
\* A path keeps its model, or loses it, or has nothing under way.
KeepsModels(s, t) ==
  \A p \in Paths : \/ t.registered[p] \in {s.registered[p], None}
                   \/ \A k \in Tracked : t.pending[k][p] = 0

\* No resync comes to be taken for a repeat.
KeepsResyncs(s, t) ==
  \A k \in Tracked, p \in Paths : t.pending[k][p] # 0 /\ Repeats(t, k, p) => Repeats(s, k, p)

VersionsGrow(s, t) == \A m \in Models : t.version[m] >= s.version[m]

Posts(s, t, msg) ==
  /\ s.worker \in Workers /\ msg \in ToWorker
  /\ t.inbox = [s.inbox EXCEPT ![s.worker] = Append(@, msg)]

\* Versions count from 1.
LEMMA VersionNat ==
  ASSUME NEW s \in Session, NEW m \in Models
  PROVE  s.version[m] \in Nat \ {0}
<1>1. s.version[m] \in 1 .. MaxEdits + 1
  BY DocFields DEF Versions
<1> QED
  BY <1>1, SessionAssumption

\* A message with an id of the past that is of a pending request was so before.
LEMMA OldRequest ==
  ASSUME NEW s \in Session, NEW t \in Session, NEW k \in Tracked, NEW p \in Paths, NEW msg,
         PendingMoves(s, t), msg.id \in Nat, msg.id < s.nextRequestId, msg.id = t.pending[k][p], msg.id # 0
  PROVE  s.pending[k][p] = t.pending[k][p]
<1>1. s.nextRequestId \in Nat
  BY DEF Session
<1> QED
  BY <1>1 DEF PendingMoves

\* RepliesOK survives a step of the main thread that moves pending, closes paths and
\* lets versions grow.
LEMMA RepliesKept ==
  ASSUME NEW s \in Session, NEW t \in Session, NEW out, EnvOK(out), IdsOK(s, out), RepliesOK(s, out),
         PendingMoves(s, t), KeepsModels(s, t), VersionsGrow(s, t)
  PROVE  RepliesOK(t, out)
<1> SUFFICES ASSUME NEW w \in Workers, NEW k \in Tracked, NEW p \in Paths, NEW i \in DOMAIN out[w],
                    IsAnswer(t, k, p, out[w][i]), t.registered[p] # None
             PROVE /\ out[w][i].version <= t.version[t.registered[p]]
                   /\ out[w][i].result # None =>
                        out[w][i].result = [model |-> t.registered[p], version |-> out[w][i].version]
  BY DEF RepliesOK
<1> DEFINE msg == out[w][i]
<1>1. msg \in ToMain
  BY DEF EnvOK
<1>2. msg.type = "answer" /\ msg.id \in Nat /\ msg.version \in Nat
  BY <1>1, SessionAssumption DEF ToMain, IsAnswer, Versions
<1>3. msg.id < s.nextRequestId
  BY <1>2 DEF IdsOK
<1>4. msg.id = t.pending[k][p] /\ msg.id # 0
  BY DEF IsAnswer
<1> HIDE DEF msg
<1>5. s.pending[k][p] = t.pending[k][p]
  BY <1>2, <1>3, <1>4, OldRequest
<1>6. IsAnswer(s, k, p, msg)
  BY <1>5 DEF IsAnswer, msg
<1>7. t.registered[p] = s.registered[p]
  BY <1>4 DEF KeepsModels
<1>8. /\ msg.version <= s.version[s.registered[p]]
      /\ msg.result # None => msg.result = [model |-> s.registered[p], version |-> msg.version]
  BY <1>6, <1>7 DEF RepliesOK, msg
<1>9. s.registered[p] \in Models
  BY <1>7, RegisteredModel
<1>10. s.version[s.registered[p]] \in Nat /\ t.version[s.registered[p]] \in Nat /\ t.version[s.registered[p]] >= s.version[s.registered[p]]
  BY <1>9, VersionNat DEF VersionsGrow
<1> QED
  BY <1>2, <1>7, <1>8, <1>10 DEF msg

\* An old message is of a pending request only if it was so.
LEMMA OldMessage ==
  ASSUME NEW s \in Session, NEW t \in Session, NEW out, IdsOK(s, out), PendingMoves(s, t), KeepsModels(s, t),
         NEW w \in Workers, NEW i \in DOMAIN s.inbox[w], NEW k \in Tracked, NEW p \in Paths,
         IsRequest(t, k, p, s.inbox[w][i]), t.registered[p] # None
  PROVE  IsRequest(s, k, p, s.inbox[w][i]) /\ t.registered[p] = s.registered[p]
<1> DEFINE msg == s.inbox[w][i]
<1>1. msg \in ToWorker
  BY DEF Session
<1>2. msg.type = "request" /\ msg.id \in Nat
  BY <1>1 DEF ToWorker, IsRequest
<1>3. msg.id < s.nextRequestId
  BY <1>2 DEF IdsOK
<1>4. msg.id = t.pending[k][p] /\ msg.id # 0
  BY DEF IsRequest
<1> HIDE DEF msg
<1>5. s.pending[k][p] = t.pending[k][p]
  BY <1>2, <1>3, <1>4, OldRequest
<1> QED
  BY <1>4, <1>5 DEF IsRequest, KeepsModels, msg

\* So does RequestsOK, if the message that is posted asks for a version there has been.
LEMMA RequestsKept ==
  ASSUME NEW s \in Session, NEW t \in Session, NEW out, NEW msg, IdsOK(s, out), RequestsOK(s),
         PendingMoves(s, t), KeepsModels(s, t), VersionsGrow(s, t), Queued(s, t, msg),
         \A k \in Tracked, p \in Paths : IsRequest(t, k, p, msg) /\ t.registered[p] # None
           => msg.version <= t.version[t.registered[p]]
  PROVE  RequestsOK(t)
<1> SUFFICES ASSUME NEW w \in Workers, NEW k \in Tracked, NEW p \in Paths, NEW i \in DOMAIN t.inbox[w],
                    IsRequest(t, k, p, t.inbox[w][i]), t.registered[p] # None
             PROVE  t.inbox[w][i].version <= t.version[t.registered[p]]
  BY DEF RequestsOK
<1>1. CASE t.inbox[w][i] = msg
  BY <1>1
<1>2. CASE i \in DOMAIN s.inbox[w] /\ t.inbox[w][i] = s.inbox[w][i]
  <2>1. IsRequest(s, k, p, s.inbox[w][i]) /\ t.registered[p] = s.registered[p]
    BY <1>2, OldMessage
  <2>2. s.inbox[w][i].version <= s.version[s.registered[p]]
    BY <1>2, <2>1 DEF RequestsOK
  <2>3. s.inbox[w][i] \in ToWorker /\ s.inbox[w][i].type = "request"
    BY <1>2, <2>1 DEF Session, IsRequest
  <2>4. s.inbox[w][i].version \in Nat
    BY <2>3, SessionAssumption DEF ToWorker, Versions
  <2>5. s.registered[p] \in Models
    BY <2>1, RegisteredModel
  <2>6. s.version[s.registered[p]] \in Nat /\ t.version[s.registered[p]] \in Nat /\ t.version[s.registered[p]] >= s.version[s.registered[p]]
    BY <2>5, VersionNat DEF VersionsGrow
  <2> QED
    BY <1>2, <2>1, <2>2, <2>4, <2>6
<1> QED
  BY <1>1, <1>2 DEF Queued

\* So does what the worker finds when it comes to a request that was sent before.
LEMMA ServedKept ==
  ASSUME NEW s \in Session, NEW t \in Session, NEW out, IdsOK(s, out), PendingMoves(s, t), KeepsModels(s, t),
         KeepsResyncs(s, t),
         NEW w \in Workers, NEW i \in DOMAIN s.inbox[w], NEW k \in Tracked, NEW p \in Paths, NEW d,
         Served(s, k, p, s.inbox[w][i], d)
  PROVE  Served(t, k, p, s.inbox[w][i], d)
<1> DEFINE msg == s.inbox[w][i]
<1> SUFFICES ASSUME IsRequest(t, k, p, msg), t.registered[p] # None
             PROVE  /\ d # None => d.model = t.registered[p]
                    /\ Repeats(t, k, p) => d # None /\ d.version = msg.version
  BY DEF Served
<1>1. IsRequest(s, k, p, msg) /\ t.registered[p] = s.registered[p]
  BY OldMessage
<1>2. /\ d # None => d.model = s.registered[p]
      /\ Repeats(s, k, p) => d # None /\ d.version = msg.version
  BY <1>1 DEF Served
<1>3. t.pending[k][p] # 0
  BY DEF IsRequest
<1> QED
  BY <1>1, <1>2, <1>3 DEF KeepsResyncs

\* The mirror, when nothing is posted ...
LEMMA MirrorRests ==
  ASSUME NEW s \in Session, NEW t \in Session, NEW out, IdsOK(s, out), MirrorOK(s),
         PendingMoves(s, t), KeepsModels(s, t), KeepsResyncs(s, t), SameWorker(s, t), t.inbox = s.inbox,
         \A p \in Paths : Belief(t, p) = Belief(s, p)
  PROVE  MirrorOK(t)
<1> SUFFICES ASSUME t.worker # 0, NEW p \in Paths, NEW n \in Nat, NEW h \in [Nat -> Optional(Docs)],
                    History(t.inbox[t.worker], p, mirror[t.worker][p], n, h)
             PROVE /\ n = Len(t.inbox[t.worker]) => h[n] = Belief(t, p)
                   /\ \A k \in Tracked : n < Len(t.inbox[t.worker]) =>
                        Served(t, k, p, t.inbox[t.worker][n + 1], h[n])
  BY Zenon DEF MirrorOK
<1>1. t.worker = s.worker /\ s.worker \in Workers
  BY DEF SameWorker, Session, Workers
<1>2. /\ n = Len(s.inbox[s.worker]) => h[n] = Belief(s, p)
      /\ \A k \in Tracked : n < Len(s.inbox[s.worker]) =>
           Served(s, k, p, s.inbox[s.worker][n + 1], h[n])
  BY <1>1, Zenon DEF MirrorOK
<1>3. ASSUME NEW k \in Tracked, n < Len(s.inbox[s.worker])
      PROVE  Served(t, k, p, s.inbox[s.worker][n + 1], h[n])
  <2>1. s.inbox[s.worker] \in Seq(ToWorker)
    BY <1>1 DEF Session
  <2>2. n + 1 \in DOMAIN s.inbox[s.worker]
    BY <2>1, <1>3
  <2>3. Served(s, k, p, s.inbox[s.worker][n + 1], h[n])
    BY <1>2, <1>3
  <2> QED
    BY <1>1, <2>2, <2>3, ServedKept
<1> QED
  BY <1>1, <1>2, <1>3

\* ... and when msg is.
LEMMA MirrorPosts ==
  ASSUME NEW s \in Session, NEW t \in Session, NEW out, NEW msg, IdsOK(s, out), MirrorOK(s),
         PendingMoves(s, t), KeepsModels(s, t), KeepsResyncs(s, t), SameWorker(s, t), Posts(s, t, msg),
         \A p \in Paths : Belief(t, p) = After(msg, p, Belief(s, p)),
         \A k \in Tracked, p \in Paths : Served(t, k, p, msg, Belief(s, p))
  PROVE  MirrorOK(t)
<1> DEFINE q == s.inbox[s.worker]
<1>1. t.worker = s.worker /\ s.worker \in Workers /\ q \in Seq(ToWorker) /\ t.inbox[s.worker] = Append(q, msg)
      /\ msg \in ToWorker
  BY DEF SameWorker, Session, Posts
<1>2. /\ Len(q) \in Nat /\ Len(Append(q, msg)) = Len(q) + 1
      /\ \A i \in 1 .. Len(q) : Append(q, msg)[i] = q[i] /\ i \in DOMAIN q
      /\ Append(q, msg)[Len(q) + 1] = msg
  <2> HIDE DEF q
  <2> QED
    BY <1>1
<1> SUFFICES ASSUME t.worker # 0, NEW p \in Paths, NEW n \in Nat, NEW h \in [Nat -> Optional(Docs)],
                    History(t.inbox[t.worker], p, mirror[t.worker][p], n, h)
             PROVE /\ n = Len(t.inbox[t.worker]) => h[n] = Belief(t, p)
                   /\ \A k \in Tracked : n < Len(t.inbox[t.worker]) =>
                        Served(t, k, p, t.inbox[t.worker][n + 1], h[n])
  BY Zenon DEF MirrorOK
<1>3. \A j \in Nat : History(q, p, mirror[s.worker][p], j, h) =>
        /\ j = Len(q) => h[j] = Belief(s, p)
        /\ \A k \in Tracked : j < Len(q) => Served(s, k, p, q[j + 1], h[j])
  BY <1>1, Zenon DEF MirrorOK
<1>4. History(Append(q, msg), p, mirror[s.worker][p], n, h)
  BY <1>1, Zenon
<1> HIDE DEF q
<1>5. CASE n <= Len(q) /\ History(q, p, mirror[s.worker][p], n, h)
  <2>1. ASSUME NEW k \in Tracked
        PROVE  Served(t, k, p, Append(q, msg)[n + 1], h[n])
    <3>1. CASE n < Len(q)
      <4>1. n + 1 \in 1 .. Len(q) /\ Served(s, k, p, q[n + 1], h[n])
        BY <1>2, <1>3, <1>5, <3>1
      <4>2. n + 1 \in DOMAIN q /\ Append(q, msg)[n + 1] = q[n + 1]
        BY <1>2, <4>1
      <4> QED
        BY <1>1, <4>1, <4>2, ServedKept DEF q
    <3>2. CASE n = Len(q)
      BY <1>2, <1>3, <1>5, <3>2
    <3> QED
      BY <1>2, <1>5, <3>1, <3>2
  <2> QED
    BY <1>1, <1>2, <1>5, <2>1
<1>6. CASE /\ n = Len(q) + 1 /\ History(q, p, mirror[s.worker][p], Len(q), h)
           /\ h[n] = After(msg, p, h[Len(q)])
  BY <1>1, <1>2, <1>3, <1>6
<1> QED
  BY <1>1, <1>4, <1>5, <1>6, HistoryAppend

\* A request that stays pending stays under way.
LEMMA UnderWayKept ==
  ASSUME NEW s \in Session, NEW t \in Session, NEW out, NEW k \in Tracked, NEW p \in Paths,
         SameWorker(s, t), KeepsResyncs(s, t), t.pending[k][p] = s.pending[k][p], t.pending[k][p] # 0,
         s.worker # 0 => \A i \in DOMAIN s.inbox[s.worker] :
                           i \in DOMAIN t.inbox[s.worker] /\ t.inbox[s.worker][i] = s.inbox[s.worker][i],
         UnderWay(s, out, k, p)
  PROVE  UnderWay(t, out, k, p)
<1>1. \A msg : IsRequest(t, k, p, msg) <=> IsRequest(s, k, p, msg)
  BY DEF IsRequest
<1>2. \A msg : IsAnswer(t, k, p, msg) <=> IsAnswer(s, k, p, msg)
  BY DEF IsAnswer
<1>3. Repeats(t, k, p) => Repeats(s, k, p)
  BY DEF KeepsResyncs
<1>4. t.worker = s.worker
  BY DEF SameWorker
<1> QED
  BY <1>1, <1>2, <1>3, <1>4 DEF UnderWay

\* Posting a message carries the pending requests over, if the new one is the message.
LEMMA CarriesPosts ==
  ASSUME NEW s \in Session, NEW t \in Session, NEW out, NEW msg,
         SameWorker(s, t), KeepsResyncs(s, t), Posts(s, t, msg),
         \A k \in Kinds, p \in Paths : t.pending[k][p] # 0 /\ t.pending[k][p] # s.pending[k][p]
           => IsRequest(t, k, p, msg)
  PROVE  Carries(s, t, out)
<1> DEFINE q == s.inbox[s.worker]
<1>1. /\ t.worker = s.worker /\ s.worker # 0 /\ q \in Seq(ToWorker)
      /\ t.inbox[s.worker] = Append(q, msg) /\ msg \in ToWorker
  <2>1. s.worker \in Workers /\ s.worker # 0
    BY DEF Posts, Workers
  <2>2. s.inbox \in [Workers -> Seq(ToWorker)]
    BY DEF Session
  <2> QED
    BY <2>1, <2>2 DEF SameWorker, Posts
<1>2. /\ \A i \in DOMAIN q : i \in DOMAIN Append(q, msg) /\ Append(q, msg)[i] = q[i]
      /\ Len(q) + 1 \in DOMAIN Append(q, msg) /\ Append(q, msg)[Len(q) + 1] = msg
  <2> HIDE DEF q
  <2> QED
    BY <1>1
<1> SUFFICES ASSUME NEW k \in Kinds, NEW p \in Paths, t.pending[k][p] # 0,
                    t.pending[k][p] = s.pending[k][p] => UnderWay(s, out, k, p)
             PROVE  UnderWay(t, out, k, p)
  BY DEF Carries
<1>3. CASE t.pending[k][p] = s.pending[k][p]
  BY <1>1, <1>2, <1>3, UnderWayKept DEF Tracked
<1>4. CASE t.pending[k][p] # s.pending[k][p]
  BY <1>1, <1>2, <1>4 DEF UnderWay
<1> QED
  BY <1>3, <1>4

\* Posting nothing carries them over, if none is new.
LEMMA CarriesRests ==
  ASSUME NEW s \in Session, NEW t \in Session, NEW out,
         SameWorker(s, t), KeepsResyncs(s, t), t.inbox = s.inbox,
         \A k \in Kinds, p \in Paths : t.pending[k][p] \in {0, s.pending[k][p]}
  PROVE  Carries(s, t, out)
BY UnderWayKept DEF Carries, Tracked

\* Two steps that carry the requests over make one.
LEMMA CarriesTransitive ==
  ASSUME NEW s, NEW t, NEW u, NEW out, Carries(s, t, out), Carries(t, u, out)
  PROVE  Carries(s, u, out)
BY DEF Carries

\* The types of the worker, of the last one born and of the next id.
LEMMA SessionWorker ==
  ASSUME NEW s \in Session
  PROVE  /\ s.worker \in 0 .. MaxWorkers /\ s.born \in Workers /\ s.nextRequestId \in Nat \ {0}
         /\ s.worker # 0 => s.worker \in Workers
<1>1. s.worker \in 0 .. MaxWorkers /\ s.born \in Workers /\ s.nextRequestId \in Nat \ {0}
  BY DEF Session
<1> QED
  BY <1>1, SessionAssumption DEF Workers

\* TabsOK is about the editor only.
LEMMA TabsKept ==
  ASSUME NEW s, NEW t, TabsOK(s), SameEditor(s, t)
  PROVE  TabsOK(t)
BY DEF TabsOK, SameEditor, IsOpen

\* ResolversOK is about the promises only.
LEMMA ResolversSame ==
  ASSUME NEW s, NEW t, ResolversOK(s), SamePromises(s, t)
  PROVE  ResolversOK(t)
BY DEF ResolversOK, SamePromises

\* A step that posts msg, or nothing, keeps what holds anyway ...
LEMMA SoundPosts ==
  ASSUME NEW s, NEW t \in Session, NEW out, NEW msg, EnvOK(out), Sound(s, out),
         SameEditor(s, t), SameWorker(s, t), ResolversOK(t), Posts(s, t, msg), PendingMoves(s, t),
         msg.type \in {"request", "cancel"} => msg.id < t.nextRequestId,
         msg.type = "cancel" => \A k \in Tracked, p \in Paths : t.pending[k][p] # msg.id,
         \A p \in Paths : t.fingerprint[p] \in {None, s.fingerprint[p]}
  PROVE  Sound(t, out)
<1>1. s \in Session /\ TabsOK(s) /\ WorkersOK(s, out) /\ IdsOK(s, out) /\ CancelsOK(s)
  BY DEF Sound
<1>2. Queued(s, t, msg)
  BY <1>1, AppendQueued DEF Posts
<1>3. IdsOK(t, out) /\ CancelsOK(t)
  BY <1>1, <1>2, QueuesKept
<1>4. WorkersOK(t, out)
  BY <1>1, <1>2, WorkersKept
<1>5. TabsOK(t)
  BY <1>1, TabsKept
<1> QED
  BY <1>3, <1>4, <1>5 DEF Sound

\* A step that posts nothing keeps Sound.
LEMMA SoundRests ==
  ASSUME NEW s, NEW t \in Session, NEW out, EnvOK(out), Sound(s, out),
         TabsOK(t), SameWorker(s, t), ResolversOK(t), t.inbox = s.inbox, PendingMoves(s, t),
         \A p \in Paths : t.fingerprint[p] \in {None, s.fingerprint[p]}
  PROVE  Sound(t, out)
<1>1. s \in Session /\ WorkersOK(s, out) /\ IdsOK(s, out) /\ CancelsOK(s)
  BY DEF Sound
<1> DEFINE msg == [type |-> "close"]
<1>2. Queued(s, t, msg) /\ msg.type = "close"
  BY DEF Queued
<1> HIDE DEF msg
<1>3. IdsOK(t, out) /\ CancelsOK(t)
  BY <1>1, <1>2, QueuesKept
<1>4. WorkersOK(t, out)
  BY <1>1, <1>2, WorkersKept
<1> QED
  BY <1>3, <1>4 DEF Sound

\* ... and, if it keeps to the models, what depends on them.
LEMMA FaithfulPosts ==
  ASSUME NEW s, NEW t \in Session, NEW out, NEW msg, EnvOK(out), Sound(s, out), Faithful(s, out),
         SameWorker(s, t), Posts(s, t, msg), PendingMoves(s, t),
         KeepsModels(s, t), KeepsResyncs(s, t), VersionsGrow(s, t), VersionsOK(t),
         \A k \in Tracked, p \in Paths : IsRequest(t, k, p, msg) /\ t.registered[p] # None
           => msg.version <= t.version[t.registered[p]],
         \A p \in Paths : Belief(t, p) = After(msg, p, Belief(s, p)),
         \A k \in Tracked, p \in Paths : Served(t, k, p, msg, Belief(s, p))
  PROVE  Faithful(t, out)
<1>1. s \in Session /\ IdsOK(s, out) /\ RequestsOK(s) /\ RepliesOK(s, out) /\ MirrorOK(s)
  BY DEF Sound, Faithful
<1>2. Queued(s, t, msg)
  BY <1>1, AppendQueued DEF Posts
<1>3. RequestsOK(t)
  BY <1>1, <1>2, RequestsKept
<1>4. RepliesOK(t, out)
  BY <1>1, RepliesKept
<1>5. MirrorOK(t)
  BY <1>1, MirrorPosts
<1> QED
  BY <1>3, <1>4, <1>5 DEF Faithful

\* A step that posts nothing keeps Faithful, if the main thread believes of the mirror
\* what it believed.
LEMMA FaithfulRests ==
  ASSUME NEW s, NEW t \in Session, NEW out, EnvOK(out), Sound(s, out), Faithful(s, out),
         SameWorker(s, t), t.inbox = s.inbox, PendingMoves(s, t),
         KeepsModels(s, t), KeepsResyncs(s, t), VersionsGrow(s, t), VersionsOK(t),
         s.worker = 0 \/ \A p \in Paths : Belief(t, p) = Belief(s, p)
  PROVE  Faithful(t, out)
<1>1. s \in Session /\ IdsOK(s, out) /\ RequestsOK(s) /\ RepliesOK(s, out) /\ MirrorOK(s)
  BY DEF Sound, Faithful
<1> DEFINE msg == [type |-> "close"]
<1>2. Queued(s, t, msg) /\ msg.type = "close"
  BY DEF Queued
<1> HIDE DEF msg
<1>3. RequestsOK(t)
  BY <1>1, <1>2, RequestsKept DEF IsRequest
<1>4. RepliesOK(t, out)
  BY <1>1, RepliesKept
<1>5. MirrorOK(t)
  <2>1. CASE s.worker = 0
    BY <2>1 DEF MirrorOK, SameWorker
  <2>2. CASE \A p \in Paths : Belief(t, p) = Belief(s, p)
    BY <1>1, <2>2, MirrorRests
  <2> QED
    BY <2>1, <2>2
<1> QED
  BY <1>3, <1>4, <1>5 DEF Faithful

\* Steps that leave the documents and the versions alone.
LEMMA SameDocsFacts ==
  ASSUME NEW s \in Session, NEW t \in Session, SameEditor(s, t),
         t.registered = s.registered, t.lastSent = s.lastSent
  PROVE  /\ KeepsModels(s, t) /\ VersionsGrow(s, t)
         /\ \A p \in Paths : Belief(t, p) = Belief(s, p)
<1>1. \A m \in Models : s.version[m] \in Nat
  BY VersionNat
<1> QED
  BY <1>1 DEF KeepsModels, VersionsGrow, SameEditor, Belief

\* VersionsOK is about the editor and the documents only.
LEMMA SameDocsVersions ==
  ASSUME NEW s, NEW t, SameEditor(s, t), SameDocs(s, t), VersionsOK(s)
  PROVE  VersionsOK(t)
BY DEF VersionsOK, SameDocs, SameEditor

\* Cancelling a request.
LEMMA CancelStep ==
  ASSUME NEW s, NEW out, EnvOK(out), Sound(s, out), s.worker # 0,
         NEW k \in Tracked, NEW p \in Paths, NEW t, t = cancelPendingRequest(s, k, p, s.worker)
  PROVE  /\ Sound(t, out) /\ (Faithful(s, out) => Faithful(t, out)) /\ Carries(s, t, out)
         /\ PendingBecomes(s.pending, t.pending, k, p, 0)
         /\ SameEditor(s, t) /\ SameWorker(s, t) /\ SamePromises(s, t) /\ SameDocs(s, t)
         /\ t.markers = s.markers /\ t.nextRequestId = s.nextRequestId
<1> DEFINE id == s.pending[k][p]
           msg == [type |-> "cancel", id |-> id]
<1>1. s \in Session /\ s.worker \in Workers
  BY SessionWorker DEF Sound
<1>2. /\ t \in Session
      /\ id = 0 => t = s
      /\ id # 0 => t.inbox = [s.inbox EXCEPT ![s.worker] = Append(@, msg)]
      /\ PendingBecomes(s.pending, t.pending, k, p, 0)
      /\ SameEditor(s, t) /\ SameWorker(s, t) /\ SamePromises(s, t) /\ SameDocs(s, t)
      /\ t.markers = s.markers /\ t.nextRequestId = s.nextRequestId
  BY <1>1, CancelFields
<1>3. CASE id = 0
  BY <1>2, <1>3 DEF Carries
<1>4. CASE id # 0
  <2>1. PendingMoves(s, t)
    BY <1>1, <1>2, PendingGoes DEF Sound
  <2>2. id \in Nat /\ msg \in ToWorker
    BY <1>1, <1>4 DEF Session, ToWorker
  <2>3. Posts(s, t, msg)
    BY <1>1, <1>2, <1>4, <2>2 DEF Posts
  <2>4. id < t.nextRequestId
    BY <1>2 DEF Sound, IdsOK
  <2>5. \A j \in Tracked, q \in Paths : t.pending[j][q] # id
    BY <1>2, <1>4 DEF Sound, IdsOK, PendingBecomes
  <2>6. ResolversOK(t) /\ \A q \in Paths : t.fingerprint[q] \in {None, s.fingerprint[q]}
    BY <1>2, ResolversSame DEF Sound, SameDocs
  <2>7. KeepsResyncs(s, t)
    BY <1>2 DEF KeepsResyncs, Repeats, SameDocs, SameEditor, PendingBecomes
  <2>8. msg.type = "cancel" /\ msg.id = id
    OBVIOUS
  <2> HIDE DEF msg, id
  <2>9. Sound(t, out)
    BY <1>2, <2>1, <2>3, <2>4, <2>5, <2>6, <2>8, SoundPosts
  <2>10. ASSUME Faithful(s, out) PROVE Faithful(t, out)
    <3>1. VersionsOK(t)
      BY <1>2, <2>10, SameDocsVersions DEF Faithful
    <3>2. /\ KeepsModels(s, t) /\ VersionsGrow(s, t) /\ \A q \in Paths : Belief(t, q) = Belief(s, q)
      BY <1>1, <1>2, SameDocsFacts DEF SameDocs
    <3>3. \A q \in Paths : Belief(t, q) = After(msg, q, Belief(s, q))
      BY <2>8, <3>2 DEF After
    <3>4. \A j \in Tracked, q \in Paths : ~IsRequest(t, j, q, msg)
      BY <2>8 DEF IsRequest
    <3>5. \A j \in Tracked, q \in Paths : Served(t, j, q, msg, Belief(s, q))
      BY <3>4 DEF Served
    <3> QED
      BY <1>2, <2>1, <2>3, <2>7, <2>10, <3>1, <3>2, <3>3, <3>4, <3>5, FaithfulPosts
  <2>11. Carries(s, t, out)
    <3>1. \A j \in Kinds, q \in Paths : t.pending[j][q] \in {0, s.pending[j][q]}
      BY <1>2 DEF PendingBecomes, Tracked
    <3> QED
      BY <1>1, <1>2, <2>3, <2>7, <3>1, CarriesPosts
  <2> QED
    BY <1>2, <2>9, <2>10, <2>11
<1> QED
  BY <1>3, <1>4

\* Sending a request under a new id.
LEMMA StartStep ==
  ASSUME NEW s, NEW out, EnvOK(out), Sound(s, out), s.worker # 0,
         NEW k \in Tracked, NEW p \in Paths, NEW v \in Versions, NEW t, t = Started(s, k, p, s.worker, v)
  PROVE  /\ Sound(t, out) /\ Carries(s, t, out)
         /\ Faithful(s, out) /\ (s.registered[p] # None => v <= s.version[s.registered[p]]) => Faithful(t, out)
         /\ PendingBecomes(s.pending, t.pending, k, p, s.nextRequestId)
         /\ SameEditor(s, t) /\ SameWorker(s, t) /\ SamePromises(s, t) /\ SameDocs(s, t)
         /\ t.markers = s.markers /\ s.nextRequestId \in Nat \ {0} /\ t.nextRequestId = s.nextRequestId + 1
<1> DEFINE id == s.nextRequestId
           msg == [type |-> "request", kind |-> k, id |-> id, path |-> p, version |-> v]
<1>1. s \in Session /\ s.worker \in Workers /\ id \in Nat \ {0}
  BY SessionWorker DEF Sound
<1>2. /\ t \in Session
      /\ t.inbox = [s.inbox EXCEPT ![s.worker] = Append(@, msg)]
      /\ PendingBecomes(s.pending, t.pending, k, p, id)
      /\ SameEditor(s, t) /\ SameWorker(s, t) /\ SamePromises(s, t) /\ SameDocs(s, t)
      /\ t.markers = s.markers /\ t.nextRequestId = id + 1
  BY <1>1, StartedFields
<1>3. PendingMoves(s, t)
  BY <1>1, <1>2, PendingComes DEF Sound
<1>4. msg \in ToWorker
  BY <1>1 DEF ToWorker
<1>5. Posts(s, t, msg)
  BY <1>1, <1>2, <1>4 DEF Posts
<1>6. ResolversOK(t) /\ \A q \in Paths : t.fingerprint[q] \in {None, s.fingerprint[q]}
  BY <1>2, ResolversSame DEF Sound, SameDocs
<1>7. ~Repeats(t, k, p)
  <2>1. s.fingerprint[p] # None => s.fingerprint[p].pending[k] < id /\ s.fingerprint[p].pending[k] \in Nat
    BY <1>1 DEF Sound, IdsOK, Session, Optional, Fingerprints
  <2> QED
    BY <1>1, <1>2, <2>1 DEF Repeats, SameDocs, PendingBecomes
<1>8. KeepsResyncs(s, t)
  BY <1>2, <1>7 DEF KeepsResyncs, Repeats, SameDocs, SameEditor, PendingBecomes
<1>9. msg.type = "request" /\ msg.id = id /\ msg.kind = k /\ msg.path = p /\ msg.version = v /\ id < id + 1
  BY <1>1
<1> HIDE DEF msg, id
<1>10. Sound(t, out)
  BY <1>2, <1>3, <1>5, <1>6, <1>9, SoundPosts
<1>11. ASSUME Faithful(s, out), s.registered[p] # None => v <= s.version[s.registered[p]]
       PROVE  Faithful(t, out)
  <2>1. VersionsOK(t)
    BY <1>2, <1>11, SameDocsVersions DEF Faithful
  <2>2. /\ KeepsModels(s, t) /\ VersionsGrow(s, t) /\ \A q \in Paths : Belief(t, q) = Belief(s, q)
    BY <1>1, <1>2, SameDocsFacts DEF SameDocs
  <2>3. \A q \in Paths : Belief(t, q) = After(msg, q, Belief(s, q))
    BY <1>9, <2>2 DEF After
  <2>4. \A j \in Tracked, q \in Paths : IsRequest(t, j, q, msg) => j = k /\ q = p
    BY <1>9 DEF IsRequest
  <2>5. \A j \in Tracked, q \in Paths : IsRequest(t, j, q, msg) /\ t.registered[q] # None
          => msg.version <= t.version[t.registered[q]]
    BY <1>2, <1>9, <1>11, <2>4 DEF SameDocs, SameEditor
  <2>6. \A j \in Tracked, q \in Paths : Served(t, j, q, msg, Belief(s, q))
    <3>1. s.registered[p] # None => Belief(s, p).model = s.registered[p]
      BY DEF Belief
    <3> QED
      BY <1>2, <1>7, <2>4, <3>1 DEF Served, SameDocs
  <2> QED
    BY <1>2, <1>3, <1>5, <1>8, <1>11, <2>1, <2>2, <2>3, <2>5, <2>6, FaithfulPosts
<1>12. Carries(s, t, out)
  <2>1. ASSUME NEW j \in Kinds, NEW q \in Paths, t.pending[j][q] # 0, t.pending[j][q] # s.pending[j][q]
        PROVE  IsRequest(t, j, q, msg)
    <3>1. j = k /\ q = p
      BY <1>2, <2>1 DEF PendingBecomes, Tracked
    <3> QED
      BY <1>1, <1>2, <1>9, <3>1 DEF IsRequest, PendingBecomes
  <2> QED
    BY <1>1, <1>2, <1>5, <1>8, <2>1, CarriesPosts
<1> QED
  BY <1>1, <1>2, <1>10, <1>11, <1>12 DEF id

\* Sending a registered document.
LEMMA SyncStep ==
  ASSUME NEW s, NEW out, EnvOK(out), Sound(s, out), s.worker # 0,
         NEW p \in Paths, s.registered[p] # None, NEW t, t = syncModelToWorker(s, s.worker, p)
  PROVE  /\ Sound(t, out) /\ (Faithful(s, out) => Faithful(t, out)) /\ Carries(s, t, out)
         /\ t.lastSent = [s.lastSent EXCEPT ![p] = s.version[s.registered[p]]]
         /\ SameEditor(s, t) /\ SameWorker(s, t) /\ SamePromises(s, t)
         /\ t.registered = s.registered /\ t.timer = s.timer /\ t.fingerprint = s.fingerprint
         /\ t.markers = s.markers /\ t.pending = s.pending /\ t.nextRequestId = s.nextRequestId
<1>0. s \in Session /\ s.worker \in Workers
  BY SessionWorker DEF Sound
<1>a. Synced(s, s.worker, p, t)
  BY <1>0, SyncFields
<1> DEFINE m == s.registered[p]
           d == Doc(s, m)
           msg == [type |-> "open", path |-> p, doc |-> d]
<1>1. s \in Session /\ s.worker \in Workers /\ m \in Models
  BY SessionWorker, RegisteredModel DEF Sound
<1>2. d \in Docs /\ d.model = m /\ d.version = s.version[m] /\ d # None
  BY <1>1, DocFields, NoneAssumption
<1>3. /\ t \in Session
      /\ t.inbox = [s.inbox EXCEPT ![s.worker] = Append(@, msg)]
      /\ t.lastSent = [s.lastSent EXCEPT ![p] = d.version]
      /\ SameEditor(s, t) /\ SameWorker(s, t) /\ SamePromises(s, t)
      /\ t.registered = s.registered /\ t.timer = s.timer /\ t.fingerprint = s.fingerprint
      /\ t.markers = s.markers /\ t.pending = s.pending /\ t.nextRequestId = s.nextRequestId
  BY <1>a DEF Synced
<1>4. msg \in ToWorker
  <2> HIDE DEF d
  <2> QED
    BY <1>2 DEF ToWorker
<1>5. Posts(s, t, msg)
  BY <1>1, <1>3, <1>4 DEF Posts
<1>6. PendingMoves(s, t)
  BY <1>1, <1>3, PendingStays DEF Sound
<1>7. ResolversOK(t)
  BY <1>3, ResolversSame DEF Sound
<1>8. KeepsResyncs(s, t)
  BY <1>3 DEF KeepsResyncs, Repeats, SameEditor
<1>9. msg.type = "open" /\ msg.path = p /\ msg.doc = d
  OBVIOUS
<1>10. s.lastSent \in [Paths -> Versions \cup {0}] /\ t.lastSent[p] = s.version[m]
       /\ \A q \in Paths : q # p => t.lastSent[q] = s.lastSent[q]
  <2>1. s.lastSent \in [Paths -> Versions \cup {0}]
    BY <1>1 DEF Session
  <2> QED
    BY <2>1, <1>2, <1>3
<1> HIDE DEF msg, d
<1>11. Sound(t, out)
  BY <1>3, <1>5, <1>6, <1>7, <1>9, SoundPosts
<1>12. Carries(s, t, out)
  BY <1>1, <1>3, <1>5, <1>8, CarriesPosts
<1>13. ASSUME Faithful(s, out) PROVE Faithful(t, out)
  <2>1. s.version[m] \in Nat
    BY <1>1, VersionNat
  <2>2. VersionsOK(t)
    BY <1>3, <1>10, <1>13, <2>1 DEF Faithful, VersionsOK, SameEditor
  <2>3. KeepsModels(s, t) /\ VersionsGrow(s, t)
    <3>1. \A x \in Models : s.version[x] \in Nat
      BY <1>1, VersionNat
    <3> QED
      BY <3>1, <1>3 DEF KeepsModels, VersionsGrow, SameEditor
  <2>4. \A j \in Tracked, q \in Paths : ~IsRequest(t, j, q, msg)
    BY <1>9 DEF IsRequest
  <2>5. ASSUME NEW q \in Paths PROVE Belief(t, q) = After(msg, q, Belief(s, q))
    <3>1. CASE q # p
      BY <1>3, <1>9, <1>10, <3>1 DEF Belief, After
    <3>2. CASE q = p
      <4>1. Belief(t, p) = d
        BY <1>3, <1>10 DEF Belief, Doc, d
      <4>2. s.lastSent[p] <= s.version[m] /\ s.lastSent[p] \in Nat
        BY <1>10, <1>13, SessionAssumption DEF Faithful, VersionsOK, Versions
      <4>3. Belief(s, p).version = s.lastSent[p]
        BY DEF Belief
      <4>4. After(msg, p, Belief(s, p)) = d
        BY <1>2, <1>9, <4>2, <4>3, <2>1 DEF After
      <4> QED
        BY <3>2, <4>1, <4>4
    <3> QED
      BY <3>1, <3>2
  <2>6. \A j \in Tracked, q \in Paths : Served(t, j, q, msg, Belief(s, q))
    BY <2>4 DEF Served
  <2> QED
    BY <1>3, <1>5, <1>6, <1>8, <1>13, <2>2, <2>3, <2>4, <2>5, <2>6, FaithfulPosts
<1> QED
  BY <1>2, <1>3, <1>11, <1>12, <1>13

\* Starting a worker, which is sent every registered document.
LEMMA CreateStep ==
  ASSUME NEW s, NEW out, EnvOK(out), Sound(s, out), RetriesOK(s), s.worker = 0,
         NEW t, t = createWorker(s)
  PROVE  /\ Sound(t, out) /\ (Faithful(s, out) => Faithful(t, out)) /\ Carries(s, t, out)
         /\ t.worker # 0 /\ RetriesOK(t) /\ \A p \in Paths : t.lastSent[p] = Sent(s, p)
         /\ SameEditor(s, t) /\ SamePromises(s, t)
         /\ t.registered = s.registered /\ t.timer = s.timer /\ t.fingerprint = s.fingerprint
         /\ t.markers = s.markers /\ t.pending = s.pending /\ t.nextRequestId = s.nextRequestId
<1>1. s \in Session /\ s.born < MaxWorkers /\ s.born \in Workers
  BY SessionWorker DEF Sound, WorkersOK
<1>2. s.born \in Nat /\ s.born + 1 \in Workers /\ s.born + 1 > s.born /\ s.born + 1 # 0
  BY <1>1, SessionAssumption DEF Workers
<1>3. /\ health[s.born + 1] = "up" /\ s.inbox[s.born + 1] = <<>> /\ out[s.born + 1] = <<>>
      /\ mirror[s.born + 1] = [p \in Paths |-> None]
  BY <1>2 DEF Sound, WorkersOK
<1>a. Created(s, t)
  BY <1>1, <1>3, CreateFields
<1>4. /\ t \in Session
      /\ t.worker = s.born + 1 /\ t.born = s.born + 1 /\ t.worker \in Workers
      /\ SameEditor(s, t) /\ SamePromises(s, t)
      /\ t.registered = s.registered /\ t.timer = s.timer /\ t.fingerprint = s.fingerprint
      /\ t.markers = s.markers /\ t.pending = s.pending /\ t.nextRequestId = s.nextRequestId
      /\ \A p \in Paths : t.lastSent[p] = Sent(s, p)
      /\ \A v \in Workers : v # t.worker => t.inbox[v] = s.inbox[v]
      /\ \A i \in DOMAIN t.inbox[t.worker] : t.inbox[t.worker][i].type = "open"
      /\ \A p \in Paths, n \in Nat : \A h \in [Nat -> Optional(Docs)] :
           n = Len(t.inbox[t.worker]) /\ History(t.inbox[t.worker], p, None, n, h) => h[n] = DocOf(s, p)
  BY <1>1, <1>3, <1>a DEF Created
<1>5. TabsOK(t) /\ ResolversOK(t)
  BY <1>4, TabsKept, ResolversSame DEF Sound
<1>6. WorkersOK(t, out)
  <2>1. \A w \in Workers : w <= t.born /\ w # t.worker => w <= s.born /\ w # s.worker
    BY <1>2, <1>4 DEF Workers
  <2>2. \A w \in Workers : w > t.born => w > s.born /\ w # t.worker
    BY <1>2, <1>4 DEF Workers
  <2>3. WorkersOK(s, out)
    BY DEF Sound
  <2>4. t.worker \in {0, t.born} /\ health[t.worker] = "up" /\ t.worker # 0
    BY <1>2, <1>3, <1>4
  <2>5. \A w \in Workers : w <= t.born /\ w # t.worker => health[w] = "reported"
    BY <2>1, <2>3 DEF WorkersOK
  <2>6. \A w \in Workers : w > t.born =>
         /\ health[w] = "up" /\ t.inbox[w] = <<>> /\ out[w] = <<>> /\ flags[w] = {}
         /\ mirror[w] = [p \in Paths |-> None]
    BY <1>4, <2>2, <2>3 DEF WorkersOK
  <2> QED
    BY <2>4, <2>5, <2>6 DEF WorkersOK
<1>7. \A w \in Workers : \A i \in DOMAIN t.inbox[w] :
        \/ i \in DOMAIN s.inbox[w] /\ t.inbox[w][i] = s.inbox[w][i]
        \/ t.inbox[w][i].type = "open"
  BY <1>4
<1>8. IdsOK(t, out) /\ CancelsOK(t)
  BY <1>4, <1>7 DEF Sound, IdsOK, CancelsOK
<1>9. \A k \in Kinds, p \in Paths : s.pending[k][p] = 0 /\ s.retry[k][p] = None
  BY DEF RetriesOK
<1>10. Carries(s, t, out)
  BY <1>4, <1>9 DEF Carries
<1>11. RetriesOK(t)
  BY <1>4, <1>9 DEF RetriesOK, SamePromises
<1>12. ASSUME Faithful(s, out) PROVE Faithful(t, out)
  <2>1. VersionsOK(t)
    <3>1. \A p \in Paths : t.registered[p] # None => s.version[s.registered[p]] \in Nat
      BY <1>1, <1>4, VersionNat, RegisteredModel
    <3> QED
      BY <1>4, <1>12, <3>1 DEF Faithful, VersionsOK, SameEditor, Sent
  <2>2. \A msg : \A k \in Tracked, p \in Paths : IsRequest(t, k, p, msg) <=> IsRequest(s, k, p, msg)
    BY <1>4 DEF IsRequest
  <2>3. \A msg : \A k \in Tracked, p \in Paths : IsAnswer(t, k, p, msg) <=> IsAnswer(s, k, p, msg)
    BY <1>4 DEF IsAnswer
  <2>4. \A msg : \A k \in Tracked, p \in Paths : msg.type = "open" => ~IsRequest(t, k, p, msg)
    BY DEF IsRequest
  <2>5. RequestsOK(t)
    BY <1>4, <1>7, <1>12, <2>2, <2>4 DEF Faithful, RequestsOK, SameEditor
  <2>6. RepliesOK(t, out)
    BY <1>4, <1>12, <2>3 DEF Faithful, RepliesOK, SameEditor
  <2>7. ASSUME NEW p \in Paths, NEW n \in Nat, NEW h \in [Nat -> Optional(Docs)],
               History(t.inbox[t.worker], p, mirror[t.worker][p], n, h)
        PROVE  /\ n = Len(t.inbox[t.worker]) => h[n] = Belief(t, p)
               /\ \A k \in Tracked : n < Len(t.inbox[t.worker]) =>
                    Served(t, k, p, t.inbox[t.worker][n + 1], h[n])
    <3>1. mirror[t.worker][p] = None
      BY <1>3, <1>4
    <3>2. DocOf(s, p) = Belief(t, p)
      BY <1>4 DEF DocOf, Belief, Sent, Doc
    <3>3. n = Len(t.inbox[t.worker]) => h[n] = Belief(t, p)
      BY <1>4, <2>7, <3>1, <3>2
    <3>4. ASSUME NEW k \in Tracked, n < Len(t.inbox[t.worker])
          PROVE  Served(t, k, p, t.inbox[t.worker][n + 1], h[n])
      <4>1. t.inbox[t.worker] \in Seq(ToWorker)
        BY <1>4 DEF Session
      <4>2. n + 1 \in DOMAIN t.inbox[t.worker]
        BY <3>4, <4>1
      <4> QED
        BY <1>4, <4>2, <2>4 DEF Served
    <3> QED
      BY <3>3, <3>4
  <2>8. MirrorOK(t)
    BY <2>7, Zenon DEF MirrorOK
  <2> QED
    BY <2>1, <2>5, <2>6, <2>8 DEF Faithful
<1> QED
  BY <1>2, <1>4, <1>5, <1>6, <1>8, <1>10, <1>11, <1>12 DEF Sound

\* getWorker.
LEMMA GetStep ==
  ASSUME NEW s, NEW out, EnvOK(out), Sound(s, out), RetriesOK(s), NEW t, t = getWorker(s)
  PROVE  /\ Sound(t, out) /\ (Faithful(s, out) => Faithful(t, out)) /\ Carries(s, t, out)
         /\ t.worker # 0 /\ RetriesOK(t)
         /\ s.worker # 0 => t = s
         /\ s.worker = 0 => \A p \in Paths : t.lastSent[p] = Sent(s, p)
         /\ SameEditor(s, t) /\ SamePromises(s, t)
         /\ t.registered = s.registered /\ t.timer = s.timer /\ t.fingerprint = s.fingerprint
         /\ t.markers = s.markers /\ t.pending = s.pending /\ t.nextRequestId = s.nextRequestId
<1>1. CASE s.worker # 0
  <2>1. t = s
    BY <1>1 DEF getWorker
  <2> QED
    BY <1>1, <2>1 DEF Carries, SameEditor, SamePromises
<1>2. CASE s.worker = 0
  <2>1. t = createWorker(s)
    BY <1>2 DEF getWorker
  <2> QED
    BY <1>2, <2>1, CreateStep
<1> QED
  BY <1>1, <1>2

\* A record of the main thread that is sound, and what holds of it while its models stay.
Good(s, out) == Sound(s, out) /\ RetriesOK(s)
Fine(s, out) == Faithful(s, out) /\ ModelsOK(s) /\ ClosedOK(s)

\* No promise gets a result, and no model gets markers.
Quiet(s, t) ==
  /\ \A n \in Calls : t.answer[n] \in {s.answer[n], Empty, Waiting}
  /\ \A m \in Models : t.markers[m] \in {s.markers[m], None}

\* startTrackedRequest.
LEMMA TrackStep ==
  ASSUME NEW s, NEW out, EnvOK(out), Sound(s, out), s.worker # 0,
         NEW k \in Tracked, NEW p \in Paths, NEW v \in Versions, NEW t,
         t = startTrackedRequest(s, k, p, s.worker, v)
  PROVE  /\ Sound(t, out) /\ Carries(s, t, out)
         /\ Faithful(s, out) /\ (s.registered[p] # None => v <= s.version[s.registered[p]]) => Faithful(t, out)
         /\ PendingBecomes(s.pending, t.pending, k, p, s.nextRequestId) /\ s.nextRequestId \in Nat \ {0}
         /\ SameEditor(s, t) /\ SameWorker(s, t) /\ SamePromises(s, t) /\ SameDocs(s, t)
         /\ t.markers = s.markers
<1> DEFINE u == cancelPendingRequest(s, k, p, s.worker)
<1>1. t = Started(u, k, p, s.worker, v)
  BY StartTrackedIs, Zenon
<1>2. /\ Sound(u, out) /\ (Faithful(s, out) => Faithful(u, out)) /\ Carries(s, u, out)
      /\ PendingBecomes(s.pending, u.pending, k, p, 0)
      /\ SameEditor(s, u) /\ SameWorker(s, u) /\ SamePromises(s, u) /\ SameDocs(s, u)
      /\ u.markers = s.markers /\ u.nextRequestId = s.nextRequestId
  BY CancelStep
<1> HIDE DEF u
<1>3. u.worker = s.worker /\ u.worker # 0
  BY <1>2 DEF SameWorker
<1>4. /\ Sound(t, out) /\ Carries(u, t, out)
      /\ Faithful(u, out) /\ (u.registered[p] # None => v <= u.version[u.registered[p]]) => Faithful(t, out)
      /\ PendingBecomes(u.pending, t.pending, k, p, u.nextRequestId)
      /\ SameEditor(u, t) /\ SameWorker(u, t) /\ SamePromises(u, t) /\ SameDocs(u, t)
      /\ t.markers = u.markers /\ u.nextRequestId \in Nat \ {0}
  BY <1>1, <1>2, <1>3, StartStep
<1>5. PendingBecomes(s.pending, t.pending, k, p, s.nextRequestId) /\ s.nextRequestId \in Nat \ {0}
  BY <1>2, <1>4 DEF PendingBecomes
<1>6. Carries(s, t, out)
  BY <1>2, <1>4, CarriesTransitive
<1>7. SameEditor(s, t) /\ SameWorker(s, t) /\ SamePromises(s, t) /\ SameDocs(s, t) /\ t.markers = s.markers
  BY <1>2, <1>4 DEF SameEditor, SameWorker, SamePromises, SameDocs
<1>8. Faithful(s, out) /\ (s.registered[p] # None => v <= s.version[s.registered[p]]) => Faithful(t, out)
  BY <1>2, <1>4 DEF SameEditor, SameDocs
<1> QED
  BY <1>4, <1>5, <1>6, <1>7, <1>8

\* The pending request of a kind is not one of the diagnostics.
LEMMA KindsTracked == Kinds \subseteq Tracked /\ "diagnostics" \in Tracked /\ "diagnostics" \notin Kinds
BY SessionAssumption DEF Tracked

\* The retries stay in order when no pending request of a kind comes or goes.
LEMMA RetriesKept ==
  ASSUME NEW s, NEW t, RetriesOK(s), SamePromises(s, t), s.worker # 0 => t.worker = s.worker,
         \A k \in Kinds, p \in Paths : t.pending[k][p] = 0 <=> s.pending[k][p] = 0
  PROVE  RetriesOK(t)
BY DEF RetriesOK, SamePromises

\* ModelsOK is kept when paths are closed at most.
LEMMA ModelsKept ==
  ASSUME NEW s, NEW t, ModelsOK(s), SamePromises(s, t),
         \A p \in Paths : t.registered[p] \in {s.registered[p], None}
  PROVE  ModelsOK(t)
BY DEF ModelsOK, SamePromises

\* requestDiagnostics.
LEMMA DiagnosticsStep ==
  ASSUME NEW s, NEW out, EnvOK(out), Good(s, out), NEW p \in Paths, NEW v \in Versions,
         NEW t, t = requestDiagnostics(s, p, v)
  PROVE  /\ Good(t, out) /\ Carries(s, t, out)
         /\ Faithful(s, out) /\ (s.registered[p] # None => v <= s.version[s.registered[p]]) => Faithful(t, out)
         /\ t.worker # 0 /\ t.pending["diagnostics"][p] # 0
         /\ \A k \in Tracked, q \in Paths : k # "diagnostics" \/ q # p => t.pending[k][q] = s.pending[k][q]
         /\ s.worker # 0 => SameWorker(s, t) /\ t.lastSent = s.lastSent
         /\ s.worker = 0 => \A q \in Paths : t.lastSent[q] = Sent(s, q)
         /\ SameEditor(s, t) /\ SamePromises(s, t)
         /\ t.registered = s.registered /\ t.timer = s.timer /\ t.fingerprint = s.fingerprint
         /\ t.markers = s.markers
<1> DEFINE u == getWorker(s)
<1>1. t = startTrackedRequest(u, "diagnostics", p, u.worker, v)
  BY Zenon DEF requestDiagnostics
<1>2. /\ Sound(u, out) /\ (Faithful(s, out) => Faithful(u, out)) /\ Carries(s, u, out)
      /\ u.worker # 0 /\ RetriesOK(u)
      /\ s.worker # 0 => u = s
      /\ s.worker = 0 => \A q \in Paths : u.lastSent[q] = Sent(s, q)
      /\ SameEditor(s, u) /\ SamePromises(s, u)
      /\ u.registered = s.registered /\ u.timer = s.timer /\ u.fingerprint = s.fingerprint
      /\ u.markers = s.markers /\ u.pending = s.pending /\ u.nextRequestId = s.nextRequestId
  BY GetStep DEF Good
<1> HIDE DEF u
<1>3. /\ Sound(t, out) /\ Carries(u, t, out)
      /\ Faithful(u, out) /\ (u.registered[p] # None => v <= u.version[u.registered[p]]) => Faithful(t, out)
      /\ PendingBecomes(u.pending, t.pending, "diagnostics", p, u.nextRequestId) /\ u.nextRequestId \in Nat \ {0}
      /\ SameEditor(u, t) /\ SameWorker(u, t) /\ SamePromises(u, t) /\ SameDocs(u, t)
      /\ t.markers = u.markers
  BY <1>1, <1>2, KindsTracked, TrackStep
<1>4. Carries(s, t, out)
  BY <1>2, <1>3, CarriesTransitive
<1>5. t.pending["diagnostics"][p] # 0 /\
      \A k \in Tracked, q \in Paths : k # "diagnostics" \/ q # p => t.pending[k][q] = s.pending[k][q]
  BY <1>2, <1>3 DEF PendingBecomes
<1>6. RetriesOK(t)
  <2>1. \A k \in Kinds, q \in Paths : t.pending[k][q] = 0 <=> u.pending[k][q] = 0
    BY <1>2, <1>5, KindsTracked
  <2>2. t.worker = u.worker
    BY <1>3 DEF SameWorker
  <2> QED
    BY <1>2, <1>3, <2>1, <2>2, RetriesKept
<1>7. Faithful(s, out) /\ (s.registered[p] # None => v <= s.version[s.registered[p]]) => Faithful(t, out)
  BY <1>2, <1>3 DEF SameEditor
<1>8. /\ SameEditor(s, t) /\ SamePromises(s, t)
      /\ t.registered = s.registered /\ t.timer = s.timer /\ t.fingerprint = s.fingerprint
      /\ t.markers = s.markers /\ t.worker # 0
  BY <1>2, <1>3 DEF SameEditor, SamePromises, SameDocs, SameWorker
<1>9. /\ s.worker # 0 => SameWorker(s, t) /\ t.lastSent = s.lastSent
      /\ s.worker = 0 => \A q \in Paths : t.lastSent[q] = Sent(s, q)
  BY <1>2, <1>3 DEF SameDocs
<1> QED
  BY <1>3, <1>4, <1>5, <1>6, <1>7, <1>8, <1>9 DEF Good

\* Nothing is kept of the promises of kind k and path p.
Forgets(s, t, k, p) ==
  /\ t.resolver[k][p] = {} /\ t.retry[k][p] = None
  /\ \A j \in Kinds, q \in Paths : j # k \/ q # p =>
       t.resolver[j][q] = s.resolver[j][q] /\ t.retry[j][q] = s.retry[j][q]

\* The record that changes nothing but the promises and their resolvers.
LEMMA PromisesStep ==
  ASSUME NEW s, NEW out, EnvOK(out), Sound(s, out), NEW t \in Session,
         ResolversOK(t), SameEditor(s, t), SameWorker(s, t), SameDocs(s, t), SameQueues(s, t)
  PROVE  Sound(t, out) /\ (Faithful(s, out) => Faithful(t, out)) /\ Carries(s, t, out)
<1>1. s \in Session
  BY DEF Sound
<1>4. PendingMoves(s, t) /\ t.inbox = s.inbox
  BY <1>1, PendingStays DEF Sound, SameQueues
<1>5. KeepsResyncs(s, t)
  BY DEF KeepsResyncs, Repeats, SameEditor, SameDocs, SameQueues
<1>6. TabsOK(t)
  BY TabsKept DEF Sound
<1>7. Sound(t, out)
  BY <1>4, <1>6, SoundRests DEF SameDocs
<1>8. \A j \in Kinds, q \in Paths : t.pending[j][q] \in {0, s.pending[j][q]}
  BY DEF SameQueues
<1>9. Carries(s, t, out)
  BY <1>1, <1>4, <1>5, <1>8, CarriesRests
<1>10. ASSUME Faithful(s, out) PROVE Faithful(t, out)
  <2>1. KeepsModels(s, t) /\ VersionsGrow(s, t) /\ \A q \in Paths : Belief(t, q) = Belief(s, q)
    BY <1>1, SameDocsFacts DEF SameDocs
  <2>2. VersionsOK(t)
    BY <1>10, SameDocsVersions DEF Faithful
  <2> QED
    BY <1>4, <1>5, <1>10, <2>1, <2>2, FaithfulRests
<1> QED
  BY <1>7, <1>9, <1>10

\* Resolve.
LEMMA ResolveStep ==
  ASSUME NEW s, NEW out, EnvOK(out), Sound(s, out), NEW k \in Kinds, NEW p \in Paths, NEW result \in Promises,
         NEW t, t = Resolve(s, k, p, result)
  PROVE  /\ Sound(t, out) /\ (Faithful(s, out) => Faithful(t, out)) /\ Carries(s, t, out)
         /\ Forgets(s, t, k, p)
         /\ \A n \in Calls : t.answer[n] = IF n \in s.resolver[k][p] THEN result ELSE s.answer[n]
         /\ SameEditor(s, t) /\ SameWorker(s, t) /\ SameDocs(s, t) /\ SameQueues(s, t)
         /\ t.markers = s.markers
<1>1. s \in Session
  BY DEF Sound
<1>2. /\ t \in Session
      /\ t.resolver[k][p] = {} /\ t.retry[k][p] = None
      /\ \A j \in Kinds, q \in Paths : j # k \/ q # p =>
           t.resolver[j][q] = s.resolver[j][q] /\ t.retry[j][q] = s.retry[j][q]
      /\ \A n \in Calls : t.answer[n] = IF n \in s.resolver[k][p] THEN result ELSE s.answer[n]
      /\ SameEditor(s, t) /\ SameWorker(s, t) /\ SameDocs(s, t) /\ SameQueues(s, t)
      /\ t.markers = s.markers
  BY <1>1, ResolveFields
<1>3. ResolversOK(t)
  <2> SUFFICES ASSUME NEW j \in Kinds, NEW q \in Paths, NEW n \in t.resolver[j][q]
               PROVE  /\ t.answer[n] = Waiting
                      /\ \A i \in Kinds, x \in Paths : n \in t.resolver[i][x] => i = j /\ x = q
    BY DEF ResolversOK
  <2>1. (j # k \/ q # p) /\ n \in s.resolver[j][q] /\ n \in Calls
    BY <1>1, <1>2 DEF Session
  <2>2. /\ s.answer[n] = Waiting
        /\ \A i \in Kinds, x \in Paths : n \in s.resolver[i][x] => i = j /\ x = q
    BY <2>1 DEF Sound, ResolversOK
  <2> QED
    BY <1>2, <2>1, <2>2
<1>4. Sound(t, out) /\ (Faithful(s, out) => Faithful(t, out)) /\ Carries(s, t, out)
  BY <1>2, <1>3, PromisesStep
<1> QED
  BY <1>2, <1>4 DEF Forgets

\* The retries stay in order when those of kind k and path p are forgotten.
LEMMA RetriesForgotten ==
  ASSUME NEW s, NEW t, RetriesOK(s), NEW k \in Kinds, NEW p \in Paths,
         Forgets(s, t, k, p), PendingBecomes(s.pending, t.pending, k, p, 0), SameWorker(s, t)
  PROVE  RetriesOK(t)
<1> SUFFICES ASSUME NEW j \in Kinds, NEW q \in Paths
             PROVE  /\ t.pending[j][q] # 0 <=> t.retry[j][q] # None
                    /\ t.resolver[j][q] # {} => t.retry[j][q] # None
                    /\ t.retry[j][q] # None => t.worker # 0 /\ t.retry[j][q].worker = t.worker
  BY DEF RetriesOK
<1>1. CASE j = k /\ q = p
  BY <1>1 DEF Forgets, PendingBecomes
<1>2. CASE j # k \/ q # p
  <2>1. t.pending[j][q] = s.pending[j][q] /\ t.retry[j][q] = s.retry[j][q] /\ t.resolver[j][q] = s.resolver[j][q]
    BY <1>2, KindsTracked DEF Forgets, PendingBecomes
  <2> QED
    BY <2>1 DEF RetriesOK, SameWorker
<1> QED
  BY <1>1, <1>2

\* cancelPending.
LEMMA CancelPendingStep ==
  ASSUME NEW s, NEW out, EnvOK(out), Good(s, out), s.worker # 0, NEW k \in Kinds, NEW p \in Paths,
         NEW t, t = cancelPending(s, k, p)
  PROVE  /\ Good(t, out) /\ (Faithful(s, out) => Faithful(t, out)) /\ Carries(s, t, out)
         /\ Forgets(s, t, k, p) /\ PendingBecomes(s.pending, t.pending, k, p, 0)
         /\ \A n \in Calls : t.answer[n] = IF n \in s.resolver[k][p] THEN Empty ELSE s.answer[n]
         /\ SameEditor(s, t) /\ SameWorker(s, t) /\ SameDocs(s, t)
         /\ t.markers = s.markers
<1> DEFINE u == Resolve(s, k, p, Empty)
<1>1. t = cancelPendingRequest(u, k, p, s.worker)
  BY Zenon DEF cancelPending
<1>2. /\ Sound(u, out) /\ (Faithful(s, out) => Faithful(u, out)) /\ Carries(s, u, out)
      /\ Forgets(s, u, k, p)
      /\ \A n \in Calls : u.answer[n] = IF n \in s.resolver[k][p] THEN Empty ELSE s.answer[n]
      /\ SameEditor(s, u) /\ SameWorker(s, u) /\ SameDocs(s, u) /\ SameQueues(s, u)
      /\ u.markers = s.markers
  <2>1. Empty \in Promises
    BY DEF Promises
  <2> QED
    BY <2>1, ResolveStep DEF Good
<1> HIDE DEF u
<1>3. u.worker = s.worker
  BY <1>2 DEF SameWorker
<1>4. /\ Sound(t, out) /\ (Faithful(u, out) => Faithful(t, out)) /\ Carries(u, t, out)
      /\ PendingBecomes(u.pending, t.pending, k, p, 0)
      /\ SameEditor(u, t) /\ SameWorker(u, t) /\ SamePromises(u, t) /\ SameDocs(u, t)
      /\ t.markers = u.markers
  BY <1>1, <1>2, <1>3, KindsTracked, CancelStep
<1>5. Carries(s, t, out)
  BY <1>2, <1>4, CarriesTransitive
<1>6. SameEditor(s, t) /\ SameWorker(s, t) /\ SameDocs(s, t) /\ t.markers = s.markers
  BY <1>2, <1>4 DEF SameEditor, SameWorker, SameDocs
<1>7. Forgets(s, t, k, p) /\ PendingBecomes(s.pending, t.pending, k, p, 0)
  BY <1>2, <1>4 DEF Forgets, PendingBecomes, SamePromises, SameQueues
<1>8. RetriesOK(t)
  BY <1>6, <1>7, RetriesForgotten DEF Good
<1>9. \A n \in Calls : t.answer[n] = IF n \in s.resolver[k][p] THEN Empty ELSE s.answer[n]
  BY <1>2, <1>4 DEF SamePromises
<1> QED
  BY <1>2, <1>4, <1>5, <1>6, <1>7, <1>8, <1>9 DEF Good

\* Retry, of a request that has its closure.
LEMMA RetryStep ==
  ASSUME NEW s, NEW out, EnvOK(out), Sound(s, out), s.worker # 0, NEW k \in Kinds, NEW p \in Paths,
         s.retry[k][p] # None, s.retry[k][p].worker = s.worker, NEW t, t = Retry(s, k, p)
  PROVE  /\ Sound(t, out) /\ Carries(s, t, out)
         /\ Faithful(s, out) /\ (s.registered[p] # None => s.retry[k][p].model = s.registered[p]) => Faithful(t, out)
         /\ PendingBecomes(s.pending, t.pending, k, p, s.nextRequestId) /\ s.nextRequestId \in Nat \ {0}
         /\ SameEditor(s, t) /\ SameWorker(s, t) /\ SamePromises(s, t) /\ SameDocs(s, t)
         /\ t.markers = s.markers
<1> DEFINE m == s.retry[k][p].model
           v == s.version[m]
<1>1. s \in Session
  BY DEF Sound
<1>2. m \in Models
  BY <1>1 DEF Session, Retries, Optional
<1>3. v \in Versions
  BY <1>1, <1>2 DEF Session
<1>4. t = startTrackedRequest(s, k, p, s.worker, v)
  BY Zenon DEF Retry
<1>5. s.version[m] \in Nat
  BY <1>1, <1>2, VersionNat
<1>6. (s.registered[p] # None => m = s.registered[p]) => (s.registered[p] # None => v <= s.version[s.registered[p]])
  BY <1>5
<1> HIDE DEF v
<1>7. /\ Sound(t, out) /\ Carries(s, t, out)
      /\ Faithful(s, out) /\ (s.registered[p] # None => v <= s.version[s.registered[p]]) => Faithful(t, out)
      /\ PendingBecomes(s.pending, t.pending, k, p, s.nextRequestId) /\ s.nextRequestId \in Nat \ {0}
      /\ SameEditor(s, t) /\ SameWorker(s, t) /\ SamePromises(s, t) /\ SameDocs(s, t)
      /\ t.markers = s.markers
  BY <1>3, <1>4, KindsTracked, TrackStep
<1> QED
  BY <1>6, <1>7

\* A call's promise n takes the place of the others of kind k and path p.
Asked(s, k, p, m, n, key) ==
  [s EXCEPT !.resolver[k][p] = {n},
            !.retry[k][p] = [model |-> m, worker |-> s.worker],
            !.hoverKey[p] = IF k = "hover" THEN key ELSE @]

\* NewRequest resolves and cancels, makes a new resolver, and starts.
LEMMA NewRequestIs ==
  ASSUME NEW s, NEW k, NEW p, NEW m, NEW n, NEW key
  PROVE  NewRequest(s, k, p, m, n, key) = Retry(Asked(cancelPending(s, k, p), k, p, m, n, key), k, p)
BY Zenon DEF NewRequest, Asked

\* What the new resolver of a request changes.
LEMMA AskedFields ==
  ASSUME NEW s \in Session, s.worker # 0, NEW k \in Kinds, NEW p \in Paths, NEW m \in Models, NEW n \in Calls,
         NEW key \in Versions \X Positions, NEW t, t = Asked(s, k, p, m, n, key)
  PROVE  /\ t \in Session
         /\ t.resolver[k][p] = {n} /\ t.retry[k][p] = [model |-> m, worker |-> s.worker]
         /\ t.retry[k][p] # None
         /\ \A j \in Kinds, q \in Paths : j # k \/ q # p =>
              t.resolver[j][q] = s.resolver[j][q] /\ t.retry[j][q] = s.retry[j][q]
         /\ t.answer = s.answer
         /\ SameEditor(s, t) /\ SameWorker(s, t) /\ SameDocs(s, t) /\ SameQueues(s, t)
         /\ t.markers = s.markers
<1> DEFINE again == [model |-> m, worker |-> s.worker]
           resolvers == [s.resolver EXCEPT ![k][p] = {n}]
           retries == [s.retry EXCEPT ![k][p] = again]
           keys == [s.hoverKey EXCEPT ![p] = IF k = "hover" THEN key ELSE @]
<1>1. /\ s.resolver \in [Kinds -> [Paths -> SUBSET Calls]] /\ s.retry \in [Kinds -> [Paths -> Optional(Retries)]]
      /\ s.hoverKey \in [Paths -> Optional(Versions \X Positions)]
  BY DEF Session
<1>2. t = [s EXCEPT !.resolver = resolvers, !.retry = retries, !.hoverKey = keys]
  BY Zenon DEF Asked
<1>3. again \in Retries /\ again # None /\ again \in Optional(Retries)
  BY SessionWorker, NoneAssumption DEF Retries, Optional
<1>4. /\ resolvers \in [Kinds -> [Paths -> SUBSET Calls]] /\ resolvers[k][p] = {n}
      /\ \A j \in Kinds, q \in Paths : j # k \/ q # p => resolvers[j][q] = s.resolver[j][q]
  BY <1>1
<1>5. /\ retries \in [Kinds -> [Paths -> Optional(Retries)]] /\ retries[k][p] = again
      /\ \A j \in Kinds, q \in Paths : j # k \/ q # p => retries[j][q] = s.retry[j][q]
  <2> HIDE DEF again
  <2> QED
    BY <1>1, <1>3
<1>6. keys \in [Paths -> Optional(Versions \X Positions)]
  BY <1>1 DEF Optional
<1> HIDE DEF resolvers, retries, keys, again
<1>7. t \in Session
  <2> DEFINE u == [s EXCEPT !.resolver = resolvers]
  <2>1. u \in Session
    BY <1>4, Zenon DEF Session
  <2>2. t = [u EXCEPT !.retry = retries, !.hoverKey = keys]
    BY <1>2, Zenon
  <2> HIDE DEF u
  <2> QED
    BY <1>5, <1>6, <2>1, <2>2, ZenonT(60) DEF Session
<1>8. /\ t.answer = s.answer /\ t.resolver = resolvers /\ t.retry = retries
      /\ SameEditor(s, t) /\ SameWorker(s, t) /\ SameDocs(s, t) /\ SameQueues(s, t)
      /\ t.markers = s.markers
  BY <1>2 DEF Session, SameEditor, SameWorker, SameQueues, SameDocs
<1> QED
  BY <1>3, <1>4, <1>5, <1>7, <1>8 DEF again

\* n is a promise of no request yet.
Fresh(s, n) == s.answer[n] = Waiting /\ \A k \in Kinds, p \in Paths : n \notin s.resolver[k][p]

\* The new resolver of a request keeps everything but RetriesOK and ModelsOK, which the
\* request sent next makes true again.
LEMMA AskedStep ==
  ASSUME NEW s, NEW out, EnvOK(out), Sound(s, out), s.worker # 0,
         NEW k \in Kinds, NEW p \in Paths, NEW m \in Models, NEW n \in Calls, Fresh(s, n),
         NEW key \in Versions \X Positions, NEW t, t = Asked(s, k, p, m, n, key)
  PROVE  /\ Sound(t, out) /\ (Faithful(s, out) => Faithful(t, out)) /\ Carries(s, t, out)
         /\ t.retry[k][p] = [model |-> m, worker |-> s.worker] /\ t.retry[k][p] # None
         /\ \A j \in Kinds, q \in Paths : j # k \/ q # p =>
              t.resolver[j][q] = s.resolver[j][q] /\ t.retry[j][q] = s.retry[j][q]
         /\ t.answer = s.answer
         /\ SameEditor(s, t) /\ SameWorker(s, t) /\ SameDocs(s, t) /\ SameQueues(s, t)
         /\ t.markers = s.markers
<1>1. /\ t \in Session
      /\ t.resolver[k][p] = {n} /\ t.retry[k][p] = [model |-> m, worker |-> s.worker]
      /\ t.retry[k][p] # None
      /\ \A j \in Kinds, q \in Paths : j # k \/ q # p =>
           t.resolver[j][q] = s.resolver[j][q] /\ t.retry[j][q] = s.retry[j][q]
      /\ t.answer = s.answer
      /\ SameEditor(s, t) /\ SameWorker(s, t) /\ SameDocs(s, t) /\ SameQueues(s, t)
      /\ t.markers = s.markers
  BY AskedFields DEF Sound
<1>2. ResolversOK(t)
  <2> SUFFICES ASSUME NEW j \in Kinds, NEW q \in Paths, NEW x \in t.resolver[j][q]
               PROVE  /\ t.answer[x] = Waiting
                      /\ \A i \in Kinds, y \in Paths : x \in t.resolver[i][y] => i = j /\ y = q
    BY DEF ResolversOK
  <2>1. CASE x = n
    BY <1>1, <2>1 DEF Fresh
  <2>2. CASE x # n
    <3>1. x \in s.resolver[j][q]
      BY <1>1, <2>2
    <3>2. \A i \in Kinds, y \in Paths : x \in t.resolver[i][y] => x \in s.resolver[i][y]
      BY <1>1, <2>2
    <3> QED
      BY <1>1, <3>1, <3>2 DEF Sound, ResolversOK
  <2> QED
    BY <2>1, <2>2
<1>3. Sound(t, out) /\ (Faithful(s, out) => Faithful(t, out)) /\ Carries(s, t, out)
  BY <1>1, <1>2, PromisesStep
<1> QED
  BY <1>1, <1>3

\* A call that asks the worker: its request takes the place of the pending one.
LEMMA NewRequestStep ==
  ASSUME NEW s, NEW out, EnvOK(out), Good(s, out), s.worker # 0,
         NEW k \in Kinds, NEW p \in Paths, NEW m \in Models, NEW n \in Calls, Fresh(s, n),
         NEW key \in Versions \X Positions, NEW t, t = NewRequest(s, k, p, m, n, key)
  PROVE  /\ Good(t, out) /\ Carries(s, t, out)
         /\ Fine(s, out) /\ s.registered[p] = m => Fine(t, out)
         /\ Quiet(s, t) /\ SameEditor(s, t) /\ SameWorker(s, t) /\ SameDocs(s, t) /\ t.markers = s.markers
<1> DEFINE u == cancelPending(s, k, p)
           a == Asked(u, k, p, m, n, key)
<1>1. t = Retry(a, k, p)
  BY NewRequestIs, Zenon
<1>2. /\ Good(u, out) /\ (Faithful(s, out) => Faithful(u, out)) /\ Carries(s, u, out)
      /\ Forgets(s, u, k, p) /\ PendingBecomes(s.pending, u.pending, k, p, 0)
      /\ \A x \in Calls : u.answer[x] = IF x \in s.resolver[k][p] THEN Empty ELSE s.answer[x]
      /\ SameEditor(s, u) /\ SameWorker(s, u) /\ SameDocs(s, u)
      /\ u.markers = s.markers
  BY CancelPendingStep
<1> HIDE DEF u
<1>3. Fresh(u, n) /\ u.worker = s.worker /\ Sound(u, out)
  BY <1>2 DEF Fresh, Forgets, SameWorker, Good
<1>4. /\ Sound(a, out) /\ (Faithful(u, out) => Faithful(a, out)) /\ Carries(u, a, out)
      /\ a.retry[k][p] = [model |-> m, worker |-> u.worker] /\ a.retry[k][p] # None
      /\ \A j \in Kinds, q \in Paths : j # k \/ q # p =>
           a.resolver[j][q] = u.resolver[j][q] /\ a.retry[j][q] = u.retry[j][q]
      /\ a.answer = u.answer
      /\ SameEditor(u, a) /\ SameWorker(u, a) /\ SameDocs(u, a) /\ SameQueues(u, a)
      /\ a.markers = u.markers
  BY <1>3, AskedStep
<1> HIDE DEF a
<1>5. a.retry[k][p].model = m /\ a.retry[k][p].worker = a.worker /\ a.worker # 0 /\ a.registered = s.registered
  BY <1>2, <1>3, <1>4 DEF SameWorker, SameDocs
<1>6. /\ Sound(t, out) /\ Carries(a, t, out)
      /\ Faithful(a, out) /\ (a.registered[p] # None => a.retry[k][p].model = a.registered[p]) => Faithful(t, out)
      /\ PendingBecomes(a.pending, t.pending, k, p, a.nextRequestId) /\ a.nextRequestId \in Nat \ {0}
      /\ SameEditor(a, t) /\ SameWorker(a, t) /\ SamePromises(a, t) /\ SameDocs(a, t)
      /\ t.markers = a.markers
  BY <1>1, <1>4, <1>5, RetryStep
<1>7. Carries(s, t, out)
  BY <1>2, <1>4, <1>6, CarriesTransitive
<1>8. SameEditor(s, t) /\ SameWorker(s, t) /\ SameDocs(s, t) /\ t.markers = s.markers
  BY <1>2, <1>4, <1>6 DEF SameEditor, SameWorker, SameDocs
<1>9. /\ t.pending[k][p] # 0 /\ t.retry[k][p] = a.retry[k][p]
      /\ \A j \in Tracked, q \in Paths : j # k \/ q # p => t.pending[j][q] = s.pending[j][q]
      /\ \A j \in Kinds, q \in Paths : j # k \/ q # p =>
           t.retry[j][q] = s.retry[j][q] /\ t.resolver[j][q] = s.resolver[j][q]
  BY <1>2, <1>4, <1>6, KindsTracked DEF PendingBecomes, SameQueues, SamePromises, Forgets
<1>10. RetriesOK(t)
  <2> SUFFICES ASSUME NEW j \in Kinds, NEW q \in Paths
               PROVE  /\ t.pending[j][q] # 0 <=> t.retry[j][q] # None
                      /\ t.resolver[j][q] # {} => t.retry[j][q] # None
                      /\ t.retry[j][q] # None => t.worker # 0 /\ t.retry[j][q].worker = t.worker
    BY DEF RetriesOK
  <2>1. t.worker = s.worker
    BY <1>8 DEF SameWorker
  <2>2. CASE j = k /\ q = p
    BY <1>3, <1>4, <1>9, <2>1, <2>2
  <2>3. CASE j # k \/ q # p
    <3>1. t.pending[j][q] = s.pending[j][q] /\ t.retry[j][q] = s.retry[j][q] /\ t.resolver[j][q] = s.resolver[j][q]
      BY <1>9, <2>3, KindsTracked
    <3> QED
      BY <2>1, <3>1 DEF Good, RetriesOK
  <2> QED
    BY <2>2, <2>3
<1>11. ASSUME Fine(s, out), s.registered[p] = m PROVE Fine(t, out)
  <2>1. Faithful(t, out)
    BY <1>2, <1>4, <1>5, <1>6, <1>11 DEF Fine
  <2>2. ModelsOK(t)
    BY <1>4, <1>8, <1>9, <1>11 DEF Fine, ModelsOK, SameDocs
  <2>3. ClosedOK(t)
    <3>1. m # None
      BY NoneAssumption
    <3> QED
      BY <1>8, <1>9, <1>11, <3>1 DEF Fine, ClosedOK, SameDocs
  <2> QED
    BY <2>1, <2>2, <2>3 DEF Fine
<1>12. Quiet(s, t)
  <2>1. \A x \in Calls : t.answer[x] \in {s.answer[x], Empty, Waiting}
    BY <1>2, <1>4, <1>6 DEF SamePromises
  <2> QED
    BY <1>8, <2>1 DEF Quiet
<1> QED
  BY <1>6, <1>7, <1>8, <1>10, <1>11, <1>12 DEF Good

\* What is kept of promises does not depend on the answers.
LEMMA ClosedKept ==
  ASSUME NEW s, NEW t, ClosedOK(s), t.registered = s.registered, t.timer = s.timer,
         \A p \in Paths : s.registered[p] = None => t.lastSent[p] = s.lastSent[p],
         \A k \in Tracked, p \in Paths : s.registered[p] = None => t.pending[k][p] \in {0, s.pending[k][p]}
  PROVE  ClosedOK(t)
BY DEF ClosedOK

\* Handing out a promise changes nothing else.
LEMMA WaitingStep ==
  ASSUME NEW s, NEW out, EnvOK(out), Good(s, out), NEW n \in Calls, s.answer[n] = Unasked,
         NEW t, t = [s EXCEPT !.answer[n] = Waiting]
  PROVE  /\ Good(t, out) /\ (Fine(s, out) => Fine(t, out)) /\ Carries(s, t, out)
         /\ Fresh(t, n) /\ Quiet(s, t) /\ SameEditor(s, t) /\ SameWorker(s, t) /\ SameDocs(s, t)
         /\ t.markers = s.markers
<1> DEFINE f == [s.answer EXCEPT ![n] = Waiting]
<1>1. s \in Session /\ f \in [Calls -> Promises]
  BY DEF Good, Sound, Session, Promises
<1>2. t = [s EXCEPT !.answer = f]
  BY Zenon
<1>3. Unasked # Waiting
  BY DEF Unasked, Waiting
<1>4. f[n] = Waiting /\ \A x \in Calls : x # n => f[x] = s.answer[x]
  BY <1>1 DEF Session
<1>5. \A x \in Calls : f[x] \in {s.answer[x], Waiting}
  BY <1>4
<1> HIDE DEF f
<1>6. t \in Session
  BY <1>1, <1>2, ZenonT(60) DEF Session
<1>7. /\ SameEditor(s, t) /\ SameWorker(s, t) /\ SameDocs(s, t) /\ SameQueues(s, t) /\ t.markers = s.markers
      /\ t.answer = f /\ t.resolver = s.resolver /\ t.retry = s.retry /\ t.hoverKey = s.hoverKey
  BY <1>1, <1>2 DEF Session, SameEditor, SameWorker, SameQueues, SameDocs
<1>8. \A k \in Kinds, p \in Paths : n \notin s.resolver[k][p] /\ s.resolver[k][p] \subseteq Calls
  BY <1>1, <1>3 DEF Good, Sound, ResolversOK, Session
<1>9. ResolversOK(t)
  BY <1>4, <1>7, <1>8 DEF Good, Sound, ResolversOK
<1>10. Sound(t, out) /\ (Faithful(s, out) => Faithful(t, out)) /\ Carries(s, t, out)
  BY <1>6, <1>7, <1>9, PromisesStep DEF Good
<1>11. RetriesOK(t) /\ (ModelsOK(s) => ModelsOK(t)) /\ (ClosedOK(s) => ClosedOK(t))
  BY <1>7 DEF Good, RetriesOK, ModelsOK, ClosedOK, SameWorker, SameDocs, SameQueues
<1>12. Fresh(t, n) /\ Quiet(s, t)
  BY <1>4, <1>5, <1>7, <1>8 DEF Fresh, Quiet
<1> QED
  BY <1>7, <1>10, <1>11, <1>12 DEF Good, Fine

\* A hover with the key of the pending one joins it.
LEMMA JoinStep ==
  ASSUME NEW s, NEW out, EnvOK(out), Good(s, out), NEW n \in Calls, Fresh(s, n),
         NEW k \in Kinds, NEW p \in Paths, s.resolver[k][p] # {},
         NEW t, t = [s EXCEPT !.resolver[k][p] = @ \cup {n}]
  PROVE  /\ Good(t, out) /\ (Fine(s, out) => Fine(t, out)) /\ Carries(s, t, out)
         /\ Quiet(s, t) /\ SameEditor(s, t) /\ SameWorker(s, t) /\ SameDocs(s, t)
         /\ t.markers = s.markers
<1> DEFINE f == [s.resolver EXCEPT ![k][p] = @ \cup {n}]
<1>1. s \in Session /\ s.resolver \in [Kinds -> [Paths -> SUBSET Calls]]
  BY DEF Good, Sound, Session
<1>2. t = [s EXCEPT !.resolver = f]
  BY Zenon
<1>3. /\ f \in [Kinds -> [Paths -> SUBSET Calls]] /\ f[k][p] = s.resolver[k][p] \cup {n}
      /\ \A j \in Kinds, q \in Paths : j # k \/ q # p => f[j][q] = s.resolver[j][q]
  BY <1>1
<1> HIDE DEF f
<1>4. t \in Session
  BY <1>1, <1>2, <1>3, ZenonT(60) DEF Session
<1>5. /\ SameEditor(s, t) /\ SameWorker(s, t) /\ SameDocs(s, t) /\ SameQueues(s, t) /\ t.markers = s.markers
      /\ t.resolver = f /\ t.answer = s.answer /\ t.retry = s.retry /\ t.hoverKey = s.hoverKey
  BY <1>1, <1>2 DEF Session, SameEditor, SameWorker, SameQueues, SameDocs
<1>6. ResolversOK(t)
  <2> SUFFICES ASSUME NEW j \in Kinds, NEW q \in Paths, NEW x \in t.resolver[j][q]
               PROVE  /\ t.answer[x] = Waiting
                      /\ \A i \in Kinds, y \in Paths : x \in t.resolver[i][y] => i = j /\ y = q
    BY DEF ResolversOK
  <2>1. CASE x = n
    BY <1>3, <1>5, <2>1 DEF Fresh
  <2>2. CASE x # n
    <3>1. x \in s.resolver[j][q] /\ \A i \in Kinds, y \in Paths : x \in t.resolver[i][y] => x \in s.resolver[i][y]
      BY <1>3, <1>5, <2>2
    <3> QED
      BY <1>5, <3>1 DEF Good, Sound, ResolversOK
  <2> QED
    BY <2>1, <2>2
<1>7. Sound(t, out) /\ (Faithful(s, out) => Faithful(t, out)) /\ Carries(s, t, out)
  BY <1>4, <1>5, <1>6, PromisesStep DEF Good
<1>8. RetriesOK(t)
  <2> SUFFICES ASSUME NEW j \in Kinds, NEW q \in Paths, t.resolver[j][q] # {} PROVE s.resolver[j][q] # {}
    BY <1>5 DEF Good, RetriesOK, SameWorker, SameQueues
  <2> QED
    BY <1>3, <1>5
<1>9. (ModelsOK(s) => ModelsOK(t)) /\ (ClosedOK(s) => ClosedOK(t)) /\ Quiet(s, t)
  BY <1>5 DEF ModelsOK, ClosedOK, Quiet, SameWorker, SameDocs, SameQueues
<1> QED
  BY <1>5, <1>7, <1>8, <1>9 DEF Good, Fine

\* Two quiet steps make one.
LEMMA QuietTransitive ==
  ASSUME NEW s, NEW t, NEW u, Quiet(s, t), Quiet(t, u)
  PROVE  Quiet(s, u)
BY DEF Quiet

\* Request: the editor asks for a model at its path.
LEMMA RequestStep ==
  ASSUME NEW s, NEW out, EnvOK(out), Good(s, out),
         NEW k \in Kinds, NEW p \in Paths, NEW m \in Models, NEW n \in Calls, s.answer[n] = Unasked,
         NEW key \in Versions \X Positions, NEW t, t = Request(s, k, p, m, n, key)
  PROVE  /\ Good(t, out) /\ Carries(s, t, out)
         /\ Fine(s, out) /\ s.registered[p] = m => Fine(t, out)
         /\ Quiet(s, t) /\ SameEditor(s, t) /\ t.registered = s.registered
<1> DEFINE a == [s EXCEPT !.answer[n] = Waiting]
           u == getWorker(a)
<1>1. /\ Good(a, out) /\ (Fine(s, out) => Fine(a, out)) /\ Carries(s, a, out)
      /\ Fresh(a, n) /\ Quiet(s, a) /\ SameEditor(s, a) /\ SameWorker(s, a) /\ SameDocs(s, a)
      /\ a.markers = s.markers
  BY WaitingStep
<1>2. t = IF k = "hover" /\ u.hoverKey[p] = key /\ u.resolver[k][p] # {}
          THEN [u EXCEPT !.resolver[k][p] = @ \cup {n}]
          ELSE NewRequest(u, k, p, m, n, key)
  BY Zenon DEF Request
<1> HIDE DEF a
<1>3. /\ Sound(u, out) /\ (Faithful(a, out) => Faithful(u, out)) /\ Carries(a, u, out)
      /\ u.worker # 0 /\ RetriesOK(u)
      /\ a.worker # 0 => u = a
      /\ a.worker = 0 => \A q \in Paths : u.lastSent[q] = Sent(a, q)
      /\ SameEditor(a, u) /\ SamePromises(a, u)
      /\ u.registered = a.registered /\ u.timer = a.timer /\ u.fingerprint = a.fingerprint
      /\ u.markers = a.markers /\ u.pending = a.pending /\ u.nextRequestId = a.nextRequestId
  BY <1>1, GetStep DEF Good
<1> HIDE DEF u
<1>4. Good(u, out) /\ Fresh(u, n) /\ Quiet(a, u)
  BY <1>1, <1>3 DEF Good, Fresh, Quiet, SamePromises
<1>5. Fine(a, out) => Fine(u, out)
  <2>1. \A q \in Paths : a.registered[q] = None => u.lastSent[q] = a.lastSent[q]
    BY <1>3 DEF Sent
  <2>2. ClosedOK(a) => ClosedOK(u)
    BY <1>3, <2>1 DEF ClosedOK
  <2>3. ModelsOK(a) => ModelsOK(u)
    BY <1>3 DEF ModelsOK, SamePromises
  <2> QED
    BY <1>3, <2>2, <2>3 DEF Fine
<1>6. /\ Good(t, out) /\ Carries(u, t, out) /\ Quiet(u, t) /\ SameEditor(u, t) /\ SameDocs(u, t)
      /\ Fine(u, out) /\ u.registered[p] = m => Fine(t, out)
  <2>1. CASE k = "hover" /\ u.hoverKey[p] = key /\ u.resolver[k][p] # {}
    BY <1>2, <1>4, <2>1, JoinStep
  <2>2. CASE ~(k = "hover" /\ u.hoverKey[p] = key /\ u.resolver[k][p] # {})
    <3>1. t = NewRequest(u, k, p, m, n, key)
      BY <1>2, <2>2
    <3> QED
      BY <1>3, <1>4, <3>1, NewRequestStep
  <2> QED
    BY <2>1, <2>2
<1>7. Carries(s, t, out) /\ Quiet(s, t)
  <2>1. Carries(s, u, out) /\ Quiet(s, u)
    BY <1>1, <1>3, <1>4, CarriesTransitive, QuietTransitive
  <2> QED
    BY <1>6, <2>1, CarriesTransitive, QuietTransitive
<1>8. SameEditor(s, t) /\ t.registered = s.registered /\ u.registered = s.registered
  BY <1>1, <1>3, <1>6 DEF SameEditor, SameDocs
<1> QED
  BY <1>1, <1>5, <1>6, <1>7, <1>8

\* What is kept of a path are numbers.
LEMMA PathNats ==
  ASSUME NEW s \in Session, NEW p \in Paths
  PROVE  /\ s.lastSent[p] \in Nat /\ s.timer[p] \in Nat
         /\ s.fingerprint[p] # None => s.fingerprint[p] \in Fingerprints /\ s.fingerprint[p].version \in Nat
<1>1. Versions \subseteq Nat
  BY SessionAssumption DEF Versions
<1>2. s.lastSent \in [Paths -> Versions \cup {0}] /\ s.timer \in [Paths -> Versions \cup {0}]
      /\ s.fingerprint \in [Paths -> Optional(Fingerprints)]
  BY DEF Session
<1>3. s.fingerprint[p] # None => s.fingerprint[p] \in Fingerprints
  BY <1>2 DEF Optional
<1>4. \A f \in Fingerprints : f.version \in Versions
  BY DEF Fingerprints
<1>5. s.lastSent[p] \in Nat /\ s.timer[p] \in Nat
  <2>1. s.lastSent[p] \in Versions \cup {0} /\ s.timer[p] \in Versions \cup {0}
    BY <1>2
  <2>2. Versions \cup {0} \subseteq Nat
    BY <1>1
  <2> QED
    BY <2>1, <2>2, Zenon
<1>6. s.fingerprint[p] # None => s.fingerprint[p].version \in Nat
  BY <1>1, <1>3, <1>4, Zenon
<1> QED
  BY <1>3, <1>5, <1>6, Zenon

\* The user edits, or changes the tabs, and the main thread has not acted on it yet.
LEMMA EditorStep ==
  ASSUME NEW s, NEW out, EnvOK(out), Good(s, out), NEW t \in Session,
         TabsOK(t), VersionsGrow(s, t), SameWorker(s, t), SameDocs(s, t), SamePromises(s, t), SameQueues(s, t),
         t.markers = s.markers
  PROVE  /\ Good(t, out) /\ (Fine(s, out) => Fine(t, out) /\ Carries(s, t, out)) /\ Quiet(s, t)
<1>1. s \in Session /\ Sound(s, out) /\ IdsOK(s, out) /\ RetriesOK(s)
  BY DEF Good, Sound
<1>2. PendingMoves(s, t) /\ t.inbox = s.inbox
  BY <1>1, PendingStays DEF SameQueues
<1>3. ResolversOK(t)
  BY <1>1, ResolversSame DEF Sound
<1>4. Sound(t, out)
  BY <1>1, <1>2, <1>3, SoundRests DEF SameDocs
<1>5. RetriesOK(t) /\ Quiet(s, t)
  BY <1>1 DEF RetriesOK, Quiet, SamePromises, SameQueues, SameWorker
<1>6. ASSUME Fine(s, out) PROVE Fine(t, out) /\ Carries(s, t, out)
  <2>1. VersionsOK(s) /\ Faithful(s, out)
    BY <1>6 DEF Fine, Faithful
  <2>2. ASSUME NEW p \in Paths, s.registered[p] # None
        PROVE  LET m == s.registered[p]
               IN /\ s.version[m] \in Nat /\ t.version[m] \in Nat /\ s.version[m] <= t.version[m]
                  /\ s.lastSent[p] \in Nat /\ s.timer[p] \in Nat
                  /\ s.fingerprint[p] # None => s.fingerprint[p].version \in Nat
    <3>1. s.registered[p] \in Models
      BY <1>1, <2>2, RegisteredModel
    <3>2. /\ s.lastSent[p] \in Nat /\ s.timer[p] \in Nat
          /\ s.fingerprint[p] # None => s.fingerprint[p].version \in Nat
      BY <1>1, PathNats
    <3> QED
      BY <1>1, <3>1, <3>2, VersionNat DEF VersionsGrow
  <2>3. VersionsOK(t)
    <3> SUFFICES ASSUME NEW p \in Paths
                 PROVE  /\ t.registered[p] # None =>
                             /\ t.lastSent[p] <= t.version[t.registered[p]]
                             /\ t.timer[p] <= t.version[t.registered[p]]
                        /\ t.fingerprint[p] # None =>
                             /\ t.registered[p] # None
                             /\ t.fingerprint[p].version <= t.version[t.registered[p]]
      BY DEF VersionsOK
    <3>1. t.registered[p] = s.registered[p] /\ t.lastSent[p] = s.lastSent[p] /\ t.timer[p] = s.timer[p]
          /\ t.fingerprint[p] = s.fingerprint[p]
      BY DEF SameDocs
    <3> QED
      BY <2>1, <2>2, <3>1 DEF VersionsOK
  <2>4. KeepsModels(s, t) /\ \A p \in Paths : Belief(t, p) = Belief(s, p)
    BY DEF KeepsModels, Belief, SameDocs
  <2>5. KeepsResyncs(s, t)
    <3> SUFFICES ASSUME NEW k \in Tracked, NEW p \in Paths, Repeats(t, k, p) PROVE Repeats(s, k, p)
      BY DEF KeepsResyncs
    <3>1. /\ s.registered[p] # None /\ s.fingerprint[p] # None /\ t.registered[p] = s.registered[p]
          /\ s.fingerprint[p].version = t.version[s.registered[p]]
          /\ s.fingerprint[p].pending[k] = s.pending[k][p]
      BY DEF Repeats, SameDocs, SameQueues
    <3>2. s.fingerprint[p].version <= s.version[s.registered[p]]
      BY <2>1, <3>1 DEF VersionsOK
    <3>3. s.fingerprint[p].version = s.version[s.registered[p]]
      BY <2>2, <3>1, <3>2
    <3> QED
      BY <3>1, <3>3 DEF Repeats
  <2>6. Faithful(t, out)
    BY <1>1, <1>2, <2>1, <2>3, <2>4, <2>5, FaithfulRests
  <2>7. \A j \in Kinds, q \in Paths : t.pending[j][q] \in {0, s.pending[j][q]}
    BY DEF SameQueues
  <2>8. Carries(s, t, out)
    BY <1>1, <1>2, <2>5, <2>7, CarriesRests
  <2>9. ModelsOK(t) /\ ClosedOK(t)
    BY <1>6 DEF Fine, ModelsOK, ClosedOK, SamePromises, SameDocs, SameQueues
  <2> QED
    BY <2>6, <2>8, <2>9 DEF Fine
<1> QED
  BY <1>4, <1>5, <1>6 DEF Good

\* The first half of registerModel.
Registered(s, p, m) == [s EXCEPT !.registered[p] = m, !.fingerprint[p] = None]

\* What it does to the record.
RegisteredIn(s, p, m, t) ==
  /\ t \in Session
  /\ t.registered[p] = m /\ t.fingerprint[p] = None
  /\ \A q \in Paths : q # p => t.registered[q] = s.registered[q] /\ t.fingerprint[q] = s.fingerprint[q]
  /\ t.lastSent = s.lastSent /\ t.timer = s.timer
  /\ SameEditor(s, t) /\ SameWorker(s, t) /\ SamePromises(s, t) /\ SameQueues(s, t)
  /\ t.markers = s.markers

\* What registering a model changes, before the worker is told.
LEMMA RegisteredFields ==
  ASSUME NEW s \in Session, NEW p \in Paths, NEW m \in Models
  PROVE  RegisteredIn(s, p, m, Registered(s, p, m))
<1> DEFINE t == Registered(s, p, m)
           f == [s.registered EXCEPT ![p] = m]
           g == [s.fingerprint EXCEPT ![p] = None]
<1>1. s.registered \in [Paths -> Optional(Models)] /\ s.fingerprint \in [Paths -> Optional(Fingerprints)]
  BY DEF Session
<1>2. t = [s EXCEPT !.registered = f, !.fingerprint = g]
  BY Zenon DEF Registered
<1>3. /\ f \in [Paths -> Optional(Models)] /\ g \in [Paths -> Optional(Fingerprints)]
      /\ f[p] = m /\ g[p] = None /\ \A q \in Paths : q # p => f[q] = s.registered[q] /\ g[q] = s.fingerprint[q]
  BY <1>1 DEF Optional
<1> HIDE DEF f, g, t
<1>4. t \in Session
  BY <1>2, <1>3, Zenon DEF Session
<1>5. /\ t.registered = f /\ t.fingerprint = g /\ t.lastSent = s.lastSent /\ t.timer = s.timer
      /\ SameEditor(s, t) /\ SameWorker(s, t) /\ SamePromises(s, t) /\ SameQueues(s, t)
      /\ t.markers = s.markers
  BY <1>2 DEF Session, SameEditor, SameWorker, SamePromises, SameQueues
<1>6. RegisteredIn(s, p, m, t)
  BY <1>3, <1>4, <1>5 DEF RegisteredIn
<1> QED
  BY <1>6 DEF t

\* registerModel, when there is a worker ...
LEMMA RegisterSends ==
  ASSUME NEW s, NEW out, EnvOK(out), Sound(s, out), s.worker # 0, NEW p \in Paths, NEW m \in Models,
         NEW r, r = Registered(s, p, m), NEW t, t = syncModelToWorker(r, s.worker, p)
  PROVE  /\ Sound(t, out) /\ Carries(s, t, out)
         /\ Faithful(s, out) /\ ClosedOK(s) /\ s.registered[p] \in {None, m} => Faithful(t, out)
         /\ SameEditor(s, t) /\ SamePromises(s, t) /\ SameWorker(s, t) /\ t.pending = s.pending
         /\ t.registered = r.registered /\ t.timer = s.timer /\ t.markers = s.markers
         /\ t.lastSent[p] = s.version[m] /\ \A q \in Paths : q # p => t.lastSent[q] = s.lastSent[q]
<1>1. s \in Session /\ s.worker \in Workers
  BY SessionWorker DEF Sound
<1>2. /\ r \in Session
      /\ r.registered[p] = m
      /\ \A q \in Paths : q # p => r.registered[q] = s.registered[q] /\ r.fingerprint[q] = s.fingerprint[q]
      /\ r.fingerprint[p] = None
      /\ r.lastSent = s.lastSent /\ r.timer = s.timer
      /\ SameEditor(s, r) /\ SameWorker(s, r) /\ SamePromises(s, r) /\ SameQueues(s, r)
      /\ r.markers = s.markers
  <2>1. RegisteredIn(s, p, m, r)
    BY <1>1, RegisteredFields
  <2> QED
    BY <2>1, Zenon DEF RegisteredIn
<1>3. Synced(r, s.worker, p, t)
  <2>1. r.registered[p] # None
    BY <1>2, NoneAssumption
  <2> QED
    BY <1>1, <1>2, <2>1, SyncFields
<1> DEFINE d == Doc(s, m)
           msg == [type |-> "open", path |-> p, doc |-> d]
<1>4. d \in Docs /\ d.model = m /\ d.version = s.version[m] /\ d # None
  BY <1>1, DocFields, NoneAssumption
<1>5. Doc(r, r.registered[p]) = d
  BY <1>2 DEF Doc, SameEditor
<1>6. /\ t \in Session
      /\ t.inbox = [s.inbox EXCEPT ![s.worker] = Append(@, msg)]
      /\ t.lastSent = [s.lastSent EXCEPT ![p] = d.version]
      /\ SameEditor(s, t) /\ SameWorker(s, t) /\ SamePromises(s, t)
      /\ t.registered = r.registered /\ t.timer = s.timer /\ t.fingerprint = r.fingerprint
      /\ t.markers = s.markers /\ t.pending = s.pending /\ t.nextRequestId = s.nextRequestId
  BY <1>2, <1>3, <1>5 DEF Synced, SameEditor, SameWorker, SamePromises, SameQueues
<1>7. msg \in ToWorker
  <2> HIDE DEF d
  <2> QED
    BY <1>4 DEF ToWorker
<1>8. Posts(s, t, msg)
  BY <1>1, <1>6, <1>7 DEF Posts
<1>9. msg.type = "open" /\ msg.path = p /\ msg.doc = d
  OBVIOUS
<1> HIDE DEF msg, d
<1>10. PendingMoves(s, t) /\ ResolversOK(t)
  BY <1>1, <1>6, PendingStays, ResolversSame DEF Sound
<1>11. KeepsResyncs(s, t)
  BY <1>2, <1>6 DEF KeepsResyncs, Repeats, SameEditor
<1>12. \A q \in Paths : t.fingerprint[q] \in {None, s.fingerprint[q]}
  BY <1>2, <1>6
<1>13. Sound(t, out)
  BY <1>6, <1>8, <1>9, <1>10, <1>12, SoundPosts
<1>14. Carries(s, t, out)
  BY <1>1, <1>6, <1>8, <1>11, CarriesPosts
<1>15. t.lastSent[p] = s.version[m] /\ \A q \in Paths : q # p => t.lastSent[q] = s.lastSent[q]
  <2>1. s.lastSent \in [Paths -> Versions \cup {0}]
    BY <1>1 DEF Session
  <2> QED
    BY <2>1, <1>4, <1>6
<1>16. ASSUME Faithful(s, out), ClosedOK(s), s.registered[p] \in {None, m} PROVE Faithful(t, out)
  <2>1. s.version[m] \in Nat /\ s.lastSent[p] \in Nat /\ VersionsOK(s)
    BY <1>1, <1>16, VersionNat, PathNats DEF Faithful
  <2>2. s.timer[p] <= s.version[m] /\ s.lastSent[p] <= s.version[m]
    <3>1. CASE s.registered[p] = None
      BY <1>16, <2>1, <3>1 DEF ClosedOK
    <3>2. CASE s.registered[p] = m
      BY <2>1, <3>2, NoneAssumption DEF VersionsOK
    <3> QED
      BY <1>16, <3>1, <3>2
  <2>3. t.registered[p] = m /\ t.fingerprint[p] = None /\ t.timer[p] = s.timer[p] /\ t.version = s.version
        /\ \A q \in Paths : q # p => /\ t.registered[q] = s.registered[q] /\ t.fingerprint[q] = s.fingerprint[q]
                                     /\ t.timer[q] = s.timer[q] /\ t.lastSent[q] = s.lastSent[q]
    BY <1>2, <1>6, <1>15 DEF SameEditor
  <2>4. VersionsOK(t)
    <3> SUFFICES ASSUME NEW q \in Paths
                 PROVE  /\ t.registered[q] # None =>
                             /\ t.lastSent[q] <= t.version[t.registered[q]]
                             /\ t.timer[q] <= t.version[t.registered[q]]
                        /\ t.fingerprint[q] # None =>
                             /\ t.registered[q] # None
                             /\ t.fingerprint[q].version <= t.version[t.registered[q]]
      BY DEF VersionsOK
    <3>1. CASE q = p
      BY <1>15, <2>1, <2>2, <2>3, <3>1
    <3>2. CASE q # p
      BY <2>1, <2>3, <3>2 DEF VersionsOK
    <3> QED
      BY <3>1, <3>2
  <2>5. KeepsModels(s, t)
    <3> SUFFICES ASSUME NEW q \in Paths, t.registered[q] \notin {s.registered[q], None}
                 PROVE  \A k \in Tracked : t.pending[k][q] = 0
      BY DEF KeepsModels
    <3>1. q = p /\ s.registered[p] = None
      BY <1>16, <2>3
    <3> QED
      BY <1>6, <1>16, <3>1 DEF ClosedOK
  <2>6. VersionsGrow(s, t)
    <3>1. \A x \in Models : s.version[x] \in Nat
      BY <1>1, VersionNat
    <3> QED
      BY <2>3, <3>1 DEF VersionsGrow
  <2>7. \A j \in Tracked, q \in Paths : ~IsRequest(t, j, q, msg) /\ ~IsRequest(s, j, q, msg)
    BY <1>9 DEF IsRequest
  <2>8. ASSUME NEW q \in Paths PROVE Belief(t, q) = After(msg, q, Belief(s, q))
    <3>1. CASE q # p
      BY <1>9, <2>3, <3>1 DEF Belief, After
    <3>2. CASE q = p
      <4>1. Belief(t, p) = d
        BY <1>15, <2>3, NoneAssumption DEF Belief, Doc, d
      <4>2. Belief(s, p) = None \/ Belief(s, p).version = s.lastSent[p]
        BY DEF Belief
      <4>3. ~(s.lastSent[p] > d.version)
        BY <1>4, <2>1, <2>2
      <4>4. After(msg, p, Belief(s, p)) = d
        BY <1>9, <4>2, <4>3 DEF After
      <4> QED
        BY <3>2, <4>1, <4>4
    <3> QED
      BY <3>1, <3>2
  <2>9. \A j \in Tracked, q \in Paths : Served(t, j, q, msg, Belief(s, q))
    BY <2>7 DEF Served
  <2> QED
    BY <1>6, <1>8, <1>10, <1>11, <1>16, <2>4, <2>5, <2>6, <2>7, <2>8, <2>9, FaithfulPosts
<1> QED
  BY <1>6, <1>13, <1>14, <1>15, <1>16

\* ... and when there is none: before it is started.
LEMMA RegisterWaits ==
  ASSUME NEW s, NEW out, EnvOK(out), Sound(s, out), s.worker = 0, NEW p \in Paths, NEW m \in Models,
         NEW t, t = Registered(s, p, m)
  PROVE  /\ Sound(t, out) /\ Carries(s, t, out)
         /\ Faithful(s, out) /\ ClosedOK(s) /\ s.registered[p] \in {None, m} => Faithful(t, out)
<1>1. s \in Session
  BY DEF Sound
<1>2. /\ t \in Session
      /\ t.registered[p] = m
      /\ \A q \in Paths : q # p => t.registered[q] = s.registered[q] /\ t.fingerprint[q] = s.fingerprint[q]
      /\ t.fingerprint[p] = None
      /\ t.lastSent = s.lastSent /\ t.timer = s.timer
      /\ SameEditor(s, t) /\ SameWorker(s, t) /\ SamePromises(s, t) /\ SameQueues(s, t)
  <2>1. RegisteredIn(s, p, m, t)
    BY <1>1, RegisteredFields
  <2> QED
    BY <2>1, Zenon DEF RegisteredIn
<1>3. PendingMoves(s, t) /\ ResolversOK(t) /\ TabsOK(t) /\ t.inbox = s.inbox
  BY <1>1, <1>2, PendingStays, ResolversSame, TabsKept DEF Sound, SameQueues
<1>4. KeepsResyncs(s, t)
  BY <1>2 DEF KeepsResyncs, Repeats, SameEditor, SameQueues
<1>5. \A q \in Paths : t.fingerprint[q] \in {None, s.fingerprint[q]}
  BY <1>2
<1>6. Sound(t, out)
  BY <1>2, <1>3, <1>5, SoundRests
<1>7. \A j \in Kinds, q \in Paths : t.pending[j][q] \in {0, s.pending[j][q]}
  BY <1>2 DEF SameQueues
<1>8. Carries(s, t, out)
  BY <1>1, <1>2, <1>3, <1>4, <1>7, CarriesRests
<1>9. ASSUME Faithful(s, out), ClosedOK(s), s.registered[p] \in {None, m} PROVE Faithful(t, out)
  <2>1. s.version[m] \in Nat /\ s.lastSent[p] \in Nat /\ VersionsOK(s)
    BY <1>1, <1>9, VersionNat, PathNats DEF Faithful
  <2>2. s.timer[p] <= s.version[m] /\ s.lastSent[p] <= s.version[m]
    <3>1. CASE s.registered[p] = None
      BY <1>9, <2>1, <3>1 DEF ClosedOK
    <3>2. CASE s.registered[p] = m
      BY <2>1, <3>2, NoneAssumption DEF VersionsOK
    <3> QED
      BY <1>9, <3>1, <3>2
  <2>3. t.version = s.version /\ t.pending = s.pending
    BY <1>2 DEF SameEditor, SameQueues
  <2>4. VersionsOK(t)
    <3> SUFFICES ASSUME NEW q \in Paths
                 PROVE  /\ t.registered[q] # None =>
                             /\ t.lastSent[q] <= t.version[t.registered[q]]
                             /\ t.timer[q] <= t.version[t.registered[q]]
                        /\ t.fingerprint[q] # None =>
                             /\ t.registered[q] # None
                             /\ t.fingerprint[q].version <= t.version[t.registered[q]]
      BY DEF VersionsOK
    <3>1. CASE q = p
      BY <1>2, <2>2, <2>3, <3>1
    <3>2. CASE q # p
      BY <1>2, <2>1, <2>3, <3>2 DEF VersionsOK
    <3> QED
      BY <3>1, <3>2
  <2>5. KeepsModels(s, t)
    <3> SUFFICES ASSUME NEW q \in Paths, t.registered[q] \notin {s.registered[q], None}
                 PROVE  \A k \in Tracked : t.pending[k][q] = 0
      BY DEF KeepsModels
    <3>1. q = p /\ s.registered[p] = None
      BY <1>2, <1>9
    <3> QED
      BY <1>9, <2>3, <3>1 DEF ClosedOK
  <2>6. VersionsGrow(s, t)
    <3>1. \A x \in Models : s.version[x] \in Nat
      BY <1>1, VersionNat
    <3> QED
      BY <2>3, <3>1 DEF VersionsGrow
  <2> QED
    BY <1>2, <1>3, <1>4, <1>9, <2>4, <2>5, <2>6, FaithfulRests
<1> QED
  BY <1>6, <1>8, <1>9

\* registerModel.
LEMMA RegisterStep ==
  ASSUME NEW s, NEW out, EnvOK(out), Good(s, out), NEW p \in Paths, NEW m \in Models,
         NEW t, t = registerModel(s, p, m)
  PROVE  /\ Good(t, out) /\ Carries(s, t, out)
         /\ Fine(s, out) /\ s.registered[p] \in {None, m} => Fine(t, out)
         /\ SameEditor(s, t) /\ SamePromises(s, t) /\ t.worker # 0 /\ t.pending = s.pending
         /\ t.timer = s.timer /\ t.markers = s.markers /\ t.lastSent[p] = s.version[m]
         /\ t.registered[p] = m /\ \A q \in Paths : q # p => t.registered[q] = s.registered[q]
<1> DEFINE r == Registered(s, p, m)
<1>1. s \in Session /\ Sound(s, out) /\ RetriesOK(s)
  BY DEF Good, Sound
<1>2. /\ r \in Session
      /\ r.registered[p] = m /\ r.fingerprint[p] = None
      /\ \A q \in Paths : q # p => r.registered[q] = s.registered[q]
      /\ r.lastSent = s.lastSent /\ r.timer = s.timer
      /\ SameEditor(s, r) /\ SameWorker(s, r) /\ SamePromises(s, r) /\ SameQueues(s, r)
      /\ r.markers = s.markers
  <2>1. RegisteredIn(s, p, m, r)
    BY <1>1, RegisteredFields
  <2> QED
    BY <2>1, Zenon DEF RegisteredIn
<1>3. t = IF r.worker # 0 THEN syncModelToWorker(r, r.worker, p) ELSE createWorker(r)
  BY Zenon DEF registerModel, Registered
<1> DEFINE Kept == /\ Sound(t, out) /\ RetriesOK(t) /\ Carries(s, t, out)
                   /\ Faithful(s, out) /\ ClosedOK(s) /\ s.registered[p] \in {None, m} => Faithful(t, out)
                   /\ SameEditor(s, t) /\ SamePromises(s, t) /\ t.worker # 0 /\ t.pending = s.pending
                   /\ t.registered = r.registered /\ t.timer = s.timer /\ t.markers = s.markers
                   /\ t.lastSent[p] = s.version[m]
                   /\ \A q \in Paths : q # p /\ s.registered[q] = None => t.lastSent[q] = s.lastSent[q]
<1>4. Kept
  <2>1. CASE s.worker # 0
    <3>1. r.worker = s.worker
      BY <1>2 DEF SameWorker
    <3>2. t = syncModelToWorker(r, s.worker, p)
      BY <1>3, <2>1, <3>1
    <3> HIDE DEF r
    <3>3. /\ Sound(t, out) /\ Carries(s, t, out)
          /\ Faithful(s, out) /\ ClosedOK(s) /\ s.registered[p] \in {None, m} => Faithful(t, out)
          /\ SameEditor(s, t) /\ SamePromises(s, t) /\ SameWorker(s, t) /\ t.pending = s.pending
          /\ t.registered = r.registered /\ t.timer = s.timer /\ t.markers = s.markers
          /\ t.lastSent[p] = s.version[m] /\ \A q \in Paths : q # p => t.lastSent[q] = s.lastSent[q]
      BY <1>1, <2>1, <3>2, RegisterSends DEF r
    <3>4. RetriesOK(t)
      BY <1>1, <3>3, RetriesKept DEF SameWorker
    <3> QED
      BY <2>1, <3>3, <3>4 DEF SameWorker
  <2>2. CASE s.worker = 0
    <3>1. r.worker = 0
      BY <1>2, <2>2 DEF SameWorker
    <3>2. t = createWorker(r)
      BY <1>3, <3>1
    <3>3. /\ Sound(r, out) /\ Carries(s, r, out)
          /\ Faithful(s, out) /\ ClosedOK(s) /\ s.registered[p] \in {None, m} => Faithful(r, out)
      BY <1>1, <2>2, RegisterWaits
    <3> HIDE DEF r
    <3>4. RetriesOK(r)
      BY <1>1, <1>2, <2>2, <3>1, RetriesKept DEF SameQueues
    <3>5. /\ Sound(t, out) /\ (Faithful(r, out) => Faithful(t, out)) /\ Carries(r, t, out)
          /\ t.worker # 0 /\ RetriesOK(t) /\ \A q \in Paths : t.lastSent[q] = Sent(r, q)
          /\ SameEditor(r, t) /\ SamePromises(r, t)
          /\ t.registered = r.registered /\ t.timer = r.timer /\ t.fingerprint = r.fingerprint
          /\ t.markers = r.markers /\ t.pending = r.pending /\ t.nextRequestId = r.nextRequestId
      BY <3>1, <3>2, <3>3, <3>4, CreateStep
    <3>6. Carries(s, t, out)
      BY <3>3, <3>5, CarriesTransitive
    <3>7. t.lastSent[p] = s.version[m]
      BY <1>2, <3>5, NoneAssumption DEF Sent, SameEditor
    <3>8. \A q \in Paths : q # p /\ s.registered[q] = None => t.lastSent[q] = s.lastSent[q]
      BY <1>2, <3>5 DEF Sent
    <3>9. SameEditor(s, t) /\ SamePromises(s, t) /\ t.pending = s.pending /\ t.timer = s.timer /\ t.markers = s.markers
      BY <1>2, <3>5 DEF SameEditor, SamePromises, SameQueues
    <3> QED
      BY <3>3, <3>5, <3>6, <3>7, <3>8, <3>9
  <2> QED
    BY <2>1, <2>2
<1> HIDE DEF r
<1>5. t.registered[p] = m /\ \A q \in Paths : q # p => t.registered[q] = s.registered[q]
  BY <1>2, <1>4
<1>6. ASSUME Fine(s, out), s.registered[p] \in {None, m} PROVE Fine(t, out)
  <2>1. Faithful(t, out)
    BY <1>4, <1>6 DEF Fine
  <2>2. ClosedOK(t)
    BY <1>4, <1>5, <1>6, NoneAssumption DEF Fine, ClosedOK
  <2>3. ModelsOK(t)
    <3> SUFFICES ASSUME NEW k \in Kinds, NEW q \in Paths, s.retry[k][q] # None, t.registered[q] # None
                 PROVE  s.retry[k][q].model = t.registered[q]
      BY <1>4 DEF ModelsOK, SamePromises
    <3>1. s.registered[q] # None
      BY <1>1, <1>6, KindsTracked DEF Fine, ClosedOK, RetriesOK
    <3>2. t.registered[q] = s.registered[q]
      BY <1>5, <1>6, <3>1
    <3> QED
      BY <1>6, <3>1, <3>2 DEF Fine, ModelsOK
  <2> QED
    BY <2>1, <2>2, <2>3 DEF Fine
<1> QED
  BY <1>4, <1>5, <1>6 DEF Good

\* updateDocument, of a model that has just been registered.
LEMMA UpdateStep ==
  ASSUME NEW s, NEW out, EnvOK(out), Good(s, out), s.worker # 0, NEW p \in Paths, NEW m \in Models,
         s.registered[p] = m, s.lastSent[p] = s.version[m],
         NEW t, t = updateDocument(s, p, s.version[m])
  PROVE  /\ Good(t, out) /\ Carries(s, t, out) /\ (Fine(s, out) => Fine(t, out))
         /\ SameEditor(s, t) /\ SamePromises(s, t) /\ SameWorker(s, t)
         /\ t.registered = s.registered /\ t.markers = s.markers
<1> DEFINE v == s.version[m]
           d == [model |-> m, version |-> v]
           msg == [type |-> "update", path |-> p, previous |-> v, doc |-> d]
           u == Post(s, s.worker, msg)
           f == [s.fingerprint EXCEPT ![p] = None]
           g == [s.lastSent EXCEPT ![p] = v]
           h == [s.timer EXCEPT ![p] = v]
<1>1. s \in Session /\ s.worker \in Workers /\ Sound(s, out) /\ RetriesOK(s)
  BY SessionWorker DEF Good, Sound
<1>2. v \in Versions /\ v \in Nat \ {0} /\ m # None
  BY <1>1, VersionNat, NoneAssumption DEF Session
<1>3. d \in Docs /\ d # None
  <2>1. d \in Docs
    BY <1>2 DEF Docs
  <2> QED
    BY <2>1, NoneAssumption
<1>4. msg \in ToWorker
  <2> HIDE DEF d, v
  <2> QED
    BY <1>2, <1>3 DEF ToWorker
<1>5. /\ s.fingerprint \in [Paths -> Optional(Fingerprints)] /\ s.lastSent \in [Paths -> Versions \cup {0}]
      /\ s.timer \in [Paths -> Versions \cup {0}]
  BY <1>1 DEF Session
<1>6. t = [u EXCEPT !.fingerprint = f, !.lastSent = g, !.timer = h]
  <2>1. getWorker(s) = s
    BY DEF getWorker
  <2> DEFINE w == IF s.lastSent[p] # 0 THEN s.lastSent[p] ELSE v - 1
  <2>2. w = v
    BY <1>2
  <2>3. t = [Post(s, s.worker, [type |-> "update", path |-> p, previous |-> w,
                                doc |-> [model |-> s.registered[p], version |-> v]])
               EXCEPT !.fingerprint[p] = None, !.lastSent[p] = v, !.timer[p] = v]
    BY <2>1, Zenon DEF updateDocument
  <2>4. t = [u EXCEPT !.fingerprint[p] = None, !.lastSent[p] = v, !.timer[p] = v]
    <3> HIDE DEF w, v
    <3> QED
      BY <2>2, <2>3, Zenon
  <2>5. u.fingerprint = s.fingerprint /\ u.lastSent = s.lastSent /\ u.timer = s.timer
    BY <1>1 DEF Post, Session
  <2> HIDE DEF u, v
  <2> QED
    BY <2>4, <2>5, Zenon
<1>7. /\ f \in [Paths -> Optional(Fingerprints)] /\ f[p] = None /\ \A q \in Paths : q # p => f[q] = s.fingerprint[q]
  BY <1>5 DEF Optional
<1>8. /\ g \in [Paths -> Versions \cup {0}] /\ g[p] = v /\ \A q \in Paths : q # p => g[q] = s.lastSent[q]
      /\ h \in [Paths -> Versions \cup {0}] /\ h[p] = v /\ \A q \in Paths : q # p => h[q] = s.timer[q]
  BY <1>2, <1>5
<1>9. /\ u \in Session
      /\ u.inbox = [s.inbox EXCEPT ![s.worker] = Append(@, msg)]
      /\ SameEditor(s, u) /\ SameWorker(s, u) /\ SameDocs(s, u) /\ SamePromises(s, u)
      /\ u.markers = s.markers /\ u.pending = s.pending /\ u.nextRequestId = s.nextRequestId
  <2> HIDE DEF msg
  <2> QED
    BY <1>1, <1>4, PostFields, ZenonT(60)
<1>10. msg.type = "update" /\ msg.path = p /\ msg.previous = v /\ msg.doc = d /\ d.version = v
  OBVIOUS
<1> HIDE DEF u, f, g, h, msg
<1>11. t \in Session
  <2> DEFINE a == [u EXCEPT !.fingerprint = f]
  <2>1. a \in Session
    BY <1>7, <1>9, Zenon DEF Session
  <2>2. t = [a EXCEPT !.lastSent = g, !.timer = h]
    BY <1>6, Zenon
  <2> HIDE DEF a
  <2> QED
    BY <1>8, <2>1, <2>2, ZenonT(60) DEF Session
<1>12. /\ t.fingerprint = f /\ t.lastSent = g /\ t.timer = h /\ t.registered = u.registered
       /\ SameEditor(u, t) /\ SameWorker(u, t) /\ SamePromises(u, t) /\ SameQueues(u, t) /\ t.markers = u.markers
  BY <1>6, <1>9 DEF Session, SameEditor, SameWorker, SamePromises, SameQueues
<1>13. /\ t.inbox = [s.inbox EXCEPT ![s.worker] = Append(@, msg)]
       /\ SameEditor(s, t) /\ SameWorker(s, t) /\ SamePromises(s, t)
       /\ t.registered = s.registered /\ t.markers = s.markers
       /\ t.pending = s.pending /\ t.nextRequestId = s.nextRequestId
  BY <1>9, <1>12 DEF SameEditor, SameWorker, SamePromises, SameQueues, SameDocs
<1>14. Posts(s, t, msg)
  BY <1>1, <1>4, <1>13 DEF Posts
<1>15. PendingMoves(s, t) /\ ResolversOK(t)
  BY <1>1, <1>13, PendingStays, ResolversSame DEF Sound
<1>16. KeepsResyncs(s, t)
  BY <1>7, <1>12, <1>13 DEF KeepsResyncs, Repeats, SameEditor
<1>17. \A q \in Paths : t.fingerprint[q] \in {None, s.fingerprint[q]}
  BY <1>7, <1>12
<1>18. Sound(t, out)
  BY <1>1, <1>10, <1>11, <1>13, <1>14, <1>15, <1>17, SoundPosts
<1>19. Carries(s, t, out)
  BY <1>1, <1>11, <1>13, <1>14, <1>16, CarriesPosts
<1>20. RetriesOK(t)
  BY <1>1, <1>13, RetriesKept DEF SameWorker
<1>21. ASSUME Fine(s, out) PROVE Fine(t, out)
  <2>1. Faithful(s, out) /\ VersionsOK(s)
    BY <1>21 DEF Fine, Faithful
  <2>2. VersionsOK(t)
    <3> SUFFICES ASSUME NEW q \in Paths
                 PROVE  /\ t.registered[q] # None =>
                             /\ t.lastSent[q] <= t.version[t.registered[q]]
                             /\ t.timer[q] <= t.version[t.registered[q]]
                        /\ t.fingerprint[q] # None =>
                             /\ t.registered[q] # None
                             /\ t.fingerprint[q].version <= t.version[t.registered[q]]
      BY DEF VersionsOK
    <3>1. t.version = s.version /\ t.registered = s.registered
      BY <1>13 DEF SameEditor
    <3>2. CASE q = p
      BY <1>2, <1>7, <1>8, <1>12, <3>1, <3>2
    <3>3. CASE q # p
      BY <1>7, <1>8, <1>12, <2>1, <3>1, <3>3 DEF VersionsOK
    <3> QED
      BY <3>2, <3>3
  <2>3. KeepsModels(s, t) /\ VersionsGrow(s, t)
    <3>1. \A x \in Models : s.version[x] \in Nat
      BY <1>1, VersionNat
    <3> QED
      BY <1>13, <3>1 DEF KeepsModels, VersionsGrow, SameEditor
  <2>4. \A j \in Tracked, q \in Paths : ~IsRequest(t, j, q, msg) /\ ~IsRequest(s, j, q, msg)
    BY <1>10 DEF IsRequest
  <2>5. ASSUME NEW q \in Paths PROVE Belief(t, q) = After(msg, q, Belief(s, q))
    <3>1. CASE q # p
      <4>1. Belief(t, q) = Belief(s, q)
        BY <1>8, <1>12, <1>13, <3>1 DEF Belief
      <4> QED
        BY <1>10, <3>1, <4>1 DEF After
    <3>2. CASE q = p
      <4>1. Belief(t, p) = d /\ Belief(s, p) = d
        BY <1>2, <1>8, <1>12, <1>13 DEF Belief
      <4>2. After(msg, p, d) = d
        BY <1>10 DEF After
      <4> QED
        BY <3>2, <4>1, <4>2
    <3> QED
      BY <3>1, <3>2
  <2>6. \A j \in Tracked, q \in Paths : Served(t, j, q, msg, Belief(s, q))
    BY <2>4 DEF Served
  <2>7. Faithful(t, out)
    BY <1>1, <1>11, <1>13, <1>14, <1>15, <1>16, <2>1, <2>2, <2>3, <2>4, <2>5, <2>6, FaithfulPosts
  <2>8. ModelsOK(t)
    BY <1>13, <1>21 DEF Fine, ModelsOK, SamePromises
  <2>9. ClosedOK(t)
    BY <1>2, <1>8, <1>12, <1>13, <1>21 DEF Fine, ClosedOK
  <2> QED
    BY <2>7, <2>8, <2>9 DEF Fine
<1> QED
  BY <1>13, <1>18, <1>19, <1>20, <1>21 DEF Good

\* What happens to the model of a path: it is registered for good, or forgotten.
Reregisters(s, t) == \A p \in Paths : s.registered[p] # None => t.registered[p] \in {None, s.registered[p]}

\* syncActiveEditorToLsp: the model of a tab, of which path it is.
LEMMA SyncActiveStep ==
  ASSUME NEW s, NEW out, EnvOK(out), Good(s, out), NEW m \in Models, IsOpen(s, m),
         NEW t, t = syncActiveEditorToLsp(s, m)
  PROVE  /\ Good(t, out) /\ Carries(s, t, out) /\ Quiet(s, t) /\ SameEditor(s, t)
         /\ Fine(s, out) /\ Reregisters(s, t) => Fine(t, out)
         /\ t.registered[s.tab[m]] = m
         /\ \A q \in Paths : q # s.tab[m] => t.registered[q] = s.registered[q]
<1> DEFINE p == s.tab[m]
           u == registerModel(s, p, m)
<1>1. p \in Paths
  BY DEF IsOpen
<1>2. t = updateDocument(u, p, s.version[m])
  BY Zenon DEF syncActiveEditorToLsp
<1> HIDE DEF p
<1>3. /\ Good(u, out) /\ Carries(s, u, out)
      /\ Fine(s, out) /\ s.registered[p] \in {None, m} => Fine(u, out)
      /\ SameEditor(s, u) /\ SamePromises(s, u) /\ u.worker # 0
      /\ u.markers = s.markers /\ u.lastSent[p] = s.version[m]
      /\ u.registered[p] = m /\ \A q \in Paths : q # p => u.registered[q] = s.registered[q]
  BY <1>1, RegisterStep
<1> HIDE DEF u
<1>4. u.version = s.version
  BY <1>3 DEF SameEditor
<1>5. /\ Good(t, out) /\ Carries(u, t, out) /\ (Fine(u, out) => Fine(t, out))
      /\ SameEditor(u, t) /\ SamePromises(u, t)
      /\ t.registered = u.registered /\ t.markers = u.markers
  BY <1>1, <1>2, <1>3, <1>4, UpdateStep
<1>6. Carries(s, t, out)
  BY <1>3, <1>5, CarriesTransitive
<1>7. SameEditor(s, t) /\ Quiet(s, t)
  BY <1>3, <1>5 DEF SameEditor, SamePromises, Quiet
<1>8. Reregisters(s, t) => s.registered[p] \in {None, m}
  BY <1>1, <1>3, <1>5, NoneAssumption DEF Reregisters
<1> QED
  BY <1>3, <1>5, <1>6, <1>7, <1>8 DEF p

\* The first half of unregisterModel: the model is forgotten ...
Forgotten(s, p) ==
  [s EXCEPT !.registered[p] = None, !.fingerprint[p] = None, !.lastSent[p] = 0,
            !.markers = IF s.registered[p] = None THEN @ ELSE [@ EXCEPT ![s.registered[p]] = None]]

ForgottenIn(s, p, t) ==
  /\ t \in Session
  /\ t.registered[p] = None /\ t.fingerprint[p] = None /\ t.lastSent[p] = 0
  /\ \A q \in Paths : q # p => /\ t.registered[q] = s.registered[q] /\ t.fingerprint[q] = s.fingerprint[q]
                               /\ t.lastSent[q] = s.lastSent[q]
  /\ t.timer = s.timer
  /\ SameEditor(s, t) /\ SameWorker(s, t) /\ SamePromises(s, t) /\ SameQueues(s, t)
  /\ \A m \in Models : t.markers[m] \in {s.markers[m], None}

\* What forgetting a path changes, before the worker is told.
LEMMA ForgottenFields ==
  ASSUME NEW s \in Session, NEW p \in Paths
  PROVE  ForgottenIn(s, p, Forgotten(s, p))
<1> DEFINE t == Forgotten(s, p)
           f == [s.registered EXCEPT ![p] = None]
           g == [s.fingerprint EXCEPT ![p] = None]
           h == [s.lastSent EXCEPT ![p] = 0]
           x == s.registered[p]
           e == IF x = None THEN s.markers ELSE [s.markers EXCEPT ![x] = None]
<1>1. s.registered \in [Paths -> Optional(Models)] /\ s.fingerprint \in [Paths -> Optional(Fingerprints)]
      /\ s.lastSent \in [Paths -> Versions \cup {0}] /\ s.markers \in [Models -> Optional(Docs)]
  BY DEF Session
<1>2. t = [s EXCEPT !.registered = f, !.fingerprint = g, !.lastSent = h, !.markers = e]
  BY Zenon DEF Forgotten
<1>3. /\ f \in [Paths -> Optional(Models)] /\ g \in [Paths -> Optional(Fingerprints)]
      /\ f[p] = None /\ g[p] = None /\ \A q \in Paths : q # p => f[q] = s.registered[q] /\ g[q] = s.fingerprint[q]
  BY <1>1 DEF Optional
<1>4. h \in [Paths -> Versions \cup {0}] /\ h[p] = 0 /\ \A q \in Paths : q # p => h[q] = s.lastSent[q]
  BY <1>1
<1>5. e \in [Models -> Optional(Docs)] /\ \A m \in Models : e[m] \in {s.markers[m], None}
  <2> HIDE DEF x
  <2> QED
    BY <1>1 DEF Optional
<1> HIDE DEF f, g, h, e, t
<1>6. t \in Session
  <2> DEFINE a == [s EXCEPT !.registered = f, !.fingerprint = g]
  <2>1. a \in Session
    BY <1>3, Zenon DEF Session
  <2>2. t = [a EXCEPT !.lastSent = h, !.markers = e]
    BY <1>2, Zenon
  <2> HIDE DEF a
  <2> QED
    BY <1>4, <1>5, <2>1, <2>2, ZenonT(60) DEF Session
<1>7. /\ t.registered = f /\ t.fingerprint = g /\ t.lastSent = h /\ t.markers = e /\ t.timer = s.timer
      /\ SameEditor(s, t) /\ SameWorker(s, t) /\ SamePromises(s, t) /\ SameQueues(s, t)
  BY <1>2 DEF Session, SameEditor, SameWorker, SamePromises, SameQueues
<1>8. ForgottenIn(s, p, t)
  BY <1>3, <1>4, <1>5, <1>6, <1>7 DEF ForgottenIn
<1> QED
  BY <1>8 DEF t

\* ... and the worker, if there is one, is told so.
Closed(s, p) ==
  IF s.worker = 0 THEN Forgotten(s, p) ELSE Post(Forgotten(s, p), s.worker, [type |-> "close", path |-> p])

\* A path is forgotten and its closing is posted: the worker will have no document of it.
LEMMA CloseStep ==
  ASSUME NEW s, NEW out, EnvOK(out), Good(s, out), NEW p \in Paths, NEW t, t = Closed(s, p)
  PROVE  /\ Good(t, out) /\ Carries(s, t, out)
         /\ (Faithful(s, out) => Faithful(t, out)) /\ (ModelsOK(s) => ModelsOK(t))
         /\ SameEditor(s, t) /\ SameWorker(s, t) /\ SamePromises(s, t) /\ t.pending = s.pending /\ t.timer = s.timer
         /\ t.registered[p] = None /\ t.lastSent[p] = 0
         /\ \A q \in Paths : q # p => t.registered[q] = s.registered[q] /\ t.lastSent[q] = s.lastSent[q]
         /\ \A m \in Models : t.markers[m] \in {s.markers[m], None}
<1> DEFINE f == Forgotten(s, p)
           msg == [type |-> "close", path |-> p]
<1>1. s \in Session /\ Sound(s, out) /\ RetriesOK(s)
  BY DEF Good, Sound
<1>2. ForgottenIn(s, p, f)
  BY <1>1, ForgottenFields
<1>3. msg \in ToWorker /\ msg.type = "close" /\ msg.path = p
  BY DEF ToWorker
<1>4. t = IF s.worker = 0 THEN f ELSE Post(f, s.worker, msg)
  BY Zenon DEF Closed
<1> HIDE DEF f, msg
<1>5. /\ t \in Session
      /\ SameEditor(s, t) /\ SameWorker(s, t) /\ SamePromises(s, t)
      /\ t.pending = s.pending /\ t.timer = s.timer /\ t.nextRequestId = s.nextRequestId
      /\ t.registered[p] = None /\ t.lastSent[p] = 0 /\ t.fingerprint[p] = None
      /\ \A q \in Paths : q # p => /\ t.registered[q] = s.registered[q] /\ t.lastSent[q] = s.lastSent[q]
                                   /\ t.fingerprint[q] = s.fingerprint[q]
      /\ \A m \in Models : t.markers[m] \in {s.markers[m], None}
      /\ s.worker = 0 => t.inbox = s.inbox
      /\ s.worker # 0 => Posts(s, t, msg)
  <2>1. CASE s.worker = 0
    <3>1. t = f
      BY <1>4, <2>1
    <3> QED
      BY <1>2, <2>1, <3>1 DEF ForgottenIn, SameQueues
  <2>2. CASE s.worker # 0
    <3>1. s.worker \in Workers /\ f \in Session
      BY <1>1, <1>2, <2>2, SessionWorker DEF ForgottenIn
    <3>2. t = Post(f, s.worker, msg)
      BY <1>4, <2>2
    <3>3. /\ t \in Session
          /\ t.inbox = [f.inbox EXCEPT ![s.worker] = Append(@, msg)]
          /\ SameEditor(f, t) /\ SameWorker(f, t) /\ SameDocs(f, t) /\ SamePromises(f, t)
          /\ t.markers = f.markers /\ t.pending = f.pending /\ t.nextRequestId = f.nextRequestId
      BY <1>3, <3>1, <3>2, PostFields
    <3>4. /\ SameEditor(s, t) /\ SameWorker(s, t) /\ SamePromises(s, t)
          /\ t.pending = s.pending /\ t.timer = s.timer /\ t.nextRequestId = s.nextRequestId
          /\ t.inbox = [s.inbox EXCEPT ![s.worker] = Append(@, msg)]
      BY <1>2, <3>3 DEF ForgottenIn, SameEditor, SameWorker, SameDocs, SamePromises, SameQueues
    <3>5. /\ t.registered[p] = None /\ t.lastSent[p] = 0 /\ t.fingerprint[p] = None
          /\ \A q \in Paths : q # p => /\ t.registered[q] = s.registered[q] /\ t.lastSent[q] = s.lastSent[q]
                                       /\ t.fingerprint[q] = s.fingerprint[q]
          /\ \A m \in Models : t.markers[m] \in {s.markers[m], None}
      BY <1>2, <3>3 DEF ForgottenIn, SameDocs
    <3>6. Posts(s, t, msg)
      BY <1>3, <3>1, <3>4 DEF Posts
    <3> QED
      BY <2>2, <3>3, <3>4, <3>5, <3>6
  <2> QED
    BY <2>1, <2>2
<1>6. PendingMoves(s, t) /\ ResolversOK(t) /\ TabsOK(t)
  BY <1>1, <1>5, PendingStays, ResolversSame, TabsKept DEF Sound
<1>7. KeepsResyncs(s, t)
  <2> SUFFICES ASSUME NEW k \in Tracked, NEW q \in Paths, Repeats(t, k, q) PROVE Repeats(s, k, q)
    BY DEF KeepsResyncs
  <2>1. q # p
    BY <1>5 DEF Repeats
  <2> QED
    BY <1>5, <2>1 DEF Repeats, SameEditor
<1>8. \A q \in Paths : t.fingerprint[q] \in {None, s.fingerprint[q]}
  BY <1>5
<1>9. Sound(t, out)
  <2>1. CASE s.worker = 0
    BY <1>1, <1>5, <1>6, <1>8, <2>1, SoundRests
  <2>2. CASE s.worker # 0
    BY <1>1, <1>3, <1>5, <1>6, <1>8, <2>2, SoundPosts
  <2> QED
    BY <2>1, <2>2
<1>10. Carries(s, t, out)
  <2>1. CASE s.worker = 0
    <3>1. \A k \in Kinds, q \in Paths : t.pending[k][q] \in {0, s.pending[k][q]}
      BY <1>5
    <3> QED
      BY <1>1, <1>5, <1>7, <2>1, <3>1, CarriesRests
  <2>2. CASE s.worker # 0
    <3>1. \A k \in Kinds, q \in Paths : t.pending[k][q] # 0 /\ t.pending[k][q] # s.pending[k][q]
            => IsRequest(t, k, q, msg)
      BY <1>5
    <3> QED
      BY <1>1, <1>5, <1>7, <2>2, <3>1, CarriesPosts
  <2> QED
    BY <2>1, <2>2
<1>11. RetriesOK(t)
  BY <1>1, <1>5, RetriesKept DEF SameWorker
<1>12. ModelsOK(s) => ModelsOK(t)
  <2>1. \A q \in Paths : t.registered[q] \in {s.registered[q], None}
    BY <1>5
  <2> QED
    BY <1>5, <2>1, ModelsKept
<1>13. ASSUME Faithful(s, out) PROVE Faithful(t, out)
  <2>1. VersionsOK(t)
    <3>1. t.version = s.version
      BY <1>5 DEF SameEditor
    <3> QED
      BY <1>5, <1>13, <3>1 DEF Faithful, VersionsOK
  <2>2. KeepsModels(s, t)
    BY <1>5 DEF KeepsModels
  <2>3. VersionsGrow(s, t)
    <3>1. \A x \in Models : s.version[x] \in Nat
      BY <1>1, VersionNat
    <3> QED
      BY <1>5, <3>1 DEF VersionsGrow, SameEditor
  <2>4. CASE s.worker = 0
    BY <1>1, <1>5, <1>6, <1>7, <1>13, <2>1, <2>2, <2>3, <2>4, FaithfulRests
  <2>5. CASE s.worker # 0
    <3>1. \A j \in Tracked, q \in Paths : ~IsRequest(t, j, q, msg)
      BY <1>3 DEF IsRequest
    <3>2. \A q \in Paths : Belief(t, q) = After(msg, q, Belief(s, q))
      <4> TAKE q \in Paths
      <4>1. CASE q = p
        BY <1>3, <1>5, <4>1 DEF Belief, After
      <4>2. CASE q # p
        BY <1>3, <1>5, <4>2 DEF Belief, After
      <4> QED
        BY <4>1, <4>2
    <3>3. \A j \in Tracked, q \in Paths : Served(t, j, q, msg, Belief(s, q))
      BY <3>1 DEF Served
    <3> QED
      BY <1>1, <1>5, <1>6, <1>7, <1>13, <2>1, <2>2, <2>3, <2>5, <3>1, <3>2, <3>3, FaithfulPosts
  <2> QED
    BY <2>4, <2>5
<1> QED
  BY <1>5, <1>9, <1>10, <1>11, <1>12, <1>13 DEF Good

\* unregisterModel cancels the pending requests of every kind.
CancelAll(s, p) == LET cancel(k, u) == cancelPending(u, k, p) IN FSE!FoldSet(cancel, s, Kinds)

\* The fold of unregisterModel as the recursive function that FoldOver is about.
LEMMA CancelAllIs ==
  ASSUME NEW s, NEW p
  PROVE  CancelAll(s, p) =
           LET g == CHOOSE g : g = [T \in SUBSET Kinds |->
                      IF T = {} THEN s
                      ELSE LET x == CHOOSE y \in T : TRUE IN cancelPending(g[T \ {x}], x, p)]
           IN g[Kinds]
BY Zenon DEF CancelAll, FSE!FoldSet, FSE!MapThenFoldSet

\* From s to t, requests are cancelled, and nothing else happens.
Cancels(s, t, out) ==
  /\ Good(t, out) /\ Carries(s, t, out)
  /\ (Faithful(s, out) => Faithful(t, out)) /\ (ModelsOK(s) => ModelsOK(t))
  /\ SameEditor(s, t) /\ SameWorker(s, t) /\ SameDocs(s, t) /\ Quiet(s, t) /\ t.markers = s.markers
  /\ \A k \in Tracked, q \in Paths : t.pending[k][q] \in {0, s.pending[k][q]}

\* Cancelling one more kind of request.
LEMMA CancelsMore ==
  ASSUME NEW s, NEW u, NEW out, EnvOK(out), s.worker # 0, Cancels(s, u, out),
         NEW k \in Kinds, NEW p \in Paths, NEW t, t = cancelPending(u, k, p)
  PROVE  /\ t \in Session /\ Cancels(s, t, out) /\ t.pending[k][p] = 0
         /\ \A j \in Kinds : u.pending[j][p] = 0 => t.pending[j][p] = 0
<1>1. Good(u, out) /\ u.worker # 0
  BY DEF Cancels, SameWorker
<1>2. /\ Good(t, out) /\ (Faithful(u, out) => Faithful(t, out)) /\ Carries(u, t, out)
      /\ Forgets(u, t, k, p) /\ PendingBecomes(u.pending, t.pending, k, p, 0)
      /\ \A n \in Calls : t.answer[n] = IF n \in u.resolver[k][p] THEN Empty ELSE u.answer[n]
      /\ SameEditor(u, t) /\ SameWorker(u, t) /\ SameDocs(u, t)
      /\ t.markers = u.markers
  BY <1>1, CancelPendingStep
<1>3. Carries(s, t, out)
  BY <1>2, CarriesTransitive DEF Cancels
<1>4. ModelsOK(s) => ModelsOK(t)
  <2> SUFFICES ASSUME ModelsOK(u), NEW j \in Kinds, NEW q \in Paths, t.retry[j][q] # None, t.registered[q] # None
               PROVE  t.retry[j][q].model = t.registered[q]
    BY DEF ModelsOK, Cancels
  <2>1. t.retry[j][q] = u.retry[j][q] /\ t.registered = u.registered
    BY <1>2 DEF Forgets, SameDocs
  <2> QED
    BY <2>1 DEF ModelsOK
<1>5. \A x \in Calls : t.answer[x] \in {u.answer[x], Empty}
  BY <1>2
<1>6. Quiet(s, t)
  BY <1>2, <1>5 DEF Cancels, Quiet
<1>7. \A j \in Tracked, q \in Paths : t.pending[j][q] \in {0, u.pending[j][q]}
  BY <1>2 DEF PendingBecomes
<1>8. \A j \in Tracked, q \in Paths : t.pending[j][q] \in {0, s.pending[j][q]}
  BY <1>7 DEF Cancels
<1>9. SameEditor(s, t) /\ SameWorker(s, t) /\ SameDocs(s, t) /\ t.markers = s.markers
  BY <1>2 DEF Cancels, SameEditor, SameWorker, SameDocs
<1>10. Cancels(s, t, out)
  BY <1>2, <1>3, <1>4, <1>6, <1>8, <1>9 DEF Cancels
<1>11. t.pending[k][p] = 0 /\ \A j \in Kinds : u.pending[j][p] = 0 => t.pending[j][p] = 0
  BY <1>2, <1>7, KindsTracked DEF PendingBecomes
<1>12. t \in Session
  BY <1>2 DEF Good, Sound
<1> QED
  BY <1>10, <1>11, <1>12

\* Every promise of the path is resolved, and every request of it cancelled.
LEMMA CancelAllStep ==
  ASSUME NEW s, NEW out, EnvOK(out), Good(s, out), s.worker # 0, NEW p \in Paths, NEW t, t = CancelAll(s, p)
  PROVE  Cancels(s, t, out) /\ \A k \in Kinds : t.pending[k][p] = 0
<1> DEFINE S == {u \in Session : Cancels(s, u, out)}
           F == [y \in Kinds \X S |-> cancelPending(y[2], y[1], p)]
           Q == {y \in (SUBSET Kinds) \X S : \A k \in y[1] : y[2].pending[k][p] = 0}
<1>1. s \in S
  <2>1. s \in Session
    BY DEF Good, Sound
  <2>2. Carries(s, s, out) /\ Quiet(s, s)
    BY DEF Carries, Quiet
  <2>3. Cancels(s, s, out)
    BY <2>2 DEF Cancels, SameEditor, SameWorker, SameDocs
  <2> QED
    BY <2>1, <2>3
<1>2. ASSUME NEW u \in S, NEW k \in Kinds
      PROVE  /\ cancelPending(u, k, p) \in S /\ cancelPending(u, k, p).pending[k][p] = 0
             /\ \A j \in Kinds : u.pending[j][p] = 0 => cancelPending(u, k, p).pending[j][p] = 0
  BY CancelsMore
<1>3. F \in [Kinds \X S -> S] /\ \A k \in Kinds, u \in S : F[<<k, u>>] = cancelPending(u, k, p)
  BY <1>2
<1>4. <<{}, s>> \in Q
  BY <1>1
<1>5. ASSUME NEW T \in SUBSET Kinds, NEW k \in T, NEW u \in S, <<T \ {k}, u>> \in Q
      PROVE  <<T, F[<<k, u>>]>> \in Q
  <2>1. \A j \in T \ {k} : u.pending[j][p] = 0
    BY <1>5
  <2>2. F[<<k, u>>] = cancelPending(u, k, p) /\ F[<<k, u>>] \in S
    BY <1>2, <1>3
  <2>3. \A j \in T : F[<<k, u>>].pending[j][p] = 0
    <3> HIDE DEF F, S
    <3> QED
      BY <1>2, <2>1, <2>2
  <2> HIDE DEF F, S
  <2> QED
    BY <2>2, <2>3
<1> HIDE DEF S, F, Q
<1>6. IsFiniteSet(Kinds)
  BY SessionAssumption
<1>7. PICK g : IsFold(Kinds, s, F, g) /\ \A T \in SUBSET Kinds : g[T] \in S /\ <<T, g[T]>> \in Q
  <2>1. Foldable(Kinds, S, s, F, Q)
    BY <1>1, <1>3, <1>4, <1>5, <1>6 DEF Foldable
  <2> QED
    BY <2>1, FoldOver
<1> DEFINE Loop(f) == [T \in SUBSET Kinds |-> IF T = {} THEN s
                         ELSE LET x == CHOOSE y \in T : TRUE IN cancelPending(f[T \ {x}], x, p)]
           f == CHOOSE f : f = Loop(f)
<1>8. t = f[Kinds]
  BY CancelAllIs, Zenon
<1>9. g = Loop(g)
  <2>1. \A T \in SUBSET Kinds : T # {} =>
          LET x == CHOOSE y \in T : TRUE IN F[<<x, g[T \ {x}]>>] = cancelPending(g[T \ {x}], x, p)
    <3> SUFFICES ASSUME NEW T \in SUBSET Kinds, T # {}
                 PROVE LET x == CHOOSE y \in T : TRUE IN F[<<x, g[T \ {x}]>>] = cancelPending(g[T \ {x}], x, p)
      OBVIOUS
    <3> DEFINE x == CHOOSE y \in T : TRUE
    <3>1. x \in Kinds /\ T \ {x} \in SUBSET Kinds
      BY Zenon
    <3>2. F[<<x, g[T \ {x}]>>] = cancelPending(g[T \ {x}], x, p)
      <4> HIDE DEF x
      <4> QED
        BY <3>1, <1>3, <1>7, Zenon
    <3> QED
      BY <3>2, Zenon
  <2> QED
    BY <2>1, <1>7, Zenon DEF IsFold
<1>10. f = Loop(f)
  BY <1>9, Zenon
<1> HIDE DEF f
<1>11. f[Kinds] = g[Kinds]
  <2>1. f[{}] = g[{}]
    <3>1. {} \in SUBSET Kinds
      OBVIOUS
    <3> QED
      BY <3>1, <1>9, <1>10, Zenon
  <2>2. \A T \in SUBSET Kinds : T # {} =>
          LET x == CHOOSE y \in T : TRUE IN f[T \ {x}] = g[T \ {x}] => f[T] = g[T]
    <3> SUFFICES ASSUME NEW T \in SUBSET Kinds, T # {}
                 PROVE LET x == CHOOSE y \in T : TRUE IN f[T \ {x}] = g[T \ {x}] => f[T] = g[T]
      OBVIOUS
    <3> DEFINE x == CHOOSE y \in T : TRUE
    <3>1. f[T] = cancelPending(f[T \ {x}], x, p)
      BY <1>10, Zenon
    <3>2. g[T] = cancelPending(g[T \ {x}], x, p)
      BY <1>9, Zenon
    <3> QED
      BY <3>1, <3>2, Zenon
  <2> QED
    BY <1>6, <2>1, <2>2, FoldsAgree, Zenon
<1>12. g[Kinds] \in S /\ <<Kinds, g[Kinds]>> \in Q
  <2>1. Kinds \in SUBSET Kinds
    OBVIOUS
  <2> QED
    BY <2>1, <1>7, Zenon
<1>13. Cancels(s, g[Kinds], out)
  BY <1>12 DEF S
<1>14. \A k \in Kinds : g[Kinds].pending[k][p] = 0
  BY <1>12 DEF Q
<1> QED
  BY <1>8, <1>11, <1>13, <1>14

\* The last of unregisterModel: the debounce timer is stopped.
Stopped(s, p) == [s EXCEPT !.timer[p] = 0]

\* unregisterModel in four steps: close, get a worker, cancel, stop the timer.
LEMMA UnregisterIs ==
  ASSUME NEW s, NEW p
  PROVE  unregisterModel(s, p) =
           LET t == getWorker(Closed(s, p))
           IN Stopped(CancelAll(cancelPendingRequest(t, "diagnostics", p, t.worker), p), p)
BY Zenon DEF unregisterModel, Closed, Forgotten, CancelAll, Stopped

\* Stopping the timer of a path.
LEMMA TimerStep ==
  ASSUME NEW s, NEW out, EnvOK(out), Good(s, out), NEW p \in Paths, NEW t, t = Stopped(s, p)
  PROVE  /\ Good(t, out) /\ Carries(s, t, out)
         /\ (Faithful(s, out) => Faithful(t, out)) /\ (ModelsOK(s) => ModelsOK(t))
         /\ SameEditor(s, t) /\ SamePromises(s, t) /\ SameWorker(s, t) /\ SameQueues(s, t) /\ t.markers = s.markers
         /\ t.registered = s.registered /\ t.lastSent = s.lastSent /\ t.fingerprint = s.fingerprint
         /\ t.timer[p] = 0 /\ \A q \in Paths : q # p => t.timer[q] = s.timer[q]
<1> DEFINE f == [s.timer EXCEPT ![p] = 0]
<1>1. s \in Session /\ Sound(s, out) /\ RetriesOK(s)
  BY DEF Good, Sound
<1>2. t = [s EXCEPT !.timer = f]
  BY Zenon DEF Stopped
<1>3. f \in [Paths -> Versions \cup {0}] /\ f[p] = 0 /\ \A q \in Paths : q # p => f[q] = s.timer[q]
  BY <1>1 DEF Session
<1> HIDE DEF f
<1>4. t \in Session
  <2>1. s \in Session /\ f \in [Paths -> Versions \cup {0}]
    BY <1>1, <1>3
  <2> QED
    BY <1>2, <2>1, ZenonT(60) DEF Session
<1>5. /\ SameEditor(s, t) /\ SamePromises(s, t) /\ SameWorker(s, t) /\ SameQueues(s, t) /\ t.markers = s.markers
      /\ t.registered = s.registered /\ t.lastSent = s.lastSent /\ t.fingerprint = s.fingerprint
      /\ t.timer = f
  BY <1>1, <1>2 DEF Session, SameEditor, SamePromises, SameWorker, SameQueues
<1>6. PendingMoves(s, t) /\ ResolversOK(t) /\ TabsOK(t) /\ t.inbox = s.inbox
  BY <1>1, <1>5, PendingStays, ResolversSame, TabsKept DEF Sound, SameQueues
<1>7. KeepsResyncs(s, t)
  BY <1>5 DEF KeepsResyncs, Repeats, SameEditor, SameQueues
<1>8. Sound(t, out)
  BY <1>1, <1>4, <1>5, <1>6, SoundRests
<1>9. \A j \in Kinds, q \in Paths : t.pending[j][q] \in {0, s.pending[j][q]}
  BY <1>5 DEF SameQueues
<1>10. Carries(s, t, out)
  BY <1>1, <1>4, <1>5, <1>6, <1>7, <1>9, CarriesRests
<1>11. RetriesOK(t) /\ (ModelsOK(s) => ModelsOK(t))
  BY <1>1, <1>5 DEF RetriesOK, ModelsOK, SamePromises, SameWorker, SameQueues
<1>12. ASSUME Faithful(s, out) PROVE Faithful(t, out)
  <2>1. KeepsModels(s, t) /\ VersionsGrow(s, t) /\ \A q \in Paths : Belief(t, q) = Belief(s, q)
    BY <1>1, <1>4, <1>5, SameDocsFacts
  <2>2. VersionsOK(t)
    <3> SUFFICES ASSUME NEW q \in Paths
                 PROVE  /\ t.registered[q] # None =>
                             /\ t.lastSent[q] <= t.version[t.registered[q]]
                             /\ t.timer[q] <= t.version[t.registered[q]]
                        /\ t.fingerprint[q] # None =>
                             /\ t.registered[q] # None
                             /\ t.fingerprint[q].version <= t.version[t.registered[q]]
      BY DEF VersionsOK
    <3>1. t.version = s.version /\ VersionsOK(s)
      BY <1>5, <1>12 DEF SameEditor, Faithful
    <3>2. s.registered[q] # None => s.version[s.registered[q]] \in Nat
      BY <1>1, RegisteredModel, VersionNat
    <3>3. t.timer[q] \in {0, s.timer[q]}
      BY <1>3, <1>5
    <3> QED
      BY <1>5, <3>1, <3>2, <3>3 DEF VersionsOK
  <2> QED
    BY <1>1, <1>4, <1>5, <1>6, <1>7, <1>12, <2>1, <2>2, FaithfulRests
<1> QED
  BY <1>3, <1>5, <1>8, <1>10, <1>11, <1>12 DEF Good

\* unregisterModel: nothing is left of the path.
LEMMA UnregisterStep ==
  ASSUME NEW s, NEW out, EnvOK(out), Good(s, out), NEW p \in Paths, NEW t, t = unregisterModel(s, p)
  PROVE  /\ Good(t, out) /\ Carries(s, t, out) /\ (Fine(s, out) => Fine(t, out)) /\ Quiet(s, t)
         /\ SameEditor(s, t)
         /\ t.registered[p] = None /\ \A q \in Paths : q # p => t.registered[q] = s.registered[q]
<1> DEFINE a == Closed(s, p)
           b == getWorker(a)
           c == cancelPendingRequest(b, "diagnostics", p, b.worker)
           d == CancelAll(c, p)
<1>1. t = Stopped(d, p)
  BY UnregisterIs, Zenon
<1>2. /\ Good(a, out) /\ Carries(s, a, out)
      /\ (Faithful(s, out) => Faithful(a, out)) /\ (ModelsOK(s) => ModelsOK(a))
      /\ SameEditor(s, a) /\ SameWorker(s, a) /\ SamePromises(s, a) /\ a.pending = s.pending /\ a.timer = s.timer
      /\ a.registered[p] = None /\ a.lastSent[p] = 0
      /\ \A q \in Paths : q # p => a.registered[q] = s.registered[q] /\ a.lastSent[q] = s.lastSent[q]
      /\ \A m \in Models : a.markers[m] \in {s.markers[m], None}
  BY CloseStep
<1> HIDE DEF a
<1>3. /\ Sound(b, out) /\ (Faithful(a, out) => Faithful(b, out)) /\ Carries(a, b, out)
      /\ b.worker # 0 /\ RetriesOK(b)
      /\ a.worker # 0 => b = a
      /\ a.worker = 0 => \A q \in Paths : b.lastSent[q] = Sent(a, q)
      /\ SameEditor(a, b) /\ SamePromises(a, b)
      /\ b.registered = a.registered /\ b.timer = a.timer /\ b.fingerprint = a.fingerprint
      /\ b.markers = a.markers /\ b.pending = a.pending /\ b.nextRequestId = a.nextRequestId
  BY <1>2, GetStep DEF Good
<1> HIDE DEF b
<1>4. /\ Sound(c, out) /\ (Faithful(b, out) => Faithful(c, out)) /\ Carries(b, c, out)
      /\ PendingBecomes(b.pending, c.pending, "diagnostics", p, 0)
      /\ SameEditor(b, c) /\ SameWorker(b, c) /\ SamePromises(b, c) /\ SameDocs(b, c)
      /\ c.markers = b.markers
  BY <1>3, KindsTracked, CancelStep
<1> HIDE DEF c
<1>5. Good(c, out) /\ c.worker # 0
  <2>1. \A k \in Kinds, q \in Paths : c.pending[k][q] = 0 <=> b.pending[k][q] = 0
    BY <1>4, KindsTracked DEF PendingBecomes
  <2>2. RetriesOK(c)
    BY <1>3, <1>4, <2>1, RetriesKept DEF SameWorker
  <2> QED
    BY <1>3, <1>4, <2>2 DEF Good, SameWorker
<1>6. Cancels(c, d, out) /\ \A k \in Kinds : d.pending[k][p] = 0
  BY <1>5, CancelAllStep
<1> HIDE DEF d
<1>7. Good(d, out)
  BY <1>6 DEF Cancels
<1>8. /\ Good(t, out) /\ Carries(d, t, out)
      /\ (Faithful(d, out) => Faithful(t, out)) /\ (ModelsOK(d) => ModelsOK(t))
      /\ SameEditor(d, t) /\ SamePromises(d, t) /\ SameWorker(d, t) /\ SameQueues(d, t) /\ t.markers = d.markers
      /\ t.registered = d.registered /\ t.lastSent = d.lastSent /\ t.fingerprint = d.fingerprint
      /\ t.timer[p] = 0 /\ \A q \in Paths : q # p => t.timer[q] = d.timer[q]
  BY <1>1, <1>7, TimerStep
<1>9. Carries(s, t, out)
  <2>1. Carries(s, b, out)
    BY <1>2, <1>3, CarriesTransitive
  <2>2. Carries(b, d, out)
    BY <1>4, <1>6, CarriesTransitive DEF Cancels
  <2>3. Carries(s, d, out)
    BY <2>1, <2>2, CarriesTransitive
  <2> QED
    BY <1>8, <2>3, CarriesTransitive
<1>10. SameEditor(s, t)
  BY <1>2, <1>3, <1>4, <1>6, <1>8 DEF Cancels, SameEditor
<1>11. Quiet(s, t)
  <2>1. Quiet(s, b) /\ c.answer = b.answer /\ c.markers = b.markers
    BY <1>2, <1>3, <1>4 DEF Quiet, SamePromises
  <2>2. Quiet(b, t)
    BY <1>6, <1>8, <2>1 DEF Cancels, Quiet, SamePromises
  <2> QED
    BY <2>1, <2>2, QuietTransitive
<1>12. t.registered[p] = None /\ \A q \in Paths : q # p => t.registered[q] = s.registered[q]
  BY <1>2, <1>3, <1>4, <1>6, <1>8 DEF Cancels, SameDocs
<1>13. ASSUME Fine(s, out) PROVE Fine(t, out)
  <2>1. Faithful(t, out)
    BY <1>2, <1>3, <1>4, <1>6, <1>8, <1>13 DEF Fine, Cancels
  <2>2. ModelsOK(t)
    <3>1. ModelsOK(b)
      BY <1>2, <1>3, <1>13 DEF Fine, ModelsOK, SamePromises
    <3>2. ModelsOK(c)
      BY <1>4, <3>1 DEF ModelsOK, SamePromises, SameDocs
    <3> QED
      BY <1>6, <1>8, <3>2 DEF Cancels
  <2>3. ASSUME NEW q \in Paths, t.registered[q] = None
        PROVE  t.lastSent[q] = 0 /\ t.timer[q] = 0 /\ \A k \in Tracked : t.pending[k][q] = 0
    <3>1. t.lastSent[q] = b.lastSent[q] /\ d.timer = s.timer /\ t.pending = d.pending
      BY <1>2, <1>3, <1>4, <1>6, <1>8 DEF Cancels, SameDocs, SameQueues
    <3>2. b.lastSent[q] = a.lastSent[q]
      <4>1. a.registered[q] = None
        BY <1>3, <1>4, <1>6, <1>8, <2>3 DEF Cancels, SameDocs
      <4> QED
        BY <1>3, <4>1 DEF Sent
    <3>3. \A k \in Tracked : d.pending[k][q] \in {0, c.pending[k][q]}
      BY <1>6 DEF Cancels
    <3>4. CASE q = p
      <4>1. t.lastSent[q] = 0 /\ t.timer[q] = 0
        BY <1>2, <1>8, <3>1, <3>2, <3>4
      <4>2. ASSUME NEW k \in Tracked PROVE t.pending[k][q] = 0
        <5>1. CASE k = "diagnostics"
          BY <1>4, <3>1, <3>3, <3>4, <5>1 DEF PendingBecomes
        <5>2. CASE k \in Kinds
          BY <1>6, <3>1, <3>4, <5>2
        <5> QED
          BY <5>1, <5>2 DEF Tracked
      <4> QED
        BY <4>1, <4>2
    <3>5. CASE q # p
      <4>1. s.registered[q] = None
        BY <1>12, <2>3, <3>5
      <4>2. s.lastSent[q] = 0 /\ s.timer[q] = 0 /\ \A k \in Tracked : s.pending[k][q] = 0
        BY <1>13, <4>1 DEF Fine, ClosedOK
      <4>3. t.lastSent[q] = 0 /\ t.timer[q] = 0
        BY <1>2, <1>8, <3>1, <3>2, <3>5, <4>2
      <4>4. \A k \in Tracked : c.pending[k][q] = s.pending[k][q]
        BY <1>2, <1>3, <1>4, <3>5 DEF PendingBecomes
      <4> QED
        BY <3>1, <3>3, <4>2, <4>3, <4>4
    <3> QED
      BY <3>4, <3>5
  <2>4. ClosedOK(t)
    BY <2>3 DEF ClosedOK
  <2> QED
    BY <2>1, <2>2, <2>4 DEF Fine
<1> QED
  BY <1>8, <1>9, <1>10, <1>11, <1>12, <1>13

(***************************************************************************)
(* Messages from the worker                                                *)
(***************************************************************************)
\* out, without the head of the outbox of worker w.
Popped(out, w) == [out EXCEPT ![w] = Tail(@)]

\* An outbox without its first message.
LEMMA PoppedFields ==
  ASSUME NEW out, EnvOK(out), NEW w \in Workers, out[w] # <<>>, NEW o, o = Popped(out, w)
  PROVE  /\ EnvOK(o) /\ Head(out[w]) \in ToMain
         /\ \E i \in DOMAIN out[w] : out[w][i] = Head(out[w])
         /\ \A v \in Workers : out[v] = <<>> => o[v] = <<>>
         /\ \A v \in Workers : \A i \in DOMAIN o[v] : \E j \in DOMAIN out[v] : o[v][i] = out[v][j]
         /\ \A v \in Workers : \A j \in DOMAIN out[v] :
              (v = w /\ out[v][j] = Head(out[w])) \/ \E i \in DOMAIN o[v] : o[v][i] = out[v][j]
<1>1. out \in [Workers -> Seq(ToMain)] /\ out[w] \in Seq(ToMain)
  BY DEF EnvOK
<1>2. /\ Head(out[w]) \in ToMain /\ Tail(out[w]) \in Seq(ToMain) /\ Head(out[w]) = out[w][1] /\ 1 \in DOMAIN out[w]
      /\ \A i \in DOMAIN Tail(out[w]) : i + 1 \in DOMAIN out[w] /\ Tail(out[w])[i] = out[w][i + 1]
      /\ \A j \in DOMAIN out[w] : j # 1 => j - 1 \in DOMAIN Tail(out[w]) /\ Tail(out[w])[j - 1] = out[w][j]
  BY <1>1
<1>3. o \in [Workers -> Seq(ToMain)] /\ o[w] = Tail(out[w]) /\ \A v \in Workers : v # w => o[v] = out[v]
  BY <1>1, <1>2 DEF Popped
<1>4. EnvOK(o)
  BY <1>3 DEF EnvOK
<1>5. \A v \in Workers : \A i \in DOMAIN o[v] : \E j \in DOMAIN out[v] : o[v][i] = out[v][j]
  <2> SUFFICES ASSUME NEW v \in Workers, NEW i \in DOMAIN o[v]
               PROVE  \E j \in DOMAIN out[v] : o[v][i] = out[v][j]
    OBVIOUS
  <2>1. CASE v # w
    BY <1>3, <2>1
  <2>2. CASE v = w
    <3>1. i + 1 \in DOMAIN out[v] /\ o[v][i] = out[v][i + 1]
      BY <1>2, <1>3, <2>2, Zenon
    <3> QED
      BY <3>1
  <2> QED
    BY <2>1, <2>2
<1>6. \A v \in Workers : \A j \in DOMAIN out[v] :
        (v = w /\ out[v][j] = Head(out[w])) \/ \E i \in DOMAIN o[v] : o[v][i] = out[v][j]
  <2> SUFFICES ASSUME NEW v \in Workers, NEW j \in DOMAIN out[v]
               PROVE  (v = w /\ out[v][j] = Head(out[w])) \/ \E i \in DOMAIN o[v] : o[v][i] = out[v][j]
    OBVIOUS
  <2>1. CASE v # w
    BY <1>3, <2>1
  <2>2. CASE v = w /\ j = 1
    BY <1>2, <2>2
  <2>3. CASE v = w /\ j # 1
    <3>1. j - 1 \in DOMAIN o[v] /\ o[v][j - 1] = out[v][j]
      BY <1>2, <1>3, <2>3, Zenon
    <3> QED
      BY <3>1
  <2> QED
    BY <2>1, <2>2, <2>3
<1> QED
  BY <1>2, <1>3, <1>4, <1>5, <1>6, Zenon

\* Handling a message takes it out of the outbox.
LEMMA PopStep ==
  ASSUME NEW s, NEW out, EnvOK(out), Good(s, out), NEW w \in Workers, out[w] # <<>>, NEW o, o = Popped(out, w)
  PROVE  Good(s, o) /\ (Fine(s, out) => Fine(s, o))
<1>1. /\ \A v \in Workers : out[v] = <<>> => o[v] = <<>>
      /\ \A v \in Workers : \A i \in DOMAIN o[v] : \E j \in DOMAIN out[v] : o[v][i] = out[v][j]
  BY PoppedFields
<1>2. WorkersOK(s, o)
  BY <1>1 DEF Good, Sound, WorkersOK
<1>3. IdsOK(s, o)
  <2>1. \A v \in Workers : \A i \in DOMAIN o[v] : o[v][i].type = "answer" => o[v][i].id < s.nextRequestId
    <3> SUFFICES ASSUME NEW v \in Workers, NEW i \in DOMAIN o[v], o[v][i].type = "answer"
                 PROVE  o[v][i].id < s.nextRequestId
      OBVIOUS
    <3>1. PICK j \in DOMAIN out[v] : o[v][i] = out[v][j]
      BY <1>1
    <3> QED
      BY <3>1 DEF Good, Sound, IdsOK
  <2> QED
    BY <2>1 DEF Good, Sound, IdsOK
<1>4. RepliesOK(s, out) => RepliesOK(s, o)
  <2> SUFFICES ASSUME RepliesOK(s, out), NEW v \in Workers, NEW k \in Tracked, NEW p \in Paths,
                      NEW i \in DOMAIN o[v], IsAnswer(s, k, p, o[v][i]), s.registered[p] # None
               PROVE  /\ o[v][i].version <= s.version[s.registered[p]]
                      /\ o[v][i].result # None =>
                           o[v][i].result = [model |-> s.registered[p], version |-> o[v][i].version]
    BY ZenonT(60) DEF RepliesOK
  <2>1. PICK j \in DOMAIN out[v] : o[v][i] = out[v][j]
    BY <1>1
  <2> QED
    BY <2>1 DEF RepliesOK
<1> QED
  BY <1>2, <1>3, <1>4 DEF Good, Sound, Fine, Faithful

\* Only what the message was about is no longer under way.
LEMMA PopUnderWay ==
  ASSUME NEW s, NEW out, EnvOK(out), Good(s, out), NEW w \in Workers, out[w] # <<>>, NEW o, o = Popped(out, w),
         NEW k \in Kinds, NEW p \in Paths, UnderWay(s, out, k, p)
  PROVE  \/ UnderWay(s, o, k, p)
         \/ IsAnswer(s, k, p, Head(out[w]))
         \/ s.worker # 0 /\ ~Repeats(s, k, p) /\ Head(out[w]) = [type |-> "resync", path |-> p]
<1> DEFINE head == Head(out[w])
           resync == [type |-> "resync", path |-> p]
<1>1. \A v \in Workers : \A j \in DOMAIN out[v] :
        (v = w /\ out[v][j] = head) \/ \E i \in DOMAIN o[v] : o[v][i] = out[v][j]
  BY PoppedFields
<1>2. s.worker # 0 => s.worker \in Workers
  BY SessionWorker DEF Good, Sound
<1> HIDE DEF head, resync
<1>3. CASE s.worker # 0 /\ \E i \in DOMAIN s.inbox[s.worker] : IsRequest(s, k, p, s.inbox[s.worker][i])
  BY <1>3, Zenon DEF UnderWay
<1>4. CASE s.worker # 0 /\ ~Repeats(s, k, p) /\ \E i \in DOMAIN out[s.worker] : out[s.worker][i] = resync
  <2>1. PICK j \in DOMAIN out[s.worker] : out[s.worker][j] = resync
    BY <1>4
  <2>2. CASE out[s.worker][j] = head
    BY <1>4, <2>1, <2>2 DEF head, resync
  <2>3. CASE \E i \in DOMAIN o[s.worker] : o[s.worker][i] = out[s.worker][j]
    BY <1>4, <2>1, <2>3 DEF UnderWay, resync
  <2> QED
    BY <1>1, <1>2, <1>4, <2>2, <2>3
<1>5. CASE \E v \in Workers : \E i \in DOMAIN out[v] : IsAnswer(s, k, p, out[v][i])
  <2>0. PICK v \in Workers : \E j \in DOMAIN out[v] : IsAnswer(s, k, p, out[v][j])
    BY <1>5
  <2>1. PICK j \in DOMAIN out[v] : IsAnswer(s, k, p, out[v][j])
    BY <2>0
  <2>2. CASE out[v][j] = head
    BY <2>1, <2>2 DEF head
  <2>3. CASE \E i \in DOMAIN o[v] : o[v][i] = out[v][j]
    BY <2>1, <2>3 DEF UnderWay
  <2> QED
    BY <1>1, <2>2, <2>3
<1> QED
  BY <1>3, <1>4, <1>5 DEF UnderWay, resync

\* The pending request of kind k and path p is done with.
LEMMA GoneStep ==
  ASSUME NEW s, NEW out, EnvOK(out), Sound(s, out), NEW t \in Session, NEW k \in Tracked, NEW p \in Paths,
         PendingBecomes(s.pending, t.pending, k, p, 0), t.nextRequestId = s.nextRequestId, t.inbox = s.inbox,
         SameEditor(s, t), SameWorker(s, t), ResolversOK(t),
         t.registered = s.registered, t.lastSent = s.lastSent, t.timer = s.timer,
         \A q \in Paths : t.fingerprint[q] \in {None, s.fingerprint[q]}
  PROVE  Sound(t, out) /\ (Faithful(s, out) => Faithful(t, out)) /\ Carries(s, t, out)
<1>1. s \in Session
  BY DEF Sound
<1>2. PendingMoves(s, t) /\ TabsOK(t)
  BY <1>1, PendingGoes, TabsKept DEF Sound
<1>3. \A j \in Tracked, q \in Paths : t.pending[j][q] \in {0, s.pending[j][q]}
  BY DEF PendingBecomes
<1>4. KeepsResyncs(s, t)
  <2> SUFFICES ASSUME NEW j \in Tracked, NEW q \in Paths, t.pending[j][q] # 0, Repeats(t, j, q)
               PROVE  Repeats(s, j, q)
    BY DEF KeepsResyncs
  <2>1. t.pending[j][q] = s.pending[j][q]
    BY <1>3
  <2> QED
    BY <2>1 DEF Repeats, SameEditor
<1>5. Sound(t, out)
  BY <1>2, SoundRests
<1>6. Carries(s, t, out)
  BY <1>1, <1>3, <1>4, KindsTracked, CarriesRests
<1>7. ASSUME Faithful(s, out) PROVE Faithful(t, out)
  <2>1. KeepsModels(s, t) /\ VersionsGrow(s, t) /\ \A q \in Paths : Belief(t, q) = Belief(s, q)
    BY <1>1, SameDocsFacts
  <2>2. VersionsOK(t)
    <3>1. t.version = s.version /\ VersionsOK(s)
      BY <1>7 DEF SameEditor, Faithful
    <3> QED
      BY <3>1 DEF VersionsOK
  <2> QED
    BY <1>2, <1>4, <1>7, <2>1, <2>2, FaithfulRests
<1> QED
  BY <1>5, <1>6, <1>7

\* The pending diagnostics of path p are done with; e are the markers.
Done(s, p) == [s EXCEPT !.pending["diagnostics"][p] = 0, !.fingerprint[p] = None]
Marked(s, m, d) == [s EXCEPT !.markers[m] = d]

DoneIn(s, p, t) ==
  /\ t \in Session
  /\ PendingBecomes(s.pending, t.pending, "diagnostics", p, 0)
  /\ \A q \in Paths : t.fingerprint[q] \in {None, s.fingerprint[q]}
  /\ t.nextRequestId = s.nextRequestId /\ t.inbox = s.inbox
  /\ SameEditor(s, t) /\ SameWorker(s, t) /\ SamePromises(s, t)
  /\ t.registered = s.registered /\ t.lastSent = s.lastSent /\ t.timer = s.timer

\* What taking an answer to a diagnostics request changes ...
LEMMA DoneFields ==
  ASSUME NEW s \in Session, NEW p \in Paths
  PROVE  DoneIn(s, p, Done(s, p)) /\ Done(s, p).markers = s.markers
<1> DEFINE t == Done(s, p)
           f == [s.pending EXCEPT !["diagnostics"][p] = 0]
           g == [s.fingerprint EXCEPT ![p] = None]
<1>1. f \in [Tracked -> [Paths -> Nat]] /\ PendingBecomes(s.pending, f, "diagnostics", p, 0)
  BY KindsTracked, PendingTyped
<1>2. g \in [Paths -> Optional(Fingerprints)] /\ \A q \in Paths : g[q] \in {None, s.fingerprint[q]}
  <2>1. s.fingerprint \in [Paths -> Optional(Fingerprints)]
    BY DEF Session
  <2> QED
    BY <2>1 DEF Optional
<1>3. t = [s EXCEPT !.pending = f, !.fingerprint = g]
  BY Zenon DEF Done
<1> HIDE DEF f, g, t
<1>4. t \in Session
  BY <1>1, <1>2, <1>3, Zenon DEF Session
<1>5. /\ t.pending = f /\ t.fingerprint = g /\ t.nextRequestId = s.nextRequestId /\ t.inbox = s.inbox
      /\ SameEditor(s, t) /\ SameWorker(s, t) /\ SamePromises(s, t)
      /\ t.registered = s.registered /\ t.lastSent = s.lastSent /\ t.timer = s.timer /\ t.markers = s.markers
  BY <1>3 DEF Session, SameEditor, SameWorker, SamePromises
<1>6. DoneIn(s, p, t) /\ t.markers = s.markers
  BY <1>1, <1>2, <1>4, <1>5 DEF DoneIn
<1> QED
  BY <1>6 DEF t

\* ... and what putting its markers on the model adds.
LEMMA MarkedFields ==
  ASSUME NEW s \in Session, NEW p \in Paths, NEW u, DoneIn(s, p, u), u.markers = s.markers,
         NEW m \in Models, NEW d \in Optional(Docs)
  PROVE  /\ DoneIn(s, p, Marked(u, m, d))
         /\ \A x \in Models : Marked(u, m, d).markers[x] = IF x = m THEN d ELSE s.markers[x]
<1> DEFINE t == Marked(u, m, d)
           e == [u.markers EXCEPT ![m] = d]
<1>1. u \in Session /\ u.markers \in [Models -> Optional(Docs)]
  BY DEF DoneIn, Session
<1>2. e \in [Models -> Optional(Docs)] /\ \A x \in Models : e[x] = IF x = m THEN d ELSE s.markers[x]
  BY <1>1
<1>3. t = [u EXCEPT !.markers = e]
  BY Zenon DEF Marked
<1> HIDE DEF e, t
<1>4. t \in Session
  BY <1>1, <1>2, <1>3, Zenon DEF Session
<1>5. /\ t.pending = u.pending /\ t.fingerprint = u.fingerprint
      /\ t.nextRequestId = u.nextRequestId /\ t.inbox = u.inbox
      /\ SameEditor(u, t) /\ SameWorker(u, t) /\ SamePromises(u, t)
      /\ t.registered = u.registered /\ t.lastSent = u.lastSent /\ t.timer = u.timer /\ t.markers = e
  BY <1>1, <1>3 DEF Session, SameEditor, SameWorker, SamePromises
<1>6. DoneIn(s, p, t)
  BY <1>4, <1>5 DEF DoneIn, SameEditor, SameWorker, SamePromises
<1>7. DoneIn(s, p, t) /\ \A x \in Models : t.markers[x] = IF x = m THEN d ELSE s.markers[x]
  BY <1>2, <1>5, <1>6
<1> QED
  BY <1>7 DEF t

\* OnDiagnostics does nothing, or is done with the request and may set the markers.
LEMMA OnDiagnosticsIs ==
  ASSUME NEW s \in Session, NEW msg \in ToMain, msg.type = "answer", NEW t, t = OnDiagnostics(s, msg)
  PROVE  \/ t = s
         \/ /\ DoneIn(s, msg.path, t) /\ s.pending["diagnostics"][msg.path] = msg.id
            /\ \A m \in Models :
                 \/ t.markers[m] \in {s.markers[m], None}
                 \/ /\ m = s.registered[msg.path] /\ t.markers[m] = msg.result /\ msg.result # None
                    /\ ~(msg.version < s.version[m])
<1> DEFINE p == msg.path
           m == s.registered[p]
           done == Done(s, p)
<1>1. p \in Paths /\ msg.result \in Optional(Docs) /\ None \in Optional(Docs) /\ m \in Optional(Models)
  BY DEF ToMain, Optional, Session
<1>2. DoneIn(s, p, done) /\ done.markers = s.markers
  BY <1>1, DoneFields
<1>3. t = IF s.pending["diagnostics"][p] # msg.id THEN s
          ELSE IF msg.result = None THEN (IF m = None THEN done ELSE Marked(done, m, None))
          ELSE IF m = None \/ msg.version < s.version[m] THEN s
          ELSE Marked(done, m, msg.result)
  BY Zenon DEF OnDiagnostics, Done, Marked
<1>4. m # None => m \in Models
  BY <1>1 DEF Optional
<1> HIDE DEF m, done
<1>5. CASE t = s
  BY <1>5
<1>6. CASE s.pending["diagnostics"][p] = msg.id /\ t = done
  BY <1>2, <1>6
<1>7. CASE s.pending["diagnostics"][p] = msg.id /\ m # None /\ t = Marked(done, m, None)
  <2>1. DoneIn(s, p, t) /\ \A x \in Models : t.markers[x] = IF x = m THEN None ELSE s.markers[x]
    BY <1>1, <1>2, <1>4, <1>7, MarkedFields
  <2> QED
    BY <1>7, <2>1
<1>8. CASE /\ s.pending["diagnostics"][p] = msg.id /\ m # None /\ msg.result # None
           /\ ~(msg.version < s.version[m]) /\ t = Marked(done, m, msg.result)
  <2>1. DoneIn(s, p, t) /\ \A x \in Models : t.markers[x] = IF x = m THEN msg.result ELSE s.markers[x]
    BY <1>1, <1>2, <1>4, <1>8, MarkedFields
  <2> QED
    BY <1>8, <2>1 DEF m
<1> QED
  BY <1>3, <1>5, <1>6, <1>7, <1>8

\* An answer to a diagnostics request: markers are set on the path's present model only,
\* from the answer of the pending request, unless it is of an older version.
LEMMA OnDiagnosticsStep ==
  ASSUME NEW s, NEW out, EnvOK(out), Good(s, out), NEW msg \in ToMain, msg.type = "answer",
         NEW t, t = OnDiagnostics(s, msg)
  PROVE  /\ Good(t, out) /\ Carries(s, t, out) /\ (Fine(s, out) => Fine(t, out))
         /\ SameEditor(s, t) /\ t.registered = s.registered /\ t.answer = s.answer
         /\ \A m \in Models :
              \/ t.markers[m] \in {s.markers[m], None}
              \/ /\ m = s.registered[msg.path] /\ t.markers[m] = msg.result /\ msg.result # None
                 /\ ~(msg.version < s.version[m]) /\ s.pending["diagnostics"][msg.path] = msg.id
<1> DEFINE p == msg.path
<1>1. s \in Session /\ Sound(s, out) /\ RetriesOK(s) /\ p \in Paths
  BY DEF Good, Sound, ToMain
<1>2. CASE t = s
  BY <1>2 DEF Carries, SameEditor
<1>3. CASE /\ DoneIn(s, p, t) /\ s.pending["diagnostics"][p] = msg.id
           /\ \A m \in Models :
                 \/ t.markers[m] \in {s.markers[m], None}
                 \/ /\ m = s.registered[p] /\ t.markers[m] = msg.result /\ msg.result # None
                    /\ ~(msg.version < s.version[m])
  <2> HIDE DEF p
  <2>1. /\ t \in Session
        /\ PendingBecomes(s.pending, t.pending, "diagnostics", p, 0)
        /\ \A q \in Paths : t.fingerprint[q] \in {None, s.fingerprint[q]}
        /\ t.nextRequestId = s.nextRequestId /\ t.inbox = s.inbox
        /\ SameEditor(s, t) /\ SameWorker(s, t) /\ SamePromises(s, t)
        /\ t.registered = s.registered /\ t.lastSent = s.lastSent /\ t.timer = s.timer
    BY <1>3 DEF DoneIn
  <2>2. ResolversOK(t)
    BY <1>1, <2>1, ResolversSame DEF Sound
  <2>3. Sound(t, out) /\ (Faithful(s, out) => Faithful(t, out)) /\ Carries(s, t, out)
    BY <1>1, <2>1, <2>2, KindsTracked, GoneStep
  <2>4. RetriesOK(t)
    <3>1. \A k \in Kinds, q \in Paths : t.pending[k][q] = 0 <=> s.pending[k][q] = 0
      BY <2>1, KindsTracked DEF PendingBecomes
    <3> QED
      BY <1>1, <2>1, <3>1, RetriesKept DEF SameWorker
  <2>5. ModelsOK(s) => ModelsOK(t)
    BY <2>1 DEF ModelsOK, SamePromises
  <2>6. ClosedOK(s) => ClosedOK(t)
    <3>1. \A k \in Tracked, q \in Paths : t.pending[k][q] \in {0, s.pending[k][q]}
      BY <2>1 DEF PendingBecomes
    <3> QED
      BY <2>1, <3>1 DEF ClosedOK
  <2>7. t.answer = s.answer
    BY <2>1 DEF SamePromises
  <2> QED
    BY <1>3, <2>1, <2>3, <2>4, <2>5, <2>6, <2>7 DEF Good, Fine, p
<1> QED
  BY <1>1, <1>2, <1>3, OnDiagnosticsIs

\* OnAnswer.
LEMMA OnAnswerStep ==
  ASSUME NEW s, NEW out, EnvOK(out), Good(s, out), NEW msg \in ToMain, msg.type = "answer",
         msg.kind # "diagnostics", NEW t, t = OnAnswer(s, msg)
  PROVE  /\ Good(t, out) /\ Carries(s, t, out) /\ (Fine(s, out) => Fine(t, out))
         /\ SameEditor(s, t) /\ t.registered = s.registered /\ t.markers = s.markers
         /\ \A n \in Calls :
              \/ t.answer[n] \in {s.answer[n], Empty}
              \/ /\ t.answer[n] = Result(msg.result) /\ msg.result # None /\ s.registered[msg.path] # None
                 /\ ~(msg.version < s.version[s.registered[msg.path]]) /\ s.resolver[msg.kind][msg.path] # {}
                 /\ s.pending[msg.kind][msg.path] = msg.id
<1> DEFINE p == msg.path
           k == msg.kind
           m == s.registered[p]
           result == IF msg.result = None \/ m = None \/ msg.version < s.version[m] THEN Empty
                     ELSE Result(msg.result)
           u == Resolve(s, k, p, result)
           f == [u.pending EXCEPT ![k][p] = 0]
<1>1. s \in Session /\ Sound(s, out) /\ RetriesOK(s) /\ p \in Paths /\ k \in Kinds /\ k \in Tracked
      /\ msg.result \in Optional(Docs)
  BY DEF Good, Sound, ToMain, Tracked
<1>2. result \in Promises
  <2> HIDE DEF m
  <2> QED
    BY <1>1 DEF Promises, Optional
<1>3. t = IF s.pending[k][p] # msg.id THEN s ELSE [u EXCEPT !.pending[k][p] = 0]
  BY Zenon DEF OnAnswer, clearPending
<1>4. result = Empty \/ /\ result = Result(msg.result) /\ msg.result # None /\ m # None
                        /\ ~(msg.version < s.version[m])
  OBVIOUS
<1> HIDE DEF result
<1>5. /\ Sound(u, out) /\ (Faithful(s, out) => Faithful(u, out)) /\ Carries(s, u, out)
      /\ Forgets(s, u, k, p)
      /\ \A n \in Calls : u.answer[n] = IF n \in s.resolver[k][p] THEN result ELSE s.answer[n]
      /\ SameEditor(s, u) /\ SameWorker(s, u) /\ SameDocs(s, u) /\ SameQueues(s, u)
      /\ u.markers = s.markers
  BY <1>1, <1>2, ResolveStep
<1> HIDE DEF u, f
<1>6. CASE t = s
  BY <1>6 DEF Carries, SameEditor
<1>7. CASE s.pending[k][p] = msg.id /\ t = [u EXCEPT !.pending[k][p] = 0]
  <2>1. u \in Session
    BY <1>5 DEF Sound
  <2>2. f \in [Tracked -> [Paths -> Nat]] /\ PendingBecomes(u.pending, f, k, p, 0)
    BY <1>1, <2>1, PendingTyped DEF f
  <2>3. t = [u EXCEPT !.pending = f]
    BY <1>7, Zenon DEF f
  <2> HIDE DEF k, p, m
  <2>4. t \in Session
    BY <2>1, <2>2, <2>3, ZenonT(60) DEF Session
  <2>5. /\ t.pending = f /\ t.nextRequestId = u.nextRequestId /\ t.inbox = u.inbox
        /\ SameEditor(u, t) /\ SameWorker(u, t) /\ SamePromises(u, t) /\ SameDocs(u, t) /\ t.markers = u.markers
    BY <2>1, <2>3 DEF Session, SameEditor, SameWorker, SamePromises, SameDocs
  <2>6. ResolversOK(t)
    BY <1>5, <2>5, ResolversSame DEF Sound
  <2>7. t.registered = u.registered /\ t.lastSent = u.lastSent /\ t.timer = u.timer
        /\ \A q \in Paths : t.fingerprint[q] \in {None, u.fingerprint[q]}
    BY <2>5 DEF SameDocs
  <2>8. Sound(t, out) /\ (Faithful(u, out) => Faithful(t, out)) /\ Carries(u, t, out)
    BY <1>1, <1>5, <2>2, <2>4, <2>5, <2>6, <2>7, GoneStep
  <2>9. Carries(s, t, out)
    BY <1>5, <2>8, CarriesTransitive
  <2>10. Forgets(s, t, k, p) /\ PendingBecomes(s.pending, t.pending, k, p, 0) /\ SameWorker(s, t)
    BY <1>5, <2>2, <2>5 DEF Forgets, PendingBecomes, SameQueues, SamePromises, SameWorker
  <2>11. RetriesOK(t)
    BY <1>1, <2>10, RetriesForgotten
  <2>12. SameEditor(s, t) /\ SameDocs(s, t) /\ t.markers = s.markers
    BY <1>5, <2>5 DEF SameEditor, SameDocs
  <2>13. ModelsOK(s) => ModelsOK(t)
    <3> SUFFICES ASSUME ModelsOK(s), NEW j \in Kinds, NEW q \in Paths, t.retry[j][q] # None, t.registered[q] # None
                 PROVE  t.retry[j][q].model = t.registered[q]
      BY DEF ModelsOK
    <3>1. t.retry[j][q] = s.retry[j][q] /\ t.registered = s.registered
      BY <2>10, <2>12 DEF Forgets, SameDocs
    <3> QED
      BY <3>1 DEF ModelsOK
  <2>14. ClosedOK(s) => ClosedOK(t)
    <3>1. \A j \in Tracked, q \in Paths : t.pending[j][q] \in {0, s.pending[j][q]}
      BY <2>10 DEF PendingBecomes
    <3> QED
      BY <2>12, <3>1 DEF ClosedOK, SameDocs
  <2>15. \A n \in Calls : t.answer[n] = IF n \in s.resolver[k][p] THEN result ELSE s.answer[n]
    BY <1>5, <2>5 DEF SamePromises
  <2>16. \A n \in Calls :
           \/ t.answer[n] \in {s.answer[n], Empty}
           \/ /\ t.answer[n] = Result(msg.result) /\ msg.result # None /\ m # None
              /\ ~(msg.version < s.version[m]) /\ s.resolver[k][p] # {}
    BY <1>4, <2>15
  <2> QED
    BY <1>5, <1>7, <2>8, <2>9, <2>11, <2>12, <2>13, <2>14, <2>16 DEF Good, Fine, SameDocs, k, p, m
<1> QED
  BY <1>3, <1>6, <1>7

(***************************************************************************)
(* Resyncs                                                                 *)
(***************************************************************************)
\* A pending request of kind k and path p is in the worker's inbox, and when the worker
\* comes to it its mirror has the version asked for.
Ready(s, k, p) ==
  s.pending[k][p] # 0 =>
    /\ \E i \in DOMAIN s.inbox[s.worker] : IsRequest(s, k, p, s.inbox[s.worker][i])
    /\ \A n \in Nat : \A h \in [Nat -> Optional(Docs)] :
         /\ History(s.inbox[s.worker], p, mirror[s.worker][p], n, h) /\ n < Len(s.inbox[s.worker])
         /\ IsRequest(s, k, p, s.inbox[s.worker][n + 1])
         => h[n] # None /\ h[n].version = s.inbox[s.worker][n + 1].version

\* What is posted later does not change that.
LEMMA ReadyPosts ==
  ASSUME NEW s \in Session, NEW t \in Session, NEW msg, Posts(s, t, msg), SameWorker(s, t),
         NEW k \in Tracked, NEW p \in Paths, t.pending[k][p] = s.pending[k][p], ~IsRequest(t, k, p, msg),
         Ready(s, k, p)
  PROVE  Ready(t, k, p)
<1> DEFINE w == s.worker
           q == s.inbox[w]
<1>1. w \in Workers /\ t.worker = w /\ q \in Seq(ToWorker) /\ s.inbox \in [Workers -> Seq(ToWorker)]
  BY DEF Posts, SameWorker, Session
<1>2. t.inbox[w] = Append(q, msg)
  BY <1>1 DEF Posts
<1>3. Len(Append(q, msg)) = Len(q) + 1 /\ Len(q) \in Nat /\ Append(q, msg)[Len(q) + 1] = msg
      /\ \A i \in DOMAIN q : i \in DOMAIN Append(q, msg) /\ Append(q, msg)[i] = q[i]
  BY <1>1
<1>4. SUFFICES ASSUME t.pending[k][p] # 0
      PROVE /\ \E i \in DOMAIN t.inbox[w] : IsRequest(t, k, p, t.inbox[w][i])
            /\ \A n \in Nat : \A h \in [Nat -> Optional(Docs)] :
                 /\ History(t.inbox[w], p, mirror[w][p], n, h) /\ n < Len(t.inbox[w])
                 /\ IsRequest(t, k, p, t.inbox[w][n + 1])
                 => h[n] # None /\ h[n].version = t.inbox[w][n + 1].version
  BY <1>1 DEF Ready
<1>5. /\ \E i \in DOMAIN q : IsRequest(s, k, p, q[i])
      /\ \A n \in Nat : \A h \in [Nat -> Optional(Docs)] :
           /\ History(q, p, mirror[w][p], n, h) /\ n < Len(q)
           /\ IsRequest(s, k, p, q[n + 1])
           => h[n] # None /\ h[n].version = q[n + 1].version
  BY <1>4 DEF Ready
<1>6. \A x : IsRequest(t, k, p, x) <=> IsRequest(s, k, p, x)
  BY DEF IsRequest
<1> HIDE DEF q, w
<1>7. \E i \in DOMAIN t.inbox[w] : IsRequest(t, k, p, t.inbox[w][i])
  <2>1. PICK i \in DOMAIN q : IsRequest(s, k, p, q[i])
    BY <1>5
  <2>2. i \in DOMAIN t.inbox[w] /\ t.inbox[w][i] = q[i]
    BY <1>2, <1>3, <2>1
  <2> QED
    BY <1>6, <2>1, <2>2
<1>8. ASSUME NEW n \in Nat, NEW h \in [Nat -> Optional(Docs)],
             History(t.inbox[w], p, mirror[w][p], n, h), n < Len(t.inbox[w]), IsRequest(t, k, p, t.inbox[w][n + 1])
      PROVE  h[n] # None /\ h[n].version = t.inbox[w][n + 1].version
  <2>1. n <= Len(q) /\ History(q, p, mirror[w][p], n, h)
    <3>1. History(Append(q, msg), p, mirror[w][p], n, h) /\ n # Len(q) + 1
      BY <1>2, <1>3, <1>8
    <3> QED
      BY <1>1, <3>1, HistoryAppend
  <2>2. n # Len(q)
    BY <1>2, <1>3, <1>8
  <2>3. n < Len(q) /\ n + 1 \in DOMAIN q
    BY <1>1, <1>3, <2>1, <2>2
  <2>4. t.inbox[w][n + 1] = q[n + 1]
    BY <1>2, <1>3, <2>3
  <2> QED
    BY <1>5, <1>6, <1>8, <2>1, <2>3, <2>4
<1> QED
  BY <1>7, <1>8

\* A request that is sent for the version last sent is ready.
LEMMA ReadyStarts ==
  ASSUME NEW s, NEW out, EnvOK(out), Sound(s, out), Faithful(s, out), s.worker # 0,
         NEW k \in Tracked, NEW p \in Paths, NEW v \in Versions, s.registered[p] # None, s.lastSent[p] = v,
         NEW t, t = Started(s, k, p, s.worker, v)
  PROVE  Ready(t, k, p)
<1> DEFINE w == s.worker
           q == s.inbox[w]
           msg == [type |-> "request", kind |-> k, id |-> s.nextRequestId, path |-> p, version |-> v]
<1>1. s \in Session /\ w \in Workers /\ q \in Seq(ToWorker) /\ s.inbox \in [Workers -> Seq(ToWorker)]
      /\ s.nextRequestId \in Nat \ {0}
  BY SessionWorker DEF Sound, Session
<1>2. /\ t \in Session /\ t.inbox = [s.inbox EXCEPT ![w] = Append(@, msg)]
      /\ t.pending[k][p] = s.nextRequestId /\ t.worker = w
  <2>1. /\ t \in Session
        /\ t.inbox = [s.inbox EXCEPT ![s.worker] = Append(@,
             [type |-> "request", kind |-> k, id |-> s.nextRequestId, path |-> p, version |-> v])]
        /\ PendingBecomes(s.pending, t.pending, k, p, s.nextRequestId) /\ t.nextRequestId = s.nextRequestId + 1
        /\ SameEditor(s, t) /\ SameWorker(s, t) /\ SamePromises(s, t) /\ SameDocs(s, t)
        /\ t.markers = s.markers
    BY <1>1, StartedFields, SMTT(30)
  <2> QED
    BY <2>1 DEF PendingBecomes, SameWorker
<1>3. t.inbox[w] = Append(q, msg)
  BY <1>1, <1>2
<1>4. msg.type = "request" /\ msg.kind = k /\ msg.id = s.nextRequestId /\ msg.path = p /\ msg.version = v
  OBVIOUS
<1> HIDE DEF msg
<1>5. Len(Append(q, msg)) = Len(q) + 1 /\ Len(q) \in Nat /\ Append(q, msg)[Len(q) + 1] = msg
      /\ Len(q) + 1 \in DOMAIN Append(q, msg)
      /\ \A i \in DOMAIN q : Append(q, msg)[i] = q[i]
  BY <1>1
<1>6. \A i \in DOMAIN q : q[i].type = "request" => q[i].id < s.nextRequestId
  BY <1>1 DEF Sound, IdsOK
<1>7. \A n \in Nat : \A h \in [Nat -> Optional(Docs)] :
        n = Len(q) /\ History(q, p, mirror[w][p], n, h) => h[n] = Belief(s, p)
  BY <1>1 DEF Faithful, MirrorOK
<1>8. Belief(s, p) # None /\ Belief(s, p).version = v
  <2>1. s.registered[p] \in Models
    BY <1>1, RegisteredModel
  <2>2. Belief(s, p) \in Docs /\ Belief(s, p).version = v
    BY <2>1 DEF Belief, Docs
  <2> QED
    BY <2>2, NoneAssumption
<1> HIDE DEF q, w
<1>9. \E i \in DOMAIN t.inbox[w] : IsRequest(t, k, p, t.inbox[w][i])
  <2>1. IsRequest(t, k, p, msg)
    BY <1>1, <1>2, <1>4 DEF IsRequest
  <2>2. Len(q) + 1 \in DOMAIN t.inbox[w] /\ t.inbox[w][Len(q) + 1] = msg
    BY <1>3, <1>5
  <2> QED
    BY <2>1, <2>2
<1>10. ASSUME NEW n \in Nat, NEW h \in [Nat -> Optional(Docs)],
             History(t.inbox[w], p, mirror[w][p], n, h), n < Len(t.inbox[w]), IsRequest(t, k, p, t.inbox[w][n + 1])
      PROVE  h[n] # None /\ h[n].version = t.inbox[w][n + 1].version
  <2>1. n <= Len(q) /\ History(q, p, mirror[w][p], n, h)
    <3>1. History(Append(q, msg), p, mirror[w][p], n, h) /\ n # Len(q) + 1
      BY <1>3, <1>5, <1>10
    <3> QED
      BY <1>1, <3>1, HistoryAppend
  <2>2. CASE n = Len(q)
    <3>1. t.inbox[w][n + 1] = msg
      BY <1>3, <1>5, <2>2
    <3> QED
      BY <1>4, <1>7, <1>8, <2>1, <2>2, <3>1
  <2>3. CASE n # Len(q)
    <3>1. n + 1 \in DOMAIN q
      BY <1>1, <1>5, <2>1, <2>3
    <3>2. t.inbox[w][n + 1] = q[n + 1]
      BY <1>3, <1>5, <3>1
    <3>3. q[n + 1].type = "request" /\ q[n + 1].id = s.nextRequestId
      BY <1>2, <1>10, <3>2 DEF IsRequest
    <3> QED
      BY <1>1, <1>6, <3>1, <3>3
  <2> QED
    BY <2>2, <2>3
<1> QED
  BY <1>2, <1>9, <1>10, ZenonT(60) DEF Ready

\* Cancelling a request leaves the others ready.
LEMMA CancelReady ==
  ASSUME NEW s \in Session, s.worker # 0, s.worker \in Workers,
         NEW k \in Tracked, NEW p \in Paths, NEW t, t = cancelPendingRequest(s, k, p, s.worker),
         NEW j \in Tracked, j # k, Ready(s, j, p)
  PROVE  Ready(t, j, p)
<1> DEFINE id == s.pending[k][p]
           msg == [type |-> "cancel", id |-> id]
<1>1. /\ t \in Session
      /\ id = 0 => t = s
      /\ id # 0 => t.inbox = [s.inbox EXCEPT ![s.worker] = Append(@, msg)]
      /\ PendingBecomes(s.pending, t.pending, k, p, 0)
      /\ SameEditor(s, t) /\ SameWorker(s, t) /\ SamePromises(s, t) /\ SameDocs(s, t)
      /\ t.markers = s.markers /\ t.nextRequestId = s.nextRequestId
  BY CancelFields, SMTT(60)
<1>2. id \in Nat
  BY DEF Session
<1>3. CASE id = 0
  BY <1>1, <1>3
<1>4. CASE id # 0
  <2>1. msg \in ToWorker /\ msg.type = "cancel"
    BY <1>2, <1>4 DEF ToWorker
  <2> HIDE DEF msg, id
  <2>2. Posts(s, t, msg)
    BY <1>1, <1>4, <2>1 DEF Posts
  <2>3. t.pending[j][p] = s.pending[j][p]
    BY <1>1 DEF PendingBecomes
  <2>4. ~IsRequest(t, j, p, msg)
    BY <2>1 DEF IsRequest
  <2> QED
    BY <1>1, <2>2, <2>3, <2>4, ReadyPosts
<1> QED
  BY <1>3, <1>4

\* So does sending one.
LEMMA StartedReady ==
  ASSUME NEW s, s \in Session, s.worker # 0, s.worker \in Workers,
         NEW k \in Tracked, NEW p \in Paths, NEW v \in Versions, NEW t, t = Started(s, k, p, s.worker, v),
         NEW j \in Tracked, j # k, Ready(s, j, p)
  PROVE  Ready(t, j, p)
<1> DEFINE id == s.nextRequestId
           msg == [type |-> "request", kind |-> k, id |-> id, path |-> p, version |-> v]
<1>0. s \in Session /\ s.worker \in Workers
  OBVIOUS
<1>1. /\ t \in Session
      /\ t.inbox = [s.inbox EXCEPT ![s.worker] = Append(@, msg)]
      /\ PendingBecomes(s.pending, t.pending, k, p, id) /\ t.nextRequestId = id + 1
      /\ SameEditor(s, t) /\ SameWorker(s, t) /\ SamePromises(s, t) /\ SameDocs(s, t)
      /\ t.markers = s.markers
  BY <1>0, StartedFields, SMTT(30)
<1>2. id \in Nat \ {0}
  BY <1>0 DEF Session
<1>3. msg \in ToWorker /\ msg.type = "request" /\ msg.kind = k
  BY <1>2 DEF ToWorker
<1> HIDE DEF msg, id
<1>4. Posts(s, t, msg)
  BY <1>1, <1>3 DEF Posts
<1>5. t.pending[j][p] = s.pending[j][p]
  BY <1>1 DEF PendingBecomes
<1>6. ~IsRequest(t, j, p, msg)
  BY <1>3 DEF IsRequest
<1> QED
  BY <1>1, <1>4, <1>5, <1>6, ReadyPosts

\* startTrackedRequest makes its request ready, and leaves the others so.
LEMMA TrackReady ==
  ASSUME NEW s, NEW out, EnvOK(out), Sound(s, out), Faithful(s, out), s.worker # 0,
         NEW k \in Tracked, NEW p \in Paths, NEW v \in Versions, s.registered[p] # None, s.lastSent[p] = v,
         NEW t, t = startTrackedRequest(s, k, p, s.worker, v)
  PROVE  Ready(t, k, p) /\ \A j \in Tracked : j # k /\ Ready(s, j, p) => Ready(t, j, p)
<1>1. PICK u : u = cancelPendingRequest(s, k, p, s.worker)
  OBVIOUS
<1>2. t = Started(u, k, p, s.worker, v)
  BY <1>1, StartTrackedIs, Zenon
<1>3. s \in Session /\ s.worker \in Workers
  BY SessionWorker DEF Sound
<1>4. Sound(u, out) /\ Faithful(u, out) /\ SameWorker(s, u) /\ SameDocs(s, u)
  BY <1>1, CancelStep
<1>5. u \in Session /\ u.worker = s.worker /\ u.registered = s.registered /\ u.lastSent = s.lastSent
  BY <1>4 DEF Sound, SameWorker, SameDocs
<1>6. Ready(t, k, p)
  BY <1>2, <1>4, <1>5, ReadyStarts
<1>7. ASSUME NEW j \in Tracked, j # k, Ready(s, j, p) PROVE Ready(t, j, p)
  <2>1. Ready(u, j, p)
    BY <1>1, <1>3, <1>7, CancelReady
  <2> QED
    BY <1>2, <1>3, <1>5, <1>7, <2>1, StartedReady
<1> QED
  BY <1>6, <1>7

\* A resync repeats the pending request of every kind.
RetryAll(s, p) == LET again(k, u) == Retry(u, k, p) IN FSE!FoldSet(again, s, Kinds)

\* The fold of the resync handler as the recursive function that FoldOver is about.
LEMMA RetryAllIs ==
  ASSUME NEW s, NEW p
  PROVE  RetryAll(s, p) =
           LET g == CHOOSE g : g = [T \in SUBSET Kinds |->
                      IF T = {} THEN s
                      ELSE LET x == CHOOSE y \in T : TRUE IN Retry(g[T \ {x}], x, p)]
           IN g[Kinds]
BY Zenon DEF RetryAll, FSE!FoldSet, FSE!MapThenFoldSet

\* From s to u, requests of path p are repeated, and nothing else happens.
Repeating(s, p, u, out) ==
  /\ Good(u, out) /\ Carries(s, u, out) /\ (Fine(s, out) => Faithful(u, out))
  /\ SameEditor(s, u) /\ SameWorker(s, u) /\ SamePromises(s, u) /\ SameDocs(s, u) /\ u.markers = s.markers
  /\ \A k \in Tracked, q \in Paths : q # p => u.pending[k][q] = s.pending[k][q]
  /\ \A k \in Tracked : u.pending[k][p] = 0 <=> s.pending[k][p] = 0

\* Path p is registered, and its document as it is now is the last one sent.
JustSent(s, p) == s.worker # 0 /\ s.registered[p] # None /\ s.lastSent[p] = s.version[s.registered[p]]

\* Repeating the request of one more kind.
LEMMA RepeatsMore ==
  ASSUME NEW s, NEW u, NEW out, EnvOK(out), NEW p \in Paths, JustSent(s, p), Repeating(s, p, u, out),
         NEW k \in Kinds, NEW t, t = Retry(u, k, p)
  PROVE  /\ t \in Session /\ Repeating(s, p, t, out)
         /\ Fine(s, out) => /\ Ready(t, k, p)
                            /\ \A j \in Tracked : Ready(u, j, p) => Ready(t, j, p)
<1>1. /\ Sound(u, out) /\ RetriesOK(u) /\ u.worker = s.worker /\ u.worker # 0 /\ u.registered = s.registered
      /\ u.lastSent = s.lastSent /\ u.version = s.version /\ u.retry = s.retry
  BY DEF Repeating, Good, JustSent, SameWorker, SameDocs, SameEditor, SamePromises
<1>2. CASE u.retry[k][p] = None
  <2>1. t = u
    BY <1>2 DEF Retry
  <2>2. u.pending[k][p] = 0
    BY <1>1, <1>2 DEF RetriesOK
  <2>3. Ready(u, k, p)
    BY <2>2 DEF Ready
  <2>4. u \in Session
    BY <1>1 DEF Sound
  <2> QED
    BY <2>1, <2>3, <2>4
<1>3. CASE u.retry[k][p] # None
  <2>1. u.retry[k][p].worker = u.worker
    BY <1>1, <1>3 DEF RetriesOK
  <2>2. /\ Sound(t, out) /\ Carries(u, t, out)
        /\ Faithful(u, out) /\ (u.registered[p] # None => u.retry[k][p].model = u.registered[p]) => Faithful(t, out)
        /\ PendingBecomes(u.pending, t.pending, k, p, u.nextRequestId) /\ u.nextRequestId \in Nat \ {0}
        /\ SameEditor(u, t) /\ SameWorker(u, t) /\ SamePromises(u, t) /\ SameDocs(u, t)
        /\ t.markers = u.markers
    BY <1>1, <1>3, <2>1, RetryStep
  <2>3. u.pending[k][p] # 0
    BY <1>1, <1>3 DEF RetriesOK
  <2>4. /\ \A j \in Tracked, q \in Paths : q # p => t.pending[j][q] = u.pending[j][q]
        /\ \A j \in Tracked : t.pending[j][p] = 0 <=> u.pending[j][p] = 0
        /\ \A j \in Kinds, q \in Paths : t.pending[j][q] = 0 <=> u.pending[j][q] = 0
    BY <2>2, <2>3, KindsTracked DEF PendingBecomes
  <2>5. RetriesOK(t)
    <3>1. t.worker = u.worker /\ SamePromises(u, t)
      BY <2>2 DEF SameWorker
    <3> QED
      BY <1>1, <2>4, <3>1, RetriesKept
  <2>6. Fine(s, out) => u.retry[k][p].model = u.registered[p] /\ Faithful(u, out)
    BY <1>1, <1>3 DEF Fine, ModelsOK, JustSent, Repeating
  <2>7. Carries(s, t, out)
    BY <2>2, CarriesTransitive DEF Repeating
  <2>8. SameEditor(s, t) /\ SameWorker(s, t) /\ SamePromises(s, t) /\ SameDocs(s, t) /\ t.markers = s.markers
    BY <2>2 DEF Repeating, SameEditor, SameWorker, SamePromises, SameDocs
  <2>9. Repeating(s, p, t, out)
    <3>1. /\ \A j \in Tracked, q \in Paths : q # p => t.pending[j][q] = s.pending[j][q]
          /\ \A j \in Tracked : t.pending[j][p] = 0 <=> s.pending[j][p] = 0
      BY <2>4 DEF Repeating
    <3>2. Good(t, out) /\ (Fine(s, out) => Faithful(t, out))
      BY <2>2, <2>5, <2>6 DEF Good
    <3> QED
      BY <2>7, <2>8, <3>1, <3>2 DEF Repeating
  <2>10. ASSUME Fine(s, out)
         PROVE  Ready(t, k, p) /\ \A j \in Tracked : j # k /\ Ready(u, j, p) => Ready(t, j, p)
    <3> DEFINE v == u.version[u.retry[k][p].model]
    <3>1. t = startTrackedRequest(u, k, p, u.worker, v)
      BY <1>3, <2>1, Zenon DEF Retry
    <3>2. u.lastSent[p] = v /\ u.registered[p] # None
      BY <1>1, <2>6, <2>10 DEF JustSent
    <3>3. v \in Versions
      <4>1. u \in Session /\ u.retry[k][p].model \in Models
        BY <1>1, <1>3 DEF Sound, Session, Retries, Optional
      <4> QED
        BY <4>1 DEF Session
    <3> HIDE DEF v
    <3> QED
      BY <1>1, <2>6, <2>10, <3>1, <3>2, <3>3, KindsTracked, TrackReady
  <2>11. t \in Session
    BY <2>2 DEF Sound
  <2> QED
    BY <2>9, <2>10, <2>11
<1> QED
  BY <1>2, <1>3

\* Repeating the requests of every kind.
LEMMA RetryAllStep ==
  ASSUME NEW s, NEW out, EnvOK(out), Good(s, out), NEW p \in Paths, JustSent(s, p),
         NEW t, t = RetryAll(s, p)
  PROVE  Repeating(s, p, t, out) /\ (Fine(s, out) /\ Ready(s, "diagnostics", p) => \A k \in Tracked : Ready(t, k, p))
<1> DEFINE S == {u \in Session : Repeating(s, p, u, out)}
           F == [y \in Kinds \X S |-> Retry(y[2], y[1], p)]
           Q == {y \in (SUBSET Kinds) \X S :
                   Fine(s, out) /\ Ready(s, "diagnostics", p) => \A k \in y[1] \cup {"diagnostics"} : Ready(y[2], k, p)}
<1>1. s \in S
  <2>1. s \in Session
    BY DEF Good, Sound
  <2>2. Carries(s, s, out)
    BY DEF Carries
  <2>3. Repeating(s, p, s, out)
    BY <2>2 DEF Repeating, SameEditor, SameWorker, SameDocs, SamePromises, Fine
  <2> QED
    BY <2>1, <2>3
<1>2. ASSUME NEW u \in S, NEW k \in Kinds
      PROVE  /\ Retry(u, k, p) \in S
             /\ Fine(s, out) => /\ Ready(Retry(u, k, p), k, p)
                                /\ \A j \in Tracked : Ready(u, j, p) => Ready(Retry(u, k, p), j, p)
  BY RepeatsMore
<1>3. F \in [Kinds \X S -> S] /\ \A k \in Kinds, u \in S : F[<<k, u>>] = Retry(u, k, p)
  BY <1>2
<1>4. <<{}, s>> \in Q
  BY <1>1
<1>5. ASSUME NEW T \in SUBSET Kinds, NEW k \in T, NEW u \in S, <<T \ {k}, u>> \in Q
      PROVE  <<T, F[<<k, u>>]>> \in Q
  <2>1. Fine(s, out) /\ Ready(s, "diagnostics", p) => \A j \in (T \ {k}) \cup {"diagnostics"} : Ready(u, j, p)
    BY <1>5
  <2>2. F[<<k, u>>] = Retry(u, k, p) /\ F[<<k, u>>] \in S
    BY <1>2, <1>3
  <2>3. Fine(s, out) /\ Ready(s, "diagnostics", p) => \A j \in T \cup {"diagnostics"} : Ready(F[<<k, u>>], j, p)
    <3> HIDE DEF F, S
    <3> QED
      BY <1>2, <2>1, <2>2, KindsTracked
  <2> HIDE DEF F, S
  <2> QED
    BY <2>2, <2>3
<1> HIDE DEF S, F, Q
<1>6. IsFiniteSet(Kinds)
  BY SessionAssumption
<1>7. PICK g : IsFold(Kinds, s, F, g) /\ \A T \in SUBSET Kinds : g[T] \in S /\ <<T, g[T]>> \in Q
  <2>1. Foldable(Kinds, S, s, F, Q)
    BY <1>1, <1>3, <1>4, <1>5, <1>6 DEF Foldable
  <2> QED
    BY <2>1, FoldOver
<1> DEFINE Loop(f) == [T \in SUBSET Kinds |-> IF T = {} THEN s
                         ELSE LET x == CHOOSE y \in T : TRUE IN Retry(f[T \ {x}], x, p)]
           f == CHOOSE f : f = Loop(f)
<1>8. t = f[Kinds]
  BY RetryAllIs, Zenon
<1>9. g = Loop(g)
  <2>1. \A T \in SUBSET Kinds : T # {} =>
          LET x == CHOOSE y \in T : TRUE IN F[<<x, g[T \ {x}]>>] = Retry(g[T \ {x}], x, p)
    <3> SUFFICES ASSUME NEW T \in SUBSET Kinds, T # {}
                 PROVE LET x == CHOOSE y \in T : TRUE IN F[<<x, g[T \ {x}]>>] = Retry(g[T \ {x}], x, p)
      OBVIOUS
    <3> DEFINE x == CHOOSE y \in T : TRUE
    <3>1. x \in Kinds /\ T \ {x} \in SUBSET Kinds
      BY Zenon
    <3>2. F[<<x, g[T \ {x}]>>] = Retry(g[T \ {x}], x, p)
      <4> HIDE DEF x
      <4> QED
        BY <3>1, <1>3, <1>7, Zenon
    <3> QED
      BY <3>2, Zenon
  <2> QED
    BY <2>1, <1>7, Zenon DEF IsFold
<1>10. f = Loop(f)
  BY <1>9, Zenon
<1> HIDE DEF f
<1>11. f[Kinds] = g[Kinds]
  <2>1. f[{}] = g[{}]
    <3>1. {} \in SUBSET Kinds
      OBVIOUS
    <3> QED
      BY <3>1, <1>9, <1>10, Zenon
  <2>2. \A T \in SUBSET Kinds : T # {} =>
          LET x == CHOOSE y \in T : TRUE IN f[T \ {x}] = g[T \ {x}] => f[T] = g[T]
    <3> SUFFICES ASSUME NEW T \in SUBSET Kinds, T # {}
                 PROVE LET x == CHOOSE y \in T : TRUE IN f[T \ {x}] = g[T \ {x}] => f[T] = g[T]
      OBVIOUS
    <3> DEFINE x == CHOOSE y \in T : TRUE
    <3>1. f[T] = Retry(f[T \ {x}], x, p)
      BY <1>10, Zenon
    <3>2. g[T] = Retry(g[T \ {x}], x, p)
      BY <1>9, Zenon
    <3> QED
      BY <3>1, <3>2, Zenon
  <2> QED
    BY <1>6, <2>1, <2>2, FoldsAgree, Zenon
<1>12. g[Kinds] \in S /\ <<Kinds, g[Kinds]>> \in Q
  <2>1. Kinds \in SUBSET Kinds
    OBVIOUS
  <2> QED
    BY <2>1, <1>7, Zenon
<1>13. Repeating(s, p, g[Kinds], out)
  BY <1>12 DEF S
<1>14. Fine(s, out) /\ Ready(s, "diagnostics", p) => \A k \in Tracked : Ready(g[Kinds], k, p)
  BY <1>12 DEF Q, Tracked
<1> QED
  BY <1>8, <1>11, <1>13, <1>14

\* The resync of path p is remembered.
Noted(s, p) == [s EXCEPT !.fingerprint[p] = ResyncFingerprint(s, p)]

NotedIn(s, p, t) ==
  /\ t \in Session
  /\ SameEditor(s, t) /\ SameWorker(s, t) /\ SamePromises(s, t) /\ SameQueues(s, t) /\ t.markers = s.markers
  /\ t.registered = s.registered /\ t.lastSent = s.lastSent /\ t.timer = s.timer
  /\ t.fingerprint[p] = ResyncFingerprint(s, p)
  /\ \A q \in Paths : q # p => t.fingerprint[q] = s.fingerprint[q]

\* What writing down the fingerprint changes.
LEMMA NotedFields ==
  ASSUME NEW s \in Session, NEW p \in Paths, s.registered[p] # None
  PROVE  NotedIn(s, p, Noted(s, p))
<1> DEFINE r == ResyncFingerprint(s, p)
           f == [s.fingerprint EXCEPT ![p] = r]
           t == Noted(s, p)
<1>1. s.registered[p] \in Models
  BY RegisteredModel
<1>2. r \in Fingerprints
  BY <1>1 DEF ResyncFingerprint, Fingerprints, Session
<1> HIDE DEF r
<1>3. s.fingerprint \in [Paths -> Optional(Fingerprints)]
  BY DEF Session
<1>4. /\ f \in [Paths -> Optional(Fingerprints)] /\ f[p] = r
      /\ \A q \in Paths : q # p => f[q] = s.fingerprint[q]
  BY <1>2, <1>3 DEF Optional
<1>5. t = [s EXCEPT !.fingerprint = f]
  BY DEF Session, Noted, r
<1> HIDE DEF f, t
<1>6. t \in Session
  BY <1>4, <1>5, Zenon DEF Session
<1>7. /\ SameEditor(s, t) /\ SameWorker(s, t) /\ SamePromises(s, t) /\ SameQueues(s, t) /\ t.markers = s.markers
      /\ t.registered = s.registered /\ t.lastSent = s.lastSent /\ t.timer = s.timer /\ t.fingerprint = f
  BY <1>5 DEF Session, SameEditor, SameWorker, SamePromises, SameQueues
<1>8. NotedIn(s, p, t)
  BY <1>4, <1>6, <1>7 DEF NotedIn, r
<1> QED
  BY <1>8 DEF t

\* Writing down the fingerprint is safe once every request of the path is Ready: from then
\* on a resync of the same state is dropped.
LEMMA NotedStep ==
  ASSUME NEW s, NEW out, EnvOK(out), Good(s, out), NEW p \in Paths, s.registered[p] # None, NEW t, NotedIn(s, p, t)
  PROVE  /\ Good(t, out)
         /\ Fine(s, out) /\ (\A k \in Tracked : Ready(s, k, p)) => Fine(t, out)
         /\ \A k \in Kinds, q \in Paths : q # p /\ UnderWay(s, out, k, q) => UnderWay(t, out, k, q)
<1>1. /\ s \in Session /\ t \in Session /\ s.registered[p] \in Models
      /\ t.worker = s.worker /\ t.born = s.born /\ t.inbox = s.inbox /\ t.pending = s.pending
      /\ t.nextRequestId = s.nextRequestId /\ t.registered = s.registered /\ t.lastSent = s.lastSent
      /\ t.timer = s.timer /\ t.version = s.version /\ t.retry = s.retry /\ t.resolver = s.resolver
      /\ t.answer = s.answer
  BY RegisteredModel DEF Good, Sound, NotedIn, SameEditor, SameWorker, SamePromises, SameQueues
<1>2. /\ t.fingerprint[p] = ResyncFingerprint(s, p)
      /\ \A q \in Paths : q # p => t.fingerprint[q] = s.fingerprint[q]
  BY DEF NotedIn
<1>3. /\ \A k \in Tracked : t.fingerprint[p].pending[k] = s.pending[k][p]
      /\ t.fingerprint[p].version = s.version[s.registered[p]]
  BY <1>2 DEF ResyncFingerprint
<1>4. TabsOK(t) /\ ResolversOK(t)
  <2>1. TabsOK(t)
    BY <1>1, TabsKept DEF NotedIn, Good, Sound
  <2>2. ResolversOK(t)
    BY <1>1, ResolversSame DEF NotedIn, Good, Sound
  <2> QED
    BY <2>1, <2>2
<1>5. WorkersOK(t, out) /\ CancelsOK(t) /\ RetriesOK(t)
  BY <1>1 DEF Good, Sound, WorkersOK, CancelsOK, RetriesOK
<1>6. IdsOK(t, out)
  <2>1. \A k \in Tracked, q \in Paths : t.fingerprint[q] # None => t.fingerprint[q].pending[k] < t.nextRequestId
    BY <1>1, <1>2, <1>3 DEF Good, Sound, IdsOK
  <2> QED
    BY <1>1, <2>1 DEF Good, Sound, IdsOK
<1>7. Good(t, out)
  BY <1>1, <1>4, <1>5, <1>6 DEF Good, Sound
<1>8. \A k, q, msg : (IsRequest(t, k, q, msg) <=> IsRequest(s, k, q, msg)) /\ (IsAnswer(t, k, q, msg) <=> IsAnswer(s, k, q, msg))
  BY <1>1 DEF IsRequest, IsAnswer
<1>9. \A k \in Tracked, q \in Paths : q # p => (Repeats(t, k, q) <=> Repeats(s, k, q))
  BY <1>1, <1>2 DEF Repeats
<1>10. ASSUME NEW k \in Kinds, NEW q \in Paths, q # p, UnderWay(s, out, k, q) PROVE UnderWay(t, out, k, q)
  <2>1. k \in Tracked
    BY KindsTracked
  <2> QED
    BY <1>1, <1>8, <1>9, <1>10, <2>1 DEF UnderWay
<1>11. ASSUME Fine(s, out), \A k \in Tracked : Ready(s, k, p) PROVE Fine(t, out)
  <2>1. VersionsOK(t)
    <3>1. s.version[s.registered[p]] \in Nat
      BY <1>1, VersionNat
    <3> QED
      BY <1>1, <1>2, <1>3, <1>11, <3>1 DEF Fine, Faithful, VersionsOK
  <2>2. RequestsOK(t) /\ RepliesOK(t, out)
    BY <1>1, <1>8, <1>11 DEF Fine, Faithful, RequestsOK, RepliesOK
  <2>3. MirrorOK(t)
    <3> SUFFICES ASSUME t.worker # 0, NEW q \in Paths, NEW n \in Nat, NEW h \in [Nat -> Optional(Docs)],
                        History(t.inbox[t.worker], q, mirror[t.worker][q], n, h)
                 PROVE  /\ n = Len(t.inbox[t.worker]) => h[n] = Belief(t, q)
                        /\ \A k \in Tracked : n < Len(t.inbox[t.worker]) =>
                             Served(t, k, q, t.inbox[t.worker][n + 1], h[n])
      BY DEF MirrorOK
    <3>1. /\ s.worker # 0 /\ History(s.inbox[s.worker], q, mirror[s.worker][q], n, h)
          /\ t.inbox[t.worker] = s.inbox[s.worker]
      BY <1>1
    <3>2. /\ n = Len(s.inbox[s.worker]) => h[n] = Belief(s, q)
          /\ \A k \in Tracked : n < Len(s.inbox[s.worker]) =>
               Served(s, k, q, s.inbox[s.worker][n + 1], h[n])
      BY <1>11, <3>1 DEF Fine, Faithful, MirrorOK
    <3>3. n = Len(t.inbox[t.worker]) => h[n] = Belief(t, q)
      BY <1>1, <3>1, <3>2 DEF Belief
    <3>4. ASSUME NEW k \in Tracked, n < Len(t.inbox[t.worker])
          PROVE  Served(t, k, q, t.inbox[t.worker][n + 1], h[n])
      <4> DEFINE msg == s.inbox[s.worker][n + 1]
      <4>1. Served(s, k, q, msg, h[n])
        BY <3>1, <3>2, <3>4
      <4>2. CASE q # p
        BY <1>1, <1>8, <1>9, <3>1, <4>1, <4>2 DEF Served
      <4>3. CASE q = p
        <5>1. IsRequest(s, k, p, msg) => h[n] # None /\ h[n].version = msg.version
          <6>1. IsRequest(s, k, p, msg) => s.pending[k][p] # 0
            BY DEF IsRequest
          <6> QED
            BY <1>11, <3>1, <3>4, <4>3, <6>1 DEF Ready
        <5> HIDE DEF msg
        <5>2. Served(t, k, q, msg, h[n])
          BY <1>1, <1>8, <4>1, <4>3, <5>1 DEF Served
        <5> QED
          BY <3>1, <5>2 DEF msg
      <4> QED
        BY <4>2, <4>3
    <3> QED
      BY <3>3, <3>4
  <2>4. ModelsOK(t) /\ ClosedOK(t)
    BY <1>1, <1>11 DEF Fine, ModelsOK, ClosedOK
  <2> QED
    BY <2>1, <2>2, <2>3, <2>4 DEF Fine, Faithful
<1> QED
  BY <1>7, <1>10, <1>11

\* OnResync in three steps: open and ask again, retry, write down the fingerprint.
LEMMA OnResyncIs ==
  ASSUME NEW s, NEW p
  PROVE  OnResync(s, p) =
           LET opened == syncModelToWorker(s, s.worker, p)
               asked == IF s.pending["diagnostics"][p] = 0 THEN opened
                        ELSE requestDiagnostics(opened, p, s.version[s.registered[p]])
           IN IF s.registered[p] = None \/ s.worker = 0 \/ s.fingerprint[p] = ResyncFingerprint(s, p) THEN s
              ELSE Noted(RetryAll(asked, p), p)
BY Zenon DEF OnResync, Noted, RetryAll

\* A resync that is handled sends the document of path p again, and its diagnostics request.
LEMMA ReopenStep ==
  ASSUME NEW s, NEW out, EnvOK(out), Good(s, out), s.worker # 0, NEW p \in Paths, s.registered[p] # None,
         NEW u, u = syncModelToWorker(s, s.worker, p)
  PROVE  /\ Good(u, out) /\ Carries(s, u, out) /\ (Fine(s, out) => Fine(u, out)) /\ JustSent(u, p)
         /\ SameEditor(s, u) /\ SameWorker(s, u) /\ SamePromises(s, u) /\ u.registered = s.registered
         /\ u.markers = s.markers /\ u.pending = s.pending
<1>1. /\ Sound(u, out) /\ (Faithful(s, out) => Faithful(u, out)) /\ Carries(s, u, out)
      /\ u.lastSent = [s.lastSent EXCEPT ![p] = s.version[s.registered[p]]]
      /\ SameEditor(s, u) /\ SameWorker(s, u) /\ SamePromises(s, u)
      /\ u.registered = s.registered /\ u.timer = s.timer /\ u.fingerprint = s.fingerprint
      /\ u.markers = s.markers /\ u.pending = s.pending /\ u.nextRequestId = s.nextRequestId
  BY SyncStep DEF Good
<1>2. s.lastSent \in [Paths -> Versions \cup {0}]
  BY DEF Good, Sound, Session
<1>3. /\ u.lastSent[p] = s.version[s.registered[p]]
      /\ \A q \in Paths : q # p => u.lastSent[q] = s.lastSent[q]
  BY <1>1, <1>2
<1>4. JustSent(u, p)
  BY <1>1, <1>3 DEF JustSent, SameEditor, SameWorker
<1>5. RetriesOK(u)
  <2>1. u.worker = s.worker
    BY <1>1 DEF SameWorker
  <2> QED
    BY <1>1, <2>1, RetriesKept DEF Good
<1>6. ModelsOK(s) => ModelsOK(u)
  BY <1>1, ModelsKept
<1>7. ClosedOK(s) => ClosedOK(u)
  BY <1>1, <1>3 DEF ClosedOK
<1> QED
  BY <1>1, <1>4, <1>5, <1>6, <1>7 DEF Good, Fine

\* The diagnostics request, if there is one, is then ready.
LEMMA ReaskStep ==
  ASSUME NEW s, NEW out, EnvOK(out), Good(s, out), NEW p \in Paths, JustSent(s, p),
         NEW t, t = IF s.pending["diagnostics"][p] = 0 THEN s
                    ELSE requestDiagnostics(s, p, s.version[s.registered[p]])
  PROVE  Repeating(s, p, t, out) /\ (Fine(s, out) => Ready(t, "diagnostics", p))
<1>1. CASE s.pending["diagnostics"][p] = 0
  <2>1. t = s
    BY <1>1
  <2>2. Carries(s, s, out)
    BY DEF Carries
  <2>3. Ready(s, "diagnostics", p)
    BY <1>1 DEF Ready
  <2> QED
    BY <2>1, <2>2, <2>3 DEF Repeating, SameEditor, SameWorker, SameDocs, SamePromises, Fine
<1>2. CASE s.pending["diagnostics"][p] # 0
  <2> DEFINE v == s.version[s.registered[p]]
  <2>1. t = requestDiagnostics(s, p, v)
    BY <1>2
  <2>2. s \in Session /\ s.worker # 0 /\ s.registered[p] \in Models /\ s.lastSent[p] = v
    BY RegisteredModel DEF Good, Sound, JustSent
  <2>3. v \in Versions /\ v \in Nat
    BY <2>2, VersionNat DEF Session
  <2>4. t = startTrackedRequest(s, "diagnostics", p, s.worker, v)
    <3>1. getWorker(s) = s
      BY <2>2 DEF getWorker
    <3> QED
      BY <2>1, <3>1, Zenon DEF requestDiagnostics
  <2>a. v <= s.version[s.registered[p]]
    BY <2>3
  <2> HIDE DEF v
  <2>5. /\ Good(t, out) /\ Carries(s, t, out)
        /\ Faithful(s, out) /\ (s.registered[p] # None => v <= s.version[s.registered[p]]) => Faithful(t, out)
        /\ t.worker # 0 /\ t.pending["diagnostics"][p] # 0
        /\ \A k \in Tracked, q \in Paths : k # "diagnostics" \/ q # p => t.pending[k][q] = s.pending[k][q]
        /\ s.worker # 0 => SameWorker(s, t) /\ t.lastSent = s.lastSent
        /\ s.worker = 0 => \A q \in Paths : t.lastSent[q] = Sent(s, q)
        /\ SameEditor(s, t) /\ SamePromises(s, t)
        /\ t.registered = s.registered /\ t.timer = s.timer /\ t.fingerprint = s.fingerprint
        /\ t.markers = s.markers
    BY <2>1, <2>3, DiagnosticsStep
  <2>6. Faithful(s, out) => Faithful(t, out)
    BY <2>a, <2>5
  <2>7. /\ \A k \in Tracked, q \in Paths : q # p => t.pending[k][q] = s.pending[k][q]
        /\ \A k \in Tracked : t.pending[k][p] = 0 <=> s.pending[k][p] = 0
    BY <1>2, <2>5
  <2>8. SameDocs(s, t) /\ SameWorker(s, t)
    BY <2>2, <2>5 DEF SameDocs
  <2>9. Repeating(s, p, t, out)
    BY <2>5, <2>6, <2>7, <2>8 DEF Repeating, Fine
  <2>10. Fine(s, out) => Ready(t, "diagnostics", p)
    BY <2>2, <2>3, <2>4, KindsTracked, TrackReady DEF JustSent, Good, Fine
  <2> QED
    BY <2>9, <2>10
<1> QED
  BY <1>1, <1>2

\* A request that waited for the resync is under way once it is handled.
Resumes(s, t, out, p) ==
  \A k \in Kinds, q \in Paths :
    /\ t.pending[k][q] # 0
    /\ t.pending[k][q] = s.pending[k][q] =>
         UnderWay(s, out, k, q) \/ (q = p /\ s.worker # 0 /\ ~Repeats(s, k, p))
    => UnderWay(t, out, k, q)

\* A resync that is handled leaves every request of its path under way again.
LEMMA OnResyncStep ==
  ASSUME NEW s, NEW out, EnvOK(out), Good(s, out), NEW p \in Paths, NEW t, t = OnResync(s, p)
  PROVE  /\ Good(t, out) /\ (Fine(s, out) => Fine(t, out) /\ Resumes(s, t, out, p))
         /\ SameEditor(s, t) /\ t.registered = s.registered /\ t.answer = s.answer /\ t.markers = s.markers
<1>1. CASE s.registered[p] = None \/ s.worker = 0 \/ s.fingerprint[p] = ResyncFingerprint(s, p)
  <2>1. t = s
    BY <1>1, OnResyncIs, Zenon
  <2>2. ASSUME Fine(s, out), NEW k \in Kinds, s.pending[k][p] # 0, s.worker # 0, ~Repeats(s, k, p) PROVE FALSE
    <3>1. s.registered[p] # None
      BY <2>2, KindsTracked DEF Fine, ClosedOK
    <3>2. s.fingerprint[p] = ResyncFingerprint(s, p)
      BY <1>1, <2>2, <3>1
    <3>3. s.fingerprint[p] \in Fingerprints /\ s.fingerprint[p] # None
      <4>1. s \in Session /\ s.registered[p] \in Models
        BY <3>1, RegisteredModel DEF Good, Sound
      <4>2. ResyncFingerprint(s, p) \in Fingerprints
        BY <4>1 DEF ResyncFingerprint, Fingerprints, Session
      <4>3. s.fingerprint[p] # None
        BY <3>2, <4>2, NoneAssumption DEF Fingerprints
      <4> QED
        BY <3>2, <4>2, <4>3
    <3> QED
      BY <2>2, <3>1, <3>2, <3>3, KindsTracked DEF Repeats, ResyncFingerprint
  <2> QED
    BY <2>1, <2>2 DEF Resumes, SameEditor
<1>2. CASE s.registered[p] # None /\ s.worker # 0 /\ s.fingerprint[p] # ResyncFingerprint(s, p)
  <2>1. PICK u : u = syncModelToWorker(s, s.worker, p)
    OBVIOUS
  <2>2. PICK a : a = IF s.pending["diagnostics"][p] = 0 THEN u
                     ELSE requestDiagnostics(u, p, s.version[s.registered[p]])
    OBVIOUS
  <2>3. PICK r : r = RetryAll(a, p)
    OBVIOUS
  <2>4. t = Noted(r, p)
    BY <1>2, <2>1, <2>2, <2>3, OnResyncIs, Zenon
  <2>5. /\ Good(u, out) /\ Carries(s, u, out) /\ (Fine(s, out) => Fine(u, out)) /\ JustSent(u, p)
        /\ SameEditor(s, u) /\ SameWorker(s, u) /\ SamePromises(s, u) /\ u.registered = s.registered
        /\ u.markers = s.markers /\ u.pending = s.pending
    BY <1>2, <2>1, ReopenStep
  <2>6. Repeating(u, p, a, out) /\ (Fine(u, out) => Ready(a, "diagnostics", p))
    <3>1. a = IF u.pending["diagnostics"][p] = 0 THEN u
              ELSE requestDiagnostics(u, p, u.version[u.registered[p]])
      BY <2>2, <2>5 DEF SameEditor
    <3> QED
      BY <2>5, <3>1, ReaskStep
  <2>7. Good(a, out) /\ JustSent(a, p)
    BY <2>5, <2>6 DEF Repeating, JustSent, SameWorker, SameDocs, SameEditor
  <2>8. Fine(u, out) => Fine(a, out)
    <3>1. ModelsOK(u) => ModelsOK(a)
      BY <2>6, ModelsKept DEF Repeating, SameDocs
    <3>2. ClosedOK(u) => ClosedOK(a)
      BY <2>6 DEF Repeating, SameDocs, ClosedOK
    <3> QED
      BY <2>6, <3>1, <3>2 DEF Fine, Repeating
  <2>9. Repeating(a, p, r, out) /\ (Fine(a, out) /\ Ready(a, "diagnostics", p) => \A k \in Tracked : Ready(r, k, p))
    BY <2>3, <2>7, RetryAllStep
  <2>10. NotedIn(r, p, t) /\ r.registered[p] # None
    <3>1. r \in Session /\ r.registered[p] # None
      BY <2>7, <2>9 DEF Repeating, Good, Sound, JustSent, SameDocs
    <3> QED
      BY <2>4, <3>1, NotedFields
  <2>11. /\ Good(t, out)
         /\ Fine(r, out) /\ (\A k \in Tracked : Ready(r, k, p)) => Fine(t, out)
         /\ \A k \in Kinds, q \in Paths : q # p /\ UnderWay(r, out, k, q) => UnderWay(t, out, k, q)
    <3>1. Good(r, out)
      BY <2>9 DEF Repeating
    <3> QED
      BY <2>10, <3>1, NotedStep
  <2>12. Fine(a, out) => Fine(r, out)
    <3>1. ModelsOK(a) => ModelsOK(r)
      BY <2>9, ModelsKept DEF Repeating, SameDocs
    <3>2. ClosedOK(a) => ClosedOK(r)
      <4>1. /\ \A k \in Tracked, q \in Paths : r.pending[k][q] = 0 <=> a.pending[k][q] = 0
            /\ SameDocs(a, r)
        BY <2>9 DEF Repeating
      <4> QED
        BY <4>1 DEF SameDocs, ClosedOK
    <3> QED
      BY <2>9, <3>1, <3>2 DEF Fine, Repeating
  <2>13. Carries(s, r, out)
    BY <2>5, <2>6, <2>9, CarriesTransitive DEF Repeating
  <2>14. /\ SameEditor(s, t) /\ t.registered = s.registered /\ t.answer = s.answer /\ t.markers = s.markers
         /\ t.pending = r.pending /\ t.inbox = r.inbox /\ t.worker = r.worker /\ r.worker # 0
         /\ \A k \in Tracked, q \in Paths : q # p => r.pending[k][q] = s.pending[k][q]
    BY <2>5, <2>6, <2>7, <2>9, <2>10
       DEF Repeating, NotedIn, JustSent, SameEditor, SameWorker, SameDocs, SamePromises, SameQueues
  <2>15. ASSUME Fine(s, out) PROVE Resumes(s, t, out, p)
    <3> SUFFICES ASSUME NEW k \in Kinds, NEW q \in Paths, t.pending[k][q] # 0,
                        t.pending[k][q] = s.pending[k][q] =>
                          UnderWay(s, out, k, q) \/ (q = p /\ s.worker # 0 /\ ~Repeats(s, k, p))
                 PROVE  UnderWay(t, out, k, q)
      BY DEF Resumes
    <3>1. k \in Tracked
      BY KindsTracked
    <3>2. CASE q # p
      <4>1. UnderWay(r, out, k, q)
        BY <2>13, <2>14, <3>1, <3>2 DEF Carries
      <4> QED
        BY <2>11, <3>2, <4>1
    <3>3. CASE q = p
      <4>1. Ready(r, k, p) /\ r.pending[k][p] # 0
        BY <2>5, <2>6, <2>8, <2>9, <2>14, <2>15, <3>1, <3>3
      <4>2. PICK i \in DOMAIN r.inbox[r.worker] : IsRequest(r, k, p, r.inbox[r.worker][i])
        BY <4>1 DEF Ready
      <4>3. IsRequest(t, k, p, r.inbox[r.worker][i])
        BY <2>14, <4>2 DEF IsRequest
      <4> QED
        BY <2>14, <3>3, <4>2, <4>3 DEF UnderWay
    <3> QED
      BY <3>2, <3>3
  <2> QED
    BY <2>5, <2>6, <2>8, <2>9, <2>11, <2>12, <2>14, <2>15
<1> QED
  BY <1>1, <1>2

(***************************************************************************)
(* The editor's tabs                                                       *)
(***************************************************************************)
\* From s to t, only the editor's own fields change, and they stay in order.
Edits(s, t) ==
  /\ t \in Session /\ TabsOK(t) /\ VersionsGrow(s, t)
  /\ SameWorker(s, t) /\ SameDocs(s, t) /\ SamePromises(s, t) /\ SameQueues(s, t) /\ t.markers = s.markers

Tabs(s, f, a) == [s EXCEPT !.tab = f, !.active = a]
Switches(s, a, n) == [s EXCEPT !.active = a, !.switches = n]
Versioned(s, f, n) == [s EXCEPT !.version = f, !.edits = n]

\* Opening, renaming and leaving a tab change the editor only ...
LEMMA TabsEdits ==
  ASSUME NEW s \in Session, TabsOK(s), NEW f \in [Models -> Paths \cup {"unborn", "closed"}], NEW a \in Optional(Models),
         a # None => f[a] \in Paths, NEW t, t = Tabs(s, f, a)
  PROVE  Edits(s, t) /\ t.tab = f /\ t.active = a /\ t.version = s.version
<1>1. t \in Session
  BY Zenon DEF Session, Tabs
<1>2. /\ SameWorker(s, t) /\ SameDocs(s, t) /\ SamePromises(s, t) /\ SameQueues(s, t) /\ t.markers = s.markers
      /\ t.tab = f /\ t.active = a /\ t.version = s.version /\ t.edits = s.edits
  BY DEF Session, Tabs, SameWorker, SameDocs, SamePromises, SameQueues
<1>3. TabsOK(t)
  BY <1>2 DEF TabsOK, IsOpen
<1>4. VersionsGrow(s, t)
  BY <1>2, VersionNat DEF VersionsGrow
<1> QED
  BY <1>1, <1>2, <1>3, <1>4 DEF Edits

\* ... and so does another active tab ...
LEMMA SwitchesEdits ==
  ASSUME NEW s \in Session, TabsOK(s), NEW m \in Models, IsOpen(s, m), NEW n \in Nat, NEW t, t = Switches(s, m, n)
  PROVE  Edits(s, t) /\ t.tab = s.tab /\ t.active = m
<1>1. m \in Optional(Models)
  BY DEF Optional
<1>2. t \in Session
  BY <1>1, Zenon DEF Session, Switches
<1>3. /\ SameWorker(s, t) /\ SameDocs(s, t) /\ SamePromises(s, t) /\ SameQueues(s, t) /\ t.markers = s.markers
      /\ t.tab = s.tab /\ t.active = m /\ t.version = s.version /\ t.edits = s.edits
  BY DEF Session, Switches, SameWorker, SameDocs, SamePromises, SameQueues
<1>4. TabsOK(t)
  BY <1>3 DEF TabsOK, IsOpen
<1>5. VersionsGrow(s, t)
  BY <1>3, VersionNat DEF VersionsGrow
<1> QED
  BY <1>2, <1>3, <1>4, <1>5 DEF Edits

\* ... and an edit.
LEMMA VersionedEdits ==
  ASSUME NEW s \in Session, TabsOK(s), NEW m \in Models, s.edits < MaxEdits,
         NEW t, t = [s EXCEPT !.version[m] = @ + 1, !.edits = @ + 1]
  PROVE  Edits(s, t) /\ t.tab = s.tab /\ t.active = s.active
<1> DEFINE f == [s.version EXCEPT ![m] = @ + 1]
           n == s.edits + 1
<1>1. /\ s.version \in [Models -> 1 .. MaxEdits + 1] /\ s.edits \in 0 .. MaxEdits /\ MaxEdits \in Nat
      /\ \A x \in Models : s.version[x] <= s.edits + 1
  BY SessionAssumption DEF Session, TabsOK, Versions
<1>2. s.version[m] + 1 \in 1 .. MaxEdits + 1 /\ n \in 0 .. MaxEdits
  BY <1>1
<1>3. /\ f \in [Models -> 1 .. MaxEdits + 1]
      /\ \A x \in Models : f[x] = IF x = m THEN s.version[m] + 1 ELSE s.version[x]
  BY <1>1, <1>2
<1>4. \A x \in Models : f[x] <= n + 1 /\ f[x] >= s.version[x]
  BY <1>1, <1>3
<1>5. f \in [Models -> Versions]
  BY <1>3 DEF Versions
<1>6. t = Versioned(s, f, n)
  BY DEF Session, Versioned
<1> HIDE DEF f, n
<1>7. t \in Session
  <2>1. f \in [Models -> Versions] /\ n \in 0 .. MaxEdits
    BY <1>2, <1>5
  <2> QED
    BY <1>6, <2>1, ZenonT(60) DEF Session, Versioned
<1>8. /\ SameWorker(s, t) /\ SameDocs(s, t) /\ SamePromises(s, t) /\ SameQueues(s, t) /\ t.markers = s.markers
      /\ t.tab = s.tab /\ t.active = s.active /\ t.version = f /\ t.edits = n
  BY <1>6 DEF Session, Versioned, SameWorker, SameDocs, SamePromises, SameQueues
<1>9. TabsOK(t)
  BY <1>4, <1>8 DEF TabsOK, IsOpen
<1>10. VersionsGrow(s, t)
  BY <1>4, <1>8 DEF VersionsGrow
<1> QED
  BY <1>7, <1>8, <1>9, <1>10 DEF Edits

\* A step of the main thread, without the worker: what it keeps, and what it keeps as
\* long as no path gets another model.
MainStep(s, t, out) ==
  /\ Good(t, out) /\ Quiet(s, t)
  /\ Fine(s, out) /\ Reregisters(s, t) => Fine(t, out) /\ Carries(s, t, out)

\* What changes the editor only, with no version going down, is a step of the main thread.
LEMMA EditsStep ==
  ASSUME NEW s, NEW out, EnvOK(out), Good(s, out), NEW t, Edits(s, t)
  PROVE  MainStep(s, t, out) /\ (Fine(s, out) => Fine(t, out) /\ Carries(s, t, out)) /\ t.registered = s.registered
<1>1. t.registered = s.registered
  BY DEF Edits, SameDocs
<1> QED
  BY <1>1, EditorStep DEF Edits, MainStep

\* The editor changes, and the active editor is synced.
LEMMA EditAndSync ==
  ASSUME NEW s, NEW out, EnvOK(out), Good(s, out), NEW u, Edits(s, u), NEW m \in Models, IsOpen(u, m),
         NEW t, t = syncActiveEditorToLsp(u, m)
  PROVE  /\ MainStep(s, t, out) /\ SameEditor(u, t)
         /\ t.registered[u.tab[m]] = m
         /\ \A q \in Paths : q # u.tab[m] => t.registered[q] = s.registered[q]
<1>1. /\ Good(u, out) /\ Quiet(s, u) /\ (Fine(s, out) => Fine(u, out) /\ Carries(s, u, out))
      /\ u.registered = s.registered
  BY EditsStep DEF MainStep
<1>2. /\ Good(t, out) /\ Carries(u, t, out) /\ Quiet(u, t) /\ SameEditor(u, t)
      /\ Fine(u, out) /\ Reregisters(u, t) => Fine(t, out)
      /\ t.registered[u.tab[m]] = m
      /\ \A q \in Paths : q # u.tab[m] => t.registered[q] = u.registered[q]
  BY <1>1, SyncActiveStep
<1>3. Quiet(s, t)
  BY <1>1, <1>2, QuietTransitive
<1>4. Reregisters(s, t) => Reregisters(u, t)
  BY <1>1 DEF Reregisters
<1>5. Carries(s, u, out) => Carries(s, t, out)
  BY <1>2, CarriesTransitive
<1> QED
  BY <1>1, <1>2, <1>3, <1>4, <1>5 DEF MainStep

\* The tab goes, and the neighbour that becomes active is synced.
LEMMA LeaveStep ==
  ASSUME NEW s, NEW out, EnvOK(out), Good(s, out), NEW m \in Models, NEW t, t \in Leave(s, m)
  PROVE  /\ MainStep(s, t, out) /\ t.tab = [s.tab EXCEPT ![m] = "closed"]
         /\ \A q \in Paths : t.registered[q] = s.registered[q]
                             \/ \E o \in Models : t.registered[q] = o /\ t.tab[o] = q
<1> DEFINE f == [s.tab EXCEPT ![m] = "closed"]
           c == [s EXCEPT !.tab[m] = "closed"]
           others == {o \in Models : IsOpen(c, o)}
<1>1. s \in Session /\ TabsOK(s)
  BY DEF Good, Sound
<1>2. /\ f \in [Models -> Paths \cup {"unborn", "closed"}] /\ \A o \in Models : o # m => f[o] = s.tab[o]
      /\ c.tab = f /\ s.active \in Optional(Models) /\ None \in Optional(Models)
  BY <1>1 DEF Session, Optional
<1>3. /\ c = Tabs(s, f, s.active)
      /\ \A a : [c EXCEPT !.active = a] = Tabs(s, f, a)
  BY <1>1 DEF Session, Tabs
<1>4. CASE s.active # m /\ t = c
  <2>1. s.active # None => f[s.active] \in Paths
    <3>1. s.active # None => s.active \in Models /\ s.tab[s.active] \in Paths
      BY <1>1, <1>2 DEF TabsOK, IsOpen, Optional
    <3> QED
      BY <1>2, <1>4, <3>1
  <2>2. Edits(s, Tabs(s, f, s.active)) /\ Tabs(s, f, s.active).tab = f
    <3> HIDE DEF f
    <3> QED
      BY <1>1, <1>2, <2>1, TabsEdits
  <2>3. Edits(s, t) /\ t.tab = f
    <3> HIDE DEF c, f
    <3> QED
      BY <1>3, <1>4, <2>2
  <2>4. MainStep(s, t, out) /\ t.registered = s.registered
    BY <2>3, EditsStep
  <2> QED
    BY <2>3, <2>4
<1>5. CASE t = [c EXCEPT !.active = None]
  <2>1. t = Tabs(s, f, None)
    BY <1>3, <1>5, Zenon
  <2>2. Edits(s, t) /\ t.tab = f
    <3> HIDE DEF f
    <3> QED
      BY <1>1, <1>2, <2>1, TabsEdits
  <2>3. MainStep(s, t, out) /\ t.registered = s.registered
    BY <2>2, EditsStep
  <2> QED
    BY <2>2, <2>3
<1>6. CASE \E o \in others : t = syncActiveEditorToLsp([c EXCEPT !.active = o], o)
  <2>1. PICK o \in others : t = syncActiveEditorToLsp([c EXCEPT !.active = o], o)
    BY <1>6
  <2>2. PICK u : u = Tabs(s, f, o)
    OBVIOUS
  <2>3. t = syncActiveEditorToLsp(u, o)
    BY <1>3, <2>1, <2>2, Zenon
  <2>4. o \in Models /\ o \in Optional(Models) /\ f[o] \in Paths
    BY <1>2 DEF IsOpen, Optional
  <2> HIDE DEF f
  <2>5. Edits(s, u) /\ u.tab = f
    BY <1>1, <1>2, <2>2, <2>4, TabsEdits
  <2>6. IsOpen(u, o)
    BY <2>4, <2>5 DEF IsOpen
  <2>7. /\ MainStep(s, t, out) /\ SameEditor(u, t) /\ t.registered[u.tab[o]] = o
        /\ \A q \in Paths : q # u.tab[o] => t.registered[q] = s.registered[q]
    BY <2>3, <2>4, <2>5, <2>6, EditAndSync
  <2>8. t.tab = f
    BY <2>5, <2>7 DEF SameEditor
  <2> QED
    BY <2>4, <2>5, <2>7, <2>8 DEF f
<1> QED
  BY <1>4, <1>5, <1>6, Zenon DEF Leave

\* Steps of the main thread follow each other.
LEMMA MainStepTransitive ==
  ASSUME NEW s, NEW u, NEW t, NEW out, MainStep(s, u, out), MainStep(u, t, out),
         Reregisters(s, t) => Reregisters(s, u) /\ Reregisters(u, t)
  PROVE  MainStep(s, t, out)
<1>1. Quiet(s, t)
  BY QuietTransitive DEF MainStep
<1>2. Carries(s, u, out) /\ Carries(u, t, out) => Carries(s, t, out)
  BY CarriesTransitive
<1> QED
  BY <1>1, <1>2 DEF MainStep

\* The debounce of path p has elapsed.
LEMMA TimerFiresStep ==
  ASSUME NEW s, NEW out, EnvOK(out), Good(s, out), NEW p \in Paths, s.timer[p] # 0,
         NEW t, t = requestDiagnostics([s EXCEPT !.timer[p] = 0], p, s.timer[p])
  PROVE  MainStep(s, t, out) /\ t.registered = s.registered /\ t.tab = s.tab
<1>1. PICK u : u = Stopped(s, p)
  OBVIOUS
<1>2. PICK v : v = s.timer[p]
  OBVIOUS
<1>3. t = requestDiagnostics(u, p, v)
  BY <1>1, <1>2, Zenon DEF Stopped
<1>4. /\ Good(u, out) /\ Carries(s, u, out)
      /\ (Faithful(s, out) => Faithful(u, out)) /\ (ModelsOK(s) => ModelsOK(u))
      /\ SameEditor(s, u) /\ SamePromises(s, u) /\ SameWorker(s, u) /\ SameQueues(s, u) /\ u.markers = s.markers
      /\ u.registered = s.registered /\ u.lastSent = s.lastSent /\ u.fingerprint = s.fingerprint
      /\ u.timer[p] = 0 /\ \A q \in Paths : q # p => u.timer[q] = s.timer[q]
  BY <1>1, TimerStep
<1>5. s \in Session /\ v \in Versions
  <2>1. s \in Session
    BY DEF Good, Sound
  <2> QED
    BY <1>2, <2>1 DEF Session
<1>6. /\ Good(t, out) /\ Carries(u, t, out)
      /\ Faithful(u, out) /\ (u.registered[p] # None => v <= u.version[u.registered[p]]) => Faithful(t, out)
      /\ t.worker # 0 /\ t.pending["diagnostics"][p] # 0
      /\ \A k \in Tracked, q \in Paths : k # "diagnostics" \/ q # p => t.pending[k][q] = u.pending[k][q]
      /\ u.worker # 0 => SameWorker(u, t) /\ t.lastSent = u.lastSent
      /\ u.worker = 0 => \A q \in Paths : t.lastSent[q] = Sent(u, q)
      /\ SameEditor(u, t) /\ SamePromises(u, t)
      /\ t.registered = u.registered /\ t.timer = u.timer /\ t.fingerprint = u.fingerprint
      /\ t.markers = u.markers
  BY <1>3, <1>4, <1>5, DiagnosticsStep, SMTT(60)
<1>7. Carries(s, t, out)
  BY <1>4, <1>6, CarriesTransitive
<1>8. Quiet(s, t)
  BY <1>4, <1>6 DEF Quiet, SamePromises
<1>9. ASSUME Fine(s, out) PROVE Fine(t, out)
  <2>1. Faithful(t, out)
    BY <1>2, <1>4, <1>6, <1>9 DEF Fine, Faithful, VersionsOK, SameEditor
  <2>2. ModelsOK(t)
    BY <1>4, <1>6, <1>9, ModelsKept DEF Fine
  <2>3. s.registered[p] # None
    BY <1>9 DEF Fine, ClosedOK
  <2>4. ClosedOK(t)
    <3> SUFFICES ASSUME NEW q \in Paths, t.registered[q] = None
                 PROVE  t.lastSent[q] = 0 /\ t.timer[q] = 0 /\ \A k \in Tracked : t.pending[k][q] = 0
      BY DEF ClosedOK
    <3>1. q # p /\ s.registered[q] = None
      BY <1>4, <1>6, <2>3
    <3>2. s.lastSent[q] = 0 /\ s.timer[q] = 0 /\ \A k \in Tracked : s.pending[k][q] = 0
      BY <1>9, <3>1 DEF Fine, ClosedOK
    <3>3. t.lastSent[q] = 0
      BY <1>4, <1>6, <3>1, <3>2 DEF Sent
    <3>4. \A k \in Tracked : t.pending[k][q] = s.pending[k][q]
      BY <1>4, <1>6, <3>1 DEF SameQueues
    <3> QED
      BY <1>4, <1>6, <3>1, <3>2, <3>3, <3>4
  <2> QED
    BY <2>1, <2>2, <2>4 DEF Fine
<1> QED
  BY <1>4, <1>6, <1>7, <1>8, <1>9 DEF MainStep, SameEditor

(***************************************************************************)
(* The worker dies                                                         *)
(***************************************************************************)
\* handleWorkerError: every promise is resolved, and nothing waits for the dead worker.
LEMMA ErrorFields ==
  ASSUME NEW s \in Session, NEW t, t = handleWorkerError(s)
  PROVE  /\ t \in Session /\ t.worker = 0 /\ t.born = s.born
         /\ SameEditor(s, t) /\ t.registered = s.registered /\ t.lastSent = s.lastSent /\ t.timer = s.timer
         /\ t.markers = s.markers /\ t.inbox = s.inbox /\ t.nextRequestId = s.nextRequestId
         /\ \A k \in Tracked, p \in Paths : t.pending[k][p] = IF k = "diagnostics" THEN s.pending[k][p] ELSE 0
         /\ \A k \in Kinds, p \in Paths : t.resolver[k][p] = {} /\ t.retry[k][p] = None
         /\ \A p \in Paths : t.fingerprint[p] = None
         /\ \A n \in Calls : t.answer[n] \in {s.answer[n], Empty}
<1> DEFINE a == [n \in Calls |-> IF \E k \in Kinds, p \in Paths : n \in s.resolver[k][p] THEN Empty ELSE s.answer[n]]
           r == [k \in Kinds |-> [p \in Paths |-> {}]]
           y == [k \in Kinds |-> [p \in Paths |-> None]]
           g == [k \in Tracked |-> IF k = "diagnostics" THEN s.pending[k] ELSE [p \in Paths |-> 0]]
           o == [p \in Paths |-> None]
           u == [s EXCEPT !.answer = a, !.resolver = r]
           v == [u EXCEPT !.retry = y, !.pending = g]
           x == [v EXCEPT !.hoverKey = o, !.fingerprint = o]
<1>1. s.answer \in [Calls -> Promises] /\ s.pending \in [Tracked -> [Paths -> Nat]] /\ 0 \in 0 .. MaxWorkers
  BY SessionAssumption DEF Session
<1>2. a \in [Calls -> Promises] /\ r \in [Kinds -> [Paths -> SUBSET Calls]]
  BY <1>1 DEF Promises
<1>3. y \in [Kinds -> [Paths -> Optional(Retries)]] /\ g \in [Tracked -> [Paths -> Nat]]
  BY <1>1 DEF Optional
<1>4. o \in [Paths -> Optional(Versions \X Positions)] /\ o \in [Paths -> Optional(Fingerprints)]
  BY DEF Optional
<1>5. /\ \A k \in Tracked, p \in Paths : g[k][p] = IF k = "diagnostics" THEN s.pending[k][p] ELSE 0
      /\ \A k \in Kinds, p \in Paths : r[k][p] = {} /\ y[k][p] = None
      /\ \A p \in Paths : o[p] = None
      /\ \A n \in Calls : a[n] \in {s.answer[n], Empty}
  BY <1>1
<1>6. t = [s EXCEPT !.answer = a, !.resolver = r, !.retry = y, !.pending = g, !.hoverKey = o, !.fingerprint = o,
                    !.worker = 0]
  BY DEF handleWorkerError, Session
<1> HIDE DEF a, r, y, g, o
<1>7. u \in Session
  BY <1>2, Zenon DEF Session
<1>8. v \in Session
  <2> HIDE DEF u
  <2> QED
    BY <1>3, <1>7, Zenon DEF Session
<1>9. x \in Session
  <2> HIDE DEF v
  <2> QED
    BY <1>4, <1>8, Zenon DEF Session
<1>10. t = [x EXCEPT !.worker = 0]
  BY <1>6 DEF Session
<1>11. t \in Session
  <2>1. 0 \in 0 .. MaxWorkers
    BY <1>1
  <2> HIDE DEF x
  <2> QED
    BY <1>9, <1>10, <2>1, ZenonT(60) DEF Session
<1>12. /\ t.worker = 0 /\ t.born = s.born
       /\ SameEditor(s, t) /\ t.registered = s.registered /\ t.lastSent = s.lastSent /\ t.timer = s.timer
       /\ t.markers = s.markers /\ t.inbox = s.inbox /\ t.nextRequestId = s.nextRequestId
       /\ t.pending = g /\ t.resolver = r /\ t.retry = y /\ t.fingerprint = o /\ t.answer = a
  BY <1>6 DEF Session, SameEditor
<1> QED
  BY <1>5, <1>11, <1>12

\* What it keeps, but for the workers' state of health.
LEMMA ErrorStep ==
  ASSUME NEW s, NEW out, EnvOK(out), Good(s, out), NEW t, t = handleWorkerError(s)
  PROVE  /\ t \in Session /\ TabsOK(t) /\ ResolversOK(t) /\ IdsOK(t, out) /\ CancelsOK(t) /\ RetriesOK(t)
         /\ Fine(s, out) => Fine(t, out) /\ AllUnderWay(t, out)
         /\ Quiet(s, t) /\ t.registered = s.registered /\ t.inbox = s.inbox /\ t.born = s.born /\ t.worker = 0 /\ SameEditor(s, t)
<1>1. s \in Session /\ "diagnostics" \notin Kinds
  BY KindsTracked DEF Good, Sound
<1>2. /\ t \in Session /\ t.worker = 0 /\ t.born = s.born
      /\ SameEditor(s, t) /\ t.registered = s.registered /\ t.lastSent = s.lastSent /\ t.timer = s.timer
      /\ t.markers = s.markers /\ t.inbox = s.inbox /\ t.nextRequestId = s.nextRequestId
      /\ \A k \in Tracked, p \in Paths : t.pending[k][p] = IF k = "diagnostics" THEN s.pending[k][p] ELSE 0
      /\ \A k \in Kinds, p \in Paths : t.resolver[k][p] = {} /\ t.retry[k][p] = None
      /\ \A p \in Paths : t.fingerprint[p] = None
      /\ \A n \in Calls : t.answer[n] \in {s.answer[n], Empty}
  BY <1>1, ErrorFields
<1>3. /\ \A k \in Tracked, p \in Paths : t.pending[k][p] # 0 => k = "diagnostics" /\ t.pending[k][p] = s.pending[k][p]
      /\ \A k \in Kinds, p \in Paths : t.pending[k][p] = 0
      /\ \A k \in Tracked, p \in Paths : t.pending[k][p] \in {0, s.pending[k][p]}
  BY <1>1, <1>2 DEF Tracked
<1>4. TabsOK(t) /\ ResolversOK(t)
  <2>1. TabsOK(t)
    BY <1>2, TabsKept DEF Good, Sound
  <2>2. ResolversOK(t)
    BY <1>2 DEF ResolversOK
  <2> QED
    BY <2>1, <2>2
<1>5. CancelsOK(t) /\ RetriesOK(t)
  <2>1. CancelsOK(t)
    BY <1>2, <1>3 DEF Good, Sound, CancelsOK
  <2>2. RetriesOK(t)
    BY <1>2, <1>3 DEF RetriesOK
  <2> QED
    BY <2>1, <2>2
<1>6. IdsOK(t, out)
  <2>1. \A k \in Tracked, p \in Paths : t.pending[k][p] < t.nextRequestId
    <3>1. s.nextRequestId \in Nat \ {0} /\ \A k \in Tracked, p \in Paths : s.pending[k][p] < s.nextRequestId
      BY <1>1 DEF Session, Good, Sound, IdsOK
    <3> QED
      BY <1>2, <1>3, <3>1
  <2>2. \A k, j \in Tracked, p, q \in Paths :
          t.pending[k][p] # 0 /\ t.pending[j][q] = t.pending[k][p] => j = k /\ q = p
    BY <1>3 DEF Good, Sound, IdsOK
  <2> QED
    BY <1>2, <2>1, <2>2 DEF Good, Sound, IdsOK
<1>7. ASSUME Fine(s, out) PROVE Fine(t, out) /\ AllUnderWay(t, out)
  <2>1. \A msg : \A k \in Tracked, p \in Paths :
          /\ IsRequest(t, k, p, msg) => IsRequest(s, k, p, msg)
          /\ IsAnswer(t, k, p, msg) => IsAnswer(s, k, p, msg)
    BY <1>3 DEF IsRequest, IsAnswer
  <2>2. VersionsOK(t) /\ MirrorOK(t)
    BY <1>2, <1>7 DEF Fine, Faithful, VersionsOK, MirrorOK, SameEditor
  <2>3. RequestsOK(t) /\ RepliesOK(t, out)
    BY <1>2, <1>7, <2>1 DEF Fine, Faithful, RequestsOK, RepliesOK, SameEditor
  <2>4. ModelsOK(t)
    BY <1>2 DEF ModelsOK
  <2>5. ClosedOK(t)
    BY <1>2, <1>3, <1>7 DEF Fine, ClosedOK
  <2>6. AllUnderWay(t, out)
    BY <1>3 DEF AllUnderWay
  <2> QED
    BY <2>2, <2>3, <2>4, <2>5, <2>6 DEF Fine, Faithful
<1>8. Quiet(s, t)
  BY <1>2 DEF Quiet
<1> QED
  BY <1>2, <1>4, <1>5, <1>6, <1>7, <1>8

(***************************************************************************)
(* The worker handles a message                                            *)
(***************************************************************************)
\* What the worker may post for message msg.
Posted(w, msg, x) ==
  \/ /\ x = [type |-> "resync", path |-> msg.path]
     /\ msg.type = "update" \/ (msg.type = "request" /\ Missing(w, msg))
  \/ /\ msg.type = "request" /\ ~Missing(w, msg)
     /\ x.type = "answer" /\ x.kind = msg.kind /\ x.id = msg.id /\ x.path = msg.path /\ x.version = msg.version
     /\ x.result \in {mirror[w][msg.path], None}

\* The live worker w takes msg from its inbox, and posts what is in posts.
Did(w, msg, posts) ==
  /\ w = main.worker /\ main.inbox[w] # <<>> /\ msg = Head(main.inbox[w])
  /\ main' = [main EXCEPT !.inbox[w] = Tail(@)] /\ health' = health
  /\ mirror' \in [Workers -> [Paths -> Optional(Docs)]]
  /\ \A v \in Workers : v # w => mirror'[v] = mirror[v]
  /\ \A p \in Paths : mirror'[w][p] = After(msg, p, mirror[w][p])
  /\ flags' \in [Workers -> SUBSET (Nat \ {0})]
  /\ \A v \in Workers : v # w => flags'[v] = flags[v]
  /\ \A id \in flags'[w] : id \in flags[w] \/ (msg.type = "cancel" /\ id = msg.id)
  /\ \/ posts = {} /\ outbox' = outbox
     \/ \E x \in ToMain : posts = {x} /\ outbox' = [outbox EXCEPT ![w] = Append(@, x)]
  /\ \A x \in posts : Posted(w, msg, x)
  /\ posts = {} => msg.type # "request" \/ isCancelled(w, msg)

\* A worker that handles messages is the live one.
LEMMA WorkerIsLive ==
  ASSUME Good(main, outbox), NEW w \in Workers, health[w] = "up", main.inbox[w] # <<>>
  PROVE  w = main.worker
<1>1. main \in Session /\ WorkersOK(main, outbox)
  BY DEF Good, Sound
<1>2. main.born \in Nat /\ w \in Nat
  BY <1>1, SessionAssumption DEF Session, Workers
<1> QED
  BY <1>1, <1>2 DEF WorkersOK

\* Every step of the worker handles the head of its inbox: Did says what it does.
LEMMA WorkerDoes ==
  ASSUME EnvOK(outbox), Good(main, outbox), NEW w \in Workers, WorkerStep(w)
  PROVE  Head(main.inbox[w]) \in ToWorker /\ \E posts : Did(w, Head(main.inbox[w]), posts)
<1> DEFINE msg == Head(main.inbox[w])
<1>1. health[w] = "up" /\ main.inbox[w] # <<>> /\ main' = [main EXCEPT !.inbox[w] = Tail(@)] /\ health' = health
  BY DEF WorkerStep
<1>2. w = main.worker
  BY <1>1, WorkerIsLive
<1>3. main.inbox[w] \in Seq(ToWorker)
  BY DEF Good, Sound, Session
<1>4. msg \in ToWorker
  BY <1>1, <1>3
<1>5. /\ mirror \in [Workers -> [Paths -> Optional(Docs)]] /\ mirror[w] \in [Paths -> Optional(Docs)]
      /\ flags \in [Workers -> SUBSET (Nat \ {0})] /\ outbox \in [Workers -> Seq(ToMain)]
  BY DEF EnvOK
<1>6. \/ WorkerOpens(w, msg) \/ WorkerUpdates(w, msg) \/ WorkerCloses(w, msg)
      \/ WorkerCancels(w, msg) \/ WorkerAnswers(w, msg)
  BY DEF WorkerStep
<1> HIDE DEF msg
<1>7. msg = Head(main.inbox[w])
  BY DEF msg
<1>8. CASE WorkerOpens(w, msg)
  <2>1. msg.type = "open" /\ msg.path \in Paths /\ msg.doc \in Docs
    BY <1>4, <1>8 DEF ToWorker, WorkerOpens
  <2>2. mirror' = [mirror EXCEPT ![w] = StoreOpen(@, msg.path, msg.doc)] /\ flags' = flags /\ outbox' = outbox
    BY <1>8 DEF WorkerOpens
  <2>3. /\ StoreOpen(mirror[w], msg.path, msg.doc) \in [Paths -> Optional(Docs)]
        /\ \A p \in Paths : StoreOpen(mirror[w], msg.path, msg.doc)[p] = After(msg, p, mirror[w][p])
    BY <1>5, <2>1 DEF StoreOpen, After, Optional
  <2>4. /\ mirror' \in [Workers -> [Paths -> Optional(Docs)]]
        /\ \A v \in Workers : v # w => mirror'[v] = mirror[v]
        /\ \A p \in Paths : mirror'[w][p] = After(msg, p, mirror[w][p])
    BY <1>5, <2>2, <2>3
  <2>10. Did(w, msg, {})
    BY <1>1, <1>2, <1>5, <1>7, <2>1, <2>2, <2>4 DEF Did
  <2> QED
    BY <1>4, <1>7, <2>10
<1>9. CASE WorkerUpdates(w, msg)
  <2>1. msg.type = "update" /\ msg.path \in Paths /\ msg.doc \in Docs
    BY <1>4, <1>9 DEF ToWorker, WorkerUpdates
  <2>2. /\ mirror' = [mirror EXCEPT ![w] = StoreUpdate(@, msg.path, msg.doc, msg.previous)] /\ flags' = flags
        /\ outbox' = IF StoreRejects(mirror[w], msg.path, msg.previous)
                     THEN [outbox EXCEPT ![w] = @ \o Resync(msg.path)] ELSE outbox
    BY <1>9 DEF WorkerUpdates
  <2>3. /\ StoreUpdate(mirror[w], msg.path, msg.doc, msg.previous) \in [Paths -> Optional(Docs)]
        /\ \A p \in Paths : StoreUpdate(mirror[w], msg.path, msg.doc, msg.previous)[p] = After(msg, p, mirror[w][p])
    BY <1>5, <2>1 DEF StoreUpdate, StoreRejects, After, Optional
  <2>4. /\ mirror' \in [Workers -> [Paths -> Optional(Docs)]]
        /\ \A v \in Workers : v # w => mirror'[v] = mirror[v]
        /\ \A p \in Paths : mirror'[w][p] = After(msg, p, mirror[w][p])
    BY <1>5, <2>2, <2>3
  <2> DEFINE x == [type |-> "resync", path |-> msg.path]
  <2>5. x \in ToMain /\ Posted(w, msg, x)
    BY <2>1 DEF ToMain, Posted
  <2>6. Resync(msg.path) = <<x>>
    BY DEF Resync
  <2> HIDE DEF x
  <2>7. outbox[w] \o <<x>> = Append(outbox[w], x)
    BY <1>5, <2>5, AppendIsConcat
  <2>8. CASE outbox' = outbox
    <3>1. Did(w, msg, {})
      BY <1>1, <1>2, <1>5, <1>7, <2>1, <2>2, <2>4, <2>8 DEF Did
    <3> QED
      BY <1>4, <1>7, <3>1
  <2>9. CASE outbox' = [outbox EXCEPT ![w] = Append(@, x)]
    <3>1. Did(w, msg, {x})
      BY <1>1, <1>2, <1>5, <1>7, <2>1, <2>2, <2>4, <2>5, <2>9 DEF Did
    <3> QED
      BY <1>4, <1>7, <3>1
  <2> QED
    BY <2>2, <2>6, <2>7, <2>8, <2>9
<1>10. CASE WorkerCloses(w, msg)
  <2>1. msg.type = "close" /\ msg.path \in Paths
    BY <1>4, <1>10 DEF ToWorker, WorkerCloses
  <2>2. mirror' = [mirror EXCEPT ![w] = [@ EXCEPT ![msg.path] = None]] /\ flags' = flags /\ outbox' = outbox
    BY <1>10 DEF WorkerCloses
  <2>3. /\ mirror' \in [Workers -> [Paths -> Optional(Docs)]]
        /\ \A v \in Workers : v # w => mirror'[v] = mirror[v]
        /\ \A p \in Paths : mirror'[w][p] = After(msg, p, mirror[w][p])
    BY <1>5, <2>1, <2>2 DEF After, Optional
  <2>10. Did(w, msg, {})
    BY <1>1, <1>2, <1>5, <1>7, <2>1, <2>2, <2>3 DEF Did
  <2> QED
    BY <1>4, <1>7, <2>10
<1>11. CASE WorkerCancels(w, msg)
  <2>1. msg.type = "cancel" /\ msg.id \in Nat \ {0}
    BY <1>4, <1>11 DEF ToWorker, WorkerCancels
  <2>2. flags' = [flags EXCEPT ![w] = @ \cup {msg.id}] /\ mirror' = mirror /\ outbox' = outbox
    BY <1>11 DEF WorkerCancels
  <2>3. \A p \in Paths : mirror[w][p] = After(msg, p, mirror[w][p])
    BY <2>1 DEF After
  <2>4. /\ flags' \in [Workers -> SUBSET (Nat \ {0})]
        /\ \A v \in Workers : v # w => flags'[v] = flags[v]
        /\ \A id \in flags'[w] : id \in flags[w] \/ id = msg.id
    BY <1>5, <2>1, <2>2
  <2>10. Did(w, msg, {})
    BY <1>1, <1>2, <1>5, <1>7, <2>1, <2>2, <2>3, <2>4 DEF Did
  <2> QED
    BY <1>4, <1>7, <2>10
<1>12. CASE WorkerAnswers(w, msg)
  <2>1. msg.type = "request" /\ msg.path \in Paths /\ msg.kind \in Tracked /\ msg.id \in Nat \ {0} /\ msg.version \in Versions
    BY <1>4, <1>12 DEF ToWorker, WorkerAnswers
  <2>2. PICK reply \in IF msg.kind = "diagnostics" THEN DiagnosticsReplies(w, msg) ELSE PromiseReplies(w, msg) :
          /\ outbox' = [outbox EXCEPT ![w] = @ \o reply]
          /\ flags' = IF reply = Resync(msg.path) THEN flags ELSE [flags EXCEPT ![w] = @ \ {msg.id}]
    BY <1>12 DEF WorkerAnswers
  <2>3. mirror' = mirror /\ \A p \in Paths : mirror[w][p] = After(msg, p, mirror[w][p])
    BY <1>12, <2>1 DEF After, WorkerAnswers
  <2>4. /\ flags' \in [Workers -> SUBSET (Nat \ {0})]
        /\ \A v \in Workers : v # w => flags'[v] = flags[v]
        /\ \A id \in flags'[w] : id \in flags[w]
    BY <1>5, <2>2
  <2>5. CASE reply = <<>> /\ isCancelled(w, msg)
    <3>1. outbox' = outbox
      BY <1>5, <2>2, <2>5
    <3>2. Did(w, msg, {})
      BY <1>1, <1>2, <1>5, <1>7, <2>1, <2>3, <2>4, <2>5, <3>1 DEF Did
    <3> QED
      BY <1>4, <1>7, <3>2
  <2>6. ASSUME NEW x \in ToMain, reply = <<x>>, Posted(w, msg, x)
        PROVE  \E posts : Did(w, msg, posts)
    <3>1. outbox[w] \o <<x>> = Append(outbox[w], x)
      BY <1>5, AppendIsConcat
    <3>2. outbox' = [outbox EXCEPT ![w] = Append(@, x)]
      BY <2>2, <2>6, <3>1
    <3>3. Did(w, msg, {x})
      BY <1>1, <1>2, <1>5, <1>7, <2>3, <2>4, <2>6, <3>2 DEF Did
    <3> QED
      BY <3>3
  <2>7. CASE reply = Resync(msg.path) /\ Missing(w, msg)
    <3> DEFINE x == [type |-> "resync", path |-> msg.path]
    <3>1. x \in ToMain /\ Posted(w, msg, x) /\ reply = <<x>>
      BY <2>1, <2>7 DEF ToMain, Posted, Resync
    <3> QED
      BY <1>4, <1>7, <2>6, <3>1
  <2>8. CASE reply \in Answers(w, msg) /\ ~Missing(w, msg)
    <3>1. PICK r \in Results :
            reply = <<[type |-> "answer", kind |-> msg.kind, id |-> msg.id, path |-> msg.path, version |-> msg.version,
                       result |-> IF r = "ok" THEN mirror[w][msg.path] ELSE None]>>
      BY <2>8 DEF Answers
    <3> DEFINE d == IF r = "ok" THEN mirror[w][msg.path] ELSE None
               x == [type |-> "answer", kind |-> msg.kind, id |-> msg.id, path |-> msg.path, version |-> msg.version,
                     result |-> d]
    <3>2. d \in Optional(Docs) /\ d \in {mirror[w][msg.path], None}
      BY <1>5, <2>1 DEF Optional
    <3> HIDE DEF d
    <3>3. x \in ToMain
      BY <2>1, <3>2 DEF ToMain
    <3>4. Posted(w, msg, x)
      BY <2>1, <2>8, <3>2 DEF Posted
    <3>5. reply = <<x>>
      BY <3>1 DEF d
    <3> QED
      BY <1>4, <1>7, <2>6, <3>3, <3>4, <3>5
  <2>9. \/ reply = <<>> /\ isCancelled(w, msg)
        \/ reply = Resync(msg.path) /\ Missing(w, msg)
        \/ reply \in Answers(w, msg) /\ ~Missing(w, msg)
    BY <2>2 DEF DiagnosticsReplies, PromiseReplies
  <2> QED
    BY <2>5, <2>7, <2>8, <2>9
<1> QED
  BY <1>6, <1>8, <1>9, <1>10, <1>11, <1>12

\* What the worker does to the channels.
LEMMA DidFields ==
  ASSUME EnvOK(outbox), Good(main, outbox), NEW w \in Workers, NEW msg \in ToWorker, NEW posts, Did(w, msg, posts)
  PROVE  /\ EnvOK(outbox)' /\ main' \in Session
         /\ SameEditor(main, main') /\ SameWorker(main, main') /\ SameDocs(main, main') /\ SamePromises(main, main')
         /\ main'.pending = main.pending /\ main'.nextRequestId = main.nextRequestId /\ main'.markers = main.markers
         /\ main'.inbox[w] = Tail(main.inbox[w])
         /\ \A v \in Workers : v # w => main'.inbox[v] = main.inbox[v] /\ outbox'[v] = outbox[v]
         /\ \A i \in DOMAIN outbox'[w] :
              (\E j \in DOMAIN outbox[w] : outbox'[w][i] = outbox[w][j]) \/ outbox'[w][i] \in posts
         /\ \A j \in DOMAIN outbox[w] : \E i \in DOMAIN outbox'[w] : outbox'[w][i] = outbox[w][j]
         /\ \A x \in posts : \E i \in DOMAIN outbox'[w] : outbox'[w][i] = x
<1> DEFINE f == [main.inbox EXCEPT ![w] = Tail(@)]
<1>1. main \in Session /\ main.inbox \in [Workers -> Seq(ToWorker)] /\ main.inbox[w] # <<>>
  BY DEF Good, Sound, Session, Did
<1>2. /\ f \in [Workers -> Seq(ToWorker)] /\ f[w] = Tail(main.inbox[w])
      /\ \A v \in Workers : v # w => f[v] = main.inbox[v]
  <2>1. Tail(main.inbox[w]) \in Seq(ToWorker)
    BY <1>1
  <2> QED
    BY <1>1, <2>1
<1>3. main' = [main EXCEPT !.inbox = f]
  BY <1>1 DEF Did, Session
<1> HIDE DEF f
<1>4. main' \in Session
  <2>1. main \in Session /\ f \in [Workers -> Seq(ToWorker)]
    BY <1>1, <1>2
  <2> QED
    BY <1>3, <2>1, Zenon DEF Session
<1>5. /\ SameEditor(main, main') /\ SameWorker(main, main') /\ SameDocs(main, main') /\ SamePromises(main, main')
      /\ main'.pending = main.pending /\ main'.nextRequestId = main.nextRequestId /\ main'.markers = main.markers
      /\ main'.inbox = f
  BY <1>1, <1>3 DEF Session, SameEditor, SameWorker, SameDocs, SamePromises
<1>6. outbox \in [Workers -> Seq(ToMain)] /\ health \in [Workers -> {"up", "dead", "reported"}]
  BY DEF EnvOK
<1>7. /\ outbox' \in [Workers -> Seq(ToMain)]
      /\ \A v \in Workers : v # w => outbox'[v] = outbox[v]
      /\ \A i \in DOMAIN outbox'[w] :
           (\E j \in DOMAIN outbox[w] : outbox'[w][i] = outbox[w][j]) \/ outbox'[w][i] \in posts
      /\ \A j \in DOMAIN outbox[w] : \E i \in DOMAIN outbox'[w] : outbox'[w][i] = outbox[w][j]
      /\ \A x \in posts : \E i \in DOMAIN outbox'[w] : outbox'[w][i] = x
  <2>1. CASE posts = {} /\ outbox' = outbox
    BY <1>6, <2>1
  <2>2. CASE \E x \in ToMain : posts = {x} /\ outbox' = [outbox EXCEPT ![w] = Append(@, x)]
    <3>1. PICK x \in ToMain : posts = {x} /\ outbox' = [outbox EXCEPT ![w] = Append(@, x)]
      BY <2>2
    <3> DEFINE q == outbox[w]
    <3>2. q \in Seq(ToMain) /\ outbox'[w] = Append(q, x)
      BY <1>6, <3>1
    <3>3. /\ outbox' \in [Workers -> Seq(ToMain)]
          /\ \A v \in Workers : v # w => outbox'[v] = outbox[v]
      BY <1>6, <3>1
    <3> HIDE DEF q
    <3>4. /\ Append(q, x)[Len(q) + 1] = x /\ Len(q) + 1 \in DOMAIN Append(q, x)
          /\ \A j \in DOMAIN q : j \in DOMAIN Append(q, x) /\ Append(q, x)[j] = q[j]
          /\ \A i \in DOMAIN Append(q, x) : i \in DOMAIN q \/ i = Len(q) + 1
      BY <3>2
    <3> QED
      BY <3>1, <3>2, <3>3, <3>4 DEF q
  <2> QED
    BY <2>1, <2>2 DEF Did
<1>8. EnvOK(outbox)'
  BY <1>6, <1>7 DEF EnvOK, Did
<1> QED
  BY <1>2, <1>4, <1>5, <1>7, <1>8

\* A step of the worker keeps what holds whatever becomes of the files ...
LEMMA WorkerSound ==
  ASSUME EnvOK(outbox), Good(main, outbox), NEW w \in Workers, NEW msg \in ToWorker, NEW posts, Did(w, msg, posts)
  PROVE  EnvOK(outbox)' /\ Good(main, outbox)'
<1>1. /\ EnvOK(outbox)' /\ main' \in Session
      /\ SameEditor(main, main') /\ SameWorker(main, main') /\ SameDocs(main, main') /\ SamePromises(main, main')
      /\ main'.pending = main.pending /\ main'.nextRequestId = main.nextRequestId
      /\ main'.inbox[w] = Tail(main.inbox[w])
      /\ \A v \in Workers : v # w => main'.inbox[v] = main.inbox[v] /\ outbox'[v] = outbox[v]
      /\ \A i \in DOMAIN outbox'[w] :
           (\E j \in DOMAIN outbox[w] : outbox'[w][i] = outbox[w][j]) \/ outbox'[w][i] \in posts
  BY DidFields
<1>2. /\ main \in Session /\ WorkersOK(main, outbox) /\ IdsOK(main, outbox) /\ CancelsOK(main)
      /\ TabsOK(main) /\ ResolversOK(main) /\ RetriesOK(main)
  BY DEF Good, Sound
<1>3. main.inbox[w] \in Seq(ToWorker) /\ main.inbox[w] # <<>> /\ msg = Head(main.inbox[w])
  BY <1>2 DEF Session, Did
<1>4. /\ 1 \in DOMAIN main.inbox[w] /\ main.inbox[w][1] = msg
      /\ \A i \in DOMAIN Tail(main.inbox[w]) :
           i + 1 \in DOMAIN main.inbox[w] /\ Tail(main.inbox[w])[i] = main.inbox[w][i + 1]
  BY <1>3
<1>5. \A v \in Workers : \A i \in DOMAIN main'.inbox[v] : \E j \in DOMAIN main.inbox[v] : main'.inbox[v][i] = main.inbox[v][j]
  <2> SUFFICES ASSUME NEW v \in Workers, NEW i \in DOMAIN main'.inbox[v]
               PROVE  \E j \in DOMAIN main.inbox[v] : main'.inbox[v][i] = main.inbox[v][j]
    OBVIOUS
  <2>1. CASE v # w
    BY <1>1, <2>1
  <2>2. CASE v = w
    <3>1. i + 1 \in DOMAIN main.inbox[w] /\ main'.inbox[w][i] = main.inbox[w][i + 1]
      BY <1>1, <1>4, <2>2
    <3> QED
      BY <2>2, <3>1
  <2> QED
    BY <2>1, <2>2
<1>6. /\ w = main.worker /\ w # 0 /\ w = main.born
      /\ main'.worker = main.worker /\ main'.born = main.born /\ health' = health
      /\ \A v \in Workers : v # w => mirror'[v] = mirror[v] /\ flags'[v] = flags[v]
      /\ \A id \in flags'[w] : id \in flags[w] \/ (msg.type = "cancel" /\ id = msg.id)
  BY <1>1, <1>2, SMTT(60) DEF Did, SameWorker, Workers, WorkersOK
<1>7. TabsOK(main)' /\ ResolversOK(main)' /\ RetriesOK(main)'
  <2>1. TabsOK(main')
    BY <1>1, <1>2, TabsKept
  <2>2. ResolversOK(main')
    BY <1>1, <1>2, ResolversSame
  <2>3. RetriesOK(main')
    BY <1>1, <1>2 DEF RetriesOK, SamePromises, SameWorker
  <2> QED
    BY <2>1, <2>2, <2>3 DEF TabsOK, ResolversOK, RetriesOK, IsOpen
<1>8. WorkersOK(main, outbox)'
  <2>1. \A v \in Workers : v > main.born => v # w
    <3>1. main.born \in Nat
      BY <1>2, SessionAssumption DEF Session, Workers
    <3> QED
      BY <1>6, <3>1
  <2>2. \A v \in Workers : v > main.born =>
          /\ health[v] = "up" /\ main'.inbox[v] = <<>> /\ outbox'[v] = <<>> /\ flags'[v] = {}
          /\ mirror'[v] = [p \in Paths |-> None]
    <3> SUFFICES ASSUME NEW v \in Workers, v > main.born
                 PROVE  /\ health[v] = "up" /\ main'.inbox[v] = <<>> /\ outbox'[v] = <<>> /\ flags'[v] = {}
                        /\ mirror'[v] = [p \in Paths |-> None]
      OBVIOUS
    <3>1. v # w
      BY <2>1
    <3>2. /\ main'.inbox[v] = main.inbox[v] /\ outbox'[v] = outbox[v] /\ flags'[v] = flags[v]
          /\ mirror'[v] = mirror[v]
      BY <1>1, <1>6, <3>1
    <3>3. /\ health[v] = "up" /\ main.inbox[v] = <<>> /\ outbox[v] = <<>> /\ flags[v] = {}
          /\ mirror[v] = [p \in Paths |-> None]
      BY <1>2 DEF WorkersOK
    <3> QED
      BY <3>2, <3>3, Zenon
  <2>3. /\ main.worker \in {0, main.born}
        /\ \A v \in Workers : v <= main.born /\ v # main.worker => health[v] = "reported"
        /\ main.worker # 0 => health[main.worker] \in {"up", "dead"}
        /\ main.worker = 0 \/ health[main.worker] = "dead" => main.born < MaxWorkers
    BY <1>2, Zenon DEF WorkersOK
  <2> QED
    BY <1>6, <2>2, <2>3, Zenon DEF WorkersOK
<1>9. IdsOK(main, outbox)'
  <2>1. \A v \in Workers : \A i \in DOMAIN main'.inbox[v] : main'.inbox[v][i].type \in {"request", "cancel"} =>
          main'.inbox[v][i].id < main.nextRequestId
    <3> SUFFICES ASSUME NEW v \in Workers, NEW i \in DOMAIN main'.inbox[v], main'.inbox[v][i].type \in {"request", "cancel"}
                 PROVE  main'.inbox[v][i].id < main.nextRequestId
      OBVIOUS
    <3>1. PICK j \in DOMAIN main.inbox[v] : main'.inbox[v][i] = main.inbox[v][j]
      BY <1>5
    <3> QED
      BY <1>2, <3>1 DEF IdsOK
  <2>2. \A v \in Workers : \A i \in DOMAIN outbox'[v] : outbox'[v][i].type = "answer" =>
          outbox'[v][i].id < main.nextRequestId
    <3> SUFFICES ASSUME NEW v \in Workers, NEW i \in DOMAIN outbox'[v], outbox'[v][i].type = "answer"
                 PROVE  outbox'[v][i].id < main.nextRequestId
      OBVIOUS
    <3>1. CASE v # w
      BY <1>1, <1>2, <3>1 DEF IdsOK
    <3>2. CASE v = w /\ \E j \in DOMAIN outbox[w] : outbox'[w][i] = outbox[w][j]
      BY <1>2, <3>2 DEF IdsOK
    <3>3. CASE v = w /\ outbox'[w][i] \in posts
      <4>0. PICK x : x = outbox'[w][i] /\ x.type = "answer" /\ Posted(w, msg, x)
        BY <3>3 DEF Did
      <4>1. msg.type = "request" /\ outbox'[w][i].id = msg.id
        <5>1. x # [type |-> "resync", path |-> msg.path]
          BY <4>0
        <5> QED
          BY <4>0, <5>1 DEF Posted
      <4> QED
        BY <1>2, <1>4, <3>3, <4>1 DEF IdsOK
    <3> QED
      BY <1>1, <3>1, <3>2, <3>3
  <2>3. \A v \in Workers : \A id \in flags'[v] : id < main.nextRequestId
    BY <1>2, <1>4, <1>6 DEF IdsOK
  <2> QED
    BY <1>1, <1>2, <2>1, <2>2, <2>3 DEF IdsOK, SameDocs
<1>10. CancelsOK(main)'
  <2> SUFFICES ASSUME NEW k \in Tracked, NEW p \in Paths, NEW v \in Workers, main.pending[k][p] # 0
               PROVE  /\ main.pending[k][p] \notin flags'[v]
                      /\ \A i \in DOMAIN main'.inbox[v] :
                           main'.inbox[v][i].type = "cancel" => main'.inbox[v][i].id # main.pending[k][p]
    BY <1>1 DEF CancelsOK
  <2>1. main.pending[k][p] \notin flags'[v]
    BY <1>2, <1>4, <1>6 DEF CancelsOK
  <2>2. ASSUME NEW i \in DOMAIN main'.inbox[v], main'.inbox[v][i].type = "cancel"
        PROVE  main'.inbox[v][i].id # main.pending[k][p]
    <3>1. PICK j \in DOMAIN main.inbox[v] : main'.inbox[v][i] = main.inbox[v][j]
      BY <1>5, <2>2
    <3> QED
      BY <1>2, <2>2, <3>1 DEF CancelsOK
  <2> QED
    BY <2>1, <2>2
<1> QED
  BY <1>1, <1>7, <1>8, <1>9, <1>10 DEF Good, Sound

\* A queue without its head.
LEMMA HistoryTail ==
  ASSUME NEW q \in Seq(ToWorker), q # <<>>, NEW p, NEW d \in Optional(Docs), NEW e, e = After(Head(q), p, d),
         NEW n \in Nat, NEW h \in [Nat -> Optional(Docs)], History(Tail(q), p, e, n, h)
  PROVE  \E g \in [Nat -> Optional(Docs)] : History(q, p, d, n + 1, g) /\ g[n + 1] = h[n]
<1> DEFINE g == [i \in Nat |-> IF i = 0 THEN d ELSE h[i - 1]]
<1>1. /\ Len(q) \in Nat /\ Len(q) # 0 /\ Len(Tail(q)) = Len(q) - 1 /\ Head(q) = q[1]
      /\ \A i \in 1 .. Len(q) - 1 : Tail(q)[i] = q[i + 1]
  OBVIOUS
<1>2. /\ n <= Len(q) - 1 /\ h[0] = e
      /\ \A i \in 1 .. n : h[i] = After(Tail(q)[i], p, h[i - 1])
  BY <1>1 DEF History
<1>3. /\ g \in [Nat -> Optional(Docs)] /\ g[0] = d /\ \A i \in Nat : g[i + 1] = h[i]
  OBVIOUS
<1> HIDE DEF g
<1>4. ASSUME NEW i \in 1 .. n + 1 PROVE g[i] = After(q[i], p, g[i - 1])
  <2>1. CASE i = 1
    <3>1. g[1] = h[0]
      BY <1>3
    <3> QED
      BY <1>1, <1>2, <1>3, <2>1, <3>1
  <2>2. CASE i # 1
    <3>1. PICK j \in 1 .. n : i = j + 1
      <4>1. i - 1 \in 1 .. n /\ i = (i - 1) + 1
        BY <2>2
      <4> QED
        BY <4>1
    <3>2. g[i] = h[j] /\ g[i - 1] = h[j - 1]
      <4>1. j \in Nat /\ j - 1 \in Nat /\ j = (j - 1) + 1 /\ i - 1 = j
        BY <3>1
      <4>2. g[j + 1] = h[j] /\ g[(j - 1) + 1] = h[j - 1]
        BY <1>3, <4>1
      <4> QED
        BY <3>1, <4>1, <4>2
    <3>3. h[j] = After(q[j + 1], p, h[j - 1])
      <4>1. j \in 1 .. Len(q) - 1
        BY <1>1, <1>2, <3>1
      <4> QED
        BY <1>1, <1>2, <3>1, <4>1
    <3> QED
      BY <3>1, <3>2, <3>3
  <2> QED
    BY <2>1, <2>2
<1>5. n + 1 \in 0 .. Len(q)
  BY <1>1, <1>2
<1>6. History(q, p, d, n + 1, g)
  BY <1>3, <1>4, <1>5 DEF History
<1> QED
  BY <1>3, <1>6

\* ... and what holds as long as no path that has a model gets another one: an answer it
\* posts was computed from the version asked for, a request it cannot serve makes a resync.
LEMMA WorkerKeeps ==
  ASSUME EnvOK(outbox), Good(main, outbox), NEW w \in Workers, NEW msg \in ToWorker, NEW posts, Did(w, msg, posts),
         Fine(main, outbox), AllUnderWay(main, outbox)
  PROVE  Fine(main, outbox)' /\ AllUnderWay(main, outbox)'
<1>1. /\ EnvOK(outbox)' /\ main' \in Session
      /\ SameEditor(main, main') /\ SameWorker(main, main') /\ SameDocs(main, main') /\ SamePromises(main, main')
      /\ main'.pending = main.pending
      /\ main'.inbox[w] = Tail(main.inbox[w])
      /\ \A v \in Workers : v # w => main'.inbox[v] = main.inbox[v] /\ outbox'[v] = outbox[v]
      /\ \A i \in DOMAIN outbox'[w] :
           (\E j \in DOMAIN outbox[w] : outbox'[w][i] = outbox[w][j]) \/ outbox'[w][i] \in posts
      /\ \A j \in DOMAIN outbox[w] : \E i \in DOMAIN outbox'[w] : outbox'[w][i] = outbox[w][j]
      /\ \A x \in posts : \E i \in DOMAIN outbox'[w] : outbox'[w][i] = x
  BY DidFields
<1>2. /\ main \in Session /\ WorkersOK(main, outbox) /\ IdsOK(main, outbox) /\ CancelsOK(main)
      /\ VersionsOK(main) /\ RequestsOK(main) /\ RepliesOK(main, outbox) /\ MirrorOK(main)
      /\ ModelsOK(main) /\ ClosedOK(main)
  BY DEF Good, Sound, Fine, Faithful
<1>3. /\ main.inbox[w] \in Seq(ToWorker) /\ main.inbox[w] # <<>> /\ msg = Head(main.inbox[w])
      /\ mirror[w] \in [Paths -> Optional(Docs)]
  BY <1>2 DEF Session, Did, EnvOK
<1>4. /\ 1 \in DOMAIN main.inbox[w] /\ main.inbox[w][1] = msg /\ Len(main.inbox[w]) \in Nat /\ 0 < Len(main.inbox[w])
      /\ Len(Tail(main.inbox[w])) = Len(main.inbox[w]) - 1
      /\ \A i \in DOMAIN Tail(main.inbox[w]) :
           i + 1 \in DOMAIN main.inbox[w] /\ Tail(main.inbox[w])[i] = main.inbox[w][i + 1]
      /\ \A i \in DOMAIN main.inbox[w] :
           i # 1 => i - 1 \in DOMAIN Tail(main.inbox[w]) /\ Tail(main.inbox[w])[i - 1] = main.inbox[w][i]
      /\ \A i \in Nat : i < Len(Tail(main.inbox[w])) => i + 1 \in DOMAIN Tail(main.inbox[w])
  BY <1>3
<1>5. /\ w = main.worker /\ w # 0 /\ main'.worker = w
      /\ main'.version = main.version /\ main'.registered = main.registered /\ main'.fingerprint = main.fingerprint
      /\ main'.lastSent = main.lastSent /\ main'.timer = main.timer /\ main'.retry = main.retry
      /\ \A p \in Paths : mirror'[w][p] = After(msg, p, mirror[w][p])
  BY <1>1 DEF Did, SameWorker, SameEditor, SameDocs, SamePromises, Workers
<1>6. \A k, p, x : (IsRequest(main', k, p, x) <=> IsRequest(main, k, p, x)) /\ (IsAnswer(main', k, p, x) <=> IsAnswer(main, k, p, x))
  BY <1>1 DEF IsRequest, IsAnswer
<1>7. \A k, p : Repeats(main', k, p) <=> Repeats(main, k, p)
  BY <1>1, <1>5 DEF Repeats
<1>8. \A p : Belief(main', p) = Belief(main, p)
  BY <1>5 DEF Belief
<1>9. \A v \in Workers : \A i \in DOMAIN main'.inbox[v] : \E j \in DOMAIN main.inbox[v] : main'.inbox[v][i] = main.inbox[v][j]
  <2> SUFFICES ASSUME NEW v \in Workers, NEW i \in DOMAIN main'.inbox[v]
               PROVE  \E j \in DOMAIN main.inbox[v] : main'.inbox[v][i] = main.inbox[v][j]
    OBVIOUS
  <2>1. CASE v # w
    BY <1>1, <2>1
  <2>2. CASE v = w
    <3>1. i + 1 \in DOMAIN main.inbox[w] /\ main'.inbox[w][i] = main.inbox[w][i + 1]
      BY <1>1, <1>4, <2>2
    <3> QED
      BY <2>2, <3>1
  <2> QED
    BY <2>1, <2>2
<1>10. ASSUME NEW k \in Tracked, NEW p \in Paths, IsRequest(main, k, p, msg)
       PROVE  /\ main.registered[p] \in Models /\ msg.version <= main.version[main.registered[p]]
              /\ mirror[w][p] # None => mirror[w][p].model = main.registered[p]
              /\ Repeats(main, k, p) => mirror[w][p] # None /\ mirror[w][p].version = msg.version
  <2>1. main.registered[p] # None
    BY <1>2, <1>10 DEF IsRequest, ClosedOK
  <2>2. msg.version <= main.version[main.registered[p]]
    BY <1>2, <1>4, <1>10, <2>1 DEF RequestsOK
  <2> DEFINE h == [i \in Nat |-> mirror[w][p]]
  <2>3. h \in [Nat -> Optional(Docs)] /\ History(main.inbox[w], p, mirror[w][p], 0, h) /\ h[0] = mirror[w][p]
    BY <1>3, <1>4 DEF History
  <2> HIDE DEF h
  <2>4. Served(main, k, p, main.inbox[w][0 + 1], h[0])
    BY <1>2, <1>4, <1>5, <2>3 DEF MirrorOK
  <2>5. Served(main, k, p, msg, mirror[w][p])
    BY <1>4, <2>3, <2>4
  <2> QED
    BY <1>2, <1>10, <2>1, <2>2, <2>5, RegisteredModel DEF Served
<1>11. VersionsOK(main)' /\ ModelsOK(main)' /\ ClosedOK(main)'
  BY <1>1, <1>2, <1>5 DEF VersionsOK, ModelsOK, ClosedOK
<1>12. RequestsOK(main)'
  <2> SUFFICES ASSUME NEW v \in Workers, NEW k \in Tracked, NEW p \in Paths, NEW i \in DOMAIN main'.inbox[v],
                      IsRequest(main', k, p, main'.inbox[v][i]), main.registered[p] # None
               PROVE  main'.inbox[v][i].version <= main.version[main.registered[p]]
    BY <1>5 DEF RequestsOK, IsRequest
  <2>1. PICK j \in DOMAIN main.inbox[v] : main'.inbox[v][i] = main.inbox[v][j]
    BY <1>9
  <2> QED
    BY <1>2, <1>6, <2>1 DEF RequestsOK
<1>13. RepliesOK(main, outbox)'
  <2> SUFFICES ASSUME NEW v \in Workers, NEW k \in Tracked, NEW p \in Paths, NEW i \in DOMAIN outbox'[v],
                      IsAnswer(main', k, p, outbox'[v][i]), main.registered[p] # None
               PROVE  /\ outbox'[v][i].version <= main.version[main.registered[p]]
                      /\ outbox'[v][i].result # None =>
                           outbox'[v][i].result = [model |-> main.registered[p], version |-> outbox'[v][i].version]
    BY <1>5 DEF RepliesOK, IsAnswer
  <2>1. CASE \E j \in DOMAIN outbox[v] : outbox'[v][i] = outbox[v][j]
    BY <1>2, <1>6, <2>1 DEF RepliesOK
  <2>2. CASE v = w /\ outbox'[w][i] \in posts
    <3> DEFINE x == outbox'[w][i]
    <3>1. Posted(w, msg, x) /\ IsAnswer(main, k, p, x)
      BY <1>6, <2>2 DEF Did
    <3> HIDE DEF x
    <3>2. /\ msg.type = "request" /\ ~Missing(w, msg) /\ x.kind = msg.kind /\ x.id = msg.id /\ x.path = msg.path
          /\ x.version = msg.version /\ x.result \in {mirror[w][msg.path], None}
      BY <3>1 DEF Posted, IsAnswer
    <3>3. IsRequest(main, k, p, msg) /\ msg.path = p
      BY <3>1, <3>2 DEF IsAnswer, IsRequest
    <3>4. mirror[w][p] # None /\ mirror[w][p].version = msg.version /\ mirror[w][p] \in Docs
      BY <1>3, <3>2, <3>3 DEF Missing, Optional
    <3>5. mirror[w][p] = [model |-> main.registered[p], version |-> msg.version]
      BY <1>10, <3>3, <3>4 DEF Docs
    <3> QED
      BY <1>10, <2>2, <3>2, <3>3, <3>5 DEF x
  <2> QED
    BY <1>1, <2>1, <2>2
<1>14. MirrorOK(main)'
  <2> SUFFICES \A p \in Paths, n \in Nat : \A h \in [Nat -> Optional(Docs)] :
                 History(main'.inbox[main'.worker], p, mirror'[main'.worker][p], n, h) =>
                   /\ n = Len(main'.inbox[main'.worker]) => h[n] = Belief(main', p)
                   /\ \A k \in Tracked : n < Len(main'.inbox[main'.worker]) =>
                        Served(main', k, p, main'.inbox[main'.worker][n + 1], h[n])
    BY DEF MirrorOK, History, After, Belief, Served, IsRequest, Repeats
  <2> SUFFICES ASSUME NEW p \in Paths, NEW n \in Nat, NEW h \in [Nat -> Optional(Docs)],
                      History(main'.inbox[w], p, mirror'[w][p], n, h)
               PROVE  /\ n = Len(main'.inbox[w]) => h[n] = Belief(main', p)
                      /\ \A k \in Tracked : n < Len(main'.inbox[w]) => Served(main', k, p, main'.inbox[w][n + 1], h[n])
    BY <1>5
  <2>1. PICK g \in [Nat -> Optional(Docs)] : History(main.inbox[w], p, mirror[w][p], n + 1, g) /\ g[n + 1] = h[n]
    <3> DEFINE q == main.inbox[w]
               d == mirror[w][p]
               e == mirror'[w][p]
    <3>1. /\ q \in Seq(ToWorker) /\ q # <<>> /\ d \in Optional(Docs) /\ e = After(Head(q), p, d)
          /\ History(Tail(q), p, e, n, h)
      BY <1>1, <1>3, <1>5
    <3> HIDE DEF q, d, e
    <3>2. \E g \in [Nat -> Optional(Docs)] : History(q, p, d, n + 1, g) /\ g[n + 1] = h[n]
      BY <3>1, HistoryTail, ZenonT(60)
    <3> QED
      BY <3>2 DEF q, d
  <2>2. /\ n + 1 = Len(main.inbox[w]) => g[n + 1] = Belief(main, p)
        /\ \A k \in Tracked : n + 1 < Len(main.inbox[w]) =>
             Served(main, k, p, main.inbox[w][(n + 1) + 1], g[n + 1])
    BY <1>2, <1>5, <2>1 DEF MirrorOK
  <2>3. n = Len(main'.inbox[w]) => h[n] = Belief(main', p)
    BY <1>1, <1>4, <1>8, <2>1, <2>2
  <2>4. ASSUME NEW k \in Tracked, n < Len(main'.inbox[w])
        PROVE  Served(main', k, p, main'.inbox[w][n + 1], h[n])
    <3>1. main'.inbox[w][n + 1] = main.inbox[w][(n + 1) + 1] /\ n + 1 < Len(main.inbox[w])
      BY <1>1, <1>4, <2>4
    <3>2. Served(main, k, p, main'.inbox[w][n + 1], h[n])
      BY <2>1, <2>2, <3>1
    <3> QED
      BY <1>5, <1>6, <1>7, <3>2 DEF Served
  <2> QED
    BY <2>3, <2>4
<1>15. AllUnderWay(main, outbox)'
  <2> SUFFICES ASSUME NEW k \in Kinds, NEW p \in Paths, main.pending[k][p] # 0
               PROVE  \/ /\ w # 0
                         /\ \/ \E i \in DOMAIN main'.inbox[w] : IsRequest(main, k, p, main'.inbox[w][i])
                            \/ /\ ~Repeats(main, k, p)
                               /\ \E i \in DOMAIN outbox'[w] : outbox'[w][i] = [type |-> "resync", path |-> p]
                      \/ \E v \in Workers : \E i \in DOMAIN outbox'[v] : IsAnswer(main, k, p, outbox'[v][i])
    <3> SUFFICES \A k \in Kinds, p \in Paths : main'.pending[k][p] # 0 => UnderWay(main', outbox', k, p)
      BY DEF AllUnderWay, UnderWay, IsRequest, IsAnswer, Repeats
    <3> SUFFICES ASSUME NEW k \in Kinds, NEW p \in Paths, main.pending[k][p] # 0
                 PROVE  UnderWay(main', outbox', k, p)
      BY <1>1
    <3>1. \/ /\ w # 0
             /\ \/ \E i \in DOMAIN main'.inbox[w] : IsRequest(main, k, p, main'.inbox[w][i])
                \/ /\ ~Repeats(main, k, p)
                   /\ \E i \in DOMAIN outbox'[w] : outbox'[w][i] = [type |-> "resync", path |-> p]
          \/ \E v \in Workers : \E i \in DOMAIN outbox'[v] : IsAnswer(main, k, p, outbox'[v][i])
      OBVIOUS
    <3> QED
      BY <1>5, <1>6, <1>7, <3>1 DEF UnderWay
  <2>0. k \in Tracked
    BY KindsTracked
  <2>1. UnderWay(main, outbox, k, p)
    BY DEF AllUnderWay
  <2>2. \A v \in Workers : \A j \in DOMAIN outbox[v] : \E i \in DOMAIN outbox'[v] : outbox'[v][i] = outbox[v][j]
    BY <1>1
  <2>3. CASE \E i \in DOMAIN main.inbox[w] : i # 1 /\ IsRequest(main, k, p, main.inbox[w][i])
    <3>1. PICK j \in DOMAIN main.inbox[w] : j # 1 /\ IsRequest(main, k, p, main.inbox[w][j])
      BY <2>3
    <3>2. j - 1 \in DOMAIN main'.inbox[w] /\ main'.inbox[w][j - 1] = main.inbox[w][j]
      BY <1>1, <1>4, <3>1
    <3>3. \E i \in DOMAIN main'.inbox[w] : IsRequest(main, k, p, main'.inbox[w][i])
      BY <3>1, <3>2, Zenon
    <3> QED
      BY <1>5, <3>3
  <2>4. CASE IsRequest(main, k, p, msg)
    <3>1. msg.type = "request" /\ msg.path = p /\ ~isCancelled(w, msg)
      BY <1>2, <2>0, <2>4 DEF IsRequest, CancelsOK, isCancelled
    <3>2. PICK x \in posts : Posted(w, msg, x)
      BY <3>1 DEF Did
    <3>3. CASE Missing(w, msg)
      <4>1. x = [type |-> "resync", path |-> p]
        BY <3>1, <3>2, <3>3 DEF Posted
      <4>2. ~Repeats(main, k, p)
        BY <1>10, <2>0, <2>4, <3>1, <3>3 DEF Missing
      <4>3. \E i \in DOMAIN outbox'[w] : outbox'[w][i] = x
        BY <1>1, <3>2
      <4> QED
        BY <1>5, <4>1, <4>2, <4>3
    <3>4. CASE ~Missing(w, msg)
      <4>1. IsAnswer(main, k, p, x)
        BY <2>4, <3>1, <3>2, <3>4 DEF Posted, IsRequest, IsAnswer
      <4>2. \E i \in DOMAIN outbox'[w] : outbox'[w][i] = x
        BY <1>1, <3>2
      <4> QED
        BY <4>1, <4>2
    <3> QED
      BY <3>3, <3>4
  <2>5. CASE ~Repeats(main, k, p) /\ \E i \in DOMAIN outbox[w] : outbox[w][i] = [type |-> "resync", path |-> p]
    BY <1>5, <2>2, <2>5
  <2>6. CASE \E v \in Workers : \E i \in DOMAIN outbox[v] : IsAnswer(main, k, p, outbox[v][i])
    <3>1. PICK v \in Workers : \E i \in DOMAIN outbox[v] : IsAnswer(main, k, p, outbox[v][i])
      BY <2>6
    <3>2. PICK j \in DOMAIN outbox[v] : IsAnswer(main, k, p, outbox[v][j])
      BY <3>1
    <3>3. PICK i \in DOMAIN outbox'[v] : outbox'[v][i] = outbox[v][j]
      BY <2>2
    <3> QED
      BY <3>2, <3>3
  <2> QED
    BY <1>4, <1>5, <2>1, <2>3, <2>4, <2>5, <2>6 DEF UnderWay
<1> QED
  BY <1>11, <1>12, <1>13, <1>14, <1>15 DEF Fine, Faithful

(***************************************************************************)
(* The invariants, and what a step owes them                               *)
(***************************************************************************)
\* What holds whatever becomes of the files ...
Inv == EnvOK(outbox) /\ Good(main, outbox)

\* ... and what holds as long as no path that has a model gets another one.
Kept == Fine(main, outbox) /\ AllUnderWay(main, outbox)

\* No path that has a model gets another one: it may only lose it.
NeverReplaced == Reregisters(main, main')

\* What every step owes the two invariants.
StepOK == Inv' /\ (Kept /\ NeverReplaced => Kept')

\* What the environment's variables have to do with Good ...
LEMMA GoodNext ==
  ASSUME UNCHANGED <<mirror, flags, health>>, EnvOK(outbox'), Good(main', outbox')
  PROVE  Inv'
<1>1. /\ main' \in Session /\ TabsOK(main') /\ ResolversOK(main') /\ WorkersOK(main', outbox')
      /\ IdsOK(main', outbox') /\ CancelsOK(main') /\ RetriesOK(main')
  BY DEF Good, Sound
<1>2. EnvOK(outbox)'
  BY DEF EnvOK
<1>3. TabsOK(main)'
  BY <1>1 DEF TabsOK, IsOpen
<1>4. ResolversOK(main)'
  BY <1>1 DEF ResolversOK
<1>5. WorkersOK(main, outbox)'
  BY <1>1, Zenon DEF WorkersOK
<1>6. IdsOK(main, outbox)'
  BY <1>1, Zenon DEF IdsOK
<1>7. CancelsOK(main)'
  BY <1>1, Zenon DEF CancelsOK
<1>8. RetriesOK(main)'
  BY <1>1 DEF RetriesOK
<1> QED
  BY <1>1, <1>2, <1>3, <1>4, <1>5, <1>6, <1>7, <1>8 DEF Inv, Good, Sound

\* ... and with Kept.
LEMMA KeptNext ==
  ASSUME UNCHANGED <<mirror, flags>>, Fine(main', outbox'), AllUnderWay(main', outbox')
  PROVE  Kept'
<1>1. /\ VersionsOK(main') /\ RequestsOK(main') /\ RepliesOK(main', outbox') /\ MirrorOK(main')
      /\ ModelsOK(main') /\ ClosedOK(main')
  BY DEF Fine, Faithful
<1>2. VersionsOK(main)'
  BY <1>1 DEF VersionsOK
<1>3. RequestsOK(main)'
  BY <1>1, Zenon DEF RequestsOK, IsRequest
<1>4. RepliesOK(main, outbox)'
  BY <1>1, Zenon DEF RepliesOK, IsAnswer
<1>5. MirrorOK(main)'
  <2> SUFFICES main'.worker # 0 =>
                 \A p \in Paths, n \in Nat : \A h \in [Nat -> Optional(Docs)] :
                   History(main'.inbox[main'.worker], p, mirror'[main'.worker][p], n, h) =>
                     /\ n = Len(main'.inbox[main'.worker]) => h[n] = Belief(main', p)
                     /\ \A k \in Tracked : n < Len(main'.inbox[main'.worker]) =>
                          Served(main', k, p, main'.inbox[main'.worker][n + 1], h[n])
    BY DEF MirrorOK, History, After, Belief, Served, IsRequest, Repeats
  <2>1. mirror' = mirror
    OBVIOUS
  <2> QED
    BY <1>1, <2>1, Zenon DEF MirrorOK
<1>6. ModelsOK(main)'
  BY <1>1 DEF ModelsOK
<1>7. ClosedOK(main)'
  BY <1>1 DEF ClosedOK
<1>8. AllUnderWay(main, outbox)'
  BY Zenon DEF AllUnderWay, UnderWay, IsRequest, IsAnswer, Repeats
<1> QED
  BY <1>2, <1>3, <1>4, <1>5, <1>6, <1>7, <1>8 DEF Kept, Fine, Faithful

\* A request that is under way stays under way, whatever the main thread does.
LEMMA CarriesUnderWay ==
  ASSUME NEW s, NEW t, NEW out, Carries(s, t, out), AllUnderWay(s, out)
  PROVE  AllUnderWay(t, out)
<1> SUFFICES ASSUME NEW k \in Kinds, NEW p \in Paths, t.pending[k][p] # 0 PROVE UnderWay(t, out, k, p)
  BY DEF AllUnderWay
<1>1. t.pending[k][p] = s.pending[k][p] => UnderWay(s, out, k, p)
  BY DEF AllUnderWay
<1> QED
  BY <1>1 DEF Carries

\* An action of the main thread that is a MainStep does what a step owes.
LEMMA MainActs ==
  ASSUME Inv, WorkersUnchanged, MainStep(main, main', outbox)
  PROVE  StepOK /\ Quiet(main, main')
<1>1. /\ mirror' = mirror /\ flags' = flags /\ outbox' = outbox /\ health' = health
      /\ EnvOK(outbox) /\ Good(main', outbox) /\ Quiet(main, main')
  BY DEF WorkersUnchanged, Inv, MainStep
<1>2. Inv'
  BY <1>1, GoodNext
<1>3. ASSUME Kept, NeverReplaced PROVE Kept'
  <2>1. Fine(main', outbox) /\ Carries(main, main', outbox)
    BY <1>3 DEF MainStep, Kept, NeverReplaced
  <2>2. AllUnderWay(main', outbox)
    BY <1>3, <2>1, CarriesUnderWay DEF Kept
  <2> QED
    BY <1>1, <2>1, <2>2, KeptNext
<1> QED
  BY <1>1, <1>2, <1>3 DEF StepOK

\* The initial state.
LEMMA InitOK == Init => Inv /\ Kept
<1> SUFFICES ASSUME Init PROVE Inv /\ Kept
  OBVIOUS
<1>0. /\ MaxCalls \in Nat \ {0} /\ MaxWorkers \in Nat \ {0} /\ MaxEdits \in Nat
      /\ 1 \in Workers /\ 1 \in Versions /\ 1 \in 0 .. MaxWorkers /\ 0 \in 0 .. MaxEdits
  BY SessionAssumption DEF Workers, Versions
<1>1. /\ main.tab = [m \in Models |-> "unborn"] /\ main.version = [m \in Models |-> 1]
      /\ main.active = None /\ main.switches = 0 /\ main.edits = 0
      /\ main.worker = 1 /\ main.born = 1 /\ main.nextRequestId = 1
      /\ main.registered = [p \in Paths |-> None] /\ main.lastSent = [p \in Paths |-> 0]
      /\ main.timer = [p \in Paths |-> 0] /\ main.fingerprint = [p \in Paths |-> None]
      /\ main.pending = [k \in Tracked |-> [p \in Paths |-> 0]]
      /\ main.resolver = [k \in Kinds |-> [p \in Paths |-> {}]]
      /\ main.retry = [k \in Kinds |-> [p \in Paths |-> None]]
      /\ main.hoverKey = [p \in Paths |-> None] /\ main.answer = [n \in Calls |-> Unasked]
      /\ main.markers = [m \in Models |-> None] /\ main.inbox = [w \in Workers |-> <<>>]
  BY DEF Init
<1>2. main \in Session
  <2>1. /\ [m \in Models |-> "unborn"] \in [Models -> Paths \cup {"unborn", "closed"}]
        /\ [m \in Models |-> 1] \in [Models -> Versions]
        /\ None \in Optional(Models) /\ 0 \in Nat /\ 1 \in Nat \ {0}
    BY <1>0 DEF Optional
  <2>2. /\ [p \in Paths |-> None] \in [Paths -> Optional(Models)]
        /\ [p \in Paths |-> 0] \in [Paths -> Versions \cup {0}]
        /\ [p \in Paths |-> None] \in [Paths -> Optional(Fingerprints)]
        /\ [k \in Tracked |-> [p \in Paths |-> 0]] \in [Tracked -> [Paths -> Nat]]
    BY DEF Optional
  <2>3. /\ [k \in Kinds |-> [p \in Paths |-> {}]] \in [Kinds -> [Paths -> SUBSET Calls]]
        /\ [k \in Kinds |-> [p \in Paths |-> None]] \in [Kinds -> [Paths -> Optional(Retries)]]
        /\ [p \in Paths |-> None] \in [Paths -> Optional(Versions \X Positions)]
    BY DEF Optional
  <2>4. /\ [n \in Calls |-> Unasked] \in [Calls -> Promises]
        /\ [m \in Models |-> None] \in [Models -> Optional(Docs)]
        /\ [w \in Workers |-> <<>>] \in [Workers -> Seq(ToWorker)]
    BY DEF Optional, Promises
  <2> QED
    BY <1>0, <2>1, <2>2, <2>3, <2>4, Zenon DEF Init, Session
<1>3. /\ mirror = [w \in Workers |-> [p \in Paths |-> None]] /\ flags = [w \in Workers |-> {}]
      /\ outbox = [w \in Workers |-> <<>>] /\ health = [w \in Workers |-> "up"]
  BY DEF Init
<1>4. EnvOK(outbox)
  BY <1>3 DEF EnvOK, Optional
<1>5. /\ \A w \in Workers : main.inbox[w] = <<>> /\ outbox[w] = <<>> /\ flags[w] = {} /\ health[w] = "up"
      /\ \A w \in Workers : mirror[w] = [p \in Paths |-> None]
      /\ \A k \in Tracked, p \in Paths : main.pending[k][p] = 0
      /\ \A k \in Kinds, p \in Paths : main.resolver[k][p] = {} /\ main.retry[k][p] = None
      /\ \A p \in Paths : /\ main.registered[p] = None /\ main.lastSent[p] = 0 /\ main.timer[p] = 0
                          /\ main.fingerprint[p] = None
      /\ \A m \in Models : main.version[m] = 1
  BY <1>1, <1>3
<1>6. Kinds \subseteq Tracked
  BY DEF Tracked
<1>7. Good(main, outbox)
  <2>1. TabsOK(main) /\ ResolversOK(main) /\ RetriesOK(main)
    BY <1>1, <1>5, <1>6 DEF TabsOK, ResolversOK, RetriesOK
  <2>2. WorkersOK(main, outbox)
    BY <1>0, <1>1, <1>5 DEF WorkersOK, Workers
  <2>3. IdsOK(main, outbox) /\ CancelsOK(main)
    BY <1>1, <1>5 DEF IdsOK, CancelsOK
  <2> QED
    BY <1>2, <2>1, <2>2, <2>3 DEF Good, Sound
<1>8. Fine(main, outbox) /\ AllUnderWay(main, outbox)
  <2>1. VersionsOK(main) /\ RequestsOK(main) /\ RepliesOK(main, outbox) /\ ModelsOK(main) /\ ClosedOK(main)
    BY <1>5 DEF VersionsOK, RequestsOK, RepliesOK, ModelsOK, ClosedOK
  <2>2. MirrorOK(main)
    <3> SUFFICES ASSUME NEW p \in Paths, NEW n \in Nat, NEW h \in [Nat -> Optional(Docs)],
                        History(main.inbox[1], p, mirror[1][p], n, h)
                 PROVE  /\ n = Len(main.inbox[1]) => h[n] = Belief(main, p)
                        /\ \A k \in Tracked : n < Len(main.inbox[1]) => Served(main, k, p, main.inbox[1][n + 1], h[n])
      BY <1>1, SMTT(30) DEF MirrorOK
    <3>1. main.inbox[1] = <<>> /\ mirror[1][p] = None /\ Len(main.inbox[1]) = 0
      BY <1>0, <1>5
    <3>2. n = 0 /\ h[0] = None
      BY <3>1 DEF History
    <3> QED
      BY <1>5, <3>1, <3>2 DEF Belief
  <2>3. AllUnderWay(main, outbox)
    BY <1>5, <1>6 DEF AllUnderWay
  <2> QED
    BY <2>1, <2>2, <2>3 DEF Fine, Faithful
<1> QED
  BY <1>4, <1>7, <1>8 DEF Inv, Kept

(***************************************************************************)
(* The steps of the user                                                   *)
(***************************************************************************)

\* The parts of the first invariant that every step needs.
LEMMA InvParts ==
  ASSUME Inv
  PROVE  EnvOK(outbox) /\ Good(main, outbox) /\ main \in Session /\ TabsOK(main)
BY DEF Inv, Good, Sound

\* A new tab.
LEMMA OpenTabStep ==
  ASSUME Inv, NEW m \in Models, NEW p \in Paths, OpenTab(m, p)
  PROVE  /\ StepOK /\ Quiet(main, main') /\ main'.tab = [main.tab EXCEPT ![m] = p]
         /\ main'.registered[p] = m /\ \A q \in Paths : q # p => main'.registered[q] = main.registered[q]
<1>1. EnvOK(outbox) /\ Good(main, outbox) /\ main \in Session /\ TabsOK(main) /\ WorkersUnchanged
  BY InvParts DEF OpenTab
<1>2. PICK f : f = [main.tab EXCEPT ![m] = p]
  OBVIOUS
<1>3. f \in [Models -> Paths \cup {"unborn", "closed"}] /\ f[m] = p
  BY <1>1, <1>2 DEF Session
<1>4. PICK u : u = Tabs(main, f, m)
  OBVIOUS
<1>5. m \in Optional(Models)
  BY DEF Optional
<1>6. Edits(main, u) /\ u.tab = f
  BY <1>1, <1>3, <1>4, <1>5, TabsEdits
<1>7. main' = syncActiveEditorToLsp(u, m)
  <2>1. u = [main EXCEPT !.tab[m] = p, !.active = m]
    BY <1>1, <1>2, <1>4 DEF Tabs, Session
  <2> QED
    BY <2>1 DEF OpenTab
<1>8. IsOpen(u, m)
  BY <1>3, <1>6 DEF IsOpen
<1>9. /\ MainStep(main, main', outbox) /\ SameEditor(u, main') /\ main'.registered[u.tab[m]] = m
      /\ \A q \in Paths : q # u.tab[m] => main'.registered[q] = main.registered[q]
  BY <1>1, <1>6, <1>7, <1>8, EditAndSync
<1>10. StepOK /\ Quiet(main, main')
  BY <1>1, <1>9, MainActs
<1> QED
  BY <1>2, <1>3, <1>6, <1>9, <1>10 DEF SameEditor

\* Another tab becomes active, and is synced.
LEMMA SwitchTabStep ==
  ASSUME Inv, NEW m \in Models, SwitchTab(m)
  PROVE  /\ StepOK /\ Quiet(main, main') /\ main'.tab = main.tab /\ main.tab[m] \in Paths
         /\ main'.registered[main.tab[m]] = m
         /\ \A q \in Paths : q # main.tab[m] => main'.registered[q] = main.registered[q]
<1>1. /\ EnvOK(outbox) /\ Good(main, outbox) /\ main \in Session /\ TabsOK(main) /\ WorkersUnchanged
      /\ IsOpen(main, m) /\ main.switches + 1 \in Nat
  <2>1. main.switches \in Nat
    BY InvParts DEF Session
  <2> QED
    BY <2>1, InvParts DEF SwitchTab
<1>2. PICK n \in Nat : n = main.switches + 1
  BY <1>1
<1>3. PICK u : u = Switches(main, m, n)
  OBVIOUS
<1>4. Edits(main, u) /\ u.tab = main.tab
  BY <1>1, <1>3, SwitchesEdits
<1>5. main' = syncActiveEditorToLsp(u, m)
  <2>1. u = [main EXCEPT !.active = m, !.switches = @ + 1]
    BY <1>1, <1>2, <1>3 DEF Switches, Session
  <2> QED
    BY <2>1 DEF SwitchTab
<1>6. IsOpen(u, m)
  BY <1>1, <1>4 DEF IsOpen
<1>7. /\ MainStep(main, main', outbox) /\ SameEditor(u, main') /\ main'.registered[u.tab[m]] = m
      /\ \A q \in Paths : q # u.tab[m] => main'.registered[q] = main.registered[q]
  BY <1>1, <1>4, <1>5, <1>6, EditAndSync
<1>8. StepOK /\ Quiet(main, main')
  BY <1>1, <1>7, MainActs
<1> QED
  BY <1>1, <1>4, <1>7, <1>8 DEF SameEditor, IsOpen

\* The active tab is open.
LEMMA ActiveIsOpen ==
  ASSUME Inv, main.active # None
  PROVE  main.active \in Models /\ IsOpen(main, main.active)
BY InvParts DEF TabsOK, Session, Optional

\* The text of the active tab changes, and is synced.
LEMMA EditStep ==
  ASSUME Inv, Edit
  PROVE  /\ StepOK /\ Quiet(main, main') /\ main'.tab = main.tab
         /\ main.active \in Models /\ main.tab[main.active] \in Paths
         /\ main'.registered[main.tab[main.active]] = main.active
         /\ \A q \in Paths : q # main.tab[main.active] => main'.registered[q] = main.registered[q]
<1>1. /\ EnvOK(outbox) /\ Good(main, outbox) /\ main \in Session /\ TabsOK(main) /\ WorkersUnchanged
      /\ main.edits < MaxEdits /\ main.active # None
  BY InvParts DEF Edit
<1>2. PICK m \in Models : m = main.active /\ IsOpen(main, m)
  BY <1>1, ActiveIsOpen
<1>3. PICK u : u = [main EXCEPT !.version[m] = @ + 1, !.edits = @ + 1]
  OBVIOUS
<1>4. Edits(main, u) /\ u.tab = main.tab
  BY <1>1, <1>3, VersionedEdits
<1>5. main' = syncActiveEditorToLsp(u, m)
  BY <1>2, <1>3 DEF Edit
<1>6. IsOpen(u, m)
  BY <1>2, <1>4 DEF IsOpen
<1>7. /\ MainStep(main, main', outbox) /\ SameEditor(u, main') /\ main'.registered[u.tab[m]] = m
      /\ \A q \in Paths : q # u.tab[m] => main'.registered[q] = main.registered[q]
  BY <1>1, <1>4, <1>5, <1>6, EditAndSync
<1>8. StepOK /\ Quiet(main, main')
  BY <1>1, <1>7, MainActs
<1> QED
  BY <1>2, <1>4, <1>7, <1>8 DEF SameEditor, IsOpen

\* The text changes, and nobody is told.
LEMMA SilentEditStep ==
  ASSUME Inv, SilentEdit
  PROVE  StepOK /\ Quiet(main, main') /\ main'.tab = main.tab /\ main'.registered = main.registered
<1>1. /\ EnvOK(outbox) /\ Good(main, outbox) /\ main \in Session /\ TabsOK(main) /\ WorkersUnchanged
      /\ main.edits < MaxEdits /\ main.active # None
  BY InvParts DEF SilentEdit
<1>2. PICK m \in Models : m = main.active
  BY <1>1, ActiveIsOpen
<1>3. main' = [main EXCEPT !.version[m] = @ + 1, !.edits = @ + 1]
  BY <1>2 DEF SilentEdit
<1>4. Edits(main, main') /\ main'.tab = main.tab
  BY <1>1, <1>3, VersionedEdits
<1>5. MainStep(main, main', outbox) /\ main'.registered = main.registered
  BY <1>1, <1>4, EditsStep
<1> QED
  BY <1>1, <1>4, <1>5, MainActs

\* A tab is renamed, and nobody is told.
LEMMA RenameStep ==
  ASSUME Inv, NEW m \in Models, NEW p \in Paths, renameWorkspaceFile(m, p)
  PROVE  StepOK /\ Quiet(main, main')
<1>1. EnvOK(outbox) /\ Good(main, outbox) /\ main \in Session /\ TabsOK(main) /\ WorkersUnchanged
  BY InvParts DEF renameWorkspaceFile
<1>2. PICK f : f = [main.tab EXCEPT ![m] = p]
  OBVIOUS
<1>3. /\ f \in [Models -> Paths \cup {"unborn", "closed"}] /\ f[m] = p
      /\ \A o \in Models : o # m => f[o] = main.tab[o]
  BY <1>1, <1>2 DEF Session
<1>4. PICK a \in Optional(Models) : a = main.active
  BY <1>1 DEF Session
<1>5. a # None => f[a] \in Paths
  <2> SUFFICES ASSUME a # None PROVE f[a] \in Paths
    OBVIOUS
  <2>1. a \in Models /\ main.tab[a] \in Paths
    BY <1>4, ActiveIsOpen DEF IsOpen
  <2> QED
    BY <1>3, <2>1
<1>6. main' = Tabs(main, f, a)
  BY <1>1, <1>2, <1>4 DEF renameWorkspaceFile, Tabs, Session
<1>7. Edits(main, main')
  BY <1>1, <1>3, <1>5, <1>6, TabsEdits
<1>8. MainStep(main, main', outbox)
  BY <1>1, <1>7, EditsStep
<1> QED
  BY <1>1, <1>8, MainActs

\* A file is deleted with its tab open.
LEMMA DeleteStep ==
  ASSUME Inv, NEW m \in Models, deleteWorkspaceFile(m)
  PROVE  StepOK /\ Quiet(main, main')
<1>1. EnvOK(outbox) /\ Good(main, outbox) /\ WorkersUnchanged /\ main' \in Leave(main, m)
  BY InvParts DEF deleteWorkspaceFile
<1>2. MainStep(main, main', outbox)
  BY <1>1, LeaveStep
<1> QED
  BY <1>1, <1>2, MainActs

\* A tab is closed: its path is unregistered, then the tab goes.
LEMMA CloseTabStep ==
  ASSUME Inv, NEW m \in Models, closeTab(m)
  PROVE  /\ StepOK /\ Quiet(main, main') /\ main'.tab = [main.tab EXCEPT ![m] = "closed"] /\ main.tab[m] \in Paths
         /\ \A q \in Paths : \/ q = main.tab[m] /\ main'.registered[q] = None
                             \/ q # main.tab[m] /\ main'.registered[q] = main.registered[q]
                             \/ \E o \in Models : main'.registered[q] = o /\ main'.tab[o] = q
<1>1. EnvOK(outbox) /\ Good(main, outbox) /\ WorkersUnchanged /\ main.tab[m] \in Paths
  BY InvParts DEF closeTab, IsOpen
<1>2. PICK p \in Paths : p = main.tab[m]
  BY <1>1
<1>3. PICK u : u = unregisterModel(main, p)
  OBVIOUS
<1>4. /\ Good(u, outbox) /\ Carries(main, u, outbox) /\ (Fine(main, outbox) => Fine(u, outbox)) /\ Quiet(main, u)
      /\ SameEditor(main, u)
      /\ u.registered[p] = None /\ \A q \in Paths : q # p => u.registered[q] = main.registered[q]
  BY <1>1, <1>3, UnregisterStep, SMTT(30)
<1>5. main' \in Leave(u, m)
  BY <1>2, <1>3 DEF closeTab
<1>6. /\ MainStep(u, main', outbox) /\ main'.tab = [u.tab EXCEPT ![m] = "closed"]
      /\ \A q \in Paths : main'.registered[q] = u.registered[q]
                          \/ \E o \in Models : main'.registered[q] = o /\ main'.tab[o] = q
  BY <1>1, <1>4, <1>5, LeaveStep
<1>7. MainStep(main, u, outbox)
  BY <1>4 DEF MainStep
<1>8. Reregisters(main, main') => Reregisters(main, u) /\ Reregisters(u, main')
  BY <1>4 DEF Reregisters
<1>9. MainStep(main, main', outbox)
  BY <1>6, <1>7, <1>8, MainStepTransitive
<1>10. StepOK /\ Quiet(main, main')
  BY <1>1, <1>9, MainActs
<1>11. main'.tab = [main.tab EXCEPT ![m] = "closed"]
  BY <1>4, <1>6 DEF SameEditor
<1> QED
  BY <1>1, <1>2, <1>4, <1>6, <1>10, <1>11, Zenon

\* A promise is asked for.
LEMMA AskStep ==
  ASSUME Inv, NEW k \in Kinds, NEW n \in Calls, NEW pos \in Positions, Ask(k, n, pos)
  PROVE  StepOK /\ Quiet(main, main') /\ main'.tab = main.tab /\ main'.registered = main.registered
<1>1. /\ EnvOK(outbox) /\ Good(main, outbox) /\ main \in Session /\ WorkersUnchanged
      /\ main.active # None /\ main.answer[n] = Unasked
  BY InvParts DEF Ask
<1>2. PICK m \in Models : m = main.active
  BY <1>1, ActiveIsOpen
<1>3. PICK p \in Paths : main.registered[p] = m /\ main' = Request(main, k, p, m, n, <<main.version[m], pos>>)
  BY <1>2 DEF Ask
<1>4. PICK key \in Versions \X Positions : key = <<main.version[m], pos>>
  <2>1. main.version[m] \in Versions
    BY <1>1 DEF Session
  <2> QED
    BY <2>1
<1>5. main' = Request(main, k, p, m, n, key)
  BY <1>3, <1>4
<1>6. /\ Good(main', outbox) /\ Carries(main, main', outbox)
      /\ Fine(main, outbox) /\ main.registered[p] = m => Fine(main', outbox)
      /\ Quiet(main, main') /\ SameEditor(main, main') /\ main'.registered = main.registered
  BY <1>1, <1>5, RequestStep
<1>7. MainStep(main, main', outbox)
  BY <1>3, <1>6 DEF MainStep
<1> QED
  BY <1>1, <1>6, <1>7, MainActs DEF SameEditor

\* The debounce of the diagnostics elapses.
LEMMA TimerActs ==
  ASSUME Inv, NEW p \in Paths, TimerFires(p)
  PROVE  StepOK /\ Quiet(main, main') /\ main'.tab = main.tab /\ main'.registered = main.registered
<1>1. EnvOK(outbox) /\ Good(main, outbox) /\ WorkersUnchanged /\ main.timer[p] # 0
  BY InvParts DEF TimerFires
<1>2. main' = requestDiagnostics([main EXCEPT !.timer[p] = 0], p, main.timer[p])
  BY DEF TimerFires
<1>3. MainStep(main, main', outbox) /\ main'.registered = main.registered /\ main'.tab = main.tab
  BY <1>1, <1>2, TimerFiresStep
<1> QED
  BY <1>1, <1>3, MainActs

(***************************************************************************)
(* The steps of messages, workers and faults                               *)
(***************************************************************************)
\* What AnswersAreCurrent and MarkersAreCurrent say of a step.
AnswersCurrent ==
  \A n \in Calls : main'.answer[n].state = "result" /\ main'.answer[n] # main.answer[n]
    => IsCurrent(main', main'.answer[n].doc)
MarkersCurrent ==
  \A m \in Models : main'.markers[m] # None /\ main'.markers[m] # main.markers[m]
    => main'.markers[m] = Doc(main', m)

\* A quiet step gives no promise a result and sets no markers.
LEMMA QuietIsCurrent ==
  ASSUME Quiet(main, main')
  PROVE  AnswersCurrent /\ MarkersCurrent
BY DEF Quiet, AnswersCurrent, MarkersCurrent, Empty, Waiting

\* An answer that is taken leaves nothing pending.
LEMMA AnswerClears ==
  ASSUME NEW s \in Session, NEW msg, msg.kind \in Tracked, msg.path \in Paths,
         s.pending[msg.kind][msg.path] = msg.id, NEW t, t = OnAnswer(s, msg)
  PROVE  t.pending[msg.kind][msg.path] = 0
<1>1. PICK r : t = clearPending(s, msg.kind, msg.path, r)
  BY Zenon DEF OnAnswer
<1>2. s.pending \in [Tracked -> [Paths -> Nat]]
  BY DEF Session
<1>3. PICK u : u = Resolve(s, msg.kind, msg.path, r)
  OBVIOUS
<1>4. u.pending = s.pending /\ DOMAIN u = DOMAIN s
  BY <1>3, Zenon DEF Resolve, Session
<1>5. t = [u EXCEPT !.pending[msg.kind][msg.path] = 0]
  BY <1>1, <1>3, Zenon DEF clearPending
<1>6. "pending" \in DOMAIN u
  BY <1>4 DEF Session
<1> QED
  BY <1>2, <1>4, <1>5, <1>6

\* A document that came as an answer to the pending request is of the present text, if
\* the version check lets it pass.
LEMMA ReplyIsCurrent ==
  ASSUME Inv, Kept, NEW w \in Workers, outbox[w] # <<>>, NEW msg \in ToMain, msg = Head(outbox[w]),
         msg.type = "answer", NEW m \in Models, m = main.registered[msg.path],
         main.pending[msg.kind][msg.path] = msg.id, msg.result # None, ~(msg.version < main.version[m])
  PROVE  msg.result = [model |-> m, version |-> main.version[m]]
<1>1. msg.kind \in Tracked /\ msg.path \in Paths /\ msg.id \in Nat \ {0} /\ msg.version \in Versions
  BY DEF ToMain
<1>2. IsAnswer(main, msg.kind, msg.path, msg)
  BY <1>1 DEF IsAnswer
<1>3. PICK i \in DOMAIN outbox[w] : outbox[w][i] = msg
  BY InvParts, PoppedFields
<1>4. m # None /\ main.version[m] \in Nat /\ msg.version \in Nat
  <2>1. m # None
    BY NoneAssumption
  <2>2. Versions \subseteq Nat /\ main.version[m] \in Versions
    BY InvParts, SessionAssumption DEF Session, Versions
  <2> QED
    BY <1>1, <2>1, <2>2
<1>5. msg.version <= main.version[m] /\ msg.result = [model |-> m, version |-> msg.version]
  <2>1. RepliesOK(main, outbox)
    BY Zenon DEF Kept, Fine, Faithful
  <2>2. IsAnswer(main, msg.kind, msg.path, outbox[w][i])
    BY <1>2, <1>3
  <2>3. /\ outbox[w][i].version <= main.version[m]
        /\ outbox[w][i].result # None =>
             outbox[w][i].result = [model |-> m, version |-> outbox[w][i].version]
    BY <1>1, <1>4, <2>1, <2>2, Zenon DEF RepliesOK
  <2> QED
    BY <1>3, <2>3
<1>6. msg.version = main.version[m]
  BY <1>4, <1>5, SMTT(60)
<1> QED
  BY <1>5, <1>6

\* The main thread handles a message of the worker.
LEMMA ReceiveStep ==
  ASSUME Inv, NEW w \in Workers, Receive(w)
  PROVE  /\ StepOK /\ main'.tab = main.tab /\ main'.registered = main.registered
         /\ Kept => AnswersCurrent /\ MarkersCurrent
<1>1. /\ EnvOK(outbox) /\ Good(main, outbox) /\ main \in Session /\ outbox[w] # <<>>
      /\ mirror' = mirror /\ flags' = flags /\ health' = health
  BY InvParts DEF Receive
<1>2. PICK o : o = Popped(outbox, w)
  OBVIOUS
<1>3. outbox' = o
  BY <1>2 DEF Receive, Popped
<1>4. EnvOK(o) /\ Good(main, o) /\ (Fine(main, outbox) => Fine(main, o))
  BY <1>1, <1>2, PoppedFields, PopStep
<1>5. PICK msg \in ToMain : msg = Head(outbox[w])
  BY <1>1, <1>2, PoppedFields
<1>6. main' = handleWorkerMessage(main, msg)
  BY <1>5 DEF Receive
<1>7. ASSUME Good(main', o), Fine(main, outbox) => Fine(main', o),
             Kept /\ Fine(main, o) => AllUnderWay(main', o)
      PROVE  StepOK
  <2>1. Inv'
    BY <1>1, <1>3, <1>4, <1>7, GoodNext
  <2>2. ASSUME Kept PROVE Kept'
    BY <1>1, <1>3, <1>4, <1>7, <2>2, KeptNext DEF Kept
  <2> QED
    BY <2>1, <2>2 DEF StepOK
<1>8. ASSUME Kept, NEW k \in Kinds, NEW q \in Paths, main.pending[k][q] # 0
      PROVE  \/ UnderWay(main, o, k, q)
             \/ IsAnswer(main, k, q, msg)
             \/ main.worker # 0 /\ ~Repeats(main, k, q) /\ msg = [type |-> "resync", path |-> q]
  <2>1. UnderWay(main, outbox, k, q)
    BY <1>8 DEF Kept, AllUnderWay
  <2> QED
    BY <1>1, <1>2, <1>5, <2>1, PopUnderWay
<1>9. CASE msg.type = "resync"
  <2>1. PICK p \in Paths : p = msg.path
    BY <1>9 DEF ToMain
  <2>2. main' = OnResync(main, p)
    BY <1>6, <1>9, <2>1 DEF handleWorkerMessage
  <2>3. /\ Good(main', o) /\ (Fine(main, o) => Fine(main', o) /\ Resumes(main, main', o, p))
        /\ SameEditor(main, main') /\ main'.registered = main.registered
        /\ main'.answer = main.answer /\ main'.markers = main.markers
    BY <1>4, <2>2, OnResyncStep
  <2>4. ASSUME Kept, Fine(main, o) PROVE AllUnderWay(main', o)
    <3> SUFFICES ASSUME NEW k \in Kinds, NEW q \in Paths, main'.pending[k][q] # 0
                 PROVE  UnderWay(main', o, k, q)
      BY DEF AllUnderWay
    <3>1. main'.pending[k][q] = main.pending[k][q] =>
            UnderWay(main, o, k, q) \/ (q = p /\ main.worker # 0 /\ ~Repeats(main, k, p))
      <4> SUFFICES ASSUME main'.pending[k][q] = main.pending[k][q]
                   PROVE  UnderWay(main, o, k, q) \/ (q = p /\ main.worker # 0 /\ ~Repeats(main, k, p))
        OBVIOUS
      <4>1. \/ UnderWay(main, o, k, q)
            \/ IsAnswer(main, k, q, msg)
            \/ main.worker # 0 /\ ~Repeats(main, k, q) /\ msg = [type |-> "resync", path |-> q]
        BY <1>8, <2>4
      <4>2. ~IsAnswer(main, k, q, msg)
        BY <1>9 DEF IsAnswer
      <4> QED
        BY <2>1, <4>1, <4>2
    <3> QED
      BY <2>3, <2>4, <3>1 DEF Resumes
  <2>5. StepOK
    BY <1>4, <1>7, <2>3, <2>4
  <2>6. AnswersCurrent /\ MarkersCurrent
    BY <2>3 DEF AnswersCurrent, MarkersCurrent
  <2> QED
    BY <2>3, <2>5, <2>6 DEF SameEditor
<1>10. CASE msg.type = "answer" /\ msg.kind = "diagnostics"
  <2>1. main' = OnDiagnostics(main, msg)
    BY <1>6, <1>10 DEF handleWorkerMessage
  <2>2. /\ Good(main', o) /\ Carries(main, main', o) /\ (Fine(main, o) => Fine(main', o))
        /\ SameEditor(main, main') /\ main'.registered = main.registered /\ main'.answer = main.answer
        /\ \A m \in Models :
             \/ main'.markers[m] \in {main.markers[m], None}
             \/ /\ m = main.registered[msg.path] /\ main'.markers[m] = msg.result /\ msg.result # None
                /\ ~(msg.version < main.version[m]) /\ main.pending["diagnostics"][msg.path] = msg.id
    BY <1>4, <1>10, <2>1, OnDiagnosticsStep
  <2>3. ASSUME Kept PROVE AllUnderWay(main, o)
    <3> SUFFICES ASSUME NEW k \in Kinds, NEW q \in Paths, main.pending[k][q] # 0
                 PROVE  UnderWay(main, o, k, q)
      BY DEF AllUnderWay
    <3>1. k # "diagnostics"
      BY SessionAssumption
    <3>2. ~IsAnswer(main, k, q, msg) /\ msg # [type |-> "resync", path |-> q]
      BY <1>10, <3>1 DEF IsAnswer
    <3> QED
      BY <1>8, <2>3, <3>2
  <2>4. Kept => AllUnderWay(main', o)
    BY <2>2, <2>3, CarriesUnderWay
  <2>5. StepOK
    BY <1>4, <1>7, <2>2, <2>4
  <2>6. ASSUME Kept PROVE AnswersCurrent /\ MarkersCurrent
    <3>1. AnswersCurrent
      BY <2>2 DEF AnswersCurrent
    <3>2. ASSUME NEW m \in Models, main'.markers[m] # None, main'.markers[m] # main.markers[m]
          PROVE  main'.markers[m] = Doc(main', m)
      <4>1. /\ m = main.registered[msg.path] /\ main'.markers[m] = msg.result /\ msg.result # None
            /\ ~(msg.version < main.version[m]) /\ main.pending[msg.kind][msg.path] = msg.id
        BY <1>10, <2>2, <3>2
      <4>2. msg.result = [model |-> m, version |-> main.version[m]]
        BY <1>1, <1>5, <1>10, <2>6, <4>1, ReplyIsCurrent
      <4> QED
        BY <2>2, <4>1, <4>2 DEF Doc, SameEditor
    <3> QED
      BY <3>1, <3>2 DEF MarkersCurrent
  <2> QED
    BY <2>2, <2>5, <2>6 DEF SameEditor
<1>11. CASE msg.type = "answer" /\ msg.kind # "diagnostics"
  <2>1. main' = OnAnswer(main, msg)
    BY <1>6, <1>11 DEF handleWorkerMessage
  <2>2. /\ Good(main', o) /\ Carries(main, main', o) /\ (Fine(main, o) => Fine(main', o))
        /\ SameEditor(main, main') /\ main'.registered = main.registered /\ main'.markers = main.markers
        /\ \A n \in Calls :
             \/ main'.answer[n] \in {main.answer[n], Empty}
             \/ /\ main'.answer[n] = Result(msg.result) /\ msg.result # None /\ main.registered[msg.path] # None
                /\ ~(msg.version < main.version[main.registered[msg.path]])
                /\ main.resolver[msg.kind][msg.path] # {}
                /\ main.pending[msg.kind][msg.path] = msg.id
    BY <1>4, <1>11, <2>1, OnAnswerStep
  <2>3. msg.kind \in Tracked /\ msg.path \in Paths
    BY <1>11 DEF ToMain
  <2>4. ASSUME Kept PROVE AllUnderWay(main', o)
    <3> SUFFICES ASSUME NEW k \in Kinds, NEW q \in Paths, main'.pending[k][q] # 0
                 PROVE  UnderWay(main', o, k, q)
      BY DEF AllUnderWay
    <3>1. main'.pending[k][q] = main.pending[k][q] => UnderWay(main, o, k, q)
      <4> SUFFICES ASSUME main'.pending[k][q] = main.pending[k][q] PROVE UnderWay(main, o, k, q)
        OBVIOUS
      <4>1. ~IsAnswer(main, k, q, msg)
        <5> SUFFICES ASSUME IsAnswer(main, k, q, msg) PROVE FALSE
          OBVIOUS
        <5>1. main.pending[msg.kind][msg.path] = msg.id /\ k = msg.kind /\ q = msg.path
          BY DEF IsAnswer
        <5>2. main'.pending[msg.kind][msg.path] = 0
          BY <1>1, <2>1, <2>3, <5>1, AnswerClears
        <5> QED
          BY <5>1, <5>2
      <4>2. msg # [type |-> "resync", path |-> q]
        BY <1>11
      <4> QED
        BY <1>8, <2>4, <4>1, <4>2
    <3> QED
      BY <2>2, <3>1 DEF Carries
  <2>5. StepOK
    BY <1>4, <1>7, <2>2, <2>4
  <2>6. ASSUME Kept PROVE AnswersCurrent /\ MarkersCurrent
    <3>1. MarkersCurrent
      BY <2>2 DEF MarkersCurrent
    <3>2. ASSUME NEW n \in Calls, main'.answer[n].state = "result", main'.answer[n] # main.answer[n]
          PROVE  IsCurrent(main', main'.answer[n].doc)
      <4>1. /\ main'.answer[n] = Result(msg.result) /\ msg.result # None /\ main.registered[msg.path] # None
            /\ ~(msg.version < main.version[main.registered[msg.path]])
            /\ main.pending[msg.kind][msg.path] = msg.id
        BY <2>2, <3>2 DEF Empty
      <4>2. PICK m \in Models : m = main.registered[msg.path]
        BY <1>1, <2>3, <4>1 DEF Session, Optional
      <4>3. msg.result = [model |-> m, version |-> main.version[m]]
        BY <1>1, <1>5, <1>11, <2>6, <4>1, <4>2, ReplyIsCurrent
      <4>4. main'.answer[n].doc = [model |-> m, version |-> main.version[m]]
        BY <4>1, <4>3 DEF Result
      <4> QED
        BY <2>2, <2>3, <4>2, <4>4 DEF IsCurrent, SameEditor
    <3> QED
      BY <3>1, <3>2 DEF AnswersCurrent
  <2> QED
    BY <2>2, <2>5, <2>6 DEF SameEditor
<1>12. msg.type \in {"resync", "answer"}
  BY DEF ToMain
<1> QED
  BY <1>9, <1>10, <1>11, <1>12

\* The worker handles a message of the main thread.
LEMMA WorkerActs ==
  ASSUME Inv, NEW w \in Workers, WorkerStep(w)
  PROVE  StepOK /\ Quiet(main, main') /\ main'.tab = main.tab /\ main'.registered = main.registered
<1>1. EnvOK(outbox) /\ Good(main, outbox)
  BY InvParts
<1>2. PICK msg \in ToWorker : \E posts : Did(w, msg, posts)
  BY <1>1, WorkerDoes
<1>3. PICK posts : Did(w, msg, posts)
  BY <1>2
<1>4. EnvOK(outbox)' /\ Good(main, outbox)'
  BY <1>1, <1>3, WorkerSound
<1>5. Kept => Kept'
  <2> SUFFICES ASSUME Fine(main, outbox), AllUnderWay(main, outbox) PROVE Fine(main, outbox)' /\ AllUnderWay(main, outbox)'
    BY DEF Kept
  <2> QED
    BY <1>1, <1>3, WorkerKeeps
<1>6. /\ SameEditor(main, main') /\ SameDocs(main, main') /\ SamePromises(main, main')
      /\ main'.markers = main.markers
  BY <1>1, <1>3, DidFields
<1> QED
  BY <1>4, <1>5, <1>6 DEF StepOK, Inv, Quiet, SameEditor, SameDocs, SamePromises

\* A worker dies.
LEMMA DiesStep ==
  ASSUME Inv, NEW w \in Workers, WorkerDies(w)
  PROVE  StepOK /\ Quiet(main, main') /\ main'.tab = main.tab /\ main'.registered = main.registered
<1>1. /\ EnvOK(outbox) /\ Good(main, outbox) /\ WorkersOK(main, outbox) /\ main \in Session
      /\ main' = main /\ mirror' = mirror /\ flags' = flags /\ outbox' = outbox
      /\ health[w] = "up" /\ w = main.worker /\ main.born < MaxWorkers
      /\ health' = [health EXCEPT ![w] = "dead"] /\ health \in [Workers -> {"up", "dead", "reported"}]
  BY InvParts DEF WorkerDies, Good, Sound, EnvOK
<1>2. /\ health'[w] = "dead" /\ \A v \in Workers : v # w => health'[v] = health[v]
      /\ health' \in [Workers -> {"up", "dead", "reported"}]
  BY <1>1
<1>3. w # 0 /\ w = main.born /\ ~(w > main.born)
  BY <1>1 DEF WorkersOK, Workers
<1>4. WorkersOK(main, outbox)'
  <2>1. \A v \in Workers : v <= main.born /\ v # main.worker => health'[v] = "reported"
    BY <1>1, <1>2 DEF WorkersOK
  <2>2. health'[main.worker] = "dead"
    BY <1>1, <1>2
  <2>3. \A v \in Workers : v > main.born =>
          /\ health'[v] = "up" /\ main.inbox[v] = <<>> /\ outbox[v] = <<>> /\ flags[v] = {}
          /\ mirror[v] = [p \in Paths |-> None]
    BY <1>1, <1>2, <1>3 DEF WorkersOK
  <2>4. main.worker \in {0, main.born}
    BY <1>1 DEF WorkersOK
  <2> QED
    BY <1>1, <2>1, <2>2, <2>3, <2>4 DEF WorkersOK
<1>5. EnvOK(outbox)'
  BY <1>1, <1>2 DEF EnvOK
<1>6. Inv'
  <2>1. /\ TabsOK(main)' /\ ResolversOK(main)' /\ RetriesOK(main)'
    BY <1>1 DEF Good, Sound, TabsOK, ResolversOK, RetriesOK, IsOpen
  <2>2. IdsOK(main, outbox)' /\ CancelsOK(main)'
    BY <1>1 DEF Good, Sound, IdsOK, CancelsOK
  <2> QED
    BY <1>1, <1>4, <1>5, <2>1, <2>2 DEF Inv, Good, Sound
<1>7. ASSUME Kept PROVE Kept'
  <2>1. Fine(main', outbox') /\ AllUnderWay(main', outbox')
    BY <1>1, <1>7 DEF Kept
  <2> QED
    BY <1>1, <2>1, KeptNext
<1> QED
  BY <1>1, <1>6, <1>7 DEF StepOK, Quiet

\* The main thread learns that its worker has died.
LEMMA ErrorActs ==
  ASSUME Inv, NEW w \in Workers, OnError(w)
  PROVE  StepOK /\ Quiet(main, main') /\ main'.tab = main.tab /\ main'.registered = main.registered
<1>1. /\ EnvOK(outbox) /\ Good(main, outbox) /\ WorkersOK(main, outbox) /\ main \in Session
      /\ main' = handleWorkerError(main) /\ mirror' = mirror /\ flags' = flags /\ outbox' = outbox
      /\ health[w] = "dead"
      /\ health' = [health EXCEPT ![w] = "reported"] /\ health \in [Workers -> {"up", "dead", "reported"}]
  BY InvParts DEF OnError, Good, Sound, EnvOK
<1>2. /\ health'[w] = "reported" /\ \A v \in Workers : v # w => health'[v] = health[v]
      /\ health' \in [Workers -> {"up", "dead", "reported"}]
  BY <1>1
<1>3. /\ main' \in Session /\ TabsOK(main') /\ ResolversOK(main') /\ IdsOK(main', outbox) /\ CancelsOK(main')
      /\ RetriesOK(main')
      /\ Fine(main, outbox) => Fine(main', outbox) /\ AllUnderWay(main', outbox)
      /\ Quiet(main, main') /\ main'.registered = main.registered /\ main'.inbox = main.inbox
      /\ main'.born = main.born /\ main'.worker = 0 /\ SameEditor(main, main')
  BY <1>1, ErrorStep
<1>4. w = main.worker /\ w # 0 /\ w = main.born /\ main.born < MaxWorkers
  <2>1. w \in Nat /\ main.born \in Nat /\ w # 0
    BY <1>1, SessionAssumption DEF Session, Workers
  <2>2. w <= main.born
    BY <1>1, <2>1 DEF WorkersOK
  <2>3. w = main.worker
    BY <1>1, <2>2 DEF WorkersOK
  <2> QED
    BY <1>1, <2>1, <2>3 DEF WorkersOK
<1>5. WorkersOK(main, outbox)'
  <2>1. \A v \in Workers : v <= main.born => health'[v] = "reported"
    BY <1>1, <1>2, <1>4 DEF WorkersOK
  <2>2. \A v \in Workers : v > main.born =>
          /\ health'[v] = "up" /\ main.inbox[v] = <<>> /\ outbox[v] = <<>> /\ flags[v] = {}
          /\ mirror[v] = [p \in Paths |-> None]
    <3>1. ~(w > main.born)
      BY <1>4 DEF Workers
    <3> QED
      BY <1>1, <1>2, <3>1 DEF WorkersOK
  <2> QED
    BY <1>1, <1>3, <1>4, <2>1, <2>2 DEF WorkersOK
<1>6. EnvOK(outbox)'
  BY <1>1, <1>2 DEF EnvOK
<1>7. Inv'
  <2>1. /\ TabsOK(main)' /\ ResolversOK(main)' /\ RetriesOK(main)'
    BY <1>3 DEF TabsOK, ResolversOK, RetriesOK, IsOpen
  <2>2. IdsOK(main, outbox)' /\ CancelsOK(main)'
    BY <1>1, <1>3 DEF IdsOK, CancelsOK
  <2> QED
    BY <1>3, <1>5, <1>6, <2>1, <2>2 DEF Inv, Good, Sound
<1>8. ASSUME Kept PROVE Kept'
  <2>1. Fine(main', outbox) /\ AllUnderWay(main', outbox)
    BY <1>3, <1>8 DEF Kept
  <2>2. Fine(main', outbox') /\ AllUnderWay(main', outbox')
    BY <1>1, <2>1
  <2> QED
    BY <1>1, <2>2, KeptNext
<1> QED
  BY <1>3, <1>7, <1>8 DEF StepOK, SameEditor

(***************************************************************************)
(* Every step, and the theorems                                            *)
(***************************************************************************)

\* Every step keeps the invariants, and gives results and markers of the present text.
LEMMA NextOK ==
  ASSUME Inv, [Next]_vars
  PROVE  StepOK /\ (Kept => AnswersCurrent /\ MarkersCurrent)
<1>1. CASE UNCHANGED vars
  <2>1. /\ main' = main /\ mirror' = mirror /\ flags' = flags /\ outbox' = outbox /\ health' = health
        /\ EnvOK(outbox) /\ Good(main, outbox)
    BY <1>1, InvParts DEF vars
  <2>2. Inv'
    BY <2>1, GoodNext
  <2>3. Kept => Kept'
    BY <2>1, KeptNext DEF Kept
  <2> QED
    BY <2>1, <2>2, <2>3 DEF StepOK, AnswersCurrent, MarkersCurrent
<1>2. ASSUME User PROVE StepOK /\ Quiet(main, main')
  <2>1. CASE Edit \/ SilentEdit
    BY <2>1, EditStep, SilentEditStep
  <2>2. CASE \E m \in Models : SwitchTab(m) \/ closeTab(m) \/ deleteWorkspaceFile(m)
    BY <2>2, SwitchTabStep, CloseTabStep, DeleteStep
  <2>3. CASE \E m \in Models : \E p \in Paths : OpenTab(m, p) \/ renameWorkspaceFile(m, p)
    BY <2>3, OpenTabStep, RenameStep
  <2>4. CASE \E k \in Kinds, n \in Calls, pos \in Positions : Ask(k, n, pos)
    BY <2>4, AskStep
  <2> QED
    BY <1>2, <2>1, <2>2, <2>3, <2>4 DEF User
<1>3. ASSUME NEW p \in Paths, TimerFires(p) PROVE StepOK /\ Quiet(main, main')
  BY <1>3, TimerActs
<1>4. ASSUME NEW w \in Workers, WorkerStep(w) \/ WorkerDies(w) \/ OnError(w) PROVE StepOK /\ Quiet(main, main')
  BY <1>4, WorkerActs, DiesStep, ErrorActs
<1>5. ASSUME NEW w \in Workers, Receive(w) PROVE StepOK /\ (Kept => AnswersCurrent /\ MarkersCurrent)
  BY <1>5, ReceiveStep
<1>6. Quiet(main, main') => AnswersCurrent /\ MarkersCurrent
  BY QuietIsCurrent
<1> QED
  BY <1>1, <1>2, <1>3, <1>4, <1>5, <1>6 DEF Next

\* The invariant implies the type invariant of the runs.
LEMMA InvIsTyped ==
  ASSUME Inv
  PROVE  TypeOK
<1>1. /\ main \in Session /\ WorkersOK(main, outbox) /\ IdsOK(main, outbox) /\ ResolversOK(main) /\ EnvOK(outbox)
  BY InvParts DEF Good, Sound
<1>2. /\ main.worker \in {0, main.born} /\ main.born \in Nat \ {0} /\ main.born \in Workers
      /\ main.nextRequestId \in Nat \ {0}
  BY <1>1, SessionAssumption DEF WorkersOK, Session, Workers
<1>3. main.registered \in [Paths -> Models \cup {None}]
  BY <1>1 DEF Session, Optional
<1>4. main.pending \in [Tracked -> [Paths -> 0 .. main.nextRequestId - 1]]
  <2> SUFFICES ASSUME NEW k \in Tracked, NEW p \in Paths
               PROVE  main.pending[k][p] \in 0 .. main.nextRequestId - 1
    BY <1>1 DEF Session
  <2>1. main.pending[k][p] \in Nat
    BY <1>1 DEF Session
  <2>2. main.pending[k][p] < main.nextRequestId
    BY <1>1 DEF IdsOK
  <2> QED
    BY <1>2, <2>1, <2>2
<1>5. flags \in [Workers -> SUBSET (1 .. main.nextRequestId)]
  <2> SUFFICES ASSUME NEW w \in Workers, NEW id \in flags[w] PROVE id \in 1 .. main.nextRequestId
    BY <1>1 DEF EnvOK
  <2>1. id \in Nat \ {0} /\ id < main.nextRequestId
    BY <1>1 DEF EnvOK, IdsOK
  <2> QED
    BY <1>2, <2>1
<1>6. \A k \in Kinds, p \in Paths : \A n \in main.resolver[k][p] : main.answer[n] = Waiting
  BY <1>1 DEF ResolversOK
<1>7. main.lastSent \in [Paths -> Versions \cup {0}] /\ main.timer \in [Paths -> Versions \cup {0}]
  BY <1>1 DEF Session
<1>8. mirror \in [Workers -> [Paths -> Docs \cup {None}]] /\ health \in [Workers -> {"up", "dead", "reported"}]
  BY <1>1 DEF EnvOK, Optional
<1> QED
  BY <1>2, <1>3, <1>4, <1>5, <1>6, <1>7, <1>8 DEF TypeOK

\* A promise that waits has a request, and the request is in flight.
LEMMA KeptInFlight ==
  ASSUME Inv, Kept
  PROVE  PromisesInFlight
<1> SUFFICES ASSUME NEW k \in Kinds, NEW p \in Paths, main.resolver[k][p] # {} PROVE RequestInFlight(k, p)
  BY DEF PromisesInFlight
<1>1. /\ main \in Session /\ RetriesOK(main) /\ ClosedOK(main) /\ AllUnderWay(main, outbox)
  BY InvParts DEF Good, Kept, Fine
<1>2. k \in Tracked
  BY DEF Tracked
<1>3. main.pending[k][p] # 0
  BY <1>1 DEF RetriesOK
<1>4. UnderWay(main, outbox, k, p)
  BY <1>1, <1>3 DEF AllUnderWay
<1>5. main.registered[p] \in Models
  BY <1>1, <1>2, <1>3 DEF ClosedOK, Session, Optional
<1>6. main.worker # 0 => main.worker \in Workers
  BY <1>1, SessionAssumption DEF Session, Workers
<1>7. CASE main.worker # 0 /\ \E i \in DOMAIN main.inbox[main.worker] : IsRequest(main, k, p, main.inbox[main.worker][i])
  BY <1>6, <1>7 DEF RequestInFlight, IsRequest
<1>8. CASE /\ main.worker # 0 /\ ~Repeats(main, k, p)
           /\ \E i \in DOMAIN outbox[main.worker] : outbox[main.worker][i] = [type |-> "resync", path |-> p]
  <2>1. main.fingerprint[p] # ResyncFingerprint(main, p)
    <3> SUFFICES ASSUME main.fingerprint[p] = ResyncFingerprint(main, p) PROVE Repeats(main, k, p)
      BY <1>8
    <3>1. /\ main.fingerprint[p].version = main.version[main.registered[p]]
          /\ main.fingerprint[p].pending[k] = main.pending[k][p]
      BY <1>2 DEF ResyncFingerprint
    <3>2. ResyncFingerprint(main, p) \in [version : Versions, pending : [Tracked -> Nat]]
      <4>1. main.version[main.registered[p]] \in Versions /\ \A j \in Tracked : main.pending[j][p] \in Nat
        BY <1>1, <1>5 DEF Session
      <4> QED
        BY <4>1 DEF ResyncFingerprint
    <3>3. main.fingerprint[p] # None /\ main.registered[p] # None
      BY <1>5, <3>2, NoneAssumption
    <3> QED
      BY <3>1, <3>3 DEF Repeats
  <2> QED
    BY <1>6, <1>8, <2>1, Zenon DEF RequestInFlight
<1>9. CASE \E w \in Workers : \E i \in DOMAIN outbox[w] : IsAnswer(main, k, p, outbox[w][i])
  BY <1>9 DEF RequestInFlight, IsAnswer
<1> QED
  BY <1>4, <1>7, <1>8, <1>9 DEF UnderWay

\* With an empty inbox, what the inbox will make of the mirror is the mirror.
LEMMA KeptFollows ==
  ASSUME Inv, Kept
  PROVE  MirrorFollowsClient
<1> SUFFICES ASSUME NEW w \in Workers, w = main.worker, main.inbox[w] = <<>>, NEW p \in Paths
             PROVE  mirror[w][p] = Belief(main, p)
  BY DEF MirrorFollowsClient, Belief
<1>1. MirrorOK(main) /\ mirror[w][p] \in Optional(Docs) /\ w # 0
  BY InvParts DEF Kept, Fine, Faithful, EnvOK, Workers
<1> DEFINE h == [i \in Nat |-> mirror[w][p]]
<1>2. h \in [Nat -> Optional(Docs)] /\ h[0] = mirror[w][p]
  BY <1>1
<1> HIDE DEF h
<1>3. History(main.inbox[w], p, mirror[w][p], 0, h)
  BY <1>2 DEF History
<1>4. 0 \in Nat /\ 0 = Len(main.inbox[w])
  OBVIOUS
<1> QED
  BY <1>1, <1>2, <1>3, <1>4 DEF MirrorOK

\* The first invariant holds in every behaviour ...
LEMMA SpecInv == Spec => []Inv
<1>1. Init => Inv
  BY InitOK
<1>2. Inv /\ [Next]_vars => Inv'
  BY NextOK DEF StepOK
<1> QED
  BY <1>1, <1>2, PTL DEF Spec

\* The session's state is well formed in every behaviour.
THEOREM TypeCorrect == Spec => []TypeOK
<1>1. Inv => TypeOK
  BY InvIsTyped
<1> QED
  BY <1>1, SpecInv, PTL

\* ... and the second as long as no path that has a model gets another one.
LEMMA SpecKept == Spec /\ [][NeverReplaced]_vars => []Kept
<1>1. Init => Kept
  BY InitOK
<1>2. Inv /\ Kept /\ [Next]_vars /\ [NeverReplaced]_vars => Kept'
  <2> SUFFICES ASSUME Inv, Kept, [Next]_vars, [NeverReplaced]_vars PROVE Kept'
    OBVIOUS
  <2>1. StepOK
    BY NextOK
  <2>2. CASE NeverReplaced
    BY <2>1, <2>2 DEF StepOK
  <2>3. CASE UNCHANGED vars
    <3>1. NeverReplaced
      BY <2>3 DEF vars, NeverReplaced, Reregisters
    <3> QED
      BY <2>1, <3>1 DEF StepOK
  <2> QED
    BY <2>2, <2>3
<1> QED
  BY <1>1, <1>2, SpecInv, PTL DEF Spec

\* No promise is forgotten: each one that waits has exactly one pending request, in the
\* inbox, on the way back, or about to be repeated, whatever the worker, the timers and
\* the user do, as long as no path that has a model gets another one.
THEOREM PromisesStayInFlight == Spec /\ [][NeverReplaced]_vars => []PromisesInFlight
<1>1. Inv /\ Kept => PromisesInFlight
  BY KeptInFlight
<1> QED
  BY <1>1, SpecInv, SpecKept, PTL

\* A worker that has handled everything has the documents the main thread believes it
\* has, as long as no path that has a model gets another one.  (With another model, whose
\* versions start again, documentStore.open keeps the old model's newer text.)
THEOREM MirrorFollows == Spec /\ [][NeverReplaced]_vars => []MirrorFollowsClient
<1>1. Inv /\ Kept => MirrorFollowsClient
  BY KeptFollows
<1> QED
  BY <1>1, SpecInv, SpecKept, PTL

\* No promise gets a result computed from another text than the one the editor shows, as
\* long as no path that has a model gets another one.
THEOREM AnswersStayCurrent == Spec /\ [][NeverReplaced]_vars => AnswersAreCurrent
<1>1. Inv /\ Kept /\ [Next]_vars =>
        [\A n \in Calls : main'.answer[n].state = "result" /\ main'.answer[n] # main.answer[n]
           => IsCurrent(main', main'.answer[n].doc)]_vars
  BY NextOK DEF AnswersCurrent
<1> QED
  BY <1>1, SpecInv, SpecKept, PTL DEF Spec, AnswersAreCurrent

\* No model gets markers computed from another text than its own present one, as long as
\* no path that has a model gets another one.
THEOREM MarkersStayCurrent == Spec /\ [][NeverReplaced]_vars => MarkersAreCurrent
<1>1. Inv /\ Kept /\ [Next]_vars =>
        [\A m \in Models : main'.markers[m] # None /\ main'.markers[m] # main.markers[m]
           => main'.markers[m] = Doc(main', m)]_vars
  BY NextOK DEF MarkersCurrent
<1> QED
  BY <1>1, SpecInv, SpecKept, PTL DEF Spec, MarkersAreCurrent

(***************************************************************************)
(* Files that are neither deleted nor renamed while they are open          *)
(***************************************************************************)
\* A path's model is the one in the tab of that path, and paths have one tab.
Tabbed ==
  /\ \A p \in Paths : main.registered[p] # None => main.tab[main.registered[p]] = p
  /\ \A m, o \in Models : IsOpen(main, m) /\ main.tab[o] = main.tab[m] => o = m

\* Syncing a tab that was open before.
LEMMA SyncKeepsTabs ==
  ASSUME Inv, Tabbed, NEW m \in Models, main.tab[m] \in Paths, main'.tab = main.tab,
         main'.registered[main.tab[m]] = m,
         \A q \in Paths : q # main.tab[m] => main'.registered[q] = main.registered[q]
  PROVE  Tabbed' /\ NeverReplaced
<1>1. \A p \in Paths : main.registered[p] \in Models \cup {None}
  BY InvParts DEF Session, Optional
<1>2. \A p \in Paths : main.registered[p] # None => main'.registered[p] \in {None, main.registered[p]}
  BY <1>1 DEF Tabbed, IsOpen
<1>3. Tabbed'
  BY DEF Tabbed, IsOpen
<1> QED
  BY <1>2, <1>3 DEF NeverReplaced, Reregisters

\* Leaving the tabs and the models as they are.
LEMMA SameKeepsTabs ==
  ASSUME Tabbed, main'.tab = main.tab, main'.registered = main.registered
  PROVE  Tabbed' /\ NeverReplaced
BY DEF Tabbed, IsOpen, NeverReplaced, Reregisters

\* A new tab has a path that no tab has, and so a path without a model.
LEMMA OpenKeepsTabs ==
  ASSUME Inv, Tabbed, NEW m \in Models, NEW p \in Paths, OpenTab(m, p)
  PROVE  Tabbed' /\ NeverReplaced
<1>1. /\ main'.tab = [main.tab EXCEPT ![m] = p] /\ main'.registered[p] = m
      /\ \A q \in Paths : q # p => main'.registered[q] = main.registered[q]
  BY OpenTabStep
<1>2. main.tab[m] = "unborn" /\ \A o \in Models : main.tab[o] # p
  BY DEF OpenTab
<1>3. /\ \A q \in Paths : main.registered[q] \in Models \cup {None}
      /\ main'.tab[m] = p /\ \A o \in Models : o # m => main'.tab[o] = main.tab[o]
  BY <1>1, InvParts DEF Session, Optional
<1>4. main.registered[p] = None
  BY <1>2, <1>3 DEF Tabbed
<1>5. "unborn" \notin Paths
  BY SessionAssumption
<1>6. \A q \in Paths : main'.registered[q] # None => main'.tab[main'.registered[q]] = q
  <2> SUFFICES ASSUME NEW q \in Paths, q # p, main.registered[q] # None
               PROVE  main'.tab[main.registered[q]] = q
    BY <1>1, <1>3
  <2>1. main.registered[q] \in Models /\ main.tab[main.registered[q]] = q
    BY <1>3 DEF Tabbed
  <2> QED
    BY <1>2, <1>3, <1>5, <2>1
<1>7. \A x, o \in Models : main'.tab[x] \in Paths /\ main'.tab[o] = main'.tab[x] => o = x
  BY <1>2, <1>3 DEF Tabbed, IsOpen
<1>8. NeverReplaced
  BY <1>1, <1>4 DEF NeverReplaced, Reregisters
<1> QED
  BY <1>6, <1>7, <1>8 DEF Tabbed, IsOpen

\* A closed tab takes the model of its path with it.
LEMMA CloseKeepsTabs ==
  ASSUME Inv, Tabbed, NEW m \in Models, closeTab(m)
  PROVE  Tabbed' /\ NeverReplaced
<1>1. /\ main'.tab = [main.tab EXCEPT ![m] = "closed"] /\ main.tab[m] \in Paths
      /\ \A q \in Paths : \/ q = main.tab[m] /\ main'.registered[q] = None
                          \/ q # main.tab[m] /\ main'.registered[q] = main.registered[q]
                          \/ \E o \in Models : main'.registered[q] = o /\ main'.tab[o] = q
  BY CloseTabStep
<1>2. /\ \A q \in Paths : main.registered[q] \in Models \cup {None}
      /\ main'.tab[m] = "closed" /\ \A o \in Models : o # m => main'.tab[o] = main.tab[o]
  BY <1>1, InvParts DEF Session, Optional
<1>3. "closed" \notin Paths
  BY SessionAssumption
<1>4. \A q \in Paths : main'.registered[q] # None => main'.tab[main'.registered[q]] = q
  <2> SUFFICES ASSUME NEW q \in Paths, q # main.tab[m], main.registered[q] # None
               PROVE  main'.tab[main.registered[q]] = q
    BY <1>1
  <2>1. main.registered[q] \in Models /\ main.tab[main.registered[q]] = q
    BY <1>2 DEF Tabbed
  <2> QED
    BY <1>2, <2>1
<1>5. \A x, o \in Models : main'.tab[x] \in Paths /\ main'.tab[o] = main'.tab[x] => o = x
  BY <1>2, <1>3 DEF Tabbed, IsOpen
<1>6. NeverReplaced
  <2> SUFFICES ASSUME NEW q \in Paths, main.registered[q] # None
               PROVE  main'.registered[q] \in {None, main.registered[q]}
    BY DEF NeverReplaced, Reregisters
  <2>1. main.registered[q] \in Models /\ main.tab[main.registered[q]] = q
    BY <1>2 DEF Tabbed
  <2>2. ASSUME NEW o \in Models, main'.registered[q] = o, main'.tab[o] = q
        PROVE  o = main.registered[q]
    BY <1>2, <1>3, <2>1, <2>2 DEF Tabbed, IsOpen
  <2> QED
    BY <1>1, <2>2
<1> QED
  BY <1>4, <1>5, <1>6 DEF Tabbed, IsOpen

\* Every step but deleting and renaming keeps a path with a model at its tab.
LEMMA TabbedStep ==
  ASSUME Ops \cap {"delete", "rename"} = {}, Inv, Tabbed, [Next]_vars
  PROVE  Tabbed' /\ NeverReplaced
<1>1. CASE UNCHANGED vars
  BY <1>1, SameKeepsTabs DEF vars
<1>2. ASSUME User PROVE Tabbed' /\ NeverReplaced
  <2>1. CASE Edit
    BY <2>1, EditStep, SyncKeepsTabs
  <2>2. CASE SilentEdit
    BY <2>2, SilentEditStep, SameKeepsTabs
  <2>3. ASSUME NEW m \in Models, SwitchTab(m) PROVE Tabbed' /\ NeverReplaced
    BY <2>3, SwitchTabStep, SyncKeepsTabs
  <2>4. ASSUME NEW m \in Models, closeTab(m) PROVE Tabbed' /\ NeverReplaced
    BY <2>4, CloseKeepsTabs
  <2>5. ASSUME NEW m \in Models, NEW p \in Paths, OpenTab(m, p) PROVE Tabbed' /\ NeverReplaced
    BY <2>5, OpenKeepsTabs
  <2>6. ASSUME NEW m \in Models PROVE ~deleteWorkspaceFile(m) /\ \A p \in Paths : ~renameWorkspaceFile(m, p)
    BY DEF deleteWorkspaceFile, renameWorkspaceFile
  <2>7. ASSUME NEW k \in Kinds, NEW n \in Calls, NEW pos \in Positions, Ask(k, n, pos) PROVE Tabbed' /\ NeverReplaced
    BY <2>7, AskStep, SameKeepsTabs
  <2> QED
    BY <1>2, <2>1, <2>2, <2>3, <2>4, <2>5, <2>6, <2>7 DEF User
<1>3. ASSUME NEW p \in Paths, TimerFires(p) PROVE Tabbed' /\ NeverReplaced
  BY <1>3, TimerActs, SameKeepsTabs
<1>4. ASSUME NEW w \in Workers, WorkerStep(w) \/ WorkerDies(w) \/ OnError(w) \/ Receive(w) PROVE Tabbed' /\ NeverReplaced
  BY <1>4, WorkerActs, DiesStep, ErrorActs, ReceiveStep, SameKeepsTabs
<1> QED
  BY <1>1, <1>2, <1>3, <1>4 DEF Next

\* Where no file is deleted or renamed while it is open, no path that has a model gets
\* another one: its model is unregistered first.
THEOREM FilesKeepTheirModels ==
  ASSUME Ops \cap {"delete", "rename"} = {}
  PROVE  Spec => [][NeverReplaced]_vars
<1>1. Init => Tabbed
  BY SessionAssumption DEF Init, Tabbed, IsOpen
<1>2. Inv /\ Tabbed /\ [Next]_vars => Tabbed' /\ [NeverReplaced]_vars
  BY TabbedStep
<1> QED
  BY <1>1, <1>2, SpecInv, PTL DEF Spec

\* The same holds of a single model, whatever becomes of its file.
THEOREM OneModelIsKept ==
  ASSUME \A m, o \in Models : m = o
  PROVE  Spec => [][NeverReplaced]_vars
<1>1. Inv /\ Inv' => NeverReplaced
  <2> SUFFICES ASSUME Inv, Inv' PROVE NeverReplaced
    OBVIOUS
  <2>1. main \in Session /\ main' \in Session
    BY InvParts DEF Inv, Good, Sound
  <2>2. \A p \in Paths : main.registered[p] \in Models \cup {None} /\ main'.registered[p] \in Models \cup {None}
    BY <2>1 DEF Session, Optional
  <2> QED
    BY <2>2 DEF NeverReplaced, Reregisters
<1> QED
  BY <1>1, SpecInv, PTL DEF Spec

\* Together: where no file is deleted or renamed while it is open, no promise is lost, the
\* mirror follows, and results and markers are of the present text.
THEOREM OpenFilesAreServed ==
  ASSUME Ops \cap {"delete", "rename"} = {}
  PROVE  Spec => /\ []PromisesInFlight /\ []MirrorFollowsClient
                 /\ AnswersAreCurrent /\ MarkersAreCurrent
BY FilesKeepTheirModels, PromisesStayInFlight, MirrorFollows, AnswersStayCurrent, MarkersStayCurrent
====
