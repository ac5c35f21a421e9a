---- MODULE LsSession ----
(***************************************************************************)
(* The language-service session of the playground: the editor's main       *)
(* thread (lsWorkerClient.ts, and the tab operations that drive it), the   *)
(* message channels, and the Web Worker with its backend-owned document    *)
(* mirror (lsWorker.ts, createBackend.ts, documentStore.ts).               *)
(*                                                                         *)
(* JavaScript runs each callback to completion, so every handler of either *)
(* thread is one action.  The main thread is one record, main; its helpers *)
(* map a record to a record and compose in the order the code calls them.  *)
(***************************************************************************)
EXTENDS Integers, Sequences, FiniteSets

FSE == INSTANCE FiniteSetsExt

CONSTANTS
  Paths,       \* the paths of the workspace files
  Models,      \* Monaco models; a tab that is opened gets a new one
  Kinds,       \* request kinds that return a promise; "hover" joins equal requests
  Positions,   \* cursor positions a hover tells apart
  Results,     \* outcomes of an analysis: a subset of {"ok", "failed"}
  Ops,         \* what may happen besides opening, editing and closing tabs
  MaxEdits,    \* bound: edits, of all models together
  MaxCalls,    \* bound: promises handed out
  MaxWorkers,  \* bound: workers ever created
  MaxSwitches, \* bound: switches between open tabs
  None         \* no value

ASSUME SessionAssumption ==
  /\ {MaxCalls, MaxWorkers} \subseteq Nat \ {0} /\ {MaxEdits, MaxSwitches} \subseteq Nat
  /\ "diagnostics" \notin Kinds
  /\ IsFiniteSet(Paths) /\ IsFiniteSet(Kinds) /\ Paths \cap {"unborn", "closed"} = {}
  /\ Results \subseteq {"ok", "failed"}
  /\ Ops \subseteq {"silent", "switch", "delete", "rename", "crash"}

VARIABLES
  main,     \* the main thread: editor tabs, client maps, and what it posted
  mirror,   \* per worker: documentStore's open documents
  flags,    \* per worker: the backend's cancelledRequests
  outbox,   \* per worker: messages the main thread has not handled yet
  health    \* per worker: "up" (also before it is created), "dead", "reported"

vars == <<main, mirror, flags, outbox, health>>

Calls == 1 .. MaxCalls
Workers == 1 .. MaxWorkers
Versions == 1 .. MaxEdits + 1
Tracked == Kinds \cup {"diagnostics"}
Docs == [model : Models, version : Versions]

ASSUME NoneAssumption ==
  /\ None \notin Models \cup Docs \cup [model : Models, worker : Workers]
  /\ None \notin [version : Versions, pending : [Tracked -> Nat]]

\* A promise: its state, and the document its result was computed from.
Unasked == [state |-> "unasked", doc |-> None]
Waiting == [state |-> "waiting", doc |-> None]
Empty == [state |-> "empty", doc |-> None]
Result(d) == [state |-> "result", doc |-> d]

(***************************************************************************)
(* Main thread: channels and worker lifetime                               *)
(***************************************************************************)
Post(s, w, msg) == [s EXCEPT !.inbox[w] = Append(@, msg)]

Doc(s, m) == [model |-> m, version |-> s.version[m]]

syncModelToWorker(s, w, p) ==
  LET d == Doc(s, s.registered[p])
  IN [Post(s, w, [type |-> "open", path |-> p, doc |-> d])
        EXCEPT !.lastSent[p] = d.version]

\* Mutant: a new worker is not told of the registered models.
createWorker_empty(s) == [s EXCEPT !.born = s.born + 1, !.worker = s.born + 1]

\* Every registered model is opened in the new worker.
createWorker(s) ==
  LET w == s.born + 1
      open(p, t) == syncModelToWorker(t, w, p)
  IN FSE!FoldSet(open, [s EXCEPT !.born = w, !.worker = w],
                 {p \in Paths : s.registered[p] # None})

getWorker(s) == IF s.worker # 0 THEN s ELSE createWorker(s)

(***************************************************************************)
(* Main thread: pending requests and their promises                        *)
(***************************************************************************)
cancelPendingRequest(s, k, p, w) ==
  IF s.pending[k][p] = 0 THEN s
  ELSE [Post(s, w, [type |-> "cancel", id |-> s.pending[k][p]]) EXCEPT !.pending[k][p] = 0]

startTrackedRequest(s, k, p, w, v) ==
  LET t == cancelPendingRequest(s, k, p, w)
  IN [Post(t, w, [type |-> "request", kind |-> k, id |-> t.nextRequestId, path |-> p, version |-> v])
        EXCEPT !.nextRequestId = @ + 1, !.pending[k][p] = t.nextRequestId]

\* Mutant: a request that is pending is not repeated.
requestDiagnostics_onlyIfIdle(s, p, v) ==
  IF s.pending["diagnostics"][p] # 0 THEN s
  ELSE LET t == getWorker(s) IN startTrackedRequest(t, "diagnostics", p, t.worker, v)

requestDiagnostics(s, p, v) ==
  LET t == getWorker(s) IN startTrackedRequest(t, "diagnostics", p, t.worker, v)

\* Mutant: the resolver is called and kept.
Resolve_keepsResolver(s, k, p, result) ==
  [s EXCEPT !.answer = [n \in Calls |-> IF n \in s.resolver[k][p] THEN result ELSE @[n]],
            !.retry[k][p] = None]

\* The resolver is called and forgotten, with the retry closure and the hover key.
Resolve(s, k, p, result) ==
  [s EXCEPT !.answer = [n \in Calls |-> IF n \in s.resolver[k][p] THEN result ELSE @[n]],
            !.resolver[k][p] = {},
            !.retry[k][p] = None,
            !.hoverKey[p] = IF k = "hover" THEN None ELSE @]

clearPending(s, k, p, result) == [Resolve(s, k, p, result) EXCEPT !.pending[k][p] = 0]

\* Mutant: a replaced request drops its promise.
cancelPending_dropsPromise(s, k, p) ==
  cancelPendingRequest([s EXCEPT !.resolver[k][p] = {}, !.retry[k][p] = None], k, p, s.worker)

cancelPending(s, k, p) == cancelPendingRequest(Resolve(s, k, p, Empty), k, p, s.worker)

\* The closure captured the model and the worker of the call.
Retry(s, k, p) ==
  IF s.retry[k][p] = None THEN s
  ELSE startTrackedRequest(s, k, p, s.retry[k][p].worker, s.version[s.retry[k][p].model])

ResyncFingerprint(s, p) == [version |-> s.version[s.registered[p]],
                            pending |-> [k \in Tracked |-> s.pending[k][p]]]

(***************************************************************************)
(* Main thread: the public operations                                      *)
(***************************************************************************)
registerModel(s, p, m) ==
  LET t == [s EXCEPT !.registered[p] = m, !.fingerprint[p] = None]
  IN IF t.worker # 0 THEN syncModelToWorker(t, t.worker, p) ELSE createWorker(t)

updateDocument(s, p, v) ==
  LET t == getWorker(s)
      previous == IF t.lastSent[p] # 0 THEN t.lastSent[p] ELSE v - 1
      msg == [type |-> "update", path |-> p, previous |-> previous,
              doc |-> [model |-> t.registered[p], version |-> v]]
  IN [Post(t, t.worker, msg) EXCEPT !.fingerprint[p] = None, !.lastSent[p] = v, !.timer[p] = v]

syncActiveEditorToLsp(s, m) ==
  LET p == s.tab[m] IN updateDocument(registerModel(s, p, m), p, s.version[m])

\* Mutant: closing forgets the model, and tells the worker nothing.
unregisterModel_silent(s, p) ==
  LET cancel(k, u) == cancelPending(u, k, p)
      t == getWorker([s EXCEPT !.registered[p] = None, !.fingerprint[p] = None, !.lastSent[p] = 0])
  IN [FSE!FoldSet(cancel, cancelPendingRequest(t, "diagnostics", p, t.worker), Kinds)
        EXCEPT !.timer[p] = 0]

unregisterModel(s, p) ==
  LET m == s.registered[p]
      forgotten == [s EXCEPT !.registered[p] = None, !.fingerprint[p] = None, !.lastSent[p] = 0,
                             !.markers = IF m = None THEN @ ELSE [@ EXCEPT ![m] = None]]
      closed == IF s.worker = 0 THEN forgotten
                ELSE Post(forgotten, s.worker, [type |-> "close", path |-> p])
      t == getWorker(closed)
      cancel(k, u) == cancelPending(u, k, p)
  IN [FSE!FoldSet(cancel, cancelPendingRequest(t, "diagnostics", p, t.worker), Kinds)
        EXCEPT !.timer[p] = 0]

\* requestHoverType joins a pending request with the same key; every other call
\* takes the place of the pending one.
NewRequest(s, k, p, m, n, key) ==
  LET t == cancelPending(s, k, p)
      asked == [t EXCEPT !.resolver[k][p] = {n},
                         !.retry[k][p] = [model |-> m, worker |-> t.worker],
                         !.hoverKey[p] = IF k = "hover" THEN key ELSE @]
  IN Retry(asked, k, p)

Request(s, k, p, m, n, key) ==
  LET t == getWorker([s EXCEPT !.answer[n] = Waiting])
  IN IF k = "hover" /\ t.hoverKey[p] = key /\ t.resolver[k][p] # {}
     THEN [t EXCEPT !.resolver[k][p] = @ \cup {n}]
     ELSE NewRequest(t, k, p, m, n, key)

(***************************************************************************)
(* Main thread: messages and errors from the worker                        *)
(***************************************************************************)
\* Mutant: markers are set whatever request the answer belongs to.
OnDiagnostics_anyRequest(s, msg) ==
  LET m == s.registered[msg.path]
      done == [s EXCEPT !.pending["diagnostics"][msg.path] = 0, !.fingerprint[msg.path] = None]
  IN IF msg.result = None THEN (IF m = None THEN done ELSE [done EXCEPT !.markers[m] = None])
     ELSE IF m = None \/ msg.version < s.version[m] THEN s
     ELSE [done EXCEPT !.markers[m] = msg.result]

\* An older answer resolves a promise with nothing, and leaves diagnostics pending.
OnDiagnostics(s, msg) ==
  LET m == s.registered[msg.path]
      done == [s EXCEPT !.pending["diagnostics"][msg.path] = 0, !.fingerprint[msg.path] = None]
  IN IF s.pending["diagnostics"][msg.path] # msg.id THEN s
     ELSE IF msg.result = None THEN (IF m = None THEN done ELSE [done EXCEPT !.markers[m] = None])
     ELSE IF m = None \/ msg.version < s.version[m] THEN s
     ELSE [done EXCEPT !.markers[m] = msg.result]

\* Mutant: an answer for an older version is used.
OnAnswer_anyVersion(s, msg) ==
  IF s.pending[msg.kind][msg.path] # msg.id THEN s
  ELSE clearPending(s, msg.kind, msg.path, IF msg.result = None THEN Empty ELSE Result(msg.result))

OnAnswer(s, msg) ==
  LET m == s.registered[msg.path]
      stale == m = None \/ msg.version < s.version[m]
      result == IF msg.result = None \/ stale THEN Empty ELSE Result(msg.result)
  IN IF s.pending[msg.kind][msg.path] # msg.id THEN s
     ELSE clearPending(s, msg.kind, msg.path, result)

\* Mutant: a resync opens the document again, and repeats the diagnostics only.
OnResync_noRetry(s, p) ==
  LET m == s.registered[p]
      opened == syncModelToWorker(s, s.worker, p)
      asked == IF s.pending["diagnostics"][p] = 0 THEN opened
               ELSE requestDiagnostics(opened, p, s.version[m])
  IN IF m = None \/ s.worker = 0 \/ s.fingerprint[p] = ResyncFingerprint(s, p) THEN s
     ELSE [asked EXCEPT !.fingerprint[p] = ResyncFingerprint(asked, p)]

\* Repeats of a resync already handled in the same state are dropped.
OnResync(s, p) ==
  LET m == s.registered[p]
      opened == syncModelToWorker(s, s.worker, p)
      asked == IF s.pending["diagnostics"][p] = 0 THEN opened
               ELSE requestDiagnostics(opened, p, s.version[m])
      again(k, t) == Retry(t, k, p)
      retried == FSE!FoldSet(again, asked, Kinds)
  IN IF m = None \/ s.worker = 0 \/ s.fingerprint[p] = ResyncFingerprint(s, p) THEN s
     ELSE [retried EXCEPT !.fingerprint[p] = ResyncFingerprint(retried, p)]

handleWorkerMessage(s, msg) ==
  CASE msg.type = "resync" -> OnResync(s, msg.path)
    [] msg.type = "answer" /\ msg.kind = "diagnostics" -> OnDiagnostics(s, msg)
    [] msg.type = "answer" /\ msg.kind # "diagnostics" -> OnAnswer(s, msg)

\* Mutant: the resolvers of the dead worker's requests are dropped uncalled.
handleWorkerError_dropsPromises(s) ==
  [s EXCEPT !.resolver = [k \in Kinds |-> [p \in Paths |-> {}]],
            !.retry = [k \in Kinds |-> [p \in Paths |-> None]],
            !.pending = [k \in Tracked |-> IF k = "diagnostics" THEN @[k] ELSE [p \in Paths |-> 0]],
            !.hoverKey = [p \in Paths |-> None],
            !.fingerprint = [p \in Paths |-> None],
            !.worker = 0]

\* Every promise is resolved; pending diagnostics and last sent versions stay.
handleWorkerError(s) ==
  [s EXCEPT !.answer = [n \in Calls |-> IF \E k \in Kinds, p \in Paths : n \in s.resolver[k][p]
                                        THEN Empty ELSE @[n]],
            !.resolver = [k \in Kinds |-> [p \in Paths |-> {}]],
            !.retry = [k \in Kinds |-> [p \in Paths |-> None]],
            !.pending = [k \in Tracked |-> IF k = "diagnostics" THEN @[k] ELSE [p \in Paths |-> 0]],
            !.hoverKey = [p \in Paths |-> None],
            !.fingerprint = [p \in Paths |-> None],
            !.worker = 0]

(***************************************************************************)
(* The worker: one message from its inbox                                  *)
(***************************************************************************)
Resync(p) == <<[type |-> "resync", path |-> p]>>

\* documentStore.open and .update; a document the store has is at mirror[w][p].
StoreOpen(docs, p, d) ==
  IF docs[p] # None /\ docs[p].version > d.version THEN docs ELSE [docs EXCEPT ![p] = d]

StoreRejects(docs, p, previous) == docs[p] = None \/ docs[p].version # previous

StoreUpdate(docs, p, d, previous) ==
  IF StoreRejects(docs, p, previous) \/ d.version < docs[p].version THEN docs
  ELSE [docs EXCEPT ![p] = d]

isCancelled(w, msg) == msg.id \in flags[w]

Missing(w, msg) == mirror[w][msg.path] = None \/ mirror[w][msg.path].version # msg.version

\* An analysis succeeds, on the mirrored text, or fails.
Answers(w, msg) ==
  {<<[type |-> "answer", kind |-> msg.kind, id |-> msg.id, path |-> msg.path, version |-> msg.version,
      result |-> IF r = "ok" THEN mirror[w][msg.path] ELSE None]>> : r \in Results}

\* What the worker posts for a request: nothing if it was cancelled, a resync if the
\* mirror does not have that version, else an answer.  Only the order differs.
DiagnosticsReplies(w, msg) ==
  IF Missing(w, msg) THEN {Resync(msg.path)}
  ELSE IF isCancelled(w, msg) THEN {<<>>} ELSE Answers(w, msg)

PromiseReplies(w, msg) ==
  IF isCancelled(w, msg) THEN {<<>>}
  ELSE IF Missing(w, msg) THEN {Resync(msg.path)} ELSE Answers(w, msg)

WorkerOpens(w, msg) ==
  /\ msg.type = "open"
  /\ mirror' = [mirror EXCEPT ![w] = StoreOpen(@, msg.path, msg.doc)]
  /\ UNCHANGED <<flags, outbox>>

WorkerUpdates(w, msg) ==
  /\ msg.type = "update"
  /\ mirror' = [mirror EXCEPT ![w] = StoreUpdate(@, msg.path, msg.doc, msg.previous)]
  /\ outbox' = IF StoreRejects(mirror[w], msg.path, msg.previous)
               THEN [outbox EXCEPT ![w] = @ \o Resync(msg.path)] ELSE outbox
  /\ UNCHANGED flags

WorkerCloses(w, msg) ==
  /\ msg.type = "close"
  /\ mirror' = [mirror EXCEPT ![w] = [@ EXCEPT ![msg.path] = None]]
  /\ UNCHANGED <<flags, outbox>>

WorkerCancels(w, msg) ==
  /\ msg.type = "cancel"
  /\ flags' = [flags EXCEPT ![w] = @ \cup {msg.id}]
  /\ UNCHANGED <<mirror, outbox>>

\* The flag is cleared whatever the outcome, except by a resync.
WorkerAnswers(w, msg) ==
  /\ msg.type = "request"
  /\ \E reply \in IF msg.kind = "diagnostics" THEN DiagnosticsReplies(w, msg)
                  ELSE PromiseReplies(w, msg) :
       /\ outbox' = [outbox EXCEPT ![w] = @ \o reply]
       /\ flags' = IF reply = Resync(msg.path) THEN flags ELSE [flags EXCEPT ![w] = @ \ {msg.id}]
  /\ UNCHANGED mirror

(***************************************************************************)
(* Actions                                                                 *)
(***************************************************************************)
Init ==
  /\ main = [tab |-> [m \in Models |-> "unborn"], version |-> [m \in Models |-> 1], active |-> None, switches |-> 0, edits |-> 0,
             worker |-> 1, born |-> 1, nextRequestId |-> 1,
             registered |-> [p \in Paths |-> None],
             lastSent |-> [p \in Paths |-> 0],
             timer |-> [p \in Paths |-> 0],
             fingerprint |-> [p \in Paths |-> None],
             pending |-> [k \in Tracked |-> [p \in Paths |-> 0]],
             resolver |-> [k \in Kinds |-> [p \in Paths |-> {}]],
             retry |-> [k \in Kinds |-> [p \in Paths |-> None]],
             hoverKey |-> [p \in Paths |-> None],
             answer |-> [n \in Calls |-> Unasked],
             markers |-> [m \in Models |-> None],
             inbox |-> [w \in Workers |-> <<>>]]
  /\ mirror = [w \in Workers |-> [p \in Paths |-> None]]
  /\ flags = [w \in Workers |-> {}]
  /\ outbox = [w \in Workers |-> <<>>]
  /\ health = [w \in Workers |-> "up"]

IsOpen(s, m) == s.tab[m] \in Paths

WorkersUnchanged == UNCHANGED <<mirror, flags, outbox, health>>

\* openOrFocusFile: a tab with a new model, which becomes the active one.
OpenTab(m, p) ==
  /\ main.tab[m] = "unborn" /\ \A o \in Models : main.tab[o] # p
  /\ main' = syncActiveEditorToLsp([main EXCEPT !.tab[m] = p, !.active = m], m)
  /\ WorkersUnchanged

SwitchTab(m) ==
  /\ "switch" \in Ops /\ IsOpen(main, m) /\ main.active # m
  /\ main.switches < MaxSwitches
  /\ main' = syncActiveEditorToLsp([main EXCEPT !.active = m, !.switches = @ + 1], m)
  /\ WorkersUnchanged

Edit ==
  /\ main.active # None /\ main.edits < MaxEdits
  /\ main' = syncActiveEditorToLsp([main EXCEPT !.version[main.active] = @ + 1, !.edits = @ + 1], main.active)
  /\ WorkersUnchanged

\* A program's setEditorContent, and what a run restores: onChange is suppressed.
SilentEdit ==
  /\ "silent" \in Ops /\ main.active # None /\ main.edits < MaxEdits
  /\ main' = [main EXCEPT !.version[main.active] = @ + 1, !.edits = @ + 1]
  /\ WorkersUnchanged

\* The tab goes; if it was active a neighbour becomes active, and is synced.
Leave(s, m) ==
  LET t == [s EXCEPT !.tab[m] = "closed"]
      others == {o \in Models : IsOpen(t, o)}
  IN IF s.active # m THEN {t}
     ELSE IF others = {} THEN {[t EXCEPT !.active = None]}
     ELSE {syncActiveEditorToLsp([t EXCEPT !.active = o], o) : o \in others}

closeTab(m) ==
  /\ IsOpen(main, m)
  /\ main' \in Leave(unregisterModel(main, main.tab[m]), m)
  /\ WorkersUnchanged

\* closeTab looks the path up among the files, and this one's is gone already.
deleteWorkspaceFile(m) ==
  /\ "delete" \in Ops /\ IsOpen(main, m)
  /\ main' \in Leave(main, m)
  /\ WorkersUnchanged

renameWorkspaceFile(m, p) ==
  /\ "rename" \in Ops /\ IsOpen(main, m) /\ \A o \in Models : main.tab[o] # p
  /\ main' = [main EXCEPT !.tab[m] = p]
  /\ WorkersUnchanged

\* The editor asks for the active model, at the first path that has it.
Ask(k, n, pos) ==
  /\ main.active # None
  /\ main.answer[n] = Unasked /\ \A o \in Calls : o < n => main.answer[o] # Unasked
  /\ \E p \in Paths :
       /\ main.registered[p] = main.active
       /\ main' = Request(main, k, p, main.active, n, <<main.version[main.active], pos>>)
  /\ WorkersUnchanged

\* The debounce of updateDocument has elapsed.
TimerFires(p) ==
  /\ main.timer[p] # 0
  /\ main' = requestDiagnostics([main EXCEPT !.timer[p] = 0], p, main.timer[p])
  /\ WorkersUnchanged

Receive(w) ==
  /\ outbox[w] # <<>>
  /\ main' = handleWorkerMessage(main, Head(outbox[w]))
  /\ outbox' = [outbox EXCEPT ![w] = Tail(@)]
  /\ UNCHANGED <<mirror, flags, health>>

WorkerStep(w) ==
  /\ health[w] = "up" /\ main.inbox[w] # <<>>
  /\ LET msg == Head(main.inbox[w])
     IN \/ WorkerOpens(w, msg) \/ WorkerUpdates(w, msg) \/ WorkerCloses(w, msg)
        \/ WorkerCancels(w, msg) \/ WorkerAnswers(w, msg)
  /\ main' = [main EXCEPT !.inbox[w] = Tail(@)]
  /\ UNCHANGED health

\* The worker dies with what is in its inbox; the error event comes later.
WorkerDies(w) ==
  /\ "crash" \in Ops /\ health[w] = "up" /\ w = main.worker /\ main.born < MaxWorkers
  /\ health' = [health EXCEPT ![w] = "dead"]
  /\ UNCHANGED <<main, mirror, flags, outbox>>

OnError(w) ==
  /\ health[w] = "dead"
  /\ main' = handleWorkerError(main)
  /\ health' = [health EXCEPT ![w] = "reported"]
  /\ UNCHANGED <<mirror, flags, outbox>>

User ==
  \/ Edit
  \/ SilentEdit
  \/ \E m \in Models : \/ SwitchTab(m)
                       \/ closeTab(m)
                       \/ deleteWorkspaceFile(m)
                       \/ \E p \in Paths : OpenTab(m, p) \/ renameWorkspaceFile(m, p)
  \/ \E k \in Kinds, n \in Calls, pos \in Positions : Ask(k, n, pos)

Next ==
  \/ User
  \/ \E p \in Paths : TimerFires(p)
  \/ \E w \in Workers : Receive(w) \/ WorkerStep(w) \/ WorkerDies(w) \/ OnError(w)

Spec == Init /\ [][Next]_vars

\* Timers fire, messages are delivered and handled, a dead worker is reported.
FairSpec ==
  /\ Spec
  /\ \A p \in Paths : WF_vars(TimerFires(p))
  /\ \A w \in Workers : WF_vars(Receive(w)) /\ WF_vars(WorkerStep(w)) /\ WF_vars(OnError(w))

(***************************************************************************)
(* Properties                                                              *)
(***************************************************************************)
\* The shape of the session's state: channels carry the protocol's messages, a
\* request id is pending at most once, and only waiting promises have a resolver.
TypeOK ==
  /\ main.worker \in 0 .. main.born /\ main.born \in Workers
  /\ main.registered \in [Paths -> Models \cup {None}]
  /\ main.lastSent \in [Paths -> Versions \cup {0}] /\ main.timer \in [Paths -> Versions \cup {0}]
  /\ main.pending \in [Tracked -> [Paths -> 0 .. main.nextRequestId - 1]]
  /\ \A k \in Kinds, p \in Paths : \A n \in main.resolver[k][p] : main.answer[n] = Waiting
  /\ mirror \in [Workers -> [Paths -> Docs \cup {None}]]
  /\ flags \in [Workers -> SUBSET (1 .. main.nextRequestId)]
  /\ health \in [Workers -> {"up", "dead", "reported"}]

IsCurrent(s, d) == d.version = s.version[d.model] /\ \E p \in Paths : s.registered[p] = d.model

\* A promise is only ever given a result computed from the text the editor shows when
\* the promise settles, whatever was edited, closed, reopened or restarted since the
\* request (lsWorkerClient.ts: the version checks of handleWorkerMessage).
AnswersAreCurrent ==
  [][\A n \in Calls : main'.answer[n].state = "result" /\ main'.answer[n] # main.answer[n]
        => IsCurrent(main', main'.answer[n].doc)]_vars

\* Markers put on a model were computed from that model's own present text.
MarkersAreCurrent ==
  [][\A m \in Models : main'.markers[m] # None /\ main'.markers[m] # main.markers[m]
        => main'.markers[m] = Doc(main', m)]_vars

\* A pending promise belongs to exactly one request, and that request is still in
\* flight: in the worker's inbox, as an answer on the way back, or as a resync that
\* will not be taken for a repeat.  (Losing one is a promise the editor awaits forever.)
RequestInFlight(k, p) ==
  \E w \in Workers :
    \/ /\ w = main.worker
       /\ \/ \E i \in DOMAIN main.inbox[w] :
               main.inbox[w][i].type = "request" /\ main.inbox[w][i].id = main.pending[k][p]
          \/ /\ main.fingerprint[p] # ResyncFingerprint(main, p)
             /\ \E i \in DOMAIN outbox[w] : outbox[w][i] = [type |-> "resync", path |-> p]
    \/ \E i \in DOMAIN outbox[w] :
         outbox[w][i].type = "answer" /\ outbox[w][i].id = main.pending[k][p]

PromisesInFlight ==
  \A k \in Kinds, p \in Paths : main.resolver[k][p] # {} => RequestInFlight(k, p)

\* Once the live worker has handled what was posted, its mirror is what the main
\* thread believes: each registered model at the version last sent, and nothing else.
MirrorFollowsClient ==
  \A w \in Workers : w = main.worker /\ health[w] = "up" /\ main.inbox[w] = <<>> =>
    \A p \in Paths :
      mirror[w][p] = IF main.registered[p] = None THEN None
                     ELSE [model |-> main.registered[p], version |-> main.lastSent[p]]

\* Every promise settles, also when the worker dies: a request is answered, replaced,
\* retried after a resync, or resolved with nothing.
PromisesSettle ==
  \A n \in Calls : main.answer[n] = Waiting ~> main.answer[n] # Waiting

\* When the editing stops, the markers of every registered model come to be those of
\* the text it shows (for "Ops" without "silent" and "crash", and analyses that succeed).
DiagnosticsConverge ==
  <>[](\A p \in Paths : main.registered[p] # None
         => main.markers[main.registered[p]] = Doc(main, main.registered[p]))
====
