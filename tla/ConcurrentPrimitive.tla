------------------------- MODULE ConcurrentPrimitive -------------------------
(***************************************************************************)
(* What parallel, race and settled promise their caller, without event     *)
(* loop, signals, snapshots' layout or waves: every branch comes to one    *)
(* outcome, the expression delivers at most once per run, only what its    *)
(* mode allows for those outcomes, and going back to a stored snapshot     *)
(* gives back exactly the outcomes that were stored.                       *)
(***************************************************************************)
EXTENDS Integers

CONSTANTS Branch, Modes

VARIABLES
  mode,    \* the expression
  fate,    \* what became of each branch: "open", "ok" or "failed"
  stored,  \* the fates in the snapshot the host holds
  result   \* what was delivered

vars == <<mode, fate, stored, result>>

Fate == {"open", "ok", "failed"}
NoTags == [b \in {} |-> "ok"]
NoResult == [type |-> "none", tags |-> NoTags]
AllOpen == [b \in Branch |-> "open"]

\* parallel: all values or an error; settled: one tagged entry per branch, never
\* an error; race: the value of one branch that succeeded, or an error if none did.
Promised ==
  CASE mode = "parallel" ->
         {[type |-> "error", tags |-> NoTags] : b \in {c \in Branch : fate[c] = "failed"}}
         \cup {r \in {[type |-> "value", tags |-> [b \in Branch |-> "ok"]]} :
                 \A b \in Branch : fate[b] = "ok"}
    [] mode = "settled" ->
         {r \in {[type |-> "value",
                  tags |-> [b \in Branch |-> IF fate[b] = "ok" THEN "ok" ELSE "error"]]} :
                 \A b \in Branch : fate[b] # "open"}
    [] mode = "race" ->
         {[type |-> "value", tags |-> [b \in {c} |-> "ok"]] :
                 c \in {d \in Branch : fate[d] = "ok"}}
         \cup {r \in {[type |-> "error", tags |-> NoTags]} :
                 \A b \in Branch : fate[b] = "failed"}

Init ==
  /\ mode \in Modes
  /\ fate = AllOpen
  /\ stored = AllOpen
  /\ result = NoResult

\* A branch comes to its outcome, once.
Decide(b) ==
  /\ result = NoResult
  /\ fate[b] = "open"
  /\ \E f \in {"ok", "failed"} : fate' = [fate EXCEPT ![b] = f]
  /\ UNCHANGED <<mode, stored, result>>

Deliver ==
  /\ result = NoResult
  /\ result' \in Promised
  /\ UNCHANGED <<mode, fate, stored>>

\* A snapshot may forget an outcome (the branch is run again) but never changes
\* one or makes one up.
Store ==
  /\ result = NoResult
  /\ stored' \in [Branch -> Fate]
  /\ \A b \in Branch : stored'[b] \in {"open", fate[b]}
  /\ UNCHANGED <<mode, fate, result>>

\* A handler may halt the program before the expression has delivered.
Halt ==
  /\ result = NoResult
  /\ result' = [type |-> "halted", tags |-> NoTags]
  /\ UNCHANGED <<mode, fate, stored>>

\* The host goes back to the snapshot it stored.
Rewind ==
  /\ fate' = stored
  /\ result' = NoResult
  /\ UNCHANGED <<mode, stored>>

Next == (\E b \in Branch : Decide(b)) \/ Deliver \/ Halt \/ Store \/ Rewind

Spec == Init /\ [][Next]_vars
=============================================================================
