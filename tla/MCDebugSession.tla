---- MODULE MCDebugSession ----
(* Programs for DebugSession: calls into a library, multi-line expressions, *)
(* synthetic nodes, and a function that calls another one.                  *)
EXTENDS DebugSession

V(id, file, line, end, depth) == [id |-> id, file |-> file, line |-> line, end |-> end, depth |-> depth]

\* The library's top level, the entry file, a call over two lines into the library
\* (twice, so one node is visited again), and a synthetic node of the bundler.
Calls == <<V(1, "lib", 10, 10, 0), V(2, None, 0, 0, 0), V(3, Entry, 1, 1, 0),
           V(4, Entry, 2, 3, 0), V(5, Entry, 3, 3, 0), V(6, "lib", 11, 12, 1),
           V(7, "lib", 12, 12, 1), V(5, Entry, 3, 3, 0), V(6, "lib", 11, 12, 1),
           V(7, "lib", 12, 12, 1), V(8, Entry, 4, 4, 0)>>

\* Nested calls with synthetic nodes between the levels, a caller on lines with the
\* same numbers as the library's, then the library inlined at
\* the depth of the caller.
Nested == <<V(1, Entry, 1, 1, 0), V(2, Entry, 5, 5, 1), V(3, "lib", 10, 10, 2),
            V(4, None, 0, 0, 2), V(5, "lib", 11, 11, 2), V(6, None, 0, 0, 1),
            V(7, Entry, 11, 11, 1), V(3, "lib", 10, 10, 2), V(8, "lib", 12, 12, 0),
            V(9, Entry, 2, 2, 0)>>

Free(visits) == [i \in {visits[j].id : j \in DOMAIN visits} |-> "none"]

MCLaunches ==
  {[code |-> Calls, stopOnEntry |-> TRUE, breakpoints |-> Free(Calls)],
   [code |-> Calls, stopOnEntry |-> FALSE, breakpoints |-> [Free(Calls) EXCEPT ![1] = "always", ![7] = "condition"]],
   [code |-> Nested, stopOnEntry |-> TRUE, breakpoints |-> Free(Nested)],
   [code |-> Nested, stopOnEntry |-> FALSE, breakpoints |-> [Free(Nested) EXCEPT ![3] = "condition"]]}
====
