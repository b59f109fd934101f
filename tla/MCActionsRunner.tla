-------------------------- MODULE MCActionsRunner --------------------------
(***************************************************************************)
(* Small instances of ActionsRunner for TLC.                               *)
(***************************************************************************)
EXTENDS ActionsRunner, TLC

\* Wire objects are interchangeable, and so are goroutines.
Symmetry == Permutations(Wires) \cup Permutations(Listeners)

\* A Wire nothing refers to is initialised before it is used again, and only a registered
\* Wire is asked whether it is valid or listens, so states that differ in the fields of
\* other Wires alone are the same.
Live(field, v) == [w \in Wires |-> IF Garbage(w) THEN v ELSE field[w]]
Registered(field) == registry # None /\ field[registry]

View == <<adoVars, threadVars, process, queued, registry, objectVars, budgetVars,
          Registered(invalid), Registered(listening), Live(loopClose, "nil"),
          Live(jobRequests, 0), Live(taskAgentSession, None)>>

=============================================================================
