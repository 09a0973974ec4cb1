--------------------------- MODULE MCJobExecution ---------------------------
(* JobExecution on small instances. *)
EXTENDS JobExecution, TLC

\* Two steps and a post step, of every kind between them.
MCPlain == 1 :> "run" @@ 2 :> "eval" @@ 3 :> "dispatch"
MCCalling == 1 :> "dispatch" @@ 2 :> "call" @@ 3 :> "run"
MCWorkflows == {MCPlain, MCCalling}
\* A call has the longer history: one fault less.
MCFaults == MCPlain :> 2 @@ MCCalling :> 1
\* Both executions in one process of a runner.
MCProcess == [e \in 1..2 |-> 1]
=============================================================================
