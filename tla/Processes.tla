------------------------------- MODULE Processes ------------------------------
(* The programs that start processes and watch what passes between them: the   *)
(* shell's pipelines, and trace.  A behaviour is one of them at work; the      *)
(* variables of the other keep an idle value.                                  *)
EXTENDS Pipeline, Trace

vars == <<pipelineVars, traceVars>>

PipelineIdle ==
  /\ phase = "exited" /\ job = 0 /\ forked = 0
  /\ cmd = [j \in Jobs |-> NoCommand]
  /\ held = [p \in Child \cup {Sh} |-> {}]
  /\ std = [p \in Child \cup {Sh} |-> Terminal]
  /\ life = [p \in Child |-> "none"]
  /\ char = [p \in Child |-> <<>>] /\ buffer = [p \in Child |-> <<>>]
  /\ unread = [j \in Jobs |-> Input] /\ typed = [j \in Jobs |-> <<>>]
  /\ written = [j \in Jobs |-> <<>>]

NothingAsked == [simple |-> FALSE, rebuild |-> FALSE, calls |-> <<>>, signals |-> 0]
TraceIdle ==
  /\ cache = NoFile
  /\ asked = [t \in Tracer |-> NothingAsked]
  /\ pc = [t \in Tracer |-> "end"]
  /\ sigs = [t \in Tracer |-> Empty] /\ pos = [t \in Tracer |-> 0]
  /\ part = [t \in Tracer |-> <<>>] /\ misread = [t \in Tracer |-> {}]
  /\ tracee = [t \in Tracer |-> "none"] /\ made = [t \in Tracer |-> 0]
  /\ signals = [t \in Tracer |-> 0]
  /\ exitNum = [t \in Tracer |-> 0] /\ printed = [t \in Tracer |-> <<>>]

Init == (PipelineInit /\ TraceIdle) \/ (TraceInit /\ PipelineIdle)

Next ==
  \/ PipelineNext /\ UNCHANGED traceVars
  \/ TraceNext /\ UNCHANGED pipelineVars

Spec == Init /\ [][Next]_vars /\ PipelineFair /\ TraceFair
===============================================================================
