--------------------------- MODULE MCWorkflowEngine ---------------------------
(* The process fetches; another node looks something up in what it fetched  *)
(* while the process charts it; the report needs both.                      *)
EXTENDS WorkflowEngine

CONSTANT PlanSteps \* the steps of the instance
ASSUME PlanSteps = Steps

MCRevisionOf == [s \in PlanSteps |-> 1]
MCDependsOn == [s \in PlanSteps |-> PlanSteps \cap
  CASE s = "fetch" -> {}
    [] s \in {"lookup", "chart"} -> {"fetch"}
    [] s = "report" -> {"lookup", "chart"}]
MCEffectOf == [s \in PlanSteps |-> "read"]
MCNothing == [s \in PlanSteps |-> {}]
MCAgentOf == [c \in Claims |-> "a"]
=============================================================================
