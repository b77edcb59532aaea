---------------------------- MODULE MCStepWorkers ----------------------------
(* Small plans over one shop, worked off by agents with one or two members *)
(* each.  ship depends on order and respond reads both; reorder is a       *)
(* second revision.                                                        *)
EXTENDS StepWorkers

CONSTANT PlanSteps \* the steps of the instance
ASSUME PlanSteps = Steps

MCRevisionOf == [s \in PlanSteps |-> IF s = "reorder" THEN 2 ELSE 1]

MCDependsOn == [s \in PlanSteps |-> PlanSteps \cap
  CASE s = "ship" -> {"order"}
    [] s = "respond" -> {"order", "ship"}
    [] OTHER -> {}]

MCEffectOf == [s \in PlanSteps |->
  IF s = "respond" THEN "final_response" ELSE "write"]

MCSystemsOf == [s \in PlanSteps |->
  IF s = "respond" THEN {} ELSE {"shop"}]

MCCovers == [s \in PlanSteps |->
  Obligations \cap IF s \in {"order", "reorder"} THEN {"ordered"} ELSE {}]

(* A claim id names the member of an agent's pool.                         *)
MCAgentOf == [c \in Claims |-> IF c \in {"a:1", "a:2"} THEN "a" ELSE "b"]

MCMayRun == [a \in Agents |-> PlanSteps]

(* One agent orders, the other ships and answers.                          *)
MCTwoTrades == [a \in Agents |->
  IF a = "b" THEN PlanSteps \cap {"ship", "respond"}
  ELSE PlanSteps \ {"ship", "respond"}]

(* One agent only orders, the other does everything.                       *)
MCHelper == [a \in Agents |-> IF a = "a" THEN PlanSteps \cap {"order"} ELSE PlanSteps]
=============================================================================
