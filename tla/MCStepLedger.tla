---------------------------- MODULE MCStepLedger ----------------------------
(* A small plan over one shop: it orders and ships, the shipment is blocked *)
(* while the order waits, and the second revision orders again.             *)
EXTENDS StepLedger

CONSTANT Plan \* the steps of the instance
ASSUME Plan = Steps

MCRevisionOf == [s \in Plan |-> IF s = "reorder" THEN 2 ELSE 1]

MCDependsOn == [s \in Plan |-> IF s = "ship" THEN {"order"} ELSE {}]

MCEffectOf == [s \in Plan |-> "write"]

MCSystemsOf == [s \in Plan |-> {"shop"}]

MCCovers == [s \in Plan |->
  Obligations \cap IF s \in {"order", "reorder"} THEN {"ordered"} ELSE {}]

MCAgentOf == [c \in Claims |-> IF c = "a:1" THEN "a" ELSE "b"]
=============================================================================
