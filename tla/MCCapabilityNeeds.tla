-------------------------- MODULE MCCapabilityNeeds --------------------------
(* Two agents that ask each other, one of them with two instances.         *)
EXTENDS CapabilityNeeds

MCRequester == [n \in Needs |-> IF n = "n2" THEN "p" ELSE "r"]
MCAble == [n \in Needs |-> IF n = "n2" THEN {"r"} ELSE {"p"}]
MCAgentOf == [c \in Claims |-> IF c \in {"p:1", "p:2"} THEN "p" ELSE "r"]
=============================================================================
