----------------------------- MODULE MCModelCalls -----------------------------
EXTENDS ModelCalls

MCBulkCapacity == [n \in 1..Ceiling |-> IF n = 1 THEN 1 ELSE n - 1]
MCAmount == [c \in Calls |-> IF c \in BulkCalls THEN 2 ELSE 1]
MCUsage == [c \in Calls |-> {1}]
=============================================================================
