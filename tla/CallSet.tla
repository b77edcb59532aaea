------------------------------- MODULE CallSet -------------------------------
(* The model calls that the governor paces and the budgets pay for.        *)
EXTENDS Integers, FiniteSets

CONSTANT Calls

ASSUME CallsAssumption == IsFiniteSet(Calls)
=============================================================================
