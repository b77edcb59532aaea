----------------------------- MODULE MCSchedules -----------------------------
(* A goal that is called for and the goals of one schedule.                *)
EXTENDS Schedules

CONSTANT Called

MCGoals == {Called} \cup Firings
MCGoalOf == [c \in Callers |-> Called]
MCNever == -1
=============================================================================
