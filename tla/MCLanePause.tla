---------------------------- MODULE MCLanePause ----------------------------
(* A small instance of LanePause for TLC: reports below, at and above the *)
(* thresholds, with resets early, late and in the past.                   *)
EXTENDS LanePause, TLC

At(u, t) == [utilization |-> u, resetsAt |-> t]
Report(five, seven, at) == [fiveHour |-> five, sevenDay |-> seven, resetsAt |-> at]

MCReports == {
  NoUsage,
  Report(At(70, 1), At(79, 3), NoTime),
  Report(At(90, 1), At(80, 2), NoTime),
  Report(At(69, 2), NoWindow, 0),
  Report(At(99, 3), At(95, 1), 1)}

Symmetry == Permutations(Slots)
=============================================================================
