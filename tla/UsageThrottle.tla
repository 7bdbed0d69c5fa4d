--------------------------- MODULE UsageThrottle ---------------------------
(***************************************************************************)
(* When the analysis lane stops spending the Claude subscription: the pure *)
(* decisions of app/pipeline/usage_throttle.py on the usage a successful   *)
(* call reports, and of app/analysis/llm.py and analysis_stage.py on a     *)
(* call the limit stopped.  Utilization is a whole number of percents.     *)
(***************************************************************************)
EXTENDS Integers, LaneStore

CONSTANTS
  Max5h,     \* analysis_max_5h_utilization
  Max7d,     \* analysis_max_7d_utilization
  Fallback   \* LIMIT_FALLBACK

ASSUME ThrottleAssumption ==
  /\ Max5h \in Nat
  /\ Max7d \in Nat
  /\ Fallback \in Nat \ {0}

\* UsageWindow; NoWindow is None.
Window == [utilization : Nat, resetsAt : Nat]
NoWindow == [utilization |-> 0, resetsAt |-> NoTime]

\* UsageSnapshot; NoUsage, with nothing in it, also stands for usage=None.
Usage == [fiveHour : Window \cup {NoWindow},
          sevenDay : Window \cup {NoWindow},
          resetsAt : Nat \cup {NoTime}]
NoUsage == [fiveHour |-> NoWindow, sevenDay |-> NoWindow, resetsAt |-> NoTime]

\* _tripped: a window whose reset has passed is stale (so is NoWindow).
Tripped(window, limit, now) ==
  window.resetsAt > now /\ window.utilization >= limit

\* Mutant: when both windows trip, the earlier reset is taken.
ThrottleUntilEarlier(usage, now) ==
  LET five == Tripped(usage.fiveHour, Max5h, now)
      seven == Tripped(usage.sevenDay, Max7d, now)
  IN IF five /\ seven /\ usage.sevenDay.resetsAt < usage.fiveHour.resetsAt
     THEN usage.sevenDay.resetsAt
     ELSE IF five THEN usage.fiveHour.resetsAt
     ELSE IF seven THEN usage.sevenDay.resetsAt
     ELSE NoTime

\* throttle_until: the later reset of the windows that trip, or NoTime.
ThrottleUntil(usage, now) ==
  LET five == Tripped(usage.fiveHour, Max5h, now)
      seven == Tripped(usage.sevenDay, Max7d, now)
  IN IF five /\ seven THEN Later(usage.fiveHour.resetsAt, usage.sevenDay.resetsAt)
     ELSE IF five THEN usage.fiveHour.resetsAt
     ELSE IF seven THEN usage.sevenDay.resetsAt
     ELSE NoTime

\* _limit_reset, and the fallback of AnalysisStage.process when it names no time.
LimitReset(usage) ==
  IF usage.resetsAt # NoTime THEN usage.resetsAt
  ELSE Later(usage.fiveHour.resetsAt, usage.sevenDay.resetsAt)

LimitUntil(usage, now) ==
  IF LimitReset(usage) # NoTime THEN LimitReset(usage) ELSE now + Fallback
=============================================================================
