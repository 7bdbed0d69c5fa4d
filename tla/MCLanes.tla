------------------------------ MODULE MCLanes ------------------------------
(* Small instances of Lanes for TLC. *)
EXTENDS Lanes, TLC

\* config.py: the transcript lane tolerates a streak (5 there, 2 here), the
\* analysis lane pauses on its first failure.
MCPauseAfter == [l \in Lane |-> IF l = "transcript" THEN 2 ELSE 1]

Pending == NewRow("pending")
Transcribed == [NewRow("transcribed") EXCEPT !.transcript = TRUE]
AnalysisFailed == [Transcribed EXCEPT !.status = "failed", !.error = "analysis"]

AnalysisSeeds == {Transcribed, AnalysisFailed}
PipelineSeeds == {Pending, Transcribed}
BothSeeds == {Pending, Transcribed, AnalysisFailed}

\* Video ids are interchangeable, and so are the slots of a lane.
Symmetry == Permutations(Videos) \cup Permutations(AnalysisSlots)
=============================================================================
