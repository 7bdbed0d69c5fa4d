------------------------------- MODULE MCJobs -------------------------------
(* Small instances of Jobs for TLC: four rows, then the table is full. *)
EXTENDS Jobs

MCJobIds == 1..4
=============================================================================
