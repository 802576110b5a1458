-------------------------- MODULE MCReportPipeline --------------------------
(* Instances of ReportPipeline for TLC. *)
EXTENDS ReportPipeline

MCBatches == [id : 1..MaxId, bytes : 1..MaxBytes]
=============================================================================
