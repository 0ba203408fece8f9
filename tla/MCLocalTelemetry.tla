-------------------------- MODULE MCLocalTelemetry --------------------------
(* Three inferences and a scrape at once. *)
EXTENDS LocalTelemetry

=============================================================================
