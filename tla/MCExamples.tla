----------------------------- MODULE MCExamples -----------------------------
(* The examples, with perf.c, vec-section.dat and user-mat.dat made small. *)
EXTENDS Examples
=============================================================================
