-------------------------- MODULE MCSectionParser ---------------------------
(* SectionParser with the schemas of Schemas. *)
EXTENDS SectionParser, Schemas
=============================================================================
