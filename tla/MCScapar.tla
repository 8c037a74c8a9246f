------------------------------ MODULE MCScapar ------------------------------
(* Scapar with the schemas of Schemas. *)
EXTENDS Scapar, Schemas

MixBase ==
  [s \in MixSection |->
     CASE s = "top" -> <<>> [] s = "sub" -> <<<<"s", 0>>>> [] OTHER -> Wild]
=============================================================================
