----------------------------- MODULE MCPrinter ------------------------------
(* Printer with the schemas of Schemas. *)
EXTENDS Printer, Schemas

TreeBase ==
  [s \in TreeSection |->
     CASE s = "top" -> <<>> [] s = "sub" -> <<<<"s", 0>>>> [] OTHER -> Wild]
=============================================================================
