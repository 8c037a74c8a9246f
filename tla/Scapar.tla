------------------------------- MODULE Scapar -------------------------------
(* A program that uses the library: it prints, parses, prints, parses on,  *)
(* and finalises, one call after the other.  Parser, printer and           *)
(* finalisation share the section descriptors and their parsed marks.      *)
EXTENDS Finalizer, Printer

svars == <<vars, finalizing, printer>>

Parsing    == phase = "program" /\ Idle /\ Next /\ UNCHANGED <<finalizing, printer>>
Printing   == phase = "program" /\ (PrBegin \/ PrStep) /\ UNCHANGED finalizing
Finalizing_ == Idle /\ (Finalize \/ FinalizeAgain \/ FinStep) /\ UNCHANGED printer
Stopped    == (~Alive \/ (phase # "program" /\ Over)) /\ UNCHANGED svars

ScInit ==
  /\ FinInit
  /\ base = Base0 /\ printing = <<>> /\ shown = {} /\ died = "no"
ScNext == Parsing \/ Printing \/ Finalizing_ \/ Stopped

ScSpec == ScInit /\ [][ScNext]_svars
(* Every call of the library runs to its end in the calling thread; the    *)
(* program need not make another one.                                      *)
FairScSpec ==
  /\ ScSpec
  /\ WF_svars(Parsing /\ Running)
  /\ WF_svars(Printing /\ printing # <<>>)
  /\ WF_svars(Finalizing_ /\ phase = "finalize")
-----------------------------------------------------------------------------
(* Every call of scapar_parse, of a printing function and of               *)
(* scapar_finalize returns, or the process has ended: no loop over lines,  *)
(* elements or the sections nested in them goes on for ever.               *)
CallsReturn == Terminates /\ PrintReturns /\ FinalizeReturns
=============================================================================
