----------------------------- MODULE ValueList -----------------------------
(***************************************************************************)
(* What a vector promises the program: a list of values of one kind, in    *)
(* the order in which they were added, read by position.  A call that asks *)
(* for what is not there ends the process; so may one that needs memory.   *)
(***************************************************************************)
EXTENDS Naturals, Sequences

CONSTANTS Kind, Value, NoKind

VARIABLES list, kind, got, outcome

lvars == <<list, kind, got, outcome>>

Make(t) == kind = NoKind /\ kind' = t /\ list' = <<>> /\ UNCHANGED got
Put(e)  == kind # NoKind /\ list' = Append(list, e) /\ UNCHANGED <<kind, got>>
Take(i) == got' = list[i] /\ UNCHANGED <<list, kind>>
Measure == got' = Len(list) /\ UNCHANGED <<list, kind>>
Clear   == kind' = NoKind /\ list' = <<>> /\ UNCHANGED got

Init == list = <<>> /\ kind = NoKind /\ got = 0 /\ outcome = "running"

(* Beyond the end, of another kind, or in no list at all *)
Ends(how) == outcome' = how /\ UNCHANGED <<list, kind, got>>
Step ==
  \/ \E t \in Kind : Make(t)
  \/ \E e \in Value : Put(e)
  \/ \E i \in DOMAIN list : Take(i)
  \/ Measure \/ Clear

Next ==
  /\ outcome = "running"
  /\ \/ Step /\ UNCHANGED outcome
     \/ Ends("illegal")
     \/ kind # NoKind /\ Ends("memory")

Spec == Init /\ [][Next]_lvars
=============================================================================
