------------------------------- MODULE Layout -------------------------------
(* What printing and finalisation know of a section besides its keywords:  *)
(* the array of items, in the order sorting has given it.                  *)
EXTENDS SectionParser

CONSTANT
  ItemOrder  \* the keywords of each section in the order of its item array

Listed(s) == {ItemOrder[s][i] : i \in DOMAIN ItemOrder[s]}

ASSUME LayoutAssumption ==
  /\ ItemOrder \in [Section -> Seq(Kw)]
  /\ \A s \in Section :
       /\ Listed(s) = DOMAIN Schema[s]
       /\ Len(ItemOrder[s]) = Cardinality(DOMAIN Schema[s])
=============================================================================
