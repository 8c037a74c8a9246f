------------------------------- MODULE Vector -------------------------------
(***************************************************************************)
(* A vector as a program and the parser use it: initialised once, filled,  *)
(* read by the typed and the general getters, destroyed, initialised       *)
(* again.  The parser initialises a vector only when it has no magic       *)
(* number.                                                                 *)
(***************************************************************************)
EXTENDS VectorData, Sequences

VARIABLES
  vec,      \* the SCAPAR_VEC
  got,      \* what the last getter returned
  outcome   \* "running", or why the process ended

vecvars == <<vec, got, outcome>>

Running == outcome = "running"
Ends(how) == Running /\ outcome' = how /\ UNCHANGED <<vec, got>>

InitVec(t) ==
  /\ Running /\ ~vec.magic
  /\ vec' = VecInit(t)
  /\ UNCHANGED <<got, outcome>>

Add(e) ==
  /\ Running /\ vec.magic /\ CanAdd(vec)
  /\ vec' = VecAdd(vec, e)
  /\ UNCHANGED <<got, outcome>>

(* realloc may fail at any size. *)
AddWithoutMemory == vec.magic /\ Full(vec) /\ Ends("memory")
AddToNone        == ~vec.magic /\ Ends("illegal")

GetSize ==
  /\ Running
  /\ got' = IF vec.magic THEN vec.size ELSE 0
  /\ UNCHANGED <<vec, outcome>>

(* scapar_vec_<type>_get_value; scapar_vec_get_value for any type *)
Get(T, n) ==
  /\ Running /\ vec.magic /\ n < vec.size /\ vec.type \in T
  /\ got' = vec.cells[n]
  /\ UNCHANGED <<vec, outcome>>
GetNothing(T, n) ==
  /\ ~(vec.magic /\ n >= 0 /\ n < vec.size /\ vec.type \in T)
  /\ Ends("illegal")

Destroy ==
  /\ Running
  /\ vec' = IF vec.magic THEN NoVec ELSE vec
  /\ UNCHANGED <<got, outcome>>

Init == vec = NoVec /\ got = 0 /\ outcome = "running"

Getters == {Type} \cup {{t} : t \in Type}

Next ==
  \/ \E t \in Type : InitVec(t)
  \/ \E e \in Value : Add(e)
  \/ AddWithoutMemory \/ AddToNone
  \/ GetSize
  \/ \E T \in Getters : \E n \in 0..vec.alloc : Get(T, n)
  \/ \E T \in Getters : \E n \in -1..vec.alloc : GetNothing(T, n)
  \/ Destroy
  \/ ~Running /\ UNCHANGED vecvars

Spec == Init /\ [][Next]_vecvars
-----------------------------------------------------------------------------
TypeOK ==
  /\ vec.magic \in BOOLEAN /\ vec.size \in Nat /\ vec.alloc \in Nat
  /\ vec.type \in Type \cup {NoType}
  /\ vec.magic <=> vec.type \in Type
  /\ vec.bytes \in 0..IdxMax
  /\ outcome \in {"running", "illegal", "memory"}

(* The block has room for all entries the vector says it has room for,     *)
(* and the computation of its size in bytes never wraps around into a      *)
(* smaller positive size.                                                  *)
BlockFits ==
  /\ vec.size <= vec.alloc
  /\ vec.magic => vec.bytes = vec.alloc * TSize[vec.type]
  /\ DOMAIN vec.cells = 0..(vec.alloc - 1)

(* Growing, adding and destroying, the vector is the list of the values    *)
(* added since it was initialised; getters return its members.             *)
List == INSTANCE ValueList
          WITH Kind <- Type, NoKind <- NoType, list <- EntriesOf(vec), kind <- vec.type
ImplementsList == List!Spec
=============================================================================
