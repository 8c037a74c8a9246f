---------------------------- MODULE VectorData -----------------------------
(***************************************************************************)
(* A SCAPAR_VEC and what scapar_vec_init, scapar_vec_add_entry and         *)
(* scapar_vec_destroy do to it: an array that grows by a fixed number of   *)
(* entries, in a block of memory whose size in bytes is computed in        *)
(* SCAPAR_IDX, a long.                                                     *)
(***************************************************************************)
EXTENDS Integers

CONSTANTS
  Type,    \* types of entries
  NoType,  \* the type of a vector that is not initialised
  TSize,   \* TSize[t]: bytes of an entry of type t
  Chunk,   \* entries by which the array grows: 16
  IdxMax,  \* the largest SCAPAR_IDX
  Value,   \* values of entries
  Junk     \* content of memory that was never written

ASSUME VectorAssumption ==
  /\ NoType \notin Type
  /\ TSize \in [Type -> Nat \ {0}]
  /\ Chunk \in Nat \ {0} /\ IdxMax \in Nat
  /\ \A t \in Type : Chunk * TSize[t] <= IdxMax

(* All bits zero *)
NoVec == [magic |-> FALSE, type |-> NoType, size |-> 0, alloc |-> 0, bytes |-> 0,
          cells |-> [n \in {} |-> Junk]]

(* scapar_vec_init *)
VecInitNoMagic(t) == [NoVec EXCEPT !.type = t]
VecInit(t) == [NoVec EXCEPT !.magic = TRUE, !.type = t]

(* SCAPAR_IDX arithmetic: x has been in range and has grown by no more     *)
(* than IdxMax.                                                            *)
Wrap(x) == IF x > IdxMax THEN x - 2 * (IdxMax + 1) ELSE x

FullLate(v) == v.size > v.alloc
Full(v)     == v.size >= v.alloc
Longer(v)   == v.alloc + Chunk
NewBytes(v) == Wrap(Longer(v) * TSize[v.type])

(* A negative size is a very large size_t: realloc fails and the process   *)
(* ends.                                                                   *)
CanAdd(v) == Full(v) => NewBytes(v) >= 0

(* The entries that lie inside a block of b bytes *)
Room(alloc, b, t) == {n \in 0..(alloc - 1) : (n + 1) * TSize[t] <= b}

(* realloc keeps what was in the block; malloc would not.*)
Emptied(v, a, b) == [n \in Room(a, b, v.type) |-> Junk]
Kept(v, a, b) ==
  [n \in Room(a, b, v.type) |-> IF n \in DOMAIN v.cells THEN v.cells[n] ELSE Junk]

Grown(v) ==
  IF Full(v)
  THEN [v EXCEPT !.alloc = Longer(v), !.bytes = NewBytes(v),
                 !.cells = Kept(v, Longer(v), NewBytes(v))]
  ELSE v

(* An entry written outside the block is lost. *)
Written(v, e) == [v EXCEPT !.cells = [@ EXCEPT ![v.size] = e], !.size = @ + 1]

VecAdd(v, e) == Written(Grown(v), e)

(* The entries of a vector, as a sequence *)
EntriesOf(v) == [i \in 1..v.size |-> IF i - 1 \in DOMAIN v.cells THEN v.cells[i - 1] ELSE Junk]
=============================================================================
