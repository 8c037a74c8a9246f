------------------------- MODULE VectorDataProofs --------------------------
(***************************************************************************)
(* What scapar_vec_init and scapar_vec_add_entry do to any SCAPAR_VEC.     *)
(***************************************************************************)
EXTENDS VectorData, Sequences, TLAPS

Cells == UNION {[0..(a - 1) -> Value \cup {Junk}] : a \in Nat}
Vec   == [magic : BOOLEAN, type : Type \cup {NoType}, size : Nat, alloc : Nat,
          bytes : Int, cells : Cells]

(* A vector whose block has room for what it says it has room for.         *)
VecOK(v) ==
  /\ v \in Vec
  /\ v.magic <=> v.type \in Type
  /\ v.size <= v.alloc
  /\ v.bytes \in 0..IdxMax
  /\ v.magic => v.bytes = v.alloc * TSize[v.type]
  /\ ~v.magic => v.size = 0
  /\ v.cells \in [0..(v.alloc - 1) -> Value \cup {Junk}]

-----------------------------------------------------------------------------
LEMMA NoVecOK == VecOK(NoVec)
<1>1. [n \in {} |-> Junk] \in [0..(0 - 1) -> Value \cup {Junk}]
  OBVIOUS
<1>2. NoVec \in Vec
  BY <1>1 DEF NoVec, Vec, Cells
<1> QED
  BY <1>1, <1>2, VectorAssumption DEF VecOK, NoVec

LEMMA VecInitOK ==
  ASSUME NEW t \in Type
  PROVE  VecOK(VecInit(t)) /\ VecInit(t).magic /\ EntriesOf(VecInit(t)) = <<>>
<1>1. [n \in {} |-> Junk] \in [0..(0 - 1) -> Value \cup {Junk}]
  OBVIOUS
<1>2. VecInit(t) = [magic |-> TRUE, type |-> t, size |-> 0, alloc |-> 0, bytes |-> 0,
                    cells |-> [n \in {} |-> Junk]]
  <2> DEFINE E == [n \in {} |-> Junk]
             z == NoVec
  <2>1. z = [magic |-> FALSE, type |-> NoType, size |-> 0, alloc |-> 0, bytes |-> 0,
             cells |-> E]
    BY DEF NoVec
  <2>2. VecInit(t) = [z EXCEPT !.magic = TRUE, !.type = t]
    BY DEF VecInit
  <2> HIDE DEF E, z
  <2>3. VecInit(t) = [magic |-> TRUE, type |-> t, size |-> 0, alloc |-> 0, bytes |-> 0,
                      cells |-> E]
    BY <2>1, <2>2, Zenon
  <2> QED
    BY <2>3 DEF E
<1>3. VecInit(t) \in Vec
  BY <1>1, <1>2 DEF Vec, Cells
<1>4. TSize[t] \in Nat /\ 0 * TSize[t] = 0
  BY VectorAssumption
<1> QED
  BY <1>1, <1>2, <1>3, <1>4, VectorAssumption DEF VecOK, EntriesOf

(* The size computed for a longer block is exact whenever it is not        *)
(* negative.                                                               *)
LEMMA NewBytesExact ==
  ASSUME NEW v, VecOK(v), v.magic
  PROVE  /\ NewBytes(v) \in Int /\ NewBytes(v) <= IdxMax
         /\ NewBytes(v) >= 0 => NewBytes(v) = (v.alloc + Chunk) * TSize[v.type]
<1> DEFINE T == TSize[v.type]
           a == v.alloc
<1>1. T \in Nat /\ Chunk \in Nat /\ IdxMax \in Nat /\ Chunk * T <= IdxMax
  BY VectorAssumption DEF VecOK
<1>2. a \in Nat /\ a * T <= IdxMax
  BY <1>1 DEF VecOK, Vec
<1>3. (a + Chunk) * T = a * T + Chunk * T
  BY <1>1, <1>2
<1>4. a * T \in Nat /\ Chunk * T \in Nat
  BY <1>1, <1>2
<1>5. NewBytes(v) = Wrap(a * T + Chunk * T)
  BY <1>3 DEF NewBytes, Longer
<1> HIDE DEF T, a
<1>6. Wrap(a * T + Chunk * T) \in Int /\ Wrap(a * T + Chunk * T) <= IdxMax
  BY <1>1, <1>2, <1>4 DEF Wrap
<1>7. Wrap(a * T + Chunk * T) >= 0 => Wrap(a * T + Chunk * T) = a * T + Chunk * T
  BY <1>1, <1>2, <1>4 DEF Wrap
<1> QED
  BY <1>3, <1>5, <1>6, <1>7 DEF T, a

(* All entries of a block of the exact size lie inside it.                 *)
LEMMA RoomForAll ==
  ASSUME NEW a \in Nat, NEW t \in Type
  PROVE  Room(a, a * TSize[t], t) = 0..(a - 1)
<1>1. TSize[t] \in Nat
  BY VectorAssumption
<1>2. ASSUME NEW n \in 0..(a - 1)
      PROVE  (n + 1) * TSize[t] <= a * TSize[t]
  <2>1. PICK d \in Nat : a = (n + 1) + d
    <3>1. a - (n + 1) \in Nat /\ a = (n + 1) + (a - (n + 1))
      OBVIOUS
    <3> QED BY <3>1
  <2>2. a * TSize[t] = (n + 1) * TSize[t] + d * TSize[t]
    BY <1>1, <2>1
  <2>3. d * TSize[t] \in Nat /\ (n + 1) * TSize[t] \in Nat
    BY <1>1
  <2> QED
    BY <2>2, <2>3
<1> QED
  BY <1>2 DEF Room

LEMMA GrownOK ==
  ASSUME NEW v, VecOK(v), v.magic, CanAdd(v)
  PROVE  /\ VecOK(Grown(v)) /\ Grown(v).magic /\ Grown(v).type = v.type
         /\ Grown(v).size = v.size /\ v.size < Grown(v).alloc
         /\ \A n \in 0..(v.size - 1) : Grown(v).cells[n] = v.cells[n]
<1>1. CASE ~Full(v)
  <2>1. Grown(v) = v
    BY <1>1 DEF Grown
  <2> QED
    BY <1>1, <2>1 DEF Full, VecOK, Vec
<1>2. CASE Full(v)
  <2> DEFINE A == v.alloc + Chunk
             B == NewBytes(v)
             C == Kept(v, A, B)
  <2>1. Grown(v) = [v EXCEPT !.alloc = A, !.bytes = B, !.cells = C]
    BY <1>2 DEF Grown, Longer
  <2>2. /\ v \in Vec /\ v.type \in Type /\ v.size \in Nat /\ v.alloc \in Nat
        /\ v.size <= v.alloc /\ v.magic \in BOOLEAN
    BY DEF VecOK, Vec
  <2>3. A \in Nat /\ v.size < A /\ v.alloc <= A
    BY <2>2, VectorAssumption
  <2>4. B \in 0..IdxMax /\ B = A * TSize[v.type]
    BY <1>2, NewBytesExact, VectorAssumption DEF CanAdd
  <2>5. Room(A, B, v.type) = 0..(A - 1)
    BY <2>2, <2>3, <2>4, RoomForAll
  <2>6. C \in [0..(A - 1) -> Value \cup {Junk}]
    <3>1. v.cells \in [0..(v.alloc - 1) -> Value \cup {Junk}]
      BY DEF VecOK
    <3> QED
      BY <2>5, <3>1 DEF Kept
  <2>7. \A n \in 0..(v.size - 1) : C[n] = v.cells[n]
    <3>1. DOMAIN v.cells = 0..(v.alloc - 1)
      BY DEF VecOK
    <3>2. \A n \in 0..(v.size - 1) : n \in 0..(v.alloc - 1) /\ n \in 0..(A - 1)
      BY <2>2, <2>3
    <3> HIDE DEF A, B
    <3> QED
      BY <2>5, <3>1, <3>2 DEF Kept
  <2>8. C \in Cells
    BY <2>3, <2>6 DEF Cells
  <2> HIDE DEF A, B, C
  <2>9. /\ Grown(v) \in Vec
        /\ Grown(v).magic = v.magic /\ Grown(v).type = v.type /\ Grown(v).size = v.size
        /\ Grown(v).alloc = A /\ Grown(v).bytes = B /\ Grown(v).cells = C
    <3>1. v = [magic |-> v.magic, type |-> v.type, size |-> v.size, alloc |-> v.alloc,
               bytes |-> v.bytes, cells |-> v.cells]
      BY <2>2 DEF Vec
    <3>2. Grown(v) = [magic |-> v.magic, type |-> v.type, size |-> v.size, alloc |-> A,
                      bytes |-> B, cells |-> C]
      BY <2>1, <3>1, Zenon
    <3>3. B \in Int
      BY <2>4, VectorAssumption
    <3> QED
      BY <2>2, <2>3, <2>8, <3>2, <3>3 DEF Vec
  <2>10. VecOK(Grown(v))
    BY <2>2, <2>3, <2>4, <2>6, <2>9 DEF VecOK
  <2> QED
    BY <2>3, <2>7, <2>9, <2>10
<1> QED
  BY <1>1, <1>2

(* The value lies inside the block, and the vector is one entry longer.    *)
LEMMA VecAddOK ==
  ASSUME NEW v, VecOK(v), v.magic, CanAdd(v), NEW e \in Value
  PROVE  /\ VecOK(VecAdd(v, e)) /\ VecAdd(v, e).magic /\ VecAdd(v, e).type = v.type
         /\ VecAdd(v, e).size = v.size + 1
         /\ \A n \in 0..(v.size - 1) : VecAdd(v, e).cells[n] = v.cells[n]
         /\ VecAdd(v, e).cells[v.size] = e
<1> DEFINE g == Grown(v)
           C == [g.cells EXCEPT ![g.size] = e]
<1>1. /\ VecOK(g) /\ g.magic /\ g.type = v.type
      /\ g.size = v.size /\ v.size < g.alloc
      /\ \A n \in 0..(v.size - 1) : g.cells[n] = v.cells[n]
  BY GrownOK
<1>2. VecAdd(v, e) = [g EXCEPT !.cells = C, !.size = g.size + 1]
  BY DEF VecAdd, Written
<1> HIDE DEF g
<1>3. /\ g \in Vec /\ g.size \in Nat /\ g.alloc \in Nat
      /\ g.cells \in [0..(g.alloc - 1) -> Value \cup {Junk}]
  BY <1>1 DEF VecOK, Vec
<1>4. C \in [0..(g.alloc - 1) -> Value \cup {Junk}] /\ C[g.size] = e
  BY <1>1, <1>3
<1>5. \A n \in 0..(v.size - 1) : C[n] = g.cells[n]
  BY <1>1, <1>3
<1>6. C \in Cells
  BY <1>3, <1>4 DEF Cells
<1> HIDE DEF C
<1>7. /\ VecAdd(v, e) \in Vec
      /\ VecAdd(v, e).magic = g.magic /\ VecAdd(v, e).type = g.type
      /\ VecAdd(v, e).size = g.size + 1 /\ VecAdd(v, e).alloc = g.alloc
      /\ VecAdd(v, e).bytes = g.bytes /\ VecAdd(v, e).cells = C
  <2>1. g = [magic |-> g.magic, type |-> g.type, size |-> g.size, alloc |-> g.alloc,
             bytes |-> g.bytes, cells |-> g.cells]
    BY <1>3 DEF Vec
  <2>2. VecAdd(v, e) = [magic |-> g.magic, type |-> g.type, size |-> g.size + 1,
                        alloc |-> g.alloc, bytes |-> g.bytes, cells |-> C]
    BY <1>2, <2>1, Zenon
  <2> QED
    BY <1>3, <1>6, <2>2 DEF Vec
<1>8. VecOK(VecAdd(v, e))
  BY <1>1, <1>3, <1>4, <1>7 DEF VecOK
<1> QED
  BY <1>1, <1>4, <1>5, <1>7, <1>8

LEMMA EntriesAppended ==
  ASSUME NEW v, VecOK(v), v.magic, CanAdd(v), NEW e \in Value
  PROVE  EntriesOf(VecAdd(v, e)) = Append(EntriesOf(v), e)
<1> DEFINE w == VecAdd(v, e)
<1>1. /\ w.size = v.size + 1 /\ w.cells[v.size] = e
      /\ \A n \in 0..(v.size - 1) : w.cells[n] = v.cells[n]
      /\ VecOK(w)
  BY VecAddOK
<1>2. /\ v.size \in Nat /\ DOMAIN v.cells = 0..(v.alloc - 1) /\ v.size <= v.alloc
      /\ v.alloc \in Nat
  BY DEF VecOK, Vec
<1>3. DOMAIN w.cells = 0..(w.alloc - 1) /\ w.size <= w.alloc /\ w.alloc \in Nat
  BY <1>1 DEF VecOK, Vec
<1> HIDE DEF w
<1>4. EntriesOf(v) = [i \in 1..v.size |-> v.cells[i - 1]]
  BY <1>2 DEF EntriesOf
<1>5. EntriesOf(w) = [i \in 1..(v.size + 1) |-> w.cells[i - 1]]
  BY <1>1, <1>2, <1>3 DEF EntriesOf
<1>6. Append(EntriesOf(v), e) =
        [i \in 1..(v.size + 1) |-> IF i = v.size + 1 THEN e ELSE v.cells[i - 1]]
  BY <1>2, <1>4
<1>7. \A i \in 1..(v.size + 1) :
        w.cells[i - 1] = IF i = v.size + 1 THEN e ELSE v.cells[i - 1]
  <2> TAKE i \in 1..(v.size + 1)
  <2>1. CASE i = v.size + 1
    BY <1>1, <1>2, <2>1
  <2>2. CASE i # v.size + 1
    <3>1. i - 1 \in 0..(v.size - 1)
      BY <1>2, <2>2
    <3> QED
      BY <1>1, <2>2, <3>1
  <2> QED
    BY <2>1, <2>2
<1> QED
  BY <1>5, <1>6, <1>7 DEF w
=============================================================================
