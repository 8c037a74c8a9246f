--------------------------- MODULE VectorProofs ----------------------------
(***************************************************************************)
(* For all types, sizes of types, growth steps and ranges of sizes: the    *)
(* block of a vector fits what the vector says it holds, and the vector is *)
(* the list of the values added to it.                                     *)
(***************************************************************************)
EXTENDS Vector, VectorDataProofs

(* The inductive invariant: what scapar_vec_add_entry needs of a vector,   *)
(* and what a getter may return.                                           *)
IInv ==
  /\ VecOK(vec)
  /\ outcome \in {"running", "illegal", "memory"}

LEMMA InitInv == Init => IInv
  BY NoVecOK DEF Init, IInv

LEMMA NextKeepsInv == IInv /\ [Next]_vecvars => IInv'
<1> SUFFICES ASSUME IInv, [Next]_vecvars
             PROVE  IInv'
  OBVIOUS
<1> USE DEF IInv
<1>1. ASSUME NEW t \in Type, InitVec(t)
      PROVE  IInv'
  BY <1>1, VecInitOK DEF InitVec
<1>2. ASSUME NEW e \in Value, Add(e)
      PROVE  IInv'
  BY <1>2, VecAddOK DEF Add
<1>3. CASE AddWithoutMemory
  BY <1>3 DEF AddWithoutMemory, Ends
<1>4. CASE AddToNone
  BY <1>4 DEF AddToNone, Ends
<1>5. CASE GetSize
  BY <1>5 DEF GetSize
<1>6. ASSUME NEW T \in Getters, NEW n \in 0..vec.alloc, Get(T, n)
      PROVE  IInv'
  BY <1>6 DEF Get
<1>7. ASSUME NEW T \in Getters, NEW n \in -1..vec.alloc, GetNothing(T, n)
      PROVE  IInv'
  BY <1>7 DEF GetNothing, Ends
<1>8. CASE Destroy
  <2>1. VecOK(vec')
    BY <1>8, NoVecOK DEF Destroy
  <2> QED
    BY <1>8, <2>1 DEF Destroy
<1>9. CASE UNCHANGED vecvars
  BY <1>9 DEF vecvars
<1> QED
  BY <1>1, <1>2, <1>3, <1>4, <1>5, <1>6, <1>7, <1>8, <1>9 DEF Next

LEMMA SpecInv == Spec => []IInv
  BY InitInv, NextKeepsInv, PTL DEF Spec

-----------------------------------------------------------------------------
(* A vector with a magic number has a type, its counters are no negative   *)
(* numbers and the size of its block is a SCAPAR_IDX.                      *)
THEOREM VectorTyped == Spec => []TypeOK
<1>1. IInv => TypeOK
  BY DEF IInv, VecOK, Vec, TypeOK
<1> QED
  BY <1>1, SpecInv, PTL

(* The block of a vector always has room for exactly the entries that the  *)
(* vector says it has room for: growing by Chunk entries never wraps to a  *)
(* smaller block, for no size of entries that lets Chunk of them fit.      *)
THEOREM VectorBlockFits == Spec => []BlockFits
<1>1. IInv => BlockFits
  BY DEF IInv, VecOK, Vec, BlockFits
<1> QED
  BY <1>1, SpecInv, PTL

-----------------------------------------------------------------------------
(* Refinement of ValueList *)

LEMMA NoEntries == EntriesOf(NoVec) = <<>>
  BY DEF EntriesOf, NoVec

LEMMA InitRefines == Init => List!Init
  BY NoEntries DEF Init, List!Init, NoVec

LEMMA NextRefines == IInv /\ [Next]_vecvars => [List!Next]_(List!lvars)
<1> SUFFICES ASSUME IInv, [Next]_vecvars
             PROVE  [List!Next]_(List!lvars)
  OBVIOUS
<1> USE DEF IInv
<1>1. ASSUME NEW t \in Type, InitVec(t)
      PROVE  List!Next
  <2>1. /\ vec' = VecInit(t) /\ VecInit(t).type = t /\ EntriesOf(VecInit(t)) = <<>>
        /\ vec.type = NoType
    BY <1>1, VecInitOK DEF InitVec, VecInit, NoVec, VecOK, Vec
  <2>2. List!Make(t)
    BY <1>1, <2>1 DEF InitVec, List!Make
  <2> QED
    BY <1>1, <2>2 DEF InitVec, Running, List!Next, List!Step
<1>2. ASSUME NEW e \in Value, Add(e)
      PROVE  List!Next
  <2>1. vec' = VecAdd(vec, e) /\ vec.magic /\ CanAdd(vec) /\ got' = got
    BY <1>2 DEF Add
  <2>2. EntriesOf(VecAdd(vec, e)) = Append(EntriesOf(vec), e)
    BY <2>1, EntriesAppended
  <2>3. VecAdd(vec, e).type = vec.type /\ vec.type # NoType
    BY <2>1, VecAddOK, VectorAssumption DEF VecOK
  <2>4. List!Put(e)
    BY <2>1, <2>2, <2>3 DEF List!Put
  <2> QED
    BY <1>2, <2>4 DEF Add, Running, List!Next, List!Step
<1>3. CASE AddWithoutMemory
  <2>1. vec.type # NoType
    BY <1>3, VectorAssumption DEF AddWithoutMemory, VecOK
  <2> QED
    BY <1>3, <2>1 DEF AddWithoutMemory, Ends, Running, List!Next, List!Ends
<1>4. CASE AddToNone
  BY <1>4 DEF AddToNone, Ends, Running, List!Next, List!Ends
<1>5. CASE GetSize
  <2>1. Len(EntriesOf(vec)) = vec.size /\ (~vec.magic => vec.size = 0)
    BY DEF EntriesOf, VecOK, Vec
  <2>2. List!Measure
    BY <1>5, <2>1 DEF GetSize, List!Measure
  <2> QED
    BY <1>5, <2>2 DEF GetSize, Running, List!Next, List!Step
<1>6. ASSUME NEW T \in Getters, NEW n \in 0..vec.alloc, Get(T, n)
      PROVE  List!Next
  <2>1. n < vec.size /\ got' = vec.cells[n] /\ vec' = vec
    BY <1>6 DEF Get
  <2>2. n \in DOMAIN vec.cells /\ n + 1 \in 1..vec.size /\ (n + 1) - 1 = n
    BY <2>1 DEF VecOK, Vec
  <2>3. n + 1 \in DOMAIN EntriesOf(vec) /\ EntriesOf(vec)[n + 1] = vec.cells[n]
    BY <2>2 DEF EntriesOf
  <2>4. List!Take(n + 1)
    BY <2>1, <2>3 DEF List!Take
  <2> QED
    BY <1>6, <2>3, <2>4 DEF Get, Running, List!Next, List!Step
<1>7. ASSUME NEW T \in Getters, NEW n \in -1..vec.alloc, GetNothing(T, n)
      PROVE  List!Next
  BY <1>7 DEF GetNothing, Ends, Running, List!Next, List!Ends
<1>8. CASE Destroy
  <2>1. EntriesOf(vec') = <<>> /\ vec'.type = NoType
    <3>1. CASE vec.magic
      BY <1>8, <3>1, NoEntries DEF Destroy, NoVec
    <3>2. CASE ~vec.magic
      BY <1>8, <3>2 DEF Destroy, VecOK, Vec, EntriesOf
    <3> QED
      BY <3>1, <3>2
  <2>2. List!Clear
    BY <1>8, <2>1 DEF Destroy, List!Clear
  <2> QED
    BY <1>8, <2>2 DEF Destroy, Running, List!Next, List!Step
<1>9. CASE UNCHANGED vecvars
  BY <1>9 DEF vecvars, List!lvars
<1> QED
  BY <1>1, <1>2, <1>3, <1>4, <1>5, <1>6, <1>7, <1>8, <1>9 DEF Next

(* The vector implements the list: however it grows, the program reads     *)
(* back what was added, in order, and nothing else.                        *)
THEOREM VectorImplementsList == Spec => ImplementsList
  BY InitRefines, NextRefines, SpecInv, PTL DEF Spec, ImplementsList, List!Spec
=============================================================================
