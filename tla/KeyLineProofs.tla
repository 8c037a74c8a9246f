--------------------------- MODULE KeyLineProofs ---------------------------
(***************************************************************************)
(* Theorems about the bytes of a line, for every file, size of the buffer  *)
(* and choice of marks.  What the buffer holds is related to the line as   *)
(* a reader of the file sees it.                                           *)
(***************************************************************************)
EXTENDS KeyLine, FiniteSetTheorems, SequenceTheorems, WellFoundedInduction, TLAPS

(* Sets of numbers have a least element: the way to argue by induction. *)
LEMMA LeastNumber ==
  ASSUME NEW T \in SUBSET Nat, T # {}
  PROVE  \E x \in T : \A y \in T : x <= y
<1> DEFINE R == {q \in Nat \X Nat : q[1] < q[2]}
<1>1. R = OpToRel(<, Nat)
  BY DEF OpToRel
<1>2. IsWellFoundedOn(R, Nat)
  BY <1>1, NatLessThanWellFounded
<1>3. PICK x \in T : \A y \in T : <<y, x>> \notin R
  <2> HIDE DEF R
  <2> QED BY <1>2, WFMin
<1>4. \A y \in T : x \in Nat /\ y \in Nat /\ ~(y < x)
  <2> TAKE y \in T
  <2>1. <<y, x>> \in Nat \X Nat
    OBVIOUS
  <2> QED BY <1>3, <2>1
<1> QED BY <1>4

LEMMA LoFacts ==
  ASSUME NEW T \in SUBSET Nat, T # {}
  PROVE  Lo(T) \in T /\ \A y \in T : Lo(T) <= y
<1>1. \E x \in T : \A y \in T : x <= y
  BY LeastNumber
<1> QED BY <1>1 DEF Lo

LEMMA HiFacts ==
  ASSUME NEW m \in Nat, NEW T \in SUBSET (1..m), T # {}
  PROVE  Hi(T) \in T /\ \A y \in T : Hi(T) >= y
<1> DEFINE U == {m - x : x \in T}
<1>1. U \in SUBSET Nat /\ U # {}
  OBVIOUS
<1>2. PICK d \in U : \A y \in U : d <= y
  BY <1>1, LeastNumber
<1>3. PICK x \in T : d = m - x
  BY <1>2
<1>4. \A y \in T : x >= y
  <2> TAKE y \in T
  <2>1. m - y \in U
    OBVIOUS
  <2>2. d <= m - y
    BY <1>2, <2>1
  <2> HIDE DEF U
  <2> QED BY <1>3, <2>2
<1>5. \E z \in T : \A y \in T : z >= y
  BY <1>4
<1> QED BY <1>5 DEF Hi

-----------------------------------------------------------------------------
(* Searching in the buffer *)

Bytes == 0..(Size - 1)

(* The byte found is determined by what is between; and it is found. *)
LEMMA FirstIs ==
  ASSUME NEW b, NEW from \in Nat, NEW T, NEW m \in from..(Size - 1),
         b[m] \in T, \A j \in from..(m - 1) : b[j] \notin T
  PROVE  First(b, from, T) = m
<1> DEFINE Is(i) == i \in from..(Size - 1) /\ b[i] \in T /\ \A j \in from..(i - 1) : b[j] \notin T
<1>1. Is(m)
  OBVIOUS
<1>2. ASSUME NEW i, Is(i) PROVE i = m
  <2>1. i \in Int /\ m \in Int /\ Size \in Int
    BY <1>2, KeyLineAssumption
  <2>2. ~(i < m)
    <3> SUFFICES ASSUME i < m PROVE FALSE
      OBVIOUS
    <3>1. i \in from..(m - 1)
      BY <1>2, <2>1
    <3> QED BY <1>2, <3>1
  <2>3. ~(m < i)
    <3> SUFFICES ASSUME m < i PROVE FALSE
      OBVIOUS
    <3>1. m \in from..(i - 1)
      BY <2>1
    <3> QED BY <1>2, <3>1
  <2> QED BY <2>1, <2>2, <2>3
<1>3. First(b, from, T) = CHOOSE i : Is(i)
  BY DEF First
<1> HIDE DEF Is
<1> QED BY <1>1, <1>2, <1>3

LEMMA FirstFacts ==
  ASSUME NEW b, NEW from \in Nat, NEW T, NEW m \in from..(Size - 1), b[m] \in T
  PROVE  /\ First(b, from, T) \in from..m /\ b[First(b, from, T)] \in T
         /\ \A j \in from..(First(b, from, T) - 1) : b[j] \notin T
<1> DEFINE U == {i \in from..m : b[i] \in T}
<1>1. U \in SUBSET Nat /\ m \in U /\ Size \in Nat
  BY KeyLineAssumption
<1>2. PICK x \in U : \A y \in U : x <= y
  BY <1>1, LeastNumber
<1>3. x \in from..(Size - 1) /\ x \in from..m
  BY <1>1
<1>4. \A j \in from..(x - 1) : b[j] \notin T
  <2> SUFFICES ASSUME NEW j \in from..(x - 1), b[j] \in T PROVE FALSE
    OBVIOUS
  <2>1. j \in U /\ j < x
    BY <1>3
  <2> QED BY <1>2, <1>3, <2>1
<1>5. First(b, from, T) = x
  BY <1>3, <1>4, FirstIs
<1> QED BY <1>3, <1>4, <1>5

(* The same for the first byte outside of a set *)
LEMMA SkipIs ==
  ASSUME NEW b, NEW from \in Nat, NEW T, NEW m \in from..(Size - 1),
         b[m] \notin T, \A j \in from..(m - 1) : b[j] \in T
  PROVE  Skip(b, from, T) = m
<1> DEFINE Is(i) == i \in from..(Size - 1) /\ b[i] \notin T /\ \A j \in from..(i - 1) : b[j] \in T
<1>1. Is(m)
  OBVIOUS
<1>2. ASSUME NEW i, Is(i) PROVE i = m
  <2>1. i \in Int /\ m \in Int /\ Size \in Int
    BY <1>2, KeyLineAssumption
  <2>2. ~(i < m)
    <3> SUFFICES ASSUME i < m PROVE FALSE
      OBVIOUS
    <3>1. i \in from..(m - 1)
      BY <1>2, <2>1
    <3> QED BY <1>2, <3>1
  <2>3. ~(m < i)
    <3> SUFFICES ASSUME m < i PROVE FALSE
      OBVIOUS
    <3>1. m \in from..(i - 1)
      BY <2>1
    <3> QED BY <1>2, <3>1
  <2> QED BY <2>1, <2>2, <2>3
<1>3. Skip(b, from, T) = CHOOSE i : Is(i)
  BY DEF Skip
<1> HIDE DEF Is
<1> QED BY <1>1, <1>2, <1>3

LEMMA SkipFacts ==
  ASSUME NEW b, NEW from \in Nat, NEW T, NEW m \in from..(Size - 1), b[m] \notin T
  PROVE  /\ Skip(b, from, T) \in from..m /\ b[Skip(b, from, T)] \notin T
         /\ \A j \in from..(Skip(b, from, T) - 1) : b[j] \in T
<1> DEFINE U == {i \in from..m : b[i] \notin T}
<1>1. U \in SUBSET Nat /\ m \in U /\ Size \in Nat
  BY KeyLineAssumption
<1>2. PICK x \in U : \A y \in U : x <= y
  BY <1>1, LeastNumber
<1>3. x \in from..(Size - 1) /\ x \in from..m
  BY <1>1
<1>4. \A j \in from..(x - 1) : b[j] \in T
  <2> SUFFICES ASSUME NEW j \in from..(x - 1), b[j] \notin T PROVE FALSE
    OBVIOUS
  <2>1. j \in U /\ j < x
    BY <1>3
  <2> QED BY <1>2, <1>3, <2>1
<1>5. Skip(b, from, T) = x
  BY <1>3, <1>4, SkipIs
<1> QED BY <1>3, <1>4, <1>5

-----------------------------------------------------------------------------
(* Strings in the buffer *)

(* s is a string of characters that fgets leaves in a line. *)
Clean(s) ==
  /\ s \in Seq({s[i] : i \in DOMAIN s})
  /\ \A i \in DOMAIN s : s[i] \notin {Nul, Newline}

(* From byte d on the buffer holds the string s. *)
Holds(b, d, s) ==
  /\ d + Len(s) <= Size - 1
  /\ \A i \in 1..Len(s) : b[d + i - 1] = s[i]
  /\ b[d + Len(s)] = Nul

LEMMA CleanFacts ==
  ASSUME NEW s, Clean(s)
  PROVE  /\ Len(s) \in Nat /\ DOMAIN s = 1..Len(s) /\ \E C : s \in Seq(C)
         /\ \A i \in 1..Len(s) : s[i] # Nul /\ s[i] # Newline
<1>1. PICK C : C = {s[i] : i \in DOMAIN s}
  OBVIOUS
<1>2. s \in Seq(C)
  BY <1>1 DEF Clean
<1>3. Len(s) \in Nat /\ DOMAIN s = 1..Len(s)
  BY <1>2
<1> QED BY <1>2, <1>3 DEF Clean

LEMMA CleanIf ==
  ASSUME NEW s, NEW C, s \in Seq(C), \A i \in 1..Len(s) : s[i] # Nul /\ s[i] # Newline
  PROVE  Clean(s)
<1>1. DOMAIN s = 1..Len(s) /\ Len(s) \in Nat
  OBVIOUS
<1>2. PICK D : D = {s[i] : i \in DOMAIN s}
  OBVIOUS
<1>3. \A i \in 1..Len(s) : s[i] \in D
  BY <1>1, <1>2
<1>4. s \in Seq(D)
  BY <1>3
<1> QED BY <1>1, <1>2, <1>4 DEF Clean

(* A part of a sequence *)
LEMMA PartOf ==
  ASSUME NEW C, NEW s \in Seq(C), NEW a \in 1..(Len(s) + 1), NEW c \in (a - 1)..Len(s)
  PROVE  /\ SubSeq(s, a, c) \in Seq(C) /\ Len(SubSeq(s, a, c)) = c - a + 1
         /\ \A i \in 1..(c - a + 1) : SubSeq(s, a, c)[i] = s[a + i - 1]
         /\ SubSeq(s, a, c) = [i \in 1..(c - a + 1) |-> s[a + i - 1]]
<1>1. Len(s) \in Nat /\ a \in Nat /\ c \in Nat
  OBVIOUS
<1>2. \A i \in a..c : s[i] \in C
  BY <1>1, ElementOfSeq
<1> QED BY <1>1, <1>2, SubSeqProperties

(* A string that the buffer holds is what String reads there, and the rest *)
(* of it is held behind.                                                   *)
LEMMA HeldString ==
  ASSUME NEW b, NEW d \in Nat, NEW s, Clean(s), Holds(b, d, s)
  PROVE  EndOf(b, d) = d + Len(s) /\ String(b, d) = s
<1>1. PICK k, C : k = Len(s) /\ k \in Nat /\ DOMAIN s = 1..k /\ s \in Seq(C)
  BY CleanFacts
<1>2. \A i \in 1..k : s[i] # Nul /\ b[d + i - 1] = s[i]
  BY <1>1, CleanFacts DEF Holds
<1>3. d + k \in d..(Size - 1) /\ b[d + k] \in {Nul}
  BY <1>1, KeyLineAssumption DEF Holds
<1>4. \A j \in d..((d + k) - 1) : b[j] \notin {Nul}
  <2> TAKE j \in d..((d + k) - 1)
  <2>1. j - d + 1 \in 1..k /\ d + (j - d + 1) - 1 = j
    BY <1>1
  <2> QED BY <1>2, <2>1
<1>5. EndOf(b, d) = d + k
  BY <1>3, <1>4, FirstIs DEF EndOf
<1>6. Chars(b, d, d + k) = s
  <2>1. (d + k) - d = k
    BY <1>1
  <2>2. Chars(b, d, d + k) = [i \in 1..k |-> b[d + i - 1]]
    BY <2>1 DEF Chars
  <2>3. [i \in 1..k |-> b[d + i - 1]] = [i \in 1..k |-> s[i]]
    BY <1>2
  <2>4. s = [i \in 1..k |-> s[i]]
    BY <1>1
  <2> QED BY <2>2, <2>3, <2>4
<1> QED BY <1>1, <1>5, <1>6 DEF String

(* What is held behind part of a string is the rest of it. *)
LEMMA HeldRest ==
  ASSUME NEW b, NEW s, Clean(s), Holds(b, 0, s), NEW j \in 0..Len(s)
  PROVE  /\ Holds(b, j, SubSeq(s, j + 1, Len(s))) /\ Clean(SubSeq(s, j + 1, Len(s)))
         /\ Len(SubSeq(s, j + 1, Len(s))) = Len(s) - j
         /\ \A i \in 1..(Len(s) - j) : SubSeq(s, j + 1, Len(s))[i] = s[j + i]
<1>1. PICK k, C : k = Len(s) /\ k \in Nat /\ DOMAIN s = 1..k /\ s \in Seq(C)
  BY CleanFacts
<1>2. PICK r : r = SubSeq(s, j + 1, k)
  OBVIOUS
<1>3. r \in Seq(C) /\ Len(r) = k - j /\ \A i \in 1..(k - j) : r[i] = s[j + i]
  <2>1. j + 1 \in 1..(Len(s) + 1) /\ k \in ((j + 1) - 1)..Len(s) /\ k - (j + 1) + 1 = k - j
    BY <1>1
  <2>2. r \in Seq(C) /\ Len(r) = k - j /\ \A i \in 1..(k - j) : r[i] = s[(j + 1) + i - 1]
    BY <1>1, <1>2, <2>1, PartOf
  <2>3. \A i \in 1..(k - j) : (j + 1) + i - 1 = j + i
    BY <1>1
  <2> QED BY <2>2, <2>3
<1>4. \A i \in 1..(k - j) : j + i \in 1..k
  BY <1>1
<1>5. Clean(r)
  BY <1>1, <1>3, <1>4, CleanFacts, CleanIf
<1>6. Holds(b, j, r)
  <2>1. j + (k - j) = k /\ j \in Nat
    BY <1>1
  <2>2. \A i \in 1..(k - j) : b[j + i - 1] = r[i]
    <3> TAKE i \in 1..(k - j)
    <3>1. 0 + (j + i) - 1 = j + i - 1
      BY <1>1
    <3>2. b[0 + (j + i) - 1] = s[j + i]
      BY <1>1, <1>4 DEF Holds
    <3> QED BY <1>3, <3>1, <3>2
  <2>3. b[k] = Nul /\ k <= Size - 1
    <3>1. 0 + k = k
      BY <1>1
    <3> QED BY <1>1, <3>1 DEF Holds
  <2> QED BY <1>3, <2>1, <2>2, <2>3 DEF Holds
<1> QED BY <1>1, <1>2, <1>3, <1>5, <1>6

-----------------------------------------------------------------------------
(* Trimming *)

LEMMA SpaceFacts ==
  /\ \A c : c \in Space <=> (c \in Blank \/ c = Newline)
  /\ Nul \notin Space /\ Nul \notin Blank /\ Newline \notin Blank /\ Nul # Newline
  /\ Nul # ":" /\ Nul # "=" /\ Newline # ":" /\ Newline # "=" /\ ":" \notin Blank /\ "=" \notin Blank
  /\ \A c : c \in Blank <=> c = " "
BY DEF Space, Blank, Nul, Newline

(* Where the stripped text is in a line: behind d blanks *)
InMiddle(s, t, d) ==
  /\ d \in 0..Len(t) /\ d + Len(s) <= Len(t)
  /\ \A i \in 1..d : t[i] \in Blank
  /\ \A i \in 1..Len(s) : s[i] = t[d + i]
  /\ \A i \in (d + Len(s) + 1)..Len(t) : t[i] \in Blank
  /\ s = <<>> => d = Len(t)
  /\ s # <<>> => s[1] \notin Blank /\ s[Len(s)] \notin Blank

(* What is stripped is a part of the line, between blanks, and begins and  *)
(* ends with none.                                                         *)
LEMMA StrippedFacts ==
  ASSUME NEW t, Clean(t)
  PROVE  Clean(Stripped(t)) /\ \E d : InMiddle(Stripped(t), t, d)
<1>1. PICK k, C : k = Len(t) /\ k \in Nat /\ DOMAIN t = 1..k /\ t \in Seq(C)
  BY CleanFacts
<1>2. Inner(t) \in SUBSET Nat /\ Inner(t) \in SUBSET (1..k)
      /\ \A i \in 1..k : i \in Inner(t) <=> t[i] \notin Blank
  BY <1>1 DEF Inner
<1>3. CASE Inner(t) = {}
  <2>1. Stripped(t) = <<>> /\ Len(<<>>) = 0 /\ <<>> \in Seq(C)
    BY <1>3 DEF Stripped
  <2>2. Clean(<<>>)
    <3>1. PICK e : e = <<>>
      OBVIOUS
    <3>2. e \in Seq(C) /\ \A i \in 1..Len(e) : e[i] # Nul /\ e[i] # Newline
      BY <2>1, <3>1
    <3> QED BY <3>1, <3>2, CleanIf
  <2>3. InMiddle(<<>>, t, k)
    BY <1>1, <1>2, <1>3, <2>1 DEF InMiddle
  <2> QED BY <2>1, <2>2, <2>3
<1>4. CASE Inner(t) # {}
  <2>1. PICK a, c : a = Lo(Inner(t)) /\ c = Hi(Inner(t))
    OBVIOUS
  <2>2. a \in Inner(t) /\ c \in Inner(t) /\ \A j \in Inner(t) : a <= j /\ c >= j
    BY <1>1, <1>2, <1>4, <2>1, LoFacts, HiFacts
  <2>3. a \in 1..k /\ c \in 1..k /\ a <= c /\ a \in 1..(k + 1) /\ c \in (a - 1)..k
    BY <1>1, <1>2, <2>2
  <2>4. PICK s : s = SubSeq(t, a, c)
    OBVIOUS
  <2>5. /\ s \in Seq(C) /\ Len(s) = c - a + 1
        /\ \A i \in 1..(c - a + 1) : s[i] = t[a + i - 1]
    BY <1>1, <2>3, <2>4, PartOf
  <2>6. PICK d : d = a - 1
    OBVIOUS
  <2>7. /\ d \in 0..k /\ d + Len(s) = c /\ Len(s) \in Nat /\ Len(s) = c - d /\ Len(s) >= 1
        /\ \A i \in 1..Len(s) : s[i] = t[d + i] /\ d + i \in 1..k
    <3>1. \A i \in 1..Len(s) : a + i - 1 = d + i /\ d + i \in 1..k
      BY <1>1, <2>3, <2>5, <2>6
    <3> QED BY <1>1, <2>3, <2>5, <2>6, <3>1
  <2>8. Clean(s)
    <3>1. \A i \in 1..Len(s) : s[i] # Nul /\ s[i] # Newline
      BY <1>1, <2>7, CleanFacts
    <3> QED BY <2>5, <3>1, CleanIf
  <2>9. /\ \A i \in 1..d : t[i] \in Blank
        /\ \A i \in (d + Len(s) + 1)..k : t[i] \in Blank
    <3>1. \A i \in 1..d : i \in 1..k /\ ~(a <= i)
      BY <1>1, <2>3, <2>6
    <3>2. \A i \in (d + Len(s) + 1)..k : i \in 1..k /\ ~(c >= i)
      BY <1>1, <2>3, <2>7
    <3> QED BY <1>2, <2>2, <3>1, <3>2
  <2>10. s # <<>> /\ s[1] \notin Blank /\ s[Len(s)] \notin Blank
    <3>1. 1 \in 1..Len(s) /\ Len(s) \in 1..Len(s) /\ d + 1 = a /\ d + Len(s) = c /\ s # <<>>
      BY <2>3, <2>5, <2>6, <2>7
    <3>2. s[1] = t[a] /\ s[Len(s)] = t[c]
      BY <2>7, <3>1
    <3> QED BY <1>2, <2>2, <3>1, <3>2
  <2>11. InMiddle(s, t, d)
    <3>1. d + Len(s) <= k
      BY <1>1, <2>3, <2>7
    <3> QED BY <1>1, <2>7, <2>9, <2>10, <3>1 DEF InMiddle
  <2>12. Stripped(t) = s
    BY <1>4, <2>1, <2>4 DEF Stripped
  <2> QED BY <2>8, <2>11, <2>12
<1> QED BY <1>3, <1>4

(* scapar_str_remove_spaces *)
LEMMA TrimHolds ==
  ASSUME NEW b, b[Size - 1] = Nul, NEW t, Clean(t), Holds(b, 0, t)
  PROVE  Holds(Trimmed(b), 0, Stripped(t)) /\ Trimmed(b)[Size - 1] = Nul
<1>1. PICK s : s = Stripped(t)
  OBVIOUS
<1>2. PICK d : Clean(s) /\ InMiddle(s, t, d)
  BY <1>1, StrippedFacts
<1>3. PICK k, l : k = Len(t) /\ k \in Nat /\ l = Len(s) /\ l \in Nat
  BY <1>2, CleanFacts
<1>4. /\ d \in 0..k /\ d \in Nat /\ d + l <= k
      /\ \A i \in 1..d : t[i] \in Blank
      /\ \A i \in 1..l : s[i] = t[d + i]
      /\ \A i \in (d + l + 1)..k : t[i] \in Blank
      /\ l = 0 => d = k
      /\ l # 0 => s[1] \notin Space /\ s[l] \notin Space
  <2>1. l = 0 => s = <<>>
    <3>1. PICK C : s \in Seq(C)
      BY <1>2, CleanFacts
    <3> QED BY <1>3, <3>1, EmptySeq
  <2>2. l # 0 => s # <<>> /\ 1 \in 1..l /\ l \in 1..l
    BY <1>3
  <2>3. l # 0 => s[1] \notin Space /\ s[l] \notin Space
    BY <1>2, <1>3, <2>2, CleanFacts, SpaceFacts DEF InMiddle
  <2> QED BY <1>2, <1>3, <2>1, <2>3 DEF InMiddle
<1>5. /\ k <= Size - 1 /\ Size \in Nat \ {0} /\ b[k] = Nul
      /\ \A j \in 0..(k - 1) : b[j] = t[j + 1]
  <2>1. /\ k <= Size - 1 /\ Size \in Nat \ {0} /\ b[k] = Nul
        /\ \A i \in 1..k : b[i - 1] = t[i]
    <3>1. 0 + k = k /\ \A i \in 1..k : 0 + i - 1 = i - 1
      BY <1>3
    <3> QED BY <1>3, <3>1, KeyLineAssumption DEF Holds
  <2>2. \A j \in 0..(k - 1) : j + 1 \in 1..k /\ (j + 1) - 1 = j
    BY <1>3
  <2> QED BY <2>1, <2>2
<1>6. Skip(b, 0, Space) = d
  <2>1. d \in 0..(Size - 1)
    BY <1>3, <1>4, <1>5
  <2>2. b[d] \notin Space
    <3>1. CASE l = 0
      BY <1>4, <1>5, <3>1, SpaceFacts
    <3>2. CASE l # 0
      <4>1. d \in 0..(k - 1) /\ 1 \in 1..l
        BY <1>3, <1>4, <3>2
      <4>2. b[d] = t[d + 1] /\ s[1] = t[d + 1]
        BY <1>4, <1>5, <4>1
      <4> QED BY <1>4, <3>2, <4>2
    <3> QED BY <3>1, <3>2
  <2>3. \A j \in 0..(d - 1) : b[j] \in Space
    <3> TAKE j \in 0..(d - 1)
    <3>1. j \in 0..(k - 1) /\ j + 1 \in 1..d
      BY <1>3, <1>4
    <3> QED BY <1>4, <1>5, <3>1, SpaceFacts
  <2> QED BY <2>1, <2>2, <2>3, SkipIs
<1>7. EndOf(b, d) = k
  <2>1. PICK r : r = SubSeq(t, d + 1, Len(t))
    OBVIOUS
  <2>2. Holds(b, d, r) /\ Clean(r) /\ Len(r) = k - d
    BY <1>3, <1>4, <2>1, HeldRest
  <2>3. EndOf(b, d) = d + (k - d)
    BY <1>4, <2>2, HeldString
  <2> QED BY <1>3, <1>4, <2>3
<1>8. PICK m : m = IF d = 0 THEN b ELSE Moved(b, d)
  OBVIOUS
<1>9. (\A i \in 0..(k - d) : m[i] = b[i + d]) /\ m[Size - 1] = Nul
  <2>1. CASE d = 0
    BY <1>3, <1>8, <2>1
  <2>2. CASE d # 0
    <3>1. m = [i \in 0..(Size - 1) |-> IF i <= k - d THEN b[i + d] ELSE b[i]]
      BY <1>7, <1>8, <2>2 DEF Moved
    <3>2. \A i \in 0..(k - d) : i \in 0..(Size - 1) /\ i <= k - d
      BY <1>3, <1>4, <1>5
    <3>3. Size - 1 \in 0..(Size - 1) /\ ~(Size - 1 <= k - d)
      BY <1>3, <1>4, <1>5, <2>2
    <3> QED BY <3>1, <3>2, <3>3
  <2> QED BY <2>1, <2>2
<1>10. \A i \in 0..(k - d - 1) : m[i] = t[d + i + 1]
  <2> TAKE i \in 0..(k - d - 1)
  <2>1. i \in 0..(k - d) /\ i + d \in 0..(k - 1) /\ (i + d) + 1 = d + i + 1
    BY <1>3, <1>4
  <2> QED BY <1>5, <1>9, <2>1
<1>11. EndOf(m, 0) = k - d
  <2>1. k - d \in 0..(Size - 1) /\ m[k - d] \in {Nul}
    <3>1. k - d \in 0..(k - d) /\ (k - d) + d = k /\ k - d \in 0..(Size - 1)
      BY <1>3, <1>4, <1>5
    <3> QED BY <1>5, <1>9, <3>1
  <2>2. \A j \in 0..((k - d) - 1) : m[j] \notin {Nul}
    <3> TAKE j \in 0..((k - d) - 1)
    <3>1. d + j + 1 \in 1..k
      BY <1>3, <1>4
    <3>2. t[d + j + 1] # Nul
      BY <1>3, <3>1, CleanFacts
    <3> QED BY <1>10, <3>2
  <2> QED BY <2>1, <2>2, FirstIs DEF EndOf
<1>12. PICK c : c = Trimmed(b)
  OBVIOUS
<1>13. c = [i \in 0..(Size - 1) |->
             IF i < k - d /\ \A j \in i..((k - d) - 1) : m[j] \in Space THEN Nul ELSE m[i]]
  <2>1. c = CutTail(m)
    BY <1>6, <1>8, <1>12 DEF Trimmed
  <2> QED BY <1>11, <2>1 DEF CutTail
<1>14. c[Size - 1] = Nul
  <2>1. Size - 1 \in 0..(Size - 1)
    BY <1>5
  <2> QED BY <1>9, <1>13, <2>1
<1>15. \A i \in 1..l : c[i - 1] = s[i]
  <2> TAKE i \in 1..l
  <2>1. /\ i - 1 \in 0..(k - d - 1) /\ i - 1 \in 0..(Size - 1) /\ l # 0
        /\ l - 1 \in (i - 1)..((k - d) - 1) /\ l - 1 \in 0..(k - d - 1) /\ l \in 1..l
        /\ d + (i - 1) + 1 = d + i /\ d + (l - 1) + 1 = d + l
    BY <1>3, <1>4, <1>5
  <2>2. m[l - 1] = s[l] /\ m[i - 1] = s[i]
    BY <1>4, <1>10, <2>1
  <2>3. m[l - 1] \notin Space
    BY <1>4, <2>1, <2>2
  <2> QED BY <1>13, <2>1, <2>2, <2>3
<1>16. c[l] = Nul /\ l <= Size - 1
  <2>1. l \in 0..(Size - 1) /\ l \in 0..(k - d)
    BY <1>3, <1>4, <1>5
  <2>2. CASE l < k - d
    <3>1. \A j \in l..((k - d) - 1) : m[j] \in Space
      <4> TAKE j \in l..((k - d) - 1)
      <4>1. j \in 0..(k - d - 1) /\ d + j + 1 \in (d + l + 1)..k
        BY <1>3, <1>4
      <4> QED BY <1>4, <1>10, <4>1, SpaceFacts
    <3> QED BY <1>5, <1>13, <2>1, <2>2, <3>1
  <2>3. CASE l = k - d
    <3>1. m[l] = Nul
      <4>1. l + d = k
        BY <1>3, <1>4, <2>3
      <4> QED BY <1>5, <1>9, <2>1, <4>1
    <3>2. ~(l < k - d)
      BY <1>3, <1>4, <2>3
    <3> QED BY <1>5, <1>13, <2>1, <3>1, <3>2
  <2> QED BY <1>3, <1>4, <2>1, <2>2, <2>3
<1>17. Holds(c, 0, s)
  <2>1. 0 + l = l /\ \A i \in 1..l : 0 + i - 1 = i - 1
    BY <1>3
  <2> QED BY <1>3, <1>15, <1>16, <2>1 DEF Holds
<1> QED BY <1>1, <1>12, <1>14, <1>17

-----------------------------------------------------------------------------
(* Keyword and value *)

LEMMA SepFacts ==
  ASSUME NEW s, Clean(s)
  PROVE  /\ Seps(s) \in SUBSET Nat /\ Seps(s) \in SUBSET (1..Len(s))
         /\ \A i \in 1..Len(s) : i \in Seps(s) <=> s[i] \in KeyEnds
         /\ ~Alone(s) => Lo(Seps(s)) \in Seps(s) /\ \A j \in Seps(s) : Lo(Seps(s)) <= j
<1>1. Len(s) \in Nat /\ DOMAIN s = 1..Len(s) /\ \A i \in 1..Len(s) : s[i] # Nul /\ s[i] # Newline
  BY CleanFacts
<1>2. Seps(s) \in SUBSET Nat /\ Seps(s) \in SUBSET (1..Len(s))
  <2>1. PICK k : k = Len(s)
    OBVIOUS
  <2>2. \A i \in Seps(s) : i \in 1..k
    BY <1>1, <2>1 DEF Seps
  <2>3. \A i \in 1..k : i \in Nat
    OBVIOUS
  <2> QED BY <2>1, <2>2, <2>3
<1>3. ASSUME NEW i \in 1..Len(s)
      PROVE  i \in Seps(s) <=> s[i] \in KeyEnds
  <2>1. i \in Seps(s) <=> s[i] \in {" ", ":", "="}
    BY <1>1 DEF Seps
  <2>2. s[i] \in KeyEnds <=> (s[i] \in Space \/ s[i] = Nul \/ s[i] = "=" \/ s[i] = ":")
    BY DEF KeyEnds
  <2> QED BY <1>1, <2>1, <2>2, SpaceFacts
<1>4. ~Alone(s) => Seps(s) # {}
  BY DEF Alone
<1> QED BY <1>2, <1>3, <1>4, LoFacts

(* scapar_sec_parse_from_fh: where the keyword ends *)
LEMMA KeyHeld ==
  ASSUME NEW b, NEW s, Clean(s), Holds(b, 0, s)
  PROVE  /\ Chars(b, 0, First(b, 0, KeyEnds)) = KeyOf(s)
         /\ ~Alone(s) => First(b, 0, KeyEnds) + 1 = Lo(Seps(s))
<1>1. PICK k, C : k = Len(s) /\ k \in Nat /\ DOMAIN s = 1..k /\ s \in Seq(C)
  BY CleanFacts
<1>2. k <= Size - 1 /\ Size \in Nat \ {0} /\ b[k] = Nul /\ \A i \in 1..k : b[i - 1] = s[i]
  <2>1. 0 + k = k /\ \A i \in 1..k : 0 + i - 1 = i - 1
    BY <1>1
  <2> QED BY <1>1, <2>1, KeyLineAssumption DEF Holds
<1>3. ASSUME NEW e \in 0..k
      PROVE  Chars(b, 0, e) = SubSeq(s, 1, e)
  <2>1. Chars(b, 0, e) = [i \in 1..e |-> b[i - 1]]
    <3>1. e - 0 = e /\ \A i \in 1..e : 0 + i - 1 = i - 1
      BY <1>3
    <3> QED BY <3>1 DEF Chars
  <2>2. SubSeq(s, 1, e) = [i \in 1..e |-> s[i]]
    <3>1. 1 \in 1..(Len(s) + 1) /\ e \in (1 - 1)..Len(s) /\ e - 1 + 1 = e
          /\ \A i \in 1..e : 1 + i - 1 = i
      BY <1>1
    <3>2. SubSeq(s, 1, e) = [i \in 1..(e - 1 + 1) |-> s[1 + i - 1]]
      BY <1>1, <3>1, PartOf
    <3> QED BY <3>1, <3>2
  <2>3. \A i \in 1..e : i \in 1..k
    BY <1>1
  <2> QED BY <1>2, <2>1, <2>2, <2>3
<1>4. CASE Alone(s)
  <2>1. \A i \in 1..k : s[i] \notin KeyEnds
    BY <1>1, <1>4, SepFacts DEF Alone
  <2>2. k \in 0..(Size - 1) /\ b[k] \in KeyEnds
    BY <1>1, <1>2 DEF KeyEnds
  <2>3. \A j \in 0..(k - 1) : b[j] \notin KeyEnds
    <3> TAKE j \in 0..(k - 1)
    <3>1. j + 1 \in 1..k /\ (j + 1) - 1 = j
      BY <1>1
    <3> QED BY <1>2, <2>1, <3>1
  <2>4. First(b, 0, KeyEnds) = k
    BY <2>2, <2>3, FirstIs
  <2>5. SubSeq(s, 1, k) = s
    <3>1. 1 \in 1..(Len(s) + 1) /\ k \in (1 - 1)..Len(s) /\ k - 1 + 1 = k
      BY <1>1
    <3>2. PICK r : r = SubSeq(s, 1, k)
      OBVIOUS
    <3>3. r \in Seq(C) /\ Len(r) = k /\ \A i \in 1..k : r[i] = s[1 + i - 1]
      BY <1>1, <3>1, <3>2, PartOf
    <3>4. \A i \in 1..k : r[i] = s[i]
      <4>1. \A i \in 1..k : 1 + i - 1 = i
        BY <1>1
      <4> QED BY <3>3, <4>1
    <3> QED BY <1>1, <3>2, <3>3, <3>4, SeqEqual
  <2> QED BY <1>1, <1>3, <1>4, <2>4, <2>5 DEF KeyOf
<1>5. CASE ~Alone(s)
  <2>1. PICK l : l = Lo(Seps(s))
    OBVIOUS
  <2>2. l \in 1..k /\ s[l] \in KeyEnds /\ \A i \in 1..k : s[i] \in KeyEnds => l <= i
    BY <1>1, <1>5, <2>1, SepFacts
  <2>3. l - 1 \in 0..(Size - 1) /\ b[l - 1] \in KeyEnds /\ l - 1 \in 0..k /\ (l - 1) + 1 = l
    BY <1>1, <1>2, <2>2
  <2>4. \A j \in 0..((l - 1) - 1) : b[j] \notin KeyEnds
    <3> TAKE j \in 0..((l - 1) - 1)
    <3>1. j + 1 \in 1..k /\ (j + 1) - 1 = j /\ ~(l <= j + 1)
      BY <1>1, <2>2
    <3> QED BY <1>2, <2>2, <3>1
  <2>5. First(b, 0, KeyEnds) = l - 1
    BY <2>3, <2>4, FirstIs
  <2> QED BY <1>3, <1>5, <2>1, <2>3, <2>5 DEF KeyOf
<1> QED BY <1>4, <1>5

(* The byte that the value of a line starts at *)
ValueAt(s) == IF Rest(s) = {} THEN Len(s) ELSE Lo(Rest(s)) - 1

LEMMA ValueHeld ==
  ASSUME NEW b, NEW s, Clean(s), Holds(b, 0, s), ~Alone(s)
  PROVE  /\ Skip(b, Lo(Seps(s)), Space \cup {":"}) = ValueAt(s)
         /\ ValueAt(s) \in 0..Len(s) /\ ValueOf(s) = SubSeq(s, ValueAt(s) + 1, Len(s))
         /\ Holds(b, ValueAt(s), ValueOf(s)) /\ Clean(ValueOf(s))
<1>1. PICK k, C : k = Len(s) /\ k \in Nat /\ DOMAIN s = 1..k /\ s \in Seq(C)
  BY CleanFacts
<1>2. k <= Size - 1 /\ Size \in Nat \ {0} /\ b[k] = Nul /\ \A i \in 1..k : b[i - 1] = s[i]
  <2>1. 0 + k = k /\ \A i \in 1..k : 0 + i - 1 = i - 1
    BY <1>1
  <2> QED BY <1>1, <2>1, KeyLineAssumption DEF Holds
<1>3. PICK l : l = Lo(Seps(s))
  OBVIOUS
<1>4. l \in 1..k
  BY <1>1, <1>3, SepFacts
<1>5. PICK T : T = Space \cup {":"}
  OBVIOUS
<1>6. /\ Rest(s) \in SUBSET Nat /\ Rest(s) \in SUBSET (1..k)
      /\ \A i \in 1..k : i \in Rest(s) <=> i > l /\ s[i] \notin T
  <2>1. \A i \in 1..k : s[i] # Newline
    BY <1>1, CleanFacts
  <2>2. \A i \in 1..k : s[i] \in T <=> s[i] \in {" ", ":"}
    BY <1>5, <2>1, SpaceFacts
  <2>3. \A i \in Rest(s) : i \in 1..k
    BY <1>1 DEF Rest
  <2>4. \A i \in 1..k : i \in Nat
    OBVIOUS
  <2>5. \A i \in 1..k : i \in Rest(s) <=> i > l /\ s[i] \notin T
    BY <1>1, <1>3, <2>2 DEF Rest
  <2> QED BY <2>3, <2>4, <2>5
<1>7. Nul \notin T
  BY <1>5, SpaceFacts
<1>8. PICK z : z = ValueAt(s)
  OBVIOUS
<1>9. /\ z \in l..k /\ (z = k \/ s[z + 1] \notin T)
      /\ \A i \in (l + 1)..z : s[i] \in T
      /\ ValueOf(s) = SubSeq(s, z + 1, k)
  <2>1. CASE Rest(s) = {}
    <3>1. z = k /\ ValueOf(s) = <<>>
      BY <1>1, <1>8, <2>1 DEF ValueAt, ValueOf
    <3>2. SubSeq(s, k + 1, k) = <<>>
      <4>1. k + 1 \in 1..(Len(s) + 1) /\ k \in ((k + 1) - 1)..Len(s) /\ k - (k + 1) + 1 = 0
        BY <1>1
      <4>2. PICK r : r = SubSeq(s, k + 1, k)
        OBVIOUS
      <4>3. r \in Seq(C) /\ Len(r) = 0
        BY <1>1, <4>1, <4>2, PartOf
      <4> QED BY <4>2, <4>3, EmptySeq
    <3>3. \A i \in (l + 1)..k : i \in 1..k /\ i > l
      BY <1>1, <1>4
    <3>4. z \in l..k
      BY <1>1, <1>4, <3>1
    <3> QED BY <1>6, <2>1, <3>1, <3>2, <3>3, <3>4
  <2>2. CASE Rest(s) # {}
    <3>1. PICK a : a = Lo(Rest(s))
      OBVIOUS
    <3>2. a \in Rest(s) /\ \A j \in Rest(s) : a <= j
      BY <1>6, <2>2, <3>1, LoFacts
    <3>3. a \in 1..k /\ a > l /\ s[a] \notin T /\ z = a - 1
      BY <1>6, <1>8, <2>2, <3>1, <3>2 DEF ValueAt
    <3>4. z + 1 = a /\ z \in l..k
      BY <1>1, <1>4, <3>3
    <3>5. \A i \in (l + 1)..z : s[i] \in T
      <4> TAKE i \in (l + 1)..z
      <4>1. i \in 1..k /\ i > l /\ ~(a <= i)
        BY <1>1, <1>4, <3>3
      <4> QED BY <1>6, <3>2, <4>1
    <3>6. ValueOf(s) = SubSeq(s, a, k)
      BY <1>1, <2>2, <3>1 DEF ValueOf
    <3> QED BY <3>3, <3>4, <3>5, <3>6
  <2> QED BY <2>1, <2>2
<1>10. z \in 0..k /\ z \in l..(Size - 1) /\ l \in Nat
  BY <1>1, <1>2, <1>4, <1>9
<1>11. b[z] \notin T
  <2>1. CASE z = k
    BY <1>2, <1>7, <2>1
  <2>2. CASE z # k
    <3>1. z + 1 \in 1..k /\ (z + 1) - 1 = z
      BY <1>1, <1>10, <2>2
    <3> QED BY <1>2, <1>9, <2>2, <3>1
  <2> QED BY <2>1, <2>2
<1>12. \A j \in l..(z - 1) : b[j] \in T
  <2> TAKE j \in l..(z - 1)
  <2>1. j + 1 \in (l + 1)..z /\ j + 1 \in 1..k /\ (j + 1) - 1 = j
    BY <1>1, <1>4, <1>10
  <2> QED BY <1>2, <1>9, <2>1
<1>13. Skip(b, l, T) = z
  BY <1>10, <1>11, <1>12, SkipIs
<1>14. Holds(b, z, SubSeq(s, z + 1, k)) /\ Clean(SubSeq(s, z + 1, k))
  BY <1>1, <1>10, HeldRest
<1> QED BY <1>1, <1>3, <1>5, <1>8, <1>9, <1>10, <1>13, <1>14

-----------------------------------------------------------------------------
(* Words *)

LEMMA WordsFinite ==
  ASSUME NEW v, Clean(v)
  PROVE  /\ IsFiniteSet(WordsOf(v))
         /\ \A u \in WordsOf(v) : u[1] \in 1..Len(v) /\ u[2] \in 1..Len(v) /\ u = <<u[1], u[2]>>
<1>1. Len(v) \in Nat /\ DOMAIN v = 1..Len(v)
  BY CleanFacts
<1>2. WordsOf(v) \in SUBSET ((1..Len(v)) \X (1..Len(v)))
  BY <1>1 DEF WordsOf
<1>3. IsFiniteSet(1..Len(v))
  BY <1>1, FS_Interval
<1>4. IsFiniteSet((1..Len(v)) \X (1..Len(v)))
  BY <1>3, FS_Product
<1>5. IsFiniteSet(WordsOf(v))
  BY <1>2, <1>4, FS_Subset
<1> QED BY <1>2, <1>5

(* The first r characters of v end where no word goes on. *)
Boundary(v, r) == r \in 0..Len(v) /\ (r = 0 \/ r = Len(v) \/ v[r + 1] \in Blank)

(* The next word behind a boundary *)
LEMMA NextWordIs ==
  ASSUME NEW v, Clean(v), NEW r, Boundary(v, r),
         NEW a, a \in (r + 1)..Len(v), NEW c, c \in a..Len(v),
         \A j \in (r + 1)..(a - 1) : v[j] \in Blank,
         \A j \in a..c : v[j] \notin Blank,
         c = Len(v) \/ v[c + 1] \in Blank
  PROVE  /\ <<a, c>> \in WordsOf(v) /\ Boundary(v, c)
         /\ <<a, c>> \notin {u \in WordsOf(v) : u[1] <= r}
         /\ {u \in WordsOf(v) : u[1] <= c} = {u \in WordsOf(v) : u[1] <= r} \cup {<<a, c>>}
         /\ {u \in WordsOf(v) : u[1] < a} = {u \in WordsOf(v) : u[1] <= r}
<1>1. PICK k : k = Len(v)
  OBVIOUS
<1>2. /\ k \in Nat /\ DOMAIN v = 1..k /\ r \in Nat /\ a \in Nat /\ c \in Nat
      /\ r < a /\ a <= c /\ c <= k /\ a \in 1..k /\ c \in 1..k
  <2>1. k \in Nat /\ DOMAIN v = 1..k /\ r \in 0..k
    BY <1>1, CleanFacts DEF Boundary
  <2> QED BY <1>1, <2>1
<1>3. r = 0 \/ r = k \/ v[r + 1] \in Blank
  BY <1>1 DEF Boundary
<1>4. a = 1 \/ v[a - 1] \in Blank
  <2>1. CASE a = r + 1
    <3>1. a \in a..c /\ r # k
      BY <1>2, <2>1
    <3>2. v[r + 1] \notin Blank
      BY <2>1, <3>1
    <3> QED BY <1>3, <2>1, <3>1, <3>2
  <2>2. CASE a # r + 1
    <3>1. a - 1 \in (r + 1)..(a - 1)
      BY <1>2, <2>2
    <3> QED BY <3>1
  <2> QED BY <2>1, <2>2
<1>5. PICK w : w = <<a, c>>
  OBVIOUS
<1>6. w \in (1..k) \X (1..k) /\ w[1] = a /\ w[2] = c
  BY <1>2, <1>5
<1>7. w \in WordsOf(v)
  <2>1. c = k \/ v[c + 1] \in Blank
    BY <1>1
  <2>2. w[1] <= w[2] /\ \A j \in w[1]..w[2] : v[j] \notin Blank
    BY <1>2, <1>6
  <2> QED BY <1>1, <1>2, <1>4, <1>6, <2>1, <2>2 DEF WordsOf
<1>8. ~(w[1] <= r) /\ w[1] <= c
  BY <1>2, <1>6
<1>9. \A u \in WordsOf(v) :
        /\ u[1] \in 1..k /\ u[2] \in 1..k /\ u[1] <= u[2] /\ u = <<u[1], u[2]>>
        /\ \A j \in u[1]..u[2] : v[j] \notin Blank
        /\ u[1] = 1 \/ v[u[1] - 1] \in Blank
        /\ u[2] = k \/ v[u[2] + 1] \in Blank
  BY <1>1, WordsFinite DEF WordsOf
<1>10. ASSUME NEW u \in WordsOf(v), u[1] < a
       PROVE  u[1] <= r
  <2>1. PICK x, y : x = u[1] /\ y = u[2]
    OBVIOUS
  <2>2. x \in Nat /\ y \in Nat /\ x <= y
    BY <1>9, <2>1
  <2>3. v[x] \notin Blank
    <3>1. x \in x..y
      BY <2>2
    <3> QED BY <1>9, <2>1, <3>1
  <2> SUFFICES ASSUME ~(x <= r) PROVE FALSE
    BY <2>1
  <2>4. x \in (r + 1)..(a - 1)
    BY <1>2, <1>10, <2>1, <2>2
  <2> QED BY <2>3, <2>4
<1>11. ASSUME NEW u \in WordsOf(v), u[1] <= c, ~(u[1] < a)
       PROVE  u = w
  <2>1. PICK x, y : x = u[1] /\ y = u[2]
    OBVIOUS
  <2>2. /\ x \in Nat /\ y \in Nat /\ x <= y /\ x >= 1 /\ y <= k /\ u = <<x, y>>
        /\ x <= c /\ x >= a
        /\ \A j \in x..y : v[j] \notin Blank
        /\ x = 1 \/ v[x - 1] \in Blank
        /\ y = k \/ v[y + 1] \in Blank
    BY <1>2, <1>9, <1>11, <2>1
  <2>3. x = a
    <3> SUFFICES ASSUME x # a PROVE FALSE
      OBVIOUS
    <3>1. x - 1 \in a..c /\ x # 1
      BY <1>2, <2>2
    <3> QED BY <2>2, <3>1
  <2>4. ~(y < c)
    <3> SUFFICES ASSUME y < c PROVE FALSE
      OBVIOUS
    <3>1. y + 1 \in a..c /\ y # k
      BY <1>2, <2>2, <2>3
    <3> QED BY <2>2, <3>1
  <2>5. ~(c < y)
    <3> SUFFICES ASSUME c < y PROVE FALSE
      OBVIOUS
    <3>1. c + 1 \in x..y /\ c # k
      BY <1>2, <2>2, <2>3
    <3> QED BY <1>1, <2>2, <3>1
  <2>6. y = c
    BY <1>2, <2>2, <2>4, <2>5
  <2> QED BY <1>5, <2>2, <2>3, <2>6
<1>12. \A u \in WordsOf(v) : u[1] <= r => u[1] < a /\ u[1] <= c
  <2> TAKE u \in WordsOf(v)
  <2>1. PICK x : x = u[1] /\ x \in Nat
    BY <1>9
  <2> QED BY <1>2, <2>1
<1>13. {u \in WordsOf(v) : u[1] <= c} = {u \in WordsOf(v) : u[1] <= r} \cup {w}
  BY <1>7, <1>8, <1>10, <1>11, <1>12
<1>14. {u \in WordsOf(v) : u[1] < a} = {u \in WordsOf(v) : u[1] <= r}
  BY <1>10, <1>12
<1>15. Boundary(v, c)
  <2>1. c \in 0..k
    BY <1>2
  <2> QED BY <1>1, <2>1 DEF Boundary
<1> QED BY <1>5, <1>7, <1>8, <1>13, <1>14, <1>15

(* A word is the k-th if k - 1 words are before it. *)
LEMMA WordIs ==
  ASSUME NEW v, Clean(v), NEW w \in WordsOf(v), NEW k,
         Cardinality({u \in WordsOf(v) : u[1] < w[1]}) = k - 1
  PROVE  Word(v, k) = SubSeq(v, w[1], w[2])
<1> DEFINE Before(x) == {u \in WordsOf(v) : u[1] < x[1]}
<1>1. \A x \in WordsOf(v) : IsFiniteSet(Before(x)) /\ Cardinality(Before(x)) \in Nat
  <2> TAKE x \in WordsOf(v)
  <2>1. IsFiniteSet(Before(x))
    <3>1. Before(x) \in SUBSET WordsOf(v)
      OBVIOUS
    <3> HIDE DEF Before
    <3> QED BY <3>1, WordsFinite, FS_Subset
  <2> HIDE DEF Before
  <2> QED BY <2>1, FS_CardinalityType
<1>2. ASSUME NEW x \in WordsOf(v), NEW y \in WordsOf(v), x[1] < y[1]
      PROVE  Cardinality(Before(x)) < Cardinality(Before(y))
  <2>1. x \in Before(y) /\ x \notin Before(x)
    <3>1. x[1] \in Nat
      BY WordsFinite, CleanFacts
    <3> QED BY <1>2, <3>1
  <2>2. Before(x) \in SUBSET Before(y)
    <3>1. \A u \in WordsOf(v) : u[1] \in Nat
      BY WordsFinite, CleanFacts
    <3> QED BY <1>2, <3>1
  <2>3. Before(x) \cup {x} \in SUBSET Before(y)
    <3> HIDE DEF Before
    <3> QED BY <2>1, <2>2
  <2> HIDE DEF Before
  <2>4. Cardinality(Before(x) \cup {x}) = Cardinality(Before(x)) + 1
    BY <1>1, <2>1, FS_AddElement
  <2>5. Cardinality(Before(x) \cup {x}) <= Cardinality(Before(y))
    BY <1>1, <2>3, FS_Subset
  <2> QED BY <1>1, <2>4, <2>5
<1>3. ASSUME NEW x \in WordsOf(v), Cardinality(Before(x)) = Cardinality(Before(w))
      PROVE  x = w
  <2>1. /\ x[1] \in 1..Len(v) /\ x[2] \in 1..Len(v) /\ x = <<x[1], x[2]>> /\ x[1] <= x[2]
        /\ w[1] \in 1..Len(v) /\ w[2] \in 1..Len(v) /\ w = <<w[1], w[2]>> /\ w[1] <= w[2]
        /\ \A j \in x[1]..x[2] : v[j] \notin Blank
        /\ \A j \in w[1]..w[2] : v[j] \notin Blank
        /\ x[2] = Len(v) \/ v[x[2] + 1] \in Blank
        /\ w[2] = Len(v) \/ v[w[2] + 1] \in Blank
        /\ Len(v) \in Nat
    BY WordsFinite, CleanFacts DEF WordsOf
  <2>2. ~(x[1] < w[1]) /\ ~(w[1] < x[1])
    <3> HIDE DEF Before
    <3>1. Cardinality(Before(x)) \in Nat /\ Cardinality(Before(w)) \in Nat
      BY <1>1
    <3> QED BY <1>2, <1>3, <3>1
  <2>3. x[1] = w[1]
    BY <2>1, <2>2
  <2>4. ~(x[2] < w[2])
    <3> SUFFICES ASSUME x[2] < w[2] PROVE FALSE
      OBVIOUS
    <3>1. x[2] + 1 \in w[1]..w[2] /\ x[2] # Len(v)
      BY <2>1, <2>3
    <3> QED BY <2>1, <3>1
  <2>5. ~(w[2] < x[2])
    <3> SUFFICES ASSUME w[2] < x[2] PROVE FALSE
      OBVIOUS
    <3>1. w[2] + 1 \in x[1]..x[2] /\ w[2] # Len(v)
      BY <2>1, <2>3
    <3> QED BY <2>1, <3>1
  <2>6. x[2] = w[2]
    BY <2>1, <2>4, <2>5
  <2> QED BY <2>1, <2>3, <2>6
<1>4. Cardinality(Before(w)) = k - 1
  OBVIOUS
<1>5. Word(v, k) = LET x == CHOOSE x \in WordsOf(v) : Cardinality(Before(x)) = k - 1
                   IN  SubSeq(v, x[1], x[2])
  BY DEF Word
<1> HIDE DEF Before
<1>6. (CHOOSE x \in WordsOf(v) : Cardinality(Before(x)) = k - 1) = w
  BY <1>3, <1>4
<1> QED BY <1>5, <1>6

(* Where the blanks behind the first r characters of a value end *)
BlanksEnd(b, z, v, r, a) ==
  /\ a \in (r + 1)..(Len(v) + 1)
  /\ Skip(b, z + r, Blank) = z + a - 1
  /\ \A j \in (r + 1)..(a - 1) : v[j] \in Blank
  /\ a # Len(v) + 1 => v[a] \notin Blank /\ b[z + a - 1] # Nul
  /\ a = Len(v) + 1 => b[z + a - 1] = Nul
LEMMA BlanksHeld ==
  ASSUME NEW b, NEW z, z \in Nat, NEW v, Clean(v), Holds(b, z, v), NEW r, r \in 0..Len(v)
  PROVE  \E a : BlanksEnd(b, z, v, r, a)
<1>1. PICK k : k = Len(v) /\ k \in Nat
  BY CleanFacts
<1>2. /\ z + k <= Size - 1 /\ Size \in Nat /\ b[z + k] = Nul
      /\ \A i \in 1..k : b[z + i - 1] = v[i] /\ v[i] # Nul
  BY <1>1, CleanFacts, KeyLineAssumption DEF Holds
<1>3. z + r \in Nat /\ z + k \in (z + r)..(Size - 1) /\ b[z + k] \notin Blank
  <2>1. z + r \in Nat /\ z + k \in (z + r)..(Size - 1)
    BY <1>1, <1>2
  <2> QED BY <1>2, <2>1, SpaceFacts
<1>4. PICK i : i = Skip(b, z + r, Blank)
  OBVIOUS
<1>5. /\ i \in (z + r)..(z + k) /\ b[i] \notin Blank
      /\ \A j \in (z + r)..(i - 1) : b[j] \in Blank
  BY <1>3, <1>4, SkipFacts
<1>6. PICK a : a = i - z + 1
  OBVIOUS
<1>7. a \in (r + 1)..(k + 1) /\ i = z + a - 1
  BY <1>1, <1>5, <1>6
<1>8. \A j \in (r + 1)..(a - 1) : v[j] \in Blank
  <2> TAKE j \in (r + 1)..(a - 1)
  <2>1. j \in 1..k /\ z + j - 1 \in (z + r)..(i - 1)
    BY <1>1, <1>7
  <2> QED BY <1>2, <1>5, <2>1
<1>9. CASE a = k + 1
  <2>1. z + a - 1 = z + k
    BY <1>1, <1>9
  <2>2. b[z + a - 1] = Nul
    BY <1>2, <2>1
  <2> QED BY <1>1, <1>4, <1>7, <1>8, <1>9, <2>2 DEF BlanksEnd
<1>10. CASE a # k + 1
  <2>1. a \in 1..k
    BY <1>1, <1>7, <1>10
  <2>2. b[z + a - 1] = v[a] /\ v[a] # Nul /\ v[a] \notin Blank
    BY <1>2, <1>5, <1>7, <2>1
  <2> QED BY <1>1, <1>4, <1>7, <1>8, <1>10, <2>2 DEF BlanksEnd
<1> QED BY <1>9, <1>10

(* Where a word ends *)
WordEnds(b, z, v, a, c) ==
  /\ c \in a..Len(v)
  /\ WordEnd(b, z + a - 1) = z + c
  /\ \A j \in a..c : v[j] \notin Blank
  /\ c = Len(v) \/ v[c + 1] \in Blank
  /\ Chars(b, z + a - 1, z + c) = SubSeq(v, a, c)
LEMMA WordHeld ==
  ASSUME NEW b, NEW z, z \in Nat, NEW v, Clean(v), Holds(b, z, v),
         NEW a, a \in 1..Len(v), v[a] \notin Blank
  PROVE  \E c : WordEnds(b, z, v, a, c)
<1>1. PICK k, C : k = Len(v) /\ k \in Nat /\ v \in Seq(C)
  BY CleanFacts
<1>2. /\ z + k <= Size - 1 /\ Size \in Nat /\ b[z + k] = Nul
      /\ \A i \in 1..k : b[z + i - 1] = v[i] /\ v[i] # Nul
  BY <1>1, CleanFacts, KeyLineAssumption DEF Holds
<1>3. PICK T : T = Blank \cup {Nul}
  OBVIOUS
<1>4. PICK i : i = z + a - 1
  OBVIOUS
<1>5. i \in Nat /\ z + k \in i..(Size - 1) /\ b[z + k] \in T
  BY <1>1, <1>2, <1>3, <1>4
<1>6. PICK e : e = WordEnd(b, i)
  OBVIOUS
<1>7. e \in i..(z + k) /\ b[e] \in T /\ \A j \in i..(e - 1) : b[j] \notin T
  <2>1. e = First(b, i, T)
    BY <1>3, <1>6 DEF WordEnd
  <2> QED BY <1>5, <2>1, FirstFacts
<1>8. b[i] \notin T
  BY <1>1, <1>2, <1>3, <1>4
<1>9. PICK c : c = e - z
  OBVIOUS
<1>10. c \in a..k /\ e = z + c
  <2>1. e # i
    BY <1>7, <1>8
  <2> QED BY <1>1, <1>4, <1>5, <1>7, <1>9, <2>1
<1>11. \A j \in a..c : v[j] \notin Blank
  <2> TAKE j \in a..c
  <2>1. j \in 1..k /\ z + j - 1 \in i..(e - 1)
    BY <1>1, <1>4, <1>10
  <2> QED BY <1>2, <1>3, <1>7, <2>1
<1>12. c = k \/ v[c + 1] \in Blank
  <2> SUFFICES ASSUME c # k PROVE v[c + 1] \in Blank
    OBVIOUS
  <2>1. c + 1 \in 1..k /\ z + (c + 1) - 1 = e
    BY <1>1, <1>10
  <2> QED BY <1>2, <1>3, <1>7, <2>1
<1>13. Chars(b, i, e) = SubSeq(v, a, c)
  <2>1. e - i = c - a + 1
    BY <1>1, <1>4, <1>10
  <2>2. Chars(b, i, e) = [x \in 1..(c - a + 1) |-> b[i + x - 1]]
    BY <2>1 DEF Chars
  <2>3. SubSeq(v, a, c) = [x \in 1..(c - a + 1) |-> v[a + x - 1]]
    <3>1. a \in 1..(Len(v) + 1) /\ c \in (a - 1)..Len(v)
      BY <1>1, <1>10
    <3> QED BY <1>1, <3>1, PartOf
  <2>4. \A x \in 1..(c - a + 1) : b[i + x - 1] = v[a + x - 1]
    <3> TAKE x \in 1..(c - a + 1)
    <3>1. a + x - 1 \in 1..k /\ z + (a + x - 1) - 1 = i + x - 1
      BY <1>1, <1>4, <1>10
    <3> QED BY <1>2, <3>1
  <2> QED BY <2>2, <2>3, <2>4
<1> QED BY <1>1, <1>4, <1>6, <1>10, <1>11, <1>12, <1>13 DEF WordEnds

-----------------------------------------------------------------------------
(* The invariant *)

(* The words behind the keyword of s that have been taken are those that   *)
(* begin before the pointer, which is between two words.                   *)
WordsTaken(s) ==
  LET v == ValueOf(s)
      r == p - ValueAt(s) IN
  /\ p \in Nat /\ Boundary(v, r)
  /\ taken = <<>> => r = 0
  /\ taken \in Seq({Word(v, k) : k \in Nat})
  /\ Len(taken) = Cardinality({u \in WordsOf(v) : u[1] <= r})
  /\ \A k \in 1..Len(taken) : taken[k] = Word(v, k)

(* The buffer holds the line, and then, while it is looked at, the line    *)
(* without the spaces around it.                                           *)
LineInv ==
  /\ pc \in {"read", "trim", "look", "key", "value", "words"}
  /\ n \in 0..MaxLines /\ (pc # "read" => n > 0)
  /\ buf[Size - 1] = Nul
  /\ n > 0 => Clean(text)
  /\ pc = "trim" => Holds(buf, 0, text)
  /\ pc \notin {"read", "trim"} => Holds(buf, 0, Stripped(text))
  /\ pc \notin {"read", "words"} => taken = <<>>
  /\ LinesTold
  /\ pc = "value" =>
       /\ str = Lowered(KeyOf(Stripped(text)))
       /\ ~Alone(Stripped(text)) => p = Lo(Seps(Stripped(text)))
  /\ pc = "words" /\ ~Alone(Stripped(text)) => WordsTaken(Stripped(text))

(* One step per action *)

LEMMA ReadKeeps ==
  ASSUME LineInv, NEW newline \in BOOLEAN, ReadLine(newline)
  PROVE  LineInv'
<1>1. /\ n < MaxLines /\ n' = n + 1 /\ pc' = "trim" /\ taken' = <<>>
  BY DEF ReadLine
<1>2. PICK t \in Text[n'] : text' = t /\ buf' = Loaded(buf, t, newline)
  BY DEF ReadLine
<1>3. n' \in 1..MaxLines /\ n' \in 0..MaxLines /\ n' > 0
  BY <1>1, KeyLineAssumption DEF LineInv
<1>4. /\ t \in Seq({t[i] : i \in DOMAIN t}) /\ Len(t) + 2 <= Size
      /\ \A i \in DOMAIN t : t[i] \notin {Nul, Newline}
  BY <1>3, KeyLineAssumption
<1>5. Clean(t)
  BY <1>4 DEF Clean
<1>6. PICK k : k = Len(t) /\ k \in Nat
  BY <1>5, CleanFacts
<1>7. Size \in Nat \ {0} /\ k + 2 <= Size
  BY <1>4, <1>6, KeyLineAssumption
<1>8. buf' = [i \in 0..(Size - 1) |->
                IF i < k THEN t[i + 1]
                ELSE IF i = k \/ (newline /\ i = k + 1) THEN Nul ELSE buf[i]]
  BY <1>2, <1>6 DEF Loaded
<1>9. buf'[Size - 1] = Nul
  <2>1. Size - 1 \in 0..(Size - 1) /\ ~(Size - 1 < k)
    BY <1>6, <1>7
  <2>2. buf[Size - 1] = Nul
    BY DEF LineInv
  <2> QED BY <1>8, <2>1, <2>2
<1>10. Holds(buf', 0, t)
  <2>1. 0 + k <= Size - 1
    BY <1>6, <1>7
  <2>2. buf'[0 + k] = Nul
    <3>1. k \in 0..(Size - 1) /\ ~(k < k) /\ 0 + k = k
      BY <1>6, <1>7
    <3> QED BY <1>8, <3>1
  <2>3. \A i \in 1..k : buf'[0 + i - 1] = t[i]
    <3> TAKE i \in 1..k
    <3>1. 0 + i - 1 = i - 1 /\ i - 1 \in 0..(Size - 1) /\ i - 1 < k /\ (i - 1) + 1 = i
      BY <1>6, <1>7
    <3> QED BY <1>8, <3>1
  <2> QED BY <1>6, <2>1, <2>2, <2>3 DEF Holds
<1>11. LinesTold'
  BY <1>1 DEF LinesTold
<1> QED BY <1>1, <1>2, <1>3, <1>5, <1>9, <1>10, <1>11 DEF LineInv

LEMMA TrimKeeps ==
  ASSUME LineInv, RemoveSpaces
  PROVE  LineInv'
<1>1. /\ pc = "trim" /\ buf' = Trimmed(buf) /\ pc' = "look"
      /\ UNCHANGED <<n, text, str, p, taken>>
  BY DEF RemoveSpaces
<1>2. /\ buf[Size - 1] = Nul /\ Clean(text) /\ Holds(buf, 0, text)
      /\ n \in 0..MaxLines /\ n > 0 /\ taken = <<>>
  BY <1>1 DEF LineInv
<1>3. Holds(buf', 0, Stripped(text)) /\ buf'[Size - 1] = Nul
  BY <1>1, <1>2, TrimHolds
<1>4. LinesTold'
  BY <1>1 DEF LinesTold
<1> QED BY <1>1, <1>2, <1>3, <1>4 DEF LineInv

(* What the first byte and the whole of a trimmed line tell *)
LEMMA LookTells ==
  ASSUME NEW b, NEW t, Clean(t), NEW s, s = Stripped(t), Holds(b, 0, s)
  PROVE  Discarded(b) \/ EndsSection(b) <=> s \in {<<>>, SeMark} \/ s[1] = CmtMark
<1>1. PICK d : Clean(s) /\ InMiddle(s, t, d)
  BY StrippedFacts
<1>2. PICK k, C : k = Len(s) /\ k \in Nat /\ s \in Seq(C)
  BY <1>1, CleanFacts
<1>3. b[0 + k] = Nul /\ (\A i \in 1..k : b[0 + i - 1] = s[i] /\ s[i] # Nul /\ s[i] # Newline)
      /\ 0 + k <= Size - 1 /\ Size \in Nat \ {0}
  BY <1>1, <1>2, CleanFacts, KeyLineAssumption DEF Holds
<1>4. s = <<>> => b[0] = Nul
  <2>1. s = <<>> => 0 + k = 0
    BY <1>2
  <2> QED BY <1>3, <2>1
<1>5. s # <<>> => b[0] = s[1] /\ s[1] # Nul /\ s[1] \notin Space
  <2>1. s # <<>> => k # 0
    BY <1>2, EmptySeq
  <2>2. s # <<>> => 1 \in 1..k /\ 0 + 1 - 1 = 0
    BY <1>2, <2>1
  <2> QED BY <1>1, <1>3, <2>2, SpaceFacts DEF InMiddle
<1>6. Skip(b, 0, Space) = 0
  <2>1. b[0] \notin Space
    BY <1>4, <1>5, SpaceFacts
  <2>2. 0 \in 0..(Size - 1) /\ \A j \in 0..(0 - 1) : b[j] \in Space
    BY <1>3
  <2> QED BY <2>1, <2>2, SkipIs
<1>7. String(b, 0) = s
  BY <1>1, HeldString
<1>8. EndsSection(b) <=> s = SeMark
  BY <1>6, <1>7 DEF EndsSection
<1>9. Discarded(b) <=> b[0] = Nul \/ b[0] = CmtMark
  BY <1>6 DEF Discarded
<1> QED BY <1>4, <1>5, <1>8, <1>9

LEMMA LookKeeps ==
  ASSUME LineInv, Look
  PROVE  LineInv'
<1>1. /\ pc = "look" /\ UNCHANGED <<buf, n, text, str, p, taken>>
      /\ pc' = IF Discarded(buf) \/ EndsSection(buf) THEN "read" ELSE "key"
  BY DEF Look
<1>2. /\ buf[Size - 1] = Nul /\ Clean(text) /\ Holds(buf, 0, Stripped(text))
      /\ n \in 0..MaxLines /\ n > 0 /\ taken = <<>>
  BY <1>1 DEF LineInv
<1>3. PICK s : s = Stripped(text)
  OBVIOUS
<1>4. Discarded(buf) \/ EndsSection(buf) <=> s \in {<<>>, SeMark} \/ s[1] = CmtMark
  BY <1>2, <1>3, LookTells
<1>5. LinesTold'
  <2>1. Stripped(text') = s
    BY <1>1, <1>3
  <2>2. pc' = "key" => ~(s \in {<<>>, SeMark} \/ s[1] = CmtMark)
    BY <1>1, <1>4
  <2>3. pc' = "read" => s \in {<<>>, SeMark} \/ s[1] = CmtMark
    BY <1>1, <1>4
  <2> QED BY <2>1, <2>2, <2>3 DEF LinesTold
<1> QED BY <1>1, <1>2, <1>5 DEF LineInv

LEMMA KeyKeeps ==
  ASSUME LineInv, TakeKey
  PROVE  LineInv'
<1>1. /\ pc = "key" /\ UNCHANGED <<buf, n, text, taken>> /\ pc' = "value"
      /\ str' = Lowered(Chars(buf, 0, First(buf, 0, KeyEnds))) /\ p' = First(buf, 0, KeyEnds) + 1
  BY DEF TakeKey
<1>2. /\ buf[Size - 1] = Nul /\ Clean(text) /\ Holds(buf, 0, Stripped(text))
      /\ n \in 0..MaxLines /\ n > 0 /\ taken = <<>>
  BY <1>1 DEF LineInv
<1>3. Clean(Stripped(text))
  BY <1>2, StrippedFacts
<1>4. /\ Chars(buf, 0, First(buf, 0, KeyEnds)) = KeyOf(Stripped(text))
      /\ ~Alone(Stripped(text)) => First(buf, 0, KeyEnds) + 1 = Lo(Seps(Stripped(text)))
  BY <1>2, <1>3, KeyHeld
<1>5. LinesTold'
  BY <1>1 DEF LinesTold
<1> QED BY <1>1, <1>2, <1>4, <1>5 DEF LineInv

LEMMA SepKeeps ==
  ASSUME LineInv, SkipSep
  PROVE  LineInv'
<1>1. /\ pc = "value" /\ UNCHANGED <<buf, n, text, str, taken>> /\ pc' = "words"
      /\ p' = Skip(buf, p, Space \cup {":"})
  BY DEF SkipSep
<1>2. /\ buf[Size - 1] = Nul /\ Clean(text) /\ Holds(buf, 0, Stripped(text))
      /\ n \in 0..MaxLines /\ n > 0 /\ taken = <<>>
      /\ ~Alone(Stripped(text)) => p = Lo(Seps(Stripped(text)))
  BY <1>1 DEF LineInv
<1>3. PICK s : s = Stripped(text) /\ Clean(s)
  BY <1>2, StrippedFacts
<1>4. ASSUME ~Alone(s)
      PROVE  WordsTaken(s)'
  <2>1. /\ p' = ValueAt(s) /\ ValueAt(s) \in 0..Len(s) /\ Clean(ValueOf(s))
    BY <1>1, <1>2, <1>3, <1>4, ValueHeld
  <2>2. PICK v, r : v = ValueOf(s) /\ r = p' - ValueAt(s)
    OBVIOUS
  <2>3. p' \in Nat /\ r = 0 /\ Len(v) \in Nat
    BY <2>1, <2>2, CleanFacts
  <2>4. Boundary(v, r)
    BY <2>3 DEF Boundary
  <2>5. {u \in WordsOf(v) : u[1] <= r} = {}
    <3>1. \A u \in WordsOf(v) : u[1] \in 1..Len(v)
      BY <2>1, <2>2, WordsFinite
    <3> QED BY <2>3, <3>1
  <2>6. Cardinality({u \in WordsOf(v) : u[1] <= r}) = 0
    BY <2>5, FS_EmptySet
  <2>7. taken' = <<>> /\ Len(taken') = 0 /\ taken' \in Seq({Word(v, k) : k \in Nat})
    BY <1>1, <1>2
  <2> QED BY <2>2, <2>3, <2>4, <2>6, <2>7 DEF WordsTaken
<1>5. LinesTold'
  BY <1>1 DEF LinesTold
<1> QED BY <1>1, <1>2, <1>3, <1>4, <1>5 DEF LineInv

LEMMA WordKeeps ==
  ASSUME LineInv, NextWord
  PROVE  LineInv'
<1>1. /\ pc = "words" /\ UNCHANGED <<buf, n, pc, text, str>>
      /\ buf[Skip(buf, p, Blank)] # Nul
      /\ p' = WordEnd(buf, Skip(buf, p, Blank))
      /\ taken' = Append(taken, Chars(buf, Skip(buf, p, Blank), p'))
  BY DEF NextWord
<1>2. /\ buf[Size - 1] = Nul /\ Clean(text) /\ Holds(buf, 0, Stripped(text))
      /\ n \in 0..MaxLines /\ n > 0
      /\ ~Alone(Stripped(text)) => WordsTaken(Stripped(text))
  BY <1>1 DEF LineInv
<1>3. PICK s : s = Stripped(text) /\ Clean(s)
  BY <1>2, StrippedFacts
<1>4. ASSUME ~Alone(s)
      PROVE  WordsTaken(s)'
  <2>1. PICK v, z : /\ v = ValueOf(s) /\ z = ValueAt(s) /\ z \in Nat
                    /\ Holds(buf, z, v) /\ Clean(v)
    <3>1. /\ ValueAt(s) \in 0..Len(s) /\ Clean(ValueOf(s))
          /\ Holds(buf, ValueAt(s), ValueOf(s)) /\ Len(s) \in Nat
      BY <1>2, <1>3, <1>4, ValueHeld, CleanFacts
    <3> QED BY <3>1
  <2>2. PICK r, k : r = p - z /\ k = Len(v) /\ k \in Nat
    BY <2>1, CleanFacts
  <2>3. PICK m : m = Len(taken)
    OBVIOUS
  <2>4. /\ p \in Nat /\ Boundary(v, r) /\ r \in 0..k /\ p = z + r
        /\ taken \in Seq({Word(v, j) : j \in Nat})
        /\ m = Cardinality({u \in WordsOf(v) : u[1] <= r})
        /\ \A j \in 1..m : taken[j] = Word(v, j)
    BY <1>2, <1>3, <1>4, <2>1, <2>2, <2>3 DEF WordsTaken, Boundary
  <2>5. PICK a : /\ a \in (r + 1)..(k + 1)
                 /\ Skip(buf, z + r, Blank) = z + a - 1
                 /\ \A j \in (r + 1)..(a - 1) : v[j] \in Blank
                 /\ a # k + 1 => v[a] \notin Blank
                 /\ a = k + 1 => buf[z + a - 1] = Nul
    <3>1. r \in 0..Len(v)
      BY <2>2, <2>4
    <3>2. PICK a : BlanksEnd(buf, z, v, r, a)
      BY <2>1, <3>1, BlanksHeld
    <3> QED BY <2>2, <3>2 DEF BlanksEnd
  <2>6. a # k + 1
    BY <1>1, <2>4, <2>5
  <2>7. a \in 1..k /\ a \in (r + 1)..k /\ v[a] \notin Blank
    BY <2>2, <2>4, <2>5, <2>6
  <2>8. PICK c : /\ c \in a..k
                 /\ WordEnd(buf, z + a - 1) = z + c
                 /\ \A j \in a..c : v[j] \notin Blank
                 /\ c = k \/ v[c + 1] \in Blank
                 /\ Chars(buf, z + a - 1, z + c) = SubSeq(v, a, c)
    <3>1. a \in 1..Len(v)
      BY <2>2, <2>7
    <3>2. PICK c : WordEnds(buf, z, v, a, c)
      BY <2>1, <2>7, <3>1, WordHeld
    <3> QED BY <2>2, <3>2 DEF WordEnds
  <2>9. p' = z + c /\ taken' = Append(taken, SubSeq(v, a, c))
    BY <1>1, <2>4, <2>5, <2>8
  <2>10. PICK w : w = <<a, c>>
    OBVIOUS
  <2>11. /\ w \in WordsOf(v) /\ Boundary(v, c)
         /\ w \notin {u \in WordsOf(v) : u[1] <= r}
         /\ {u \in WordsOf(v) : u[1] <= c} = {u \in WordsOf(v) : u[1] <= r} \cup {w}
         /\ {u \in WordsOf(v) : u[1] < a} = {u \in WordsOf(v) : u[1] <= r}
    <3>1. a \in (r + 1)..Len(v) /\ c \in a..Len(v) /\ (c = Len(v) \/ v[c + 1] \in Blank)
      BY <2>2, <2>7, <2>8
    <3>2. Clean(v) /\ Boundary(v, r)
      BY <2>1, <2>4
    <3>3. \A j \in (r + 1)..(a - 1) : v[j] \in Blank
      BY <2>5
    <3>4. \A j \in a..c : v[j] \notin Blank
      BY <2>8
    <3> QED BY <2>10, <3>1, <3>2, <3>3, <3>4, NextWordIs, ZenonT(60)
  <2>12. m \in Nat /\ Cardinality({u \in WordsOf(v) : u[1] <= c}) = m + 1
    <3>1. PICK S : S = {u \in WordsOf(v) : u[1] <= r}
      OBVIOUS
    <3>2. IsFiniteSet(S)
      <4>1. S \in SUBSET WordsOf(v)
        BY <3>1
      <4> QED BY <2>1, <4>1, WordsFinite, FS_Subset
    <3>3. Cardinality(S) = m /\ m \in Nat
      BY <2>4, <3>1, <3>2, FS_CardinalityType
    <3>4. Cardinality(S \cup {w}) = m + 1
      BY <2>11, <3>1, <3>2, <3>3, FS_AddElement
    <3> QED BY <2>11, <3>1, <3>3, <3>4
  <2>13. Word(v, m + 1) = SubSeq(v, a, c)
    <3>1. w[1] = a /\ w[2] = c
      BY <2>10
    <3>2. (m + 1) - 1 = m
      BY <2>12
    <3>3. Cardinality({u \in WordsOf(v) : u[1] < w[1]}) = (m + 1) - 1
      BY <2>4, <2>11, <3>1, <3>2
    <3> QED BY <2>1, <2>11, <3>1, <3>3, WordIs
  <2>14. PICK x : x = Word(v, m + 1) /\ taken' = Append(taken, x)
    BY <2>9, <2>13
  <2>15. x \in {Word(v, j) : j \in Nat}
    BY <2>12, <2>14
  <2>16. /\ taken' \in Seq({Word(v, j) : j \in Nat}) /\ Len(taken') = m + 1
         /\ \A j \in 1..m : taken'[j] = taken[j]
         /\ taken'[m + 1] = x
    <3>1. PICK W : W = {Word(v, j) : j \in Nat}
      OBVIOUS
    <3>2. taken \in Seq(W) /\ x \in W
      BY <2>4, <2>15, <3>1
    <3>3. /\ Append(taken, x) \in Seq(W) /\ Len(Append(taken, x)) = m + 1
          /\ \A j \in 1..m : Append(taken, x)[j] = taken[j]
          /\ Append(taken, x)[m + 1] = x
      BY <2>3, <3>2, AppendProperties
    <3> QED BY <2>14, <3>1, <3>3
  <2>17. \A j \in 1..(m + 1) : taken'[j] = Word(v, j)
    <3> TAKE j \in 1..(m + 1)
    <3>1. CASE j = m + 1
      BY <2>14, <2>16, <3>1
    <3>2. CASE j # m + 1
      <4>1. j \in 1..m
        BY <2>12, <3>2
      <4> QED BY <2>4, <2>16, <4>1
    <3> QED BY <3>1, <3>2
  <2>18. taken' # <<>>
    <3>1. Len(taken') # Len(<<>>)
      BY <2>12, <2>16
    <3> QED BY <3>1
  <2>19. p' \in Nat /\ p' - z = c
    BY <2>1, <2>2, <2>7, <2>8, <2>9
  <2>20. /\ p' \in Nat /\ Boundary(v, p' - z) /\ taken' # <<>>
         /\ taken' \in Seq({Word(v, j) : j \in Nat})
         /\ Len(taken') = Cardinality({u \in WordsOf(v) : u[1] <= p' - z})
         /\ \A j \in 1..Len(taken') : taken'[j] = Word(v, j)
    <3>1. \A j \in 1..Len(taken') : taken'[j] = Word(v, j)
      BY <2>16, <2>17
    <3>2. Cardinality({u \in WordsOf(v) : u[1] <= p' - z}) = m + 1
      BY <2>12, <2>19
    <3> QED BY <2>11, <2>16, <2>18, <2>19, <3>1, <3>2
  <2>21. v = ValueOf(s) /\ z = ValueAt(s)
    BY <2>1
  <2> QED BY <2>20, <2>21 DEF WordsTaken
<1>5. LinesTold'
  BY <1>1 DEF LinesTold
<1> QED BY <1>1, <1>2, <1>3, <1>4, <1>5 DEF LineInv

LEMMA LineInitially ==
  ASSUME Init
  PROVE  LineInv
<1>1. /\ buf = [i \in 0..(Size - 1) |-> Nul]
      /\ n = 0 /\ pc = "read" /\ taken = <<>>
  BY DEF Init
<1>2. buf[Size - 1] = Nul
  <2>1. Size - 1 \in 0..(Size - 1)
    BY KeyLineAssumption
  <2> QED BY <1>1, <2>1
<1>3. n \in 0..MaxLines
  BY <1>1, KeyLineAssumption
<1> QED BY <1>1, <1>2, <1>3 DEF LineInv, LinesTold

LEMMA LineInductive ==
  ASSUME LineInv, [Next]_vars
  PROVE  LineInv'
<1>1. CASE UNCHANGED vars
  BY <1>1 DEF vars, LineInv, LinesTold, WordsTaken
<1>2. CASE ReadLine(TRUE)
  BY <1>2, ReadKeeps
<1>3. CASE ReadLine(FALSE)
  BY <1>3, ReadKeeps
<1>4. CASE RemoveSpaces
  BY <1>4, TrimKeeps
<1>5. CASE Look
  BY <1>5, LookKeeps
<1>6. CASE TakeKey
  BY <1>6, KeyKeeps
<1>7. CASE SkipSep
  BY <1>7, SepKeeps
<1>8. CASE NextWord
  BY <1>8, WordKeeps
<1>9. CASE Stop
  BY <1>1, <1>9 DEF Stop
<1> QED BY <1>1, <1>2, <1>3, <1>4, <1>5, <1>6, <1>7, <1>8, <1>9 DEF Next

(* In every state reached the buffer holds the line that was read, trimmed *)
(* once it is looked at; keyword and pointer are those of this line; and   *)
(* the words taken are those that begin before the pointer.                *)
THEOREM LineHeld == Spec => []LineInv
<1>1. Init => LineInv
  BY LineInitially
<1>2. LineInv /\ [Next]_vars => LineInv'
  BY LineInductive
<1> QED BY <1>1, <1>2, PTL DEF Spec

-----------------------------------------------------------------------------
(* What follows from the invariant *)

(* scapar_str_remove_spaces, which moves the text down and cuts its tail   *)
(* in place, leaves the line without the spaces around it, whatever earlier *)
(* lines left in the buffer.                                               *)
THEOREM LineTrimmed == Spec => []TrimExact
<1>1. LineInv => TrimExact
  <2> SUFFICES ASSUME LineInv, pc = "look" PROVE String(buf, 0) = Stripped(text)
    BY DEF TrimExact
  <2>1. Clean(text) /\ Holds(buf, 0, Stripped(text))
    BY DEF LineInv
  <2>2. Clean(Stripped(text))
    BY <2>1, StrippedFacts
  <2> QED BY <2>1, <2>2, HeldString
<1> QED BY <1>1, LineHeld, PTL

(* scapar_check_if_discard and scapar_check_input_is_section_ending look   *)
(* at bytes of the buffer; what they skip is blank, a comment or the ending *)
(* mark as the file has it, and nothing else is.                           *)
THEOREM LinesToldApart == Spec => []LinesTold
<1>1. LineInv => LinesTold
  BY DEF LineInv
<1> QED BY <1>1, LineHeld, PTL

(* scapar_sec_parse_from_fh queries the keyword of the line in lower case, *)
(* and where a separator follows it, the conversion gets the rest of this  *)
(* line and nothing of an earlier one.                                     *)
THEOREM LineKeyAndValue == Spec => []KeyAndValue
<1>1. ASSUME LineInv, pc = "words", taken = <<>>, ~Alone(Stripped(text))
      PROVE  Value = ValueOf(Stripped(text))
  <2>1. /\ Clean(text) /\ Holds(buf, 0, Stripped(text)) /\ WordsTaken(Stripped(text))
    BY <1>1 DEF LineInv
  <2>2. PICK s : s = Stripped(text) /\ Clean(s)
    BY <2>1, StrippedFacts
  <2>3. PICK v, z : /\ v = ValueOf(s) /\ z = ValueAt(s) /\ z \in Nat
                    /\ Holds(buf, z, v) /\ Clean(v)
    <3>1. /\ ValueAt(s) \in 0..Len(s) /\ Clean(ValueOf(s))
          /\ Holds(buf, ValueAt(s), ValueOf(s)) /\ Len(s) \in Nat
      BY <1>1, <2>1, <2>2, ValueHeld, CleanFacts
    <3> QED BY <3>1
  <2>4. p \in Nat /\ p - z = 0
    BY <1>1, <2>1, <2>2, <2>3 DEF WordsTaken
  <2>5. p = z
    BY <2>3, <2>4
  <2> QED BY <2>2, <2>3, <2>5, HeldString DEF Value
<1>2. LineInv => KeyAndValue
  BY <1>1 DEF LineInv, KeyAndValue
<1> QED BY <1>2, LineHeld, PTL

(* scapar_get_next_value_from_buf, called until it returns no more, gives  *)
(* a vector the words of the value, each whole, in order and all of them.  *)
THEOREM LineWordsInOrder == Spec => []WordsInOrder
<1>1. ASSUME LineInv, pc = "words", ~Alone(Stripped(text)), NEW v, v = ValueOf(Stripped(text))
      PROVE  /\ \A k \in DOMAIN taken : k <= Cardinality(WordsOf(v)) /\ taken[k] = Word(v, k)
             /\ buf[Skip(buf, p, Blank)] = Nul => Len(taken) = Cardinality(WordsOf(v))
  <2>1. /\ Clean(text) /\ Holds(buf, 0, Stripped(text)) /\ WordsTaken(Stripped(text))
    BY <1>1 DEF LineInv
  <2>2. PICK s : s = Stripped(text) /\ Clean(s)
    BY <2>1, StrippedFacts
  <2>3. PICK z : /\ z = ValueAt(s) /\ z \in Nat /\ v = ValueOf(s)
                 /\ Holds(buf, z, v) /\ Clean(v)
    <3>1. /\ ValueAt(s) \in 0..Len(s) /\ Clean(ValueOf(s))
          /\ Holds(buf, ValueAt(s), ValueOf(s)) /\ Len(s) \in Nat
      BY <1>1, <2>1, <2>2, ValueHeld, CleanFacts
    <3> QED BY <1>1, <2>2, <3>1
  <2>4. PICK r, m, k : r = p - z /\ m = Len(taken) /\ k = Len(v) /\ k \in Nat
    BY <2>3, CleanFacts
  <2>5. /\ p \in Nat /\ Boundary(v, r) /\ r \in 0..k /\ p = z + r
        /\ taken \in Seq({Word(v, j) : j \in Nat})
        /\ m = Cardinality({u \in WordsOf(v) : u[1] <= r})
        /\ \A j \in 1..m : taken[j] = Word(v, j)
    BY <1>1, <2>1, <2>2, <2>3, <2>4 DEF WordsTaken, Boundary
  <2>6. PICK S : S = {u \in WordsOf(v) : u[1] <= r}
    OBVIOUS
  <2>7. IsFiniteSet(WordsOf(v))
    BY <2>3, WordsFinite
  <2>8. /\ m \in Nat /\ Cardinality(WordsOf(v)) \in Nat /\ m <= Cardinality(WordsOf(v))
    <3>1. S \in SUBSET WordsOf(v)
      BY <2>6
    <3>2. Cardinality(S) <= Cardinality(WordsOf(v)) /\ IsFiniteSet(S)
      BY <2>7, <3>1, FS_Subset
    <3> QED BY <2>5, <2>6, <2>7, <3>2, FS_CardinalityType
  <2>9. DOMAIN taken = 1..m
    BY <2>4, <2>5, LenProperties
  <2>10. \A j \in DOMAIN taken : j <= Cardinality(WordsOf(v)) /\ taken[j] = Word(v, j)
    <3> TAKE j \in DOMAIN taken
    <3>1. j \in 1..m
      BY <2>9
    <3>2. j <= Cardinality(WordsOf(v))
      BY <2>8, <3>1
    <3> QED BY <2>5, <3>1, <3>2
  <2>11. ASSUME buf[Skip(buf, p, Blank)] = Nul
         PROVE  m = Cardinality(WordsOf(v))
    <3>1. PICK a : /\ a \in (r + 1)..(k + 1)
                   /\ Skip(buf, z + r, Blank) = z + a - 1
                   /\ \A j \in (r + 1)..(a - 1) : v[j] \in Blank
                   /\ a # k + 1 => buf[z + a - 1] # Nul
      <4>1. r \in 0..Len(v)
        BY <2>4, <2>5
      <4>2. PICK a : BlanksEnd(buf, z, v, r, a)
        BY <2>3, <4>1, BlanksHeld
      <4> QED BY <2>4, <4>2 DEF BlanksEnd
    <3>2. a = k + 1
      BY <2>5, <2>11, <3>1
    <3>3. ASSUME NEW u \in WordsOf(v)
          PROVE  u[1] <= r
      <4>1. PICK x, y : x = u[1] /\ y = u[2]
        OBVIOUS
      <4>2. x \in 1..k /\ y \in 1..k /\ x <= y /\ \A j \in x..y : v[j] \notin Blank
        BY <2>3, <2>4, <4>1, WordsFinite DEF WordsOf
      <4>3. x \in x..y
        BY <4>2
      <4>4. v[x] \notin Blank
        BY <4>2, <4>3
      <4> SUFFICES ASSUME ~(x <= r) PROVE FALSE
        BY <4>1
      <4>5. x \in (r + 1)..(a - 1)
        BY <2>4, <2>5, <3>2, <4>2
      <4> QED BY <3>1, <4>4, <4>5
    <3>4. S = WordsOf(v)
      BY <2>6, <3>3
    <3> QED BY <2>5, <2>6, <3>4
  <2> QED BY <2>4, <2>10, <2>11
<1>2. LineInv => WordsInOrder
  BY <1>1 DEF WordsInOrder
<1> QED BY <1>2, LineHeld, PTL
=============================================================================
