----------------------------- MODULE TableauProofs -----------------------------
(* What the operators of Tableau and PackedTableau do, for every number of     *)
(* qubits and every word size: gates and measurements keep the rows, and the   *)
(* columns, a basis; measure finds the rows it needs; and the operators on      *)
(* words do what those on bits do.                                             *)
EXTENDS ChpState, FiniteSetTheorems, WellFoundedInduction, TLAPS

\* A set of natural numbers has a smallest one.
LEMMA SmallestNat ==
  ASSUME NEW T \in SUBSET Nat, T # {}
  PROVE  Min(T) \in T /\ \A k \in T : Min(T) <= k
<1>1. PICK m \in T : \A k \in T : ~ (<<k, m>> \in OpToRel(<, Nat))
  BY NatLessThanWellFounded, WFMin
<1>2. ASSUME NEW k \in T PROVE m <= k
  <2>1. <<k, m>> \notin {ss \in Nat \X Nat : ss[1] < ss[2]}
    BY <1>1, Zenon DEF OpToRel
  <2> QED
    BY <2>1
<1> QED
  BY <1>2 DEF Min

-----------------------------------------------------------------------------
(* Which rows anticommute.                                                    *)

\* the qubits on which two rows clash are some of the qubits
LEMMA ClashIsFinite ==
  ASSUME NEW k \in Nat, NEW a, HasBits(a, k), NEW b
  PROVE  /\ Clash(a, b) \subseteq Qubits(k) /\ IsFiniteSet(Clash(a, b))
         /\ Cardinality(Clash(a, b)) \in Nat /\ Anticommute(a, b) \in Bit
<1>1. Clash(a, b) \subseteq Qubits(k)
  BY DEF Clash, HasBits
<1>2. IsFiniteSet(Qubits(k))
  BY FS_Interval DEF Qubits
<1>3. IsFiniteSet(Clash(a, b))
  BY <1>1, <1>2, FS_Subset
<1>4. Cardinality(Clash(a, b)) \in Nat
  BY <1>3, FS_CardinalityType
<1>5. Anticommute(a, b) \in Bit
  BY <1>4 DEF Anticommute, Bit
<1> QED
  BY <1>1, <1>3, <1>4, <1>5

\* when a qubit is one of them
LEMMA InClash ==
  ASSUME NEW k \in Nat, NEW a, HasBits(a, k), NEW b, HasBits(b, k), NEW q \in Qubits(k)
  PROVE  /\ a.x[q] \in Bit /\ a.z[q] \in Bit /\ b.x[q] \in Bit /\ b.z[q] \in Bit
         /\ q \in Clash(a, b) <=> ~((a.x[q] = 1 /\ b.z[q] = 1) <=> (a.z[q] = 1 /\ b.x[q] = 1))
<1>1. DOMAIN a.x = Qubits(k)
  BY DEF HasBits
<1>2. a.x[q] \in Bit /\ a.z[q] \in Bit /\ b.x[q] \in Bit /\ b.z[q] \in Bit
  BY DEF HasBits
<1> QED
  BY <1>1, <1>2 DEF Clash

\* two rows clash on the same qubits, whichever comes first
LEMMA ClashIsSymmetric ==
  ASSUME NEW k \in Nat, NEW a, HasBits(a, k), NEW b, HasBits(b, k)
  PROVE  Clash(a, b) = Clash(b, a) /\ Anticommute(a, b) = Anticommute(b, a)
<1>1. Clash(a, b) \subseteq Qubits(k) /\ Clash(b, a) \subseteq Qubits(k)
  BY ClashIsFinite
<1>2. \A q \in Qubits(k) : q \in Clash(a, b) <=> q \in Clash(b, a)
  BY InClash
<1> QED
  BY <1>1, <1>2 DEF Anticommute

\* a row commutes with itself
LEMMA NoClashWithItself ==
  ASSUME NEW k \in Nat, NEW a, HasBits(a, k)
  PROVE  Anticommute(a, a) = 0
<1>1. Clash(a, a) \subseteq Qubits(k)
  BY ClashIsFinite
<1>2. \A q \in Qubits(k) : q \notin Clash(a, a)
  BY InClash
<1>3. Clash(a, a) = {}
  BY <1>1, <1>2
<1> QED
  BY <1>3, FS_EmptySet DEF Anticommute

\* an even number more does not change what % 2 gives
LEMMA OddAndEven ==
  ASSUME NEW k \in Nat, NEW m \in Nat
  PROVE  (k + 2 * m) % 2 = k % 2
  OBVIOUS

\* the size of a symmetric difference is even or odd with the sum of the sizes
LEMMA ParityOfDifference ==
  ASSUME NEW S, IsFiniteSet(S), NEW T, IsFiniteSet(T)
  PROVE  Cardinality(SymDiff(S, T)) % 2 = ((Cardinality(S) % 2) + (Cardinality(T) % 2)) % 2
<1> DEFINE A == S \ T
           B == T \ S
           I == S \cap T
<1>1. IsFiniteSet(A) /\ Cardinality(A) = Cardinality(S) - Cardinality(I)
  BY FS_Difference
<1>2. IsFiniteSet(B) /\ Cardinality(B) = Cardinality(T) - Cardinality(I)
  <2>1. T \cap S = I
    OBVIOUS
  <2> QED
    BY <2>1, FS_Difference, SMTT(20)
<1>3. IsFiniteSet(I)
  BY FS_Intersection
<1>4. Cardinality(A \cup B) = Cardinality(A) + Cardinality(B)
  <2>1. A \cap B = {}
    OBVIOUS
  <2>2. Cardinality(A \cup B) = Cardinality(A) + Cardinality(B) - Cardinality(A \cap B)
    BY <1>1, <1>2, FS_Union
  <2>3. Cardinality(A) \in Nat /\ Cardinality(B) \in Nat
    BY <1>1, <1>2, FS_CardinalityType
  <2>4. Cardinality(A \cap B) = 0
    BY <2>1, FS_EmptySet
  <2> HIDE DEF A, B
  <2> QED
    BY <2>2, <2>3, <2>4
<1> DEFINE s == Cardinality(S)
           t == Cardinality(T)
           i == Cardinality(I)
           d == Cardinality(SymDiff(S, T))
<1>5. s \in Nat /\ t \in Nat /\ i \in Nat /\ Cardinality(A) \in Nat /\ Cardinality(B) \in Nat
  BY <1>1, <1>2, <1>3, FS_CardinalityType
<1>6. d = (s - i) + (t - i)
  BY <1>1, <1>2, <1>4 DEF SymDiff
<1>7. d \in Nat
  BY <1>1, <1>2, <1>4, <1>5, <1>6
<1> HIDE DEF s, t, i, d
<1>8. d + 2 * i = s + t
  BY <1>5, <1>6, <1>7
<1>9. d % 2 = (s + t) % 2
  BY <1>5, <1>7, <1>8, OddAndEven
<1>10. (s + t) % 2 = ((s % 2) + (t % 2)) % 2
  BY <1>5
<1> QED
  BY <1>9, <1>10 DEF s, t, d

-----------------------------------------------------------------------------
(* The gates.                                                                 *)

\* xor of two bits is a bit, and set if one of them is
LEMMA XorOfBits ==
  ASSUME NEW a \in Bit, NEW b \in Bit
  PROVE  Xor(a, b) \in Bit /\ (Xor(a, b) = 1 <=> ~(a = 1 <=> b = 1))
<1>1. CASE a = 0
  BY <1>1 DEF Xor, Bit
<1>2. CASE a = 1
  BY <1>2 DEF Xor, Bit
<1> QED
  BY <1>1, <1>2 DEF Bit

\* the bits of a row after a Hadamard gate
LEMMA HadamardRowIs ==
  ASSUME NEW k \in Nat, NEW a, HasBits(a, k), NEW q \in Qubits(k)
  PROVE  /\ HasBits(HadamardRow(a, q), k)
         /\ \A p \in Qubits(k) :
               /\ HadamardRow(a, q).x[p] = IF p = q THEN a.z[p] ELSE a.x[p]
               /\ HadamardRow(a, q).z[p] = IF p = q THEN a.x[p] ELSE a.z[p]
  BY DEF HadamardRow, HasBits

\* the bits of a row after a phase gate
LEMMA PhaseRowIs ==
  ASSUME NEW k \in Nat, NEW a, HasBits(a, k), NEW q \in Qubits(k)
  PROVE  /\ HasBits(PhaseRow(a, q), k)
         /\ \A p \in Qubits(k) :
               /\ PhaseRow(a, q).x[p] = a.x[p]
               /\ PhaseRow(a, q).z[p] = IF p = q THEN Xor(a.z[p], a.x[p]) ELSE a.z[p]
<1>1. Xor(a.z[q], a.x[q]) \in Bit
  BY XorOfBits DEF HasBits
<1> QED
  BY <1>1 DEF PhaseRow, HasBits

\* the bits of a row after a controlled not
LEMMA CnotRowIs ==
  ASSUME NEW k \in Nat, NEW a, HasBits(a, k),
         NEW c \in Qubits(k), NEW t \in Qubits(k), c # t
  PROVE  /\ HasBits(CnotRow(a, c, t), k)
         /\ \A p \in Qubits(k) :
               /\ CnotRow(a, c, t).x[p] = IF p = t THEN Xor(a.x[t], a.x[c]) ELSE a.x[p]
               /\ CnotRow(a, c, t).z[p] = IF p = c THEN Xor(a.z[c], a.z[t]) ELSE a.z[p]
<1>1. Xor(a.x[t], a.x[c]) \in Bit /\ Xor(a.z[c], a.z[t]) \in Bit
  BY XorOfBits DEF HasBits
<1> QED
  BY <1>1 DEF CnotRow, HasBits

\* a Hadamard gate keeps the qubits on which rows clash
LEMMA HadamardKeepsClash ==
  ASSUME NEW k \in Nat, NEW a, HasBits(a, k), NEW b, HasBits(b, k), NEW q \in Qubits(k)
  PROVE  Anticommute(HadamardRow(a, q), HadamardRow(b, q)) = Anticommute(a, b)
<1> DEFINE u == HadamardRow(a, q)
           v == HadamardRow(b, q)
<1>1. /\ HasBits(u, k) /\ HasBits(v, k)
      /\ \A p \in Qubits(k) : /\ u.x[p] = IF p = q THEN a.z[p] ELSE a.x[p]
                              /\ u.z[p] = IF p = q THEN a.x[p] ELSE a.z[p]
                              /\ v.x[p] = IF p = q THEN b.z[p] ELSE b.x[p]
                              /\ v.z[p] = IF p = q THEN b.x[p] ELSE b.z[p]
  BY HadamardRowIs
<1> HIDE DEF u, v
<1>2. ASSUME NEW p \in Qubits(k)
      PROVE  p \in Clash(u, v) <=> p \in Clash(a, b)
  <2>1. /\ p \in Clash(a, b) <=> ~((a.x[p] = 1 /\ b.z[p] = 1) <=> (a.z[p] = 1 /\ b.x[p] = 1))
        /\ p \in Clash(u, v) <=> ~((u.x[p] = 1 /\ v.z[p] = 1) <=> (u.z[p] = 1 /\ v.x[p] = 1))
    BY <1>1, InClash
  <2> QED
    BY <2>1, <1>1
<1>3. Clash(u, v) = Clash(a, b)
  BY <1>1, <1>2, ClashIsFinite
<1> QED
  BY <1>3 DEF Anticommute, u, v

\* so does a phase gate
LEMMA PhaseKeepsClash ==
  ASSUME NEW k \in Nat, NEW a, HasBits(a, k), NEW b, HasBits(b, k), NEW q \in Qubits(k)
  PROVE  Anticommute(PhaseRow(a, q), PhaseRow(b, q)) = Anticommute(a, b)
<1> DEFINE u == PhaseRow(a, q)
           v == PhaseRow(b, q)
<1>1. /\ HasBits(u, k) /\ HasBits(v, k)
      /\ \A p \in Qubits(k) : /\ u.x[p] = a.x[p] /\ v.x[p] = b.x[p]
                              /\ u.z[p] = IF p = q THEN Xor(a.z[p], a.x[p]) ELSE a.z[p]
                              /\ v.z[p] = IF p = q THEN Xor(b.z[p], b.x[p]) ELSE b.z[p]
  BY PhaseRowIs
<1> HIDE DEF u, v
<1>2. ASSUME NEW p \in Qubits(k)
      PROVE  p \in Clash(u, v) <=> p \in Clash(a, b)
  <2>1. /\ a.x[p] \in Bit /\ a.z[p] \in Bit /\ b.x[p] \in Bit /\ b.z[p] \in Bit
        /\ p \in Clash(a, b) <=> ~((a.x[p] = 1 /\ b.z[p] = 1) <=> (a.z[p] = 1 /\ b.x[p] = 1))
        /\ p \in Clash(u, v) <=> ~((u.x[p] = 1 /\ v.z[p] = 1) <=> (u.z[p] = 1 /\ v.x[p] = 1))
    BY <1>1, InClash
  <2>2. CASE p # q
    BY <2>1, <2>2, <1>1
  <2>3. CASE p = q
    <3>1. /\ u.z[p] = 1 <=> ~(a.z[p] = 1 <=> a.x[p] = 1)
          /\ v.z[p] = 1 <=> ~(b.z[p] = 1 <=> b.x[p] = 1)
      BY <2>1, <2>3, <1>1, XorOfBits
    <3> QED
      BY <2>1, <3>1, <1>1
  <2> QED
    BY <2>2, <2>3
<1>3. Clash(u, v) = Clash(a, b)
  BY <1>1, <1>2, ClashIsFinite
<1> QED
  BY <1>3 DEF Anticommute, u, v

\* the gate may make two rows clash on control and target, or neither
LEMMA CnotKeepsClash ==
  ASSUME NEW k \in Nat, NEW a, HasBits(a, k), NEW b, HasBits(b, k),
         NEW c \in Qubits(k), NEW t \in Qubits(k), c # t
  PROVE  Anticommute(CnotRow(a, c, t), CnotRow(b, c, t)) = Anticommute(a, b)
<1> DEFINE u == CnotRow(a, c, t)
           v == CnotRow(b, c, t)
           C == Clash(a, b)
           D == Clash(u, v)
<1>1. /\ HasBits(u, k) /\ HasBits(v, k)
      /\ \A p \in Qubits(k) :
            /\ u.x[p] = IF p = t THEN Xor(a.x[t], a.x[c]) ELSE a.x[p]
            /\ u.z[p] = IF p = c THEN Xor(a.z[c], a.z[t]) ELSE a.z[p]
            /\ v.x[p] = IF p = t THEN Xor(b.x[t], b.x[c]) ELSE b.x[p]
            /\ v.z[p] = IF p = c THEN Xor(b.z[c], b.z[t]) ELSE b.z[p]
  BY CnotRowIs
<1> HIDE DEF u, v
<1>2. C \subseteq Qubits(k) /\ D \subseteq Qubits(k) /\ IsFiniteSet(C) /\ IsFiniteSet(D)
  BY <1>1, ClashIsFinite
<1>3. \A p \in Qubits(k) :
        /\ a.x[p] \in Bit /\ a.z[p] \in Bit /\ b.x[p] \in Bit /\ b.z[p] \in Bit
        /\ p \in C <=> ~((a.x[p] = 1 /\ b.z[p] = 1) <=> (a.z[p] = 1 /\ b.x[p] = 1))
        /\ p \in D <=> ~((u.x[p] = 1 /\ v.z[p] = 1) <=> (u.z[p] = 1 /\ v.x[p] = 1))
  BY <1>1, InClash
<1> HIDE DEF C, D
<1>4. \A p \in Qubits(k) \ {c, t} : p \in D <=> p \in C
  BY <1>1, <1>3
<1>5. /\ u.x[c] = a.x[c] /\ v.x[c] = b.x[c] /\ u.z[t] = a.z[t] /\ v.z[t] = b.z[t]
      /\ u.x[t] = 1 <=> ~(a.x[t] = 1 <=> a.x[c] = 1)
      /\ v.x[t] = 1 <=> ~(b.x[t] = 1 <=> b.x[c] = 1)
      /\ u.z[c] = 1 <=> ~(a.z[c] = 1 <=> a.z[t] = 1)
      /\ v.z[c] = 1 <=> ~(b.z[c] = 1 <=> b.z[t] = 1)
  BY <1>1, <1>3, XorOfBits
<1>6. (c \in D <=> c \in C) <=> (t \in D <=> t \in C)
  <2>1. /\ c \in C <=> ~((a.x[c] = 1 /\ b.z[c] = 1) <=> (a.z[c] = 1 /\ b.x[c] = 1))
        /\ c \in D <=> ~((u.x[c] = 1 /\ v.z[c] = 1) <=> (u.z[c] = 1 /\ v.x[c] = 1))
        /\ t \in C <=> ~((a.x[t] = 1 /\ b.z[t] = 1) <=> (a.z[t] = 1 /\ b.x[t] = 1))
        /\ t \in D <=> ~((u.x[t] = 1 /\ v.z[t] = 1) <=> (u.z[t] = 1 /\ v.x[t] = 1))
    BY <1>3
  <2> QED
    BY <2>1, <1>5
<1>7. CASE c \in D <=> c \in C
  <2>1. D = C
    BY <1>2, <1>4, <1>6, <1>7
  <2> QED
    BY <2>1 DEF Anticommute, C, D, u, v
<1>8. CASE ~(c \in D <=> c \in C)
  <2>1. D = SymDiff(C, {c, t})
    BY <1>2, <1>4, <1>6, <1>8 DEF SymDiff
  <2>2. IsFiniteSet({c, t}) /\ Cardinality({c, t}) = 2
    <3>1. {c, t} = {c} \cup {t} /\ t \notin {c}
      OBVIOUS
    <3>2. IsFiniteSet({c}) /\ Cardinality({c}) = 1
      BY FS_Singleton
    <3>3. IsFiniteSet({c} \cup {t}) /\ Cardinality({c} \cup {t}) = Cardinality({c}) + 1
      BY <3>1, <3>2, FS_AddElement
    <3> QED
      BY <3>1, <3>2, <3>3
  <2>3. Cardinality(D) % 2 = ((Cardinality(C) % 2) + (Cardinality({c, t}) % 2)) % 2
    BY <2>1, <2>2, <1>2, ParityOfDifference
  <2>4. Cardinality(C) \in Nat
    BY <1>2, FS_CardinalityType
  <2>5. Cardinality(D) % 2 = Cardinality(C) % 2
    BY <2>2, <2>3, <2>4
  <2> QED
    BY <2>5 DEF Anticommute, C, D, u, v
<1> QED
  BY <1>7, <1>8

-----------------------------------------------------------------------------
(* Row multiplication.                                                        *)

\* the bits of a product
LEMMA RowMultIs ==
  ASSUME NEW k \in Nat, NEW a, HasBits(a, k), NEW b, HasBits(b, k)
  PROVE  /\ HasBits(RowMult(a, b), k)
         /\ \A p \in Qubits(k) : /\ RowMult(a, b).x[p] = Xor(a.x[p], b.x[p])
                                 /\ RowMult(a, b).z[p] = Xor(a.z[p], b.z[p])
<1>1. \A p \in Qubits(k) : Xor(a.x[p], b.x[p]) \in Bit /\ Xor(a.z[p], b.z[p]) \in Bit
  BY XorOfBits DEF HasBits
<1> QED
  BY <1>1 DEF RowMult, HasBits

\* what has the bits of a product anticommutes with a row if exactly one of the
\* factors does
LEMMA SumAndClash ==
  ASSUME NEW k \in Nat, NEW a, HasBits(a, k), NEW b, HasBits(b, k), NEW c, HasBits(c, k),
         NEW m, HasBits(m, k),
         \A p \in Qubits(k) : m.x[p] = Xor(a.x[p], b.x[p]) /\ m.z[p] = Xor(a.z[p], b.z[p])
  PROVE  Anticommute(m, c) = Xor(Anticommute(a, c), Anticommute(b, c))
<1> DEFINE A == Clash(a, c)
           B == Clash(b, c)
           M == Clash(m, c)
<1>2. /\ A \subseteq Qubits(k) /\ B \subseteq Qubits(k) /\ M \subseteq Qubits(k)
      /\ IsFiniteSet(A) /\ IsFiniteSet(B)
  BY ClashIsFinite
<1>3. ASSUME NEW p \in Qubits(k)
      PROVE  p \in M <=> ~(p \in A <=> p \in B)
  <2>1. /\ a.x[p] \in Bit /\ a.z[p] \in Bit /\ b.x[p] \in Bit /\ b.z[p] \in Bit
        /\ p \in A <=> ~((a.x[p] = 1 /\ c.z[p] = 1) <=> (a.z[p] = 1 /\ c.x[p] = 1))
        /\ p \in B <=> ~((b.x[p] = 1 /\ c.z[p] = 1) <=> (b.z[p] = 1 /\ c.x[p] = 1))
        /\ p \in M <=> ~((m.x[p] = 1 /\ c.z[p] = 1) <=> (m.z[p] = 1 /\ c.x[p] = 1))
    BY InClash
  <2>2. /\ m.x[p] = 1 <=> ~(a.x[p] = 1 <=> b.x[p] = 1)
        /\ m.z[p] = 1 <=> ~(a.z[p] = 1 <=> b.z[p] = 1)
    BY <2>1, XorOfBits
  <2> HIDE DEF A, B, M
  <2> QED
    BY <2>1, <2>2
<1>4. M = SymDiff(A, B)
  <2> HIDE DEF A, B, M
  <2> QED
    BY <1>2, <1>3 DEF SymDiff
<1>5. Cardinality(M) % 2 = ((Cardinality(A) % 2) + (Cardinality(B) % 2)) % 2
  BY <1>2, <1>4, ParityOfDifference
<1>6. /\ Anticommute(a, c) = Cardinality(A) % 2 /\ Anticommute(b, c) = Cardinality(B) % 2
      /\ Anticommute(m, c) = Cardinality(M) % 2
  BY DEF Anticommute
<1> HIDE DEF A, B, M
<1>7. Xor(Anticommute(a, c), Anticommute(b, c)) = ((Cardinality(A) % 2) + (Cardinality(B) % 2)) % 2
  BY <1>6 DEF Xor
<1> QED
  BY <1>5, <1>6, <1>7

\* a product anticommutes with a row if exactly one of its factors does
LEMMA RowMultAndClash ==
  ASSUME NEW k \in Nat, NEW a, HasBits(a, k), NEW b, HasBits(b, k), NEW c, HasBits(c, k)
  PROVE  Anticommute(RowMult(a, b), c) = Xor(Anticommute(a, c), Anticommute(b, c))
<1>1. /\ HasBits(RowMult(a, b), k)
      /\ \A p \in Qubits(k) : /\ RowMult(a, b).x[p] = Xor(a.x[p], b.x[p])
                              /\ RowMult(a, b).z[p] = Xor(a.z[p], b.z[p])
  BY RowMultIs
<1> QED
  BY <1>1, SumAndClash

-----------------------------------------------------------------------------
(* Tableaux.                                                                  *)

\* the order of two rows does not matter
LEMMA BasisPairs ==
  ASSUME NEW k \in Nat, NEW tb, IsTableau(tb, k)
  PROVE  IsBasis(tb, k) <=>
           \A i, j \in 0 .. 2 * k - 1 :
               i # j => Anticommute(tb[i], tb[j]) = IF j = i + k \/ i = j + k THEN 1 ELSE 0
<1>1. \A i, j \in 0 .. 2 * k - 1 : Anticommute(tb[i], tb[j]) = Anticommute(tb[j], tb[i])
  BY ClashIsSymmetric DEF IsTableau
<1>2. \A i, j \in 0 .. 2 * k - 1 : i # j => (i < j \/ j < i)
  OBVIOUS
<1>3. \A i, j \in 0 .. 2 * k - 1 : i < j => i # j /\ ~(i = j + k)
  OBVIOUS
<1>4. ASSUME IsBasis(tb, k), NEW i \in 0 .. 2 * k - 1, NEW j \in 0 .. 2 * k - 1, i # j
      PROVE  Anticommute(tb[i], tb[j]) = IF j = i + k \/ i = j + k THEN 1 ELSE 0
  <2>1. CASE i < j
    BY <2>1, <1>3, <1>4 DEF IsBasis
  <2>2. CASE j < i
    BY <2>2, <1>1, <1>3, <1>4 DEF IsBasis
  <2> QED
    BY <2>1, <2>2, <1>2, <1>4
<1>5. ASSUME \A i, j \in 0 .. 2 * k - 1 :
                i # j => Anticommute(tb[i], tb[j]) = IF j = i + k \/ i = j + k THEN 1 ELSE 0
      PROVE  IsBasis(tb, k)
  BY <1>3, <1>5 DEF IsBasis
<1> QED
  BY <1>4, <1>5

\* the bits that rowset sets
LEMMA RowSetIs ==
  ASSUME NEW k \in Nat, NEW i \in 0 .. 2 * k - 1
  PROVE  /\ HasBits(RowSet(k, i), k)
         /\ \A q \in Qubits(k) : /\ RowSet(k, i).x[q] = IF q = i THEN 1 ELSE 0
                                 /\ RowSet(k, i).z[q] = IF q + k = i THEN 1 ELSE 0
<1>1. RowSet(k, i).x = [q \in Qubits(k) |-> IF q = i THEN 1 ELSE 0]
  BY DEF RowSet
<1>2. RowSet(k, i).z = [q \in Qubits(k) |-> IF q + k = i THEN 1 ELSE 0]
  BY DEF RowSet
<1> QED
  BY <1>1, <1>2 DEF HasBits, Bit

\* the rows that init_state writes
LEMMA InitTableauIsBasis ==
  ASSUME NEW k \in Nat
  PROVE  IsTableau(InitTableau(k), k) /\ IsBasis(InitTableau(k), k)
<1> DEFINE tb == InitTableau(k)
<1>1. DOMAIN tb = 0 .. 2 * k - 1 /\ \A i \in 0 .. 2 * k - 1 : tb[i] = RowSet(k, i)
  BY DEF InitTableau
<1> HIDE DEF tb
<1>2. IsTableau(tb, k)
  BY <1>1, RowSetIs DEF IsTableau
<1>3. ASSUME NEW i \in 0 .. 2 * k - 1, NEW j \in 0 .. 2 * k - 1, i < j
      PROVE  Anticommute(tb[i], tb[j]) = IF j = i + k THEN 1 ELSE 0
  <2> DEFINE a == RowSet(k, i)
             b == RowSet(k, j)
  <2>1. /\ HasBits(a, k) /\ HasBits(b, k)
        /\ \A q \in Qubits(k) : /\ a.x[q] = IF q = i THEN 1 ELSE 0
                                /\ a.z[q] = IF q + k = i THEN 1 ELSE 0
                                /\ b.x[q] = IF q = j THEN 1 ELSE 0
                                /\ b.z[q] = IF q + k = j THEN 1 ELSE 0
    BY RowSetIs
  <2> HIDE DEF a, b
  <2>2. ASSUME NEW q \in Qubits(k)
        PROVE  q \in Clash(a, b) <=> (q = i /\ j = i + k)
    <3>1. q \in Clash(a, b) <=> ~((a.x[q] = 1 /\ b.z[q] = 1) <=> (a.z[q] = 1 /\ b.x[q] = 1))
      BY <2>1, InClash
    <3>2. /\ (a.x[q] = 1) <=> (q = i)
          /\ (a.z[q] = 1) <=> (q + k = i)
          /\ (b.x[q] = 1) <=> (q = j)
          /\ (b.z[q] = 1) <=> (q + k = j)
      BY <2>1
    <3>3. q \in Int /\ i \in Int /\ j \in Int /\ i < j
      BY <1>3 DEF Qubits
    <3>4. ~(q + k = i /\ q = j)
      BY <3>3
    <3> QED
      BY <3>1, <3>2, <3>3, <3>4
  <2>3. Clash(a, b) \subseteq Qubits(k)
    BY <2>1, ClashIsFinite
  <2>4. CASE j = i + k
    <3>1. i \in Qubits(k)
      BY <2>4 DEF Qubits
    <3>2. Clash(a, b) = {i}
      BY <3>1, <2>2, <2>3, <2>4
    <3>3. Cardinality(Clash(a, b)) = 1
      BY <3>2, FS_Singleton
    <3>4. Anticommute(a, b) = 1
      BY <3>3 DEF Anticommute
    <3> QED
      BY <3>4, <2>4, <1>1 DEF a, b
  <2>5. CASE j # i + k
    <3>1. Clash(a, b) = {}
      BY <2>2, <2>3, <2>5
    <3>2. Anticommute(a, b) = 0
      BY <3>1, FS_EmptySet DEF Anticommute
    <3> QED
      BY <3>2, <2>5, <1>1 DEF a, b
  <2> QED
    BY <2>4, <2>5
<1>4. IsBasis(tb, k)
  BY <1>3 DEF IsBasis
<1> QED
  BY <1>2, <1>4 DEF tb

\* the gates keep a basis
LEMMA HadamardKeepsBasis ==
  ASSUME NEW k \in Nat, NEW tb, IsTableau(tb, k), IsBasis(tb, k), NEW q \in Qubits(k)
  PROVE  IsTableau(Hadamard(tb, q), k) /\ IsBasis(Hadamard(tb, q), k)
<1> DEFINE new == Hadamard(tb, q)
<1>1. DOMAIN tb = 0 .. 2 * k - 1 /\ \A i \in 0 .. 2 * k - 1 : HasBits(tb[i], k)
  BY DEF IsTableau
<1>2. DOMAIN new = 0 .. 2 * k - 1 /\ \A i \in 0 .. 2 * k - 1 : new[i] = HadamardRow(tb[i], q)
  BY <1>1 DEF Hadamard
<1> HIDE DEF new
<1>3. IsTableau(new, k)
  BY <1>1, <1>2, HadamardRowIs DEF IsTableau
<1>4. \A i, j \in 0 .. 2 * k - 1 : Anticommute(new[i], new[j]) = Anticommute(tb[i], tb[j])
  BY <1>1, <1>2, HadamardKeepsClash
<1>5. IsBasis(new, k)
  BY <1>4 DEF IsBasis
<1> QED
  BY <1>3, <1>5 DEF new

\* the phase gate
LEMMA PhaseKeepsBasis ==
  ASSUME NEW k \in Nat, NEW tb, IsTableau(tb, k), IsBasis(tb, k), NEW q \in Qubits(k)
  PROVE  IsTableau(Phase(tb, q), k) /\ IsBasis(Phase(tb, q), k)
<1> DEFINE new == Phase(tb, q)
<1>1. DOMAIN tb = 0 .. 2 * k - 1 /\ \A i \in 0 .. 2 * k - 1 : HasBits(tb[i], k)
  BY DEF IsTableau
<1>2. DOMAIN new = 0 .. 2 * k - 1 /\ \A i \in 0 .. 2 * k - 1 : new[i] = PhaseRow(tb[i], q)
  BY <1>1 DEF Phase
<1> HIDE DEF new
<1>3. IsTableau(new, k)
  BY <1>1, <1>2, PhaseRowIs DEF IsTableau
<1>4. \A i, j \in 0 .. 2 * k - 1 : Anticommute(new[i], new[j]) = Anticommute(tb[i], tb[j])
  BY <1>1, <1>2, PhaseKeepsClash
<1>5. IsBasis(new, k)
  BY <1>4 DEF IsBasis
<1> QED
  BY <1>3, <1>5 DEF new

\* the controlled not
LEMMA CnotKeepsBasis ==
  ASSUME NEW k \in Nat, NEW tb, IsTableau(tb, k), IsBasis(tb, k),
         NEW c \in Qubits(k), NEW t \in Qubits(k), c # t
  PROVE  IsTableau(Cnot(tb, c, t), k) /\ IsBasis(Cnot(tb, c, t), k)
<1> DEFINE new == Cnot(tb, c, t)
<1>1. DOMAIN tb = 0 .. 2 * k - 1 /\ \A i \in 0 .. 2 * k - 1 : HasBits(tb[i], k)
  BY DEF IsTableau
<1>2. DOMAIN new = 0 .. 2 * k - 1 /\ \A i \in 0 .. 2 * k - 1 : new[i] = CnotRow(tb[i], c, t)
  BY <1>1 DEF Cnot
<1> HIDE DEF new
<1>3. IsTableau(new, k)
  BY <1>1, <1>2, CnotRowIs DEF IsTableau
<1>4. \A i, j \in 0 .. 2 * k - 1 : Anticommute(new[i], new[j]) = Anticommute(tb[i], tb[j])
  BY <1>1, <1>2, CnotKeepsClash
<1>5. IsBasis(new, k)
  BY <1>4 DEF IsBasis
<1> QED
  BY <1>3, <1>5 DEF new

\* the Pauli gates, being sequences of the others
LEMMA PaulisKeepBasis ==
  ASSUME NEW k \in Nat, NEW tb, IsTableau(tb, k), IsBasis(tb, k), NEW q \in Qubits(k)
  PROVE  /\ IsTableau(PauliX(tb, q), k) /\ IsBasis(PauliX(tb, q), k)
         /\ IsTableau(PauliY(tb, q), k) /\ IsBasis(PauliY(tb, q), k)
         /\ IsTableau(PauliZ(tb, q), k) /\ IsBasis(PauliZ(tb, q), k)
<1>1. ASSUME NEW t, IsTableau(t, k), IsBasis(t, k)
      PROVE  IsTableau(PauliZ(t, q), k) /\ IsBasis(PauliZ(t, q), k)
  BY <1>1, PhaseKeepsBasis DEF PauliZ
<1>2. ASSUME NEW t, IsTableau(t, k), IsBasis(t, k)
      PROVE  IsTableau(PauliX(t, q), k) /\ IsBasis(PauliX(t, q), k)
  BY <1>2, PhaseKeepsBasis, HadamardKeepsBasis DEF PauliX
<1>3. IsTableau(PauliY(tb, q), k) /\ IsBasis(PauliY(tb, q), k)
  BY <1>1, <1>2, PhaseKeepsBasis DEF PauliY
<1> QED
  BY <1>1, <1>2, <1>3

-----------------------------------------------------------------------------
(* The collapse of a random measurement.                                      *)

\* the observable of qubit q
LEMMA ObservableIs ==
  ASSUME NEW k \in Nat, NEW q \in Qubits(k), NEW v
  PROVE  /\ HasBits(Observable(k, q, v), k) /\ Observable(k, q, v).r = 2 * v
         /\ \A c \in Qubits(k) : /\ Observable(k, q, v).x[c] = 0
                                 /\ Observable(k, q, v).z[c] = IF c = q THEN 1 ELSE 0
<1> DEFINE zq == Observable(k, q, v)
<1>1. zq.x = RowSet(k, q + k).x /\ zq.z = RowSet(k, q + k).z /\ zq.r = 2 * v
  BY DEF Observable, RowSet
<1>2. q + k \in 0 .. 2 * k - 1
  BY DEF Qubits
<1>3. /\ HasBits(RowSet(k, q + k), k)
      /\ \A c \in Qubits(k) : /\ RowSet(k, q + k).x[c] = IF c = q + k THEN 1 ELSE 0
                              /\ RowSet(k, q + k).z[c] = IF c + k = q + k THEN 1 ELSE 0
  BY <1>2, RowSetIs
<1>4. \A c \in Qubits(k) : c # q + k /\ (c + k = q + k <=> c = q)
  BY DEF Qubits
<1> HIDE DEF zq
<1>5. HasBits(zq, k) /\ \A c \in Qubits(k) : zq.x[c] = 0 /\ zq.z[c] = IF c = q THEN 1 ELSE 0
  BY <1>1, <1>3, <1>4 DEF HasBits
<1> QED
  BY <1>1, <1>5 DEF zq

\* what measure leaves: the stabilizer p + k becomes the destabilizer p, the
\* observable takes its place, and the other rows lose their X on the qubit
LEMMA CollapseIs ==
  ASSUME NEW k \in Nat, NEW tb, IsTableau(tb, k),
         NEW q \in Qubits(k), IsRandom(tb, k, q), NEW v,
         NEW p, p = Min(Pivots(tb, k, k, q))
  PROVE  /\ p \in 0 .. k - 1 /\ tb[p + k].x[q] = 1
         /\ DOMAIN Collapse(tb, k, q, v) = 0 .. 2 * k - 1
         /\ Collapse(tb, k, q, v)[p] = tb[p + k]
         /\ Collapse(tb, k, q, v)[p + k] = Observable(k, q, v)
         /\ \A i \in (0 .. 2 * k - 1) \ {p, p + k} :
               Collapse(tb, k, q, v)[i] = IF tb[i].x[q] = 1 THEN RowMult(tb[i], tb[p + k])
                                                            ELSE tb[i]
<1> DEFINE I    == 0 .. 2 * k - 1
           zq   == Observable(k, q, v)
           swap == [tb EXCEPT ![p] = tb[p + k], ![p + k] = zq]
           new  == Collapse(tb, k, q, v)
<1>1. DOMAIN tb = I
  BY DEF IsTableau
<1>2. p \in 0 .. k - 1 /\ tb[p + k].x[q] = 1
  <2>1. Pivots(tb, k, k, q) \in SUBSET Nat /\ Pivots(tb, k, k, q) # {}
    BY DEF Pivots, IsRandom
  <2>2. p \in Pivots(tb, k, k, q)
    BY <2>1, SmallestNat
  <2>3. p \in 0 .. k - 1 /\ tb[k + p].x[q] = 1
    BY <2>2 DEF Pivots
  <2> QED
    BY <2>3
<1>3. p \in I /\ p + k \in I /\ p # p + k /\ q \in Qubits(k) /\ q # q + k
  BY <1>2 DEF Qubits
<1>4. zq.x[q] = 0
  BY ObservableIs
<1> HIDE DEF zq
<1>5. /\ DOMAIN swap = I /\ swap[p] = tb[p + k] /\ swap[p + k] = zq
      /\ \A i \in I \ {p, p + k} : swap[i] = tb[i]
  BY <1>1, <1>3
<1>6. /\ DOMAIN new = I
      /\ \A i \in I : new[i] = IF i # p /\ swap[i].x[q] = 1 THEN RowMult(swap[i], swap[p])
                                                            ELSE swap[i]
  BY <1>1 DEF Collapse, zq
<1> HIDE DEF swap, new
<1>7. new[p] = tb[p + k] /\ new[p + k] = zq
  BY <1>3, <1>4, <1>5, <1>6
<1>8. \A i \in I \ {p, p + k} : new[i] = IF tb[i].x[q] = 1 THEN RowMult(tb[i], tb[p + k]) ELSE tb[i]
  BY <1>5, <1>6
<1> QED
  BY <1>2, <1>6, <1>7, <1>8 DEF new, zq

\* the rows that are kept commute with the stabilizer p + k that is replaced,
\* so that multiplying them by it changes nothing between them
LEMMA CollapseKeepsBasis ==
  ASSUME NEW k \in Nat, NEW tb, IsTableau(tb, k), IsBasis(tb, k),
         NEW q \in Qubits(k), IsRandom(tb, k, q), NEW v
  PROVE  IsTableau(Collapse(tb, k, q, v), k) /\ IsBasis(Collapse(tb, k, q, v), k)
<1> DEFINE I    == 0 .. 2 * k - 1
           p    == Min(Pivots(tb, k, k, q))
           zq   == Observable(k, q, v)
           P    == tb[p + k]
           new  == Collapse(tb, k, q, v)
<1>1. DOMAIN tb = I /\ \A i \in I : HasBits(tb[i], k)
  BY DEF IsTableau
<1> HIDE DEF zq, p
<1>2. p \in 0 .. k - 1 /\ P.x[q] = 1
  BY CollapseIs DEF p
<1>3. p \in I /\ p + k \in I /\ p # p + k /\ q + k \in I
  BY <1>2 DEF Qubits
<1>5. /\ HasBits(zq, k)
      /\ \A c \in Qubits(k) : zq.x[c] = 0 /\ (zq.z[c] = 1 <=> c = q)
  <2>1. /\ HasBits(zq, k)
        /\ \A c \in Qubits(k) : zq.x[c] = 0 /\ zq.z[c] = IF c = q THEN 1 ELSE 0
    BY ObservableIs DEF zq
  <2> QED
    BY <2>1
<1>7. DOMAIN new = I
  BY CollapseIs
<1>8. new[p] = P /\ new[p + k] = zq
  BY CollapseIs DEF p, zq
<1>9. \A i \in I \ {p, p + k} : new[i] = IF tb[i].x[q] = 1 THEN RowMult(tb[i], P) ELSE tb[i]
  BY CollapseIs DEF p
<1> HIDE DEF P, new
<1>10. HasBits(P, k)
  BY <1>1, <1>3 DEF P
<1>11. \A i \in I : HasBits(new[i], k)
  BY <1>1, <1>5, <1>8, <1>9, <1>10, RowMultIs
<1>12. IsTableau(new, k)
  BY <1>7, <1>11 DEF IsTableau
<1>13. \A i, j \in I : i # j => Anticommute(tb[i], tb[j]) = IF j = i + k \/ i = j + k THEN 1 ELSE 0
  BY BasisPairs
<1>14. ASSUME NEW i \in I \ {p, p + k}
       PROVE  Anticommute(tb[i], P) = 0 /\ Anticommute(P, tb[i]) = 0
  <2>1. i # p + k /\ ~(p + k = i + k) /\ ~(i = (p + k) + k)
    BY <1>2
  <2> QED
    BY <2>1, <1>3, <1>13 DEF P
<1>15. Anticommute(P, P) = 0
  BY <1>10, NoClashWithItself
<1>16. ASSUME NEW i \in I \ {p, p + k}, NEW c, HasBits(c, k), Anticommute(P, c) = 0
       PROVE  Anticommute(new[i], c) = Anticommute(tb[i], c)
  <2>1. CASE tb[i].x[q] = 1
    <3>1. Anticommute(new[i], c) = Xor(Anticommute(tb[i], c), Anticommute(P, c))
      BY <2>1, <1>1, <1>9, <1>10, <1>16, RowMultAndClash
    <3>2. Anticommute(tb[i], c) \in Bit
      BY <1>1, ClashIsFinite
    <3> QED
      BY <3>1, <3>2, <1>16 DEF Xor, Bit
  <2>2. CASE tb[i].x[q] # 1
    BY <2>2, <1>9
  <2> QED
    BY <2>1, <2>2
<1>17. ASSUME NEW i \in I \ {p, p + k}
       PROVE  Anticommute(new[i], P) = 0 /\ Anticommute(P, new[i]) = 0
  <2>1. Anticommute(new[i], P) = 0
    BY <1>10, <1>14, <1>15, <1>16
  <2> QED
    BY <2>1, <1>10, <1>11, ClashIsSymmetric
<1>18. ASSUME NEW i \in I \ {p, p + k}, NEW j \in I \ {p, p + k}
       PROVE  Anticommute(new[i], new[j]) = Anticommute(tb[i], tb[j])
  <2>1. Anticommute(new[i], new[j]) = Anticommute(tb[i], new[j])
    BY <1>11, <1>16, <1>17
  <2>2. Anticommute(tb[i], new[j]) = Anticommute(new[j], tb[i])
    BY <1>1, <1>11, ClashIsSymmetric
  <2>3. Anticommute(new[j], tb[i]) = Anticommute(tb[j], tb[i])
    BY <1>1, <1>14, <1>16
  <2>4. Anticommute(tb[j], tb[i]) = Anticommute(tb[i], tb[j])
    BY <1>1, ClashIsSymmetric
  <2> QED
    BY <2>1, <2>2, <2>3, <2>4
<1>19. ASSUME NEW i \in I \ {p, p + k}
       PROVE  Anticommute(new[i], zq) = 0 /\ Anticommute(zq, new[i]) = 0
  <2>1. new[i].x[q] = 0
    <3>1. tb[i].x[q] \in Bit /\ P.x[q] = 1
      BY <1>1, <1>2 DEF HasBits
    <3>2. CASE tb[i].x[q] = 1
      <4>1. new[i].x[q] = Xor(tb[i].x[q], P.x[q])
        BY <3>2, <1>1, <1>9, <1>10, RowMultIs
      <4> QED
        BY <4>1, <3>1, <3>2 DEF Xor
    <3>3. CASE tb[i].x[q] = 0
      BY <3>3, <1>9
    <3> QED
      BY <3>1, <3>2, <3>3 DEF Bit
  <2>2. \A c \in Qubits(k) : c \notin Clash(new[i], zq)
    <3> TAKE c \in Qubits(k)
    <3>1. c \in Clash(new[i], zq) <=>
            ~((new[i].x[c] = 1 /\ zq.z[c] = 1) <=> (new[i].z[c] = 1 /\ zq.x[c] = 1))
      BY <1>5, <1>11, InClash
    <3> QED
      BY <3>1, <2>1, <1>5
  <2>3. Clash(new[i], zq) = {}
    BY <2>2, <1>11, ClashIsFinite
  <2>4. Anticommute(new[i], zq) = 0
    BY <2>3, FS_EmptySet DEF Anticommute
  <2> QED
    BY <2>4, <1>5, <1>11, ClashIsSymmetric
<1>20. Anticommute(P, zq) = 1 /\ Anticommute(zq, P) = 1
  <2>1. \A c \in Qubits(k) : c \in Clash(P, zq) <=> c = q
    <3> TAKE c \in Qubits(k)
    <3>1. c \in Clash(P, zq) <=> ~((P.x[c] = 1 /\ zq.z[c] = 1) <=> (P.z[c] = 1 /\ zq.x[c] = 1))
      BY <1>5, <1>10, InClash
    <3> QED
      BY <3>1, <1>2, <1>5
  <2>2. Clash(P, zq) = {q}
    BY <2>1, <1>10, ClashIsFinite
  <2>3. Cardinality(Clash(P, zq)) = 1
    BY <2>2, FS_Singleton
  <2>4. Anticommute(P, zq) = 1
    BY <2>3 DEF Anticommute
  <2> QED
    BY <2>4, <1>5, <1>10, ClashIsSymmetric
<1>21. ASSUME NEW i \in I, NEW j \in I, i # j
       PROVE  Anticommute(new[i], new[j]) = IF j = i + k \/ i = j + k THEN 1 ELSE 0
  <2>1. CASE i \notin {p, p + k} /\ j \notin {p, p + k}
    BY <2>1, <1>13, <1>18, <1>21
  <2>2. CASE i \notin {p, p + k} /\ j \in {p, p + k}
    <3>1. Anticommute(new[i], new[j]) = 0
      BY <2>2, <1>8, <1>17, <1>19
    <3>2. ~(j = i + k \/ i = j + k)
      BY <2>2, <1>2
    <3> QED
      BY <3>1, <3>2
  <2>3. CASE i \in {p, p + k} /\ j \notin {p, p + k}
    <3>1. Anticommute(new[i], new[j]) = 0
      BY <2>3, <1>8, <1>17, <1>19
    <3>2. ~(j = i + k \/ i = j + k)
      BY <2>3, <1>2
    <3> QED
      BY <3>1, <3>2
  <2>4. CASE i \in {p, p + k} /\ j \in {p, p + k}
    <3>1. (i = p /\ j = p + k) \/ (i = p + k /\ j = p)
      BY <2>4, <1>21
    <3>2. Anticommute(new[i], new[j]) = 1
      BY <3>1, <1>8, <1>20
    <3> QED
      BY <3>1, <3>2
  <2> QED
    BY <2>1, <2>2, <2>3, <2>4
<1>22. IsBasis(new, k)
  BY <1>12, <1>21, BasisPairs
<1> QED
  BY <1>12, <1>22 DEF new

-----------------------------------------------------------------------------
(* The columns.                                                               *)

\* the bits of the columns are those of the rows
LEMMA ColumnsAre ==
  ASSUME NEW k \in Nat, NEW tb, IsTableau(tb, k), NEW q \in Qubits(k)
  PROVE  /\ HasBits(XColumn(tb, k, q), k) /\ HasBits(ZColumn(tb, k, q), k)
         /\ \A i \in Qubits(k) :
               /\ XColumn(tb, k, q).x[i] = tb[i].x[q] /\ XColumn(tb, k, q).z[i] = tb[i + k].x[q]
               /\ ZColumn(tb, k, q).x[i] = tb[i].z[q] /\ ZColumn(tb, k, q).z[i] = tb[i + k].z[q]
<1>1. \A i \in Qubits(k) : i \in 0 .. 2 * k - 1 /\ i + k \in 0 .. 2 * k - 1
  BY DEF Qubits
<1>2. \A i \in 0 .. 2 * k - 1 : tb[i].x[q] \in Bit /\ tb[i].z[q] \in Bit
  BY DEF IsTableau, HasBits
<1> QED
  BY <1>1, <1>2 DEF XColumn, ZColumn, HasBits

\* only the bits matter
LEMMA SameBits ==
  ASSUME NEW k \in Nat, NEW a, HasBits(a, k), NEW b, HasBits(b, k), NEW c,
         \A p \in Qubits(k) : a.x[p] = b.x[p] /\ a.z[p] = b.z[p]
  PROVE  Anticommute(a, c) = Anticommute(b, c)
<1>1. a.x = b.x /\ a.z = b.z
  BY DEF HasBits
<1>2. Clash(a, c) = Clash(b, c)
  BY <1>1 DEF Clash
<1> QED
  BY <1>2 DEF Anticommute

\* the columns of the rows that init_state writes are a basis
LEMMA InitTableauIsDual ==
  ASSUME NEW k \in Nat
  PROVE  IsDual(InitTableau(k), k)
<1> DEFINE tb == InitTableau(k)
<1>1. IsTableau(tb, k) /\ IsBasis(tb, k)
  BY InitTableauIsBasis
<1>2. \A i \in 0 .. 2 * k - 1 : tb[i] = RowSet(k, i)
  BY DEF InitTableau
<1> HIDE DEF tb
<1>3. \A i, j \in 0 .. 2 * k - 1 :
         i # j => Anticommute(tb[i], tb[j]) = IF j = i + k \/ i = j + k THEN 1 ELSE 0
  BY <1>1, BasisPairs
<1>4. ASSUME NEW q \in Qubits(k), NEW c, HasBits(c, k)
      PROVE  /\ Anticommute(XColumn(tb, k, q), c) = Anticommute(tb[q], c)
             /\ Anticommute(ZColumn(tb, k, q), c) = Anticommute(tb[q + k], c)
  <2>1. q \in 0 .. 2 * k - 1 /\ q + k \in 0 .. 2 * k - 1
    BY DEF Qubits
  <2>2. /\ HasBits(tb[q], k) /\ HasBits(tb[q + k], k)
        /\ HasBits(XColumn(tb, k, q), k) /\ HasBits(ZColumn(tb, k, q), k)
    BY <1>1, <2>1, ColumnsAre DEF IsTableau
  <2>3. ASSUME NEW i \in Qubits(k)
        PROVE  /\ XColumn(tb, k, q).x[i] = tb[q].x[i] /\ XColumn(tb, k, q).z[i] = tb[q].z[i]
               /\ ZColumn(tb, k, q).x[i] = tb[q + k].x[i] /\ ZColumn(tb, k, q).z[i] = tb[q + k].z[i]
    <3>1. i \in 0 .. 2 * k - 1 /\ i + k \in 0 .. 2 * k - 1
      BY DEF Qubits
    <3>2. /\ tb[i].x[q] = IF q = i THEN 1 ELSE 0
          /\ tb[i].z[q] = IF q + k = i THEN 1 ELSE 0
          /\ tb[i + k].x[q] = IF q = i + k THEN 1 ELSE 0
          /\ tb[i + k].z[q] = IF q + k = i + k THEN 1 ELSE 0
      BY <1>2, <3>1, RowSetIs
    <3>3. /\ tb[q].x[i] = IF i = q THEN 1 ELSE 0
          /\ tb[q].z[i] = IF i + k = q THEN 1 ELSE 0
          /\ tb[q + k].x[i] = IF i = q + k THEN 1 ELSE 0
          /\ tb[q + k].z[i] = IF i + k = q + k THEN 1 ELSE 0
      BY <1>2, <2>1, RowSetIs
    <3>4. /\ XColumn(tb, k, q).x[i] = tb[i].x[q] /\ XColumn(tb, k, q).z[i] = tb[i + k].x[q]
          /\ ZColumn(tb, k, q).x[i] = tb[i].z[q] /\ ZColumn(tb, k, q).z[i] = tb[i + k].z[q]
      BY <1>1, ColumnsAre
    <3>5. q # i + k /\ i # q + k
      BY DEF Qubits
    <3> QED
      BY <3>2, <3>3, <3>4, <3>5
  <2> QED
    BY <2>2, <2>3, SameBits
<1>5. ASSUME NEW a \in Qubits(k), NEW b \in Qubits(k)
      PROVE  /\ Anticommute(XColumn(tb, k, a), XColumn(tb, k, b)) = 0
             /\ Anticommute(ZColumn(tb, k, a), ZColumn(tb, k, b)) = 0
             /\ Anticommute(XColumn(tb, k, a), ZColumn(tb, k, b)) = (IF a = b THEN 1 ELSE 0)
  <2>1. /\ a \in 0 .. 2 * k - 1 /\ a + k \in 0 .. 2 * k - 1
        /\ b \in 0 .. 2 * k - 1 /\ b + k \in 0 .. 2 * k - 1
        /\ a # b + k /\ b # a + k /\ b + k # (a + k) + k /\ a + k # (b + k) + k
        /\ a # (b + k) + k /\ (b + k = a + k <=> a = b)
    BY DEF Qubits
  <2>2. /\ HasBits(tb[a], k) /\ HasBits(tb[a + k], k) /\ HasBits(tb[b], k) /\ HasBits(tb[b + k], k)
        /\ HasBits(XColumn(tb, k, b), k) /\ HasBits(ZColumn(tb, k, b), k)
    BY <1>1, <2>1, ColumnsAre DEF IsTableau
  <2>3. /\ Anticommute(XColumn(tb, k, a), XColumn(tb, k, b)) = Anticommute(tb[a], tb[b])
        /\ Anticommute(ZColumn(tb, k, a), ZColumn(tb, k, b)) = Anticommute(tb[a + k], tb[b + k])
        /\ Anticommute(XColumn(tb, k, a), ZColumn(tb, k, b)) = Anticommute(tb[a], tb[b + k])
    <3>1. /\ Anticommute(XColumn(tb, k, a), XColumn(tb, k, b)) = Anticommute(tb[a], XColumn(tb, k, b))
          /\ Anticommute(ZColumn(tb, k, a), ZColumn(tb, k, b)) = Anticommute(tb[a + k], ZColumn(tb, k, b))
          /\ Anticommute(XColumn(tb, k, a), ZColumn(tb, k, b)) = Anticommute(tb[a], ZColumn(tb, k, b))
      BY <2>2, <1>4
    <3>2. /\ Anticommute(tb[a], XColumn(tb, k, b)) = Anticommute(XColumn(tb, k, b), tb[a])
          /\ Anticommute(tb[a + k], ZColumn(tb, k, b)) = Anticommute(ZColumn(tb, k, b), tb[a + k])
          /\ Anticommute(tb[a], ZColumn(tb, k, b)) = Anticommute(ZColumn(tb, k, b), tb[a])
      BY <2>2, ClashIsSymmetric
    <3>3. /\ Anticommute(XColumn(tb, k, b), tb[a]) = Anticommute(tb[b], tb[a])
          /\ Anticommute(ZColumn(tb, k, b), tb[a + k]) = Anticommute(tb[b + k], tb[a + k])
          /\ Anticommute(ZColumn(tb, k, b), tb[a]) = Anticommute(tb[b + k], tb[a])
      BY <2>2, <1>4
    <3>4. /\ Anticommute(tb[b], tb[a]) = Anticommute(tb[a], tb[b])
          /\ Anticommute(tb[b + k], tb[a + k]) = Anticommute(tb[a + k], tb[b + k])
          /\ Anticommute(tb[b + k], tb[a]) = Anticommute(tb[a], tb[b + k])
      BY <2>2, ClashIsSymmetric
    <3> QED
      BY <3>1, <3>2, <3>3, <3>4
  <2>4. CASE a = b
    <3>1. Anticommute(tb[a], tb[a]) = 0 /\ Anticommute(tb[a + k], tb[a + k]) = 0
      BY <2>2, NoClashWithItself
    <3>2. Anticommute(tb[a], tb[b + k]) = 1
      BY <1>3, <2>1, <2>4
    <3> QED
      BY <2>3, <2>4, <3>1, <3>2
  <2>5. CASE a # b
    <3>1. Anticommute(tb[a], tb[b]) = 0 /\ Anticommute(tb[a], tb[b + k]) = 0
      BY <1>3, <2>1, <2>5
    <3>2. Anticommute(tb[a + k], tb[b + k]) = 0
      BY <1>3, <2>1, <2>5
    <3> QED
      BY <2>3, <2>5, <3>1, <3>2
  <2> QED
    BY <2>4, <2>5
<1> QED
  BY <1>5 DEF IsDual, tb

\* IsDual, in either order of the columns
LEMMA DualPairs ==
  ASSUME NEW k \in Nat, NEW tb, IsTableau(tb, k), IsDual(tb, k)
  PROVE  \A a, b \in Qubits(k) :
           /\ Anticommute(XColumn(tb, k, a), XColumn(tb, k, b)) = 0
           /\ Anticommute(ZColumn(tb, k, a), ZColumn(tb, k, b)) = 0
           /\ Anticommute(XColumn(tb, k, a), ZColumn(tb, k, b)) = IF a = b THEN 1 ELSE 0
           /\ Anticommute(ZColumn(tb, k, a), XColumn(tb, k, b)) = IF a = b THEN 1 ELSE 0
<1> SUFFICES ASSUME NEW a \in Qubits(k), NEW b \in Qubits(k)
             PROVE  /\ Anticommute(XColumn(tb, k, a), XColumn(tb, k, b)) = 0
                    /\ Anticommute(ZColumn(tb, k, a), ZColumn(tb, k, b)) = 0
                    /\ Anticommute(XColumn(tb, k, a), ZColumn(tb, k, b)) = IF a = b THEN 1 ELSE 0
                    /\ Anticommute(ZColumn(tb, k, a), XColumn(tb, k, b)) = IF a = b THEN 1 ELSE 0
  OBVIOUS
<1>1. /\ Anticommute(XColumn(tb, k, a), XColumn(tb, k, b)) = 0
      /\ Anticommute(ZColumn(tb, k, a), ZColumn(tb, k, b)) = 0
      /\ Anticommute(XColumn(tb, k, a), ZColumn(tb, k, b)) = IF a = b THEN 1 ELSE 0
      /\ Anticommute(XColumn(tb, k, b), ZColumn(tb, k, a)) = IF b = a THEN 1 ELSE 0
  BY DEF IsDual
<1>2. HasBits(XColumn(tb, k, b), k) /\ HasBits(ZColumn(tb, k, a), k)
  BY ColumnsAre
<1>3. Anticommute(XColumn(tb, k, b), ZColumn(tb, k, a)) = Anticommute(ZColumn(tb, k, a), XColumn(tb, k, b))
  BY <1>2, ClashIsSymmetric
<1> QED
  BY <1>1, <1>3

\* a Hadamard gate exchanges two columns
LEMMA HadamardKeepsDual ==
  ASSUME NEW k \in Nat, NEW tb, IsTableau(tb, k), IsDual(tb, k), NEW q \in Qubits(k)
  PROVE  IsDual(Hadamard(tb, q), k)
<1> DEFINE new == Hadamard(tb, q)
<1>1. DOMAIN tb = 0 .. 2 * k - 1 /\ \A i \in 0 .. 2 * k - 1 : HasBits(tb[i], k)
  BY DEF IsTableau
<1>2. \A i \in 0 .. 2 * k - 1 : new[i] = HadamardRow(tb[i], q)
  BY <1>1 DEF Hadamard
<1> HIDE DEF new
<1>3. \A i \in Qubits(k) : i \in 0 .. 2 * k - 1 /\ i + k \in 0 .. 2 * k - 1
  BY DEF Qubits
<1>4. \A i \in 0 .. 2 * k - 1 : \A c \in Qubits(k) :
        /\ new[i].x[c] = IF c = q THEN tb[i].z[c] ELSE tb[i].x[c]
        /\ new[i].z[c] = IF c = q THEN tb[i].x[c] ELSE tb[i].z[c]
  BY <1>1, <1>2, HadamardRowIs
<1>5. ASSUME NEW c \in Qubits(k)
      PROVE  /\ XColumn(new, k, c) = IF c = q THEN ZColumn(tb, k, c) ELSE XColumn(tb, k, c)
             /\ ZColumn(new, k, c) = IF c = q THEN XColumn(tb, k, c) ELSE ZColumn(tb, k, c)
  <2>1. CASE c = q
    <3>1. XColumn(new, k, c) = ZColumn(tb, k, c) /\ ZColumn(new, k, c) = XColumn(tb, k, c)
      BY <2>1, <1>3, <1>4 DEF XColumn, ZColumn
    <3> QED
      BY <2>1, <3>1
  <2>2. CASE c # q
    <3>1. XColumn(new, k, c) = XColumn(tb, k, c) /\ ZColumn(new, k, c) = ZColumn(tb, k, c)
      BY <2>2, <1>3, <1>4 DEF XColumn, ZColumn
    <3> QED
      BY <2>2, <3>1
  <2> QED
    BY <2>1, <2>2
<1>6. \A a, b \in Qubits(k) :
        /\ Anticommute(XColumn(tb, k, a), XColumn(tb, k, b)) = 0
        /\ Anticommute(ZColumn(tb, k, a), ZColumn(tb, k, b)) = 0
        /\ Anticommute(XColumn(tb, k, a), ZColumn(tb, k, b)) = IF a = b THEN 1 ELSE 0
        /\ Anticommute(ZColumn(tb, k, a), XColumn(tb, k, b)) = IF a = b THEN 1 ELSE 0
  BY DualPairs
<1>7. \A a, b \in Qubits(k) :
        /\ Anticommute(XColumn(new, k, a), XColumn(new, k, b)) = 0
        /\ Anticommute(ZColumn(new, k, a), ZColumn(new, k, b)) = 0
        /\ Anticommute(XColumn(new, k, a), ZColumn(new, k, b)) = IF a = b THEN 1 ELSE 0
  BY <1>5, <1>6
<1> QED
  BY <1>7 DEF IsDual, new

\* a phase gate adds a column to another
LEMMA PhaseKeepsDual ==
  ASSUME NEW k \in Nat, NEW tb, IsTableau(tb, k), IsDual(tb, k), NEW q \in Qubits(k)
  PROVE  IsDual(Phase(tb, q), k)
<1> DEFINE new == Phase(tb, q)
           X(c) == XColumn(tb, k, c)
           Z(c) == ZColumn(tb, k, c)
           zq   == ZColumn(new, k, q)
<1>1. DOMAIN tb = 0 .. 2 * k - 1 /\ \A i \in 0 .. 2 * k - 1 : HasBits(tb[i], k)
  BY DEF IsTableau
<1>2. DOMAIN new = 0 .. 2 * k - 1 /\ \A i \in 0 .. 2 * k - 1 : new[i] = PhaseRow(tb[i], q)
  BY <1>1 DEF Phase
<1> HIDE DEF new
<1>3. \A i \in Qubits(k) : i \in 0 .. 2 * k - 1 /\ i + k \in 0 .. 2 * k - 1
  BY DEF Qubits
<1>4. \A i \in 0 .. 2 * k - 1 :
        /\ HasBits(new[i], k)
        /\ \A c \in Qubits(k) :
              /\ new[i].x[c] = tb[i].x[c]
              /\ new[i].z[c] = IF c = q THEN Xor(tb[i].z[c], tb[i].x[c]) ELSE tb[i].z[c]
  BY <1>1, <1>2, PhaseRowIs
<1>5. IsTableau(new, k)
  BY <1>2, <1>4 DEF IsTableau
<1>6. ASSUME NEW c \in Qubits(k)
      PROVE  XColumn(new, k, c) = X(c) /\ (c # q => ZColumn(new, k, c) = Z(c))
  BY <1>3, <1>4 DEF XColumn, ZColumn
<1>7. \A c \in Qubits(k) : HasBits(X(c), k) /\ HasBits(Z(c), k)
  BY ColumnsAre
<1>8. /\ HasBits(zq, k)
      /\ \A i \in Qubits(k) : zq.x[i] = Xor(Z(q).x[i], X(q).x[i]) /\ zq.z[i] = Xor(Z(q).z[i], X(q).z[i])
  <2>1. HasBits(zq, k) /\ \A i \in Qubits(k) : zq.x[i] = new[i].z[q] /\ zq.z[i] = new[i + k].z[q]
    BY <1>5, ColumnsAre
  <2>2. \A i \in Qubits(k) : /\ X(q).x[i] = tb[i].x[q] /\ X(q).z[i] = tb[i + k].x[q]
                             /\ Z(q).x[i] = tb[i].z[q] /\ Z(q).z[i] = tb[i + k].z[q]
    BY ColumnsAre
  <2> HIDE DEF zq, X, Z
  <2> QED
    BY <2>1, <2>2, <1>3, <1>4
<1> HIDE DEF zq
<1>9. \A a, b \in Qubits(k) :
        /\ Anticommute(X(a), X(b)) = 0 /\ Anticommute(Z(a), Z(b)) = 0
        /\ Anticommute(X(a), Z(b)) = IF a = b THEN 1 ELSE 0
        /\ Anticommute(Z(a), X(b)) = IF a = b THEN 1 ELSE 0
  BY DualPairs
<1> HIDE DEF X, Z
<1>10. Anticommute(zq, zq) = 0
  BY <1>8, NoClashWithItself
<1>11. ASSUME NEW c \in Qubits(k)
       PROVE  /\ c # q => Anticommute(zq, Z(c)) = 0 /\ Anticommute(Z(c), zq) = 0
              /\ Anticommute(X(c), zq) = IF c = q THEN 1 ELSE 0
  <2>1. /\ Anticommute(zq, Z(c)) = Xor(Anticommute(Z(q), Z(c)), Anticommute(X(q), Z(c)))
        /\ Anticommute(zq, X(c)) = Xor(Anticommute(Z(q), X(c)), Anticommute(X(q), X(c)))
    BY <1>7, <1>8, SumAndClash
  <2>2. /\ c # q => Anticommute(zq, Z(c)) = 0
        /\ Anticommute(zq, X(c)) = IF c = q THEN 1 ELSE 0
    BY <2>1, <1>9 DEF Xor
  <2>3. Anticommute(zq, Z(c)) = Anticommute(Z(c), zq) /\ Anticommute(zq, X(c)) = Anticommute(X(c), zq)
    BY <1>7, <1>8, ClashIsSymmetric
  <2> QED
    BY <2>2, <2>3
<1>12. \A a, b \in Qubits(k) :
         /\ Anticommute(XColumn(new, k, a), XColumn(new, k, b)) = 0
         /\ Anticommute(ZColumn(new, k, a), ZColumn(new, k, b)) = 0
         /\ Anticommute(XColumn(new, k, a), ZColumn(new, k, b)) = IF a = b THEN 1 ELSE 0
  BY <1>6, <1>9, <1>10, <1>11 DEF zq
<1> QED
  BY <1>12 DEF IsDual, new

\* a controlled not adds a column to another, twice
LEMMA CnotKeepsDual ==
  ASSUME NEW k \in Nat, NEW tb, IsTableau(tb, k), IsDual(tb, k),
         NEW c \in Qubits(k), NEW t \in Qubits(k), c # t
  PROVE  IsDual(Cnot(tb, c, t), k)
<1> DEFINE new == Cnot(tb, c, t)
           X(d) == XColumn(tb, k, d)
           Z(d) == ZColumn(tb, k, d)
           xt   == XColumn(new, k, t)
           zc   == ZColumn(new, k, c)
<1>1. DOMAIN tb = 0 .. 2 * k - 1 /\ \A i \in 0 .. 2 * k - 1 : HasBits(tb[i], k)
  BY DEF IsTableau
<1>2. DOMAIN new = 0 .. 2 * k - 1 /\ \A i \in 0 .. 2 * k - 1 : new[i] = CnotRow(tb[i], c, t)
  BY <1>1 DEF Cnot
<1> HIDE DEF new
<1>3. \A i \in Qubits(k) : i \in 0 .. 2 * k - 1 /\ i + k \in 0 .. 2 * k - 1
  BY DEF Qubits
<1>4. \A i \in 0 .. 2 * k - 1 :
        /\ HasBits(new[i], k)
        /\ \A d \in Qubits(k) :
              /\ new[i].x[d] = IF d = t THEN Xor(tb[i].x[t], tb[i].x[c]) ELSE tb[i].x[d]
              /\ new[i].z[d] = IF d = c THEN Xor(tb[i].z[c], tb[i].z[t]) ELSE tb[i].z[d]
  BY <1>1, <1>2, CnotRowIs
<1>5. IsTableau(new, k)
  BY <1>2, <1>4 DEF IsTableau
<1>6. ASSUME NEW d \in Qubits(k)
      PROVE  /\ d # t => XColumn(new, k, d) = X(d)
             /\ d # c => ZColumn(new, k, d) = Z(d)
  BY <1>3, <1>4 DEF XColumn, ZColumn
<1>7. \A d \in Qubits(k) : HasBits(X(d), k) /\ HasBits(Z(d), k)
  BY ColumnsAre
<1>8. /\ HasBits(xt, k) /\ HasBits(zc, k)
      /\ \A i \in Qubits(k) :
            /\ xt.x[i] = Xor(X(t).x[i], X(c).x[i]) /\ xt.z[i] = Xor(X(t).z[i], X(c).z[i])
            /\ zc.x[i] = Xor(Z(c).x[i], Z(t).x[i]) /\ zc.z[i] = Xor(Z(c).z[i], Z(t).z[i])
  <2>1. /\ HasBits(xt, k) /\ HasBits(zc, k)
        /\ \A i \in Qubits(k) : /\ xt.x[i] = new[i].x[t] /\ xt.z[i] = new[i + k].x[t]
                                /\ zc.x[i] = new[i].z[c] /\ zc.z[i] = new[i + k].z[c]
    BY <1>5, ColumnsAre
  <2>2. \A d \in Qubits(k) : \A i \in Qubits(k) :
           /\ X(d).x[i] = tb[i].x[d] /\ X(d).z[i] = tb[i + k].x[d]
           /\ Z(d).x[i] = tb[i].z[d] /\ Z(d).z[i] = tb[i + k].z[d]
    BY ColumnsAre
  <2> HIDE DEF xt, zc, X, Z
  <2> QED
    BY <2>1, <2>2, <1>3, <1>4, SMTT(20)
<1> HIDE DEF xt, zc
<1>9. \A a, b \in Qubits(k) :
        /\ Anticommute(X(a), X(b)) = 0 /\ Anticommute(Z(a), Z(b)) = 0
        /\ Anticommute(X(a), Z(b)) = IF a = b THEN 1 ELSE 0
        /\ Anticommute(Z(a), X(b)) = IF a = b THEN 1 ELSE 0
  BY DualPairs
<1> HIDE DEF X, Z
<1>10. Anticommute(xt, xt) = 0 /\ Anticommute(zc, zc) = 0
  BY <1>8, NoClashWithItself
<1>11. ASSUME NEW d \in Qubits(k)
       PROVE  /\ Anticommute(xt, X(d)) = 0 /\ Anticommute(X(d), xt) = 0
              /\ Anticommute(zc, Z(d)) = 0 /\ Anticommute(Z(d), zc) = 0
              /\ d # c => Anticommute(xt, Z(d)) = IF t = d THEN 1 ELSE 0
              /\ d # t => Anticommute(X(d), zc) = IF c = d THEN 1 ELSE 0
  <2>1. /\ Anticommute(xt, X(d)) = Xor(Anticommute(X(t), X(d)), Anticommute(X(c), X(d)))
        /\ Anticommute(xt, Z(d)) = Xor(Anticommute(X(t), Z(d)), Anticommute(X(c), Z(d)))
        /\ Anticommute(zc, X(d)) = Xor(Anticommute(Z(c), X(d)), Anticommute(Z(t), X(d)))
        /\ Anticommute(zc, Z(d)) = Xor(Anticommute(Z(c), Z(d)), Anticommute(Z(t), Z(d)))
    BY <1>7, <1>8, SumAndClash
  <2>2. /\ Anticommute(xt, X(d)) = 0 /\ Anticommute(zc, Z(d)) = 0
        /\ d # c => Anticommute(xt, Z(d)) = IF t = d THEN 1 ELSE 0
        /\ d # t => Anticommute(zc, X(d)) = IF c = d THEN 1 ELSE 0
    BY <2>1, <1>9 DEF Xor
  <2>3. /\ Anticommute(xt, X(d)) = Anticommute(X(d), xt)
        /\ Anticommute(zc, Z(d)) = Anticommute(Z(d), zc)
        /\ Anticommute(zc, X(d)) = Anticommute(X(d), zc)
    BY <1>7, <1>8, ClashIsSymmetric
  <2> QED
    BY <2>2, <2>3
<1>12. Anticommute(xt, zc) = 0
  <2>1. /\ Anticommute(zc, xt) = Xor(Anticommute(Z(c), xt), Anticommute(Z(t), xt))
        /\ Anticommute(xt, Z(c)) = Xor(Anticommute(X(t), Z(c)), Anticommute(X(c), Z(c)))
        /\ Anticommute(xt, Z(t)) = Xor(Anticommute(X(t), Z(t)), Anticommute(X(c), Z(t)))
    BY <1>7, <1>8, SumAndClash
  <2>2. Anticommute(xt, Z(c)) = 1 /\ Anticommute(xt, Z(t)) = 1
    BY <2>1, <1>9 DEF Xor
  <2>3. /\ Anticommute(xt, zc) = Anticommute(zc, xt)
        /\ Anticommute(xt, Z(c)) = Anticommute(Z(c), xt) /\ Anticommute(xt, Z(t)) = Anticommute(Z(t), xt)
    BY <1>7, <1>8, ClashIsSymmetric
  <2> QED
    BY <2>1, <2>2, <2>3 DEF Xor
<1>13. \A a, b \in Qubits(k) :
         /\ Anticommute(XColumn(new, k, a), XColumn(new, k, b)) = 0
         /\ Anticommute(ZColumn(new, k, a), ZColumn(new, k, b)) = 0
         /\ Anticommute(XColumn(new, k, a), ZColumn(new, k, b)) = IF a = b THEN 1 ELSE 0
  BY <1>6, <1>9, <1>10, <1>11, <1>12 DEF xt, zc
<1> QED
  BY <1>13 DEF IsDual, new

\* the Pauli gates are sequences of these
LEMMA PaulisKeepDual ==
  ASSUME NEW k \in Nat, NEW tb, IsTableau(tb, k), IsBasis(tb, k), IsDual(tb, k),
         NEW q \in Qubits(k)
  PROVE  IsDual(PauliX(tb, q), k) /\ IsDual(PauliY(tb, q), k) /\ IsDual(PauliZ(tb, q), k)
<1> DEFINE Good(t) == IsTableau(t, k) /\ IsBasis(t, k) /\ IsDual(t, k)
<1>1. ASSUME NEW t, Good(t) PROVE Good(Hadamard(t, q)) /\ Good(Phase(t, q))
  BY <1>1, HadamardKeepsBasis, HadamardKeepsDual, PhaseKeepsBasis, PhaseKeepsDual
<1> HIDE DEF Good
<1>2. ASSUME NEW t, Good(t) PROVE Good(PauliZ(t, q)) /\ Good(PauliX(t, q))
  BY <1>1, <1>2 DEF PauliZ, PauliX
<1>3. Good(tb)
  BY DEF Good
<1>4. Good(PauliX(tb, q)) /\ Good(PauliY(tb, q)) /\ Good(PauliZ(tb, q))
  BY <1>1, <1>2, <1>3 DEF PauliY
<1> QED
  BY <1>4 DEF Good

\* A collapse adds the column c of the measured qubit to each column a that has a
\* bit in the pivot row p, and then puts other bits into that position.
IsCollapsed(a, a2, c, k, p) ==
    /\ a2.x[p] = a.z[p] /\ a2.z[p] = Anticommute(a, c)
    /\ \A i \in Qubits(k) \ {p} :
          /\ a2.x[i] = IF a.z[p] = 1 THEN Xor(a.x[i], c.x[i]) ELSE a.x[i]
          /\ a2.z[i] = IF a.z[p] = 1 THEN Xor(a.z[i], c.z[i]) ELSE a.z[i]

\* columns that a measurement changes clash as they did before
LEMMA ColumnsCollapse ==
  ASSUME NEW k \in Nat, NEW p \in Qubits(k),
         NEW a, HasBits(a, k), NEW b, HasBits(b, k), NEW c, HasBits(c, k), c.z[p] = 1,
         NEW a2, HasBits(a2, k), NEW b2, HasBits(b2, k),
         IsCollapsed(a, a2, c, k, p), IsCollapsed(b, b2, c, k, p)
  PROVE  Anticommute(a2, b2) = Anticommute(a, b)
<1> DEFINE Sum(d) == [x |-> [i \in Qubits(k) |-> IF d.z[p] = 1 THEN Xor(d.x[i], c.x[i]) ELSE d.x[i]],
                      z |-> [i \in Qubits(k) |-> IF d.z[p] = 1 THEN Xor(d.z[i], c.z[i]) ELSE d.z[i]]]
           A == Sum(a)
           B == Sum(b)
<1>1. ASSUME NEW d, HasBits(d, k)
      PROVE  /\ HasBits(Sum(d), k)
             /\ \A i \in Qubits(k) :
                   /\ Sum(d).x[i] = IF d.z[p] = 1 THEN Xor(d.x[i], c.x[i]) ELSE d.x[i]
                   /\ Sum(d).z[i] = IF d.z[p] = 1 THEN Xor(d.z[i], c.z[i]) ELSE d.z[i]
  <2>1. \A i \in Qubits(k) : /\ d.x[i] \in Bit /\ d.z[i] \in Bit
                             /\ Xor(d.x[i], c.x[i]) \in Bit /\ Xor(d.z[i], c.z[i]) \in Bit
    BY <1>1, XorOfBits DEF HasBits
  <2> QED
    BY <2>1 DEF HasBits
<1> HIDE DEF Sum
<1>2. ASSUME NEW d, HasBits(d, k), NEW e, HasBits(e, k)
      PROVE  Anticommute(Sum(d), e) = IF d.z[p] = 1 THEN Xor(Anticommute(d, e), Anticommute(c, e))
                                                    ELSE Anticommute(d, e)
  <2>1. CASE d.z[p] = 1
    <3>1. \A i \in Qubits(k) : Sum(d).x[i] = Xor(d.x[i], c.x[i]) /\ Sum(d).z[i] = Xor(d.z[i], c.z[i])
      BY <2>1, <1>1, <1>2
    <3>2. Anticommute(Sum(d), e) = Xor(Anticommute(d, e), Anticommute(c, e))
      BY <3>1, <1>1, <1>2, SumAndClash
    <3> QED
      BY <2>1, <3>2
  <2>2. CASE d.z[p] # 1
    <3>1. \A i \in Qubits(k) : Sum(d).x[i] = d.x[i] /\ Sum(d).z[i] = d.z[i]
      BY <2>2, <1>1, <1>2
    <3>2. Anticommute(Sum(d), e) = Anticommute(d, e)
      BY <3>1, <1>1, <1>2, SameBits
    <3> QED
      BY <2>2, <3>2
  <2> QED
    BY <2>1, <2>2
<1>3. HasBits(A, k) /\ HasBits(B, k)
  BY <1>1
<1>4. Anticommute(c, c) = 0
  BY NoClashWithItself
<1>5. /\ Anticommute(a, b) \in Bit /\ Anticommute(a, c) \in Bit /\ Anticommute(b, c) \in Bit
      /\ a.z[p] \in Bit /\ b.z[p] \in Bit
      /\ Anticommute(a, b) = Anticommute(b, a) /\ Anticommute(a, c) = Anticommute(c, a)
      /\ Anticommute(b, c) = Anticommute(c, b)
  BY ClashIsFinite, ClashIsSymmetric DEF HasBits
<1> DEFINE both(u, v) == IF u = 1 /\ v = 1 THEN 1 ELSE 0
           odd == Xor(both(b.z[p], Anticommute(a, c)), both(a.z[p], Anticommute(b, c)))
<1>6. Anticommute(A, B) = Xor(Anticommute(a, b), odd)
  <2>1. Anticommute(A, B) = IF a.z[p] = 1 THEN Xor(Anticommute(a, B), Anticommute(c, B))
                                          ELSE Anticommute(a, B)
    BY <1>2, <1>3
  <2>2. /\ Anticommute(B, a) = IF b.z[p] = 1 THEN Xor(Anticommute(b, a), Anticommute(c, a))
                                             ELSE Anticommute(b, a)
        /\ Anticommute(B, c) = IF b.z[p] = 1 THEN Xor(Anticommute(b, c), Anticommute(c, c))
                                             ELSE Anticommute(b, c)
    BY <1>2
  <2>3. Anticommute(a, B) = Anticommute(B, a) /\ Anticommute(c, B) = Anticommute(B, c)
    BY <1>3, ClashIsSymmetric
  <2> HIDE DEF A, B
  <2> QED
    BY <2>1, <2>2, <2>3, <1>4, <1>5, SMTT(20) DEF Xor, Bit
<1>7. /\ A.x[p] \in Bit /\ B.x[p] \in Bit /\ A.z[p] = 0 /\ B.z[p] = 0
  <2>1. /\ A.x[p] \in Bit /\ B.x[p] \in Bit
        /\ A.z[p] = IF a.z[p] = 1 THEN Xor(a.z[p], c.z[p]) ELSE a.z[p]
        /\ B.z[p] = IF b.z[p] = 1 THEN Xor(b.z[p], c.z[p]) ELSE b.z[p]
    BY <1>1, <1>3 DEF HasBits
  <2> HIDE DEF A, B
  <2> QED
    BY <2>1, <1>5 DEF Xor, Bit
<1>8. \A i \in Qubits(k) \ {p} : i \in Clash(a2, b2) <=> i \in Clash(A, B)
  <2> TAKE i \in Qubits(k) \ {p}
  <2>1. a2.x[i] = A.x[i] /\ a2.z[i] = A.z[i] /\ b2.x[i] = B.x[i] /\ b2.z[i] = B.z[i]
    BY <1>1 DEF IsCollapsed
  <2>2. /\ i \in Clash(A, B) <=> ~((A.x[i] = 1 /\ B.z[i] = 1) <=> (A.z[i] = 1 /\ B.x[i] = 1))
        /\ i \in Clash(a2, b2) <=> ~((a2.x[i] = 1 /\ b2.z[i] = 1) <=> (a2.z[i] = 1 /\ b2.x[i] = 1))
    BY <1>3, InClash
  <2> HIDE DEF A, B
  <2> QED
    BY <2>1, <2>2
<1>9. p \notin Clash(A, B) /\ (p \in Clash(a2, b2) <=> odd = 1)
  <2>1. /\ p \in Clash(A, B) <=> ~((A.x[p] = 1 /\ B.z[p] = 1) <=> (A.z[p] = 1 /\ B.x[p] = 1))
        /\ p \in Clash(a2, b2) <=> ~((a2.x[p] = 1 /\ b2.z[p] = 1) <=> (a2.z[p] = 1 /\ b2.x[p] = 1))
    BY <1>3, InClash
  <2>2. both(b.z[p], Anticommute(a, c)) \in Bit /\ both(a.z[p], Anticommute(b, c)) \in Bit
    BY DEF Bit
  <2>3. odd = 1 <=> ~(both(b.z[p], Anticommute(a, c)) = 1 <=> both(a.z[p], Anticommute(b, c)) = 1)
    BY <2>2, XorOfBits
  <2> HIDE DEF A, B, odd
  <2> QED
    BY <2>1, <2>3, <1>7 DEF IsCollapsed
<1>10. /\ Clash(A, B) \subseteq Qubits(k) /\ Clash(a2, b2) \subseteq Qubits(k)
       /\ IsFiniteSet(Clash(A, B)) /\ Cardinality(Clash(A, B)) \in Nat
  BY <1>3, ClashIsFinite
<1> HIDE DEF A, B
<1>11. CASE odd = 1
  <2>1. Clash(a2, b2) = Clash(A, B) \cup {p}
    BY <1>8, <1>9, <1>10, <1>11
  <2>2. Cardinality(Clash(a2, b2)) = Cardinality(Clash(A, B)) + 1
    BY <2>1, <1>9, <1>10, FS_AddElement
  <2>3. Anticommute(a2, b2) = Xor(Anticommute(A, B), 1)
    BY <2>2, <1>10 DEF Anticommute, Xor
  <2>4. Anticommute(A, B) = Xor(Anticommute(a, b), 1)
    BY <1>6, <1>11
  <2> QED
    BY <2>3, <2>4, <1>5 DEF Xor, Bit
<1>12. CASE odd # 1
  <2>1. Clash(a2, b2) = Clash(A, B)
    BY <1>8, <1>9, <1>10, <1>12
  <2>2. odd = 0
    <3>1. both(b.z[p], Anticommute(a, c)) \in Bit /\ both(a.z[p], Anticommute(b, c)) \in Bit
      BY DEF Bit
    <3> QED
      BY <3>1, <1>12, XorOfBits DEF Bit
  <2>3. Anticommute(a2, b2) = Anticommute(A, B) /\ Anticommute(A, B) = Xor(Anticommute(a, b), 0)
    BY <2>1, <2>2, <1>6 DEF Anticommute
  <2> QED
    BY <2>3, <1>5 DEF Xor, Bit
<1> QED
  BY <1>11, <1>12

\* a measurement keeps the columns a basis
LEMMA CollapseKeepsDual ==
  ASSUME NEW k \in Nat, NEW tb, IsTableau(tb, k), IsBasis(tb, k), IsDual(tb, k),
         NEW q \in Qubits(k), IsRandom(tb, k, q), NEW v
  PROVE  IsDual(Collapse(tb, k, q, v), k)
<1> DEFINE p   == Min(Pivots(tb, k, k, q))
           P   == tb[p + k]
           zq  == Observable(k, q, v)
           new == Collapse(tb, k, q, v)
           c   == XColumn(tb, k, q)
           X(a) == XColumn(tb, k, a)
           Z(a) == ZColumn(tb, k, a)
           X2(a) == XColumn(new, k, a)
           Z2(a) == ZColumn(new, k, a)
<1> HIDE DEF p
<1>1. /\ p \in 0 .. k - 1 /\ P.x[q] = 1 /\ new[p] = P /\ new[p + k] = zq
      /\ \A i \in (0 .. 2 * k - 1) \ {p, p + k} :
            new[i] = IF tb[i].x[q] = 1 THEN RowMult(tb[i], P) ELSE tb[i]
  BY CollapseIs DEF p
<1>2. \A i \in 0 .. 2 * k - 1 : HasBits(tb[i], k)
  BY DEF IsTableau
<1>3. IsTableau(new, k)
  BY CollapseKeepsBasis
<1>4. \A a \in Qubits(k) : zq.x[a] = 0 /\ zq.z[a] = IF a = q THEN 1 ELSE 0
  BY ObservableIs
<1>5. p \in Qubits(k) /\ p + k \in 0 .. 2 * k - 1 /\ HasBits(P, k)
  BY <1>1, <1>2 DEF Qubits
<1>6. \A i \in Qubits(k) \ {p} : /\ i \in (0 .. 2 * k - 1) \ {p, p + k}
                                 /\ i + k \in (0 .. 2 * k - 1) \ {p, p + k}
  BY <1>1 DEF Qubits
<1> HIDE DEF new, zq
<1>7. \A a \in Qubits(k) :
        /\ HasBits(X(a), k) /\ HasBits(Z(a), k) /\ HasBits(X2(a), k) /\ HasBits(Z2(a), k)
        /\ \A i \in Qubits(k) :
              /\ X(a).x[i] = tb[i].x[a] /\ X(a).z[i] = tb[i + k].x[a]
              /\ Z(a).x[i] = tb[i].z[a] /\ Z(a).z[i] = tb[i + k].z[a]
              /\ X2(a).x[i] = new[i].x[a] /\ X2(a).z[i] = new[i + k].x[a]
              /\ Z2(a).x[i] = new[i].z[a] /\ Z2(a).z[i] = new[i + k].z[a]
  BY <1>3, ColumnsAre
<1>8. ASSUME NEW i \in (0 .. 2 * k - 1) \ {p, p + k}, NEW a \in Qubits(k)
      PROVE  /\ new[i].x[a] = IF P.x[a] = 1 THEN Xor(tb[i].x[a], tb[i].x[q]) ELSE tb[i].x[a]
             /\ new[i].z[a] = IF P.z[a] = 1 THEN Xor(tb[i].z[a], tb[i].x[q]) ELSE tb[i].z[a]
  <2>1. /\ tb[i].x[a] \in Bit /\ tb[i].z[a] \in Bit /\ tb[i].x[q] \in Bit
        /\ P.x[a] \in Bit /\ P.z[a] \in Bit
    BY <1>2, <1>5 DEF HasBits
  <2>2. CASE tb[i].x[q] = 1
    <3>1. new[i].x[a] = Xor(tb[i].x[a], P.x[a]) /\ new[i].z[a] = Xor(tb[i].z[a], P.z[a])
      BY <2>2, <1>1, <1>2, <1>5, RowMultIs
    <3> QED
      BY <3>1, <2>1, <2>2 DEF Xor, Bit
  <2>3. CASE tb[i].x[q] = 0
    <3>1. new[i] = tb[i]
      BY <2>3, <1>1
    <3> QED
      BY <3>1, <2>1, <2>3 DEF Xor, Bit
  <2> QED
    BY <2>1, <2>2, <2>3 DEF Bit
<1>9. \A a, b \in Qubits(k) :
        /\ Anticommute(X(a), X(b)) = 0 /\ Anticommute(Z(a), Z(b)) = 0
        /\ Anticommute(X(a), Z(b)) = IF a = b THEN 1 ELSE 0
        /\ Anticommute(Z(a), X(b)) = IF a = b THEN 1 ELSE 0
  BY DualPairs
<1>10. HasBits(c, k) /\ c.z[p] = 1 /\ \A i \in Qubits(k) : c.x[i] = tb[i].x[q] /\ c.z[i] = tb[i + k].x[q]
  BY <1>1, <1>5, <1>7
<1>11. \A a \in Qubits(k) :
         /\ Anticommute(X(a), c) = 0 /\ Anticommute(Z(a), c) = IF a = q THEN 1 ELSE 0
         /\ X(a).z[p] = P.x[a] /\ Z(a).z[p] = P.z[a]
  BY <1>5, <1>7, <1>9
<1> HIDE DEF c, X, Z, X2, Z2, P
<1>12. ASSUME NEW a \in Qubits(k)
       PROVE  IsCollapsed(X(a), X2(a), c, k, p) /\ IsCollapsed(Z(a), Z2(a), c, k, p)
  <2>1. /\ X2(a).x[p] = X(a).z[p] /\ X2(a).z[p] = Anticommute(X(a), c)
        /\ Z2(a).x[p] = Z(a).z[p] /\ Z2(a).z[p] = Anticommute(Z(a), c)
    BY <1>1, <1>4, <1>5, <1>7, <1>11
  <2>2. ASSUME NEW i \in Qubits(k) \ {p}
        PROVE  /\ X2(a).x[i] = IF X(a).z[p] = 1 THEN Xor(X(a).x[i], c.x[i]) ELSE X(a).x[i]
               /\ X2(a).z[i] = IF X(a).z[p] = 1 THEN Xor(X(a).z[i], c.z[i]) ELSE X(a).z[i]
               /\ Z2(a).x[i] = IF Z(a).z[p] = 1 THEN Xor(Z(a).x[i], c.x[i]) ELSE Z(a).x[i]
               /\ Z2(a).z[i] = IF Z(a).z[p] = 1 THEN Xor(Z(a).z[i], c.z[i]) ELSE Z(a).z[i]
    <3>1. /\ new[i].x[a] = IF P.x[a] = 1 THEN Xor(tb[i].x[a], tb[i].x[q]) ELSE tb[i].x[a]
          /\ new[i].z[a] = IF P.z[a] = 1 THEN Xor(tb[i].z[a], tb[i].x[q]) ELSE tb[i].z[a]
          /\ new[i + k].x[a] = IF P.x[a] = 1 THEN Xor(tb[i + k].x[a], tb[i + k].x[q]) ELSE tb[i + k].x[a]
          /\ new[i + k].z[a] = IF P.z[a] = 1 THEN Xor(tb[i + k].z[a], tb[i + k].x[q]) ELSE tb[i + k].z[a]
      BY <1>6, <1>8
    <3> QED
      BY <3>1, <1>7, <1>10, <1>11
  <2> QED
    BY <2>1, <2>2 DEF IsCollapsed
<1>13. ASSUME NEW a \in Qubits(k), NEW b \in Qubits(k)
       PROVE  /\ Anticommute(X2(a), X2(b)) = Anticommute(X(a), X(b))
              /\ Anticommute(Z2(a), Z2(b)) = Anticommute(Z(a), Z(b))
              /\ Anticommute(X2(a), Z2(b)) = Anticommute(X(a), Z(b))
  <2>1. Anticommute(X2(a), X2(b)) = Anticommute(X(a), X(b))
    BY <1>5, <1>7, <1>10, <1>12, ColumnsCollapse, SMTT(20)
  <2>2. Anticommute(Z2(a), Z2(b)) = Anticommute(Z(a), Z(b))
    BY <1>5, <1>7, <1>10, <1>12, ColumnsCollapse, SMTT(20)
  <2>3. Anticommute(X2(a), Z2(b)) = Anticommute(X(a), Z(b))
    BY <1>5, <1>7, <1>10, <1>12, ColumnsCollapse, SMTT(20)
  <2> QED
    BY <2>1, <2>2, <2>3
<1>14. \A a, b \in Qubits(k) :
         /\ Anticommute(X2(a), X2(b)) = 0 /\ Anticommute(Z2(a), Z2(b)) = 0
         /\ Anticommute(X2(a), Z2(b)) = IF a = b THEN 1 ELSE 0
  BY <1>9, <1>13
<1> QED
  BY <1>14 DEF IsDual, new, X2, Z2

\* Whoever looks for an X on a qubit finds it: a qubit without one would have an
\* observable that commutes with every row.
LEMMA PivotIsFound ==
  ASSUME NEW k \in Nat, NEW tb, IsTableau(tb, k), IsDual(tb, k),
         NEW q \in Qubits(k), ~IsRandom(tb, k, q)
  PROVE  Pivots(tb, 0, k, q) # {}
<1> DEFINE X == XColumn(tb, k, q)
           Z == ZColumn(tb, k, q)
<1>1. /\ HasBits(X, k) /\ HasBits(Z, k)
      /\ \A i \in Qubits(k) : X.x[i] = tb[i].x[q] /\ X.z[i] = tb[i + k].x[q]
  BY ColumnsAre
<1>2. Anticommute(X, Z) = 1
  BY DEF IsDual
<1>3. \A i \in Qubits(k) : tb[i + k].x[q] # 1
  <2>1. \A i \in 0 .. k - 1 : tb[k + i].x[q] # 1
    BY DEF IsRandom, Pivots
  <2>2. \A i \in 0 .. k - 1 : k + i = i + k
    OBVIOUS
  <2> QED
    BY <2>1, <2>2 DEF Qubits
<1> HIDE DEF X, Z
<1>4. ASSUME Pivots(tb, 0, k, q) = {}
      PROVE  FALSE
  <2>1. \A i \in Qubits(k) : tb[i].x[q] # 1
    <3>1. \A i \in 0 .. k - 1 : tb[0 + i].x[q] # 1
      BY <1>4 DEF Pivots
    <3>2. \A i \in 0 .. k - 1 : 0 + i = i
      OBVIOUS
    <3> QED
      BY <3>1, <3>2 DEF Qubits
  <2>2. \A i \in Qubits(k) : i \notin Clash(X, Z)
    <3> TAKE i \in Qubits(k)
    <3>1. i \in Clash(X, Z) <=> ~((X.x[i] = 1 /\ Z.z[i] = 1) <=> (X.z[i] = 1 /\ Z.x[i] = 1))
      BY <1>1, InClash
    <3> QED
      BY <3>1, <2>1, <1>1, <1>3
  <2>3. Clash(X, Z) = {}
    BY <2>2, <1>1, ClashIsFinite
  <2> QED
    BY <2>3, <1>2, FS_EmptySet DEF Anticommute
<1> QED
  BY <1>4

-----------------------------------------------------------------------------
(* The scratch row.                                                           *)

Multiplied(tb, k, q, i, row) == IF tb[i].x[q] = 1 THEN RowMult(row, tb[i + k]) ELSE row

IsProduct(g, tb, k, q, m, j) ==
    g = [i \in m .. j |-> IF i = m THEN tb[m + k] ELSE Multiplied(tb, k, q, i, g[i - 1])]

\* the product that measure computes row by row exists
LEMMA ProductExists ==
  ASSUME NEW k \in Nat, NEW tb, NEW q, NEW m \in Nat, NEW j \in Nat, m <= j
  PROVE  \E g : IsProduct(g, tb, k, q, m, j)
<1> DEFINE Bad == {i \in Nat : m <= i /\ ~(\E g : IsProduct(g, tb, k, q, m, i))}
<1> SUFFICES ASSUME Bad # {} PROVE FALSE
  OBVIOUS
<1> DEFINE d == Min(Bad)
<1>1. d \in Bad /\ \A i \in Bad : d <= i
  <2>1. Bad \in SUBSET Nat
    OBVIOUS
  <2> QED
    BY <2>1, SmallestNat
<1>2. d \in Nat /\ m <= d /\ ~(\E g : IsProduct(g, tb, k, q, m, d))
  BY <1>1
<1> HIDE DEF d
<1>3. CASE d = m
  <2> DEFINE g == [i \in m .. m |-> tb[m + k]]
  <2>1. \A i \in m .. m : i = m
    OBVIOUS
  <2>2. g = [i \in m .. m |-> IF i = m THEN tb[m + k] ELSE Multiplied(tb, k, q, i, g[i - 1])]
    BY <2>1
  <2> HIDE DEF g
  <2>3. IsProduct(g, tb, k, q, m, m)
    BY <2>2 DEF IsProduct
  <2> QED
    BY <2>3, <1>2, <1>3
<1>4. CASE d # m
  <2>1. d - 1 \in Nat /\ m <= d - 1 /\ ~(d <= d - 1)
    BY <1>2, <1>4
  <2>2. PICK g : IsProduct(g, tb, k, q, m, d - 1)
    BY <2>1, <1>1
  <2>3. g = [i \in m .. d - 1 |-> IF i = m THEN tb[m + k] ELSE Multiplied(tb, k, q, i, g[i - 1])]
    BY <2>2 DEF IsProduct
  <2> DEFINE h == [i \in m .. d |-> IF i = d THEN Multiplied(tb, k, q, d, g[d - 1]) ELSE g[i]]
  <2>4. \A i \in m .. d - 1 : i \in m .. d /\ h[i] = g[i]
    BY <1>2, <1>4
  <2>5. ASSUME NEW i \in m .. d
        PROVE  h[i] = IF i = m THEN tb[m + k] ELSE Multiplied(tb, k, q, i, h[i - 1])
    <3>1. CASE i = d
      <4>1. d - 1 \in m .. d - 1
        BY <2>1
      <4>2. h[d - 1] = g[d - 1]
        BY <4>1, <2>4
      <4>3. h[d] = Multiplied(tb, k, q, d, g[d - 1])
        BY <1>2
      <4> QED
        BY <4>2, <4>3, <3>1, <1>4
    <3>2. CASE i # d /\ i # m
      <4>1. i \in m .. d - 1 /\ i - 1 \in m .. d - 1
        BY <3>2, <1>2
      <4>2. h[i] = g[i] /\ h[i - 1] = g[i - 1]
        BY <4>1, <2>4
      <4>3. g[i] = Multiplied(tb, k, q, i, g[i - 1])
        BY <4>1, <3>2, <2>3
      <4> QED
        BY <4>2, <4>3, <3>2
    <3>3. CASE i # d /\ i = m
      <4>1. i \in m .. d - 1
        BY <3>3, <1>2
      <4>2. h[i] = g[i]
        BY <4>1, <2>4
      <4>3. g[i] = tb[m + k]
        BY <4>1, <3>3, <2>3
      <4> QED
        BY <4>2, <4>3, <3>3
    <3> QED
      BY <3>1, <3>2, <3>3
  <2>6. h = [i \in m .. d |-> h[i]]
    OBVIOUS
  <2> HIDE DEF h
  <2>7. h = [i \in m .. d |-> IF i = m THEN tb[m + k] ELSE Multiplied(tb, k, q, i, h[i - 1])]
    BY <2>5, <2>6
  <2>8. IsProduct(h, tb, k, q, m, d)
    BY <2>7 DEF IsProduct
  <2> QED
    BY <2>8, <1>2
<1> QED
  BY <1>3, <1>4

\* the scratch row is the last of the products, from the first pivot on
LEMMA ScratchIs ==
  ASSUME NEW k \in Nat, NEW tb, NEW q \in Qubits(k), Pivots(tb, 0, k, q) # {},
         NEW m, m = Min(Pivots(tb, 0, k, q))
  PROVE  /\ m \in Qubits(k) /\ tb[m].x[q] = 1 /\ \A i \in Qubits(k) : i < m => tb[i].x[q] # 1
         /\ \E g : /\ Scratch(tb, k, q) = g[k - 1] /\ g[m] = tb[m + k]
                   /\ \A i \in m + 1 .. k - 1 : g[i] = Multiplied(tb, k, q, i, g[i - 1])
<1>1. Pivots(tb, 0, k, q) = {i \in 0 .. k - 1 : tb[i].x[q] = 1}
  <2>1. \A i \in 0 .. k - 1 : 0 + i = i
    OBVIOUS
  <2> QED
    BY <2>1 DEF Pivots
<1>2. Pivots(tb, 0, k, q) \in SUBSET Nat
  BY <1>1
<1>3. m \in Pivots(tb, 0, k, q) /\ \A i \in Pivots(tb, 0, k, q) : m <= i
  BY <1>2, SmallestNat
<1>4. m \in 0 .. k - 1 /\ tb[m].x[q] = 1 /\ \A i \in 0 .. k - 1 : i < m => tb[i].x[q] # 1
  BY <1>1, <1>3
<1> DEFINE g == CHOOSE h : IsProduct(h, tb, k, q, m, k - 1)
<1>5. Scratch(tb, k, q) = g[k - 1]
  BY DEF Scratch, IsProduct, Multiplied
<1>6. m \in Nat /\ k - 1 \in Nat /\ m <= k - 1
  BY <1>4
<1>7. IsProduct(g, tb, k, q, m, k - 1)
  BY <1>6, ProductExists
<1> HIDE DEF g
<1>8. g = [i \in m .. k - 1 |-> IF i = m THEN tb[m + k] ELSE Multiplied(tb, k, q, i, g[i - 1])]
  BY <1>7 DEF IsProduct
<1>9. g[m] = tb[m + k]
  <2>1. m \in m .. k - 1
    BY <1>6
  <2> QED
    BY <2>1, <1>8
<1>10. \A i \in m + 1 .. k - 1 : g[i] = Multiplied(tb, k, q, i, g[i - 1])
  <2>1. \A i \in m + 1 .. k - 1 : i \in m .. k - 1 /\ i # m
    BY <1>6
  <2> QED
    BY <2>1, <1>8
<1> QED
  BY <1>4, <1>5, <1>9, <1>10 DEF Qubits

-----------------------------------------------------------------------------
(* Words and bits.                                                            *)

\* quotient and remainder
LEMMA DivisionIs ==
  ASSUME NEW w \in Nat \ {0}, NEW q \in Nat
  PROVE  /\ q \div w \in Nat /\ q % w \in 0 .. w - 1
         /\ q = w * (q \div w) + (q % w)
  OBVIOUS

\* multiplication by a natural number keeps the order
LEMMA TimesIsMonotone ==
  ASSUME NEW w \in Nat, NEW c \in Nat, NEW d \in Nat, c <= d
  PROVE  w * c \in Nat /\ w * d \in Nat /\ w * c <= w * d
  OBVIOUS

\* one factor more
LEMMA TimesNext ==
  ASSUME NEW w \in Nat, NEW c \in Nat
  PROVE  w * (c + 1) = w * c + w /\ (c + 1) * w = w * c + w /\ w * c \in Nat
  OBVIOUS

\* a position is a word and a bit in it, and the qubits are positions
LEMMA PositionsAre ==
  ASSUME NEW w \in Nat \ {0}, NEW k \in Nat
  PROVE  /\ Qubits(k) \subseteq Positions(w, k)
         /\ \A p \in Positions(w, k) : p \in Nat /\ Word(w, p) \in 0 .. k \div w /\ p % w \in 0 .. w - 1
         /\ \A p, q \in Positions(w, k) : Word(w, p) = Word(w, q) /\ p % w = q % w => p = q
<1> DEFINE e == k \div w
<1>1. e \in Nat /\ k % w \in 0 .. w - 1 /\ k = w * e + (k % w)
  BY DivisionIs
<1> HIDE DEF e
<1>2. (e + 1) * w = w * e + w /\ w * e \in Nat /\ w * (e + 1) = w * e + w
  BY <1>1, TimesNext
<1>3. Positions(w, k) = 0 .. w * e + w - 1
  BY <1>2 DEF Positions, e
<1>4. Qubits(k) \subseteq Positions(w, k)
  BY <1>1, <1>2, <1>3 DEF Qubits
<1>5. ASSUME NEW p \in Positions(w, k)
      PROVE  p \in Nat /\ Word(w, p) \in 0 .. e /\ p % w \in 0 .. w - 1 /\ p = w * Word(w, p) + (p % w)
  <2>1. p \in Nat /\ p <= w * e + w - 1
    BY <1>2, <1>3
  <2> DEFINE d == p \div w
  <2>2. d \in Nat /\ p % w \in 0 .. w - 1 /\ p = w * d + (p % w)
    BY <2>1, DivisionIs
  <2> HIDE DEF d
  <2>3. d <= e
    <3> SUFFICES ASSUME ~(d <= e) PROVE FALSE
      OBVIOUS
    <3>1. e + 1 \in Nat /\ e + 1 <= d
      BY <1>1, <2>2
    <3>2. w * (e + 1) <= w * d /\ w * d \in Nat
      BY <3>1, <2>2, TimesIsMonotone
    <3> QED
      BY <3>2, <2>1, <2>2, <1>2
  <2> QED
    BY <2>1, <2>2, <2>3, <1>1 DEF d, Word
<1>6. ASSUME NEW p \in Positions(w, k), NEW q \in Positions(w, k), Word(w, p) = Word(w, q), p % w = q % w
      PROVE  p = q
  <2>1. p = w * Word(w, p) + (p % w) /\ q = w * Word(w, q) + (q % w)
    BY <1>5
  <2> QED
    BY <2>1, <1>6
<1> QED
  BY <1>4, <1>5, <1>6 DEF e

\* the mask of a qubit has its bit, no other that is used, and the sign extended
LEMMA MaskIs ==
  ASSUME NEW w \in 1 .. Width, NEW q, q % w \in 0 .. w - 1
  PROVE  /\ q % w \in Mask(w, q)
         /\ \A i \in 0 .. w - 1 : i \in Mask(w, q) <=> i = q % w
         /\ SignExtended(w, Mask(w, q)) /\ Mask(w, q) \subseteq 0 .. Width - 1
         /\ \A i \in Mask(w, q) : i = q % w \/ (q % w = w - 1 /\ i \in w - 1 .. Width - 1)
<1>1. w \in Nat \ {0} /\ Width \in Nat /\ w <= Width
  BY WidthAssumption
<1> DEFINE r == q % w
<1>2. r \in 0 .. w - 1 /\ Mask(w, q) = IF r = w - 1 THEN r .. Width - 1 ELSE {r}
  BY DEF Mask, Pt
<1> HIDE DEF r
<1>3. CASE r = w - 1
  <2>1. Mask(w, q) = w - 1 .. Width - 1
    BY <1>2, <1>3
  <2>2. \A i \in 0 .. w - 1 : i \in w - 1 .. Width - 1 <=> i = w - 1
    BY <1>1
  <2>3. w - 1 \in w - 1 .. Width - 1
    BY <1>1
  <2>4. SignExtended(w, Mask(w, q))
    BY <2>1, <2>3 DEF SignExtended
  <2>5. w - 1 .. Width - 1 \subseteq 0 .. Width - 1
    BY <1>1
  <2> QED
    BY <2>1, <2>2, <2>3, <2>4, <2>5, <1>3 DEF r
<1>4. CASE r # w - 1
  <2>1. Mask(w, q) = {r} /\ r < w - 1
    BY <1>2, <1>4, <1>1
  <2>2. \A b \in w - 1 .. Width - 1 : b # r
    BY <2>1, <1>1, <1>2
  <2>3. w - 1 # r
    BY <1>4
  <2>4. SignExtended(w, Mask(w, q))
    BY <2>1, <2>2, <2>3 DEF SignExtended
  <2>5. r \in 0 .. Width - 1
    BY <1>1, <1>2
  <2> QED
    BY <2>1, <2>4, <2>5 DEF r
<1> QED
  BY <1>3, <1>4

\* a word has all of the mask of a qubit or nothing of it
LEMMA HasIs ==
  ASSUME NEW w \in 1 .. Width, NEW k \in Nat, NEW ws, AreWords(w, k, ws), NEW q \in Positions(w, k)
  PROVE  /\ Word(w, q) \in 0 .. k \div w
         /\ Has(w, ws, q) <=> q % w \in ws[Word(w, q)]
         /\ ws[Word(w, q)] \cap Mask(w, q) = IF Has(w, ws, q) THEN Mask(w, q) ELSE {}
<1>1. w \in Nat \ {0}
  BY WidthAssumption
<1>2. Word(w, q) \in 0 .. k \div w /\ q % w \in 0 .. w - 1
  BY <1>1, PositionsAre
<1> DEFINE word == ws[Word(w, q)]
           r == q % w
<1>3. SignExtended(w, word)
  BY <1>2 DEF AreWords
<1>4. /\ r \in Mask(w, q) /\ r \in 0 .. w - 1
      /\ \A i \in Mask(w, q) : i = r \/ (r = w - 1 /\ i \in w - 1 .. Width - 1)
  BY <1>2, MaskIs
<1> HIDE DEF word, r
<1>5. \A i \in Mask(w, q) : i \in word <=> r \in word
  BY <1>3, <1>4 DEF SignExtended
<1>6. word \cap Mask(w, q) # {} <=> r \in word
  BY <1>4, <1>5
<1>7. word \cap Mask(w, q) = IF r \in word THEN Mask(w, q) ELSE {}
  BY <1>5
<1>8. Has(w, ws, q) <=> word \cap Mask(w, q) # {}
  BY DEF Has, word
<1> QED
  BY <1>2, <1>6, <1>7, <1>8 DEF word, r

\* toggling keeps the words sign-extended and changes one bit
LEMMA ToggleIs ==
  ASSUME NEW w \in 1 .. Width, NEW k \in Nat, NEW ws, AreWords(w, k, ws), NEW q \in Positions(w, k)
  PROVE  /\ AreWords(w, k, Toggle(w, ws, q))
         /\ \A p \in Positions(w, k) :
               Has(w, Toggle(w, ws, q), p) <=> IF p = q THEN ~Has(w, ws, p) ELSE Has(w, ws, p)
<1> DEFINE new == Toggle(w, ws, q)
           j == Word(w, q)
<1>1. w \in Nat \ {0}
  BY WidthAssumption
<1>2. /\ j \in 0 .. k \div w /\ q % w \in 0 .. w - 1
      /\ \A p \in Positions(w, k) : Word(w, p) \in 0 .. k \div w /\ p % w \in 0 .. w - 1
      /\ \A p \in Positions(w, k) : Word(w, p) = Word(w, q) /\ p % w = q % w => p = q
  BY <1>1, PositionsAre
<1>3. /\ ws \in [0 .. k \div w -> SUBSET (0 .. Width - 1)] /\ DOMAIN ws = 0 .. k \div w
      /\ \A i \in 0 .. k \div w : SignExtended(w, ws[i])
  BY DEF AreWords
<1>4. /\ new = [i \in 0 .. k \div w |-> new[i]] /\ new[j] = SymDiff(ws[j], Mask(w, q))
      /\ \A i \in 0 .. k \div w : i # j => new[i] = ws[i]
  BY <1>2, <1>3 DEF Toggle
<1> HIDE DEF new
<1>5. /\ \A i \in 0 .. w - 1 : i \in Mask(w, q) <=> i = q % w
      /\ SignExtended(w, Mask(w, q)) /\ Mask(w, q) \subseteq 0 .. Width - 1
  BY <1>2, MaskIs
<1>6. SignExtended(w, new[j])
  BY <1>2, <1>3, <1>4, <1>5 DEF SignExtended, SymDiff
<1>7. AreWords(w, k, new)
  <2>1. SymDiff(ws[j], Mask(w, q)) \in SUBSET (0 .. Width - 1)
    BY <1>2, <1>3, <1>5 DEF SymDiff
  <2>2. \A i \in 0 .. k \div w : new[i] \in SUBSET (0 .. Width - 1) /\ SignExtended(w, new[i])
    BY <2>1, <1>3, <1>4, <1>6
  <2> QED
    BY <2>2, <1>4 DEF AreWords
<1>8. ASSUME NEW p \in Positions(w, k)
      PROVE  Has(w, new, p) <=> IF p = q THEN ~Has(w, ws, p) ELSE Has(w, ws, p)
  <2>1. /\ Has(w, new, p) <=> p % w \in new[Word(w, p)]
        /\ Has(w, ws, p) <=> p % w \in ws[Word(w, p)]
        /\ Word(w, p) \in 0 .. k \div w
    BY <1>7, HasIs
  <2>2. CASE Word(w, p) # j
    <3>1. p # q
      BY <2>2
    <3> QED
      BY <3>1, <2>1, <2>2, <1>4
  <2>3. CASE Word(w, p) = j
    <3>1. p % w \in Mask(w, q) <=> p % w = q % w
      BY <1>2, <1>5
    <3>2. p % w = q % w <=> p = q
      BY <1>2, <2>3
    <3>3. p % w \in new[j] <=> ~(p % w \in ws[j] <=> p % w \in Mask(w, q))
      BY <1>4 DEF SymDiff
    <3> QED
      BY <2>1, <2>3, <3>1, <3>2, <3>3
  <2> QED
    BY <2>2, <2>3
<1> QED
  BY <1>7, <1>8 DEF new

\* the bits that words stand for
Bits(w, k, ws) == [p \in Qubits(k) |-> BitOf(w, ws, p)]
Toggled(w, ws, q, on) == IF on THEN Toggle(w, ws, q) ELSE ws

\* the bits are bits
LEMMA BitsAre ==
  ASSUME NEW w, NEW k \in Nat, NEW ws
  PROVE  /\ Bits(w, k, ws) \in [Qubits(k) -> Bit]
         /\ \A p \in Qubits(k) : Bits(w, k, ws)[p] = 1 <=> Has(w, ws, p)
  BY DEF Bits, BitOf, Bit

\* functions that are 1 at the same qubits are equal
LEMMA SameBitsAre ==
  ASSUME NEW k \in Nat, NEW f \in [Qubits(k) -> Bit], NEW g \in [Qubits(k) -> Bit],
         \A p \in Qubits(k) : f[p] = 1 <=> g[p] = 1
  PROVE  f = g
<1>1. \A p \in Qubits(k) : f[p] = g[p]
  BY DEF Bit
<1> QED
  BY <1>1

\* the same on packed words, if it happens
LEMMA ToggledIs ==
  ASSUME NEW w \in 1 .. Width, NEW k \in Nat, NEW ws, ArePacked(w, k, ws), NEW q \in Qubits(k),
         NEW on \in BOOLEAN
  PROVE  /\ ArePacked(w, k, Toggled(w, ws, q, on))
         /\ \A p \in Qubits(k) :
               Has(w, Toggled(w, ws, q, on), p) <=> IF p = q /\ on THEN ~Has(w, ws, p) ELSE Has(w, ws, p)
<1>1. w \in Nat \ {0}
  BY WidthAssumption
<1>2. Qubits(k) \subseteq Positions(w, k)
  BY <1>1, PositionsAre
<1>3. CASE on
  <2>1. Toggled(w, ws, q, on) = Toggle(w, ws, q)
    BY <1>3 DEF Toggled
  <2>2. /\ AreWords(w, k, Toggle(w, ws, q))
        /\ \A p \in Positions(w, k) :
               Has(w, Toggle(w, ws, q), p) <=> IF p = q THEN ~Has(w, ws, p) ELSE Has(w, ws, p)
    BY <1>2, ToggleIs DEF ArePacked
  <2>3. ArePacked(w, k, Toggle(w, ws, q))
    BY <2>2 DEF ArePacked
  <2> QED
    BY <2>1, <2>2, <2>3, <1>2, <1>3
<1>4. CASE ~on
  BY <1>4 DEF Toggled
<1> QED
  BY <1>3, <1>4

\* words with some bits of one of them changed
Masked(w, ws, q, D) == [ws EXCEPT ![Word(w, q)] = SymDiff(@, D)]

\* words change under a mask only as a whole
LEMMA MaskedIsToggled ==
  ASSUME NEW w \in 1 .. Width, NEW k \in Nat, NEW ws, AreWords(w, k, ws), NEW q \in Positions(w, k),
         NEW D, NEW on \in BOOLEAN, D = IF on THEN Mask(w, q) ELSE {}
  PROVE  Masked(w, ws, q, D) = Toggled(w, ws, q, on)
<1>1. Word(w, q) \in 0 .. k \div w /\ ws \in [0 .. k \div w -> SUBSET (0 .. Width - 1)]
  BY HasIs DEF AreWords
<1>2. CASE on
  BY <1>2 DEF Toggled, Toggle, Masked
<1>3. CASE ~on
  <2>1. SymDiff(ws[Word(w, q)], D) = ws[Word(w, q)]
    BY <1>3 DEF SymDiff
  <2>2. Masked(w, ws, q, D) = ws
    BY <1>1, <2>1 DEF Masked
  <2> QED
    BY <1>3, <2>2 DEF Toggled
<1> QED
  BY <1>2, <1>3

\* what a row of words decodes to
LEMMA DecodeRowIs ==
  ASSUME NEW w, NEW k \in Nat, NEW row
  PROVE  /\ HasBits(DecodeRow(w, k, row), k) /\ DecodeRow(w, k, row).r = row.r
         /\ DecodeRow(w, k, row).x = Bits(w, k, row.x) /\ DecodeRow(w, k, row).z = Bits(w, k, row.z)
         /\ \A p \in Qubits(k) : /\ DecodeRow(w, k, row).x[p] = 1 <=> Has(w, row.x, p)
                                 /\ DecodeRow(w, k, row).z[p] = 1 <=> Has(w, row.z, p)
<1>1. /\ DecodeRow(w, k, row).r = row.r
      /\ DecodeRow(w, k, row).x = Bits(w, k, row.x) /\ DecodeRow(w, k, row).z = Bits(w, k, row.z)
  BY DEF DecodeRow, Bits
<1> QED
  BY <1>1, BitsAre DEF HasBits

\* a row whose words have the bits of b decodes to b
LEMMA DecodesTo ==
  ASSUME NEW w, NEW k \in Nat, NEW row, NEW b, HasBits(b, k), b = [x |-> b.x, z |-> b.z, r |-> b.r],
         row.r = b.r,
         \A p \in Qubits(k) : (Has(w, row.x, p) <=> b.x[p] = 1) /\ (Has(w, row.z, p) <=> b.z[p] = 1)
  PROVE  DecodeRow(w, k, row) = b
<1>1. Bits(w, k, row.x) = b.x
  BY BitsAre, SameBitsAre DEF HasBits
<1>2. Bits(w, k, row.z) = b.z
  BY BitsAre, SameBitsAre DEF HasBits
<1>3. DecodeRow(w, k, row) = [x |-> Bits(w, k, row.x), z |-> Bits(w, k, row.z), r |-> row.r]
  BY DEF DecodeRow, Bits
<1> QED
  BY <1>1, <1>2, <1>3

\* the exchange of words under a mask is the Hadamard gate on the bits
LEMMA HadamardDecodes ==
  ASSUME NEW w \in 1 .. Width, NEW k \in Nat, NEW row, IsPackedRow(w, k, row), NEW q \in Qubits(k)
  PROVE  /\ IsPackedRow(w, k, HadamardRowWords(w, row, q))
         /\ DecodeRow(w, k, HadamardRowWords(w, row, q)) = HadamardRow(DecodeRow(w, k, row), q)
<1> DEFINE d   == DecodeRow(w, k, row)
           h   == HadamardRow(d, q)
           new == HadamardRowWords(w, row, q)
           on  == ~(Has(w, row.x, q) <=> Has(w, row.z, q))
           both == SymDiff(row.x[Word(w, q)], row.z[Word(w, q)]) \cap Mask(w, q)
           x2  == Toggled(w, row.x, q, on)
           z2  == Toggled(w, row.z, q, on)
<1>1. /\ ArePacked(w, k, row.x) /\ ArePacked(w, k, row.z)
      /\ AreWords(w, k, row.x) /\ AreWords(w, k, row.z)
  BY DEF IsPackedRow, ArePacked
<1>2. q \in Positions(w, k)
  BY WidthAssumption, PositionsAre
<1>3. both = IF on THEN Mask(w, q) ELSE {}
  <2>1. /\ row.x[Word(w, q)] \cap Mask(w, q) = IF Has(w, row.x, q) THEN Mask(w, q) ELSE {}
        /\ row.z[Word(w, q)] \cap Mask(w, q) = IF Has(w, row.z, q) THEN Mask(w, q) ELSE {}
    BY <1>1, <1>2, HasIs
  <2>2. both = SymDiff(row.x[Word(w, q)] \cap Mask(w, q), row.z[Word(w, q)] \cap Mask(w, q))
    BY DEF SymDiff
  <2> QED
    BY <2>1, <2>2 DEF SymDiff
<1>4. Masked(w, row.x, q, both) = x2 /\ Masked(w, row.z, q, both) = z2
  BY <1>1, <1>2, <1>3, MaskedIsToggled
<1>5. /\ ArePacked(w, k, x2) /\ ArePacked(w, k, z2)
      /\ \A p \in Qubits(k) : Has(w, x2, p) <=> IF p = q /\ on THEN ~Has(w, row.x, p) ELSE Has(w, row.x, p)
      /\ \A p \in Qubits(k) : Has(w, z2, p) <=> IF p = q /\ on THEN ~Has(w, row.z, p) ELSE Has(w, row.z, p)
  BY <1>1, ToggledIs
<1>6. new.x = x2 /\ new.z = z2 /\ new.r = IF Has(w, x2, q) /\ Has(w, z2, q) THEN Flip(row.r) ELSE row.r
  <2>1. new = LET x == Masked(w, row.x, q, both)
                  z == Masked(w, row.z, q, both)
              IN  [x |-> x, z |-> z,
                   r |-> IF Has(w, x, q) /\ Has(w, z, q) THEN Flip(row.r) ELSE row.r]
    BY DEF HadamardRowWords, Masked
  <2> HIDE DEF new, both, x2, z2
  <2> QED
    BY <2>1, <1>4
<1>7. IsPackedRow(w, k, new)
  BY <1>5, <1>6 DEF IsPackedRow
<1> HIDE DEF x2, z2, new
<1>8. /\ HasBits(d, k) /\ d.r = row.r
      /\ \A p \in Qubits(k) : (d.x[p] = 1 <=> Has(w, row.x, p)) /\ (d.z[p] = 1 <=> Has(w, row.z, p))
  BY DecodeRowIs
<1> HIDE DEF d
<1>9. /\ h = [x |-> h.x, z |-> h.z, r |-> h.r]
      /\ h.r = IF d.x[q] = 1 /\ d.z[q] = 1 THEN Flip(d.r) ELSE d.r
  BY DEF HadamardRow
<1>10. /\ HasBits(h, k)
       /\ \A p \in Qubits(k) : /\ h.x[p] = IF p = q THEN d.z[p] ELSE d.x[p]
                               /\ h.z[p] = IF p = q THEN d.x[p] ELSE d.z[p]
  BY <1>8, HadamardRowIs
<1> HIDE DEF h
<1>11. \A p \in Qubits(k) : (Has(w, new.x, p) <=> h.x[p] = 1) /\ (Has(w, new.z, p) <=> h.z[p] = 1)
  BY <1>5, <1>6, <1>8, <1>10
<1>12. new.r = h.r
  BY <1>5, <1>6, <1>8, <1>9
<1>13. DecodeRow(w, k, new) = h
  BY <1>9, <1>10, <1>11, <1>12, DecodesTo
<1> QED
  BY <1>7, <1>13 DEF new, h, d

\* the phase gate
LEMMA PhaseDecodes ==
  ASSUME NEW w \in 1 .. Width, NEW k \in Nat, NEW row, IsPackedRow(w, k, row), NEW q \in Qubits(k)
  PROVE  /\ IsPackedRow(w, k, PhaseRowWords(w, row, q))
         /\ DecodeRow(w, k, PhaseRowWords(w, row, q)) = PhaseRow(DecodeRow(w, k, row), q)
<1> DEFINE d   == DecodeRow(w, k, row)
           h   == PhaseRow(d, q)
           new == PhaseRowWords(w, row, q)
           on  == Has(w, row.x, q)
           z2  == Toggled(w, row.z, q, on)
<1>1. /\ ArePacked(w, k, row.x) /\ ArePacked(w, k, row.z)
      /\ AreWords(w, k, row.x) /\ AreWords(w, k, row.z)
  BY DEF IsPackedRow, ArePacked
<1>2. q \in Positions(w, k) /\ on \in BOOLEAN
  BY WidthAssumption, PositionsAre DEF Has
<1>3. row.x[Word(w, q)] \cap Mask(w, q) = IF on THEN Mask(w, q) ELSE {}
  BY <1>1, <1>2, HasIs
<1>4. Masked(w, row.z, q, row.x[Word(w, q)] \cap Mask(w, q)) = z2
  BY <1>1, <1>2, <1>3, MaskedIsToggled
<1>5. /\ ArePacked(w, k, z2)
      /\ \A p \in Qubits(k) : Has(w, z2, p) <=> IF p = q /\ on THEN ~Has(w, row.z, p) ELSE Has(w, row.z, p)
  BY <1>1, <1>2, ToggledIs
<1>6. new.x = row.x /\ new.z = z2 /\ new.r = IF Has(w, row.x, q) /\ Has(w, row.z, q) THEN Flip(row.r) ELSE row.r
  <2>1. new = [x |-> row.x, z |-> Masked(w, row.z, q, row.x[Word(w, q)] \cap Mask(w, q)),
               r |-> IF Has(w, row.x, q) /\ Has(w, row.z, q) THEN Flip(row.r) ELSE row.r]
    BY DEF PhaseRowWords, Masked
  <2> HIDE DEF new, z2
  <2> QED
    BY <2>1, <1>4
<1>7. IsPackedRow(w, k, new)
  BY <1>1, <1>5, <1>6 DEF IsPackedRow
<1> HIDE DEF z2, new
<1>8. /\ HasBits(d, k) /\ d.r = row.r
      /\ \A p \in Qubits(k) : (d.x[p] = 1 <=> Has(w, row.x, p)) /\ (d.z[p] = 1 <=> Has(w, row.z, p))
  BY DecodeRowIs
<1> HIDE DEF d
<1>9. /\ h = [x |-> h.x, z |-> h.z, r |-> h.r]
      /\ h.r = IF d.x[q] = 1 /\ d.z[q] = 1 THEN Flip(d.r) ELSE d.r
  BY DEF PhaseRow
<1>10. /\ HasBits(h, k)
       /\ \A p \in Qubits(k) : /\ h.x[p] = d.x[p]
                               /\ h.z[p] = IF p = q THEN Xor(d.z[p], d.x[p]) ELSE d.z[p]
  BY <1>8, PhaseRowIs
<1> HIDE DEF h
<1>11. ASSUME NEW p \in Qubits(k)
       PROVE  (Has(w, new.x, p) <=> h.x[p] = 1) /\ (Has(w, new.z, p) <=> h.z[p] = 1)
  <2>1. d.x[p] \in Bit /\ d.z[p] \in Bit
    BY <1>8 DEF HasBits
  <2>2. Xor(d.z[p], d.x[p]) = 1 <=> ~(d.z[p] = 1 <=> d.x[p] = 1)
    BY <2>1, XorOfBits
  <2> QED
    BY <2>2, <1>5, <1>6, <1>8, <1>10
<1>12. new.r = h.r
  BY <1>6, <1>8, <1>9
<1>13. DecodeRow(w, k, new) = h
  BY <1>9, <1>10, <1>11, <1>12, DecodesTo
<1> QED
  BY <1>7, <1>13 DEF new, h, d

\* the controlled not, whose phase looks at the words after the update
LEMMA CnotDecodes ==
  ASSUME NEW w \in 1 .. Width, NEW k \in Nat, NEW row, IsPackedRow(w, k, row),
         NEW c \in Qubits(k), NEW t \in Qubits(k), c # t
  PROVE  /\ IsPackedRow(w, k, CnotRowWords(w, row, c, t))
         /\ DecodeRow(w, k, CnotRowWords(w, row, c, t)) = CnotRow(DecodeRow(w, k, row), c, t)
<1> DEFINE d   == DecodeRow(w, k, row)
           h   == CnotRow(d, c, t)
           new == CnotRowWords(w, row, c, t)
           x2  == Toggled(w, row.x, t, Has(w, row.x, c))
           z2  == Toggled(w, row.z, c, Has(w, row.z, t))
<1>1. /\ ArePacked(w, k, row.x) /\ ArePacked(w, k, row.z)
      /\ Has(w, row.x, c) \in BOOLEAN /\ Has(w, row.z, t) \in BOOLEAN
  BY DEF IsPackedRow, Has
<1>2. /\ ArePacked(w, k, x2) /\ ArePacked(w, k, z2)
      /\ \A p \in Qubits(k) : Has(w, x2, p) <=> IF p = t /\ Has(w, row.x, c) THEN ~Has(w, row.x, p) ELSE Has(w, row.x, p)
      /\ \A p \in Qubits(k) : Has(w, z2, p) <=> IF p = c /\ Has(w, row.z, t) THEN ~Has(w, row.z, p) ELSE Has(w, row.z, p)
  BY <1>1, ToggledIs
<1>3. /\ new.x = x2 /\ new.z = z2
      /\ new.r = IF Has(w, x2, c) /\ Has(w, z2, t) /\ (Has(w, x2, t) <=> Has(w, z2, c)) THEN Flip(row.r) ELSE row.r
  BY DEF CnotRowWords, Toggled
<1>4. IsPackedRow(w, k, new)
  BY <1>2, <1>3 DEF IsPackedRow
<1> HIDE DEF x2, z2, new
<1>5. /\ HasBits(d, k) /\ d.r = row.r
      /\ \A p \in Qubits(k) : (d.x[p] = 1 <=> Has(w, row.x, p)) /\ (d.z[p] = 1 <=> Has(w, row.z, p))
  BY DecodeRowIs
<1> HIDE DEF d
<1>6. h = [x |-> h.x, z |-> h.z, r |-> h.r]
  BY DEF CnotRow
<1>7. h.r = IF h.x[c] = 1 /\ h.z[t] = 1 /\ h.x[t] = h.z[c] THEN Flip(d.r) ELSE d.r
  BY DEF CnotRow
<1>8. /\ HasBits(h, k)
      /\ \A p \in Qubits(k) : /\ h.x[p] = IF p = t THEN Xor(d.x[t], d.x[c]) ELSE d.x[p]
                              /\ h.z[p] = IF p = c THEN Xor(d.z[c], d.z[t]) ELSE d.z[p]
  BY <1>5, CnotRowIs
<1> HIDE DEF h
<1>9. /\ Xor(d.x[t], d.x[c]) = 1 <=> ~(d.x[t] = 1 <=> d.x[c] = 1)
      /\ Xor(d.z[c], d.z[t]) = 1 <=> ~(d.z[c] = 1 <=> d.z[t] = 1)
  <2>1. d.x[c] \in Bit /\ d.z[c] \in Bit /\ d.x[t] \in Bit /\ d.z[t] \in Bit
    BY <1>5 DEF HasBits
  <2> QED
    BY <2>1, XorOfBits
<1>10. \A p \in Qubits(k) : (Has(w, new.x, p) <=> h.x[p] = 1) /\ (Has(w, new.z, p) <=> h.z[p] = 1)
  BY <1>2, <1>3, <1>5, <1>8, <1>9
<1>11. h.x[t] = h.z[c] <=> (h.x[t] = 1 <=> h.z[c] = 1)
  <2>1. h.x[t] \in Bit /\ h.z[c] \in Bit
    BY <1>8 DEF HasBits
  <2> QED
    BY <2>1 DEF Bit
<1>12. new.r = h.r
  BY <1>3, <1>5, <1>7, <1>10, <1>11
<1>13. DecodeRow(w, k, new) = h
  BY <1>6, <1>8, <1>10, <1>12, DecodesTo
<1> QED
  BY <1>4, <1>13 DEF new, h, d

-----------------------------------------------------------------------------
(* The rows that rowset writes.                                               *)

\* words without a bit
LEMMA ZeroWordsAre ==
  ASSUME NEW w \in 1 .. Width, NEW k \in Nat
  PROVE  /\ ArePacked(w, k, ZeroWords(w, k))
         /\ \A p \in Positions(w, k) : ~Has(w, ZeroWords(w, k), p)
<1>1. /\ ZeroWords(w, k) \in [0 .. k \div w -> SUBSET (0 .. Width - 1)]
      /\ \A i \in 0 .. k \div w : ZeroWords(w, k)[i] = {}
  BY DEF ZeroWords
<1>2. AreWords(w, k, ZeroWords(w, k))
  BY <1>1 DEF AreWords, SignExtended
<1>3. ASSUME NEW p \in Positions(w, k) PROVE ~Has(w, ZeroWords(w, k), p)
  <2>1. Word(w, p) \in 0 .. k \div w /\ (Has(w, ZeroWords(w, k), p) <=> p % w \in ZeroWords(w, k)[Word(w, p)])
    BY <1>2, HasIs
  <2> QED
    BY <2>1, <1>1
<1> QED
  BY <1>2, <1>3 DEF ArePacked

\* words with the bit of at most one qubit set
LEMMA OneBitIs ==
  ASSUME NEW w \in 1 .. Width, NEW k \in Nat, NEW q \in Qubits(k)
  PROVE  /\ ArePacked(w, k, Toggle(w, ZeroWords(w, k), q))
         /\ \A p \in Qubits(k) : Has(w, Toggle(w, ZeroWords(w, k), q), p) <=> p = q
<1>1. Toggle(w, ZeroWords(w, k), q) = Toggled(w, ZeroWords(w, k), q, TRUE)
  BY DEF Toggled
<1>2. ArePacked(w, k, ZeroWords(w, k)) /\ \A p \in Positions(w, k) : ~Has(w, ZeroWords(w, k), p)
  BY ZeroWordsAre
<1>3. Qubits(k) \subseteq Positions(w, k)
  BY WidthAssumption, PositionsAre
<1>4. /\ ArePacked(w, k, Toggled(w, ZeroWords(w, k), q, TRUE))
      /\ \A p \in Qubits(k) :
            Has(w, Toggled(w, ZeroWords(w, k), q, TRUE), p)
               <=> IF p = q /\ TRUE THEN ~Has(w, ZeroWords(w, k), p) ELSE Has(w, ZeroWords(w, k), p)
  BY <1>2, ToggledIs
<1> QED
  BY <1>1, <1>2, <1>3, <1>4

\* rowset on words
LEMMA RowSetDecodes ==
  ASSUME NEW w \in 1 .. Width, NEW k \in Nat, NEW i \in 0 .. 2 * k - 1
  PROVE  /\ IsPackedRow(w, k, RowSetWords(w, k, i))
         /\ DecodeRow(w, k, RowSetWords(w, k, i)) = RowSet(k, i)
<1> DEFINE new == RowSetWords(w, k, i)
           b   == RowSet(k, i)
           zero == ZeroWords(w, k)
<1>1. /\ new.x = (IF i < k THEN Toggle(w, zero, i) ELSE zero)
      /\ new.z = (IF i < k THEN zero ELSE Toggle(w, zero, i - k)) /\ new.r = 0
  BY DEF RowSetWords
<1> HIDE DEF new
<1>2. ArePacked(w, k, zero) /\ \A p \in Qubits(k) : ~Has(w, zero, p)
  <2>1. Qubits(k) \subseteq Positions(w, k)
    BY WidthAssumption, PositionsAre
  <2> QED
    BY <2>1, ZeroWordsAre
<1>3. ASSUME NEW q \in Qubits(k)
      PROVE  ArePacked(w, k, Toggle(w, zero, q)) /\ \A p \in Qubits(k) : Has(w, Toggle(w, zero, q), p) <=> p = q
  BY OneBitIs
<1> HIDE DEF zero
<1>4. HasBits(b, k) /\ \A q \in Qubits(k) : /\ b.x[q] = IF q = i THEN 1 ELSE 0
                                            /\ b.z[q] = IF q + k = i THEN 1 ELSE 0
  BY RowSetIs
<1>5. b = [x |-> b.x, z |-> b.z, r |-> b.r] /\ b.r = 0
  BY DEF RowSet
<1> HIDE DEF b
<1>6. CASE i < k
  <2>1. i \in Qubits(k) /\ \A q \in Qubits(k) : q + k # i
    BY <1>6 DEF Qubits
  <2>2. new.x = Toggle(w, zero, i) /\ new.z = zero
    BY <1>1, <1>6
  <2>3. IsPackedRow(w, k, new)
    BY <2>1, <2>2, <1>2, <1>3 DEF IsPackedRow
  <2>4. \A p \in Qubits(k) : (Has(w, new.x, p) <=> b.x[p] = 1) /\ (Has(w, new.z, p) <=> b.z[p] = 1)
    BY <2>1, <2>2, <1>2, <1>3, <1>4
  <2> QED
    BY <2>3, <2>4, <1>1, <1>4, <1>5, DecodesTo DEF new, b
<1>7. CASE ~(i < k)
  <2>1. i - k \in Qubits(k) /\ \A q \in Qubits(k) : (q + k = i <=> q = i - k) /\ q # i
    BY <1>7 DEF Qubits
  <2>2. new.x = zero /\ new.z = Toggle(w, zero, i - k)
    BY <1>1, <1>7
  <2>3. IsPackedRow(w, k, new)
    BY <2>1, <2>2, <1>2, <1>3 DEF IsPackedRow
  <2>4. \A p \in Qubits(k) : (Has(w, new.x, p) <=> b.x[p] = 1) /\ (Has(w, new.z, p) <=> b.z[p] = 1)
    BY <2>1, <2>2, <1>2, <1>3, <1>4
  <2> QED
    BY <2>3, <2>4, <1>1, <1>4, <1>5, DecodesTo DEF new, b
<1> QED
  BY <1>6, <1>7

\* the row that measure writes for the outcome
LEMMA ObservableDecodes ==
  ASSUME NEW w \in 1 .. Width, NEW k \in Nat, NEW q \in Qubits(k), NEW v
  PROVE  /\ IsPackedRow(w, k, ObservableWords(w, k, q, v))
         /\ DecodeRow(w, k, ObservableWords(w, k, q, v)) = Observable(k, q, v)
<1> DEFINE new == ObservableWords(w, k, q, v)
           o   == Observable(k, q, v)
           old == RowSetWords(w, k, q + k)
<1>1. q + k \in 0 .. 2 * k - 1
  BY DEF Qubits
<1>2. new.x = old.x /\ new.z = old.z /\ new.r = 2 * v
  BY DEF ObservableWords, RowSetWords
<1>3. IsPackedRow(w, k, old) /\ DecodeRow(w, k, old) = RowSet(k, q + k)
  BY <1>1, RowSetDecodes
<1>4. /\ o.x = RowSet(k, q + k).x /\ o.z = RowSet(k, q + k).z /\ o.r = 2 * v
      /\ o = [x |-> o.x, z |-> o.z, r |-> o.r]
  <2>1. o.x = RowSet(k, q + k).x /\ o.z = RowSet(k, q + k).z /\ o.r = 2 * v
    BY DEF Observable, RowSet
  <2>2. ASSUME NEW X, NEW Z, NEW y
        PROVE  [[x |-> X, z |-> Z, r |-> 0] EXCEPT !.r = y] = [x |-> X, z |-> Z, r |-> y]
    OBVIOUS
  <2> DEFINE X == [c \in Qubits(k) |-> IF c = q + k THEN 1 ELSE 0]
             Z == [c \in Qubits(k) |-> IF c + k = q + k THEN 1 ELSE 0]
  <2>3. o = [x |-> X, z |-> Z, r |-> 2 * v]
    BY <2>2, Zenon DEF Observable, RowSet
  <2> HIDE DEF X, Z
  <2> HIDE DEF o
  <2> QED
    BY <2>1, <2>3
<1> HIDE DEF new, o, old
<1>5. IsPackedRow(w, k, new)
  BY <1>2, <1>3 DEF IsPackedRow
<1>6. DecodeRow(w, k, new) = [x |-> DecodeRow(w, k, old).x, z |-> DecodeRow(w, k, old).z, r |-> new.r]
  BY <1>2 DEF DecodeRow
<1> QED
  BY <1>2, <1>3, <1>4, <1>5, <1>6 DEF new, o

-----------------------------------------------------------------------------
(* Multiplication, a word at a time.                                          *)

\* the qubits that turn the product
Gives(a, b, power) == {q \in DOMAIN a.x : PauliPower(a.x[q], a.z[q], b.x[q], b.z[q]) = power}

\* words are added a word at a time, signs and unused bits included
LEMMA SymDiffOfWords ==
  ASSUME NEW w \in 1 .. Width, NEW k \in Nat, NEW u, ArePacked(w, k, u), NEW v, ArePacked(w, k, v),
         NEW s, s = [i \in DOMAIN u |-> SymDiff(u[i], v[i])]
  PROVE  /\ ArePacked(w, k, s)
         /\ \A p \in Positions(w, k) : Has(w, s, p) <=> ~(Has(w, u, p) <=> Has(w, v, p))
<1>1. /\ AreWords(w, k, u) /\ AreWords(w, k, v)
      /\ \A q \in Positions(w, k) \ Qubits(k) : ~Has(w, u, q) /\ ~Has(w, v, q)
  BY DEF ArePacked
<1>2. /\ u \in [0 .. k \div w -> SUBSET (0 .. Width - 1)] /\ DOMAIN u = 0 .. k \div w
      /\ v \in [0 .. k \div w -> SUBSET (0 .. Width - 1)]
      /\ \A i \in 0 .. k \div w : SignExtended(w, u[i]) /\ SignExtended(w, v[i])
  BY <1>1 DEF AreWords
<1>3. s = [i \in 0 .. k \div w |-> SymDiff(u[i], v[i])]
  BY <1>2
<1>4. ASSUME NEW i \in 0 .. k \div w
      PROVE  SymDiff(u[i], v[i]) \in SUBSET (0 .. Width - 1) /\ SignExtended(w, SymDiff(u[i], v[i]))
  <2>1. u[i] \in SUBSET (0 .. Width - 1) /\ v[i] \in SUBSET (0 .. Width - 1)
    BY <1>2
  <2>2. SymDiff(u[i], v[i]) \in SUBSET (0 .. Width - 1)
    BY <2>1 DEF SymDiff
  <2>3. SignExtended(w, SymDiff(u[i], v[i]))
    BY <1>2 DEF SignExtended, SymDiff
  <2> QED
    BY <2>2, <2>3
<1>5. AreWords(w, k, s)
  BY <1>3, <1>4 DEF AreWords
<1>6. ASSUME NEW p \in Positions(w, k) PROVE Has(w, s, p) <=> ~(Has(w, u, p) <=> Has(w, v, p))
  <2>1. /\ Word(w, p) \in 0 .. k \div w
        /\ Has(w, s, p) <=> p % w \in s[Word(w, p)]
        /\ Has(w, u, p) <=> p % w \in u[Word(w, p)]
        /\ Has(w, v, p) <=> p % w \in v[Word(w, p)]
    BY <1>1, <1>5, HasIs
  <2>2. s[Word(w, p)] = SymDiff(u[Word(w, p)], v[Word(w, p)])
    BY <2>1, <1>3
  <2> QED
    BY <2>1, <2>2 DEF SymDiff
<1> QED
  BY <1>1, <1>5, <1>6 DEF ArePacked

\* the positions of the words that turn it
GivesWords(w, a, b, power) ==
    {q \in 0 .. Cardinality(DOMAIN a.x) * w - 1 :
        PauliPower(BitOf(w, a.x, q), BitOf(w, a.z, q), BitOf(w, b.x, q), BitOf(w, b.z, q)) = power}

\* clifford finds the same turns in the words: unused positions give none
LEMMA GivesDecodes ==
  ASSUME NEW w \in 1 .. Width, NEW k \in Nat, NEW a, IsPackedRow(w, k, a), NEW b, IsPackedRow(w, k, b),
         NEW power, power # 0
  PROVE  GivesWords(w, a, b, power) = Gives(DecodeRow(w, k, a), DecodeRow(w, k, b), power)
<1>1. /\ DOMAIN a.x = 0 .. k \div w /\ k \div w \in Nat
      /\ \A p \in Positions(w, k) \ Qubits(k) : /\ ~Has(w, a.x, p) /\ ~Has(w, a.z, p)
                                                /\ ~Has(w, b.x, p) /\ ~Has(w, b.z, p)
  <2>1. w \in Nat \ {0}
    BY WidthAssumption
  <2>2. k \div w \in Nat
    BY <2>1, DivisionIs
  <2>3. a.x \in [0 .. k \div w -> SUBSET (0 .. Width - 1)]
    BY DEF IsPackedRow, ArePacked, AreWords
  <2> QED
    BY <2>2, <2>3 DEF IsPackedRow, ArePacked
<1>2. Cardinality(DOMAIN a.x) = k \div w + 1
  <2>1. ASSUME NEW e \in Nat PROVE Cardinality(0 .. e) = e + 1
    BY FS_Interval
  <2> QED
    BY <1>1, <2>1
<1>3. 0 .. Cardinality(DOMAIN a.x) * w - 1 = Positions(w, k) /\ Qubits(k) \subseteq Positions(w, k)
  <2>1. 0 .. Cardinality(DOMAIN a.x) * w - 1 = Positions(w, k)
    BY <1>2, Zenon DEF Positions
  <2>2. w \in Nat \ {0}
    BY WidthAssumption
  <2> QED
    BY <2>1, <2>2, PositionsAre
<1> DEFINE P(p) == PauliPower(BitOf(w, a.x, p), BitOf(w, a.z, p), BitOf(w, b.x, p), BitOf(w, b.z, p))
<1>4. \A p \in Positions(w, k) \ Qubits(k) : P(p) = 0
  BY <1>1 DEF BitOf, PauliPower
<1>5. GivesWords(w, a, b, power) = {p \in Positions(w, k) : P(p) = power}
  BY <1>3 DEF GivesWords
<1>6. Gives(DecodeRow(w, k, a), DecodeRow(w, k, b), power) = {p \in Qubits(k) : P(p) = power}
  <2> DEFINE da == DecodeRow(w, k, a)
             db == DecodeRow(w, k, b)
  <2>1. /\ DOMAIN da.x = Qubits(k)
        /\ \A p \in Qubits(k) : /\ da.x[p] = BitOf(w, a.x, p) /\ da.z[p] = BitOf(w, a.z, p)
                                /\ db.x[p] = BitOf(w, b.x, p) /\ db.z[p] = BitOf(w, b.z, p)
    BY DEF DecodeRow
  <2> HIDE DEF da, db
  <2>2. Gives(da, db, power) = {p \in Qubits(k) : PauliPower(da.x[p], da.z[p], db.x[p], db.z[p]) = power}
    BY <2>1 DEF Gives
  <2>3. \A p \in Qubits(k) : PauliPower(da.x[p], da.z[p], db.x[p], db.z[p]) = P(p)
    BY <2>1
  <2> HIDE DEF P
  <2> QED
    BY <2>2, <2>3 DEF da, db
<1> HIDE DEF P
<1> QED
  BY <1>3, <1>4, <1>5, <1>6

\* rowmult on words
LEMMA RowMultDecodes ==
  ASSUME NEW w \in 1 .. Width, NEW k \in Nat, NEW a, IsPackedRow(w, k, a), NEW b, IsPackedRow(w, k, b)
  PROVE  /\ IsPackedRow(w, k, RowMultWords(w, a, b))
         /\ DecodeRow(w, k, RowMultWords(w, a, b)) = RowMult(DecodeRow(w, k, a), DecodeRow(w, k, b))
<1> DEFINE new == RowMultWords(w, a, b)
           da  == DecodeRow(w, k, a)
           db  == DecodeRow(w, k, b)
           h   == RowMult(da, db)
<1>1. /\ ArePacked(w, k, a.x) /\ ArePacked(w, k, a.z)
      /\ ArePacked(w, k, b.x) /\ ArePacked(w, k, b.z)
  BY DEF IsPackedRow
<1>2. /\ new.x = [i \in DOMAIN a.x |-> SymDiff(a.x[i], b.x[i])]
      /\ new.z = [i \in DOMAIN a.z |-> SymDiff(a.z[i], b.z[i])]
      /\ new.r = CliffordWords(w, a, b)
  BY DEF RowMultWords
<1> HIDE DEF new
<1>3. Qubits(k) \subseteq Positions(w, k)
  BY WidthAssumption, PositionsAre
<1>4. /\ ArePacked(w, k, new.x)
      /\ \A p \in Positions(w, k) : Has(w, new.x, p) <=> ~(Has(w, a.x, p) <=> Has(w, b.x, p))
  BY <1>1, <1>2, SymDiffOfWords
<1>5. /\ ArePacked(w, k, new.z)
      /\ \A p \in Positions(w, k) : Has(w, new.z, p) <=> ~(Has(w, a.z, p) <=> Has(w, b.z, p))
  BY <1>1, <1>2, SymDiffOfWords
<1>6. IsPackedRow(w, k, new)
  BY <1>4, <1>5 DEF IsPackedRow
<1>7. GivesWords(w, a, b, 1) = Gives(da, db, 1)
  BY GivesDecodes
<1>8. GivesWords(w, a, b, -1) = Gives(da, db, -1)
  BY GivesDecodes
<1>9. /\ HasBits(da, k) /\ da.r = a.r /\ HasBits(db, k) /\ db.r = b.r
      /\ \A p \in Qubits(k) : /\ (da.x[p] = 1 <=> Has(w, a.x, p)) /\ (da.z[p] = 1 <=> Has(w, a.z, p))
                              /\ (db.x[p] = 1 <=> Has(w, b.x, p)) /\ (db.z[p] = 1 <=> Has(w, b.z, p))
  BY DecodeRowIs
<1> HIDE DEF da, db
<1>10. new.r = h.r
  <2>1. CliffordWords(w, a, b)
          = (Cardinality(GivesWords(w, a, b, 1)) - Cardinality(GivesWords(w, a, b, -1)) + a.r + b.r) % 4
    BY DEF CliffordWords, GivesWords
  <2>2. h.r = (Cardinality(Gives(da, db, 1)) - Cardinality(Gives(da, db, -1)) + da.r + db.r) % 4
    BY DEF RowMult, Clifford, Gives
  <2> HIDE DEF h
  <2> QED
    BY <1>2, <1>7, <1>8, <1>9, <2>1, <2>2
<1>11. h = [x |-> h.x, z |-> h.z, r |-> h.r]
  BY DEF RowMult
<1>12. HasBits(h, k) /\ \A p \in Qubits(k) : /\ h.x[p] = Xor(da.x[p], db.x[p])
                                             /\ h.z[p] = Xor(da.z[p], db.z[p])
  BY <1>9, RowMultIs
<1> HIDE DEF h
<1>13. ASSUME NEW p \in Qubits(k)
       PROVE  (Has(w, new.x, p) <=> h.x[p] = 1) /\ (Has(w, new.z, p) <=> h.z[p] = 1)
  <2>1. da.x[p] \in Bit /\ db.x[p] \in Bit /\ da.z[p] \in Bit /\ db.z[p] \in Bit
    BY <1>9 DEF HasBits
  <2>2. /\ Xor(da.x[p], db.x[p]) = 1 <=> ~(da.x[p] = 1 <=> db.x[p] = 1)
        /\ Xor(da.z[p], db.z[p]) = 1 <=> ~(da.z[p] = 1 <=> db.z[p] = 1)
    BY <2>1, XorOfBits
  <2>3. p \in Positions(w, k)
    BY <1>3
  <2> QED
    BY <2>2, <2>3, <1>4, <1>5, <1>9, <1>12
<1>14. DecodeRow(w, k, new) = h
  BY <1>10, <1>11, <1>12, <1>13, DecodesTo
<1> QED
  BY <1>6, <1>14 DEF new, h, da, db

-----------------------------------------------------------------------------
(* The gates on the words of a tableau.                                       *)

\* the words of a tableau
Packs(w, k, ws, tb) == IsPacked(w, k, ws) /\ Decode(w, k, ws) = tb

\* row by row
LEMMA PacksIs ==
  ASSUME NEW w, NEW k \in Nat, NEW ws, NEW tb, Packs(w, k, ws, tb)
  PROVE  /\ DOMAIN ws = 0 .. 2 * k - 1 /\ DOMAIN tb = 0 .. 2 * k - 1
         /\ \A i \in 0 .. 2 * k - 1 : IsPackedRow(w, k, ws[i]) /\ DecodeRow(w, k, ws[i]) = tb[i]
<1>1. DOMAIN ws = 0 .. 2 * k - 1 /\ \A i \in 0 .. 2 * k - 1 : IsPackedRow(w, k, ws[i])
  BY DEF Packs, IsPacked
<1>2. tb = [i \in 0 .. 2 * k - 1 |-> DecodeRow(w, k, ws[i])]
  BY <1>1 DEF Packs, Decode
<1> QED
  BY <1>1, <1>2

\* and back
LEMMA PacksFrom ==
  ASSUME NEW w, NEW k \in Nat, NEW ws, NEW tb,
         DOMAIN ws = 0 .. 2 * k - 1, tb = [i \in 0 .. 2 * k - 1 |-> tb[i]],
         \A i \in 0 .. 2 * k - 1 : IsPackedRow(w, k, ws[i]) /\ DecodeRow(w, k, ws[i]) = tb[i]
  PROVE  Packs(w, k, ws, tb)
<1>1. Decode(w, k, ws) = [i \in 0 .. 2 * k - 1 |-> DecodeRow(w, k, ws[i])]
  BY DEF Decode
<1>2. Decode(w, k, ws) = tb
  BY <1>1
<1> QED
  BY <1>2 DEF Packs, IsPacked

\* init_state
LEMMA InitPacks ==
  ASSUME NEW w \in 1 .. Width, NEW k \in Nat
  PROVE  Packs(w, k, InitWords(w, k), InitTableau(k))
<1>1. /\ DOMAIN InitWords(w, k) = 0 .. 2 * k - 1
      /\ \A i \in 0 .. 2 * k - 1 : InitWords(w, k)[i] = RowSetWords(w, k, i)
  BY DEF InitWords
<1>2. /\ InitTableau(k) = [i \in 0 .. 2 * k - 1 |-> InitTableau(k)[i]]
      /\ \A i \in 0 .. 2 * k - 1 : InitTableau(k)[i] = RowSet(k, i)
  BY DEF InitTableau
<1>3. \A i \in 0 .. 2 * k - 1 : /\ IsPackedRow(w, k, InitWords(w, k)[i])
                                /\ DecodeRow(w, k, InitWords(w, k)[i]) = InitTableau(k)[i]
  BY <1>1, <1>2, RowSetDecodes
<1> QED
  BY <1>1, <1>2, <1>3, PacksFrom

\* the gates on words do what they do on bits
LEMMA HadamardPacks ==
  ASSUME NEW w \in 1 .. Width, NEW k \in Nat, NEW ws, NEW tb, Packs(w, k, ws, tb), NEW q \in Qubits(k)
  PROVE  Packs(w, k, HadamardWords(w, ws, q), Hadamard(tb, q))
<1>1. /\ DOMAIN ws = 0 .. 2 * k - 1 /\ DOMAIN tb = 0 .. 2 * k - 1
      /\ \A i \in 0 .. 2 * k - 1 : IsPackedRow(w, k, ws[i]) /\ DecodeRow(w, k, ws[i]) = tb[i]
  BY PacksIs
<1> DEFINE nw == HadamardWords(w, ws, q)
           nt == Hadamard(tb, q)
<1>2. /\ DOMAIN nw = 0 .. 2 * k - 1 /\ nt = [i \in 0 .. 2 * k - 1 |-> nt[i]]
      /\ \A i \in 0 .. 2 * k - 1 : nw[i] = HadamardRowWords(w, ws[i], q) /\ nt[i] = HadamardRow(tb[i], q)
  BY <1>1 DEF HadamardWords, Hadamard
<1> HIDE DEF nw, nt
<1>3. \A i \in 0 .. 2 * k - 1 : IsPackedRow(w, k, nw[i]) /\ DecodeRow(w, k, nw[i]) = nt[i]
  BY <1>1, <1>2, HadamardDecodes
<1> QED
  BY <1>2, <1>3, PacksFrom DEF nw, nt

\* the phase gate
LEMMA PhasePacks ==
  ASSUME NEW w \in 1 .. Width, NEW k \in Nat, NEW ws, NEW tb, Packs(w, k, ws, tb), NEW q \in Qubits(k)
  PROVE  Packs(w, k, PhaseWords(w, ws, q), Phase(tb, q))
<1>1. /\ DOMAIN ws = 0 .. 2 * k - 1 /\ DOMAIN tb = 0 .. 2 * k - 1
      /\ \A i \in 0 .. 2 * k - 1 : IsPackedRow(w, k, ws[i]) /\ DecodeRow(w, k, ws[i]) = tb[i]
  BY PacksIs
<1> DEFINE nw == PhaseWords(w, ws, q)
           nt == Phase(tb, q)
<1>2. /\ DOMAIN nw = 0 .. 2 * k - 1 /\ nt = [i \in 0 .. 2 * k - 1 |-> nt[i]]
      /\ \A i \in 0 .. 2 * k - 1 : nw[i] = PhaseRowWords(w, ws[i], q) /\ nt[i] = PhaseRow(tb[i], q)
  BY <1>1 DEF PhaseWords, Phase
<1> HIDE DEF nw, nt
<1>3. \A i \in 0 .. 2 * k - 1 : IsPackedRow(w, k, nw[i]) /\ DecodeRow(w, k, nw[i]) = nt[i]
  BY <1>1, <1>2, PhaseDecodes
<1> QED
  BY <1>2, <1>3, PacksFrom DEF nw, nt

\* the controlled not
LEMMA CnotPacks ==
  ASSUME NEW w \in 1 .. Width, NEW k \in Nat, NEW ws, NEW tb, Packs(w, k, ws, tb),
         NEW c \in Qubits(k), NEW t \in Qubits(k), c # t
  PROVE  Packs(w, k, CnotWords(w, ws, c, t), Cnot(tb, c, t))
<1>1. /\ DOMAIN ws = 0 .. 2 * k - 1 /\ DOMAIN tb = 0 .. 2 * k - 1
      /\ \A i \in 0 .. 2 * k - 1 : IsPackedRow(w, k, ws[i]) /\ DecodeRow(w, k, ws[i]) = tb[i]
  BY PacksIs
<1> DEFINE nw == CnotWords(w, ws, c, t)
           nt == Cnot(tb, c, t)
<1>2. /\ DOMAIN nw = 0 .. 2 * k - 1 /\ nt = [i \in 0 .. 2 * k - 1 |-> nt[i]]
      /\ \A i \in 0 .. 2 * k - 1 : nw[i] = CnotRowWords(w, ws[i], c, t) /\ nt[i] = CnotRow(tb[i], c, t)
  BY <1>1 DEF CnotWords, Cnot
<1> HIDE DEF nw, nt
<1>3. \A i \in 0 .. 2 * k - 1 : IsPackedRow(w, k, nw[i]) /\ DecodeRow(w, k, nw[i]) = nt[i]
  BY <1>1, <1>2, CnotDecodes
<1> QED
  BY <1>2, <1>3, PacksFrom DEF nw, nt

\* the Pauli gates
LEMMA PaulisPack ==
  ASSUME NEW w \in 1 .. Width, NEW k \in Nat, NEW ws, NEW tb, Packs(w, k, ws, tb), NEW q \in Qubits(k)
  PROVE  /\ Packs(w, k, PauliXWords(w, ws, q), PauliX(tb, q))
         /\ Packs(w, k, PauliYWords(w, ws, q), PauliY(tb, q))
         /\ Packs(w, k, PauliZWords(w, ws, q), PauliZ(tb, q))
<1>1. ASSUME NEW u, NEW s, Packs(w, k, u, s) PROVE Packs(w, k, PauliXWords(w, u, q), PauliX(s, q))
  BY <1>1, HadamardPacks, PhasePacks DEF PauliXWords, PauliX
<1>2. ASSUME NEW u, NEW s, Packs(w, k, u, s) PROVE Packs(w, k, PauliZWords(w, u, q), PauliZ(s, q))
  BY <1>2, PhasePacks DEF PauliZWords, PauliZ
<1>3. Packs(w, k, PauliYWords(w, ws, q), PauliY(tb, q))
  BY <1>1, <1>2, PhasePacks DEF PauliYWords, PauliY
<1> QED
  BY <1>1, <1>2, <1>3

-----------------------------------------------------------------------------
(* Measurement on words.                                                      *)

\* measure finds the same rows
LEMMA PivotsPack ==
  ASSUME NEW w \in 1 .. Width, NEW k \in Nat, NEW ws, NEW tb, Packs(w, k, ws, tb), NEW q \in Qubits(k),
         NEW from \in {0, k}
  PROVE  /\ PivotsWords(w, ws, from, k, q) = Pivots(tb, from, k, q)
         /\ \A i \in 0 .. 2 * k - 1 : Has(w, ws[i].x, q) <=> tb[i].x[q] = 1
<1>1. \A i \in 0 .. 2 * k - 1 : DecodeRow(w, k, ws[i]) = tb[i]
  BY PacksIs
<1>2. ASSUME NEW i \in 0 .. 2 * k - 1 PROVE Has(w, ws[i].x, q) <=> tb[i].x[q] = 1
  <2>1. DecodeRow(w, k, ws[i]).x[q] = 1 <=> Has(w, ws[i].x, q)
    BY DecodeRowIs
  <2> QED
    BY <1>1, <2>1
<1>3. \A i \in 0 .. k - 1 : from + i \in 0 .. 2 * k - 1
  OBVIOUS
<1> QED
  BY <1>2, <1>3 DEF PivotsWords, Pivots

\* a random outcome leaves the same rows
LEMMA CollapsePacks ==
  ASSUME NEW w \in 1 .. Width, NEW k \in Nat, NEW ws, NEW tb, Packs(w, k, ws, tb), NEW q \in Qubits(k),
         Pivots(tb, k, k, q) # {}, NEW v
  PROVE  Packs(w, k, CollapseWords(w, ws, k, q, v), Collapse(tb, k, q, v))
<1> DEFINE p  == Min(Pivots(tb, k, k, q))
           ow == ObservableWords(w, k, q, v)
           ot == Observable(k, q, v)
           sw == [ws EXCEPT ![p] = ws[p + k], ![p + k] = ow]
           st == [tb EXCEPT ![p] = tb[p + k], ![p + k] = ot]
           nw == CollapseWords(w, ws, k, q, v)
           nt == Collapse(tb, k, q, v)
<1>1. /\ DOMAIN ws = 0 .. 2 * k - 1 /\ DOMAIN tb = 0 .. 2 * k - 1
      /\ \A i \in 0 .. 2 * k - 1 : IsPackedRow(w, k, ws[i]) /\ DecodeRow(w, k, ws[i]) = tb[i]
  BY PacksIs
<1>2. PivotsWords(w, ws, k, k, q) = Pivots(tb, k, k, q)
  BY PivotsPack
<1>3. /\ nw = [i \in DOMAIN ws |-> IF i # p /\ Has(w, sw[i].x, q) THEN RowMultWords(w, sw[i], sw[p]) ELSE sw[i]]
      /\ nt = [i \in DOMAIN tb |-> IF i # p /\ st[i].x[q] = 1 THEN RowMult(st[i], st[p]) ELSE st[i]]
  <2>1. nt = [i \in DOMAIN tb |-> IF i # p /\ st[i].x[q] = 1 THEN RowMult(st[i], st[p]) ELSE st[i]]
    BY DEF Collapse
  <2> DEFINE pw    == Min(PivotsWords(w, ws, k, k, q))
             At(j) == [ws EXCEPT ![j] = ws[j + k], ![j + k] = ow]
  <2>2. nw = [i \in DOMAIN ws |-> IF i # pw /\ Has(w, At(pw)[i].x, q)
                                  THEN RowMultWords(w, At(pw)[i], At(pw)[pw]) ELSE At(pw)[i]]
    BY DEF CollapseWords
  <2>3. pw = p /\ At(p) = sw
    BY <1>2
  <2> HIDE DEF At, pw, p, sw, st, nw, nt
  <2> QED
    BY <2>1, <2>2, <2>3
<1> HIDE DEF nw, nt
<1>4. p \in 0 .. k - 1
  <2>1. Pivots(tb, k, k, q) \in SUBSET Nat /\ Pivots(tb, k, k, q) \subseteq 0 .. k - 1
    BY DEF Pivots
  <2> QED
    BY <2>1, SmallestNat
<1> HIDE DEF p
<1>5. p \in 0 .. 2 * k - 1 /\ p + k \in 0 .. 2 * k - 1 /\ p # p + k
  BY <1>4
<1>6. IsPackedRow(w, k, ow) /\ DecodeRow(w, k, ow) = ot
  BY ObservableDecodes
<1> HIDE DEF ow, ot
<1>7. ASSUME NEW i \in 0 .. 2 * k - 1
      PROVE  /\ sw[i] = IF i = p + k THEN ow ELSE IF i = p THEN ws[p + k] ELSE ws[i]
             /\ st[i] = IF i = p + k THEN ot ELSE IF i = p THEN tb[p + k] ELSE tb[i]
  <2>1. sw[i] = IF i = p + k THEN ow ELSE IF i = p THEN ws[p + k] ELSE ws[i]
    BY <1>1, <1>5
  <2>2. st[i] = IF i = p + k THEN ot ELSE IF i = p THEN tb[p + k] ELSE tb[i]
    BY <1>1, <1>5
  <2> QED
    BY <2>1, <2>2
<1> HIDE DEF sw, st
<1>8. ASSUME NEW i \in 0 .. 2 * k - 1
      PROVE  IsPackedRow(w, k, sw[i]) /\ DecodeRow(w, k, sw[i]) = st[i]
  BY <1>1, <1>5, <1>6, <1>7
<1>9. ASSUME NEW i \in 0 .. 2 * k - 1
      PROVE  IsPackedRow(w, k, nw[i]) /\ DecodeRow(w, k, nw[i]) = nt[i]
  <2>1. /\ nw[i] = IF i # p /\ Has(w, sw[i].x, q) THEN RowMultWords(w, sw[i], sw[p]) ELSE sw[i]
        /\ nt[i] = IF i # p /\ st[i].x[q] = 1 THEN RowMult(st[i], st[p]) ELSE st[i]
    BY <1>1, <1>3
  <2>2. Has(w, sw[i].x, q) <=> st[i].x[q] = 1
    <3>1. DecodeRow(w, k, sw[i]).x[q] = 1 <=> Has(w, sw[i].x, q)
      BY DecodeRowIs
    <3> QED
      BY <3>1, <1>8
  <2>3. /\ IsPackedRow(w, k, sw[i]) /\ DecodeRow(w, k, sw[i]) = st[i]
        /\ IsPackedRow(w, k, sw[p]) /\ DecodeRow(w, k, sw[p]) = st[p]
    BY <1>5, <1>8
  <2>4. /\ IsPackedRow(w, k, RowMultWords(w, sw[i], sw[p]))
        /\ DecodeRow(w, k, RowMultWords(w, sw[i], sw[p])) = RowMult(DecodeRow(w, k, sw[i]), DecodeRow(w, k, sw[p]))
    BY <2>3, RowMultDecodes
  <2> QED
    BY <2>1, <2>2, <2>3, <2>4
<1>10. DOMAIN nw = 0 .. 2 * k - 1 /\ nt = [i \in 0 .. 2 * k - 1 |-> nt[i]]
  BY <1>1, <1>3
<1> QED
  BY <1>9, <1>10, PacksFrom DEF nw, nt

MultipliedWords(w, ws, k, q, i, row) == IF Has(w, ws[i].x, q) THEN RowMultWords(w, row, ws[i + k]) ELSE row

IsProductWords(g, w, ws, k, q, m, j) ==
    g = [i \in m .. j |-> IF i = m THEN ws[m + k] ELSE MultipliedWords(w, ws, k, q, i, g[i - 1])]

\* the product of words that measure computes row by row exists
LEMMA ProductWordsExists ==
  ASSUME NEW k \in Nat, NEW w, NEW ws, NEW q, NEW m \in Nat, NEW j \in Nat, m <= j
  PROVE  \E g : IsProductWords(g, w, ws, k, q, m, j)
<1> DEFINE Bad == {i \in Nat : m <= i /\ ~(\E g : IsProductWords(g, w, ws, k, q, m, i))}
<1> SUFFICES ASSUME Bad # {} PROVE FALSE
  OBVIOUS
<1> DEFINE d == Min(Bad)
<1>1. d \in Bad /\ \A i \in Bad : d <= i
  <2>1. Bad \in SUBSET Nat
    OBVIOUS
  <2> QED
    BY <2>1, SmallestNat
<1>2. d \in Nat /\ m <= d /\ ~(\E g : IsProductWords(g, w, ws, k, q, m, d))
  BY <1>1
<1> HIDE DEF d
<1>3. CASE d = m
  <2> DEFINE g == [i \in m .. m |-> ws[m + k]]
  <2>1. \A i \in m .. m : i = m
    OBVIOUS
  <2>2. g = [i \in m .. m |-> IF i = m THEN ws[m + k] ELSE MultipliedWords(w, ws, k, q, i, g[i - 1])]
    BY <2>1
  <2> HIDE DEF g
  <2>3. IsProductWords(g, w, ws, k, q, m, m)
    BY <2>2 DEF IsProductWords
  <2> QED
    BY <2>3, <1>2, <1>3
<1>4. CASE d # m
  <2>1. d - 1 \in Nat /\ m <= d - 1 /\ ~(d <= d - 1)
    BY <1>2, <1>4
  <2>2. PICK g : IsProductWords(g, w, ws, k, q, m, d - 1)
    BY <2>1, <1>1
  <2>3. g = [i \in m .. d - 1 |-> IF i = m THEN ws[m + k] ELSE MultipliedWords(w, ws, k, q, i, g[i - 1])]
    BY <2>2 DEF IsProductWords
  <2> DEFINE h == [i \in m .. d |-> IF i = d THEN MultipliedWords(w, ws, k, q, d, g[d - 1]) ELSE g[i]]
  <2>4. \A i \in m .. d - 1 : i \in m .. d /\ h[i] = g[i]
    BY <1>2, <1>4
  <2>5. ASSUME NEW i \in m .. d
        PROVE  h[i] = IF i = m THEN ws[m + k] ELSE MultipliedWords(w, ws, k, q, i, h[i - 1])
    <3>1. CASE i = d
      <4>1. d - 1 \in m .. d - 1
        BY <2>1
      <4>2. h[d - 1] = g[d - 1]
        BY <4>1, <2>4
      <4>3. h[d] = MultipliedWords(w, ws, k, q, d, g[d - 1])
        BY <1>2
      <4> QED
        BY <4>2, <4>3, <3>1, <1>4
    <3>2. CASE i # d /\ i # m
      <4>1. i \in m .. d - 1 /\ i - 1 \in m .. d - 1
        BY <3>2, <1>2
      <4>2. h[i] = g[i] /\ h[i - 1] = g[i - 1]
        BY <4>1, <2>4
      <4>3. g[i] = MultipliedWords(w, ws, k, q, i, g[i - 1])
        BY <4>1, <3>2, <2>3
      <4> QED
        BY <4>2, <4>3, <3>2
    <3>3. CASE i # d /\ i = m
      <4>1. i \in m .. d - 1
        BY <3>3, <1>2
      <4>2. h[i] = g[i]
        BY <4>1, <2>4
      <4>3. g[i] = ws[m + k]
        BY <4>1, <3>3, <2>3
      <4> QED
        BY <4>2, <4>3, <3>3
    <3> QED
      BY <3>1, <3>2, <3>3
  <2>6. h = [i \in m .. d |-> h[i]]
    OBVIOUS
  <2> HIDE DEF h
  <2>7. h = [i \in m .. d |-> IF i = m THEN ws[m + k] ELSE MultipliedWords(w, ws, k, q, i, h[i - 1])]
    BY <2>5, <2>6
  <2>8. IsProductWords(h, w, ws, k, q, m, d)
    BY <2>7 DEF IsProductWords
  <2> QED
    BY <2>8, <1>2
<1> QED
  BY <1>3, <1>4

\* the scratch row of words is the last of the products
LEMMA ScratchWordsIs ==
  ASSUME NEW k \in Nat, NEW w, NEW ws, NEW q \in Qubits(k), PivotsWords(w, ws, 0, k, q) # {},
         NEW m, m = Min(PivotsWords(w, ws, 0, k, q))
  PROVE  /\ m \in Qubits(k) /\ Has(w, ws[m].x, q) /\ \A i \in Qubits(k) : i < m => ~Has(w, ws[i].x, q)
         /\ \E g : /\ ScratchWords(w, ws, k, q) = g[k - 1] /\ g[m] = ws[m + k]
                   /\ \A i \in m + 1 .. k - 1 : g[i] = MultipliedWords(w, ws, k, q, i, g[i - 1])
<1>1. PivotsWords(w, ws, 0, k, q) = {i \in 0 .. k - 1 : Has(w, ws[i].x, q)}
  <2>1. \A i \in 0 .. k - 1 : 0 + i = i
    OBVIOUS
  <2> QED
    BY <2>1 DEF PivotsWords
<1>2. PivotsWords(w, ws, 0, k, q) \in SUBSET Nat
  BY <1>1
<1>3. m \in PivotsWords(w, ws, 0, k, q) /\ \A i \in PivotsWords(w, ws, 0, k, q) : m <= i
  BY <1>2, SmallestNat
<1>4. m \in 0 .. k - 1 /\ Has(w, ws[m].x, q) /\ \A i \in 0 .. k - 1 : i < m => ~Has(w, ws[i].x, q)
  BY <1>1, <1>3
<1> DEFINE g == CHOOSE h : IsProductWords(h, w, ws, k, q, m, k - 1)
<1>5. ScratchWords(w, ws, k, q) = g[k - 1]
  BY DEF ScratchWords, IsProductWords, MultipliedWords
<1>6. m \in Nat /\ k - 1 \in Nat /\ m <= k - 1
  BY <1>4
<1>7. IsProductWords(g, w, ws, k, q, m, k - 1)
  BY <1>6, ProductWordsExists
<1> HIDE DEF g
<1>8. g = [i \in m .. k - 1 |-> IF i = m THEN ws[m + k] ELSE MultipliedWords(w, ws, k, q, i, g[i - 1])]
  BY <1>7 DEF IsProductWords
<1>9. g[m] = ws[m + k]
  <2>1. m \in m .. k - 1
    BY <1>6
  <2> QED
    BY <2>1, <1>8
<1>10. \A i \in m + 1 .. k - 1 : g[i] = MultipliedWords(w, ws, k, q, i, g[i - 1])
  <2>1. \A i \in m + 1 .. k - 1 : i \in m .. k - 1 /\ i # m
    BY <1>6
  <2> QED
    BY <2>1, <1>8
<1> QED
  BY <1>4, <1>5, <1>9, <1>10 DEF Qubits
\* the scratch row is the same
LEMMA ScratchPacks ==
  ASSUME NEW w \in 1 .. Width, NEW k \in Nat, NEW ws, NEW tb, Packs(w, k, ws, tb), NEW q \in Qubits(k),
         Pivots(tb, 0, k, q) # {}
  PROVE  DecodeRow(w, k, ScratchWords(w, ws, k, q)) = Scratch(tb, k, q)
<1> DEFINE m == Min(Pivots(tb, 0, k, q))
<1>1. /\ PivotsWords(w, ws, 0, k, q) = Pivots(tb, 0, k, q)
      /\ \A i \in 0 .. 2 * k - 1 : Has(w, ws[i].x, q) <=> tb[i].x[q] = 1
  BY PivotsPack
<1>2. \A i \in 0 .. 2 * k - 1 : IsPackedRow(w, k, ws[i]) /\ DecodeRow(w, k, ws[i]) = tb[i]
  BY PacksIs
<1>3. /\ m \in Qubits(k)
      /\ \E g : /\ Scratch(tb, k, q) = g[k - 1] /\ g[m] = tb[m + k]
                /\ \A i \in m + 1 .. k - 1 : g[i] = Multiplied(tb, k, q, i, g[i - 1])
  BY ScratchIs
<1>4. m = Min(PivotsWords(w, ws, 0, k, q)) /\ PivotsWords(w, ws, 0, k, q) # {}
  BY <1>1
<1> HIDE DEF m
<1>5. \E g : /\ ScratchWords(w, ws, k, q) = g[k - 1] /\ g[m] = ws[m + k]
            /\ \A i \in m + 1 .. k - 1 : g[i] = MultipliedWords(w, ws, k, q, i, g[i - 1])
  BY <1>4, ScratchWordsIs
<1>6. PICK g : /\ Scratch(tb, k, q) = g[k - 1] /\ g[m] = tb[m + k]
               /\ \A i \in m + 1 .. k - 1 : g[i] = Multiplied(tb, k, q, i, g[i - 1])
  BY <1>3
<1>7. PICK h : /\ ScratchWords(w, ws, k, q) = h[k - 1] /\ h[m] = ws[m + k]
               /\ \A i \in m + 1 .. k - 1 : h[i] = MultipliedWords(w, ws, k, q, i, h[i - 1])
  BY <1>5
<1>8. m \in Nat /\ m <= k - 1 /\ k - 1 \in Nat
  BY <1>3 DEF Qubits
<1> DEFINE Same(i) == IsPackedRow(w, k, h[i]) /\ DecodeRow(w, k, h[i]) = g[i]
           Bad     == {i \in Nat : m <= i /\ i <= k - 1 /\ ~Same(i)}
<1>9. Bad = {}
  <2> SUFFICES ASSUME Bad # {} PROVE FALSE
    OBVIOUS
  <2> DEFINE d == Min(Bad)
  <2>1. d \in Bad /\ \A i \in Bad : d <= i
    <3>1. Bad \in SUBSET Nat
      OBVIOUS
    <3> QED
      BY <3>1, SmallestNat
  <2>2. d \in Nat /\ m <= d /\ d <= k - 1 /\ ~Same(d)
    BY <2>1
  <2> HIDE DEF d
  <2>3. d # m
    <3>1. m + k \in 0 .. 2 * k - 1
      BY <1>8
    <3>2. Same(m)
      BY <3>1, <1>2, <1>6, <1>7
    <3> QED
      BY <3>2, <2>2
  <2>4. d - 1 \in Nat /\ m <= d - 1 /\ d - 1 <= k - 1 /\ ~(d <= d - 1)
    BY <2>2, <2>3, <1>8
  <2>5. Same(d - 1)
    BY <2>1, <2>4
  <2>6. d \in m + 1 .. k - 1 /\ d \in 0 .. 2 * k - 1 /\ d + k \in 0 .. 2 * k - 1
    BY <2>2, <2>3, <1>8
  <2>7. /\ g[d] = IF tb[d].x[q] = 1 THEN RowMult(g[d - 1], tb[d + k]) ELSE g[d - 1]
        /\ h[d] = IF Has(w, ws[d].x, q) THEN RowMultWords(w, h[d - 1], ws[d + k]) ELSE h[d - 1]
    BY <2>6, <1>6, <1>7 DEF Multiplied, MultipliedWords
  <2>8. /\ IsPackedRow(w, k, h[d - 1]) /\ DecodeRow(w, k, h[d - 1]) = g[d - 1]
        /\ IsPackedRow(w, k, ws[d + k]) /\ DecodeRow(w, k, ws[d + k]) = tb[d + k]
        /\ Has(w, ws[d].x, q) <=> tb[d].x[q] = 1
    BY <2>5, <2>6, <1>1, <1>2
  <2>9. /\ IsPackedRow(w, k, RowMultWords(w, h[d - 1], ws[d + k]))
        /\ DecodeRow(w, k, RowMultWords(w, h[d - 1], ws[d + k]))
              = RowMult(DecodeRow(w, k, h[d - 1]), DecodeRow(w, k, ws[d + k]))
    BY <2>8, RowMultDecodes
  <2>10. Same(d)
    BY <2>7, <2>8, <2>9
  <2> QED
    BY <2>2, <2>10
<1>10. Same(k - 1)
  BY <1>8, <1>9
<1> QED
  BY <1>6, <1>7, <1>10

\* measure does on words what it does on bits
LEMMA MeasurePacks ==
  ASSUME NEW w \in 1 .. Width, NEW k \in Nat, NEW ws, NEW tb, Packs(w, k, ws, tb), NEW q \in Qubits(k),
         IsTableau(tb, k), IsDual(tb, k), NEW v
  PROVE  /\ IsRandom(tb, k, q) => /\ Packs(w, k, MeasureWords(w, ws, k, q, v).rows, Collapse(tb, k, q, v))
                                  /\ MeasureWords(w, ws, k, q, v).outcome = v
         /\ ~IsRandom(tb, k, q) => /\ Packs(w, k, MeasureWords(w, ws, k, q, v).rows, tb)
                                   /\ MeasureWords(w, ws, k, q, v).outcome = CertainOutcome(tb, k, q)
<1>1. PivotsWords(w, ws, k, k, q) = Pivots(tb, k, k, q)
  BY PivotsPack
<1>2. CASE IsRandom(tb, k, q)
  <2>1. Pivots(tb, k, k, q) # {}
    BY <1>2 DEF IsRandom
  <2>2. MeasureWords(w, ws, k, q, v) = [rows |-> CollapseWords(w, ws, k, q, v), outcome |-> v]
    BY <2>1, <1>1 DEF MeasureWords
  <2>3. Packs(w, k, CollapseWords(w, ws, k, q, v), Collapse(tb, k, q, v))
    BY <2>1, CollapsePacks
  <2> QED
    BY <2>2, <2>3, <1>2
<1>3. CASE ~IsRandom(tb, k, q)
  <2>1. Pivots(tb, k, k, q) = {} /\ Pivots(tb, 0, k, q) # {}
    <3>1. Pivots(tb, 0, k, q) # {}
      BY <1>3, PivotIsFound
    <3>2. Pivots(tb, k, k, q) = {}
      BY <1>3 DEF IsRandom
    <3> QED
      BY <3>1, <3>2
  <2>2. MeasureWords(w, ws, k, q, v)
          = [rows |-> ws, outcome |-> IF ScratchWords(w, ws, k, q).r = 0 THEN 0 ELSE 1]
    BY <2>1, <1>1 DEF MeasureWords
  <2>3. DecodeRow(w, k, ScratchWords(w, ws, k, q)) = Scratch(tb, k, q)
    BY <2>1, ScratchPacks
  <2>4. ScratchWords(w, ws, k, q).r = Scratch(tb, k, q).r
    <3>1. DecodeRow(w, k, ScratchWords(w, ws, k, q)).r = ScratchWords(w, ws, k, q).r
      BY DEF DecodeRow
    <3> QED
      BY <3>1, <2>3
  <2> QED
    BY <2>2, <2>4, <1>3 DEF CertainOutcome
<1> QED
  BY <1>2, <1>3
================================================================================
