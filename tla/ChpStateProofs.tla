---------------------------- MODULE ChpStateProofs ----------------------------
(* What holds of a _chp_state for every number of qubits and every word size:  *)
(* its arrays are owned, the rows of its tableau stay a basis, they stabilize   *)
(* the state vector of the circuit, the words stand for the bits, and measure  *)
(* returns what is possible.  First what stabilizes a vector after each gate   *)
(* and each measurement, then the invariant.                                   *)
EXTENDS TableauProofs

-----------------------------------------------------------------------------
(* Amplitudes.                                                                *)

Amplitude == Int \X Int

\* amplitudes are pairs of integers, and so is what is computed from them
LEMMA AmplitudeIs ==
  ASSUME NEW a \in Amplitude, NEW b \in Amplitude
  PROVE  /\ a[1] \in Int /\ a[2] \in Int /\ a = <<a[1], a[2]>>
         /\ Plus(a, b) \in Amplitude /\ Neg(a) \in Amplitude /\ TimesI(a) \in Amplitude
         /\ Times(a, b) \in Amplitude /\ Conjugate(a) \in Amplitude
         /\ Zero \in Amplitude
         /\ a = b <=> a[1] = b[1] /\ a[2] = b[2]
<1>1. a[1] \in Int /\ a[2] \in Int /\ a = <<a[1], a[2]>> /\ b[1] \in Int /\ b[2] \in Int /\ b = <<b[1], b[2]>>
  BY DEF Amplitude
<1>2. Plus(a, b) \in Amplitude /\ Neg(a) \in Amplitude /\ TimesI(a) \in Amplitude
  BY <1>1 DEF Amplitude, Plus, Neg, TimesI
<1>3. Times(a, b) \in Amplitude
  <2>1. a[1] * b[1] - a[2] * b[2] \in Int /\ a[1] * b[2] + a[2] * b[1] \in Int
    BY <1>1
  <2> QED
    BY <2>1 DEF Amplitude, Times
<1>4. Conjugate(a) \in Amplitude /\ Zero \in Amplitude
  BY <1>1 DEF Amplitude, Conjugate, Zero
<1>5. a = b <=> a[1] = b[1] /\ a[2] = b[2]
  BY <1>1
<1> QED
  BY <1>1, <1>2, <1>3, <1>4, <1>5

\* only the remainder of the power matters
LEMMA RotateIs ==
  ASSUME NEW e \in Int, NEW a \in Amplitude
  PROVE  /\ e % 4 \in 0 .. 3
         /\ Rotate(e, a) \in Amplitude
         /\ Rotate(e, a) = Rotate(e % 4, a)
         /\ e % 4 = 0 => Rotate(e, a) = a
         /\ e % 4 = 1 => Rotate(e, a) = <<-a[2], a[1]>>
         /\ e % 4 = 2 => Rotate(e, a) = <<-a[1], -a[2]>>
         /\ e % 4 = 3 => Rotate(e, a) = <<a[2], -a[1]>>
<1>1. e % 4 \in 0 .. 3
  OBVIOUS
<1>2. a[1] \in Int /\ a[2] \in Int /\ a = <<a[1], a[2]>>
  BY AmplitudeIs
<1>3. CASE e % 4 = 0
  BY <1>2, <1>3 DEF Rotate
<1>4. CASE e % 4 = 1
  BY <1>2, <1>4 DEF Rotate, TimesI, Amplitude
<1>5. CASE e % 4 = 2
  BY <1>2, <1>5 DEF Rotate, Neg, Amplitude
<1>6. CASE e % 4 = 3
  BY <1>2, <1>6 DEF Rotate, TimesI, Neg, Amplitude
<1> QED
  BY <1>1, <1>3, <1>4, <1>5, <1>6

\* two turns are one
LEMMA RotateTwice ==
  ASSUME NEW d \in Int, NEW e \in Int, NEW a \in Amplitude
  PROVE  Rotate(d, Rotate(e, a)) = Rotate(d + e, a)
<1> DEFINE b == Rotate(e, a)
<1>1. /\ e % 4 \in 0 .. 3 /\ d % 4 \in 0 .. 3 /\ d + e \in Int /\ (d + e) % 4 \in 0 .. 3
      /\ (d + e) % 4 = ((d % 4) + (e % 4)) % 4
  OBVIOUS
<1>2. /\ b \in Amplitude
      /\ e % 4 = 0 => b = a
      /\ e % 4 = 1 => b = <<-a[2], a[1]>>
      /\ e % 4 = 2 => b = <<-a[1], -a[2]>>
      /\ e % 4 = 3 => b = <<a[2], -a[1]>>
  BY RotateIs
<1> HIDE DEF b
<1>3. /\ d % 4 = 0 => Rotate(d, b) = b
      /\ d % 4 = 1 => Rotate(d, b) = <<-b[2], b[1]>>
      /\ d % 4 = 2 => Rotate(d, b) = <<-b[1], -b[2]>>
      /\ d % 4 = 3 => Rotate(d, b) = <<b[2], -b[1]>>
  BY <1>2, RotateIs
<1>4. /\ (d + e) % 4 = 0 => Rotate(d + e, a) = a
      /\ (d + e) % 4 = 1 => Rotate(d + e, a) = <<-a[2], a[1]>>
      /\ (d + e) % 4 = 2 => Rotate(d + e, a) = <<-a[1], -a[2]>>
      /\ (d + e) % 4 = 3 => Rotate(d + e, a) = <<a[2], -a[1]>>
  BY <1>1, RotateIs
<1>5. a[1] \in Int /\ a[2] \in Int /\ a = <<a[1], a[2]>> /\ b[1] \in Int /\ b[2] \in Int /\ b = <<b[1], b[2]>>
  BY <1>2, AmplitudeIs
<1>6. CASE e % 4 = 0
  BY <1>1, <1>2, <1>3, <1>4, <1>5, <1>6 DEF b
<1>7. CASE e % 4 = 1
  BY <1>1, <1>2, <1>3, <1>4, <1>5, <1>7 DEF b
<1>8. CASE e % 4 = 2
  BY <1>1, <1>2, <1>3, <1>4, <1>5, <1>8 DEF b
<1>9. CASE e % 4 = 3
  BY <1>1, <1>2, <1>3, <1>4, <1>5, <1>9 DEF b
<1> QED
  BY <1>1, <1>6, <1>7, <1>8, <1>9

\* turns are taken modulo four
LEMMA RotateSame ==
  ASSUME NEW d \in Int, NEW e \in Int, d % 4 = e % 4, NEW a \in Amplitude
  PROVE  Rotate(d, a) = Rotate(e, a)
<1>1. Rotate(d, a) = Rotate(d % 4, a) /\ Rotate(e, a) = Rotate(e % 4, a)
  BY RotateIs
<1> QED
  BY <1>1

\* a turn of a sum is the sum of the turns
LEMMA RotateIsLinear ==
  ASSUME NEW e \in Int, NEW a \in Amplitude, NEW b \in Amplitude
  PROVE  /\ Rotate(e, Plus(a, b)) = Plus(Rotate(e, a), Rotate(e, b))
         /\ Rotate(e, Times(a, b)) = Times(Rotate(e, a), b)
         /\ Rotate(e, a) = Zero <=> a = Zero
         /\ Neg(a) = Rotate(2, a)
<1>1. e % 4 \in 0 .. 3 /\ 2 % 4 = 2
  OBVIOUS
<1>2. /\ a[1] \in Int /\ a[2] \in Int /\ a = <<a[1], a[2]>>
      /\ b[1] \in Int /\ b[2] \in Int /\ b = <<b[1], b[2]>>
      /\ Plus(a, b) \in Amplitude /\ Times(a, b) \in Amplitude
  BY AmplitudeIs
<1>3. /\ Plus(a, b)[1] = a[1] + b[1] /\ Plus(a, b)[2] = a[2] + b[2]
      /\ Times(a, b)[1] = a[1] * b[1] - a[2] * b[2] /\ Times(a, b)[2] = a[1] * b[2] + a[2] * b[1]
      /\ Neg(a) = <<-a[1], -a[2]>>
  <2>1. Plus(a, b)[1] = a[1] + b[1] /\ Plus(a, b)[2] = a[2] + b[2]
    BY DEF Plus
  <2>2. Times(a, b)[1] = a[1] * b[1] - a[2] * b[2]
    BY DEF Times
  <2>3. Times(a, b)[2] = a[1] * b[2] + a[2] * b[1]
    BY DEF Times
  <2> QED
    BY <2>1, <2>2, <2>3 DEF Neg
<1>4. Neg(a) = Rotate(2, a)
  BY <1>1 DEF Rotate
<1>10. /\ (-a[1]) * b[1] = -(a[1] * b[1]) /\ (-a[1]) * b[2] = -(a[1] * b[2])
      /\ (-a[2]) * b[1] = -(a[2] * b[1]) /\ (-a[2]) * b[2] = -(a[2] * b[2])
      /\ a[1] * b[1] \in Int /\ a[1] * b[2] \in Int /\ a[2] * b[1] \in Int /\ a[2] * b[2] \in Int
  BY <1>2
<1>5. CASE e % 4 = 0
  <2>1. /\ Rotate(e, a) = a /\ Rotate(e, b) = b
        /\ Rotate(e, Plus(a, b)) = Plus(a, b) /\ Rotate(e, Times(a, b)) = Times(a, b)
    BY <1>2, <1>5, RotateIs
  <2> QED
    BY <2>1, <1>4
<1>6. CASE e % 4 = 1
  <2>1. /\ Rotate(e, a) = <<-a[2], a[1]>> /\ Rotate(e, b) = <<-b[2], b[1]>>
        /\ Rotate(e, Plus(a, b)) = <<-(a[2] + b[2]), a[1] + b[1]>>
        /\ Rotate(e, Times(a, b)) = <<-(a[1] * b[2] + a[2] * b[1]), a[1] * b[1] - a[2] * b[2]>>
    BY <1>2, <1>3, <1>6, RotateIs
  <2>2. Rotate(e, Plus(a, b)) = Plus(Rotate(e, a), Rotate(e, b))
    BY <1>2, <2>1 DEF Plus
  <2>3. Rotate(e, Times(a, b)) = Times(Rotate(e, a), b)
    BY <2>1, <1>2, <1>10 DEF Times
  <2>4. Rotate(e, a) = Zero <=> a = Zero
    BY <1>2, <2>1 DEF Zero
  <2> QED
    BY <2>2, <2>3, <2>4, <1>4
<1>7. CASE e % 4 = 2
  <2>1. /\ Rotate(e, a) = <<-a[1], -a[2]>> /\ Rotate(e, b) = <<-b[1], -b[2]>>
        /\ Rotate(e, Plus(a, b)) = <<-(a[1] + b[1]), -(a[2] + b[2])>>
        /\ Rotate(e, Times(a, b)) = <<-(a[1] * b[1] - a[2] * b[2]), -(a[1] * b[2] + a[2] * b[1])>>
    BY <1>2, <1>3, <1>7, RotateIs
  <2>2. Rotate(e, Plus(a, b)) = Plus(Rotate(e, a), Rotate(e, b))
    BY <1>2, <2>1 DEF Plus
  <2>3. Rotate(e, Times(a, b)) = Times(Rotate(e, a), b)
    BY <2>1, <1>2, <1>10 DEF Times
  <2>4. Rotate(e, a) = Zero <=> a = Zero
    BY <1>2, <2>1 DEF Zero
  <2> QED
    BY <2>2, <2>3, <2>4, <1>4
<1>8. CASE e % 4 = 3
  <2>1. /\ Rotate(e, a) = <<a[2], -a[1]>> /\ Rotate(e, b) = <<b[2], -b[1]>>
        /\ Rotate(e, Plus(a, b)) = <<a[2] + b[2], -(a[1] + b[1])>>
        /\ Rotate(e, Times(a, b)) = <<a[1] * b[2] + a[2] * b[1], -(a[1] * b[1] - a[2] * b[2])>>
    BY <1>2, <1>3, <1>8, RotateIs
  <2>2. Rotate(e, Plus(a, b)) = Plus(Rotate(e, a), Rotate(e, b))
    BY <1>2, <2>1 DEF Plus
  <2>3. Rotate(e, Times(a, b)) = Times(Rotate(e, a), b)
    BY <2>1, <1>2, <1>10 DEF Times
  <2>4. Rotate(e, a) = Zero <=> a = Zero
    <3>1. Rotate(e, a)[1] = a[2] /\ Rotate(e, a)[2] = -a[1] /\ Rotate(e, a) \in Amplitude
      BY <2>1, RotateIs
    <3>2. Rotate(e, a) = Zero <=> Rotate(e, a)[1] = Zero[1] /\ Rotate(e, a)[2] = Zero[2]
      BY <3>1, AmplitudeIs
    <3>3. a = Zero <=> a[1] = Zero[1] /\ a[2] = Zero[2]
      BY AmplitudeIs
    <3> QED
      BY <1>2, <3>1, <3>2, <3>3 DEF Zero
  <2> QED
    BY <2>2, <2>3, <2>4, <1>4
<1> QED
  BY <1>1, <1>4, <1>5, <1>6, <1>7, <1>8

-----------------------------------------------------------------------------
(* Vectors and the rows that stabilize them.                                  *)

Vectors(k) == [Basis(k) -> Amplitude]

\* the basis state that a row maps another to
LEMMA FlippedIs ==
  ASSUME NEW k \in Nat, NEW row, HasBits(row, k), NEW b \in Basis(k)
  PROVE  /\ DOMAIN b = Qubits(k) /\ \A q \in Qubits(k) : b[q] \in Bit
         /\ Flipped(row, b) \in Basis(k)
         /\ \A q \in Qubits(k) : Flipped(row, b)[q] = Xor(b[q], row.x[q])
<1>1. DOMAIN b = Qubits(k) /\ \A q \in Qubits(k) : b[q] \in Bit
  BY DEF Basis, Qubits, Bit
<1>2. \A q \in Qubits(k) : Xor(b[q], row.x[q]) \in Bit
  BY <1>1, XorOfBits DEF HasBits
<1>3. Flipped(row, b) = [q \in Qubits(k) |-> Xor(b[q], row.x[q])]
  BY <1>1 DEF Flipped, Xor
<1>4. Flipped(row, b) \in Basis(k)
  BY <1>2, <1>3 DEF Basis, Qubits, Bit
<1> QED
  BY <1>1, <1>3, <1>4

\* the qubits that decide about the power
Signs(row, b) == {q \in DOMAIN b : row.z[q] = 1 /\ b[q] = 1}
Ys(row, b)    == {q \in DOMAIN b : row.z[q] = 1 /\ row.x[q] = 1}

\* the power of i is a number, of finitely many qubits
LEMMA PowerIs ==
  ASSUME NEW k \in Nat, NEW row, row.r \in 0 .. 3, NEW b \in Basis(k)
  PROVE  /\ IsFiniteSet(Signs(row, b)) /\ IsFiniteSet(Ys(row, b))
         /\ Cardinality(Signs(row, b)) \in Nat /\ Cardinality(Ys(row, b)) \in Nat
         /\ Power(row, b) = row.r + 2 * Cardinality(Signs(row, b)) + Cardinality(Ys(row, b))
         /\ Power(row, b) \in Int
<1>1. IsFiniteSet(Qubits(k)) /\ DOMAIN b = Qubits(k)
  BY FS_Interval DEF Qubits, Basis
<1>2. Signs(row, b) \subseteq Qubits(k) /\ Ys(row, b) \subseteq Qubits(k)
  BY <1>1 DEF Signs, Ys
<1>3. IsFiniteSet(Signs(row, b)) /\ IsFiniteSet(Ys(row, b))
  BY <1>1, <1>2, FS_Subset
<1>4. Cardinality(Signs(row, b)) \in Nat /\ Cardinality(Ys(row, b)) \in Nat
  BY <1>3, FS_CardinalityType
<1>5. Power(row, b) = row.r + 2 * Cardinality(Signs(row, b)) + Cardinality(Ys(row, b))
  BY DEF Power, Signs, Ys
<1> QED
  BY <1>3, <1>4, <1>5

\* any map of amplitudes that is linear enough keeps what stabilizes a vector
LEMMA StabilizedIs ==
  ASSUME NEW k \in Nat, NEW phi \in Vectors(k), NEW row, StabilizedBy(phi, row), NEW b \in Basis(k)
  PROVE  phi[b] \in Amplitude /\ phi[Flipped(row, b)] = Rotate(Power(row, b), phi[b])
<1>1. DOMAIN phi = Basis(k) /\ phi[b] \in Amplitude
  BY DEF Vectors
<1> QED
  BY <1>1 DEF StabilizedBy

\* it is enough to look at the basis states of the vector
LEMMA StabilizedFrom ==
  ASSUME NEW k \in Nat, NEW phi \in Vectors(k), NEW row,
         \A b \in Basis(k) : phi[Flipped(row, b)] = Rotate(Power(row, b), phi[b])
  PROVE  StabilizedBy(phi, row)
<1>1. DOMAIN phi = Basis(k)
  BY DEF Vectors
<1> QED
  BY <1>1 DEF StabilizedBy

Halved(a) == <<(a[1] + a[2]) \div 2, (a[2] - a[1]) \div 2>>

\* division by 1 + i, where it can be done, loses nothing
LEMMA HalvedIs ==
  ASSUME NEW a \in Amplitude, (a[1] + a[2]) % 2 = 0
  PROVE  /\ Halved(a) \in Amplitude
         /\ Halved(a) = Zero <=> a = Zero
         /\ \A e \in Int : Halved(Rotate(e, a)) = Rotate(e, Halved(a))
<1> DEFINE h == Halved(a)
<1>1. a[1] \in Int /\ a[2] \in Int /\ a = <<a[1], a[2]>>
  BY AmplitudeIs
<1>2. PICK m \in Int : a[1] + a[2] = 2 * m
  <2>1. ASSUME NEW s \in Int, s % 2 = 0 PROVE s \div 2 \in Int /\ s = 2 * (s \div 2)
    BY <2>1
  <2>2. a[1] + a[2] \in Int
    BY <1>1
  <2> QED
    BY <2>1, <2>2
<1>3. (a[1] + a[2]) \div 2 = m
  BY <1>2
<1>4. (a[2] - a[1]) \div 2 = a[2] - m
  BY <1>1, <1>2
<1>5. h = <<m, a[2] - m>>
  BY <1>3, <1>4 DEF Halved
<1> HIDE DEF h
<1>6. h \in Amplitude
  BY <1>1, <1>5 DEF Amplitude
<1>7. h = Zero <=> a = Zero
  <2>1. h = Zero <=> m = 0 /\ a[2] - m = 0
    BY <1>5 DEF Zero
  <2>2. a = Zero <=> a[1] = 0 /\ a[2] = 0
    BY <1>1 DEF Zero
  <2>3. a[1] \in Int /\ a[2] \in Int
    BY <1>1
  <2>4. ASSUME NEW x \in Int, NEW y \in Int, x + y = 2 * m
        PROVE  (m = 0 /\ y - m = 0) <=> (x = 0 /\ y = 0)
    <3>1. m = 0 /\ y - m = 0 => x = 0 /\ y = 0
      BY <2>4
    <3>2. x = 0 /\ y = 0 => m = 0 /\ y - m = 0
      BY <2>4
    <3> QED
      BY <3>1, <3>2
  <2>5. (m = 0 /\ a[2] - m = 0) <=> (a[1] = 0 /\ a[2] = 0)
    BY <2>3, <2>4, <1>2
  <2> QED
    BY <2>1, <2>2, <2>5
<1>8. ASSUME NEW e \in Int
      PROVE  Halved(Rotate(e, a)) = Rotate(e, h)
  <2>1. e % 4 \in 0 .. 3
    OBVIOUS
  <2>2. /\ e % 4 = 0 => Rotate(e, a) = a /\ Rotate(e, h) = h
        /\ e % 4 = 1 => Rotate(e, a) = <<-a[2], a[1]>> /\ Rotate(e, h) = <<-h[2], h[1]>>
        /\ e % 4 = 2 => Rotate(e, a) = <<-a[1], -a[2]>> /\ Rotate(e, h) = <<-h[1], -h[2]>>
        /\ e % 4 = 3 => Rotate(e, a) = <<a[2], -a[1]>> /\ Rotate(e, h) = <<h[2], -h[1]>>
    BY <1>6, RotateIs
  <2>3. h[1] = m /\ h[2] = a[2] - m
    BY <1>5
  <2>4. CASE e % 4 = 0
    BY <2>2, <2>4 DEF h
  <2>5. CASE e % 4 = 1
    <3>1. Halved(Rotate(e, a)) = <<(-a[2] + a[1]) \div 2, (a[1] - (-a[2])) \div 2>>
      BY <2>2, <2>5 DEF Halved
    <3>2. -a[2] + a[1] = 2 * (m - a[2]) /\ a[1] - (-a[2]) = 2 * m
      BY <1>1, <1>2
    <3>3. (-a[2] + a[1]) \div 2 = m - a[2] /\ (a[1] - (-a[2])) \div 2 = m
      BY <1>1, <3>2
    <3>4. -(a[2] - m) = m - a[2]
      BY <1>1
    <3> QED
      BY <3>1, <3>3, <3>4, <2>2, <2>3, <2>5
  <2>6. CASE e % 4 = 2
    <3>1. Halved(Rotate(e, a)) = <<(-a[1] + -a[2]) \div 2, (-a[2] - (-a[1])) \div 2>>
      BY <2>2, <2>6 DEF Halved
    <3>2. -a[1] + -a[2] = 2 * (-m) /\ -a[2] - (-a[1]) = 2 * (m - a[2])
      BY <1>1, <1>2
    <3>3. (-a[1] + -a[2]) \div 2 = -m /\ (-a[2] - (-a[1])) \div 2 = m - a[2]
      BY <1>1, <3>2
    <3>4. -(a[2] - m) = m - a[2]
      BY <1>1
    <3> QED
      BY <3>1, <3>3, <3>4, <2>2, <2>3, <2>6
  <2>7. CASE e % 4 = 3
    <3>1. Halved(Rotate(e, a)) = <<(a[2] + -a[1]) \div 2, (-a[1] - a[2]) \div 2>>
      BY <2>2, <2>7 DEF Halved
    <3>2. a[2] + -a[1] = 2 * (a[2] - m) /\ -a[1] - a[2] = 2 * (-m)
      BY <1>1, <1>2
    <3>3. (a[2] + -a[1]) \div 2 = a[2] - m /\ (-a[1] - a[2]) \div 2 = -m
      BY <1>1, <3>2
    <3> QED
      BY <3>1, <3>3, <2>2, <2>3, <2>7
  <2> QED
    BY <2>1, <2>4, <2>5, <2>6, <2>7
<1> QED
  BY <1>6, <1>7, <1>8 DEF h

\* Reduce keeps what stabilizes a vector
LEMMA ReduceKeeps ==
  ASSUME NEW k \in Nat, NEW phi \in Vectors(k)
  PROVE  /\ Reduce(phi) \in Vectors(k) /\ Support(Reduce(phi)) = Support(phi)
         /\ \A row : HasBits(row, k) /\ row.r \in 0 .. 3 /\ StabilizedBy(phi, row)
                        => StabilizedBy(Reduce(phi), row)
<1> DEFINE new == Reduce(phi)
<1>1. DOMAIN phi = Basis(k) /\ \A b \in Basis(k) : phi[b] \in Amplitude
  BY DEF Vectors
<1>2. CASE \A b \in DOMAIN phi : (phi[b][1] + phi[b][2]) % 2 = 0
  <2>1. DOMAIN new = Basis(k) /\ \A b \in Basis(k) : new[b] = Halved(phi[b])
    BY <1>1, <1>2 DEF Reduce, Halved
  <2>2. \A b \in Basis(k) :
          /\ Halved(phi[b]) \in Amplitude /\ (Halved(phi[b]) = Zero <=> phi[b] = Zero)
          /\ \A e \in Int : Halved(Rotate(e, phi[b])) = Rotate(e, Halved(phi[b]))
    BY <1>1, <1>2, HalvedIs
  <2>3. new = [b \in Basis(k) |-> Halved(phi[b])]
    BY <1>1, <1>2 DEF Reduce, Halved
  <2>4. new \in Vectors(k)
    BY <2>2, <2>3 DEF Vectors
  <2> HIDE DEF new
  <2>5. Support(new) = Support(phi)
    BY <1>1, <2>1, <2>2 DEF Support
  <2>6. ASSUME NEW row, HasBits(row, k), row.r \in 0 .. 3, StabilizedBy(phi, row)
        PROVE  StabilizedBy(new, row)
    <3>1. ASSUME NEW b \in Basis(k) PROVE new[Flipped(row, b)] = Rotate(Power(row, b), new[b])
      <4>1. Flipped(row, b) \in Basis(k) /\ Power(row, b) \in Int
        BY <2>6, FlippedIs, PowerIs
      <4>2. phi[Flipped(row, b)] = Rotate(Power(row, b), phi[b])
        BY <2>6, StabilizedIs
      <4> QED
        BY <4>1, <4>2, <2>1, <2>2
    <3> QED
      BY <3>1, <2>4, StabilizedFrom
  <2> QED
    BY <2>4, <2>5, <2>6 DEF new
<1>3. CASE ~(\A b \in DOMAIN phi : (phi[b][1] + phi[b][2]) % 2 = 0)
  <2>1. new = phi
    BY <1>3 DEF Reduce
  <2> QED
    BY <2>1
<1> QED
  BY <1>2, <1>3

\* the product of an amplitude with its conjugate is not zero
LEMMA NormIsPositive ==
  ASSUME NEW a \in Amplitude, a # Zero
  PROVE  Times(a, Conjugate(a)) # Zero
<1>1. a[1] \in Int /\ a[2] \in Int /\ a = <<a[1], a[2]>>
  BY AmplitudeIs
<1>2. a[1] # 0 \/ a[2] # 0
  BY <1>1 DEF Zero
<1>3. Times(a, Conjugate(a))[1] = a[1] * a[1] - a[2] * (-a[2])
  BY DEF Times, Conjugate
<1>4. \A m \in Int : m * m >= 0 /\ (m # 0 => m * m > 0)
  OBVIOUS
<1>5. a[2] * (-a[2]) = -(a[2] * a[2])
  BY <1>1
<1>6. a[1] * a[1] + a[2] * a[2] > 0
  BY <1>1, <1>2, <1>4
<1>7. Times(a, Conjugate(a))[1] # 0
  BY <1>1, <1>3, <1>5, <1>6
<1> QED
  BY <1>7 DEF Zero

\* Normalise keeps what stabilizes a vector, and leaves something of it
LEMMA NormaliseKeeps ==
  ASSUME NEW k \in Nat, NEW phi \in Vectors(k)
  PROVE  /\ Normalise(phi) \in Vectors(k)
         /\ Support(phi) # {} => Support(Normalise(phi)) # {}
         /\ \A row : HasBits(row, k) /\ row.r \in 0 .. 3 /\ StabilizedBy(phi, row)
                        => StabilizedBy(Normalise(phi), row)
<1> DEFINE short == Reduce(Reduce(phi))
           one   == CHOOSE b \in Support(short) : TRUE
           c     == Conjugate(short[one])
           new   == Normalise(phi)
<1>1. /\ short \in Vectors(k) /\ Support(short) = Support(phi)
      /\ \A row : HasBits(row, k) /\ row.r \in 0 .. 3 /\ StabilizedBy(phi, row)
                     => StabilizedBy(short, row)
  BY ReduceKeeps
<1>2. DOMAIN phi = Basis(k) /\ DOMAIN short = Basis(k) /\ \A b \in Basis(k) : short[b] \in Amplitude
  BY <1>1 DEF Vectors
<1>3. CASE Support(short) = {}
  <2>1. new = phi
    BY <1>3 DEF Normalise
  <2> QED
    BY <2>1, <1>1, <1>3
<1>4. CASE Support(short) # {}
  <2>1. new = [b \in Basis(k) |-> Times(short[b], c)]
    BY <1>2, <1>4 DEF Normalise
  <2> HIDE DEF short, new
  <2>2. one \in Support(short)
    BY <1>4
  <2> HIDE DEF one
  <2>3. one \in Basis(k) /\ short[one] # Zero /\ short[one] \in Amplitude
    BY <2>2, <1>2 DEF Support
  <2>4. c \in Amplitude
    BY <2>3, AmplitudeIs
  <2>5. Times(short[one], c) # Zero
    BY <2>3, NormIsPositive
  <2> HIDE DEF c
  <2>6. \A b \in Basis(k) : Times(short[b], c) \in Amplitude
    BY <1>2, <2>4, AmplitudeIs
  <2>7. new \in Vectors(k)
    BY <2>1, <2>6 DEF Vectors
  <2>8. Support(new) # {}
    <3>1. one \in DOMAIN new /\ new[one] # Zero
      BY <2>1, <2>3, <2>5
    <3> QED
      BY <3>1 DEF Support
  <2>9. ASSUME NEW row, HasBits(row, k), row.r \in 0 .. 3, StabilizedBy(phi, row)
        PROVE  StabilizedBy(new, row)
    <3>1. ASSUME NEW b \in Basis(k) PROVE new[Flipped(row, b)] = Rotate(Power(row, b), new[b])
      <4>1. Flipped(row, b) \in Basis(k) /\ Power(row, b) \in Int
        BY <2>9, FlippedIs, PowerIs
      <4>2. short[Flipped(row, b)] = Rotate(Power(row, b), short[b])
        BY <2>9, <1>1, StabilizedIs
      <4>3. Rotate(Power(row, b), Times(short[b], c)) = Times(Rotate(Power(row, b), short[b]), c)
        BY <4>1, <1>2, <2>4, RotateIsLinear
      <4> QED
        BY <4>1, <4>2, <4>3, <2>1
    <3> QED
      BY <3>1, <2>7, StabilizedFrom
  <2> QED
    BY <2>7, <2>8, <2>9 DEF new
<1> QED
  BY <1>3, <1>4

-----------------------------------------------------------------------------
(* The gates: what stabilizes a vector is turned as the vector is.            *)

IsRow(row, k) == HasBits(row, k) /\ row.r \in 0 .. 3
And(a, b)     == IF a = 1 /\ b = 1 THEN 1 ELSE 0

\* the part of the power that the qubits outside S make
Rest(row, b, S) == 2 * Cardinality(Signs(row, b) \ S) + Cardinality(Ys(row, b) \ S)

\* a set without an element
LEMMA Without ==
  ASSUME NEW S, IsFiniteSet(S), NEW q
  PROVE  /\ IsFiniteSet(S \ {q}) /\ Cardinality(S \ {q}) \in Nat /\ Cardinality(S) \in Nat
         /\ Cardinality(S) = Cardinality(S \ {q}) + IF q \in S THEN 1 ELSE 0
<1>1. IsFiniteSet(S \ {q})
  BY FS_Subset
<1>2. Cardinality(S \ {q}) \in Nat /\ Cardinality(S) \in Nat
  BY <1>1, FS_CardinalityType
<1>3. CASE q \in S
  BY <1>1, <1>2, <1>3, FS_RemoveElement
<1>4. CASE q \notin S
  <2>1. S \ {q} = S
    BY <1>4
  <2> QED
    BY <2>1, <1>1, <1>2, <1>4
<1> QED
  BY <1>3, <1>4

\* the power, with one qubit taken apart
LEMMA PowerAt ==
  ASSUME NEW k \in Nat, NEW row, IsRow(row, k), NEW b \in Basis(k), NEW q \in Qubits(k)
  PROVE  /\ Rest(row, b, {q}) \in Nat /\ Power(row, b) \in Int
         /\ Power(row, b) = row.r + 2 * And(row.z[q], b[q]) + And(row.z[q], row.x[q]) + Rest(row, b, {q})
<1> DEFINE S == Signs(row, b)
           T == Ys(row, b)
<1>1. /\ IsFiniteSet(S) /\ IsFiniteSet(T)
      /\ Power(row, b) = row.r + 2 * Cardinality(S) + Cardinality(T)
  BY PowerIs DEF IsRow
<1>2. q \in DOMAIN b
  BY DEF Basis, Qubits
<1>3. (q \in S <=> row.z[q] = 1 /\ b[q] = 1) /\ (q \in T <=> row.z[q] = 1 /\ row.x[q] = 1)
  BY <1>2 DEF Signs, Ys
<1>4. Rest(row, b, {q}) = 2 * Cardinality(S \ {q}) + Cardinality(T \ {q})
  BY DEF Rest
<1> HIDE DEF S, T
<1>5. /\ Cardinality(S \ {q}) \in Nat /\ Cardinality(T \ {q}) \in Nat
      /\ Cardinality(S) = Cardinality(S \ {q}) + And(row.z[q], b[q])
      /\ Cardinality(T) = Cardinality(T \ {q}) + And(row.z[q], row.x[q])
  BY <1>1, <1>3, Without DEF And
<1>6. And(row.z[q], b[q]) \in Nat /\ And(row.z[q], row.x[q]) \in Nat /\ row.r \in Nat
  BY DEF And, IsRow
<1>7. Power(row, b) \in Int
  BY PowerIs DEF IsRow
<1> QED
  BY <1>1, <1>4, <1>5, <1>6, <1>7

\* the power, with two qubits taken apart
LEMMA PowerAtTwo ==
  ASSUME NEW k \in Nat, NEW row, IsRow(row, k), NEW b \in Basis(k),
         NEW c \in Qubits(k), NEW t \in Qubits(k), c # t
  PROVE  /\ Rest(row, b, {c, t}) \in Nat /\ Power(row, b) \in Int
         /\ Power(row, b) = row.r + 2 * And(row.z[c], b[c]) + And(row.z[c], row.x[c])
                                  + 2 * And(row.z[t], b[t]) + And(row.z[t], row.x[t])
                                  + Rest(row, b, {c, t})
<1> DEFINE S == Signs(row, b)
           T == Ys(row, b)
<1>1. /\ IsFiniteSet(S) /\ IsFiniteSet(T)
      /\ Power(row, b) = row.r + 2 * Cardinality(S) + Cardinality(T)
  BY PowerIs DEF IsRow
<1>2. c \in DOMAIN b /\ t \in DOMAIN b
  BY DEF Basis, Qubits
<1>3. /\ (c \in S <=> row.z[c] = 1 /\ b[c] = 1) /\ (c \in T <=> row.z[c] = 1 /\ row.x[c] = 1)
      /\ (t \in S <=> row.z[t] = 1 /\ b[t] = 1) /\ (t \in T <=> row.z[t] = 1 /\ row.x[t] = 1)
  BY <1>2 DEF Signs, Ys
<1>4. Rest(row, b, {c, t}) = 2 * Cardinality(S \ {c, t}) + Cardinality(T \ {c, t})
  BY DEF Rest
<1> HIDE DEF S, T
<1>5. /\ (S \ {c}) \ {t} = S \ {c, t} /\ (T \ {c}) \ {t} = T \ {c, t}
      /\ (t \in S \ {c} <=> t \in S) /\ (t \in T \ {c} <=> t \in T)
  OBVIOUS
<1>6. /\ IsFiniteSet(S \ {c}) /\ IsFiniteSet(T \ {c})
      /\ Cardinality(S) = Cardinality(S \ {c}) + And(row.z[c], b[c])
      /\ Cardinality(T) = Cardinality(T \ {c}) + And(row.z[c], row.x[c])
  BY <1>1, <1>3, Without DEF And
<1>7. /\ Cardinality(S \ {c, t}) \in Nat /\ Cardinality(T \ {c, t}) \in Nat
      /\ Cardinality(S \ {c}) = Cardinality(S \ {c, t}) + And(row.z[t], b[t])
      /\ Cardinality(T \ {c}) = Cardinality(T \ {c, t}) + And(row.z[t], row.x[t])
  <2>1. /\ Cardinality((S \ {c}) \ {t}) \in Nat
        /\ Cardinality(S \ {c}) = Cardinality((S \ {c}) \ {t}) + IF t \in S \ {c} THEN 1 ELSE 0
    BY <1>6, Without
  <2>2. /\ Cardinality((T \ {c}) \ {t}) \in Nat
        /\ Cardinality(T \ {c}) = Cardinality((T \ {c}) \ {t}) + IF t \in T \ {c} THEN 1 ELSE 0
    BY <1>6, Without
  <2> QED
    BY <2>1, <2>2, <1>3, <1>5 DEF And
<1>8. /\ And(row.z[c], b[c]) \in Nat /\ And(row.z[c], row.x[c]) \in Nat
      /\ And(row.z[t], b[t]) \in Nat /\ And(row.z[t], row.x[t]) \in Nat /\ row.r \in Nat
  BY DEF And, IsRow
<1>9. Power(row, b) \in Int
  BY PowerIs DEF IsRow
<1> QED
  BY <1>1, <1>4, <1>6, <1>7, <1>8, <1>9

\* the other qubits make the same part for rows and states that agree there
LEMMA RestIsSame ==
  ASSUME NEW k \in Nat, NEW row, NEW row2, NEW b \in Basis(k), NEW b2 \in Basis(k), NEW S,
         \A p \in Qubits(k) \ S : row.x[p] = row2.x[p] /\ row.z[p] = row2.z[p] /\ b[p] = b2[p]
  PROVE  Rest(row, b, S) = Rest(row2, b2, S)
<1>1. DOMAIN b = Qubits(k) /\ DOMAIN b2 = Qubits(k)
  BY DEF Basis, Qubits
<1>2. Signs(row, b) \ S = Signs(row2, b2) \ S /\ Ys(row, b) \ S = Ys(row2, b2) \ S
  BY <1>1 DEF Signs, Ys
<1> QED
  BY <1>2 DEF Rest

\* a basis state with one qubit changed
LEMMA PutIs ==
  ASSUME NEW k \in Nat, NEW b \in Basis(k), NEW q \in Qubits(k), NEW v \in Bit
  PROVE  /\ Put(b, q, v) \in Basis(k)
         /\ \A p \in Qubits(k) : Put(b, q, v)[p] = IF p = q THEN v ELSE b[p]
         /\ \A p \in Qubits(k) : b[p] \in Bit
  BY DEF Put, Basis, Qubits, Bit

\* basis states that agree on all qubits are equal
LEMMA SameState ==
  ASSUME NEW k \in Nat, NEW b \in Basis(k), NEW c \in Basis(k),
         \A p \in Qubits(k) : b[p] = c[p]
  PROVE  b = c
  BY DEF Basis, Qubits

\* powers that differ by a whole turn
LEMMA SameTurn ==
  ASSUME NEW d \in Int, NEW e \in Int,
         d = e \/ d = e + 4 \/ d = e - 4 \/ d = e + 8 \/ d = e - 8
  PROVE  d % 4 = e % 4
  OBVIOUS

\* the other sign is half a turn
LEMMA FlipIs ==
  ASSUME NEW r \in 0 .. 3
  PROVE  Flip(r) \in 0 .. 3 /\ (Flip(r) = r + 2 \/ Flip(r) = r - 2)
  BY DEF Flip

\* the vectors that the gates make, before they are scaled
OfH(phi, q) ==
    [b \in DOMAIN phi |->
        Plus(phi[Put(b, q, 0)],
             IF b[q] = 0 THEN phi[Put(b, q, 1)] ELSE Neg(phi[Put(b, q, 1)]))]
OfS(phi, q) == [b \in DOMAIN phi |-> Rotate(b[q], phi[b])]
OfX(phi, q) == [b \in DOMAIN phi |-> phi[Put(b, q, 1 - b[q])]]
OfZ(phi, q) == [b \in DOMAIN phi |-> Rotate(2 * b[q], phi[b])]
OfCnot(phi, c, t) == [b \in DOMAIN phi |-> phi[Put(b, t, (b[t] + b[c]) % 2)]]

\* phi stays a vector and something of it is left, whichever rows stabilize it
IsState(phi, k) == phi \in Vectors(k) /\ Support(phi) # {}

\* scaling a vector keeps it and what stabilizes it
LEMMA NormaliseStabilizes ==
  ASSUME NEW k \in Nat, NEW phi, IsState(phi, k)
  PROVE  /\ IsState(Normalise(phi), k)
         /\ \A row : IsRow(row, k) /\ StabilizedBy(phi, row) => StabilizedBy(Normalise(phi), row)
<1>1. phi \in Vectors(k) /\ Support(phi) # {}
  BY DEF IsState
<1>2. /\ Normalise(phi) \in Vectors(k)
      /\ Support(phi) # {} => Support(Normalise(phi)) # {}
      /\ \A row : HasBits(row, k) /\ row.r \in 0 .. 3 /\ StabilizedBy(phi, row)
                        => StabilizedBy(Normalise(phi), row)
  BY <1>1, NormaliseKeeps
<1> QED
  BY <1>1, <1>2 DEF IsState, IsRow

\* the phase gate
LEMMA PhaseStabilizes ==
  ASSUME NEW k \in Nat, NEW phi, IsState(phi, k), NEW q \in Qubits(k)
  PROVE  /\ IsState(ApplyS(phi, q), k)
         /\ \A row : IsRow(row, k) => IsRow(PhaseRow(row, q), k)
         /\ \A row : IsRow(row, k) /\ StabilizedBy(phi, row)
                        => StabilizedBy(ApplyS(phi, q), PhaseRow(row, q))
<1> DEFINE new == OfS(phi, q)
<1>1. /\ phi \in Vectors(k) /\ DOMAIN phi = Basis(k) /\ Support(phi) # {}
      /\ \A b \in Basis(k) : phi[b] \in Amplitude /\ b[q] \in Bit /\ b[q] \in Int
  BY DEF IsState, Vectors, Basis, Qubits, Bit
<1>2. new = [b \in Basis(k) |-> Rotate(b[q], phi[b])]
  BY <1>1 DEF OfS
<1>3. \A b \in Basis(k) : Rotate(b[q], phi[b]) \in Amplitude /\ (Rotate(b[q], phi[b]) = Zero <=> phi[b] = Zero)
  BY <1>1, RotateIs, RotateIsLinear
<1>4. new \in Vectors(k) /\ DOMAIN new = Basis(k) /\ \A b \in Basis(k) : new[b] = Rotate(b[q], phi[b])
  BY <1>2, <1>3 DEF Vectors
<1> HIDE DEF new
<1>5. Support(new) = Support(phi)
  BY <1>1, <1>3, <1>4 DEF Support
<1>6. IsState(new, k)
  BY <1>1, <1>4, <1>5 DEF IsState
<1>7. ASSUME NEW row, IsRow(row, k)
      PROVE  /\ IsRow(PhaseRow(row, q), k)
             /\ row.x[q] = 1 /\ row.z[q] = 1 => PhaseRow(row, q).r = Flip(row.r)
             /\ ~(row.x[q] = 1 /\ row.z[q] = 1) => PhaseRow(row, q).r = row.r
  <2>1. HasBits(PhaseRow(row, q), k)
    BY <1>7, PhaseRowIs DEF IsRow
  <2>2. Flip(row.r) \in 0 .. 3
    BY <1>7, FlipIs DEF IsRow
  <2> QED
    BY <1>7, <2>1, <2>2 DEF IsRow, PhaseRow
<1>8. ASSUME NEW row, IsRow(row, k), StabilizedBy(phi, row)
      PROVE  StabilizedBy(new, PhaseRow(row, q))
  <2> DEFINE row2 == PhaseRow(row, q)
  <2>1. /\ HasBits(row, k) /\ HasBits(row2, k) /\ IsRow(row2, k) /\ row.r \in 0 .. 3 /\ row2.r \in 0 .. 3
        /\ row.x[q] \in Bit /\ row.z[q] \in Bit
    BY <1>7, <1>8 DEF IsRow, HasBits
  <2>2. \A p \in Qubits(k) : /\ row2.x[p] = row.x[p]
                             /\ row2.z[p] = IF p = q THEN Xor(row.z[p], row.x[p]) ELSE row.z[p]
    BY <2>1, PhaseRowIs
  <2>3. /\ row.x[q] = 1 /\ row.z[q] = 1 => row2.r = Flip(row.r)
        /\ ~(row.x[q] = 1 /\ row.z[q] = 1) => row2.r = row.r
    BY <1>7, <1>8
  <2> HIDE DEF row2
  <2>4. ASSUME NEW b \in Basis(k)
        PROVE  new[Flipped(row2, b)] = Rotate(Power(row2, b), new[b])
    <3> DEFINE f == Flipped(row, b)
    <3>1. /\ f \in Basis(k) /\ Flipped(row2, b) \in Basis(k)
          /\ \A p \in Qubits(k) : f[p] = Xor(b[p], row.x[p]) /\ Flipped(row2, b)[p] = Xor(b[p], row2.x[p])
      BY <2>1, FlippedIs
    <3>2. Flipped(row2, b) = f
      BY <3>1, <2>2, SameState
    <3>3. phi[f] = Rotate(Power(row, b), phi[b]) /\ phi[b] \in Amplitude
      BY <1>1, <1>8, StabilizedIs
    <3>4. f[q] = Xor(b[q], row.x[q]) /\ f[q] \in Bit /\ b[q] \in Bit
      BY <3>1, <1>1
    <3> HIDE DEF f
    <3>5. Rest(row2, b, {q}) = Rest(row, b, {q})
      BY <2>2, RestIsSame
    <3>6. /\ Rest(row, b, {q}) \in Nat /\ Power(row, b) \in Int /\ Power(row2, b) \in Int
          /\ Power(row, b) = row.r + 2 * And(row.z[q], b[q]) + And(row.z[q], row.x[q]) + Rest(row, b, {q})
          /\ Power(row2, b) = row2.r + 2 * And(row2.z[q], b[q]) + And(row2.z[q], row2.x[q]) + Rest(row, b, {q})
      BY <1>8, <2>1, <3>5, PowerAt
    <3>7. Power(row, b) \in Int /\ Power(row2, b) \in Int /\ f[q] \in Int /\ b[q] \in Int
      BY <3>4, <3>6 DEF Bit
    <3>8. (f[q] + Power(row, b)) % 4 = (Power(row2, b) + b[q]) % 4
      <4> DEFINE d == f[q] + Power(row, b)
                 e == Power(row2, b) + b[q]
      <4>1. row2.x[q] = row.x[q] /\ row2.z[q] = Xor(row.z[q], row.x[q])
        BY <2>2
      <4>2. Flip(row.r) = row.r + 2 \/ Flip(row.r) = row.r - 2
        BY <2>1, FlipIs
      <4>3. d = e \/ d = e + 4 \/ d = e - 4 \/ d = e + 8 \/ d = e - 8
        BY <2>1, <2>3, <3>4, <3>6, <4>1, <4>2 DEF And, Xor, Bit
      <4>4. d \in Int /\ e \in Int
        BY <3>7
      <4> HIDE DEF d, e
      <4>5. d % 4 = e % 4
        BY <4>3, <4>4, SameTurn
      <4> QED
        BY <4>5 DEF d, e
    <3>9. new[f] = Rotate(f[q] + Power(row, b), phi[b])
      <4>1. new[f] = Rotate(f[q], Rotate(Power(row, b), phi[b]))
        BY <3>1, <3>3, <1>4 DEF f
      <4> QED
        BY <4>1, <3>3, <3>7, RotateTwice
    <3>10. Rotate(Power(row2, b), new[b]) = Rotate(Power(row2, b) + b[q], phi[b])
      <4>1. new[b] = Rotate(b[q], phi[b])
        BY <1>4
      <4>2. Rotate(Power(row2, b), Rotate(b[q], phi[b])) = Rotate(Power(row2, b) + b[q], phi[b])
        BY <3>3, <3>7, RotateTwice
      <4> QED
        BY <4>1, <4>2
    <3>11. Rotate(f[q] + Power(row, b), phi[b]) = Rotate(Power(row2, b) + b[q], phi[b])
      BY <3>3, <3>7, <3>8, RotateSame
    <3> QED
      BY <3>2, <3>9, <3>10, <3>11
  <2>5. StabilizedBy(new, row2)
    BY <1>4, <2>4, StabilizedFrom
  <2> QED
    BY <2>5 DEF row2
<1>9. ApplyS(phi, q) = Normalise(new)
  BY DEF ApplyS, OfS, new
<1> QED
  BY <1>6, <1>7, <1>8, <1>9, NormaliseStabilizes

\* row2 is row, with the other sign if "turned"
IsTurned(row, row2, k, turned) ==
    /\ IsRow(row, k) /\ IsRow(row2, k)
    /\ \A p \in Qubits(k) : row2.x[p] = row.x[p] /\ row2.z[p] = row.z[p]
    /\ row2.r = IF turned THEN Flip(row.r) ELSE row.r

PauliXRow(row, q) == HadamardRow(PhaseRow(PhaseRow(HadamardRow(row, q), q), q), q)
PauliZRow(row, q) == PhaseRow(PhaseRow(row, q), q)
PauliYRow(row, q) == PhaseRow(PauliZRow(PauliXRow(PhaseRow(row, q), q), q), q)

\* a gate leaves a row with a phase
LEMMA HadamardRowPhase ==
  ASSUME NEW k \in Nat, NEW row, IsRow(row, k), NEW q \in Qubits(k)
  PROVE  /\ IsRow(HadamardRow(row, q), k)
         /\ row.x[q] \in Bit /\ row.z[q] \in Bit
         /\ HadamardRow(row, q).r = IF row.x[q] = 1 /\ row.z[q] = 1 THEN Flip(row.r) ELSE row.r
<1>1. HasBits(HadamardRow(row, q), k)
  BY HadamardRowIs DEF IsRow
<1>2. Flip(row.r) \in 0 .. 3
  BY FlipIs DEF IsRow
<1>3. HadamardRow(row, q).r = IF row.x[q] = 1 /\ row.z[q] = 1 THEN Flip(row.r) ELSE row.r
  BY DEF HadamardRow
<1>4. row.x[q] \in Bit /\ row.z[q] \in Bit
  BY DEF IsRow, HasBits
<1> QED
  BY <1>1, <1>2, <1>3, <1>4 DEF IsRow

\* the phase gate
LEMMA PhaseRowPhase ==
  ASSUME NEW k \in Nat, NEW row, IsRow(row, k), NEW q \in Qubits(k)
  PROVE  /\ IsRow(PhaseRow(row, q), k)
         /\ row.x[q] \in Bit /\ row.z[q] \in Bit
         /\ PhaseRow(row, q).r = IF row.x[q] = 1 /\ row.z[q] = 1 THEN Flip(row.r) ELSE row.r
<1>1. HasBits(PhaseRow(row, q), k)
  BY PhaseRowIs DEF IsRow
<1>2. Flip(row.r) \in 0 .. 3
  BY FlipIs DEF IsRow
<1>3. PhaseRow(row, q).r = IF row.x[q] = 1 /\ row.z[q] = 1 THEN Flip(row.r) ELSE row.r
  BY DEF PhaseRow
<1>4. row.x[q] \in Bit /\ row.z[q] \in Bit
  BY DEF IsRow, HasBits
<1> QED
  BY <1>1, <1>2, <1>3, <1>4 DEF IsRow

\* the controlled not
LEMMA CnotRowPhase ==
  ASSUME NEW k \in Nat, NEW row, IsRow(row, k), NEW c \in Qubits(k), NEW t \in Qubits(k), c # t
  PROVE  /\ IsRow(CnotRow(row, c, t), k)
         /\ row.x[c] \in Bit /\ row.z[c] \in Bit /\ row.x[t] \in Bit /\ row.z[t] \in Bit
         /\ CnotRow(row, c, t).r =
               IF row.x[c] = 1 /\ row.z[t] = 1 /\ Xor(row.x[t], row.x[c]) = Xor(row.z[c], row.z[t])
               THEN Flip(row.r) ELSE row.r
<1>1. HasBits(CnotRow(row, c, t), k)
  BY CnotRowIs DEF IsRow
<1>2. Flip(row.r) \in 0 .. 3
  BY FlipIs DEF IsRow
<1>3. row.x \in [Qubits(k) -> Bit] /\ row.z \in [Qubits(k) -> Bit]
  BY DEF IsRow, HasBits
<1>4. row.x[c] \in Bit /\ row.z[c] \in Bit /\ row.x[t] \in Bit /\ row.z[t] \in Bit
  BY <1>3
<1>5. CnotRow(row, c, t).r =
               IF row.x[c] = 1 /\ row.z[t] = 1 /\ Xor(row.x[t], row.x[c]) = Xor(row.z[c], row.z[t])
               THEN Flip(row.r) ELSE row.r
  BY <1>3 DEF CnotRow
<1> QED
  BY <1>1, <1>2, <1>4, <1>5 DEF IsRow

\* two signs are none
LEMMA FlipTwice ==
  ASSUME NEW r \in 0 .. 3
  PROVE  Flip(Flip(r)) = r
  BY DEF Flip

\* two phase gates turn the sign of a row that has an X on the qubit
LEMMA PauliZRowIs ==
  ASSUME NEW k \in Nat, NEW row, IsRow(row, k), NEW q \in Qubits(k)
  PROVE  IsTurned(row, PauliZRow(row, q), k, row.x[q] = 1)
<1> DEFINE s == PhaseRow(row, q)
           t == PhaseRow(s, q)
<1>1. /\ IsRow(s, k) /\ HasBits(row, k) /\ HasBits(s, k)
      /\ row.x[q] \in Bit /\ row.z[q] \in Bit
      /\ s.r = IF row.x[q] = 1 /\ row.z[q] = 1 THEN Flip(row.r) ELSE row.r
  BY PhaseRowPhase DEF IsRow
<1>2. \A p \in Qubits(k) : /\ s.x[p] = row.x[p]
                           /\ s.z[p] = IF p = q THEN Xor(row.z[p], row.x[p]) ELSE row.z[p]
  BY <1>1, PhaseRowIs
<1> HIDE DEF s
<1>3. /\ IsRow(t, k)
      /\ t.r = IF s.x[q] = 1 /\ s.z[q] = 1 THEN Flip(s.r) ELSE s.r
  BY <1>1, PhaseRowPhase
<1>4. \A p \in Qubits(k) : /\ t.x[p] = s.x[p]
                           /\ t.z[p] = IF p = q THEN Xor(s.z[p], s.x[p]) ELSE s.z[p]
  BY <1>1, PhaseRowIs
<1> HIDE DEF t
<1>5. \A p \in Qubits(k) : t.x[p] = row.x[p] /\ t.z[p] = row.z[p]
  BY <1>1, <1>2, <1>4 DEF Xor, Bit
<1>6. t.r = IF row.x[q] = 1 THEN Flip(row.r) ELSE row.r
  BY <1>1, <1>2, <1>3 DEF Xor, Bit
<1>7. t = PauliZRow(row, q)
  BY DEF t, s, PauliZRow
<1> QED
  BY <1>3, <1>5, <1>6, <1>7 DEF IsTurned

\* the sequence for X turns the sign of a row that has a Z on the qubit
LEMMA PauliXRowIs ==
  ASSUME NEW k \in Nat, NEW row, IsRow(row, k), NEW q \in Qubits(k)
  PROVE  IsTurned(row, PauliXRow(row, q), k, row.z[q] = 1)
<1> DEFINE s == HadamardRow(row, q)
           t == PauliZRow(s, q)
           u == HadamardRow(t, q)
<1>1. /\ IsRow(s, k) /\ HasBits(row, k) /\ row.r \in 0 .. 3
      /\ row.x[q] \in Bit /\ row.z[q] \in Bit
      /\ s.r = IF row.x[q] = 1 /\ row.z[q] = 1 THEN Flip(row.r) ELSE row.r
  BY HadamardRowPhase DEF IsRow
<1>2. \A p \in Qubits(k) : /\ s.x[p] = IF p = q THEN row.z[p] ELSE row.x[p]
                           /\ s.z[p] = IF p = q THEN row.x[p] ELSE row.z[p]
  BY <1>1, HadamardRowIs
<1> HIDE DEF s
<1>3. IsTurned(s, t, k, s.x[q] = 1)
  BY <1>1, PauliZRowIs
<1>4. /\ IsRow(t, k) /\ HasBits(t, k)
      /\ \A p \in Qubits(k) : t.x[p] = s.x[p] /\ t.z[p] = s.z[p]
      /\ t.r = IF s.x[q] = 1 THEN Flip(s.r) ELSE s.r
  BY <1>3 DEF IsTurned, IsRow
<1> HIDE DEF t
<1>5. /\ IsRow(u, k)
      /\ u.r = IF t.x[q] = 1 /\ t.z[q] = 1 THEN Flip(t.r) ELSE t.r
  BY <1>4, HadamardRowPhase
<1>6. \A p \in Qubits(k) : /\ u.x[p] = IF p = q THEN t.z[p] ELSE t.x[p]
                           /\ u.z[p] = IF p = q THEN t.x[p] ELSE t.z[p]
  BY <1>4, HadamardRowIs
<1> HIDE DEF u
<1>7. \A p \in Qubits(k) : u.x[p] = row.x[p] /\ u.z[p] = row.z[p]
  BY <1>2, <1>4, <1>6
<1>8. Flip(Flip(row.r)) = row.r
  BY <1>1, FlipTwice
<1>9. u.r = IF row.z[q] = 1 THEN Flip(row.r) ELSE row.r
  BY <1>1, <1>2, <1>4, <1>5, <1>8 DEF Bit
<1>10. u = PauliXRow(row, q)
  BY DEF u, t, s, PauliZRow, PauliXRow
<1> QED
  BY <1>5, <1>7, <1>9, <1>10 DEF IsTurned

\* the sequence for Y turns the sign of a row that has one of the two
LEMMA PauliYRowIs ==
  ASSUME NEW k \in Nat, NEW row, IsRow(row, k), NEW q \in Qubits(k)
  PROVE  IsTurned(row, PauliYRow(row, q), k, row.x[q] # row.z[q])
<1> DEFINE s == PhaseRow(row, q)
           t == PauliXRow(s, q)
           u == PauliZRow(t, q)
           v == PhaseRow(u, q)
<1>1. /\ IsRow(s, k) /\ HasBits(row, k) /\ row.r \in 0 .. 3
      /\ row.x[q] \in Bit /\ row.z[q] \in Bit
      /\ s.r = IF row.x[q] = 1 /\ row.z[q] = 1 THEN Flip(row.r) ELSE row.r
  BY PhaseRowPhase DEF IsRow
<1>2. \A p \in Qubits(k) : /\ s.x[p] = row.x[p]
                           /\ s.z[p] = IF p = q THEN Xor(row.z[p], row.x[p]) ELSE row.z[p]
  BY <1>1, PhaseRowIs
<1> HIDE DEF s
<1>3. IsTurned(s, t, k, s.z[q] = 1)
  BY <1>1, PauliXRowIs
<1>4. /\ IsRow(t, k)
      /\ \A p \in Qubits(k) : t.x[p] = s.x[p] /\ t.z[p] = s.z[p]
      /\ t.r = IF s.z[q] = 1 THEN Flip(s.r) ELSE s.r
  BY <1>3 DEF IsTurned
<1> HIDE DEF t
<1>5. IsTurned(t, u, k, t.x[q] = 1)
  BY <1>4, PauliZRowIs
<1>6. /\ IsRow(u, k) /\ HasBits(u, k)
      /\ \A p \in Qubits(k) : u.x[p] = t.x[p] /\ u.z[p] = t.z[p]
      /\ u.r = IF t.x[q] = 1 THEN Flip(t.r) ELSE t.r
  BY <1>5 DEF IsTurned, IsRow
<1> HIDE DEF u
<1>7. /\ IsRow(v, k)
      /\ v.r = IF u.x[q] = 1 /\ u.z[q] = 1 THEN Flip(u.r) ELSE u.r
  BY <1>6, PhaseRowPhase
<1>8. \A p \in Qubits(k) : /\ v.x[p] = u.x[p]
                           /\ v.z[p] = IF p = q THEN Xor(u.z[p], u.x[p]) ELSE u.z[p]
  BY <1>6, PhaseRowIs
<1> HIDE DEF v
<1>9. \A p \in Qubits(k) : v.x[p] = row.x[p] /\ v.z[p] = row.z[p]
  BY <1>1, <1>2, <1>4, <1>6, <1>8 DEF Xor, Bit
<1>10. Flip(Flip(row.r)) = row.r
  BY <1>1, FlipTwice
<1>11. v.r = IF row.x[q] # row.z[q] THEN Flip(row.r) ELSE row.r
  <2>1. s.x[q] = row.x[q] /\ s.z[q] = Xor(row.z[q], row.x[q])
        /\ t.x[q] = s.x[q] /\ t.z[q] = s.z[q] /\ u.x[q] = s.x[q] /\ u.z[q] = s.z[q]
    BY <1>2, <1>4, <1>6
  <2>2. s.z[q] = 1 <=> ~(row.z[q] = 1 <=> row.x[q] = 1)
    BY <2>1, <1>1, XorOfBits
  <2>3. CASE row.x[q] = 0 /\ row.z[q] = 0
    BY <2>1, <2>2, <2>3, <1>1, <1>4, <1>6, <1>7
  <2>4. CASE row.x[q] = 0 /\ row.z[q] = 1
    BY <2>1, <2>2, <2>4, <1>1, <1>4, <1>6, <1>7
  <2>5. CASE row.x[q] = 1 /\ row.z[q] = 0
    BY <2>1, <2>2, <2>5, <1>1, <1>4, <1>6, <1>7, <1>10
  <2>6. CASE row.x[q] = 1 /\ row.z[q] = 1
    BY <2>1, <2>2, <2>6, <1>1, <1>4, <1>6, <1>7, <1>10
  <2> QED
    BY <1>1, <2>3, <2>4, <2>5, <2>6 DEF Bit
<1>12. v = PauliYRow(row, q)
  BY DEF v, u, t, s, PauliYRow
<1> QED
  BY <1>7, <1>9, <1>11, <1>12 DEF IsTurned

\* the Z gate on the vector turns the same signs
LEMMA PauliZStabilizes ==
  ASSUME NEW k \in Nat, NEW phi, IsState(phi, k), NEW q \in Qubits(k)
  PROVE  /\ IsState(ApplyZ(phi, q), k)
         /\ \A row, row2 : IsTurned(row, row2, k, row.x[q] = 1) /\ StabilizedBy(phi, row)
                              => StabilizedBy(ApplyZ(phi, q), row2)
<1> DEFINE new == OfZ(phi, q)
<1>1. /\ phi \in Vectors(k) /\ DOMAIN phi = Basis(k) /\ Support(phi) # {}
      /\ \A b \in Basis(k) : phi[b] \in Amplitude /\ b[q] \in Bit /\ 2 * b[q] \in Int
  BY DEF IsState, Vectors, Basis, Qubits, Bit
<1>2. new = [b \in Basis(k) |-> Rotate(2 * b[q], phi[b])]
  BY <1>1 DEF OfZ
<1>3. \A b \in Basis(k) : Rotate(2 * b[q], phi[b]) \in Amplitude /\ (Rotate(2 * b[q], phi[b]) = Zero <=> phi[b] = Zero)
  BY <1>1, RotateIs, RotateIsLinear
<1>4. new \in Vectors(k) /\ DOMAIN new = Basis(k) /\ \A b \in Basis(k) : new[b] = Rotate(2 * b[q], phi[b])
  BY <1>2, <1>3 DEF Vectors
<1> HIDE DEF new
<1>5. Support(new) = Support(phi)
  BY <1>1, <1>3, <1>4 DEF Support
<1>6. IsState(new, k)
  BY <1>1, <1>4, <1>5 DEF IsState
<1>7. ASSUME NEW row, NEW row2, IsTurned(row, row2, k, row.x[q] = 1), StabilizedBy(phi, row)
      PROVE  StabilizedBy(new, row2)
  <2>1. /\ HasBits(row, k) /\ HasBits(row2, k) /\ IsRow(row, k) /\ IsRow(row2, k)
        /\ row.r \in 0 .. 3 /\ row2.r \in 0 .. 3
        /\ row.x[q] \in Bit /\ row.z[q] \in Bit
    BY <1>7 DEF IsTurned, IsRow, HasBits
  <2>2. /\ \A p \in Qubits(k) : row2.x[p] = row.x[p] /\ row2.z[p] = row.z[p]
        /\ row2.r = IF row.x[q] = 1 THEN Flip(row.r) ELSE row.r
    BY <1>7 DEF IsTurned
  <2>3. ASSUME NEW b \in Basis(k)
        PROVE  new[Flipped(row2, b)] = Rotate(Power(row2, b), new[b])
    <3> DEFINE f == Flipped(row, b)
    <3>1. /\ f \in Basis(k) /\ Flipped(row2, b) \in Basis(k)
          /\ \A p \in Qubits(k) : f[p] = Xor(b[p], row.x[p]) /\ Flipped(row2, b)[p] = Xor(b[p], row2.x[p])
      BY <2>1, FlippedIs
    <3>2. Flipped(row2, b) = f
      BY <3>1, <2>2, SameState
    <3>3. phi[f] = Rotate(Power(row, b), phi[b]) /\ phi[b] \in Amplitude
      BY <1>1, <1>7, StabilizedIs
    <3>4. f[q] = Xor(b[q], row.x[q]) /\ f[q] \in Bit /\ b[q] \in Bit
      BY <3>1, <1>1
    <3>5. f \in Basis(k)
      BY <3>1
    <3> HIDE DEF f
    <3>6. Rest(row2, b, {q}) = Rest(row, b, {q})
      BY <2>2, RestIsSame
    <3>7. /\ Rest(row, b, {q}) \in Nat /\ Power(row, b) \in Int /\ Power(row2, b) \in Int
          /\ Power(row, b) = row.r + 2 * And(row.z[q], b[q]) + And(row.z[q], row.x[q]) + Rest(row, b, {q})
          /\ Power(row2, b) = row2.r + 2 * And(row2.z[q], b[q]) + And(row2.z[q], row2.x[q]) + Rest(row, b, {q})
      BY <2>1, <3>6, PowerAt
    <3>8. 2 * f[q] \in Int /\ 2 * b[q] \in Int
      BY <3>4 DEF Bit
    <3>9. (2 * f[q] + Power(row, b)) % 4 = (Power(row2, b) + 2 * b[q]) % 4
      <4> DEFINE d == 2 * f[q] + Power(row, b)
                 e == Power(row2, b) + 2 * b[q]
      <4>1. row2.x[q] = row.x[q] /\ row2.z[q] = row.z[q]
        BY <2>2
      <4>2. Flip(row.r) = row.r + 2 \/ Flip(row.r) = row.r - 2
        BY <2>1, FlipIs
      <4>3. d = e \/ d = e + 4 \/ d = e - 4 \/ d = e + 8 \/ d = e - 8
        BY <2>1, <2>2, <3>4, <3>7, <4>1, <4>2 DEF And, Xor, Bit
      <4>4. d \in Int /\ e \in Int
        BY <3>7, <3>8
      <4> HIDE DEF d, e
      <4>5. d % 4 = e % 4
        BY <4>3, <4>4, SameTurn
      <4> QED
        BY <4>5 DEF d, e
    <3>10. new[f] = Rotate(2 * f[q] + Power(row, b), phi[b])
      <4>1. new[f] = Rotate(2 * f[q], Rotate(Power(row, b), phi[b]))
        BY <3>5, <3>3, <1>4
      <4> QED
        BY <4>1, <3>3, <3>7, <3>8, RotateTwice
    <3>11. Rotate(Power(row2, b), new[b]) = Rotate(Power(row2, b) + 2 * b[q], phi[b])
      <4>1. new[b] = Rotate(2 * b[q], phi[b])
        BY <1>4
      <4>2. Rotate(Power(row2, b), Rotate(2 * b[q], phi[b])) = Rotate(Power(row2, b) + 2 * b[q], phi[b])
        BY <3>3, <3>7, <3>8, RotateTwice
      <4> QED
        BY <4>1, <4>2
    <3>12. Rotate(2 * f[q] + Power(row, b), phi[b]) = Rotate(Power(row2, b) + 2 * b[q], phi[b])
      <4>1. 2 * f[q] + Power(row, b) \in Int /\ Power(row2, b) + 2 * b[q] \in Int
        BY <3>7, <3>8
      <4> QED
        BY <4>1, <3>3, <3>9, RotateSame
    <3> QED
      BY <3>2, <3>10, <3>11, <3>12
  <2> QED
    BY <1>4, <2>3, StabilizedFrom
<1>8. ApplyZ(phi, q) = Normalise(new)
  BY DEF ApplyZ, OfZ, new
<1>9. ASSUME NEW row, NEW row2, IsTurned(row, row2, k, row.x[q] = 1), StabilizedBy(phi, row)
      PROVE  StabilizedBy(ApplyZ(phi, q), row2)
  <2>1. IsRow(row2, k) /\ StabilizedBy(new, row2)
    BY <1>7, <1>9 DEF IsTurned
  <2> QED
    BY <2>1, <1>6, <1>8, NormaliseStabilizes
<1> QED
  BY <1>6, <1>8, <1>9, NormaliseStabilizes

\* X, and Y if y = 1
Shift(y, v)      == IF y = 1 THEN 3 - 2 * v ELSE 0
OfXY(phi, q, y) == [b \in DOMAIN phi |-> Rotate(Shift(y, b[q]), phi[Put(b, q, 1 - b[q])])]
XYTurns(row, q, y) == IF y = 1 THEN row.x[q] # row.z[q] ELSE row.z[q] = 1

\* so does a gate that flips the qubit, with the turn it makes
LEMMA PauliXYStabilizes ==
  ASSUME NEW k \in Nat, NEW phi, IsState(phi, k), NEW q \in Qubits(k), NEW y \in Bit
  PROVE  /\ IsState(OfXY(phi, q, y), k)
         /\ \A row, row2 : IsTurned(row, row2, k, XYTurns(row, q, y)) /\ StabilizedBy(phi, row)
                              => StabilizedBy(OfXY(phi, q, y), row2)
<1> DEFINE new == OfXY(phi, q, y)
           Other(b) == Put(b, q, 1 - b[q])
<1>1. /\ phi \in Vectors(k) /\ DOMAIN phi = Basis(k) /\ Support(phi) # {}
      /\ \A b \in Basis(k) : phi[b] \in Amplitude /\ b[q] \in Bit /\ 1 - b[q] \in Bit
  BY DEF IsState, Vectors, Basis, Qubits, Bit
<1>2. ASSUME NEW b \in Basis(k)
      PROVE  /\ Other(b) \in Basis(k) /\ phi[Other(b)] \in Amplitude /\ Shift(y, b[q]) \in Int
             /\ \A p \in Qubits(k) : Other(b)[p] = IF p = q THEN 1 - b[q] ELSE b[p]
  <2>1. /\ Other(b) \in Basis(k)
        /\ \A p \in Qubits(k) : Other(b)[p] = IF p = q THEN 1 - b[q] ELSE b[p]
    BY <1>1, PutIs
  <2>2. Shift(y, b[q]) \in Int
    BY <1>1 DEF Shift, Bit
  <2> QED
    BY <2>1, <2>2, <1>1
<1>3. new = [b \in Basis(k) |-> Rotate(Shift(y, b[q]), phi[Other(b)])]
  BY <1>1 DEF OfXY
<1> HIDE DEF Other
<1>4. \A b \in Basis(k) : /\ Rotate(Shift(y, b[q]), phi[Other(b)]) \in Amplitude
                          /\ (Rotate(Shift(y, b[q]), phi[Other(b)]) = Zero <=> phi[Other(b)] = Zero)
  BY <1>2, RotateIs, RotateIsLinear
<1>5. new \in Vectors(k) /\ DOMAIN new = Basis(k) /\ \A b \in Basis(k) : new[b] = Rotate(Shift(y, b[q]), phi[Other(b)])
  BY <1>3, <1>4 DEF Vectors
<1> HIDE DEF new
<1>6. Support(new) # {}
  <2>1. PICK b \in Basis(k) : phi[b] # Zero
    BY <1>1 DEF Support
  <2>2. Other(b) \in Basis(k) /\ Other(Other(b)) \in Basis(k)
    BY <1>2
  <2>3. \A p \in Qubits(k) : Other(Other(b))[p] = b[p]
    <3>1. \A p \in Qubits(k) : Other(Other(b))[p] = IF p = q THEN 1 - Other(b)[q] ELSE Other(b)[p]
      BY <1>2, <2>2
    <3>2. \A p \in Qubits(k) : Other(b)[p] = IF p = q THEN 1 - b[q] ELSE b[p]
      BY <1>2
    <3>3. b[q] \in Bit
      BY <1>1
    <3> QED
      BY <3>1, <3>2, <3>3 DEF Bit
  <2>4. Other(Other(b)) = b
    BY <2>2, <2>3, SameState
  <2>5. new[Other(b)] # Zero
    BY <2>1, <2>2, <2>4, <1>4, <1>5
  <2> QED
    BY <2>2, <2>5, <1>5 DEF Support
<1>7. IsState(new, k)
  BY <1>5, <1>6 DEF IsState
<1>8. ASSUME NEW row, NEW row2, IsTurned(row, row2, k, XYTurns(row, q, y)), StabilizedBy(phi, row)
      PROVE  StabilizedBy(new, row2)
  <2>1. /\ HasBits(row, k) /\ HasBits(row2, k) /\ IsRow(row, k) /\ IsRow(row2, k)
        /\ row.r \in 0 .. 3 /\ row2.r \in 0 .. 3
        /\ row.x[q] \in Bit /\ row.z[q] \in Bit
    BY <1>8 DEF IsTurned, IsRow, HasBits
  <2>2. /\ \A p \in Qubits(k) : row2.x[p] = row.x[p] /\ row2.z[p] = row.z[p]
        /\ row2.r = IF XYTurns(row, q, y) THEN Flip(row.r) ELSE row.r
    BY <1>8 DEF IsTurned
  <2>3. ASSUME NEW b \in Basis(k)
        PROVE  new[Flipped(row2, b)] = Rotate(Power(row2, b), new[b])
    <3> DEFINE o == Other(b)
               f == Flipped(row2, b)
               P == Power(row, o)
               P2 == Power(row2, b)
    <3>1. /\ o \in Basis(k) /\ phi[o] \in Amplitude /\ Shift(y, b[q]) \in Int
          /\ \A p \in Qubits(k) : o[p] = IF p = q THEN 1 - b[q] ELSE b[p]
      BY <1>2
    <3>2. /\ f \in Basis(k) /\ Flipped(row, o) \in Basis(k)
          /\ \A p \in Qubits(k) : f[p] = Xor(b[p], row2.x[p]) /\ Flipped(row, o)[p] = Xor(o[p], row.x[p])
      BY <2>1, <3>1, FlippedIs
    <3>3. /\ Other(f) \in Basis(k) /\ phi[Other(f)] \in Amplitude /\ Shift(y, f[q]) \in Int
          /\ \A p \in Qubits(k) : Other(f)[p] = IF p = q THEN 1 - f[q] ELSE f[p]
      BY <1>2, <3>2
    <3>4. f[q] = Xor(b[q], row.x[q]) /\ f[q] \in Bit /\ b[q] \in Bit /\ o[q] = 1 - b[q]
      BY <3>1, <3>2, <2>2, <1>1
    <3> HIDE DEF o, f
    <3>5. \A p \in Qubits(k) : Other(f)[p] = Flipped(row, o)[p]
      <4>1. ASSUME NEW p \in Qubits(k), p # q PROVE Other(f)[p] = Flipped(row, o)[p]
        BY <4>1, <3>1, <3>2, <3>3, <2>2
      <4>2. 1 - f[q] = Xor(o[q], row.x[q])
        BY <3>4, <2>1 DEF Xor, Bit
      <4>3. Other(f)[q] = Flipped(row, o)[q]
        BY <4>2, <3>2, <3>3
      <4> QED
        BY <4>1, <4>3
    <3>6. Other(f) = Flipped(row, o)
      BY <3>2, <3>3, <3>5, SameState
    <3>7. phi[Other(f)] = Rotate(P, phi[o])
      BY <3>1, <3>6, <1>1, <1>8, StabilizedIs
    <3>8. Rest(row2, b, {q}) = Rest(row, o, {q})
      <4>1. \A p \in Qubits(k) \ {q} : row2.x[p] = row.x[p] /\ row2.z[p] = row.z[p] /\ b[p] = o[p]
        BY <2>2, <3>1
      <4> QED
        BY <4>1, <3>1, RestIsSame
    <3>9. /\ Rest(row, o, {q}) \in Nat /\ P \in Int /\ P2 \in Int
          /\ P = row.r + 2 * And(row.z[q], o[q]) + And(row.z[q], row.x[q]) + Rest(row, o, {q})
          /\ P2 = row2.r + 2 * And(row2.z[q], b[q]) + And(row2.z[q], row2.x[q]) + Rest(row, o, {q})
      BY <2>1, <3>1, <3>8, PowerAt
    <3> HIDE DEF P, P2
    <3>10. (Shift(y, f[q]) + P) % 4 = (P2 + Shift(y, b[q])) % 4
      <4> DEFINE d == Shift(y, f[q]) + P
                 e == P2 + Shift(y, b[q])
      <4>1. row2.x[q] = row.x[q] /\ row2.z[q] = row.z[q]
        BY <2>2
      <4>2. Flip(row.r) = row.r + 2 \/ Flip(row.r) = row.r - 2
        BY <2>1, FlipIs
      <4>3. CASE y = 1
        BY <4>3, <2>1, <2>2, <3>4, <3>9, <4>1, <4>2 DEF And, Xor, Bit, Shift, XYTurns
      <4>4. CASE y = 0
        BY <4>4, <2>1, <2>2, <3>4, <3>9, <4>1, <4>2 DEF And, Xor, Bit, Shift, XYTurns
      <4> QED
        BY <4>3, <4>4 DEF Bit
    <3>11. new[f] = Rotate(Shift(y, f[q]) + P, phi[o])
      <4>1. new[f] = Rotate(Shift(y, f[q]), Rotate(P, phi[o]))
        BY <3>2, <3>7, <1>5 DEF f
      <4>2. Rotate(Shift(y, f[q]), Rotate(P, phi[o])) = Rotate(Shift(y, f[q]) + P, phi[o])
        BY <3>1, <3>3, <3>9, RotateTwice
      <4> QED
        BY <4>1, <4>2
    <3>12. Rotate(P2, new[b]) = Rotate(P2 + Shift(y, b[q]), phi[o])
      <4>1. new[b] = Rotate(Shift(y, b[q]), phi[o])
        BY <1>5 DEF o
      <4>2. Rotate(P2, Rotate(Shift(y, b[q]), phi[o])) = Rotate(P2 + Shift(y, b[q]), phi[o])
        BY <3>1, <3>9, RotateTwice
      <4> QED
        BY <4>1, <4>2
    <3>13. Rotate(Shift(y, f[q]) + P, phi[o]) = Rotate(P2 + Shift(y, b[q]), phi[o])
      <4>1. Shift(y, f[q]) + P \in Int /\ P2 + Shift(y, b[q]) \in Int
        BY <3>1, <3>3, <3>9
      <4> QED
        BY <4>1, <3>1, <3>10, RotateSame
    <3>14. new[f] = Rotate(P2, new[b])
      BY <3>11, <3>12, <3>13
    <3> QED
      BY <3>14 DEF f, P2
  <2> QED
    BY <1>5, <2>3, StabilizedFrom
<1> QED
  BY <1>7, <1>8 DEF new

\* sums of amplitudes
LEMMA PlusIs ==
  ASSUME NEW a \in Amplitude, NEW b \in Amplitude
  PROVE  /\ Plus(a, b) = Plus(b, a)
         /\ Plus(a, b) = Zero /\ Plus(a, Neg(b)) = Zero => a = Zero /\ b = Zero
<1>1. a[1] \in Int /\ a[2] \in Int /\ b[1] \in Int /\ b[2] \in Int
  BY AmplitudeIs
<1>2. (a = Zero <=> a[1] = 0 /\ a[2] = 0) /\ (b = Zero <=> b[1] = 0 /\ b[2] = 0)
  BY AmplitudeIs DEF Zero
<1>3. Plus(a, b) = <<a[1] + b[1], a[2] + b[2]>> /\ Plus(b, a) = <<b[1] + a[1], b[2] + a[2]>>
      /\ Plus(a, Neg(b)) = <<a[1] + (-b[1]), a[2] + (-b[2])>>
  BY DEF Plus, Neg
<1>4. Plus(a, b) = Plus(b, a)
  BY <1>1, <1>3
<1>5. ASSUME Plus(a, b) = Zero, Plus(a, Neg(b)) = Zero
      PROVE  a[1] = 0 /\ a[2] = 0 /\ b[1] = 0 /\ b[2] = 0
  <2>1. a[1] + b[1] = 0 /\ a[2] + b[2] = 0 /\ a[1] + (-b[1]) = 0 /\ a[2] + (-b[2]) = 0
    BY <1>3, <1>5 DEF Zero
  <2>2. ASSUME NEW c \in Int, NEW d \in Int, c + d = 0, c + (-d) = 0 PROVE c = 0 /\ d = 0
    BY <2>2
  <2>3. a[1] = 0 /\ b[1] = 0
    BY <2>1, <2>2, <1>1
  <2>4. a[2] = 0 /\ b[2] = 0
    BY <2>1, <2>2, <1>1
  <2> QED
    BY <2>3, <2>4
<1> QED
  BY <1>2, <1>4, <1>5

\* the Hadamard gate
LEMMA HadamardStabilizes ==
  ASSUME NEW k \in Nat, NEW phi, IsState(phi, k), NEW q \in Qubits(k)
  PROVE  /\ IsState(ApplyH(phi, q), k)
         /\ \A row : IsRow(row, k) /\ StabilizedBy(phi, row)
                        => StabilizedBy(ApplyH(phi, q), HadamardRow(row, q))
<1> DEFINE new == OfH(phi, q)
<1>1. /\ phi \in Vectors(k) /\ DOMAIN phi = Basis(k) /\ Support(phi) # {}
      /\ \A b \in Basis(k) : phi[b] \in Amplitude /\ b[q] \in Bit /\ 2 * b[q] \in Int
  BY DEF IsState, Vectors, Basis, Qubits, Bit
<1>2. \A b \in Basis(k) :
         /\ Put(b, q, 0) \in Basis(k) /\ Put(b, q, 1) \in Basis(k)
         /\ phi[Put(b, q, 0)] \in Amplitude /\ phi[Put(b, q, 1)] \in Amplitude
         /\ \A p \in Qubits(k) : /\ Put(b, q, 0)[p] = IF p = q THEN 0 ELSE b[p]
                                 /\ Put(b, q, 1)[p] = IF p = q THEN 1 ELSE b[p]
  <2>1. 0 \in Bit /\ 1 \in Bit
    BY DEF Bit
  <2> QED
    BY <2>1, <1>1, PutIs
<1>3. ASSUME NEW b \in Basis(k)
      PROVE  (IF b[q] = 0 THEN phi[Put(b, q, 1)] ELSE Neg(phi[Put(b, q, 1)]))
                 = Rotate(2 * b[q], phi[Put(b, q, 1)])
  <2>1. phi[Put(b, q, 1)] \in Amplitude /\ b[q] \in Bit
    BY <1>1, <1>2
  <2>2. CASE b[q] = 0
    <3>1. 2 * b[q] \in Int /\ (2 * b[q]) % 4 = 0
      BY <2>2
    <3> QED
      BY <2>1, <2>2, <3>1, RotateIs
  <2>3. CASE b[q] = 1
    <3>1. 2 * b[q] = 2 /\ 2 \in Int
      BY <2>3
    <3>2. Neg(phi[Put(b, q, 1)]) = Rotate(2, phi[Put(b, q, 1)])
      BY <2>1, <3>1, RotateIsLinear
    <3> QED
      BY <2>3, <3>1, <3>2
  <2> QED
    BY <2>1, <2>2, <2>3 DEF Bit
<1>4. new = [b \in Basis(k) |-> Plus(phi[Put(b, q, 0)], Rotate(2 * b[q], phi[Put(b, q, 1)]))]
  <2>1. new = [b \in Basis(k) |-> Plus(phi[Put(b, q, 0)], IF b[q] = 0 THEN phi[Put(b, q, 1)] ELSE Neg(phi[Put(b, q, 1)]))]
    BY <1>1 DEF OfH
  <2> HIDE DEF new
  <2> QED
    BY <2>1, <1>3
<1>5. \A b \in Basis(k) : Plus(phi[Put(b, q, 0)], Rotate(2 * b[q], phi[Put(b, q, 1)])) \in Amplitude
  BY <1>1, <1>2, RotateIs, AmplitudeIs
<1>6. /\ new \in Vectors(k) /\ DOMAIN new = Basis(k)
      /\ \A b \in Basis(k) : new[b] = Plus(phi[Put(b, q, 0)], Rotate(2 * b[q], phi[Put(b, q, 1)]))
  BY <1>4, <1>5 DEF Vectors
<1> HIDE DEF new
<1>7. Support(new) # {}
  <2>1. PICK b \in Basis(k) : phi[b] # Zero
    BY <1>1 DEF Support
  <2> DEFINE b0 == Put(b, q, 0)
             b1 == Put(b, q, 1)
  <2>2. /\ b0 \in Basis(k) /\ b1 \in Basis(k) /\ phi[b0] \in Amplitude /\ phi[b1] \in Amplitude
        /\ \A p \in Qubits(k) : b0[p] = (IF p = q THEN 0 ELSE b[p]) /\ b1[p] = (IF p = q THEN 1 ELSE b[p])
    BY <1>2
  <2> HIDE DEF b0, b1
  <2>3. /\ Put(b0, q, 0) = b0 /\ Put(b0, q, 1) = b1 /\ Put(b1, q, 0) = b0 /\ Put(b1, q, 1) = b1
    <3>1. /\ Put(b0, q, 0) \in Basis(k) /\ Put(b0, q, 1) \in Basis(k)
          /\ Put(b1, q, 0) \in Basis(k) /\ Put(b1, q, 1) \in Basis(k)
          /\ \A p \in Qubits(k) : /\ Put(b0, q, 0)[p] = b0[p] /\ Put(b0, q, 1)[p] = b1[p]
                                  /\ Put(b1, q, 0)[p] = b0[p] /\ Put(b1, q, 1)[p] = b1[p]
      BY <1>2, <2>2
    <3> QED
      BY <3>1, <2>2, SameState
  <2>4. phi[b0] # Zero \/ phi[b1] # Zero
    <3>1. b[q] \in Bit
      BY <1>1
    <3>2. CASE b[q] = 0
      <4>1. \A p \in Qubits(k) : b[p] = b0[p]
        BY <2>2, <3>2
      <4>2. b = b0
        BY <4>1, <2>2, SameState
      <4> QED
        BY <4>2, <2>1
    <3>3. CASE b[q] = 1
      <4>1. \A p \in Qubits(k) : b[p] = b1[p]
        BY <2>2, <3>3
      <4>2. b = b1
        BY <4>1, <2>2, SameState
      <4> QED
        BY <4>2, <2>1
    <3> QED
      BY <3>1, <3>2, <3>3 DEF Bit
  <2>5. new[b0] = Plus(phi[b0], phi[b1])
    <3>1. new[b0] = Plus(phi[b0], Rotate(2 * b0[q], phi[b1])) /\ b0[q] = 0
      BY <1>6, <2>2, <2>3
    <3>2. 2 * b0[q] \in Int /\ (2 * b0[q]) % 4 = 0
      BY <3>1
    <3> QED
      BY <2>2, <3>1, <3>2, RotateIs
  <2>6. new[b1] = Plus(phi[b0], Neg(phi[b1]))
    <3>1. new[b1] = Plus(phi[b0], Rotate(2 * b1[q], phi[b1])) /\ b1[q] = 1
      BY <1>6, <2>2, <2>3
    <3>2. 2 * b1[q] = 2 /\ 2 \in Int
      BY <3>1
    <3>3. Neg(phi[b1]) = Rotate(2, phi[b1])
      BY <2>2, <3>2, RotateIsLinear
    <3> QED
      BY <3>1, <3>2, <3>3
  <2>7. new[b0] # Zero \/ new[b1] # Zero
    BY <2>2, <2>4, <2>5, <2>6, PlusIs
  <2> QED
    BY <2>2, <2>7, <1>6 DEF Support
<1>8. IsState(new, k)
  BY <1>6, <1>7 DEF IsState
<1>9. ASSUME NEW row, IsRow(row, k), StabilizedBy(phi, row)
      PROVE  StabilizedBy(new, HadamardRow(row, q))
  <2> DEFINE row2 == HadamardRow(row, q)
  <2>1. /\ HasBits(row, k) /\ HasBits(row2, k) /\ IsRow(row2, k) /\ row.r \in 0 .. 3 /\ row2.r \in 0 .. 3
        /\ row.x[q] \in Bit /\ row.z[q] \in Bit
        /\ row2.r = IF row.x[q] = 1 /\ row.z[q] = 1 THEN Flip(row.r) ELSE row.r
    BY <1>9, HadamardRowPhase DEF IsRow
  <2>2. \A p \in Qubits(k) : /\ row2.x[p] = IF p = q THEN row.z[p] ELSE row.x[p]
                             /\ row2.z[p] = IF p = q THEN row.x[p] ELSE row.z[p]
    BY <2>1, HadamardRowIs
  <2> HIDE DEF row2
  <2>3. ASSUME NEW b \in Basis(k)
        PROVE  new[Flipped(row2, b)] = Rotate(Power(row2, b), new[b])
    <3> DEFINE b0 == Put(b, q, 0)
               b1 == Put(b, q, 1)
               f  == Flipped(row2, b)
               g0 == Put(f, q, 0)
               g1 == Put(f, q, 1)
               f0 == Flipped(row, b0)
               f1 == Flipped(row, b1)
               P0 == Power(row, b0)
               P1 == Power(row, b1)
               P2 == Power(row2, b)
               R  == Rest(row, b, {q})
    <3>1. /\ b0 \in Basis(k) /\ b1 \in Basis(k) /\ phi[b0] \in Amplitude /\ phi[b1] \in Amplitude
          /\ \A p \in Qubits(k) : b0[p] = (IF p = q THEN 0 ELSE b[p]) /\ b1[p] = (IF p = q THEN 1 ELSE b[p])
      BY <1>2
    <3>2. /\ f \in Basis(k)
          /\ \A p \in Qubits(k) : f[p] = Xor(b[p], row2.x[p])
      BY <2>1, FlippedIs
    <3>3. new[f] = Plus(phi[g0], Rotate(2 * f[q], phi[g1])) /\ new[b] = Plus(phi[b0], Rotate(2 * b[q], phi[b1]))
      BY <3>2, <1>6
    <3>4. f[q] = Xor(b[q], row.z[q]) /\ f[q] \in Bit /\ b[q] \in Bit /\ b0[q] = 0 /\ b1[q] = 1
      BY <3>1, <3>2, <2>2, <1>1
    <3> HIDE DEF b0, b1, f
    <3>5. /\ g0 \in Basis(k) /\ g1 \in Basis(k)
          /\ \A p \in Qubits(k) : g0[p] = (IF p = q THEN 0 ELSE f[p]) /\ g1[p] = (IF p = q THEN 1 ELSE f[p])
      BY <1>2, <3>2
    <3>6. /\ f0 \in Basis(k) /\ f1 \in Basis(k)
          /\ \A p \in Qubits(k) : f0[p] = Xor(b0[p], row.x[p]) /\ f1[p] = Xor(b1[p], row.x[p])
      BY <2>1, <3>1, FlippedIs
    <3>7. phi[f0] = Rotate(P0, phi[b0]) /\ phi[f1] = Rotate(P1, phi[b1])
      BY <3>1, <1>1, <1>9, StabilizedIs
    <3>8. R \in Nat /\ Rest(row, b0, {q}) = R /\ Rest(row, b1, {q}) = R /\ Rest(row2, b, {q}) = R
      <4>1. /\ \A p \in Qubits(k) \ {q} : row.x[p] = row.x[p] /\ row.z[p] = row.z[p] /\ b0[p] = b[p]
            /\ \A p \in Qubits(k) \ {q} : row.x[p] = row.x[p] /\ row.z[p] = row.z[p] /\ b1[p] = b[p]
            /\ \A p \in Qubits(k) \ {q} : row2.x[p] = row.x[p] /\ row2.z[p] = row.z[p] /\ b[p] = b[p]
        BY <3>1, <2>2
      <4>2. Rest(row, b0, {q}) = R
        BY <4>1, <3>1, RestIsSame
      <4>3. Rest(row, b1, {q}) = R
        BY <4>1, <3>1, RestIsSame
      <4>4. Rest(row2, b, {q}) = R
        BY <4>1, RestIsSame
      <4>5. R \in Nat
        BY <1>9, PowerAt
      <4> QED
        BY <4>2, <4>3, <4>4, <4>5
    <3>9. /\ P0 \in Int /\ P1 \in Int /\ P2 \in Int
          /\ P0 = row.r + And(row.z[q], row.x[q]) + R
          /\ P1 = row.r + 2 * row.z[q] + And(row.z[q], row.x[q]) + R
          /\ P2 = row2.r + 2 * And(row.x[q], b[q]) + And(row.z[q], row.x[q]) + R
      <4>1. /\ P0 \in Int /\ P1 \in Int /\ P2 \in Int
            /\ P0 = row.r + 2 * And(row.z[q], b0[q]) + And(row.z[q], row.x[q]) + Rest(row, b0, {q})
            /\ P1 = row.r + 2 * And(row.z[q], b1[q]) + And(row.z[q], row.x[q]) + Rest(row, b1, {q})
            /\ P2 = row2.r + 2 * And(row2.z[q], b[q]) + And(row2.z[q], row2.x[q]) + Rest(row2, b, {q})
        BY <1>9, <2>1, <3>1, PowerAt
      <4>2. row2.z[q] = row.x[q] /\ row2.x[q] = row.z[q]
        BY <2>2
      <4>3. And(row.z[q], b0[q]) = 0 /\ And(row.z[q], b1[q]) = row.z[q] /\ And(row2.z[q], row2.x[q]) = And(row.z[q], row.x[q])
        BY <4>2, <3>4, <2>1 DEF And, Bit
      <4> HIDE DEF P0, P1, P2, R
      <4> QED
        BY <4>1, <4>2, <4>3, <3>8, <2>1
    <3> HIDE DEF g0, g1, f0, f1, P0, P1, P2, R
    <3>10. Flip(row.r) = row.r + 2 \/ Flip(row.r) = row.r - 2
      BY <2>1, FlipIs
    <3>11. 2 * f[q] \in Int /\ 2 * b[q] \in Int
      BY <3>4 DEF Bit
    <3>12. Rotate(P2, new[b]) = Plus(Rotate(P2, phi[b0]), Rotate(P2 + 2 * b[q], phi[b1]))
      <4>1. Rotate(2 * b[q], phi[b1]) \in Amplitude
        BY <3>1, <3>11, RotateIs
      <4>2. Rotate(P2, Plus(phi[b0], Rotate(2 * b[q], phi[b1])))
               = Plus(Rotate(P2, phi[b0]), Rotate(P2, Rotate(2 * b[q], phi[b1])))
        BY <4>1, <3>1, <3>9, RotateIsLinear
      <4>3. Rotate(P2, Rotate(2 * b[q], phi[b1])) = Rotate(P2 + 2 * b[q], phi[b1])
        BY <3>1, <3>9, <3>11, RotateTwice
      <4> QED
        BY <3>3, <4>2, <4>3
    <3>13. CASE row.x[q] = 0
      <4>1. \A p \in Qubits(k) : g0[p] = f0[p] /\ g1[p] = f1[p]
        BY <3>13, <3>1, <3>2, <3>5, <3>6, <2>2 DEF Xor
      <4>2. g0 = f0 /\ g1 = f1
        BY <4>1, <3>5, <3>6, SameState
      <4>3. new[f] = Plus(Rotate(P0, phi[b0]), Rotate(2 * f[q] + P1, phi[b1]))
        <5>1. Rotate(2 * f[q], Rotate(P1, phi[b1])) = Rotate(2 * f[q] + P1, phi[b1])
          BY <3>1, <3>9, <3>11, RotateTwice, ZenonT(40)
        <5> QED
          BY <5>1, <4>2, <3>3, <3>7
      <4>4. P0 = P2
        BY <3>8, <3>9, <3>13, <2>1 DEF And
      <4>5. (2 * f[q] + P1) % 4 = (P2 + 2 * b[q]) % 4
        BY <3>4, <3>8, <3>9, <3>13, <2>1 DEF And, Xor, Bit
      <4>6. 2 * f[q] + P1 \in Int /\ P2 + 2 * b[q] \in Int
        BY <3>9, <3>11
      <4>7. Rotate(2 * f[q] + P1, phi[b1]) = Rotate(P2 + 2 * b[q], phi[b1])
        BY <4>5, <4>6, <3>1, RotateSame
      <4> QED
        BY <4>3, <4>4, <4>7, <3>12 DEF f, P2
    <3>14. CASE row.x[q] = 1
      <4>1. \A p \in Qubits(k) : g0[p] = f1[p] /\ g1[p] = f0[p]
        BY <3>14, <3>1, <3>2, <3>5, <3>6, <2>2 DEF Xor
      <4>2. g0 = f1 /\ g1 = f0
        BY <4>1, <3>5, <3>6, SameState
      <4>3. new[f] = Plus(Rotate(P1, phi[b1]), Rotate(2 * f[q] + P0, phi[b0]))
        <5>1. Rotate(2 * f[q], Rotate(P0, phi[b0])) = Rotate(2 * f[q] + P0, phi[b0])
          BY <3>1, <3>9, <3>11, RotateTwice, ZenonT(40)
        <5> QED
          BY <5>1, <4>2, <3>3, <3>7
      <4>4. (2 * f[q] + P0) % 4 = P2 % 4
        BY <3>4, <3>8, <3>9, <3>10, <3>14, <2>1 DEF And, Xor, Bit
      <4>5. P1 % 4 = (P2 + 2 * b[q]) % 4
        <5> DEFINE e == P2 + 2 * b[q]
        <5>1. P1 = e \/ P1 = e + 4 \/ P1 = e - 4 \/ P1 = e + 8 \/ P1 = e - 8
          BY <3>4, <3>8, <3>9, <3>10, <3>14, <2>1 DEF And, Bit
        <5>2. P1 \in Int /\ e \in Int
          BY <3>9, <3>11
        <5> HIDE DEF e
        <5>3. P1 % 4 = e % 4
          BY <5>1, <5>2, SameTurn
        <5> QED
          BY <5>3 DEF e
      <4>6. 2 * f[q] + P0 \in Int /\ P2 + 2 * b[q] \in Int
        BY <3>9, <3>11
      <4>7. Rotate(2 * f[q] + P0, phi[b0]) = Rotate(P2, phi[b0]) /\ Rotate(P2, phi[b0]) \in Amplitude
        BY <4>4, <4>6, <3>1, <3>9, RotateSame, RotateIs
      <4>8. Rotate(P1, phi[b1]) = Rotate(P2 + 2 * b[q], phi[b1]) /\ Rotate(P1, phi[b1]) \in Amplitude
        <5>1. Rotate(P1, phi[b1]) \in Amplitude
          BY <3>1, <3>9, RotateIs
        <5>2. Rotate(P1, phi[b1]) = Rotate(P2 + 2 * b[q], phi[b1])
          <6>1. P1 \in Int /\ P2 + 2 * b[q] \in Int /\ phi[b1] \in Amplitude
            BY <4>6, <3>1, <3>9
          <6> QED
            BY <6>1, <4>5, RotateSame
        <5> QED
          BY <5>1, <5>2
      <4>9. new[f] = Plus(Rotate(2 * f[q] + P0, phi[b0]), Rotate(P1, phi[b1]))
        <5>1. Rotate(P1, phi[b1]) \in Amplitude /\ Rotate(2 * f[q] + P0, phi[b0]) \in Amplitude
          BY <4>7, <4>8
        <5>2. Plus(Rotate(P1, phi[b1]), Rotate(2 * f[q] + P0, phi[b0]))
                 = Plus(Rotate(2 * f[q] + P0, phi[b0]), Rotate(P1, phi[b1]))
          BY <5>1, PlusIs
        <5> QED
          BY <4>3, <5>2
      <4> QED
        BY <4>9, <4>7, <4>8, <3>12 DEF f, P2
    <3> QED
      BY <3>13, <3>14, <2>1 DEF Bit
  <2>4. StabilizedBy(new, row2)
    BY <1>6, <2>3, StabilizedFrom
  <2> QED
    BY <2>4 DEF row2
<1>10. ApplyH(phi, q) = Normalise(new)
  BY DEF ApplyH, OfH, new
<1>11. ASSUME NEW row, IsRow(row, k), StabilizedBy(phi, row)
       PROVE  StabilizedBy(ApplyH(phi, q), HadamardRow(row, q))
  <2>1. IsRow(HadamardRow(row, q), k) /\ StabilizedBy(new, HadamardRow(row, q))
    BY <1>9, <1>11, HadamardRowPhase
  <2> QED
    BY <2>1, <1>8, <1>10, NormaliseStabilizes
<1> QED
  BY <1>8, <1>10, <1>11, NormaliseStabilizes

\* the controlled not
LEMMA CnotStabilizes ==
  ASSUME NEW k \in Nat, NEW phi, IsState(phi, k), NEW c \in Qubits(k), NEW t \in Qubits(k), c # t
  PROVE  /\ IsState(ApplyCnot(phi, c, t), k)
         /\ \A row : IsRow(row, k) /\ StabilizedBy(phi, row)
                        => StabilizedBy(ApplyCnot(phi, c, t), CnotRow(row, c, t))
<1> DEFINE new == OfCnot(phi, c, t)
           Other(b) == Put(b, t, (b[t] + b[c]) % 2)
<1>1. /\ phi \in Vectors(k) /\ DOMAIN phi = Basis(k) /\ Support(phi) # {}
      /\ \A b \in Basis(k) : phi[b] \in Amplitude /\ b[c] \in Bit /\ b[t] \in Bit
  BY DEF IsState, Vectors, Basis, Qubits, Bit
<1>2. ASSUME NEW b \in Basis(k)
      PROVE  /\ Other(b) \in Basis(k) /\ phi[Other(b)] \in Amplitude
             /\ \A p \in Qubits(k) : Other(b)[p] = IF p = t THEN Xor(b[t], b[c]) ELSE b[p]
  <2>1. Xor(b[t], b[c]) \in Bit /\ Other(b) = Put(b, t, Xor(b[t], b[c]))
    BY <1>1, XorOfBits DEF Xor
  <2> HIDE DEF Other
  <2>2. /\ Other(b) \in Basis(k)
        /\ \A p \in Qubits(k) : Other(b)[p] = IF p = t THEN Xor(b[t], b[c]) ELSE b[p]
    BY <2>1, PutIs
  <2> QED
    BY <2>2, <1>1
<1>3. new = [b \in Basis(k) |-> phi[Other(b)]]
  BY <1>1 DEF OfCnot
<1> HIDE DEF Other
<1>4. new \in Vectors(k) /\ DOMAIN new = Basis(k) /\ \A b \in Basis(k) : new[b] = phi[Other(b)]
  BY <1>2, <1>3 DEF Vectors
<1> HIDE DEF new
<1>5. Support(new) # {}
  <2>1. PICK b \in Basis(k) : phi[b] # Zero
    BY <1>1 DEF Support
  <2>2. Other(b) \in Basis(k) /\ Other(Other(b)) \in Basis(k)
    BY <1>2
  <2>3. \A p \in Qubits(k) : Other(Other(b))[p] = b[p]
    <3>1. \A p \in Qubits(k) : Other(Other(b))[p] = IF p = t THEN Xor(Other(b)[t], Other(b)[c]) ELSE Other(b)[p]
      BY <1>2, <2>2
    <3>2. \A p \in Qubits(k) : Other(b)[p] = IF p = t THEN Xor(b[t], b[c]) ELSE b[p]
      BY <1>2
    <3>3. b[t] \in Bit /\ b[c] \in Bit
      BY <1>1
    <3> QED
      BY <3>1, <3>2, <3>3 DEF Bit, Xor
  <2>4. Other(Other(b)) = b
    BY <2>2, <2>3, SameState
  <2>5. new[Other(b)] # Zero
    BY <2>1, <2>2, <2>4, <1>4
  <2> QED
    BY <2>2, <2>5, <1>4 DEF Support
<1>6. IsState(new, k)
  BY <1>4, <1>5 DEF IsState
<1>7. ASSUME NEW row, IsRow(row, k), StabilizedBy(phi, row)
      PROVE  StabilizedBy(new, CnotRow(row, c, t))
  <2> DEFINE row2 == CnotRow(row, c, t)
  <2>1. /\ HasBits(row, k) /\ HasBits(row2, k) /\ IsRow(row2, k) /\ row.r \in 0 .. 3 /\ row2.r \in 0 .. 3
        /\ row.x[c] \in Bit /\ row.z[c] \in Bit /\ row.x[t] \in Bit /\ row.z[t] \in Bit
        /\ row2.r = IF row.x[c] = 1 /\ row.z[t] = 1 /\ Xor(row.x[t], row.x[c]) = Xor(row.z[c], row.z[t])
                    THEN Flip(row.r) ELSE row.r
    BY <1>7, CnotRowPhase DEF IsRow
  <2>2. \A p \in Qubits(k) :
               /\ row2.x[p] = IF p = t THEN Xor(row.x[t], row.x[c]) ELSE row.x[p]
               /\ row2.z[p] = IF p = c THEN Xor(row.z[c], row.z[t]) ELSE row.z[p]
    BY <2>1, CnotRowIs
  <2> HIDE DEF row2
  <2>3. ASSUME NEW b \in Basis(k)
        PROVE  new[Flipped(row2, b)] = Rotate(Power(row2, b), new[b])
    <3> DEFINE o == Other(b)
               f == Flipped(row2, b)
               P == Power(row, o)
               P2 == Power(row2, b)
               R  == Rest(row, o, {c, t})
    <3>1. /\ o \in Basis(k) /\ phi[o] \in Amplitude
          /\ \A p \in Qubits(k) : o[p] = IF p = t THEN Xor(b[t], b[c]) ELSE b[p]
      BY <1>2
    <3>2. /\ f \in Basis(k) /\ Flipped(row, o) \in Basis(k)
          /\ \A p \in Qubits(k) : f[p] = Xor(b[p], row2.x[p]) /\ Flipped(row, o)[p] = Xor(o[p], row.x[p])
      BY <2>1, <3>1, FlippedIs
    <3>3. /\ Other(f) \in Basis(k)
          /\ \A p \in Qubits(k) : Other(f)[p] = IF p = t THEN Xor(f[t], f[c]) ELSE f[p]
      BY <1>2, <3>2
    <3>4. new[f] = phi[Other(f)] /\ new[b] = phi[o]
      BY <3>2, <1>4
    <3>5. b[c] \in Bit /\ b[t] \in Bit /\ o[t] = Xor(b[t], b[c]) /\ o[c] = b[c]
      BY <3>1, <1>1
    <3> HIDE DEF o, f
    <3>6. \A p \in Qubits(k) : Other(f)[p] = Flipped(row, o)[p]
      <4>1. ASSUME NEW p \in Qubits(k), p # t PROVE Other(f)[p] = Flipped(row, o)[p]
        BY <4>1, <3>1, <3>2, <3>3, <2>2
      <4>2. f[t] = Xor(b[t], Xor(row.x[t], row.x[c])) /\ f[c] = Xor(b[c], row.x[c])
        BY <3>2, <2>2
      <4>3. Xor(f[t], f[c]) = Xor(o[t], row.x[t])
        BY <4>2, <3>5, <2>1 DEF Xor, Bit
      <4>4. Other(f)[t] = Flipped(row, o)[t]
        BY <4>3, <3>2, <3>3
      <4> QED
        BY <4>1, <4>4
    <3>7. Other(f) = Flipped(row, o)
      BY <3>2, <3>3, <3>6, SameState
    <3>8. new[f] = Rotate(P, phi[o])
      BY <3>1, <3>4, <3>7, <1>1, <1>7, StabilizedIs
    <3>9. Rest(row2, b, {c, t}) = R
      <4>1. \A p \in Qubits(k) \ {c, t} : row2.x[p] = row.x[p] /\ row2.z[p] = row.z[p] /\ b[p] = o[p]
        BY <2>2, <3>1
      <4> QED
        BY <4>1, <3>1, RestIsSame
    <3>10. /\ R \in Nat /\ P \in Int
           /\ P = row.r + 2 * And(row.z[c], o[c]) + And(row.z[c], row.x[c])
                        + 2 * And(row.z[t], o[t]) + And(row.z[t], row.x[t]) + R
      BY <1>7, <3>1, PowerAtTwo
    <3>11. /\ P2 \in Int
           /\ P2 = row2.r + 2 * And(row2.z[c], b[c]) + And(row2.z[c], row2.x[c])
                          + 2 * And(row2.z[t], b[t]) + And(row2.z[t], row2.x[t]) + R
      BY <2>1, <3>9, PowerAtTwo
    <3> HIDE DEF P, P2, R
    <3>12. /\ row2.z[c] = Xor(row.z[c], row.z[t]) /\ row2.x[c] = row.x[c]
           /\ row2.z[t] = row.z[t] /\ row2.x[t] = Xor(row.x[t], row.x[c])
      BY <2>2
    <3>13. P % 4 = P2 % 4
      <4>1. Flip(row.r) = row.r + 2 \/ Flip(row.r) = row.r - 2
        BY <2>1, FlipIs
      <4>2. P = P2 \/ P = P2 + 4 \/ P = P2 - 4 \/ P = P2 + 8 \/ P = P2 - 8
        <5>1. CASE row.x[c] = 0 /\ row.z[t] = 0
          BY <5>1, <4>1, <2>1, <3>5, <3>10, <3>11, <3>12 DEF And, Xor, Bit
        <5>2. CASE row.x[c] = 0 /\ row.z[t] = 1
          BY <5>2, <4>1, <2>1, <3>5, <3>10, <3>11, <3>12 DEF And, Xor, Bit
        <5>3. CASE row.x[c] = 1 /\ row.z[t] = 0
          BY <5>3, <4>1, <2>1, <3>5, <3>10, <3>11, <3>12 DEF And, Xor, Bit
        <5>4. CASE row.x[c] = 1 /\ row.z[t] = 1
          BY <5>4, <4>1, <2>1, <3>5, <3>10, <3>11, <3>12 DEF And, Xor, Bit
        <5> QED
          BY <2>1, <5>1, <5>2, <5>3, <5>4 DEF Bit
      <4> QED
        BY <4>2, <3>10, <3>11, SameTurn
    <3>14. Rotate(P, phi[o]) = Rotate(P2, phi[o])
      BY <3>1, <3>10, <3>11, <3>13, RotateSame
    <3> QED
      BY <3>4, <3>8, <3>14 DEF f, P2
  <2>4. StabilizedBy(new, row2)
    BY <1>4, <2>3, StabilizedFrom
  <2> QED
    BY <2>4 DEF row2
<1>8. ApplyCnot(phi, c, t) = Normalise(new)
  BY DEF ApplyCnot, OfCnot, new
<1>9. ASSUME NEW row, IsRow(row, k), StabilizedBy(phi, row)
      PROVE  StabilizedBy(ApplyCnot(phi, c, t), CnotRow(row, c, t))
  <2>1. IsRow(CnotRow(row, c, t), k) /\ StabilizedBy(new, CnotRow(row, c, t))
    BY <1>7, <1>9, CnotRowPhase
  <2> QED
    BY <2>1, <1>6, <1>8, NormaliseStabilizes
<1> QED
  BY <1>6, <1>8, <1>9, NormaliseStabilizes

\* the X and Y gates
LEMMA PauliXAndYStabilize ==
  ASSUME NEW k \in Nat, NEW phi, IsState(phi, k), NEW q \in Qubits(k)
  PROVE  /\ IsState(ApplyX(phi, q), k) /\ IsState(ApplyY(phi, q), k)
         /\ \A row : IsRow(row, k) /\ StabilizedBy(phi, row)
                        => /\ StabilizedBy(ApplyX(phi, q), PauliXRow(row, q))
                           /\ StabilizedBy(ApplyY(phi, q), PauliYRow(row, q))
<1>1. /\ phi \in Vectors(k) /\ DOMAIN phi = Basis(k)
      /\ \A b \in Basis(k) : phi[b] \in Amplitude /\ b[q] \in Bit /\ 1 - b[q] \in Bit
  BY DEF IsState, Vectors, Basis, Qubits, Bit
<1>2. \A b \in Basis(k) : phi[Put(b, q, 1 - b[q])] \in Amplitude
  BY <1>1, PutIs
<1>3. ApplyX(phi, q) = Normalise(OfXY(phi, q, 0))
  <2>1. \A b \in Basis(k) : Shift(0, b[q]) = 0
    BY DEF Shift
  <2>2. 0 \in Int /\ 0 % 4 = 0
    OBVIOUS
  <2>3. \A b \in Basis(k) : Rotate(Shift(0, b[q]), phi[Put(b, q, 1 - b[q])]) = phi[Put(b, q, 1 - b[q])]
    BY <1>2, <2>1, <2>2, RotateIs, ZenonT(40)
  <2>4. OfXY(phi, q, 0) = OfX(phi, q)
    BY <1>1, <2>3 DEF OfXY, OfX
  <2> QED
    BY <2>4 DEF ApplyX, OfX
<1>4. ApplyY(phi, q) = Normalise(OfXY(phi, q, 1))
  BY DEF ApplyY, OfXY, Shift
<1>5. 0 \in Bit /\ 1 \in Bit
  BY DEF Bit
<1>6. /\ IsState(OfXY(phi, q, 0), k)
      /\ \A row, row2 : IsTurned(row, row2, k, XYTurns(row, q, 0)) /\ StabilizedBy(phi, row)
                              => StabilizedBy(OfXY(phi, q, 0), row2)
  BY <1>5, PauliXYStabilizes
<1>7. /\ IsState(OfXY(phi, q, 1), k)
      /\ \A row, row2 : IsTurned(row, row2, k, XYTurns(row, q, 1)) /\ StabilizedBy(phi, row)
                              => StabilizedBy(OfXY(phi, q, 1), row2)
  BY <1>5, PauliXYStabilizes
<1>8. ASSUME NEW row, IsRow(row, k), StabilizedBy(phi, row)
      PROVE  /\ StabilizedBy(ApplyX(phi, q), PauliXRow(row, q))
             /\ StabilizedBy(ApplyY(phi, q), PauliYRow(row, q))
  <2>1. XYTurns(row, q, 0) = (row.z[q] = 1) /\ XYTurns(row, q, 1) = (row.x[q] # row.z[q])
    BY DEF XYTurns
  <2>2. IsTurned(row, PauliXRow(row, q), k, XYTurns(row, q, 0)) /\ IsTurned(row, PauliYRow(row, q), k, XYTurns(row, q, 1))
    BY <1>8, <2>1, PauliXRowIs, PauliYRowIs
  <2>3. IsRow(PauliXRow(row, q), k) /\ IsRow(PauliYRow(row, q), k)
    BY <2>2 DEF IsTurned
  <2>4. StabilizedBy(OfXY(phi, q, 0), PauliXRow(row, q)) /\ StabilizedBy(OfXY(phi, q, 1), PauliYRow(row, q))
    BY <1>6, <1>7, <1>8, <2>2
  <2> QED
    BY <2>3, <2>4, <1>3, <1>4, <1>6, <1>7, NormaliseStabilizes
<1> QED
  BY <1>3, <1>4, <1>6, <1>7, <1>8, NormaliseStabilizes

-----------------------------------------------------------------------------
(* Products: what stabilizes a vector can be multiplied.                      *)

\* the elements of S below i
CountTo(S, i) == Cardinality(S \cap (0 .. i - 1))

\* counting one element further
LEMMA CountStep ==
  ASSUME NEW S, NEW i \in Nat
  PROVE  /\ CountTo(S, i) \in Nat
         /\ CountTo(S, i + 1) = CountTo(S, i) + IF i \in S THEN 1 ELSE 0
<1> DEFINE T == S \cap (0 .. i)
<1>1. IsFiniteSet(0 .. i) /\ T \subseteq 0 .. i
  BY FS_Interval
<1>2. IsFiniteSet(T)
  BY <1>1, FS_Subset
<1>3. T \ {i} = S \cap (0 .. i - 1) /\ (i \in T <=> i \in S) /\ 0 .. (i + 1) - 1 = 0 .. i
  OBVIOUS
<1> HIDE DEF T
<1>4. /\ Cardinality(T \ {i}) \in Nat
      /\ Cardinality(T) = Cardinality(T \ {i}) + IF i \in T THEN 1 ELSE 0
  BY <1>2, Without
<1>5. CountTo(S, i + 1) = Cardinality(T) /\ CountTo(S, i) = Cardinality(T \ {i})
  BY <1>3 DEF CountTo, T
<1> QED
  BY <1>3, <1>4, <1>5

\* nothing is below 0, and all qubits are below their number
LEMMA CountEnds ==
  ASSUME NEW k \in Nat, NEW S \in SUBSET Qubits(k)
  PROVE  CountTo(S, 0) = 0 /\ CountTo(S, k) = Cardinality(S)
<1>1. S \cap (0 .. 0 - 1) = {} /\ S \cap (0 .. k - 1) = S
  <2>1. 0 .. 0 - 1 = {}
    OBVIOUS
  <2>2. S \subseteq 0 .. k - 1
    BY DEF Qubits
  <2> QED
    BY <2>1, <2>2
<1>2. Cardinality({}) = 0
  BY FS_EmptySet
<1> QED
  BY <1>1, <1>2 DEF CountTo

\* the qubits that turn the product further
YsOf(a, k)         == {q \in Qubits(k) : a.z[q] = 1 /\ a.x[q] = 1}
Crossing(a, b, k)  == {q \in Qubits(k) : b.z[q] = 1 /\ a.x[q] = 1}
FullTurns(a, b, k) == {q \in Qubits(k) : /\ a.x[q] = 1 /\ b.z[q] = 1
                                         /\ a.z[q] = 1 \/ b.x[q] = 1}

\* the turn of a product at one qubit, by cases on the operators there
LEMMA TurnAtQubit ==
  ASSUME NEW xa \in Bit, NEW za \in Bit, NEW xb \in Bit, NEW zb \in Bit
  PROVE  2 * And(zb, xa) + And(zb, xb) + And(za, xa) + (IF PauliPower(xa, za, xb, zb) = -1 THEN 1 ELSE 0)
           = (IF PauliPower(xa, za, xb, zb) = 1 THEN 1 ELSE 0) + And(Xor(za, zb), Xor(xa, xb))
             + 4 * (IF xa = 1 /\ zb = 1 /\ (za = 1 \/ xb = 1) THEN 1 ELSE 0)
<1>1. CASE xb = 0 /\ zb = 0
  BY <1>1 DEF Bit, And, Xor, PauliPower
<1>2. CASE xb = 0 /\ zb = 1
  BY <1>2 DEF Bit, And, Xor, PauliPower
<1>3. CASE xb = 1 /\ zb = 0
  BY <1>3 DEF Bit, And, Xor, PauliPower
<1>4. CASE xb = 1 /\ zb = 1
  BY <1>4 DEF Bit, And, Xor, PauliPower
<1> QED
  BY <1>1, <1>2, <1>3, <1>4 DEF Bit

\* the turns of a product, added up over the qubits
LEMMA TurnsOfProduct ==
  ASSUME NEW k \in Nat, NEW a, HasBits(a, k), NEW b, HasBits(b, k)
  PROVE  /\ Cardinality(Crossing(a, b, k)) \in Nat /\ Cardinality(FullTurns(a, b, k)) \in Nat
         /\ Cardinality(YsOf(a, k)) \in Nat /\ Cardinality(YsOf(b, k)) \in Nat
         /\ Cardinality(YsOf(RowMult(a, b), k)) \in Nat
         /\ Cardinality(Gives(a, b, 1)) \in Nat /\ Cardinality(Gives(a, b, -1)) \in Nat
         /\ 2 * Cardinality(Crossing(a, b, k)) + Cardinality(YsOf(b, k)) + Cardinality(YsOf(a, k))
              + Cardinality(Gives(a, b, -1))
            = Cardinality(Gives(a, b, 1)) + Cardinality(YsOf(RowMult(a, b), k))
              + 4 * Cardinality(FullTurns(a, b, k))
<1> DEFINE A == Crossing(a, b, k)
           B == YsOf(b, k)
           C == YsOf(a, k)
           D == Gives(a, b, -1)
           E == Gives(a, b, 1)
           F == YsOf(RowMult(a, b), k)
           G == FullTurns(a, b, k)
           Holds(i) == 2 * CountTo(A, i) + CountTo(B, i) + CountTo(C, i) + CountTo(D, i)
                         = CountTo(E, i) + CountTo(F, i) + 4 * CountTo(G, i)
           Bad == {i \in 0 .. k : ~Holds(i)}
<1>1. DOMAIN a.x = Qubits(k) /\ \A q \in Qubits(k) : a.x[q] \in Bit /\ a.z[q] \in Bit /\ b.x[q] \in Bit /\ b.z[q] \in Bit
  BY DEF HasBits
<1>2. \A q \in Qubits(k) : RowMult(a, b).x[q] = Xor(a.x[q], b.x[q]) /\ RowMult(a, b).z[q] = Xor(a.z[q], b.z[q])
  BY RowMultIs
<1>3. \A q \in Qubits(k) :
        /\ q \in A <=> b.z[q] = 1 /\ a.x[q] = 1
        /\ q \in B <=> b.z[q] = 1 /\ b.x[q] = 1
        /\ q \in C <=> a.z[q] = 1 /\ a.x[q] = 1
        /\ q \in D <=> PauliPower(a.x[q], a.z[q], b.x[q], b.z[q]) = -1
        /\ q \in E <=> PauliPower(a.x[q], a.z[q], b.x[q], b.z[q]) = 1
        /\ q \in F <=> Xor(a.z[q], b.z[q]) = 1 /\ Xor(a.x[q], b.x[q]) = 1
        /\ q \in G <=> a.x[q] = 1 /\ b.z[q] = 1 /\ (a.z[q] = 1 \/ b.x[q] = 1)
  BY <1>1, <1>2 DEF Crossing, YsOf, Gives, FullTurns
<1>4. /\ A \in SUBSET Qubits(k) /\ B \in SUBSET Qubits(k) /\ C \in SUBSET Qubits(k) /\ D \in SUBSET Qubits(k)
      /\ E \in SUBSET Qubits(k) /\ F \in SUBSET Qubits(k) /\ G \in SUBSET Qubits(k)
  BY <1>1 DEF Crossing, YsOf, Gives, FullTurns
<1> HIDE DEF A, B, C, D, E, F, G
<1>5. \A i \in Nat : /\ CountTo(A, i) \in Nat /\ CountTo(B, i) \in Nat /\ CountTo(C, i) \in Nat
                     /\ CountTo(D, i) \in Nat /\ CountTo(E, i) \in Nat /\ CountTo(F, i) \in Nat
                     /\ CountTo(G, i) \in Nat
  BY CountStep
<1>6. /\ CountTo(A, 0) = 0 /\ CountTo(A, k) = Cardinality(A)
      /\ CountTo(B, 0) = 0 /\ CountTo(B, k) = Cardinality(B)
      /\ CountTo(C, 0) = 0 /\ CountTo(C, k) = Cardinality(C)
      /\ CountTo(D, 0) = 0 /\ CountTo(D, k) = Cardinality(D)
      /\ CountTo(E, 0) = 0 /\ CountTo(E, k) = Cardinality(E)
      /\ CountTo(F, 0) = 0 /\ CountTo(F, k) = Cardinality(F)
      /\ CountTo(G, 0) = 0 /\ CountTo(G, k) = Cardinality(G)
  BY <1>4, CountEnds
<1>7. Holds(0)
  BY <1>6
<1>8. ASSUME NEW i \in Qubits(k), Holds(i)
      PROVE  Holds(i + 1)
  <2>1. i \in Nat
    BY DEF Qubits
  <2>2. /\ CountTo(A, i + 1) = CountTo(A, i) + And(b.z[i], a.x[i])
        /\ CountTo(B, i + 1) = CountTo(B, i) + And(b.z[i], b.x[i])
        /\ CountTo(C, i + 1) = CountTo(C, i) + And(a.z[i], a.x[i])
    BY <2>1, <1>3, CountStep DEF And
  <2>3. /\ CountTo(D, i + 1) = CountTo(D, i) + IF PauliPower(a.x[i], a.z[i], b.x[i], b.z[i]) = -1 THEN 1 ELSE 0
        /\ CountTo(E, i + 1) = CountTo(E, i) + IF PauliPower(a.x[i], a.z[i], b.x[i], b.z[i]) = 1 THEN 1 ELSE 0
    BY <2>1, <1>3, CountStep
  <2>4. /\ CountTo(F, i + 1) = CountTo(F, i) + And(Xor(a.z[i], b.z[i]), Xor(a.x[i], b.x[i]))
        /\ CountTo(G, i + 1) = CountTo(G, i) + IF a.x[i] = 1 /\ b.z[i] = 1 /\ (a.z[i] = 1 \/ b.x[i] = 1) THEN 1 ELSE 0
    BY <2>1, <1>3, CountStep DEF And
  <2> DEFINE pp == PauliPower(a.x[i], a.z[i], b.x[i], b.z[i])
             a1 == And(b.z[i], a.x[i])
             a2 == And(b.z[i], b.x[i])
             a3 == And(a.z[i], a.x[i])
             a4 == IF pp = -1 THEN 1 ELSE 0
             a5 == IF pp = 1 THEN 1 ELSE 0
             a6 == And(Xor(a.z[i], b.z[i]), Xor(a.x[i], b.x[i]))
             a7 == IF a.x[i] = 1 /\ b.z[i] = 1 /\ (a.z[i] = 1 \/ b.x[i] = 1) THEN 1 ELSE 0
  <2>5. 2 * a1 + a2 + a3 + a4 = a5 + a6 + 4 * a7
    BY <1>1, TurnAtQubit
  <2>6. a1 \in Nat /\ a2 \in Nat /\ a3 \in Nat /\ a4 \in Nat /\ a5 \in Nat /\ a6 \in Nat /\ a7 \in Nat
    BY DEF And
  <2>7. /\ CountTo(A, i + 1) = CountTo(A, i) + a1 /\ CountTo(B, i + 1) = CountTo(B, i) + a2
        /\ CountTo(C, i + 1) = CountTo(C, i) + a3 /\ CountTo(D, i + 1) = CountTo(D, i) + a4
        /\ CountTo(E, i + 1) = CountTo(E, i) + a5 /\ CountTo(F, i + 1) = CountTo(F, i) + a6
        /\ CountTo(G, i + 1) = CountTo(G, i) + a7
    BY <2>2, <2>3, <2>4
  <2> HIDE DEF a1, a2, a3, a4, a5, a6, a7
  <2> QED
    BY <2>1, <2>5, <2>6, <2>7, <1>5, <1>8
<1>9. Bad = {}
  <2> SUFFICES ASSUME Bad # {} PROVE FALSE
    OBVIOUS
  <2>1. Bad \in SUBSET Nat
    OBVIOUS
  <2> DEFINE m == Min(Bad)
  <2>2. m \in Bad /\ \A i \in Bad : m <= i
    BY <2>1, SmallestNat
  <2> HIDE DEF m
  <2>3. m \in 0 .. k /\ ~Holds(m)
    BY <2>2
  <2>4. m # 0
    BY <2>3, <1>7
  <2>5. m - 1 \in Qubits(k) /\ m - 1 \in 0 .. k /\ ~(m <= m - 1) /\ (m - 1) + 1 = m
    BY <2>3, <2>4 DEF Qubits
  <2> HIDE DEF Holds
  <2>6. Holds(m - 1)
    BY <2>2, <2>5
  <2>7. Holds((m - 1) + 1)
    BY <2>5, <2>6, <1>8
  <2> QED
    BY <2>3, <2>5, <2>7
<1>10. Holds(k)
  <2>1. k \in 0 .. k
    OBVIOUS
  <2> HIDE DEF Holds
  <2> QED
    BY <2>1, <1>9
<1> QED
  BY <1>5, <1>6, <1>10 DEF A, B, C, D, E, F, G

\* |S \/ T| without what they share
LEMMA SizeOfDifference ==
  ASSUME NEW S, IsFiniteSet(S), NEW T, IsFiniteSet(T)
  PROVE  /\ Cardinality(S) \in Nat /\ Cardinality(T) \in Nat /\ Cardinality(SymDiff(S, T)) \in Nat
         /\ (2 * Cardinality(SymDiff(S, T))) % 4 = (2 * Cardinality(S) + 2 * Cardinality(T)) % 4
<1> DEFINE s == Cardinality(S)
           t == Cardinality(T)
           d == Cardinality(SymDiff(S, T))
<1>1. SymDiff(S, T) \subseteq S \cup T /\ IsFiniteSet(S \cup T)
  BY FS_Union DEF SymDiff
<1>2. IsFiniteSet(SymDiff(S, T))
  BY <1>1, FS_Subset
<1>3. s \in Nat /\ t \in Nat /\ d \in Nat
  BY <1>2, FS_CardinalityType
<1>4. d % 2 = ((s % 2) + (t % 2)) % 2
  BY ParityOfDifference
<1> HIDE DEF s, t, d
<1>5. (2 * d) % 4 = (2 * s + 2 * t) % 4
  <2>1. d % 2 = (s + t) % 2
    BY <1>3, <1>4
  <2>2. ASSUME NEW e \in Nat, NEW f \in Nat, e % 2 = f % 2 PROVE (2 * e) % 4 = (2 * f) % 4
    BY <2>2
  <2>3. s + t \in Nat /\ 2 * (s + t) = 2 * s + 2 * t
    BY <1>3
  <2>4. (2 * d) % 4 = (2 * (s + t)) % 4
    BY <2>1, <2>2, <2>3, <1>3
  <2> QED
    BY <2>3, <2>4
<1> QED
  BY <1>3, <1>5 DEF s, t, d

\* a product is a row, with the phase that clifford computes
LEMMA RowMultPhase ==
  ASSUME NEW k \in Nat, NEW a, IsRow(a, k), NEW b, IsRow(b, k)
  PROVE  /\ IsRow(RowMult(a, b), k)
         /\ RowMult(a, b).r = (Cardinality(Gives(a, b, 1)) - Cardinality(Gives(a, b, -1)) + a.r + b.r) % 4
<1>1. HasBits(a, k) /\ HasBits(b, k) /\ a.r \in 0 .. 3 /\ b.r \in 0 .. 3
  BY DEF IsRow
<1>2. RowMult(a, b).r = (Cardinality(Gives(a, b, 1)) - Cardinality(Gives(a, b, -1)) + a.r + b.r) % 4
  BY DEF RowMult, Clifford, Gives
<1>3. Cardinality(Gives(a, b, 1)) \in Nat /\ Cardinality(Gives(a, b, -1)) \in Nat
  BY <1>1, TurnsOfProduct
<1>4. RowMult(a, b).r \in 0 .. 3
  <2>1. Cardinality(Gives(a, b, 1)) - Cardinality(Gives(a, b, -1)) + a.r + b.r \in Int
    BY <1>1, <1>3
  <2>2. \A d \in Int : d % 4 \in 0 .. 3
    OBVIOUS
  <2> QED
    BY <2>1, <2>2, <1>2
<1> QED
  BY <1>1, <1>2, <1>4, RowMultIs DEF IsRow

\* applying a product turns an amplitude as applying both factors does
LEMMA PowerOfProduct ==
  ASSUME NEW k \in Nat, NEW a, IsRow(a, k), NEW b, IsRow(b, k), NEW s \in Basis(k)
  PROVE  /\ Flipped(a, s) \in Basis(k)
         /\ Power(a, s) \in Int /\ Power(b, Flipped(a, s)) \in Int /\ Power(RowMult(a, b), s) \in Int
         /\ (Power(b, Flipped(a, s)) + Power(a, s)) % 4 = Power(RowMult(a, b), s) % 4
<1> DEFINE f  == Flipped(a, s)
           m  == RowMult(a, b)
           sb == Cardinality(Signs(b, s))
           sa == Cardinality(Signs(a, s))
           sf == Cardinality(Signs(b, f))
           sm == Cardinality(Signs(m, s))
           cr == Cardinality(Crossing(a, b, k))
           ya == Cardinality(YsOf(a, k))
           yb == Cardinality(YsOf(b, k))
           ym == Cardinality(YsOf(m, k))
           gp == Cardinality(Gives(a, b, 1))
           gm == Cardinality(Gives(a, b, -1))
           ft == Cardinality(FullTurns(a, b, k))
<1>1. HasBits(a, k) /\ HasBits(b, k) /\ a.r \in 0 .. 3 /\ b.r \in 0 .. 3
  BY DEF IsRow
<1>2. IsRow(m, k) /\ m.r = (gp - gm + a.r + b.r) % 4
  BY RowMultPhase
<1>3. \A q \in Qubits(k) : m.x[q] = Xor(a.x[q], b.x[q]) /\ m.z[q] = Xor(a.z[q], b.z[q])
  BY <1>1, RowMultIs
<1>4. /\ f \in Basis(k) /\ DOMAIN s = Qubits(k) /\ DOMAIN f = Qubits(k)
      /\ \A q \in Qubits(k) : s[q] \in Bit /\ f[q] = Xor(s[q], a.x[q])
  BY <1>1, FlippedIs DEF Basis, Qubits
<1>5. \A q \in Qubits(k) : a.x[q] \in Bit /\ a.z[q] \in Bit /\ b.x[q] \in Bit /\ b.z[q] \in Bit
  BY <1>1 DEF HasBits
<1>6. /\ cr \in Nat /\ ft \in Nat /\ ya \in Nat /\ yb \in Nat /\ ym \in Nat /\ gp \in Nat /\ gm \in Nat
      /\ 2 * cr + yb + ya + gm = gp + ym + 4 * ft
  BY <1>1, TurnsOfProduct
<1> HIDE DEF f, m
<1>7. Ys(a, s) = YsOf(a, k) /\ Ys(b, f) = YsOf(b, k) /\ Ys(m, s) = YsOf(m, k)
  BY <1>4 DEF Ys, YsOf
<1>8. Signs(b, f) = SymDiff(Signs(b, s), Crossing(a, b, k))
  <2>1. ASSUME NEW q \in Qubits(k)
        PROVE  q \in Signs(b, f) <=> q \in SymDiff(Signs(b, s), Crossing(a, b, k))
    <3>1. f[q] = 1 <=> ~(s[q] = 1 <=> a.x[q] = 1)
      BY <1>4, <1>5, XorOfBits
    <3> QED
      BY <3>1, <1>4 DEF Signs, Crossing, SymDiff
  <2>2. Signs(b, f) \subseteq Qubits(k) /\ SymDiff(Signs(b, s), Crossing(a, b, k)) \subseteq Qubits(k)
    BY <1>4 DEF Signs, Crossing, SymDiff
  <2> QED
    BY <2>1, <2>2
<1>9. Signs(m, s) = SymDiff(Signs(a, s), Signs(b, s))
  <2>1. ASSUME NEW q \in Qubits(k)
        PROVE  q \in Signs(m, s) <=> q \in SymDiff(Signs(a, s), Signs(b, s))
    <3>1. m.z[q] = 1 <=> ~(a.z[q] = 1 <=> b.z[q] = 1)
      BY <1>3, <1>5, XorOfBits
    <3> QED
      BY <3>1, <1>4 DEF Signs, SymDiff
  <2>2. Signs(m, s) \subseteq Qubits(k) /\ SymDiff(Signs(a, s), Signs(b, s)) \subseteq Qubits(k)
    BY <1>4 DEF Signs, SymDiff
  <2> QED
    BY <2>1, <2>2
<1>10. IsFiniteSet(Signs(a, s)) /\ IsFiniteSet(Signs(b, s)) /\ IsFiniteSet(Crossing(a, b, k))
  <2>1. IsFiniteSet(Qubits(k))
    BY FS_Interval DEF Qubits
  <2>2. Crossing(a, b, k) \subseteq Qubits(k)
    BY DEF Crossing
  <2>3. IsFiniteSet(Crossing(a, b, k))
    BY <2>1, <2>2, FS_Subset
  <2> QED
    BY <2>3, <1>1, PowerIs
<1>11. sb \in Nat /\ sf \in Nat /\ (2 * sf) % 4 = (2 * sb + 2 * cr) % 4
  BY <1>8, <1>10, SizeOfDifference
<1>12. sa \in Nat /\ sm \in Nat /\ (2 * sm) % 4 = (2 * sa + 2 * sb) % 4
  BY <1>9, <1>10, SizeOfDifference
<1>13. Power(a, s) = a.r + 2 * sa + ya /\ Power(a, s) \in Int
  BY <1>1, <1>7, PowerIs
<1>14. Power(b, f) = b.r + 2 * sf + yb /\ Power(b, f) \in Int
  BY <1>1, <1>4, <1>7, PowerIs
<1>15. Power(m, s) = m.r + 2 * sm + ym /\ Power(m, s) \in Int
  BY <1>2, <1>7, PowerIs DEF IsRow
<1> HIDE DEF sa, sb, sf, sm, cr, ya, yb, ym, gp, gm, ft
<1>16. (Power(b, f) + Power(a, s)) % 4 = Power(m, s) % 4
  <2> DEFINE base == a.r + b.r + 2 * sa + 2 * sb
  <2>1. a.r \in Int /\ b.r \in Int /\ base \in Int
    BY <1>1, <1>11, <1>12
  <2>2. (Power(b, f) + Power(a, s)) % 4 = (base + 2 * cr + ya + yb) % 4
    <3>1. ASSUME NEW c \in Int, NEW d \in Int, NEW e \in Int, d % 4 = e % 4 PROVE (c + d) % 4 = (c + e) % 4
      BY <3>1
    <3> DEFINE c == a.r + b.r + 2 * sa + ya + yb
    <3>2. c \in Int /\ 2 * sf \in Int /\ 2 * sb + 2 * cr \in Int
      BY <1>6, <1>11, <1>12, <2>1
    <3>3. Power(b, f) + Power(a, s) = c + 2 * sf
      BY <1>6, <1>11, <1>12, <1>13, <1>14, <2>1
    <3>4. base + 2 * cr + ya + yb = c + (2 * sb + 2 * cr)
      BY <1>6, <1>11, <1>12, <2>1
    <3> HIDE DEF c
    <3> QED
      BY <3>1, <3>2, <3>3, <3>4, <1>11
  <2>3. Power(m, s) % 4 = (base + (gp - gm) + ym) % 4
    <3>1. ASSUME NEW c \in Int, NEW d \in Int, NEW d2 \in Int, NEW e \in Int, NEW e2 \in Int,
                 d % 4 = d2 % 4, e % 4 = e2 % 4
          PROVE  (c + d + e) % 4 = (c + d2 + e2) % 4
      BY <3>1
    <3> DEFINE d == gp - gm + a.r + b.r
    <3>2. ym \in Int /\ d \in Int /\ d % 4 \in Int /\ (d % 4) % 4 = d % 4 /\ 2 * sm \in Int /\ 2 * sa + 2 * sb \in Int
      BY <1>6, <1>11, <1>12, <2>1
    <3>3. m.r = d % 4
      BY <1>2
    <3>4. Power(m, s) = ym + (d % 4) + 2 * sm
      BY <1>15, <3>2, <3>3, <1>12
    <3>5. base + (gp - gm) + ym = ym + d + (2 * sa + 2 * sb)
      BY <1>6, <1>11, <1>12, <2>1
    <3> HIDE DEF d
    <3>6. (ym + (d % 4) + 2 * sm) % 4 = (ym + d + (2 * sa + 2 * sb)) % 4
      BY <3>1, <3>2, <1>12
    <3> QED
      BY <3>4, <3>5, <3>6
  <2>4. base + 2 * cr + ya + yb = base + (gp - gm) + ym + 4 * ft
    BY <1>6, <2>1
  <2>5. ASSUME NEW c \in Int, NEW g \in Int PROVE (c + 4 * g) % 4 = c % 4
    OBVIOUS
  <2>6. base + (gp - gm) + ym \in Int /\ ft \in Int
    BY <1>6, <2>1
  <2> HIDE DEF base
  <2>7. (base + (gp - gm) + ym + 4 * ft) % 4 = (base + (gp - gm) + ym) % 4
    BY <2>5, <2>6
  <2> QED
    BY <2>2, <2>3, <2>4, <2>7
<1> QED
  BY <1>4, <1>13, <1>14, <1>15, <1>16 DEF f, m

\* what two rows leave as it is, their product does
LEMMA ProductStabilizes ==
  ASSUME NEW k \in Nat, NEW phi \in Vectors(k), NEW a, IsRow(a, k), NEW b, IsRow(b, k),
         StabilizedBy(phi, a), StabilizedBy(phi, b)
  PROVE  IsRow(RowMult(a, b), k) /\ StabilizedBy(phi, RowMult(a, b))
<1> DEFINE m == RowMult(a, b)
<1>1. HasBits(a, k) /\ HasBits(b, k)
  BY DEF IsRow
<1>2. IsRow(m, k) /\ HasBits(m, k)
  BY RowMultPhase DEF IsRow
<1>3. \A q \in Qubits(k) : m.x[q] = Xor(a.x[q], b.x[q])
  BY <1>1, RowMultIs
<1>4. \A q \in Qubits(k) : a.x[q] \in Bit /\ b.x[q] \in Bit
  BY <1>1 DEF HasBits
<1>5. ASSUME NEW s \in Basis(k)
      PROVE  phi[Flipped(m, s)] = Rotate(Power(m, s), phi[s])
  <2> DEFINE f == Flipped(a, s)
             g == Flipped(b, f)
  <2>1. /\ f \in Basis(k) /\ Power(a, s) \in Int /\ Power(b, f) \in Int /\ Power(m, s) \in Int
        /\ (Power(b, f) + Power(a, s)) % 4 = Power(m, s) % 4
    BY PowerOfProduct
  <2>2. \A q \in Qubits(k) : s[q] \in Bit /\ f[q] = Xor(s[q], a.x[q])
    BY <1>1, FlippedIs
  <2> HIDE DEF f
  <2>3. g \in Basis(k) /\ \A q \in Qubits(k) : g[q] = Xor(f[q], b.x[q])
    BY <1>1, <2>1, FlippedIs
  <2> HIDE DEF m
  <2>4. Flipped(m, s) \in Basis(k) /\ \A q \in Qubits(k) : Flipped(m, s)[q] = Xor(s[q], m.x[q])
    BY <1>2, FlippedIs
  <2>5. \A q \in Qubits(k) : g[q] = Flipped(m, s)[q]
    BY <2>2, <2>3, <2>4, <1>3, <1>4 DEF Xor, Bit
  <2>6. g = Flipped(m, s)
    BY <2>3, <2>4, <2>5, SameState
  <2>7. phi[s] \in Amplitude /\ phi[f] = Rotate(Power(a, s), phi[s])
    BY StabilizedIs DEF f
  <2>8. phi[g] = Rotate(Power(b, f), phi[f])
    BY <2>1, StabilizedIs
  <2>9. Rotate(Power(b, f), Rotate(Power(a, s), phi[s])) = Rotate(Power(b, f) + Power(a, s), phi[s])
    BY <2>1, <2>7, RotateTwice
  <2>10. Rotate(Power(b, f) + Power(a, s), phi[s]) = Rotate(Power(m, s), phi[s])
    <3>1. Power(b, f) + Power(a, s) \in Int
      BY <2>1
    <3> QED
      BY <3>1, <2>1, <2>7, RotateSame
  <2> QED
    BY <2>6, <2>7, <2>8, <2>9, <2>10
<1>6. StabilizedBy(phi, m)
  BY <1>5, StabilizedFrom
<1> QED
  BY <1>2, <1>6 DEF m

-----------------------------------------------------------------------------
(* Measurements.                                                              *)

OfProject(phi, q, v) == [b \in DOMAIN phi |-> IF b[q] = v THEN phi[b] ELSE Zero]

\* no turn
LEMMA RotateZero ==
  ASSUME NEW e \in Int
  PROVE  Zero \in Amplitude /\ Rotate(e, Zero) = Zero
<1>1. Zero \in Amplitude
  BY DEF Zero, Amplitude
<1> QED
  BY <1>1, RotateIsLinear

\* a row that is Z on one qubit, with a phase
IsZ(row, k, q) ==
    IsRow(row, k) /\ \A c \in Qubits(k) : row.x[c] = 0 /\ row.z[c] = IF c = q THEN 1 ELSE 0

\* what Z does to a basis state
LEMMA ZRowPower ==
  ASSUME NEW k \in Nat, NEW q \in Qubits(k), NEW row, IsZ(row, k, q), NEW b \in Basis(k)
  PROVE  b[q] \in Bit /\ Flipped(row, b) = b /\ Power(row, b) = row.r + 2 * b[q]
<1>1. /\ IsRow(row, k) /\ HasBits(row, k) /\ row.r \in 0 .. 3
      /\ \A c \in Qubits(k) : row.x[c] = 0 /\ row.z[c] = IF c = q THEN 1 ELSE 0
  BY DEF IsZ, IsRow
<1>2. /\ DOMAIN b = Qubits(k) /\ \A c \in Qubits(k) : b[c] \in Bit
      /\ Flipped(row, b) \in Basis(k) /\ \A c \in Qubits(k) : Flipped(row, b)[c] = Xor(b[c], row.x[c])
  BY <1>1, FlippedIs
<1>3. \A c \in Qubits(k) : Flipped(row, b)[c] = b[c]
  BY <1>1, <1>2 DEF Xor, Bit
<1>4. Flipped(row, b) = b
  BY <1>2, <1>3, SameState
<1>5. Rest(row, b, {q}) = 0
  <2>1. Signs(row, b) \ {q} = {} /\ Ys(row, b) \ {q} = {}
    BY <1>1, <1>2 DEF Signs, Ys
  <2> QED
    BY <2>1, FS_EmptySet DEF Rest
<1>6. Power(row, b) = row.r + 2 * And(row.z[q], b[q]) + And(row.z[q], row.x[q]) + Rest(row, b, {q})
  BY <1>1, PowerAt
<1>7. row.z[q] = 1 /\ row.x[q] = 0 /\ b[q] \in Bit
  BY <1>1, <1>2
<1>8. And(row.z[q], b[q]) = b[q] /\ And(row.z[q], row.x[q]) = 0
  BY <1>7 DEF And, Bit
<1>9. Power(row, b) = row.r + 2 * b[q]
  BY <1>1, <1>5, <1>6, <1>7, <1>8 DEF Bit
<1> QED
  BY <1>4, <1>7, <1>9

\* the row that measure writes is Z with a sign
LEMMA ObservableIsZ ==
  ASSUME NEW k \in Nat, NEW q \in Qubits(k), NEW v \in Bit
  PROVE  IsZ(Observable(k, q, v), k, q) /\ Observable(k, q, v).r = 2 * v
<1> DEFINE o == Observable(k, q, v)
<1>1. /\ HasBits(o, k) /\ o.r = 2 * v
      /\ \A c \in Qubits(k) : o.x[c] = 0 /\ o.z[c] = IF c = q THEN 1 ELSE 0
  BY ObservableIs
<1>2. o.r \in 0 .. 3
  BY <1>1 DEF Bit
<1> HIDE DEF o
<1>3. IsZ(o, k, q)
  BY <1>1, <1>2 DEF IsZ, IsRow
<1> QED
  BY <1>1, <1>3 DEF o

\* what commutes with Z still stabilizes the vector after the projection
LEMMA ProjectStabilizes ==
  ASSUME NEW k \in Nat, NEW phi, IsState(phi, k), NEW q \in Qubits(k), NEW v \in Bit,
         Possible(phi, q, v)
  PROVE  /\ IsState(Project(phi, q, v), k)
         /\ StabilizedBy(Project(phi, q, v), Observable(k, q, v))
         /\ \A row : IsRow(row, k) /\ StabilizedBy(phi, row) /\ row.x[q] = 0
                        => StabilizedBy(Project(phi, q, v), row)
<1> DEFINE new == OfProject(phi, q, v)
<1>1. /\ phi \in Vectors(k) /\ DOMAIN phi = Basis(k)
      /\ \A b \in Basis(k) : phi[b] \in Amplitude /\ b[q] \in Bit
  BY DEF IsState, Vectors, Basis, Qubits, Bit
<1>2. Zero \in Amplitude
  BY DEF Zero, Amplitude
<1>3. new = [b \in Basis(k) |-> IF b[q] = v THEN phi[b] ELSE Zero]
  BY <1>1 DEF OfProject
<1>4. new \in Vectors(k) /\ DOMAIN new = Basis(k) /\ \A b \in Basis(k) : new[b] = IF b[q] = v THEN phi[b] ELSE Zero
  BY <1>1, <1>2, <1>3 DEF Vectors
<1> HIDE DEF new
<1>5. Support(new) # {}
  BY <1>1, <1>4 DEF Support, Possible
<1>6. IsState(new, k)
  BY <1>4, <1>5 DEF IsState
<1>7. ASSUME NEW row, IsRow(row, k), StabilizedBy(phi, row), row.x[q] = 0
      PROVE  StabilizedBy(new, row)
  <2>1. ASSUME NEW b \in Basis(k) PROVE new[Flipped(row, b)] = Rotate(Power(row, b), new[b])
    <3>1. Flipped(row, b) \in Basis(k) /\ Flipped(row, b)[q] = Xor(b[q], row.x[q]) /\ b[q] \in Bit
      BY <1>7, FlippedIs DEF IsRow
    <3>2. Flipped(row, b)[q] = b[q]
      BY <3>1, <1>7 DEF Xor, Bit
    <3>3. phi[Flipped(row, b)] = Rotate(Power(row, b), phi[b]) /\ Power(row, b) \in Int
      BY <1>1, <1>7, StabilizedIs, PowerIs DEF IsRow
    <3>4. Rotate(Power(row, b), Zero) = Zero
      BY <3>3, RotateZero
    <3> QED
      BY <3>1, <3>2, <3>3, <3>4, <1>4
  <2> QED
    BY <2>1, <1>4, StabilizedFrom
<1>8. StabilizedBy(new, Observable(k, q, v))
  <2>1. ASSUME NEW b \in Basis(k)
        PROVE  new[Flipped(Observable(k, q, v), b)] = Rotate(Power(Observable(k, q, v), b), new[b])
    <3>1. Flipped(Observable(k, q, v), b) = b /\ Power(Observable(k, q, v), b) = 2 * v + 2 * b[q]
      BY ObservableIsZ, ZRowPower
    <3>2. 2 * v + 2 * b[q] \in Int /\ b[q] \in Bit
      BY <1>1 DEF Bit
    <3>3. CASE b[q] = v
      <4>1. (2 * v + 2 * b[q]) % 4 = 0
        BY <3>3 DEF Bit
      <4>2. new[b] \in Amplitude
        BY <1>4 DEF Vectors
      <4>3. Rotate(2 * v + 2 * b[q], new[b]) = new[b]
        BY <4>1, <4>2, <3>2, RotateIs
      <4> QED
        BY <3>1, <4>3
    <3>4. CASE b[q] # v
      <4>1. new[b] = Zero
        BY <3>4, <1>4
      <4> QED
        BY <4>1, <3>1, <3>2, RotateZero
    <3> QED
      BY <3>3, <3>4
  <2> QED
    BY <2>1, <1>4, StabilizedFrom
<1>9. Project(phi, q, v) = Normalise(new)
  BY DEF Project, OfProject, new
<1>11. IsRow(Observable(k, q, v), k)
  BY ObservableIsZ DEF IsZ
<1> QED
  BY <1>6, <1>7, <1>8, <1>9, <1>11, NormaliseStabilizes

\* a stabilizer with an X on the qubit: both outcomes are possible
LEMMA BothArePossible ==
  ASSUME NEW k \in Nat, NEW phi, IsState(phi, k), NEW q \in Qubits(k),
         NEW row, IsRow(row, k), StabilizedBy(phi, row), row.x[q] = 1, NEW v \in Bit
  PROVE  Possible(phi, q, v)
<1>1. /\ phi \in Vectors(k) /\ DOMAIN phi = Basis(k) /\ Support(phi) # {}
      /\ \A b \in Basis(k) : phi[b] \in Amplitude /\ b[q] \in Bit
  BY DEF IsState, Vectors, Basis, Qubits, Bit
<1>2. PICK b \in Basis(k) : phi[b] # Zero
  BY <1>1 DEF Support
<1>3. CASE b[q] = v
  BY <1>1, <1>2, <1>3 DEF Possible, Support
<1>4. CASE b[q] # v
  <2>1. Flipped(row, b) \in Basis(k) /\ Flipped(row, b)[q] = Xor(b[q], row.x[q]) /\ b[q] \in Bit
    BY FlippedIs DEF IsRow
  <2>2. Flipped(row, b)[q] = v
    BY <2>1, <1>4 DEF Xor, Bit
  <2>3. phi[Flipped(row, b)] = Rotate(Power(row, b), phi[b]) /\ Power(row, b) \in Int /\ phi[b] \in Amplitude
    BY <1>1, StabilizedIs, PowerIs DEF IsRow
  <2>4. phi[Flipped(row, b)] # Zero
    BY <2>3, <1>2, RotateIsLinear
  <2> QED
    BY <2>1, <2>2, <2>4, <1>1 DEF Possible, Support
<1> QED
  BY <1>3, <1>4

-----------------------------------------------------------------------------
(* Measurement.                                                               *)

\* the stabilizers of the tableau stabilize the vector
IsStabilized(tb, k, phi) == \A i \in k .. 2 * k - 1 : StabilizedBy(phi, tb[i])

\* the rows of a tableau have bits and phases
LEMMA RowsAreRows ==
  ASSUME NEW k \in Nat, NEW tb, IsTableau(tb, k), HasPhases(tb), NEW i \in 0 .. 2 * k - 1
  PROVE  IsRow(tb[i], k)
  BY DEF IsTableau, HasPhases, IsRow

\* a random outcome: both are possible, and the new rows stabilize what is left
LEMMA RandomKeepsState ==
  ASSUME NEW k \in Nat, NEW tb, IsTableau(tb, k), HasPhases(tb),
         NEW phi, IsState(phi, k), IsStabilized(tb, k, phi),
         NEW q \in Qubits(k), IsRandom(tb, k, q), NEW v \in Bit
  PROVE  /\ Possible(phi, q, 0) /\ Possible(phi, q, 1)
         /\ HasPhases(Collapse(tb, k, q, v))
         /\ IsState(Project(phi, q, v), k)
         /\ IsStabilized(Collapse(tb, k, q, v), k, Project(phi, q, v))
<1> DEFINE p == Min(Pivots(tb, k, k, q))
           new == Collapse(tb, k, q, v)
<1>1. /\ p \in 0 .. k - 1 /\ tb[p + k].x[q] = 1
      /\ DOMAIN new = 0 .. 2 * k - 1
      /\ new[p] = tb[p + k]
      /\ new[p + k] = Observable(k, q, v)
      /\ \A i \in (0 .. 2 * k - 1) \ {p, p + k} :
               new[i] = IF tb[i].x[q] = 1 THEN RowMult(tb[i], tb[p + k]) ELSE tb[i]
  BY CollapseIs
<1> HIDE DEF p, new
<1>2. \A i \in 0 .. 2 * k - 1 : IsRow(tb[i], k) /\ tb[i].x[q] \in Bit
  <2>1. ASSUME NEW i \in 0 .. 2 * k - 1 PROVE IsRow(tb[i], k) /\ tb[i].x[q] \in Bit
    <3>1. IsRow(tb[i], k)
      BY RowsAreRows
    <3> QED
      BY <3>1 DEF IsRow, HasBits
  <2> QED
    BY <2>1
<1>3. p + k \in k .. 2 * k - 1 /\ p + k \in 0 .. 2 * k - 1
  BY <1>1
<1>4. IsRow(tb[p + k], k) /\ StabilizedBy(phi, tb[p + k])
  BY <1>2, <1>3 DEF IsStabilized
<1>5. 0 \in Bit /\ 1 \in Bit
  BY DEF Bit
<1>6. Possible(phi, q, 0) /\ Possible(phi, q, 1) /\ Possible(phi, q, v)
  BY <1>1, <1>4, <1>5, BothArePossible
<1> DEFINE psi2 == Project(phi, q, v)
<1>7. /\ IsState(psi2, k)
      /\ StabilizedBy(psi2, Observable(k, q, v))
      /\ \A row : IsRow(row, k) /\ StabilizedBy(phi, row) /\ row.x[q] = 0 => StabilizedBy(psi2, row)
  BY <1>6, ProjectStabilizes
<1> HIDE DEF psi2
<1>8. phi \in Vectors(k)
  BY DEF IsState
<1>9. ASSUME NEW i \in k .. 2 * k - 1
      PROVE  StabilizedBy(psi2, new[i])
  <2>1. i \in 0 .. 2 * k - 1 /\ i # p
    BY <1>1
  <2>2. IsRow(tb[i], k) /\ StabilizedBy(phi, tb[i]) /\ tb[i].x[q] \in Bit
    BY <2>1, <1>2 DEF IsStabilized
  <2>3. CASE i = p + k
    BY <2>3, <1>1, <1>7
  <2>4. CASE i # p + k /\ tb[i].x[q] = 1
    <3>1. new[i] = RowMult(tb[i], tb[p + k])
      BY <2>1, <2>4, <1>1
    <3>2. IsRow(new[i], k) /\ StabilizedBy(phi, new[i])
      BY <3>1, <2>2, <1>4, <1>8, ProductStabilizes
    <3>3. new[i].x[q] = Xor(tb[i].x[q], tb[p + k].x[q])
      BY <3>1, <2>2, <1>4, RowMultIs DEF IsRow
    <3>4. new[i].x[q] = 0
      BY <3>3, <2>4, <1>1 DEF Xor
    <3> QED
      BY <3>2, <3>4, <1>7
  <2>5. CASE i # p + k /\ tb[i].x[q] # 1
    <3>1. new[i] = tb[i]
      BY <2>1, <2>5, <1>1
    <3>2. tb[i].x[q] = 0
      BY <2>2, <2>5 DEF Bit
    <3> QED
      BY <3>1, <3>2, <2>2, <1>7
  <2> QED
    BY <2>3, <2>4, <2>5
<1>10. ASSUME NEW i \in 0 .. 2 * k - 1
       PROVE  new[i].r \in 0 .. 3
  <2>1. CASE i = p
    BY <2>1, <1>1, <1>4 DEF IsRow
  <2>2. CASE i = p + k
    <3>1. Observable(k, q, v).r = 2 * v
      BY ObservableIs
    <3> QED
      BY <3>1, <2>2, <1>1 DEF Bit
  <2>3. CASE i \notin {p, p + k}
    <3>1. new[i] = IF tb[i].x[q] = 1 THEN RowMult(tb[i], tb[p + k]) ELSE tb[i]
      BY <2>3, <1>1
    <3>2. IsRow(tb[i], k) /\ IsRow(RowMult(tb[i], tb[p + k]), k)
      BY <1>2, <1>4, RowMultPhase
    <3> QED
      BY <3>1, <3>2 DEF IsRow
  <2> QED
    BY <2>1, <2>2, <2>3
<1>11. HasPhases(new)
  BY <1>1, <1>10 DEF HasPhases
<1>12. IsStabilized(new, k, psi2)
  BY <1>9 DEF IsStabilized
<1> QED
  BY <1>6, <1>7, <1>11, <1>12 DEF new, psi2

\* the stabilizers that measure multiplies and that have an X, or a Z, on qubit c
XHits(tb, k, q, c) == {i \in Qubits(k) : tb[i].x[q] = 1 /\ tb[i + k].x[c] = 1}
ZHits(tb, k, q, c) == {i \in Qubits(k) : tb[i].x[q] = 1 /\ tb[i + k].z[c] = 1}

\* the product of those up to row j
IsPartial(tb, k, phi, q, j, row) ==
    /\ IsRow(row, k) /\ StabilizedBy(phi, row)
    /\ \A c \in Qubits(k) : /\ row.x[c] = CountTo(XHits(tb, k, q, c), j + 1) % 2
                            /\ row.z[c] = CountTo(ZHits(tb, k, q, c), j + 1) % 2

\* nothing is counted before the first pivot
LEMMA CountFrom ==
  ASSUME NEW S, NEW m \in Nat, \A i \in 0 .. m - 1 : i \notin S
  PROVE  CountTo(S, m) = 0 /\ CountTo(S, m + 1) = IF m \in S THEN 1 ELSE 0
<1>1. S \cap (0 .. m - 1) = {}
  OBVIOUS
<1>2. CountTo(S, m) = 0
  BY <1>1, FS_EmptySet DEF CountTo
<1> QED
  BY <1>2, CountStep

\* one more toggles the parity
LEMMA XorOfCount ==
  ASSUME NEW d \in Nat, NEW b \in Bit
  PROVE  /\ d % 2 \in Bit /\ (d + 0) % 2 = d % 2
         /\ Xor(d % 2, b) = (d + (IF b = 1 THEN 1 ELSE 0)) % 2
  BY DEF Bit, Xor

\* one step of the product
LEMMA MultipliedIsPartial ==
  ASSUME NEW k \in Nat, NEW tb, IsTableau(tb, k), HasPhases(tb),
         NEW phi, IsState(phi, k), IsStabilized(tb, k, phi),
         NEW q \in Qubits(k), NEW i \in Qubits(k), i # 0, NEW row, IsPartial(tb, k, phi, q, i - 1, row)
  PROVE  IsPartial(tb, k, phi, q, i, Multiplied(tb, k, q, i, row))
<1> DEFINE new == Multiplied(tb, k, q, i, row)
<1>1. i \in Nat /\ (i - 1) + 1 = i /\ i + k \in k .. 2 * k - 1 /\ i + k \in 0 .. 2 * k - 1
  BY DEF Qubits
<1>2. /\ IsRow(row, k) /\ StabilizedBy(phi, row)
      /\ \A c \in Qubits(k) : /\ row.x[c] = CountTo(XHits(tb, k, q, c), i) % 2
                              /\ row.z[c] = CountTo(ZHits(tb, k, q, c), i) % 2
  BY <1>1 DEF IsPartial
<1>3. IsRow(tb[i + k], k) /\ StabilizedBy(phi, tb[i + k]) /\ phi \in Vectors(k)
  BY <1>1, RowsAreRows DEF IsStabilized, IsState
<1>4. \A c \in Qubits(k) : tb[i + k].x[c] \in Bit /\ tb[i + k].z[c] \in Bit
  BY <1>3 DEF IsRow, HasBits
<1>5. \A c \in Qubits(k) :
        /\ CountTo(XHits(tb, k, q, c), i) \in Nat /\ CountTo(ZHits(tb, k, q, c), i) \in Nat
        /\ CountTo(XHits(tb, k, q, c), i + 1) = CountTo(XHits(tb, k, q, c), i)
                                                  + IF i \in XHits(tb, k, q, c) THEN 1 ELSE 0
        /\ CountTo(ZHits(tb, k, q, c), i + 1) = CountTo(ZHits(tb, k, q, c), i)
                                                  + IF i \in ZHits(tb, k, q, c) THEN 1 ELSE 0
  BY <1>1, CountStep
<1>6. CASE tb[i].x[q] = 1
  <2>1. new = RowMult(row, tb[i + k])
    BY <1>6 DEF Multiplied
  <2> HIDE DEF new
  <2>2. IsRow(new, k) /\ StabilizedBy(phi, new)
    BY <2>1, <1>2, <1>3, ProductStabilizes
  <2>3. \A c \in Qubits(k) : new.x[c] = Xor(row.x[c], tb[i + k].x[c]) /\ new.z[c] = Xor(row.z[c], tb[i + k].z[c])
    BY <2>1, <1>2, <1>3, RowMultIs DEF IsRow
  <2>4. \A c \in Qubits(k) : /\ i \in XHits(tb, k, q, c) <=> tb[i + k].x[c] = 1
                             /\ i \in ZHits(tb, k, q, c) <=> tb[i + k].z[c] = 1
    BY <1>6 DEF XHits, ZHits
  <2>5. ASSUME NEW c \in Qubits(k)
        PROVE  /\ new.x[c] = CountTo(XHits(tb, k, q, c), i + 1) % 2
               /\ new.z[c] = CountTo(ZHits(tb, k, q, c), i + 1) % 2
    <3>1. new.x[c] = CountTo(XHits(tb, k, q, c), i + 1) % 2
      BY <2>3, <2>4, <1>2, <1>4, <1>5, XorOfCount
    <3>2. new.z[c] = CountTo(ZHits(tb, k, q, c), i + 1) % 2
      BY <2>3, <2>4, <1>2, <1>4, <1>5, XorOfCount
    <3> QED
      BY <3>1, <3>2
  <2>6. IsPartial(tb, k, phi, q, i, new)
    BY <2>2, <2>5 DEF IsPartial
  <2> QED
    BY <2>6 DEF new
<1>7. CASE tb[i].x[q] # 1
  <2>1. new = row
    BY <1>7 DEF Multiplied
  <2>2. \A c \in Qubits(k) : i \notin XHits(tb, k, q, c) /\ i \notin ZHits(tb, k, q, c)
    BY <1>7 DEF XHits, ZHits
  <2>3. \A c \in Qubits(k) : /\ CountTo(XHits(tb, k, q, c), i + 1) = CountTo(XHits(tb, k, q, c), i)
                             /\ CountTo(ZHits(tb, k, q, c), i + 1) = CountTo(ZHits(tb, k, q, c), i)
    BY <2>2, <1>5
  <2>4. IsPartial(tb, k, phi, q, i, row)
    BY <2>3, <1>2 DEF IsPartial
  <2> QED
    BY <2>1, <2>4
<1> QED
  BY <1>6, <1>7

\* the scratch row is Z on the qubit, with a sign, and stabilizes the vector
LEMMA ScratchIsObservable ==
  ASSUME NEW k \in Nat, NEW tb, IsTableau(tb, k), HasPhases(tb), IsDual(tb, k),
         NEW phi, IsState(phi, k), IsStabilized(tb, k, phi),
         NEW q \in Qubits(k), ~IsRandom(tb, k, q)
  PROVE  /\ IsRow(Scratch(tb, k, q), k) /\ StabilizedBy(phi, Scratch(tb, k, q))
         /\ \A c \in Qubits(k) : /\ Scratch(tb, k, q).x[c] = 0
                                 /\ Scratch(tb, k, q).z[c] = IF c = q THEN 1 ELSE 0
<1> DEFINE m == Min(Pivots(tb, 0, k, q))
<1>1. Pivots(tb, 0, k, q) # {}
  BY PivotIsFound
<1>2. /\ m \in Qubits(k) /\ tb[m].x[q] = 1 /\ \A i \in Qubits(k) : i < m => tb[i].x[q] # 1
      /\ \E g : /\ Scratch(tb, k, q) = g[k - 1] /\ g[m] = tb[m + k]
                /\ \A i \in m + 1 .. k - 1 : g[i] = Multiplied(tb, k, q, i, g[i - 1])
  BY <1>1, ScratchIs
<1> HIDE DEF m
<1>3. PICK g : /\ Scratch(tb, k, q) = g[k - 1] /\ g[m] = tb[m + k]
               /\ \A i \in m + 1 .. k - 1 : g[i] = Multiplied(tb, k, q, i, g[i - 1])
  BY <1>2
<1>4. m \in Nat /\ m <= k - 1 /\ m + k \in k .. 2 * k - 1 /\ m + k \in 0 .. 2 * k - 1
  BY <1>2 DEF Qubits
<1>5. IsRow(tb[m + k], k) /\ StabilizedBy(phi, tb[m + k])
  BY <1>4, RowsAreRows DEF IsStabilized
<1>6. IsPartial(tb, k, phi, q, m, g[m])
  <2>1. ASSUME NEW c \in Qubits(k)
        PROVE  /\ tb[m + k].x[c] = CountTo(XHits(tb, k, q, c), m + 1) % 2
               /\ tb[m + k].z[c] = CountTo(ZHits(tb, k, q, c), m + 1) % 2
    <3>1. tb[m + k].x[c] \in Bit /\ tb[m + k].z[c] \in Bit
      BY <1>5 DEF IsRow, HasBits
    <3>2. \A i \in 0 .. m - 1 : i \in Qubits(k) /\ i < m
      BY <1>4 DEF Qubits
    <3>3. \A i \in 0 .. m - 1 : i \notin XHits(tb, k, q, c) /\ i \notin ZHits(tb, k, q, c)
      BY <3>2, <1>2 DEF XHits, ZHits
    <3>4. /\ CountTo(XHits(tb, k, q, c), m + 1) = IF m \in XHits(tb, k, q, c) THEN 1 ELSE 0
          /\ CountTo(ZHits(tb, k, q, c), m + 1) = IF m \in ZHits(tb, k, q, c) THEN 1 ELSE 0
      BY <3>3, <1>4, CountFrom
    <3>5. /\ m \in XHits(tb, k, q, c) <=> tb[m + k].x[c] = 1
          /\ m \in ZHits(tb, k, q, c) <=> tb[m + k].z[c] = 1
      BY <1>2 DEF XHits, ZHits
    <3>6. 0 % 2 = 0 /\ 1 % 2 = 1
      OBVIOUS
    <3> QED
      BY <3>1, <3>4, <3>5, <3>6 DEF Bit
  <2> QED
    BY <2>1, <1>3, <1>5 DEF IsPartial
<1> DEFINE Bad == {i \in m .. k - 1 : ~IsPartial(tb, k, phi, q, i, g[i])}
<1>7. Bad = {}
  <2> SUFFICES ASSUME Bad # {} PROVE FALSE
    OBVIOUS
  <2> DEFINE d == Min(Bad)
  <2>1. Bad \in SUBSET Nat
    BY <1>4
  <2>2. d \in Bad /\ \A i \in Bad : d <= i
    BY <2>1, SmallestNat
  <2>3. d \in m .. k - 1 /\ ~IsPartial(tb, k, phi, q, d, g[d])
    BY <2>2
  <2> HIDE DEF d
  <2>4. d # m
    BY <2>3, <1>6
  <2>5. d - 1 \in m .. k - 1 /\ d \in m + 1 .. k - 1 /\ d \in Qubits(k) /\ d # 0 /\ ~(d <= d - 1)
    BY <2>3, <2>4, <1>4 DEF Qubits
  <2>6. IsPartial(tb, k, phi, q, d - 1, g[d - 1])
    BY <2>2, <2>5
  <2>7. IsPartial(tb, k, phi, q, d, Multiplied(tb, k, q, d, g[d - 1]))
    BY <2>5, <2>6, MultipliedIsPartial
  <2>8. g[d] = Multiplied(tb, k, q, d, g[d - 1])
    BY <2>5, <1>3
  <2> QED
    BY <2>3, <2>7, <2>8
<1>8. IsPartial(tb, k, phi, q, k - 1, Scratch(tb, k, q))
  <2>1. k - 1 \in m .. k - 1
    BY <1>4
  <2> QED
    BY <2>1, <1>3, <1>7
<1>9. (k - 1) + 1 = k
  OBVIOUS
<1>10. /\ IsRow(Scratch(tb, k, q), k) /\ StabilizedBy(phi, Scratch(tb, k, q))
       /\ \A c \in Qubits(k) : /\ Scratch(tb, k, q).x[c] = CountTo(XHits(tb, k, q, c), k) % 2
                               /\ Scratch(tb, k, q).z[c] = CountTo(ZHits(tb, k, q, c), k) % 2
  BY <1>8, <1>9 DEF IsPartial
<1>11. ASSUME NEW c \in Qubits(k)
       PROVE  /\ CountTo(XHits(tb, k, q, c), k) % 2 = 0
              /\ CountTo(ZHits(tb, k, q, c), k) % 2 = IF c = q THEN 1 ELSE 0
  <2>1. \A i \in Qubits(k) : tb[k + i].x[q] # 1 /\ k + i = i + k
    <3>1. ASSUME NEW i \in 0 .. k - 1 PROVE tb[k + i].x[q] # 1
      BY <3>1 DEF IsRandom, Pivots
    <3>2. \A i \in 0 .. k - 1 : k + i = i + k
      OBVIOUS
    <3> QED
      BY <3>1, <3>2 DEF Qubits
  <2>2. \A i \in Qubits(k) : tb[i + k].x[q] # 1
    BY <2>1
  <2>3. XHits(tb, k, q, c) \in SUBSET Qubits(k) /\ ZHits(tb, k, q, c) \in SUBSET Qubits(k)
    BY DEF XHits, ZHits
  <2>4. /\ CountTo(XHits(tb, k, q, c), k) = Cardinality(XHits(tb, k, q, c))
        /\ CountTo(ZHits(tb, k, q, c), k) = Cardinality(ZHits(tb, k, q, c))
    BY <2>3, CountEnds
  <2> DEFINE xq == XColumn(tb, k, q)
             xc == XColumn(tb, k, c)
             zc == ZColumn(tb, k, c)
  <2>5. /\ HasBits(xq, k) /\ HasBits(xc, k) /\ HasBits(zc, k)
        /\ \A i \in Qubits(k) : /\ xq.x[i] = tb[i].x[q] /\ xq.z[i] = tb[i + k].x[q]
                                /\ xc.x[i] = tb[i].x[c] /\ xc.z[i] = tb[i + k].x[c]
                                /\ zc.x[i] = tb[i].z[c] /\ zc.z[i] = tb[i + k].z[c]
    BY ColumnsAre
  <2>6. Anticommute(xq, xc) = 0 /\ Anticommute(xq, zc) = IF q = c THEN 1 ELSE 0
    BY DualPairs
  <2> HIDE DEF xq, xc, zc
  <2>7. /\ \A i \in Qubits(k) : i \in Clash(xq, xc) <=> ~((xq.x[i] = 1 /\ xc.z[i] = 1) <=> (xq.z[i] = 1 /\ xc.x[i] = 1))
        /\ \A i \in Qubits(k) : i \in Clash(xq, zc) <=> ~((xq.x[i] = 1 /\ zc.z[i] = 1) <=> (xq.z[i] = 1 /\ zc.x[i] = 1))
        /\ Clash(xq, xc) \subseteq Qubits(k) /\ Clash(xq, zc) \subseteq Qubits(k)
    BY <2>5, InClash, ClashIsFinite
  <2>8. Clash(xq, xc) = XHits(tb, k, q, c)
    BY <2>2, <2>3, <2>5, <2>7 DEF XHits
  <2>9. Clash(xq, zc) = ZHits(tb, k, q, c)
    BY <2>2, <2>3, <2>5, <2>7 DEF ZHits
  <2> QED
    BY <2>4, <2>6, <2>8, <2>9 DEF Anticommute
<1> QED
  BY <1>10, <1>11

\* a turn that changes nothing is a whole one, if there is something to turn
LEMMA OnlyWholeTurns ==
  ASSUME NEW a \in Amplitude, a # Zero, NEW e \in Int, Rotate(e, a) = a
  PROVE  e % 4 = 0
<1>1. a[1] \in Int /\ a[2] \in Int /\ ~(a[1] = 0 /\ a[2] = 0)
  BY AmplitudeIs DEF Zero
<1>2. /\ e % 4 \in 0 .. 3
      /\ e % 4 = 1 => a = <<-a[2], a[1]>>
      /\ e % 4 = 2 => a = <<-a[1], -a[2]>>
      /\ e % 4 = 3 => a = <<a[2], -a[1]>>
  BY RotateIs
<1>3. ASSUME NEW c \in Int, NEW d \in Int, c = -d, d = c PROVE c = 0 /\ d = 0
  BY <1>3
<1>4. ASSUME NEW c \in Int, c = -c PROVE c = 0
  BY <1>4
<1>5. CASE e % 4 = 1
  <2>1. a[1] = -a[2] /\ a[2] = a[1]
    BY <1>2, <1>5
  <2> QED
    BY <2>1, <1>1, <1>3
<1>6. CASE e % 4 = 2
  <2>1. a[1] = -a[1] /\ a[2] = -a[2]
    BY <1>2, <1>6
  <2> QED
    BY <2>1, <1>1, <1>4
<1>7. CASE e % 4 = 3
  <2>1. a[1] = a[2] /\ a[2] = -a[1]
    BY <1>2, <1>7
  <2> QED
    BY <2>1, <1>1, <1>3
<1> QED
  BY <1>2, <1>5, <1>6, <1>7

\* a certain outcome: it is the one that is possible
LEMMA CertainKeepsState ==
  ASSUME NEW k \in Nat, NEW tb, IsTableau(tb, k), HasPhases(tb), IsDual(tb, k),
         NEW phi, IsState(phi, k), IsStabilized(tb, k, phi),
         NEW q \in Qubits(k), ~IsRandom(tb, k, q), NEW v, v = CertainOutcome(tb, k, q)
  PROVE  /\ v \in Bit /\ Possible(phi, q, v) /\ ~Possible(phi, q, 1 - v)
         /\ IsState(Project(phi, q, v), k)
         /\ IsStabilized(tb, k, Project(phi, q, v))
<1> DEFINE s == Scratch(tb, k, q)
<1>1. /\ IsRow(s, k) /\ StabilizedBy(phi, s)
      /\ \A c \in Qubits(k) : s.x[c] = 0 /\ s.z[c] = IF c = q THEN 1 ELSE 0
  BY ScratchIsObservable
<1>2. v = IF s.r = 0 THEN 0 ELSE 1
  BY DEF CertainOutcome
<1> HIDE DEF s
<1>3. /\ phi \in Vectors(k) /\ DOMAIN phi = Basis(k) /\ Support(phi) # {}
      /\ \A b \in Basis(k) : phi[b] \in Amplitude /\ b[q] \in Bit
  BY DEF IsState, Vectors, Basis, Qubits, Bit
<1>4. ASSUME NEW b \in Basis(k), phi[b] # Zero
      PROVE  b[q] = v
  <2>1. IsZ(s, k, q)
    BY <1>1 DEF IsZ
  <2>2. b[q] \in Bit /\ Flipped(s, b) = b /\ Power(s, b) = s.r + 2 * b[q]
    BY <2>1, ZRowPower
  <2>3. phi[b] = Rotate(Power(s, b), phi[b]) /\ phi[b] \in Amplitude
    BY <2>2, <1>1, <1>3, StabilizedIs
  <2>4. s.r \in 0 .. 3 /\ s.r + 2 * b[q] \in Int
    BY <1>1, <2>2 DEF IsRow, Bit
  <2>5. (s.r + 2 * b[q]) % 4 = 0
    <3>1. Power(s, b) \in Int /\ Rotate(Power(s, b), phi[b]) = phi[b]
      BY <2>2, <2>3, <2>4
    <3>2. Power(s, b) % 4 = 0
      BY <3>1, <2>3, <1>4, OnlyWholeTurns
    <3> QED
      BY <3>2, <2>2
  <2>6. ASSUME NEW r \in 0 .. 3, NEW c \in Bit, (r + 2 * c) % 4 = 0 PROVE c = IF r = 0 THEN 0 ELSE 1
    BY <2>6 DEF Bit
  <2> QED
    BY <2>2, <2>4, <2>5, <2>6, <1>2
<1>5. v \in Bit
  BY <1>2 DEF Bit
<1>6. Possible(phi, q, v) /\ ~Possible(phi, q, 1 - v)
  <2>1. v # 1 - v
    BY <1>5 DEF Bit
  <2> QED
    BY <2>1, <1>3, <1>4 DEF Possible, Support
<1> DEFINE psi2 == Project(phi, q, v)
<1>7. /\ IsState(psi2, k)
      /\ \A row : IsRow(row, k) /\ StabilizedBy(phi, row) /\ row.x[q] = 0 => StabilizedBy(psi2, row)
  BY <1>5, <1>6, ProjectStabilizes
<1> HIDE DEF psi2
<1>8. ASSUME NEW i \in k .. 2 * k - 1
      PROVE  StabilizedBy(psi2, tb[i])
  <2>1. i \in 0 .. 2 * k - 1 /\ i - k \in 0 .. k - 1 /\ k + (i - k) = i
    OBVIOUS
  <2>2. IsRow(tb[i], k) /\ StabilizedBy(phi, tb[i])
    BY <2>1, RowsAreRows DEF IsStabilized
  <2>3. tb[i].x[q] # 1
    BY <2>1 DEF IsRandom, Pivots
  <2>4. tb[i].x[q] \in Bit
    BY <2>2 DEF IsRow, HasBits
  <2>5. tb[i].x[q] = 0
    BY <2>3, <2>4 DEF Bit
  <2> QED
    BY <2>2, <2>5, <1>7
<1>9. IsStabilized(tb, k, psi2)
  BY <1>8 DEF IsStabilized
<1> QED
  BY <1>5, <1>6, <1>7, <1>9 DEF psi2

-----------------------------------------------------------------------------
(* From the start, and through gates.                                         *)

\* init_state: Z on every qubit stabilizes the ground state
LEMMA GroundIsState ==
  ASSUME NEW k \in Nat
  PROVE  /\ IsState(GroundState(k), k) /\ HasPhases(InitTableau(k))
         /\ IsStabilized(InitTableau(k), k, GroundState(k))
<1> DEFINE g == GroundState(k)
           tb == InitTableau(k)
           o == [q \in 0 .. k - 1 |-> 0]
<1>1. Zero \in Amplitude /\ <<1, 0>> \in Amplitude /\ <<1, 0>> # Zero
  BY DEF Amplitude, Zero
<1>2. \A b \in Basis(k) : DOMAIN b = Qubits(k)
  BY DEF Basis, Qubits
<1>3. g \in Vectors(k) /\ DOMAIN g = Basis(k)
  BY <1>1 DEF Vectors, GroundState
<1>4. \A b \in Basis(k) : g[b] = IF \A q \in Qubits(k) : b[q] = 0 THEN <<1, 0>> ELSE Zero
  BY <1>2 DEF GroundState
<1>5. o \in Basis(k) /\ \A q \in Qubits(k) : o[q] = 0
  BY DEF Basis, Qubits
<1> HIDE DEF g, o
<1>6. Support(g) # {}
  BY <1>1, <1>3, <1>4, <1>5 DEF Support
<1>7. IsState(g, k)
  BY <1>3, <1>6 DEF IsState
<1>8. DOMAIN tb = 0 .. 2 * k - 1 /\ \A i \in 0 .. 2 * k - 1 : tb[i] = RowSet(k, i) /\ tb[i].r = 0
  BY DEF InitTableau, RowSet
<1> HIDE DEF tb
<1>9. HasPhases(tb)
  BY <1>8 DEF HasPhases
<1>10. ASSUME NEW i \in k .. 2 * k - 1
       PROVE  StabilizedBy(g, tb[i])
  <2> DEFINE q == i - k
  <2>1. q \in Qubits(k) /\ i \in 0 .. 2 * k - 1 /\ \A c \in Qubits(k) : c # i /\ (c + k = i <=> c = q)
    BY DEF Qubits
  <2> HIDE DEF q
  <2>2. /\ HasBits(tb[i], k) /\ tb[i].r = 0
        /\ \A c \in Qubits(k) : /\ tb[i].x[c] = IF c = i THEN 1 ELSE 0
                                /\ tb[i].z[c] = IF c + k = i THEN 1 ELSE 0
    BY <2>1, <1>8, RowSetIs
  <2>3. IsZ(tb[i], k, q)
    BY <2>1, <2>2 DEF IsZ, IsRow
  <2>4. ASSUME NEW b \in Basis(k)
        PROVE  g[Flipped(tb[i], b)] = Rotate(Power(tb[i], b), g[b])
    <3>1. b[q] \in Bit /\ Flipped(tb[i], b) = b /\ Power(tb[i], b) = tb[i].r + 2 * b[q]
      BY <2>1, <2>3, ZRowPower
    <3>2. Power(tb[i], b) = 2 * b[q] /\ 2 * b[q] \in Int /\ g[b] \in Amplitude
      BY <3>1, <2>2, <1>3 DEF Bit, Vectors
    <3>3. CASE b[q] = 0
      <4>1. (2 * b[q]) % 4 = 0
        BY <3>3
      <4> QED
        BY <4>1, <3>1, <3>2, RotateIs
    <3>4. CASE b[q] # 0
      <4>1. g[b] = Zero
        BY <3>4, <2>1, <1>4
      <4> QED
        BY <4>1, <3>1, <3>2, RotateZero
    <3> QED
      BY <3>3, <3>4
  <2> QED
    BY <2>4, <1>3, StabilizedFrom
<1>11. IsStabilized(tb, k, g)
  BY <1>10 DEF IsStabilized
<1> QED
  BY <1>7, <1>9, <1>11 DEF g, tb

\* a gate on every row
LEMMA GatesKeepState ==
  ASSUME NEW k \in Nat, NEW tb, IsTableau(tb, k), HasPhases(tb),
         NEW phi, IsState(phi, k), IsStabilized(tb, k, phi), NEW q \in Qubits(k)
  PROVE  /\ HasPhases(Hadamard(tb, q)) /\ IsState(ApplyH(phi, q), k)
         /\ IsStabilized(Hadamard(tb, q), k, ApplyH(phi, q))
         /\ HasPhases(Phase(tb, q)) /\ IsState(ApplyS(phi, q), k)
         /\ IsStabilized(Phase(tb, q), k, ApplyS(phi, q))
         /\ HasPhases(PauliX(tb, q)) /\ IsState(ApplyX(phi, q), k)
         /\ IsStabilized(PauliX(tb, q), k, ApplyX(phi, q))
         /\ HasPhases(PauliY(tb, q)) /\ IsState(ApplyY(phi, q), k)
         /\ IsStabilized(PauliY(tb, q), k, ApplyY(phi, q))
         /\ HasPhases(PauliZ(tb, q)) /\ IsState(ApplyZ(phi, q), k)
         /\ IsStabilized(PauliZ(tb, q), k, ApplyZ(phi, q))
<1>1. DOMAIN tb = 0 .. 2 * k - 1
  BY DEF IsTableau
<1>2. \A i \in 0 .. 2 * k - 1 : IsRow(tb[i], k)
  BY RowsAreRows
<1>3. \A i \in k .. 2 * k - 1 : i \in 0 .. 2 * k - 1 /\ StabilizedBy(phi, tb[i])
  BY DEF IsStabilized
<1>4. /\ DOMAIN Hadamard(tb, q) = DOMAIN tb /\ DOMAIN Phase(tb, q) = DOMAIN tb
      /\ \A i \in DOMAIN tb : Hadamard(tb, q)[i] = HadamardRow(tb[i], q) /\ Phase(tb, q)[i] = PhaseRow(tb[i], q)
  BY DEF Hadamard, Phase
<1>5. DOMAIN PauliX(tb, q) = DOMAIN tb /\ \A i \in DOMAIN tb : PauliX(tb, q)[i] = PauliXRow(tb[i], q)
  BY DEF PauliX, PauliXRow, Hadamard, Phase
<1>6. DOMAIN PauliZ(tb, q) = DOMAIN tb /\ \A i \in DOMAIN tb : PauliZ(tb, q)[i] = PauliZRow(tb[i], q)
  BY SMTT(20) DEF PauliZ, PauliZRow, Phase
<1>7. DOMAIN PauliY(tb, q) = DOMAIN tb /\ \A i \in DOMAIN tb : PauliY(tb, q)[i] = PauliYRow(tb[i], q)
  BY DEF PauliY, PauliYRow, PauliX, PauliXRow, PauliZ, PauliZRow, Hadamard, Phase
<1>8. \A row : IsRow(row, k) => /\ IsRow(HadamardRow(row, q), k) /\ IsRow(PhaseRow(row, q), k)
                                /\ IsTurned(row, PauliXRow(row, q), k, row.z[q] = 1)
                                /\ IsTurned(row, PauliYRow(row, q), k, row.x[q] # row.z[q])
                                /\ IsTurned(row, PauliZRow(row, q), k, row.x[q] = 1)
  BY HadamardRowPhase, PhaseRowPhase, PauliXRowIs, PauliYRowIs, PauliZRowIs
<1>9. \A row : IsRow(row, k) => /\ IsRow(PauliXRow(row, q), k) /\ IsRow(PauliYRow(row, q), k)
                                /\ IsRow(PauliZRow(row, q), k)
  BY <1>8 DEF IsTurned
<1>10. /\ HasPhases(Hadamard(tb, q)) /\ IsState(ApplyH(phi, q), k)
       /\ IsStabilized(Hadamard(tb, q), k, ApplyH(phi, q))
  <2>1. HasPhases(Hadamard(tb, q))
    BY <1>1, <1>2, <1>4, <1>8 DEF HasPhases, IsRow
  <2>2. /\ IsState(ApplyH(phi, q), k)
        /\ \A row : IsRow(row, k) /\ StabilizedBy(phi, row) => StabilizedBy(ApplyH(phi, q), HadamardRow(row, q))
    BY HadamardStabilizes
  <2>3. IsStabilized(Hadamard(tb, q), k, ApplyH(phi, q))
    BY <2>2, <1>1, <1>2, <1>3, <1>4 DEF IsStabilized
  <2> QED
    BY <2>1, <2>2, <2>3
<1>11. /\ HasPhases(Phase(tb, q)) /\ IsState(ApplyS(phi, q), k)
       /\ IsStabilized(Phase(tb, q), k, ApplyS(phi, q))
  <2>1. HasPhases(Phase(tb, q))
    BY <1>1, <1>2, <1>4, <1>8 DEF HasPhases, IsRow
  <2>2. /\ IsState(ApplyS(phi, q), k)
        /\ \A row : IsRow(row, k) /\ StabilizedBy(phi, row) => StabilizedBy(ApplyS(phi, q), PhaseRow(row, q))
    BY PhaseStabilizes
  <2>3. IsStabilized(Phase(tb, q), k, ApplyS(phi, q))
    BY <2>2, <1>1, <1>2, <1>3, <1>4 DEF IsStabilized
  <2> QED
    BY <2>1, <2>2, <2>3
<1>12. HasPhases(PauliX(tb, q)) /\ HasPhases(PauliY(tb, q)) /\ HasPhases(PauliZ(tb, q))
  BY <1>1, <1>2, <1>5, <1>6, <1>7, <1>9 DEF HasPhases, IsRow
<1>13. /\ IsState(ApplyX(phi, q), k) /\ IsStabilized(PauliX(tb, q), k, ApplyX(phi, q))
       /\ IsState(ApplyY(phi, q), k) /\ IsStabilized(PauliY(tb, q), k, ApplyY(phi, q))
  <2>1. /\ IsState(ApplyX(phi, q), k) /\ IsState(ApplyY(phi, q), k)
        /\ \A row : IsRow(row, k) /\ StabilizedBy(phi, row)
                        => /\ StabilizedBy(ApplyX(phi, q), PauliXRow(row, q))
                           /\ StabilizedBy(ApplyY(phi, q), PauliYRow(row, q))
    BY PauliXAndYStabilize
  <2>2. IsStabilized(PauliX(tb, q), k, ApplyX(phi, q))
    BY <2>1, <1>1, <1>2, <1>3, <1>5 DEF IsStabilized
  <2>3. IsStabilized(PauliY(tb, q), k, ApplyY(phi, q))
    BY <2>1, <1>1, <1>2, <1>3, <1>7 DEF IsStabilized
  <2> QED
    BY <2>1, <2>2, <2>3
<1>14. IsState(ApplyZ(phi, q), k) /\ IsStabilized(PauliZ(tb, q), k, ApplyZ(phi, q))
  <2>1. /\ IsState(ApplyZ(phi, q), k)
        /\ \A row, row2 : IsTurned(row, row2, k, row.x[q] = 1) /\ StabilizedBy(phi, row)
                              => StabilizedBy(ApplyZ(phi, q), row2)
    BY PauliZStabilizes
  <2>2. \A row : IsRow(row, k) /\ StabilizedBy(phi, row) => StabilizedBy(ApplyZ(phi, q), PauliZRow(row, q))
    BY <2>1, <1>8
  <2>3. IsStabilized(PauliZ(tb, q), k, ApplyZ(phi, q))
    BY <2>2, <1>1, <1>2, <1>3, <1>6 DEF IsStabilized
  <2> QED
    BY <2>1, <2>3
<1> QED
  BY <1>10, <1>11, <1>12, <1>13, <1>14

\* the controlled not
LEMMA CnotKeepsState ==
  ASSUME NEW k \in Nat, NEW tb, IsTableau(tb, k), HasPhases(tb),
         NEW phi, IsState(phi, k), IsStabilized(tb, k, phi),
         NEW c \in Qubits(k), NEW t \in Qubits(k), c # t
  PROVE  /\ HasPhases(Cnot(tb, c, t)) /\ IsState(ApplyCnot(phi, c, t), k)
         /\ IsStabilized(Cnot(tb, c, t), k, ApplyCnot(phi, c, t))
<1>1. DOMAIN tb = 0 .. 2 * k - 1 /\ DOMAIN Cnot(tb, c, t) = 0 .. 2 * k - 1
  BY DEF IsTableau, Cnot
<1>2. \A i \in 0 .. 2 * k - 1 : IsRow(tb[i], k) /\ Cnot(tb, c, t)[i] = CnotRow(tb[i], c, t)
  BY <1>1, RowsAreRows DEF Cnot
<1>3. \A i \in k .. 2 * k - 1 : i \in 0 .. 2 * k - 1 /\ StabilizedBy(phi, tb[i])
  BY DEF IsStabilized
<1>4. \A row : IsRow(row, k) => IsRow(CnotRow(row, c, t), k)
  BY CnotRowPhase
<1>5. HasPhases(Cnot(tb, c, t))
  BY <1>1, <1>2, <1>4 DEF HasPhases, IsRow
<1>6. /\ IsState(ApplyCnot(phi, c, t), k)
      /\ \A row : IsRow(row, k) /\ StabilizedBy(phi, row) => StabilizedBy(ApplyCnot(phi, c, t), CnotRow(row, c, t))
  BY CnotStabilizes
<1>7. IsStabilized(Cnot(tb, c, t), k, ApplyCnot(phi, c, t))
  BY <1>6, <1>2, <1>3 DEF IsStabilized
<1> QED
  BY <1>5, <1>6, <1>7

-----------------------------------------------------------------------------
(* The rows, the words and the state vector together.                         *)

Simulates(tb, ws, phi, k) ==
    /\ IsTableau(tb, k) /\ HasPhases(tb) /\ IsBasis(tb, k) /\ IsDual(tb, k)
    /\ IsState(phi, k) /\ IsStabilized(tb, k, phi)
    /\ \A w \in WordSizes : Packs(w, k, ws[w], tb)

\* a word size is one that fits
LEMMA WordSizeIs ==
  ASSUME NEW w \in WordSizes
  PROVE  w \in 1 .. Width
  BY WordSizesAssumption

\* init_state
LEMMA GroundSimulates ==
  ASSUME NEW k \in Nat
  PROVE  Simulates(InitTableau(k), [w \in WordSizes |-> InitWords(w, k)], GroundState(k), k)
<1>1. IsTableau(InitTableau(k), k) /\ IsBasis(InitTableau(k), k) /\ IsDual(InitTableau(k), k)
  BY InitTableauIsBasis, InitTableauIsDual
<1>2. \A w \in WordSizes : Packs(w, k, InitWords(w, k), InitTableau(k))
  BY WordSizeIs, InitPacks
<1> QED
  BY <1>1, <1>2, GroundIsState DEF Simulates

\* each gate keeps all of it
LEMMA HadamardSimulates ==
  ASSUME NEW k \in Nat, NEW tb, NEW ws, NEW phi, Simulates(tb, ws, phi, k), NEW q \in Qubits(k)
  PROVE  Simulates(Hadamard(tb, q), [w \in WordSizes |-> HadamardWords(w, ws[w], q)], ApplyH(phi, q), k)
<1>1. /\ IsTableau(tb, k) /\ HasPhases(tb) /\ IsBasis(tb, k) /\ IsDual(tb, k)
      /\ IsState(phi, k) /\ IsStabilized(tb, k, phi)
  BY DEF Simulates
<1>2. \A w \in WordSizes : Packs(w, k, HadamardWords(w, ws[w], q), Hadamard(tb, q))
  BY WordSizeIs, HadamardPacks DEF Simulates
<1>3. IsTableau(Hadamard(tb, q), k) /\ IsBasis(Hadamard(tb, q), k) /\ IsDual(Hadamard(tb, q), k)
  BY <1>1, HadamardKeepsBasis, HadamardKeepsDual
<1>4. /\ HasPhases(Hadamard(tb, q)) /\ IsState(ApplyH(phi, q), k)
      /\ IsStabilized(Hadamard(tb, q), k, ApplyH(phi, q))
  BY <1>1, GatesKeepState
<1> QED
  BY <1>2, <1>3, <1>4 DEF Simulates

\* the phase gate
LEMMA PhaseSimulates ==
  ASSUME NEW k \in Nat, NEW tb, NEW ws, NEW phi, Simulates(tb, ws, phi, k), NEW q \in Qubits(k)
  PROVE  Simulates(Phase(tb, q), [w \in WordSizes |-> PhaseWords(w, ws[w], q)], ApplyS(phi, q), k)
<1>1. /\ IsTableau(tb, k) /\ HasPhases(tb) /\ IsBasis(tb, k) /\ IsDual(tb, k)
      /\ IsState(phi, k) /\ IsStabilized(tb, k, phi)
  BY DEF Simulates
<1>2. \A w \in WordSizes : Packs(w, k, PhaseWords(w, ws[w], q), Phase(tb, q))
  BY WordSizeIs, PhasePacks DEF Simulates
<1>3. IsTableau(Phase(tb, q), k) /\ IsBasis(Phase(tb, q), k) /\ IsDual(Phase(tb, q), k)
  BY <1>1, PhaseKeepsBasis, PhaseKeepsDual
<1>4. /\ HasPhases(Phase(tb, q)) /\ IsState(ApplyS(phi, q), k)
      /\ IsStabilized(Phase(tb, q), k, ApplyS(phi, q))
  BY <1>1, GatesKeepState
<1> QED
  BY <1>2, <1>3, <1>4 DEF Simulates

\* the Pauli gates
LEMMA PaulisSimulate ==
  ASSUME NEW k \in Nat, NEW tb, NEW ws, NEW phi, Simulates(tb, ws, phi, k), NEW q \in Qubits(k)
  PROVE  /\ Simulates(PauliX(tb, q), [w \in WordSizes |-> PauliXWords(w, ws[w], q)], ApplyX(phi, q), k)
         /\ Simulates(PauliY(tb, q), [w \in WordSizes |-> PauliYWords(w, ws[w], q)], ApplyY(phi, q), k)
         /\ Simulates(PauliZ(tb, q), [w \in WordSizes |-> PauliZWords(w, ws[w], q)], ApplyZ(phi, q), k)
<1>1. /\ IsTableau(tb, k) /\ HasPhases(tb) /\ IsBasis(tb, k) /\ IsDual(tb, k)
      /\ IsState(phi, k) /\ IsStabilized(tb, k, phi)
  BY DEF Simulates
<1>2. \A w \in WordSizes : /\ Packs(w, k, PauliXWords(w, ws[w], q), PauliX(tb, q))
                           /\ Packs(w, k, PauliYWords(w, ws[w], q), PauliY(tb, q))
                           /\ Packs(w, k, PauliZWords(w, ws[w], q), PauliZ(tb, q))
  BY WordSizeIs, PaulisPack DEF Simulates
<1>3. /\ IsTableau(PauliX(tb, q), k) /\ IsBasis(PauliX(tb, q), k)
      /\ IsTableau(PauliY(tb, q), k) /\ IsBasis(PauliY(tb, q), k)
      /\ IsTableau(PauliZ(tb, q), k) /\ IsBasis(PauliZ(tb, q), k)
  BY <1>1, PaulisKeepBasis
<1>4. IsDual(PauliX(tb, q), k) /\ IsDual(PauliY(tb, q), k) /\ IsDual(PauliZ(tb, q), k)
  BY <1>1, PaulisKeepDual
<1>5. /\ HasPhases(PauliX(tb, q)) /\ IsState(ApplyX(phi, q), k)
      /\ IsStabilized(PauliX(tb, q), k, ApplyX(phi, q))
      /\ HasPhases(PauliY(tb, q)) /\ IsState(ApplyY(phi, q), k)
      /\ IsStabilized(PauliY(tb, q), k, ApplyY(phi, q))
      /\ HasPhases(PauliZ(tb, q)) /\ IsState(ApplyZ(phi, q), k)
      /\ IsStabilized(PauliZ(tb, q), k, ApplyZ(phi, q))
  BY <1>1, GatesKeepState
<1> QED
  BY <1>2, <1>3, <1>4, <1>5 DEF Simulates

\* the controlled not
LEMMA CnotSimulates ==
  ASSUME NEW k \in Nat, NEW tb, NEW ws, NEW phi, Simulates(tb, ws, phi, k),
         NEW c \in Qubits(k), NEW t \in Qubits(k), c # t
  PROVE  Simulates(Cnot(tb, c, t), [w \in WordSizes |-> CnotWords(w, ws[w], c, t)], ApplyCnot(phi, c, t), k)
<1>1. /\ IsTableau(tb, k) /\ HasPhases(tb) /\ IsBasis(tb, k) /\ IsDual(tb, k)
      /\ IsState(phi, k) /\ IsStabilized(tb, k, phi)
  BY DEF Simulates
<1>2. \A w \in WordSizes : Packs(w, k, CnotWords(w, ws[w], c, t), Cnot(tb, c, t))
  BY WordSizeIs, CnotPacks DEF Simulates
<1>3. IsTableau(Cnot(tb, c, t), k) /\ IsBasis(Cnot(tb, c, t), k) /\ IsDual(Cnot(tb, c, t), k)
  BY <1>1, CnotKeepsBasis, CnotKeepsDual
<1>4. /\ HasPhases(Cnot(tb, c, t)) /\ IsState(ApplyCnot(phi, c, t), k)
      /\ IsStabilized(Cnot(tb, c, t), k, ApplyCnot(phi, c, t))
  BY <1>1, CnotKeepsState
<1> QED
  BY <1>2, <1>3, <1>4 DEF Simulates

\* a measurement with a random outcome, whatever the generator answers
LEMMA RandomSimulates ==
  ASSUME NEW k \in Nat, NEW tb, NEW ws, NEW phi, Simulates(tb, ws, phi, k), NEW q \in Qubits(k),
         IsRandom(tb, k, q), NEW v \in Bit
  PROVE  /\ Possible(phi, q, v) /\ Possible(phi, q, 1 - v)
         /\ Simulates(Collapse(tb, k, q, v), [w \in WordSizes |-> MeasureWords(w, ws[w], k, q, v).rows],
                      Project(phi, q, v), k)
         /\ \A w \in WordSizes : MeasureWords(w, ws[w], k, q, v).outcome = v
<1>1. /\ IsTableau(tb, k) /\ HasPhases(tb) /\ IsBasis(tb, k) /\ IsDual(tb, k)
      /\ IsState(phi, k) /\ IsStabilized(tb, k, phi)
  BY DEF Simulates
<1>2. ASSUME NEW w \in WordSizes
      PROVE  /\ Packs(w, k, MeasureWords(w, ws[w], k, q, v).rows, Collapse(tb, k, q, v))
             /\ MeasureWords(w, ws[w], k, q, v).outcome = v
  <2>1. Packs(w, k, ws[w], tb) /\ w \in 1 .. Width
    BY WordSizeIs DEF Simulates
  <2> QED
    BY <2>1, <1>1, MeasurePacks
<1>3. /\ IsTableau(Collapse(tb, k, q, v), k) /\ IsBasis(Collapse(tb, k, q, v), k)
      /\ IsDual(Collapse(tb, k, q, v), k)
  BY <1>1, CollapseKeepsBasis, CollapseKeepsDual
<1>4. /\ Possible(phi, q, 0) /\ Possible(phi, q, 1)
      /\ HasPhases(Collapse(tb, k, q, v)) /\ IsState(Project(phi, q, v), k)
      /\ IsStabilized(Collapse(tb, k, q, v), k, Project(phi, q, v))
  BY <1>1, RandomKeepsState
<1>5. (v = 0 /\ 1 - v = 1) \/ (v = 1 /\ 1 - v = 0)
  BY DEF Bit
<1>6. Possible(phi, q, v) /\ Possible(phi, q, 1 - v)
  BY <1>4, <1>5
<1>7. Simulates(Collapse(tb, k, q, v), [w \in WordSizes |-> MeasureWords(w, ws[w], k, q, v).rows],
                Project(phi, q, v), k)
  BY <1>2, <1>3, <1>4 DEF Simulates
<1> QED
  BY <1>2, <1>6, <1>7

\* a measurement whose outcome is certain
LEMMA CertainSimulates ==
  ASSUME NEW k \in Nat, NEW tb, NEW ws, NEW phi, Simulates(tb, ws, phi, k), NEW q \in Qubits(k),
         ~IsRandom(tb, k, q), NEW v, v = CertainOutcome(tb, k, q)
  PROVE  /\ Possible(phi, q, v) /\ ~Possible(phi, q, 1 - v)
         /\ Simulates(tb, [w \in WordSizes |-> MeasureWords(w, ws[w], k, q, v).rows], Project(phi, q, v), k)
         /\ \A w \in WordSizes : MeasureWords(w, ws[w], k, q, v).outcome = v
<1>1. /\ IsTableau(tb, k) /\ HasPhases(tb) /\ IsBasis(tb, k) /\ IsDual(tb, k)
      /\ IsState(phi, k) /\ IsStabilized(tb, k, phi)
  BY DEF Simulates
<1>2. ASSUME NEW w \in WordSizes
      PROVE  /\ Packs(w, k, MeasureWords(w, ws[w], k, q, v).rows, tb)
             /\ MeasureWords(w, ws[w], k, q, v).outcome = CertainOutcome(tb, k, q)
  <2>1. Packs(w, k, ws[w], tb) /\ w \in 1 .. Width
    BY WordSizeIs DEF Simulates
  <2> QED
    BY <2>1, <1>1, MeasurePacks
<1>3. /\ Possible(phi, q, v) /\ ~Possible(phi, q, 1 - v)
      /\ IsState(Project(phi, q, v), k) /\ IsStabilized(tb, k, Project(phi, q, v))
  BY <1>1, CertainKeepsState
<1>4. Simulates(tb, [w \in WordSizes |-> MeasureWords(w, ws[w], k, q, v).rows], Project(phi, q, v), k)
  BY <1>1, <1>2, <1>3 DEF Simulates
<1> QED
  BY <1>2, <1>3, <1>4

-----------------------------------------------------------------------------
(* Elimination.                                                               *)

\* 1 for a stabilizer and its destabilizer
Paired(i, j, k) == IF j = i + k \/ i = j + k THEN 1 ELSE 0

\* a row of a basis anticommutes with its partner only
LEMMA BasisIsPaired ==
  ASSUME NEW k \in Nat, NEW tb, IsTableau(tb, k)
  PROVE  IsBasis(tb, k) <=>
           \A i, j \in 0 .. 2 * k - 1 : Anticommute(tb[i], tb[j]) = Paired(i, j, k)
<1>1. IsBasis(tb, k) <=>
           \A i, j \in 0 .. 2 * k - 1 :
               i # j => Anticommute(tb[i], tb[j]) = IF j = i + k \/ i = j + k THEN 1 ELSE 0
  BY BasisPairs
<1>2. ASSUME NEW i \in 0 .. 2 * k - 1
      PROVE  Anticommute(tb[i], tb[i]) = Paired(i, i, k)
  <2>1. Anticommute(tb[i], tb[i]) = 0
    BY NoClashWithItself DEF IsTableau
  <2>2. i # i + k
    OBVIOUS
  <2> QED
    BY <2>1, <2>2 DEF Paired
<1> QED
  BY <1>1, <1>2 DEF Paired

\* the row that stands where m stood when the pairs of i and j change places
Exchanged(m, i, j, k) ==
    IF m = i THEN j ELSE IF m = j THEN i
    ELSE IF m = i - k THEN j - k ELSE IF m = j - k THEN i - k ELSE m

IsExchanged(new, tb, i, j, k) ==
    /\ DOMAIN new = 0 .. 2 * k - 1
    /\ \A m \in 0 .. 2 * k - 1 : /\ Exchanged(m, i, j, k) \in 0 .. 2 * k - 1
                                 /\ m >= k => Exchanged(m, i, j, k) >= k
                                 /\ new[m] = tb[Exchanged(m, i, j, k)]

\* rowswap of two stabilizers and of their destabilizers
LEMMA SwapIs ==
  ASSUME NEW k \in Nat, NEW tb, DOMAIN tb = 0 .. 2 * k - 1,
         NEW i \in k .. 2 * k - 1, NEW j \in k .. 2 * k - 1,
         NEW new, new = RowSwap(RowSwap(tb, i, j), i - k, j - k)
  PROVE  IsExchanged(new, tb, i, j, k)
<1> DEFINE I == 0 .. 2 * k - 1
           one == RowSwap(tb, i, j)
<1>0. new = RowSwap(one, i - k, j - k)
  OBVIOUS
<1>1. /\ i \in I /\ j \in I /\ i - k \in I /\ j - k \in I
      /\ i # i - k /\ i # j - k /\ j # i - k /\ j # j - k
  OBVIOUS
<1>2. /\ DOMAIN one = I
      /\ \A m \in I : one[m] = IF m = j THEN tb[i] ELSE IF m = i THEN tb[j] ELSE tb[m]
  BY <1>1 DEF RowSwap
<1> HIDE DEF one
<1>3. /\ DOMAIN new = I
      /\ \A m \in I : new[m] = IF m = j - k THEN one[i - k] ELSE IF m = i - k THEN one[j - k] ELSE one[m]
  BY <1>0, <1>1, <1>2 DEF RowSwap
<1>4. ASSUME NEW m \in I
      PROVE  /\ Exchanged(m, i, j, k) \in I /\ (m >= k => Exchanged(m, i, j, k) >= k)
             /\ new[m] = tb[Exchanged(m, i, j, k)]
  <2>1. new[m] = IF m = j - k THEN tb[i - k] ELSE IF m = i - k THEN tb[j - k]
                 ELSE IF m = j THEN tb[i] ELSE IF m = i THEN tb[j] ELSE tb[m]
    BY <1>1, <1>2, <1>3
  <2> QED
    BY <2>1, <1>1 DEF Exchanged
<1> QED
  BY <1>3, <1>4 DEF IsExchanged

\* it keeps a basis
LEMMA SwapKeepsBasis ==
  ASSUME NEW k \in Nat, NEW tb, IsTableau(tb, k), IsBasis(tb, k),
         NEW i \in k .. 2 * k - 1, NEW j \in k .. 2 * k - 1,
         NEW new, IsExchanged(new, tb, i, j, k)
  PROVE  IsTableau(new, k) /\ IsBasis(new, k)
<1> DEFINE I == 0 .. 2 * k - 1
           to(m) == Exchanged(m, i, j, k)
<1>1. DOMAIN tb = I /\ \A m \in I : HasBits(tb[m], k)
  BY DEF IsTableau
<1>2. DOMAIN new = I /\ \A m \in I : to(m) \in I /\ new[m] = tb[to(m)]
  BY <1>1 DEF IsExchanged
<1>3. IsTableau(new, k)
  BY <1>1, <1>2 DEF IsTableau
<1>4. \A a, b \in I : Anticommute(tb[a], tb[b]) = Paired(a, b, k)
  BY BasisIsPaired
<1>5. ASSUME NEW a \in I, NEW b \in I
      PROVE  Anticommute(new[a], new[b]) = Paired(a, b, k)
  <2>1. Anticommute(new[a], new[b]) = Paired(to(a), to(b), k)
    BY <1>2, <1>4
  <2>2. Paired(to(a), to(b), k) = Paired(a, b, k)
    BY DEF Paired, Exchanged
  <2> QED
    BY <2>1, <2>2
<1> QED
  BY <1>3, <1>5, BasisIsPaired

IsEliminated(new, tb, i, j, k) ==
    /\ DOMAIN new = 0 .. 2 * k - 1
    /\ new[j] = RowMult(tb[j], tb[i]) /\ new[i - k] = RowMult(tb[i - k], tb[j - k])
    /\ \A m \in (0 .. 2 * k - 1) \ {j, i - k} : new[m] = tb[m]

\* stabilizer j multiplied by stabilizer i, and the destabilizer of i by that of j
LEMMA EliminateRowIs ==
  ASSUME NEW k \in Nat, NEW tb, DOMAIN tb = 0 .. 2 * k - 1,
         NEW i \in k .. 2 * k - 1, NEW j \in k .. 2 * k - 1, i # j,
         NEW new, new = EliminateRow(tb, k, i, j)
  PROVE  IsEliminated(new, tb, i, j, k)
<1>1. /\ i \in 0 .. 2 * k - 1 /\ j \in 0 .. 2 * k - 1 /\ i - k \in 0 .. 2 * k - 1
      /\ j # i - k
  OBVIOUS
<1> QED
  BY <1>1 DEF EliminateRow, IsEliminated

\* it keeps a basis: i commutes with all but its destabilizer, and the destabilizer of j
\* with all but j; and j and the destabilizer of i change together
LEMMA EliminateRowKeepsBasis ==
  ASSUME NEW k \in Nat, NEW tb, IsTableau(tb, k), IsBasis(tb, k),
         NEW i \in k .. 2 * k - 1, NEW j \in k .. 2 * k - 1, i # j,
         NEW new, IsEliminated(new, tb, i, j, k)
  PROVE  IsTableau(new, k) /\ IsBasis(new, k)
<1> DEFINE I == 0 .. 2 * k - 1
<1>1. DOMAIN tb = I /\ \A m \in I : HasBits(tb[m], k)
  BY DEF IsTableau
<1>2. /\ DOMAIN new = I
      /\ new[j] = RowMult(tb[j], tb[i]) /\ new[i - k] = RowMult(tb[i - k], tb[j - k])
      /\ \A m \in I \ {j, i - k} : new[m] = tb[m]
  BY <1>1 DEF IsEliminated
<1>3. i \in I /\ j \in I /\ i - k \in I /\ j - k \in I /\ j # i - k
  OBVIOUS
<1>4. HasBits(new[j], k) /\ HasBits(new[i - k], k)
  BY <1>1, <1>2, <1>3, RowMultIs
<1>5. \A m \in I : HasBits(new[m], k)
  BY <1>1, <1>2, <1>4
<1>6. IsTableau(new, k)
  BY <1>2, <1>5 DEF IsTableau
<1>7. \A a, b \in I : Anticommute(tb[a], tb[b]) = Paired(a, b, k)
  BY BasisIsPaired
<1>8. ASSUME NEW c, HasBits(c, k)
      PROVE  /\ Anticommute(new[j], c) = Xor(Anticommute(tb[j], c), Anticommute(tb[i], c))
             /\ Anticommute(new[i - k], c) = Xor(Anticommute(tb[i - k], c), Anticommute(tb[j - k], c))
             /\ Anticommute(new[j], c) = Anticommute(c, new[j])
             /\ Anticommute(new[i - k], c) = Anticommute(c, new[i - k])
  BY <1>1, <1>2, <1>3, <1>4, <1>8, RowMultAndClash, ClashIsSymmetric
<1>9. ASSUME NEW b \in I \ {j, i - k}
      PROVE  /\ Anticommute(new[j], new[b]) = Paired(j, b, k)
             /\ Anticommute(new[i - k], new[b]) = Paired(i - k, b, k)
             /\ Anticommute(new[b], new[j]) = Paired(b, j, k)
             /\ Anticommute(new[b], new[i - k]) = Paired(b, i - k, k)
  <2>1. new[b] = tb[b] /\ HasBits(tb[b], k)
    BY <1>1, <1>2
  <2>2. /\ Anticommute(new[j], tb[b]) = Xor(Paired(j, b, k), Paired(i, b, k))
        /\ Anticommute(new[i - k], tb[b]) = Xor(Paired(i - k, b, k), Paired(j - k, b, k))
    BY <2>1, <1>3, <1>7, <1>8
  <2>3. Paired(i, b, k) = 0 /\ Paired(j - k, b, k) = 0
    BY DEF Paired
  <2>4. Xor(Paired(j, b, k), 0) = Paired(j, b, k) /\ Xor(Paired(i - k, b, k), 0) = Paired(i - k, b, k)
    BY DEF Xor, Paired
  <2>5. Paired(j, b, k) = Paired(b, j, k) /\ Paired(i - k, b, k) = Paired(b, i - k, k)
    BY DEF Paired
  <2> QED
    BY <2>1, <2>2, <2>3, <2>4, <2>5, <1>8
<1>10. /\ Anticommute(new[j], new[i - k]) = Paired(j, i - k, k)
       /\ Anticommute(new[i - k], new[j]) = Paired(i - k, j, k)
  <2>1. /\ Anticommute(tb[j], new[i - k]) = Xor(Paired(i - k, j, k), Paired(j - k, j, k))
        /\ Anticommute(tb[i], new[i - k]) = Xor(Paired(i - k, i, k), Paired(j - k, i, k))
    BY <1>1, <1>3, <1>7, <1>8
  <2>2. /\ Paired(i - k, j, k) = 0 /\ Paired(j - k, j, k) = 1
        /\ Paired(i - k, i, k) = 1 /\ Paired(j - k, i, k) = 0 /\ Paired(j, i - k, k) = 0
    BY DEF Paired
  <2>3. Anticommute(tb[j], new[i - k]) = 1 /\ Anticommute(tb[i], new[i - k]) = 1
    BY <2>1, <2>2 DEF Xor
  <2>4. Anticommute(new[j], new[i - k]) = 0
    BY <2>3, <1>4, <1>8 DEF Xor
  <2> QED
    BY <2>2, <2>4, <1>4, <1>8
<1>11. ASSUME NEW a \in I
       PROVE  Anticommute(new[a], new[a]) = Paired(a, a, k)
  <2>1. Anticommute(new[a], new[a]) = 0
    BY <1>5, NoClashWithItself
  <2> QED
    BY <2>1 DEF Paired
<1>12. ASSUME NEW a \in I, NEW b \in I
       PROVE  Anticommute(new[a], new[b]) = Paired(a, b, k)
  <2>1. CASE a \notin {j, i - k} /\ b \notin {j, i - k}
    BY <2>1, <1>2, <1>7
  <2>2. CASE a \in {j, i - k} /\ b \notin {j, i - k}
    BY <2>2, <1>9
  <2>3. CASE a \notin {j, i - k} /\ b \in {j, i - k}
    BY <2>3, <1>9
  <2>4. CASE a \in {j, i - k} /\ b \in {j, i - k}
    BY <2>4, <1>10, <1>11
  <2> QED
    BY <2>1, <2>2, <2>3, <2>4
<1> QED
  BY <1>6, <1>12, BasisIsPaired

\* Induction, for a set instead of a predicate.
LEMMA NatInduct ==
  ASSUME NEW P \in SUBSET Nat, 0 \in P, \A i \in P : i + 1 \in P
  PROVE  P = Nat
<1> DEFINE T == Nat \ P
<1> SUFFICES ASSUME T # {} PROVE FALSE
  OBVIOUS
<1>1. Min(T) \in T /\ \A k \in T : Min(T) <= k
  BY SmallestNat
<1>2. Min(T) \in Nat /\ Min(T) # 0
  BY <1>1
<1>3. Min(T) - 1 \in Nat /\ ~(Min(T) <= Min(T) - 1)
  BY <1>2
<1>4. Min(T) - 1 \in P
  BY <1>1, <1>3
<1>5. (Min(T) - 1) + 1 \in P
  BY <1>4
<1> QED
  BY <1>1, <1>2, <1>5

\* g goes from lo to hi, from a on, each value the function f of the one before and of its place
IsChain(g, S, a, f, lo, hi) ==
    /\ g \in [lo .. hi -> S] /\ g[lo] = a
    /\ \A m \in lo + 1 .. hi : g[m] = f[<<g[m - 1], m>>]

LEMMA ChainExists ==
  ASSUME NEW S, NEW a \in S, NEW f \in [S \X Int -> S], NEW lo \in Int, NEW hi \in Int, lo <= hi
  PROVE  \E g : IsChain(g, S, a, f, lo, hi)
<1> DEFINE P == {d \in Nat : \E g : IsChain(g, S, a, f, lo, lo + d)}
<1>1. 0 \in P
  <2>1. lo + 0 = lo
    OBVIOUS
  <2>2. IsChain([i \in lo .. lo |-> a], S, a, f, lo, lo)
    BY DEF IsChain
  <2> QED
    BY <2>1, <2>2
<1>2. ASSUME NEW d \in P PROVE d + 1 \in P
  <2> DEFINE e == lo + d
  <2>1. d \in Nat /\ e \in Int /\ lo <= e /\ lo + (d + 1) = e + 1
    BY <1>2
  <2>2. PICK g : IsChain(g, S, a, f, lo, e)
    BY <1>2
  <2> HIDE DEF e
  <2> DEFINE v == f[<<g[e], e + 1>>]
             h == [i \in lo .. e + 1 |-> IF i = e + 1 THEN v ELSE g[i]]
  <2>3. e \in lo .. e /\ g[e] \in S /\ <<g[e], e + 1>> \in S \X Int
    BY <2>1, <2>2 DEF IsChain
  <2>4. v \in S
    BY <2>3
  <2> HIDE DEF v
  <2>5. h \in [lo .. e + 1 -> S] /\ h[lo] = a /\ h[e + 1] = v
    BY <2>1, <2>2, <2>4 DEF IsChain
  <2>6. \A i \in lo .. e : h[i] = g[i]
    BY <2>1
  <2> HIDE DEF h
  <2>7. ASSUME NEW m \in lo + 1 .. e + 1 PROVE h[m] = f[<<h[m - 1], m>>]
    <3>1. CASE m = e + 1
      <4>1. m - 1 = e /\ h[e] = g[e]
        BY <3>1, <2>1, <2>3, <2>6
      <4> QED
        BY <3>1, <4>1, <2>5 DEF v
    <3>2. CASE m # e + 1
      <4>1. m \in lo + 1 .. e /\ m \in lo .. e /\ m - 1 \in lo .. e
        BY <3>2, <2>1
      <4> QED
        BY <4>1, <2>2, <2>6 DEF IsChain
    <3> QED
      BY <3>1, <3>2
  <2>8. IsChain(h, S, a, f, lo, e + 1)
    BY <2>5, <2>7 DEF IsChain
  <2> QED
    BY <2>1, <2>8
<1>3. P = Nat
  <2>1. P \in SUBSET Nat
    OBVIOUS
  <2> HIDE DEF P
  <2> QED
    BY <1>1, <1>2, <2>1, NatInduct
<1>4. hi - lo \in Nat /\ lo + (hi - lo) = hi
  OBVIOUS
<1>5. hi - lo \in P
  BY <1>3, <1>4
<1> QED
  BY <1>4, <1>5

\* What every step keeps, the last value has.
LEMMA ChainStays ==
  ASSUME NEW S, NEW g, NEW lo \in Int, NEW hi \in Int, lo <= hi, g[lo] \in S,
         \A m \in lo + 1 .. hi : g[m - 1] \in S => g[m] \in S
  PROVE  g[hi] \in S
<1> DEFINE P == {d \in Nat : lo + d <= hi => g[lo + d] \in S}
<1>1. 0 \in P
  BY lo + 0 = lo
<1>2. ASSUME NEW d \in P PROVE d + 1 \in P
  <2> SUFFICES ASSUME lo + (d + 1) <= hi PROVE g[lo + (d + 1)] \in S
    BY <1>2
  <2>1. lo + (d + 1) \in lo + 1 .. hi /\ (lo + (d + 1)) - 1 = lo + d /\ lo + d <= hi
    BY <1>2
  <2>2. g[lo + d] \in S
    BY <1>2, <2>1
  <2> QED
    BY <2>1, <2>2
<1>3. P = Nat
  <2>1. P \in SUBSET Nat
    OBVIOUS
  <2> HIDE DEF P
  <2> QED
    BY <1>1, <1>2, <2>1, NatInduct
<1>4. hi - lo \in Nat /\ lo + (hi - lo) = hi
  OBVIOUS
<1>5. hi - lo \in P
  BY <1>3, <1>4
<1> QED
  BY <1>4, <1>5

\* a tableau whose rows are a basis and whose stabilizers stabilize the vector
IsSound(tb, k, phi) ==
    IsTableau(tb, k) /\ HasPhases(tb) /\ IsBasis(tb, k) /\ IsStabilized(tb, k, phi)

LEMMA SwapIsSound ==
  ASSUME NEW k \in Nat, NEW tb, NEW phi, IsSound(tb, k, phi),
         NEW i \in k .. 2 * k - 1, NEW j \in k .. 2 * k - 1
  PROVE  IsSound(RowSwap(RowSwap(tb, i, j), i - k, j - k), k, phi)
<1> DEFINE new == RowSwap(RowSwap(tb, i, j), i - k, j - k)
           I == 0 .. 2 * k - 1
<1>1. /\ IsTableau(tb, k) /\ HasPhases(tb) /\ IsBasis(tb, k) /\ IsStabilized(tb, k, phi)
      /\ DOMAIN tb = I
  BY DEF IsSound, IsTableau
<1>2. IsExchanged(new, tb, i, j, k)
  BY <1>1, SwapIs
<1> HIDE DEF new
<1>3. IsTableau(new, k) /\ IsBasis(new, k)
  BY <1>1, <1>2, SwapKeepsBasis
<1>4. HasPhases(new)
  BY <1>1, <1>2 DEF HasPhases, IsExchanged
<1>5. ASSUME NEW m \in k .. 2 * k - 1 PROVE StabilizedBy(phi, new[m])
  <2>1. m \in I /\ m >= k
    OBVIOUS
  <2>2. new[m] = tb[Exchanged(m, i, j, k)] /\ Exchanged(m, i, j, k) \in k .. 2 * k - 1
    BY <2>1, <1>2 DEF IsExchanged
  <2> QED
    BY <2>2, <1>1 DEF IsStabilized
<1> QED
  BY <1>3, <1>4, <1>5 DEF IsSound, IsStabilized, new

LEMMA EliminateRowIsSound ==
  ASSUME NEW k \in Nat, NEW tb, NEW phi \in Vectors(k), IsSound(tb, k, phi),
         NEW i \in k .. 2 * k - 1, NEW j \in k .. 2 * k - 1, i # j
  PROVE  IsSound(EliminateRow(tb, k, i, j), k, phi)
<1> DEFINE new == EliminateRow(tb, k, i, j)
           I == 0 .. 2 * k - 1
<1>1. /\ IsTableau(tb, k) /\ HasPhases(tb) /\ IsBasis(tb, k) /\ IsStabilized(tb, k, phi)
      /\ DOMAIN tb = I
  BY DEF IsSound, IsTableau
<1>2. IsEliminated(new, tb, i, j, k)
  BY <1>1, EliminateRowIs
<1> HIDE DEF new
<1>3. IsTableau(new, k) /\ IsBasis(new, k)
  BY <1>1, <1>2, EliminateRowKeepsBasis
<1>4. i \in I /\ j \in I /\ i - k \in I /\ j - k \in I
  OBVIOUS
<1>5. IsRow(tb[i], k) /\ IsRow(tb[j], k) /\ IsRow(tb[i - k], k) /\ IsRow(tb[j - k], k)
  BY <1>1, <1>4, RowsAreRows
<1>6. new[j] = RowMult(tb[j], tb[i]) /\ new[i - k] = RowMult(tb[i - k], tb[j - k])
  BY <1>2 DEF IsEliminated
<1>7. IsRow(new[j], k) /\ IsRow(new[i - k], k)
  BY <1>5, <1>6, RowMultPhase
<1>8. StabilizedBy(phi, tb[i]) /\ StabilizedBy(phi, tb[j])
  BY <1>1 DEF IsStabilized
<1>9. StabilizedBy(phi, new[j])
  BY <1>5, <1>6, <1>8, ProductStabilizes
<1>10. DOMAIN new = I /\ \A m \in I \ {j, i - k} : new[m] = tb[m]
  BY <1>2 DEF IsEliminated
<1>11. HasPhases(new)
  <2>1. ASSUME NEW m \in I PROVE new[m].r \in 0 .. 3
    <3>1. CASE m \in {j, i - k}
      BY <3>1, <1>7 DEF IsRow
    <3>2. CASE m \notin {j, i - k}
      BY <3>2, <1>1, <1>10 DEF HasPhases
    <3> QED
      BY <3>1, <3>2
  <2> QED
    BY <2>1, <1>10 DEF HasPhases
<1>12. ASSUME NEW m \in k .. 2 * k - 1 PROVE StabilizedBy(phi, new[m])
  <2>1. m \in I /\ m # i - k
    OBVIOUS
  <2>2. CASE m = j
    BY <2>2, <1>9
  <2>3. CASE m # j
    BY <2>1, <2>3, <1>1, <1>10 DEF IsStabilized
  <2> QED
    BY <2>2, <2>3
<1> QED
  BY <1>3, <1>11, <1>12 DEF IsSound, IsStabilized, new

\* what gaussian can make of a tableau
Tableaux(tb, k, phi) ==
    {t \in {tb} \cup [0 .. 2 * k - 1 -> Row(k) \cup {tb[i] : i \in 0 .. 2 * k - 1}] : IsSound(t, k, phi)}

LEMMA SwapIsTableau ==
  ASSUME NEW k \in Nat, NEW tb, NEW phi, NEW t \in Tableaux(tb, k, phi),
         NEW i \in k .. 2 * k - 1, NEW j \in k .. 2 * k - 1
  PROVE  RowSwap(RowSwap(t, i, j), i - k, j - k) \in Tableaux(tb, k, phi)
<1> DEFINE new == RowSwap(RowSwap(t, i, j), i - k, j - k)
           I == 0 .. 2 * k - 1
           R == Row(k) \cup {tb[m] : m \in I}
<1>1. IsSound(t, k, phi) /\ (t = tb \/ t \in [I -> R])
  BY DEF Tableaux
<1>2. \A m \in I : tb[m] \in R
  OBVIOUS
<1> HIDE DEF R
<1>3. DOMAIN t = I /\ \A m \in I : t[m] \in R
  BY <1>1, <1>2 DEF IsSound, IsTableau
<1>4. i \in I /\ j \in I /\ i - k \in I /\ j - k \in I
  OBVIOUS
<1>5. RowSwap(t, i, j) \in [I -> R]
  BY <1>3, <1>4 DEF RowSwap
<1>6. new \in [I -> R]
  BY <1>4, <1>5 DEF RowSwap
<1>7. IsSound(new, k, phi)
  BY <1>1, SwapIsSound
<1> QED
  BY <1>6, <1>7 DEF Tableaux, R

LEMMA EliminateRowIsTableau ==
  ASSUME NEW k \in Nat, NEW tb, NEW phi \in Vectors(k), NEW t \in Tableaux(tb, k, phi),
         NEW i \in k .. 2 * k - 1, NEW j \in k .. 2 * k - 1, i # j
  PROVE  EliminateRow(t, k, i, j) \in Tableaux(tb, k, phi)
<1> DEFINE new == EliminateRow(t, k, i, j)
           I == 0 .. 2 * k - 1
           R == Row(k) \cup {tb[m] : m \in I}
<1>1. IsSound(t, k, phi) /\ (t = tb \/ t \in [I -> R])
  BY DEF Tableaux
<1>2. \A m \in I : tb[m] \in R
  OBVIOUS
<1>3. Row(k) \subseteq R
  OBVIOUS
<1> HIDE DEF R
<1>4. DOMAIN t = I /\ \A m \in I : t[m] \in R
  BY <1>1, <1>2 DEF IsSound, IsTableau
<1>5. i \in I /\ j \in I /\ i - k \in I /\ j - k \in I /\ j # i - k
  OBVIOUS
<1>6. ASSUME NEW a \in I, NEW b \in I PROVE RowMult(t[a], t[b]) \in R
  <2>1. IsRow(t[a], k) /\ IsRow(t[b], k)
    BY <1>1, RowsAreRows DEF IsSound
  <2>2. IsRow(RowMult(t[a], t[b]), k)
    BY <2>1, RowMultPhase
  <2>3. RowMult(t[a], t[b]) \in Row(k)
    BY <2>2 DEF IsRow, HasBits, RowMult, Row
  <2> QED
    BY <2>3, <1>3
<1>7. new = [t EXCEPT ![j] = RowMult(t[j], t[i]), ![i - k] = RowMult(t[i - k], t[j - k])]
  BY <1>4, <1>5 DEF EliminateRow
<1>8. new \in [I -> R]
  BY <1>4, <1>5, <1>6, <1>7
<1>9. IsSound(new, k, phi)
  BY <1>1, EliminateRowIsSound
<1> QED
  BY <1>8, <1>9 DEF Tableaux, R

\* row m of a column: it is multiplied by row i if it has the bit
Cleared(t, k, i, part, j, m) == IF t[m][part][j] = 1 THEN EliminateRow(t, k, i, m) ELSE t

IsBelow(g, up, k, i, part, j) ==
    g = [m \in i .. 2 * k - 1 |-> IF m = i THEN up ELSE Cleared(g[m - 1], k, i, part, j, m)]

\* clearing a column row by row
LEMMA BelowIs ==
  ASSUME NEW k \in Nat, NEW tb, NEW phi \in Vectors(k), NEW up \in Tableaux(tb, k, phi),
         NEW i \in k .. 2 * k - 1, NEW part, NEW j
  PROVE  /\ \E g : IsBelow(g, up, k, i, part, j)
         /\ \A g : IsBelow(g, up, k, i, part, j) => g[2 * k - 1] \in Tableaux(tb, k, phi)
<1> DEFINE S == Tableaux(tb, k, phi)
           hi == 2 * k - 1
           f == [p \in S \X Int |-> IF p[2] \in i + 1 .. hi THEN Cleared(p[1], k, i, part, j, p[2])
                                                          ELSE p[1]]
<1>1. hi \in Int /\ i \in Int /\ i <= hi
  OBVIOUS
<1>2. ASSUME NEW t \in S, NEW m \in i + 1 .. hi PROVE Cleared(t, k, i, part, j, m) \in S
  <2>1. m \in k .. 2 * k - 1 /\ i # m
    OBVIOUS
  <2>2. EliminateRow(t, k, i, m) \in S
    BY <2>1, EliminateRowIsTableau
  <2> HIDE DEF S
  <2> QED
    BY <2>2 DEF Cleared
<1> HIDE DEF S
<1>3. \A t \in S, m \in Int : f[<<t, m>>] = IF m \in i + 1 .. hi THEN Cleared(t, k, i, part, j, m) ELSE t
  OBVIOUS
<1>4. f \in [S \X Int -> S]
  <2>1. ASSUME NEW p \in S \X Int
        PROVE  (IF p[2] \in i + 1 .. hi THEN Cleared(p[1], k, i, part, j, p[2]) ELSE p[1]) \in S
    BY <1>2
  <2> QED
    BY <2>1
<1> HIDE DEF f
<1>5. PICK g : IsChain(g, S, up, f, i, hi)
  <2>1. up \in S
    BY DEF S
  <2> HIDE DEF hi
  <2> QED
    BY <2>1, <1>1, <1>4, ChainExists
<1>6. IsBelow(g, up, k, i, part, j)
  <2>1. g \in [i .. hi -> S] /\ g[i] = up /\ \A m \in i + 1 .. hi : g[m] = f[<<g[m - 1], m>>]
    BY <1>5 DEF IsChain
  <2>2. ASSUME NEW m \in i .. hi, m # i PROVE g[m] = Cleared(g[m - 1], k, i, part, j, m)
    <3>1. m \in i + 1 .. hi /\ m - 1 \in i .. hi /\ m \in Int
      BY <2>2
    <3>2. g[m - 1] \in S
      BY <3>1, <2>1
    <3> QED
      BY <3>1, <3>2, <2>1, <1>3
  <2>3. \A m \in i .. hi : g[m] = IF m = i THEN up ELSE Cleared(g[m - 1], k, i, part, j, m)
    BY <2>1, <2>2
  <2>4. g = [m \in i .. hi |-> g[m]]
    BY <2>1
  <2>5. g = [m \in i .. hi |-> IF m = i THEN up ELSE Cleared(g[m - 1], k, i, part, j, m)]
    BY <2>3, <2>4
  <2> QED
    BY <2>5 DEF IsBelow
<1>7. ASSUME NEW h, IsBelow(h, up, k, i, part, j) PROVE h[hi] \in S
  <2>1. h = [m \in i .. hi |-> IF m = i THEN up ELSE Cleared(h[m - 1], k, i, part, j, m)]
    BY <1>7 DEF IsBelow
  <2>2. h[i] = up /\ up \in S
    BY <2>1, <1>1 DEF S
  <2>3. ASSUME NEW m \in i + 1 .. hi, h[m - 1] \in S PROVE h[m] \in S
    <3>1. m \in i .. hi /\ m # i
      OBVIOUS
    <3>2. h[m] = Cleared(h[m - 1], k, i, part, j, m)
      BY <3>1, <2>1
    <3> QED
      BY <3>2, <2>3, <1>2
  <2> HIDE DEF hi
  <2> QED
    BY <2>2, <2>3, <1>1, ChainStays
<1> QED
  BY <1>6, <1>7 DEF S

\* the rows and the number of the next one while gaussian goes through the columns
Passes(tb, k, phi) == [rows : Tableaux(tb, k, phi), i : k .. 2 * k]

LEMMA EliminateColumnKeeps ==
  ASSUME NEW k \in Nat, NEW tb, NEW phi \in Vectors(k), NEW s \in Passes(tb, k, phi),
         NEW part, NEW j
  PROVE  EliminateColumn(s, k, part, j) \in Passes(tb, k, phi)
<1> DEFINE S == Tableaux(tb, k, phi)
           hits == {m \in s.i .. 2 * k - 1 : s.rows[m][part][j] = 1}
           first == Min(hits)
           up == RowSwap(RowSwap(s.rows, s.i, first), s.i - k, first - k)
           below == CHOOSE g : IsBelow(g, up, k, s.i, part, j)
<1>1. EliminateColumn(s, k, part, j) =
        IF hits = {} THEN s ELSE [rows |-> below[2 * k - 1], i |-> s.i + 1]
  BY DEF EliminateColumn, IsBelow, Cleared
<1>2. s.rows \in S /\ s.i \in k .. 2 * k
  BY DEF Passes
<1>3. CASE hits # {}
  <2>1. hits \in SUBSET Nat
    BY <1>2
  <2>2. first \in hits
    BY <2>1, <1>3, SmallestNat
  <2>3. first \in k .. 2 * k - 1 /\ s.i \in k .. 2 * k - 1 /\ s.i + 1 \in k .. 2 * k
    BY <2>2, <1>2
  <2> HIDE DEF first, hits
  <2>4. up \in S
    BY <2>3, <1>2, SwapIsTableau
  <2> HIDE DEF up
  <2>5. /\ \E g : IsBelow(g, up, k, s.i, part, j)
        /\ \A g : IsBelow(g, up, k, s.i, part, j) => g[2 * k - 1] \in S
    BY <2>3, <2>4, BelowIs
  <2>6. IsBelow(below, up, k, s.i, part, j)
    BY <2>5, Zenon
  <2>7. below[2 * k - 1] \in S
    BY <2>5, <2>6
  <2> HIDE DEF below, S
  <2>8. [rows |-> below[2 * k - 1], i |-> s.i + 1] \in [rows : S, i : k .. 2 * k]
    BY <2>3, <2>7
  <2> QED
    BY <2>8, <1>1, <1>3 DEF Passes, S
<1>4. CASE hits = {}
  BY <1>1, <1>4
<1> QED
  BY <1>3, <1>4

IsPass(g, s, k, part) ==
    g = [j \in -1 .. k - 1 |-> IF j = -1 THEN s ELSE EliminateColumn(g[j - 1], k, part, j)]

\* all columns, one after the other
LEMMA PassKeeps ==
  ASSUME NEW k \in Nat, NEW tb, NEW phi \in Vectors(k), NEW s \in Passes(tb, k, phi), NEW part
  PROVE  /\ \E g : IsPass(g, s, k, part)
         /\ \A g : IsPass(g, s, k, part) => g[k - 1] \in Passes(tb, k, phi)
<1> DEFINE S == Passes(tb, k, phi)
           hi == k - 1
           f == [p \in S \X Int |-> EliminateColumn(p[1], k, part, p[2])]
<1>1. hi \in Int /\ -1 \in Int /\ -1 <= hi /\ -1 + 1 = 0
  OBVIOUS
<1>2. ASSUME NEW t \in S, NEW j PROVE EliminateColumn(t, k, part, j) \in S
  BY EliminateColumnKeeps
<1> HIDE DEF S
<1>3. \A t \in S, j \in Int : f[<<t, j>>] = EliminateColumn(t, k, part, j)
  OBVIOUS
<1>4. f \in [S \X Int -> S]
  <2>1. \A p \in S \X Int : EliminateColumn(p[1], k, part, p[2]) \in S
    BY <1>2
  <2> QED
    BY <2>1
<1> HIDE DEF f
<1>5. PICK g : IsChain(g, S, s, f, -1, hi)
  <2>1. s \in S
    BY DEF S
  <2> HIDE DEF hi
  <2> QED
    BY <2>1, <1>1, <1>4, ChainExists
<1>6. IsPass(g, s, k, part)
  <2>1. g \in [-1 .. hi -> S] /\ g[-1] = s /\ \A j \in -1 + 1 .. hi : g[j] = f[<<g[j - 1], j>>]
    BY <1>5 DEF IsChain
  <2>2. ASSUME NEW j \in -1 .. hi, j # -1 PROVE g[j] = EliminateColumn(g[j - 1], k, part, j)
    <3>1. j \in -1 + 1 .. hi /\ j - 1 \in -1 .. hi /\ j \in Int
      BY <2>2
    <3>2. g[j - 1] \in S
      BY <3>1, <2>1
    <3> QED
      BY <3>1, <3>2, <2>1, <1>3
  <2>3. \A j \in -1 .. hi : g[j] = IF j = -1 THEN s ELSE EliminateColumn(g[j - 1], k, part, j)
    BY <2>1, <2>2
  <2>4. g = [j \in -1 .. hi |-> g[j]]
    BY <2>1
  <2>5. g = [j \in -1 .. hi |-> IF j = -1 THEN s ELSE EliminateColumn(g[j - 1], k, part, j)]
    BY <2>3, <2>4
  <2> QED
    BY <2>5 DEF IsPass
<1>7. ASSUME NEW h, IsPass(h, s, k, part) PROVE h[hi] \in S
  <2>1. h = [j \in -1 .. hi |-> IF j = -1 THEN s ELSE EliminateColumn(h[j - 1], k, part, j)]
    BY <1>7 DEF IsPass
  <2>2. h[-1] = s /\ s \in S
    BY <2>1, <1>1 DEF S
  <2>3. ASSUME NEW j \in -1 + 1 .. hi, h[j - 1] \in S PROVE h[j] \in S
    <3>1. j \in -1 .. hi /\ j # -1
      OBVIOUS
    <3>2. h[j] = EliminateColumn(h[j - 1], k, part, j)
      BY <3>1, <2>1
    <3> QED
      BY <3>2, <2>3, <1>2
  <2> HIDE DEF hi
  <2> QED
    BY <2>2, <2>3, <1>1, ChainStays
<1> QED
  BY <1>6, <1>7 DEF S

\* What every step keeps, which may depend on its place, holds at the last one.
LEMMA ChainHolds ==
  ASSUME NEW S, NEW g, NEW lo \in Int, NEW hi \in Int, lo <= hi, <<g[lo], lo>> \in S,
         \A m \in lo + 1 .. hi : <<g[m - 1], m - 1>> \in S => <<g[m], m>> \in S
  PROVE  <<g[hi], hi>> \in S
<1> DEFINE h == [m \in lo .. hi |-> <<g[m], m>>]
<1>1. \A m \in lo .. hi : h[m] = <<g[m], m>>
  OBVIOUS
<1> HIDE DEF h
<1>2. h[lo] \in S /\ h[hi] = <<g[hi], hi>>
  BY <1>1
<1>3. ASSUME NEW m \in lo + 1 .. hi, h[m - 1] \in S PROVE h[m] \in S
  <2>1. m \in lo .. hi /\ m - 1 \in lo .. hi
    OBVIOUS
  <2>2. h[m] = <<g[m], m>> /\ h[m - 1] = <<g[m - 1], m - 1>>
    BY <2>1, <1>1
  <2> QED
    BY <2>2, <1>3
<1>4. h[hi] \in S
  BY <1>2, <1>3, ChainStays
<1> QED
  BY <1>2, <1>4

\* these rows have no X on these qubits
NoX(t, rows, qubits) == \A m \in rows, c \in qubits : t[m].x[c] = 0

LEMMA SwapKeepsNoX ==
  ASSUME NEW k \in Nat, NEW tb, DOMAIN tb = 0 .. 2 * k - 1, NEW from \in k .. 2 * k,
         NEW i \in from .. 2 * k - 1, NEW j \in from .. 2 * k - 1,
         NEW C, NoX(tb, from .. 2 * k - 1, C)
  PROVE  /\ NoX(RowSwap(RowSwap(tb, i, j), i - k, j - k), from .. 2 * k - 1, C)
         /\ RowSwap(RowSwap(tb, i, j), i - k, j - k)[i] = tb[j]
<1> DEFINE new == RowSwap(RowSwap(tb, i, j), i - k, j - k)
<1>1. i \in k .. 2 * k - 1 /\ j \in k .. 2 * k - 1
  OBVIOUS
<1>2. IsExchanged(new, tb, i, j, k)
  BY <1>1, SwapIs
<1> HIDE DEF new
<1>3. \A m \in 0 .. 2 * k - 1 : new[m] = tb[Exchanged(m, i, j, k)]
  BY <1>2 DEF IsExchanged
<1>4. ASSUME NEW m \in from .. 2 * k - 1
      PROVE  m \in 0 .. 2 * k - 1 /\ Exchanged(m, i, j, k) \in from .. 2 * k - 1
  BY DEF Exchanged
<1>5. NoX(new, from .. 2 * k - 1, C)
  <2>1. ASSUME NEW m \in from .. 2 * k - 1, NEW c \in C PROVE new[m].x[c] = 0
    <3> DEFINE a == Exchanged(m, i, j, k)
    <3>1. a \in from .. 2 * k - 1 /\ new[m] = tb[a]
      BY <1>3, <1>4
    <3> HIDE DEF a
    <3> QED
      BY <3>1 DEF NoX
  <2> QED
    BY <2>1 DEF NoX
<1>6. new[i] = tb[j]
  BY <1>3, <1>4 DEF Exchanged
<1> QED
  BY <1>5, <1>6 DEF new

LEMMA EliminateRowKeepsNoX ==
  ASSUME NEW k \in Nat, NEW tb, IsTableau(tb, k), NEW from \in k .. 2 * k,
         NEW i \in from .. 2 * k - 1, NEW j \in from .. 2 * k - 1, i # j,
         NEW C \in SUBSET Qubits(k), NoX(tb, from .. 2 * k - 1, C)
  PROVE  /\ NoX(EliminateRow(tb, k, i, j), from .. 2 * k - 1, C)
         /\ \A m \in k .. 2 * k - 1 : m # j => EliminateRow(tb, k, i, j)[m] = tb[m]
         /\ \A c \in Qubits(k) : EliminateRow(tb, k, i, j)[j].x[c] = Xor(tb[j].x[c], tb[i].x[c])
<1> DEFINE new == EliminateRow(tb, k, i, j)
<1>1. i \in k .. 2 * k - 1 /\ j \in k .. 2 * k - 1 /\ DOMAIN tb = 0 .. 2 * k - 1
  BY DEF IsTableau
<1>2. IsEliminated(new, tb, i, j, k)
  BY <1>1, EliminateRowIs
<1> HIDE DEF new
<1>3. new[j] = RowMult(tb[j], tb[i]) /\ \A m \in (0 .. 2 * k - 1) \ {j, i - k} : new[m] = tb[m]
  BY <1>2 DEF IsEliminated
<1>4. ASSUME NEW m \in k .. 2 * k - 1, m # j PROVE new[m] = tb[m]
  <2>1. m \in (0 .. 2 * k - 1) \ {j, i - k}
    BY <1>4, <1>1
  <2> QED
    BY <2>1, <1>3
<1>5. HasBits(tb[i], k) /\ HasBits(tb[j], k)
  BY <1>1 DEF IsTableau
<1>6. \A c \in Qubits(k) : new[j].x[c] = Xor(tb[j].x[c], tb[i].x[c])
  BY <1>3, <1>5, RowMultIs
<1>7. ASSUME NEW m \in from .. 2 * k - 1, NEW c \in C PROVE new[m].x[c] = 0
  <2>1. m \in k .. 2 * k - 1 /\ c \in Qubits(k)
    OBVIOUS
  <2>2. tb[i].x[c] = 0 /\ tb[j].x[c] = 0 /\ tb[m].x[c] = 0
    BY DEF NoX
  <2>3. Xor(0, 0) = 0
    BY DEF Xor
  <2>4. CASE m = j
    BY <2>1, <2>2, <2>3, <2>4, <1>6
  <2>5. CASE m # j
    BY <2>1, <2>2, <2>5, <1>4
  <2> QED
    BY <2>4, <2>5
<1> QED
  BY <1>4, <1>6, <1>7 DEF NoX, new

\* the tableaux that occur have the shape of one
LEMMA TableauxAre ==
  ASSUME NEW k \in Nat, NEW tb, NEW phi, NEW t \in Tableaux(tb, k, phi)
  PROVE  IsTableau(t, k) /\ DOMAIN t = 0 .. 2 * k - 1
  BY DEF Tableaux, IsSound, IsTableau

\* clearing a column, of X or of Z bits, gives no row an X that none from there on had
LEMMA BelowKeepsNoX ==
  ASSUME NEW k \in Nat, NEW tb, NEW phi \in Vectors(k), NEW up \in Tableaux(tb, k, phi),
         NEW from \in k .. 2 * k, NEW i \in from .. 2 * k - 1, NEW part, NEW j,
         NEW C \in SUBSET Qubits(k), NoX(up, from .. 2 * k - 1, C),
         NEW g, IsBelow(g, up, k, i, part, j)
  PROVE  NoX(g[2 * k - 1], from .. 2 * k - 1, C)
<1> DEFINE hi == 2 * k - 1
           S == {t \in Tableaux(tb, k, phi) : NoX(t, from .. 2 * k - 1, C)}
<1>1. i \in Int /\ hi \in Int /\ i <= hi
  OBVIOUS
<1>2. g = [m \in i .. hi |-> IF m = i THEN up ELSE Cleared(g[m - 1], k, i, part, j, m)]
  BY DEF IsBelow
<1>3. g[i] \in S
  BY <1>1, <1>2
<1>4. ASSUME NEW m \in i + 1 .. hi, g[m - 1] \in S PROVE g[m] \in S
  <2>1. m \in i .. hi /\ m # i
    OBVIOUS
  <2>2. g[m] = Cleared(g[m - 1], k, i, part, j, m)
    BY <2>1, <1>2
  <2> DEFINE t == g[m - 1]
  <2>3. t \in Tableaux(tb, k, phi) /\ NoX(t, from .. 2 * k - 1, C)
    BY <1>4
  <2> HIDE DEF t
  <2>4. i \in k .. 2 * k - 1 /\ m \in k .. 2 * k - 1 /\ m \in from .. 2 * k - 1 /\ i # m
    OBVIOUS
  <2>5. EliminateRow(t, k, i, m) \in Tableaux(tb, k, phi)
    BY <2>3, <2>4, EliminateRowIsTableau
  <2>6. IsTableau(t, k)
    BY <2>3, TableauxAre
  <2>7. NoX(EliminateRow(t, k, i, m), from .. 2 * k - 1, C)
    BY <2>3, <2>4, <2>6, EliminateRowKeepsNoX
  <2>8. Cleared(t, k, i, part, j, m) \in S
    BY <2>3, <2>5, <2>7 DEF Cleared
  <2> QED
    BY <2>2, <2>8 DEF t
<1>5. g[hi] \in S
  <2> HIDE DEF S, hi
  <2> QED
    BY <1>1, <1>3, <1>4, ChainStays
<1> QED
  BY <1>5

\* and in a column of X bits it leaves none below the row it started from
LEMMA BelowClears ==
  ASSUME NEW k \in Nat, NEW tb, NEW phi \in Vectors(k), NEW up \in Tableaux(tb, k, phi),
         NEW i \in k .. 2 * k - 1, NEW j \in Qubits(k), up[i].x[j] = 1,
         NEW g, IsBelow(g, up, k, i, "x", j)
  PROVE  NoX(g[2 * k - 1], i + 1 .. 2 * k - 1, {j})
<1> DEFINE hi == 2 * k - 1
           S == {p \in Tableaux(tb, k, phi) \X Int :
                    p[1][i].x[j] = 1 /\ NoX(p[1], i + 1 .. p[2], {j})}
<1>0. ASSUME NEW t, NEW m \in Int
      PROVE  <<t, m>> \in S <=> /\ t \in Tableaux(tb, k, phi) /\ t[i].x[j] = 1
                                /\ \A a \in i + 1 .. m : t[a].x[j] = 0
  BY DEF NoX
<1>1. i \in Int /\ hi \in Int /\ i <= hi
  OBVIOUS
<1> HIDE DEF S
<1>2. g = [m \in i .. hi |-> IF m = i THEN up ELSE Cleared(g[m - 1], k, i, "x", j, m)]
  BY DEF IsBelow
<1>3. <<g[i], i>> \in S
  <2>1. g[i] = up
    BY <1>1, <1>2
  <2> QED
    BY <2>1, <1>0, <1>1
<1>4. ASSUME NEW m \in i + 1 .. hi, <<g[m - 1], m - 1>> \in S PROVE <<g[m], m>> \in S
  <2>1. m \in i .. hi /\ m # i /\ m \in Int /\ m - 1 \in Int
    OBVIOUS
  <2>2. g[m] = Cleared(g[m - 1], k, i, "x", j, m)
    BY <2>1, <1>2
  <2> DEFINE t == g[m - 1]
             u == g[m]
  <2>3. t \in Tableaux(tb, k, phi) /\ t[i].x[j] = 1 /\ \A a \in i + 1 .. m - 1 : t[a].x[j] = 0
    BY <1>4, <2>1, <1>0
  <2> HIDE DEF t
  <2>4. i \in k .. 2 * k - 1 /\ m \in k .. 2 * k - 1 /\ i # m
    OBVIOUS
  <2>5. EliminateRow(t, k, i, m) \in Tableaux(tb, k, phi)
    BY <2>3, <2>4, EliminateRowIsTableau
  <2>6. IsTableau(t, k) /\ HasBits(t[m], k)
    BY <2>3, <2>4, TableauxAre DEF IsTableau
  <2>7. t[m].x[j] \in Bit
    BY <2>6 DEF HasBits
  <2>8. /\ \A a \in k .. 2 * k - 1 : a # m => EliminateRow(t, k, i, m)[a] = t[a]
        /\ EliminateRow(t, k, i, m)[m].x[j] = Xor(t[m].x[j], t[i].x[j])
    <3>1. k \in k .. 2 * k /\ {} \in SUBSET Qubits(k) /\ NoX(t, k .. 2 * k - 1, {})
      BY DEF NoX
    <3> QED
      BY <3>1, <2>4, <2>6, EliminateRowKeepsNoX
  <2>9. u = IF t[m].x[j] = 1 THEN EliminateRow(t, k, i, m) ELSE t
    BY <2>2 DEF Cleared, t
  <2> HIDE DEF u
  <2>10. Xor(1, 1) = 0
    BY DEF Xor
  <2>11. u \in Tableaux(tb, k, phi) /\ u[m].x[j] = 0
    BY <2>3, <2>5, <2>7, <2>8, <2>9, <2>10 DEF Bit
  <2>12. \A a \in i .. m - 1 : u[a] = t[a]
    BY <2>8, <2>9, <2>4
  <2>13. \A a \in i + 1 .. m : u[a].x[j] = 0
    BY <2>3, <2>11, <2>12
  <2>14. u[i].x[j] = 1
    BY <2>3, <2>12, <2>4
  <2> QED
    BY <2>1, <2>11, <2>13, <2>14, <1>0 DEF u
<1>5. <<g[hi], hi>> \in S
  <2> HIDE DEF hi
  <2> QED
    BY <1>1, <1>3, <1>4, ChainHolds
<1> QED
  BY <1>0, <1>1, <1>5 DEF NoX

\* what EliminateColumn does when a row has the bit
LEMMA ColumnIs ==
  ASSUME NEW k \in Nat, NEW tb, NEW phi \in Vectors(k), NEW s \in Passes(tb, k, phi),
         NEW part, NEW j, \E m \in s.i .. 2 * k - 1 : s.rows[m][part][j] = 1
  PROVE  \E first, up, g :
            /\ first \in s.i .. 2 * k - 1 /\ s.rows[first][part][j] = 1
            /\ up = RowSwap(RowSwap(s.rows, s.i, first), s.i - k, first - k)
            /\ up \in Tableaux(tb, k, phi) /\ IsBelow(g, up, k, s.i, part, j)
            /\ EliminateColumn(s, k, part, j) = [rows |-> g[2 * k - 1], i |-> s.i + 1]
<1> DEFINE S == Tableaux(tb, k, phi)
           hits == {m \in s.i .. 2 * k - 1 : s.rows[m][part][j] = 1}
           first == Min(hits)
           up == RowSwap(RowSwap(s.rows, s.i, first), s.i - k, first - k)
           below == CHOOSE g : IsBelow(g, up, k, s.i, part, j)
<1>1. EliminateColumn(s, k, part, j) =
        IF hits = {} THEN s ELSE [rows |-> below[2 * k - 1], i |-> s.i + 1]
  BY DEF EliminateColumn, IsBelow, Cleared
<1>2. s.rows \in S /\ s.i \in k .. 2 * k
  BY DEF Passes
<1>3. hits \in SUBSET Nat /\ hits # {}
  BY <1>2
<1>4. first \in hits
  BY <1>3, SmallestNat
<1>5. first \in s.i .. 2 * k - 1 /\ s.rows[first][part][j] = 1
  BY <1>4
<1>6. first \in k .. 2 * k - 1 /\ s.i \in k .. 2 * k - 1
  BY <1>5, <1>2
<1> HIDE DEF first, hits
<1>7. up \in S
  BY <1>6, <1>2, SwapIsTableau
<1>8. up = RowSwap(RowSwap(s.rows, s.i, first), s.i - k, first - k)
  OBVIOUS
<1> HIDE DEF up
<1>9. \E g : IsBelow(g, up, k, s.i, part, j)
  BY <1>6, <1>7, BelowIs
<1>10. IsBelow(below, up, k, s.i, part, j)
  BY <1>9, Zenon
<1> HIDE DEF below
<1>11. EliminateColumn(s, k, part, j) = [rows |-> below[2 * k - 1], i |-> s.i + 1]
  BY <1>1, <1>3
<1> QED
  BY <1>5, <1>7, <1>8, <1>10, <1>11, Zenon

\* and when none has
LEMMA ColumnIsNot ==
  ASSUME NEW k, NEW s, NEW part, NEW j, \A m \in s.i .. 2 * k - 1 : s.rows[m][part][j] # 1
  PROVE  EliminateColumn(s, k, part, j) = s
<1>1. {m \in s.i .. 2 * k - 1 : s.rows[m][part][j] = 1} = {}
  OBVIOUS
<1> QED
  BY <1>1 DEF EliminateColumn

\* a column of X bits: no row from the next one on has an X there
LEMMA ColumnClears ==
  ASSUME NEW k \in Nat, NEW tb, NEW phi \in Vectors(k), NEW s \in Passes(tb, k, phi),
         NEW j \in Qubits(k), NoX(s.rows, s.i .. 2 * k - 1, 0 .. j - 1),
         NEW e, e = EliminateColumn(s, k, "x", j)
  PROVE  NoX(e.rows, e.i .. 2 * k - 1, 0 .. j)
<1>1. s.rows \in Tableaux(tb, k, phi) /\ s.i \in k .. 2 * k
  BY DEF Passes
<1>2. j \in 0 .. k - 1 /\ 0 .. j - 1 \in SUBSET Qubits(k)
  BY DEF Qubits
<1>3. CASE \A m \in s.i .. 2 * k - 1 : s.rows[m].x[j] # 1
  <2>1. e = s
    BY <1>3, ColumnIsNot
  <2>2. ASSUME NEW m \in s.i .. 2 * k - 1, NEW c \in 0 .. j PROVE s.rows[m].x[c] = 0
    <3>1. CASE c = j
      <4>1. HasBits(s.rows[m], k)
        BY <1>1, TableauxAre DEF IsTableau
      <4>2. s.rows[m].x[j] \in {0, 1}
        BY <4>1 DEF HasBits, Bit
      <4> QED
        BY <3>1, <4>2, <1>3
    <3>2. CASE c # j
      <4>1. c \in 0 .. j - 1
        BY <3>2, <1>2
      <4> QED
        BY <4>1 DEF NoX
    <3> QED
      BY <3>1, <3>2
  <2> QED
    BY <2>1, <2>2 DEF NoX
<1>4. CASE \E m \in s.i .. 2 * k - 1 : s.rows[m].x[j] = 1
  <2>1. PICK first, up, g :
            /\ first \in s.i .. 2 * k - 1 /\ s.rows[first].x[j] = 1
            /\ up = RowSwap(RowSwap(s.rows, s.i, first), s.i - k, first - k)
            /\ up \in Tableaux(tb, k, phi) /\ IsBelow(g, up, k, s.i, "x", j)
            /\ e = [rows |-> g[2 * k - 1], i |-> s.i + 1]
    BY <1>4, ColumnIs
  <2>2. s.i \in k .. 2 * k - 1 /\ s.i \in s.i .. 2 * k - 1
    BY <2>1, <1>1
  <2>3. DOMAIN s.rows = 0 .. 2 * k - 1
    BY <1>1, TableauxAre
  <2>4. NoX(up, s.i .. 2 * k - 1, 0 .. j - 1) /\ up[s.i] = s.rows[first]
    BY <2>1, <2>2, <2>3, <1>1, SwapKeepsNoX
  <2>5. NoX(g[2 * k - 1], s.i .. 2 * k - 1, 0 .. j - 1)
    BY <2>1, <2>2, <2>4, <1>1, <1>2, BelowKeepsNoX
  <2>6. NoX(g[2 * k - 1], s.i + 1 .. 2 * k - 1, {j})
    BY <2>1, <2>2, <2>4, BelowClears
  <2>7. ASSUME NEW m \in s.i + 1 .. 2 * k - 1, NEW c \in 0 .. j PROVE g[2 * k - 1][m].x[c] = 0
    <3>1. m \in s.i .. 2 * k - 1
      BY <1>1
    <3>2. c = j \/ c \in 0 .. j - 1
      BY <1>2
    <3> QED
      BY <3>1, <3>2, <2>5, <2>6 DEF NoX
  <2>8. e.rows = g[2 * k - 1] /\ e.i = s.i + 1
    BY <2>1
  <2> QED
    BY <2>7, <2>8 DEF NoX
<1> QED
  BY <1>3, <1>4

\* any column: rows without an X stay so
LEMMA ColumnKeepsNoX ==
  ASSUME NEW k \in Nat, NEW tb, NEW phi \in Vectors(k), NEW s \in Passes(tb, k, phi), NEW part, NEW j,
         NEW from \in k .. 2 * k, from <= s.i, NoX(s.rows, from .. 2 * k - 1, Qubits(k)),
         NEW e, e = EliminateColumn(s, k, part, j)
  PROVE  from <= e.i /\ NoX(e.rows, from .. 2 * k - 1, Qubits(k))
<1>1. s.rows \in Tableaux(tb, k, phi) /\ s.i \in k .. 2 * k
  BY DEF Passes
<1>2. CASE \A m \in s.i .. 2 * k - 1 : s.rows[m][part][j] # 1
  <2>1. e = s
    BY <1>2, ColumnIsNot
  <2> QED
    BY <2>1
<1>3. CASE \E m \in s.i .. 2 * k - 1 : s.rows[m][part][j] = 1
  <2>1. PICK first, up, g :
            /\ first \in s.i .. 2 * k - 1 /\ s.rows[first][part][j] = 1
            /\ up = RowSwap(RowSwap(s.rows, s.i, first), s.i - k, first - k)
            /\ up \in Tableaux(tb, k, phi) /\ IsBelow(g, up, k, s.i, part, j)
            /\ e = [rows |-> g[2 * k - 1], i |-> s.i + 1]
    BY <1>3, ColumnIs
  <2>2. s.i \in from .. 2 * k - 1 /\ first \in from .. 2 * k - 1
    BY <2>1, <1>1
  <2>3. DOMAIN s.rows = 0 .. 2 * k - 1
    BY <1>1, TableauxAre
  <2>4. NoX(up, from .. 2 * k - 1, Qubits(k))
    BY <2>1, <2>2, <2>3, SwapKeepsNoX
  <2>5. NoX(g[2 * k - 1], from .. 2 * k - 1, Qubits(k))
    BY <2>1, <2>2, <2>4, BelowKeepsNoX
  <2>6. e.rows = g[2 * k - 1] /\ e.i = s.i + 1
    BY <2>1
  <2> QED
    BY <2>5, <2>6, <1>1
<1> QED
  BY <1>2, <1>3

\* the first pass takes the X bits out of the rows from its end on
LEMMA PassClears ==
  ASSUME NEW k \in Nat, NEW tb, NEW phi \in Vectors(k), NEW s \in Passes(tb, k, phi),
         NEW g, IsPass(g, s, k, "x")
  PROVE  NoX(g[k - 1].rows, g[k - 1].i .. 2 * k - 1, Qubits(k))
<1> DEFINE hi == k - 1
           S == {p \in Passes(tb, k, phi) \X Int :
                    NoX(p[1].rows, p[1].i .. 2 * k - 1, 0 .. p[2])}
<1>0. ASSUME NEW t, NEW j \in Int
      PROVE  <<t, j>> \in S <=> t \in Passes(tb, k, phi) /\ NoX(t.rows, t.i .. 2 * k - 1, 0 .. j)
  OBVIOUS
<1> HIDE DEF S
<1>1. hi \in Int /\ -1 \in Int /\ -1 <= hi
  OBVIOUS
<1>2. g = [j \in -1 .. hi |-> IF j = -1 THEN s ELSE EliminateColumn(g[j - 1], k, "x", j)]
  BY DEF IsPass
<1>3. <<g[-1], -1>> \in S
  <2>1. g[-1] = s
    BY <1>1, <1>2
  <2>2. 0 .. -1 = {}
    OBVIOUS
  <2>3. NoX(s.rows, s.i .. 2 * k - 1, 0 .. -1)
    BY <2>2 DEF NoX
  <2> QED
    BY <2>1, <2>3, <1>0, <1>1
<1>4. ASSUME NEW j \in -1 + 1 .. hi, <<g[j - 1], j - 1>> \in S PROVE <<g[j], j>> \in S
  <2>1. j \in -1 .. hi /\ j # -1 /\ j \in Int /\ j - 1 \in Int /\ j \in Qubits(k)
    BY DEF Qubits
  <2>2. g[j] = EliminateColumn(g[j - 1], k, "x", j)
    BY <2>1, <1>2
  <2>3. g[j - 1] \in Passes(tb, k, phi) /\ NoX(g[j - 1].rows, g[j - 1].i .. 2 * k - 1, 0 .. j - 1)
    BY <1>4, <2>1, <1>0
  <2>4. g[j] \in Passes(tb, k, phi)
    BY <2>2, <2>3, EliminateColumnKeeps
  <2>5. NoX(g[j].rows, g[j].i .. 2 * k - 1, 0 .. j)
    BY <2>1, <2>2, <2>3, ColumnClears
  <2> QED
    BY <2>1, <2>4, <2>5, <1>0
<1>5. <<g[hi], hi>> \in S
  <2> HIDE DEF hi
  <2> QED
    BY <1>1, <1>3, <1>4, ChainHolds
<1> QED
  BY <1>0, <1>1, <1>5 DEF Qubits

\* and no pass puts an X into rows that have none
LEMMA PassKeepsNoX ==
  ASSUME NEW k \in Nat, NEW tb, NEW phi \in Vectors(k), NEW s \in Passes(tb, k, phi), NEW part,
         NEW from \in k .. 2 * k, from <= s.i, NoX(s.rows, from .. 2 * k - 1, Qubits(k)),
         NEW g, IsPass(g, s, k, part)
  PROVE  NoX(g[k - 1].rows, from .. 2 * k - 1, Qubits(k))
<1> DEFINE hi == k - 1
           S == {t \in Passes(tb, k, phi) : from <= t.i /\ NoX(t.rows, from .. 2 * k - 1, Qubits(k))}
<1>1. hi \in Int /\ -1 \in Int /\ -1 <= hi
  OBVIOUS
<1>2. g = [j \in -1 .. hi |-> IF j = -1 THEN s ELSE EliminateColumn(g[j - 1], k, part, j)]
  BY DEF IsPass
<1>3. g[-1] \in S
  BY <1>1, <1>2
<1>4. ASSUME NEW j \in -1 + 1 .. hi, g[j - 1] \in S PROVE g[j] \in S
  <2>1. j \in -1 .. hi /\ j # -1
    OBVIOUS
  <2>2. g[j] = EliminateColumn(g[j - 1], k, part, j)
    BY <2>1, <1>2
  <2>3. /\ g[j - 1] \in Passes(tb, k, phi) /\ from <= g[j - 1].i
        /\ NoX(g[j - 1].rows, from .. 2 * k - 1, Qubits(k))
    BY <1>4
  <2>4. g[j] \in Passes(tb, k, phi)
    BY <2>2, <2>3, EliminateColumnKeeps
  <2>5. from <= g[j].i /\ NoX(g[j].rows, from .. 2 * k - 1, Qubits(k))
    BY <2>2, <2>3, ColumnKeepsNoX
  <2> QED
    BY <2>4, <2>5
<1>5. g[hi] \in S
  <2> HIDE DEF S, hi
  <2> QED
    BY <1>1, <1>3, <1>4, ChainStays
<1> QED
  BY <1>5

\* gaussian, whatever rows it swaps and multiplies
LEMMA GaussianKeeps ==
  ASSUME NEW k \in Nat, NEW tb, NEW phi, IsState(phi, k), IsSound(tb, k, phi)
  PROVE  /\ IsSound(Gaussian(tb, k).rows, k, phi) /\ Gaussian(tb, k).g \in 0 .. k
         /\ NoX(Gaussian(tb, k).rows, k + Gaussian(tb, k).g .. 2 * k - 1, Qubits(k))
<1> DEFINE start == [rows |-> tb, i |-> k]
           xs == CHOOSE g : IsPass(g, start, k, "x")
           mid == xs[k - 1]
           zs == CHOOSE g : IsPass(g, mid, k, "z")
           final == zs[k - 1]
<1>1. Gaussian(tb, k) = [rows |-> final.rows, g |-> mid.i - k]
  BY DEF Gaussian, IsPass
<1>2. phi \in Vectors(k)
  BY DEF IsState
<1>3. start \in Passes(tb, k, phi)
  <2>1. tb \in Tableaux(tb, k, phi) /\ k \in k .. 2 * k
    BY DEF Tableaux
  <2> QED
    BY <2>1 DEF Passes
<1> HIDE DEF start
<1>4. mid \in Passes(tb, k, phi) /\ NoX(mid.rows, mid.i .. 2 * k - 1, Qubits(k))
  <2>1. /\ \E g : IsPass(g, start, k, "x")
        /\ \A g : IsPass(g, start, k, "x") => g[k - 1] \in Passes(tb, k, phi)
    BY <1>2, <1>3, PassKeeps
  <2>2. IsPass(xs, start, k, "x")
    BY <2>1, Zenon
  <2> HIDE DEF xs
  <2> QED
    BY <2>1, <2>2, <1>2, <1>3, PassClears
<1> HIDE DEF mid
<1>5. mid.i \in k .. 2 * k
  BY <1>4 DEF Passes
<1>6. final \in Passes(tb, k, phi) /\ NoX(final.rows, mid.i .. 2 * k - 1, Qubits(k))
  <2>1. /\ \E g : IsPass(g, mid, k, "z")
        /\ \A g : IsPass(g, mid, k, "z") => g[k - 1] \in Passes(tb, k, phi)
    BY <1>2, <1>4, PassKeeps
  <2>2. IsPass(zs, mid, k, "z")
    BY <2>1, Zenon
  <2> HIDE DEF zs
  <2>3. mid.i <= mid.i
    BY <1>5
  <2> QED
    BY <2>1, <2>2, <2>3, <1>2, <1>4, <1>5, PassKeepsNoX
<1> HIDE DEF final
<1>7. IsSound(final.rows, k, phi)
  BY <1>6 DEF Passes, Tableaux
<1>8. mid.i - k \in 0 .. k /\ k + (mid.i - k) = mid.i
  BY <1>5
<1> QED
  BY <1>1, <1>6, <1>7, <1>8

-----------------------------------------------------------------------------
(* The invariant.                                                             *)

\* what Inv says of the bits, the words and the vector
LEMMA InvIs ==
  ASSUME Inv
  PROVE  n \in Nat /\ IsState(psi, n) /\ (Live => Simulates(tab, words, psi, n))
<1>1. n \in Nat /\ IsState(psi, n)
  BY DEF Inv, VectorInv, StabilizesState, IsState, Vectors, Amplitude
<1>2. ASSUME Live PROVE Simulates(tab, words, psi, n)
  <2>1. IsTableau(tab, n) /\ HasPhases(tab) /\ IsBasis(tab, n) /\ IsDual(tab, n)
    BY <1>2 DEF Inv, RowsInv, ColumnsInv, SymplecticBasis
  <2>2. IsStabilized(tab, n, psi)
    BY <1>2 DEF Inv, StabilizesState, IsStabilized
  <2>3. \A w \in WordSizes : Packs(w, n, words[w], tab)
    BY <1>2 DEF Inv, PackedInv, WordsAgree, Packs
  <2> QED
    BY <2>1, <2>2, <2>3, <1>1 DEF Simulates
<1> QED
  BY <1>1, <1>2

\* and that it says no more
LEMMA InvFollows ==
  ASSUME OwnerInv', ArraysOwned', DefinedWhenInitialised', n' \in Nat, IsState(psi', n'),
         Live' => Simulates(tab', words', psi', n'),
         \A w \in WordSizes : last'.packed[w] = last'.outcome
  PROVE  Inv'
<1>1. VectorInv'
  BY DEF VectorInv, IsState, Vectors, Amplitude
<1>2. RowsInv' /\ ColumnsInv' /\ SymplecticBasis'
  BY DEF RowsInv, ColumnsInv, SymplecticBasis, Simulates
<1>3. StabilizesState'
  BY DEF StabilizesState, IsState, IsStabilized, Simulates
<1>4. PackedInv' /\ WordsAgree'
  BY DEF PackedInv, WordsAgree, Packs, Simulates
<1> QED
  BY <1>1, <1>2, <1>3, <1>4 DEF Inv

\* a last instruction that measured nothing agrees with itself
LEMMA NothingMeasured ==
  ASSUME last' = NoMeasurement
  PROVE  \A w \in WordSizes : last'.packed[w] = last'.outcome
  BY DEF NoMeasurement

\* nothing is kept of the rows
LEMMA NotLiveInv ==
  ASSUME OwnerInv', ArraysOwned', DefinedWhenInitialised', ~Live',
         n' \in Nat, psi' = GroundState(n'), last' = NoMeasurement
  PROVE  Inv'
<1>1. IsState(psi', n')
  <2>1. \A k \in Nat : IsState(GroundState(k), k)
    BY GroundIsState
  <2> QED
    BY <2>1
<1> QED
  BY <1>1, NothingMeasured, InvFollows

\* a new state object
LEMMA InitInv == Init => Inv
<1> SUFFICES ASSUME Init PROVE Inv
  OBVIOUS
<1>1. /\ heap = [a \in Names |-> "null"] /\ status = "alive" /\ ready = FALSE /\ "x" \in Names
      /\ n = 0 /\ psi = GroundState(0) /\ last = NoMeasurement
  BY DEF Init, Names, Pointers
<1>2. ~Live
  BY <1>1 DEF Live
<1>3. OwnerInv /\ ArraysOwned /\ DefinedWhenInitialised
  BY <1>1 DEF OwnerInv, ArraysOwned, DefinedWhenInitialised
<1>4. IsState(GroundState(0), 0)
  BY GroundIsState
<1>5. VectorInv /\ StabilizesState
  BY <1>1, <1>2, <1>4 DEF VectorInv, StabilizesState, IsState, Vectors, Amplitude
<1>6. WordsAgree
  BY <1>1, <1>2 DEF WordsAgree, NoMeasurement
<1> QED
  BY <1>2, <1>3, <1>5, <1>6 DEF Inv, RowsInv, ColumnsInv, PackedInv, SymplecticBasis

\* initialize
LEMMA InitializeInv ==
  ASSUME Inv, NEW size \in Sizes, Initialize(size), status = "alive"
  PROVE  Inv'
<1>1. /\ n' = size /\ tab' = InitTableau(size) /\ heap' = [a \in Names |-> "live"]
      /\ words' = [w \in WordSizes |-> InitWords(w, size)]
      /\ psi' = GroundState(size) /\ last' = NoMeasurement
      /\ status' = "alive" /\ size \in Nat
  BY SizesAssumption DEF Initialize
<1>2. Live'
  BY <1>1 DEF Live
<1>3. OwnerInv' /\ ArraysOwned' /\ DefinedWhenInitialised'
  BY <1>1, <1>2 DEF OwnerInv, ArraysOwned, DefinedWhenInitialised
<1>4. Simulates(InitTableau(size), [w \in WordSizes |-> InitWords(w, size)], GroundState(size), size)
  BY <1>1, GroundSimulates
<1>5. Simulates(tab', words', psi', n') /\ n' \in Nat
  BY <1>1, <1>4
<1>6. IsState(psi', n')
  BY <1>5 DEF Simulates
<1> QED
  BY <1>1, <1>3, <1>5, <1>6, NothingMeasured, InvFollows

\* an initialize that runs out of memory frees what it owns
LEMMA InitializeFailsInv ==
  ASSUME Inv, NEW size \in Sizes, NEW k \in DOMAIN Arrays, InitializeFails(size, k),
         status = "alive"
  PROVE  Inv'
<1>1. /\ heap' = [a \in Names |-> IF a \in Pointers /\ (Place(a) < k \/ heap[a] # "null")
                                  THEN "freed" ELSE "null"]
      /\ status' = "alive" /\ ready' = FALSE /\ "x" \in Names
      /\ n' = size /\ psi' = GroundState(size) /\ last' = NoMeasurement
  BY DEF InitializeFails, Names, Pointers
<1>2. heap' \in [Names -> {"null", "freed"}]
  BY <1>1
<1>3. ~Live'
  BY <1>1, <1>2 DEF Live
<1>4. OwnerInv' /\ ArraysOwned' /\ DefinedWhenInitialised'
  BY <1>1, <1>2 DEF OwnerInv, ArraysOwned, DefinedWhenInitialised
<1>5. n' \in Nat /\ psi' = GroundState(n')
  BY <1>1, SizesAssumption
<1> QED
  BY <1>1, <1>3, <1>4, <1>5, NotLiveInv

\* every use of a null or deleted array happens to a state that was not ready
LEMMA UndefinedInv ==
  ASSUME Inv, Undefined, status = "alive", ~Live
  PROVE  Inv'
<1>1. /\ status' = "undefined" /\ UNCHANGED <<heap, ready>>
      /\ n' = 0 /\ psi' = GroundState(0) /\ last' = NoMeasurement
  BY DEF Undefined, End
<1>2. ~ready
  BY DEF Inv, OwnerInv
<1>3. ~Live'
  BY <1>1 DEF Live
<1>4. OwnerInv' /\ ArraysOwned' /\ DefinedWhenInitialised'
  BY <1>1, <1>2 DEF Inv, OwnerInv, ArraysOwned, DefinedWhenInitialised
<1>5. n' \in Nat /\ psi' = GroundState(n')
  BY <1>1
<1> QED
  BY <1>1, <1>3, <1>4, <1>5, NotLiveInv

\* the destructor
LEMMA DestroyInv ==
  ASSUME Inv, Destroy
  PROVE  Inv'
<1>1. /\ status' = "destroyed" /\ "x" \in Names
      /\ heap' = [a \in Names |-> IF heap[a] = "live" THEN "freed" ELSE heap[a]]
      /\ n' = 0 /\ psi' = GroundState(0) /\ last' = NoMeasurement
  BY DEF Destroy, End, Names, Pointers
<1>2. heap' \in [Names -> {"null", "freed"}]
  BY <1>1 DEF Inv, OwnerInv
<1>3. ~Live'
  BY <1>1, <1>2 DEF Live
<1>4. OwnerInv' /\ ArraysOwned' /\ DefinedWhenInitialised'
  BY <1>1, <1>2 DEF OwnerInv, ArraysOwned, DefinedWhenInitialised
<1>5. n' \in Nat /\ psi' = GroundState(n')
  BY <1>1
<1> QED
  BY <1>1, <1>3, <1>4, <1>5, NotLiveInv

\* a gate or a measurement, which finds all arrays and allocates none
LEMMA OnRowsInv ==
  ASSUME Inv, UNCHANGED <<n, memory>>, IsState(psi', n), Live => Simulates(tab', words', psi', n),
         \A w \in WordSizes : last'.packed[w] = last'.outcome
  PROVE  Inv'
<1>1. UNCHANGED <<n, heap, status, ready>> /\ n \in Nat
  BY InvIs DEF memory
<1>2. Live' <=> Live
  BY <1>1 DEF Live
<1>3. OwnerInv' /\ ArraysOwned' /\ DefinedWhenInitialised'
  BY <1>1, <1>2 DEF Inv, OwnerInv, ArraysOwned, DefinedWhenInitialised
<1>4. n' \in Nat /\ IsState(psi', n') /\ (Live' => Simulates(tab', words', psi', n'))
  BY <1>1, <1>2
<1> QED
  BY <1>3, <1>4, InvFollows

\* a gate, given what it does to rows, words and vector
LEMMA GateInv ==
  ASSUME Inv, NEW newTab, NEW newWords, NEW newPsi, Gate(newTab, newWords, newPsi),
         Live => Simulates(newTab, newWords, newPsi, n)
  PROVE  Inv'
<1>1. /\ tab' = newTab /\ words' = newWords /\ psi' = newPsi /\ last' = NoMeasurement
      /\ Live /\ UNCHANGED <<n, memory>>
  BY DEF Gate
<1>2. Simulates(tab', words', psi', n)
  BY <1>1
<1>3. IsState(psi', n)
  BY <1>2 DEF Simulates
<1> QED
  BY <1>1, <1>2, <1>3, NothingMeasured, OnRowsInv

\* a measurement of a qubit
LEMMA MeasureIs ==
  ASSUME Inv, NEW q \in Qubits(n), MeasureRandom(q) \/ MeasureCertain(q)
  PROVE  /\ UNCHANGED <<n, memory>> /\ IsState(psi', n) /\ Simulates(tab', words', psi', n)
         /\ \A w \in WordSizes : last'.packed[w] = last'.outcome
         /\ Possible(psi, last'.qubit, last'.outcome)
         /\ last'.random <=> Possible(psi, last'.qubit, 1 - last'.outcome)
<1>1. Live /\ n \in Nat /\ Simulates(tab, words, psi, n)
  BY InvIs DEF MeasureRandom, MeasureCertain
<1>2. ASSUME NEW v, NEW isRandom, Measured(q, v, isRandom)
      PROVE  /\ words' = [w \in WordSizes |-> MeasureWords(w, words[w], n, q, v).rows]
             /\ psi' = Project(psi, q, v)
             /\ last'.qubit = q /\ last'.outcome = v /\ last'.random = isRandom
             /\ \A w \in WordSizes : last'.packed[w] = MeasureWords(w, words[w], n, q, v).outcome
             /\ UNCHANGED <<n, memory>>
  BY <1>2 DEF Measured
<1>3. CASE MeasureRandom(q)
  <2>1. PICK v \in Bit : Measured(q, v, TRUE) /\ tab' = Collapse(tab, n, q, v)
    BY <1>3 DEF MeasureRandom
  <2>2. IsRandom(tab, n, q)
    BY <1>3 DEF MeasureRandom
  <2>3. /\ words' = [w \in WordSizes |-> MeasureWords(w, words[w], n, q, v).rows]
        /\ psi' = Project(psi, q, v)
        /\ last'.qubit = q /\ last'.outcome = v /\ last'.random = TRUE
        /\ \A w \in WordSizes : last'.packed[w] = MeasureWords(w, words[w], n, q, v).outcome
        /\ UNCHANGED <<n, memory>>
    BY <2>1, <1>2
  <2>4. /\ Possible(psi, q, v) /\ Possible(psi, q, 1 - v)
        /\ Simulates(Collapse(tab, n, q, v), [w \in WordSizes |-> MeasureWords(w, words[w], n, q, v).rows],
                     Project(psi, q, v), n)
        /\ \A w \in WordSizes : MeasureWords(w, words[w], n, q, v).outcome = v
    BY <2>1, <2>2, <1>1, RandomSimulates, SMTT(20)
  <2>5. Simulates(tab', words', psi', n)
    BY <2>1, <2>3, <2>4
  <2>6. IsState(psi', n)
    BY <2>5 DEF Simulates
  <2> QED
    BY <2>3, <2>4, <2>5, <2>6
<1>4. CASE MeasureCertain(q)
  <2> DEFINE v == CertainOutcome(tab, n, q)
  <2>1. Measured(q, v, FALSE) /\ tab' = tab /\ ~IsRandom(tab, n, q)
    BY <1>4 DEF MeasureCertain
  <2>2. /\ Possible(psi, q, v) /\ ~Possible(psi, q, 1 - v)
        /\ Simulates(tab, [w \in WordSizes |-> MeasureWords(w, words[w], n, q, v).rows],
                     Project(psi, q, v), n)
        /\ \A w \in WordSizes : MeasureWords(w, words[w], n, q, v).outcome = v
    BY <2>1, <1>1, CertainSimulates
  <2> HIDE DEF v
  <2>3. /\ words' = [w \in WordSizes |-> MeasureWords(w, words[w], n, q, v).rows]
        /\ psi' = Project(psi, q, v)
        /\ last'.qubit = q /\ last'.outcome = v /\ last'.random = FALSE
        /\ \A w \in WordSizes : last'.packed[w] = MeasureWords(w, words[w], n, q, v).outcome
        /\ UNCHANGED <<n, memory>>
    BY <2>1, <1>2
  <2>4. Simulates(tab', words', psi', n)
    BY <2>1, <2>2, <2>3
  <2>5. IsState(psi', n)
    BY <2>4 DEF Simulates
  <2> QED
    BY <2>2, <2>3, <2>4, <2>5
<1> QED
  BY <1>3, <1>4

\* every instruction keeps the invariant
LEMMA InstructionInv ==
  ASSUME Inv, status = "alive", Instruction
  PROVE  Inv'
<1>1. n \in Nat /\ IsState(psi, n) /\ (Live => Simulates(tab, words, psi, n))
  BY InvIs
<1>2. ASSUME NEW size \in Sizes, Initialize(size)
      PROVE  Inv'
  BY <1>2, InitializeInv
<1>3. ASSUME NEW size \in Sizes, NEW k \in DOMAIN Arrays, InitializeFails(size, k)
      PROVE  Inv'
  BY <1>3, InitializeFailsInv
<1>4. ASSUME NEW a \in Pointers, heap[a] = "freed", Undefined
      PROVE  Inv'
  <2>1. ~Live
    BY <1>4 DEF Live, Names
  <2> QED
    BY <2>1, <1>4, UndefinedInv
<1>5. ASSUME NEW k \in DOMAIN Arrays, InitializeFailsTwice(k)
      PROVE  Inv'
  BY <1>4, <1>5 DEF InitializeFailsTwice
<1>6. CASE Destroy
  BY <1>6, DestroyInv
<1>7. CASE DestroyFreed
  BY <1>4, <1>7 DEF DestroyFreed
<1>8. CASE UseMissing
  BY <1>8, UndefinedInv DEF UseMissing
<1>9. ASSUME NEW q \in Qubits(n), RunHadamard(q)
      PROVE  Inv'
  <2> DEFINE ws == [w \in WordSizes |-> HadamardWords(w, words[w], q)]
  <2>1. Gate(Hadamard(tab, q), ws, ApplyH(psi, q))
    BY <1>9, Zenon DEF RunHadamard, OnWords
  <2>2. Live => Simulates(Hadamard(tab, q), ws, ApplyH(psi, q), n)
    BY <1>1, HadamardSimulates
  <2> HIDE DEF ws
  <2> QED
    BY <2>1, <2>2, GateInv
<1>10. ASSUME NEW q \in Qubits(n), RunPhase(q)
       PROVE  Inv'
  <2> DEFINE ws == [w \in WordSizes |-> PhaseWords(w, words[w], q)]
  <2>1. Gate(Phase(tab, q), ws, ApplyS(psi, q))
    BY <1>10, Zenon DEF RunPhase, OnWords
  <2>2. Live => Simulates(Phase(tab, q), ws, ApplyS(psi, q), n)
    BY <1>1, PhaseSimulates
  <2> HIDE DEF ws
  <2> QED
    BY <2>1, <2>2, GateInv
<1>11. ASSUME NEW q \in Qubits(n), RunPauliX(q) \/ RunPauliY(q) \/ RunPauliZ(q)
       PROVE  Inv'
  <2> DEFINE wx == [w \in WordSizes |-> PauliXWords(w, words[w], q)]
             wy == [w \in WordSizes |-> PauliYWords(w, words[w], q)]
             wz == [w \in WordSizes |-> PauliZWords(w, words[w], q)]
  <2>1. RunPauliX(q) => Gate(PauliX(tab, q), wx, ApplyX(psi, q))
    BY Zenon DEF RunPauliX, OnWords
  <2>2. RunPauliY(q) => Gate(PauliY(tab, q), wy, ApplyY(psi, q))
    BY Zenon DEF RunPauliY, OnWords
  <2>3. RunPauliZ(q) => Gate(PauliZ(tab, q), wz, ApplyZ(psi, q))
    BY Zenon DEF RunPauliZ, OnWords
  <2>4. Live => /\ Simulates(PauliX(tab, q), wx, ApplyX(psi, q), n)
                /\ Simulates(PauliY(tab, q), wy, ApplyY(psi, q), n)
                /\ Simulates(PauliZ(tab, q), wz, ApplyZ(psi, q), n)
    BY <1>1, PaulisSimulate
  <2> HIDE DEF wx, wy, wz
  <2> QED
    BY <2>1, <2>2, <2>3, <2>4, <1>11, GateInv
<1>12. ASSUME NEW c \in Qubits(n), NEW t \in Qubits(n), c # t, RunCnot(c, t)
       PROVE  Inv'
  <2> DEFINE ws == [w \in WordSizes |-> CnotWords(w, words[w], c, t)]
  <2>1. Gate(Cnot(tab, c, t), ws, ApplyCnot(psi, c, t))
    BY <1>12, Zenon DEF RunCnot, OnWords
  <2>2. Live => Simulates(Cnot(tab, c, t), ws, ApplyCnot(psi, c, t), n)
    BY <1>1, <1>12, CnotSimulates
  <2> HIDE DEF ws
  <2> QED
    BY <2>1, <2>2, GateInv
<1>13. ASSUME NEW q \in Qubits(n), MeasureRandom(q) \/ MeasureCertain(q)
       PROVE  Inv'
  BY <1>13, MeasureIs, OnRowsInv
<1>15. CASE MeasureNothing
  <2>1. CASE Live
    <3>1. PICK v \in Bit : last' = [NoMeasurement EXCEPT !.qubit = 0, !.outcome = v,
                                           !.packed = [w \in WordSizes |-> v]]
      BY <2>1, <1>15 DEF MeasureNothing
    <3>2. UNCHANGED <<n, tab, words, psi, memory>>
      BY <2>1, <1>15 DEF MeasureNothing
    <3>3. last'.outcome = v /\ last'.packed = [w \in WordSizes |-> v]
      BY <3>1 DEF NoMeasurement
    <3>4. \A w \in WordSizes : last'.packed[w] = last'.outcome
      BY <3>3
    <3>5. IsState(psi', n) /\ (Live => Simulates(tab', words', psi', n)) /\ UNCHANGED <<n, memory>>
      BY <3>2, <1>1
    <3> QED
      BY <3>4, <3>5, OnRowsInv
  <2>2. CASE ~Live
    BY <2>2, <1>15, UndefinedInv DEF MeasureNothing
  <2> QED
    BY <2>1, <2>2
<1> QED
  BY <1>2, <1>3, <1>5, <1>6, <1>7, <1>8, <1>9, <1>10, <1>11, <1>12, <1>13, <1>15
     DEF Instruction

\* and so does every step
LEMMA NextInv ==
  ASSUME Inv, [Next]_vars
  PROVE  Inv'
<1>1. CASE status = "alive" /\ Instruction
  BY <1>1, InstructionInv
<1>2. CASE UNCHANGED vars
  <2>1. UNCHANGED <<n, tab, words, psi, last, memory>>
    BY <1>2 DEF vars, bits
  <2>2. n \in Nat /\ IsState(psi, n) /\ (Live => Simulates(tab, words, psi, n))
    BY InvIs
  <2>3. \A w \in WordSizes : last.packed[w] = last.outcome
    BY DEF Inv, WordsAgree
  <2>4. /\ UNCHANGED <<n, memory>> /\ IsState(psi', n) /\ (Live => Simulates(tab', words', psi', n))
        /\ \A w \in WordSizes : last'.packed[w] = last'.outcome
    BY <2>1, <2>2, <2>3
  <2> QED
    BY <2>4, OnRowsInv
<1> QED
  BY <1>1, <1>2 DEF Next, Stopped

\* what MeasurementIsBorn says of a step
LEMMA StepIsBorn ==
  ASSUME Inv, [Next]_vars
  PROVE  [last' # NoMeasurement /\ n > 0 =>
             /\ Possible(psi, last'.qubit, last'.outcome)
             /\ last'.random <=> Possible(psi, last'.qubit, 1 - last'.outcome)]_vars
<1> SUFFICES ASSUME ~UNCHANGED vars, last' # NoMeasurement, n > 0
             PROVE  /\ Possible(psi, last'.qubit, last'.outcome)
                    /\ last'.random <=> Possible(psi, last'.qubit, 1 - last'.outcome)
  OBVIOUS
<1>1. Instruction
  BY DEF Next, Stopped
<1>2. ~Undefined /\ ~Destroy
  BY DEF Undefined, Destroy, End
<1>3. ASSUME NEW newTab, NEW newWords, NEW newPsi PROVE ~Gate(newTab, newWords, newPsi)
  BY DEF Gate
<1>4. \A size \in Sizes : ~Initialize(size) /\ \A k \in DOMAIN Arrays : ~InitializeFails(size, k)
  BY DEF Initialize, InitializeFails
<1>5. ~(\E k \in DOMAIN Arrays : InitializeFailsTwice(k)) /\ ~DestroyFreed /\ ~UseMissing
  BY <1>2 DEF InitializeFailsTwice, DestroyFreed, UseMissing
<1>6. ~MeasureNothing
  <2>1. n # 0
    BY InvIs
  <2> QED
    BY <2>1 DEF MeasureNothing
<1>7. \A q \in Qubits(n) : /\ ~RunHadamard(q) /\ ~RunPhase(q)
                           /\ ~RunPauliX(q) /\ ~RunPauliY(q) /\ ~RunPauliZ(q)
  BY <1>3, Zenon DEF RunHadamard, RunPhase, RunPauliX, RunPauliY, RunPauliZ
<1>8. \A c, t \in Qubits(n) : ~RunCnot(c, t)
  BY <1>3, Zenon DEF RunCnot
<1>9. PICK q \in Qubits(n) : MeasureRandom(q) \/ MeasureCertain(q)
  BY <1>1, <1>2, <1>4, <1>5, <1>6, <1>7, <1>8 DEF Instruction
<1> QED
  BY <1>9, MeasureIs

\* Every instruction of run_program, every failure of init_state and the destructor
\* keep the arrays and the rows of a state as Inv says.
THEOREM Invariance == Spec => []Inv
<1>1. Inv /\ [Next]_vars => Inv'
  BY NextInv
<1> QED
  BY InitInv, <1>1, PTL DEF Spec

\* For every number of qubits, the rows of the tableau stay a basis of the Pauli
\* group through any sequence of gates and measurements, as measure relies on.
THEOREM RowsStayABasis == Spec => []SymplecticBasis
<1>1. Inv => SymplecticBasis
  BY DEF Inv
<1> QED
  BY <1>1, Invariance, PTL

\* A state owns all of its arrays or none, wherever an allocation of init_state
\* failed, and none once ~_chp_state has run.
THEOREM ArraysAreOwned == Spec => []ArraysOwned
<1>1. Inv => ArraysOwned
  BY DEF Inv
<1> QED
  BY <1>1, Invariance, PTL

\* After an initialize that succeeded no instruction and no destructor runs into
\* a null or deleted array.
THEOREM InitialisedIsDefined == Spec => []DefinedWhenInitialised
<1>1. Inv => DefinedWhenInitialised
  BY DEF Inv
<1> QED
  BY <1>1, Invariance, PTL

\* The simulation is correct: for every number of qubits and any sequence of gates and
\* measurements, the stabilizer rows of the tableau, signs included, stabilize the state
\* vector that the same sequence produces.
THEOREM TableauSimulates == Spec => []StabilizesState
<1>1. Inv => StabilizesState
  BY DEF Inv
<1> QED
  BY <1>1, Invariance, PTL

\* For every word size the words of chp_state.hpp stand for the bits of the tableau,
\* whatever the order of gates and measurements, and a measurement read off the words
\* has the outcome that the bits give.
THEOREM WordsStandForBits == Spec => []WordsAgree
<1>1. Inv => WordsAgree
  BY DEF Inv
<1> QED
  BY <1>1, Invariance, PTL

\* measure asks the generator exactly when both outcomes are possible in the state
\* vector, and otherwise returns the one that is.
THEOREM MeasuresAsBorn == Spec => MeasurementIsBorn
<1>1. Inv /\ [Next]_vars =>
         [last' # NoMeasurement /\ n > 0 =>
             /\ Possible(psi, last'.qubit, last'.outcome)
             /\ last'.random <=> Possible(psi, last'.qubit, 1 - last'.outcome)]_vars
  BY StepIsBorn
<1> QED
  BY <1>1, Invariance, PTL DEF Spec, MeasurementIsBorn

\* if no stabilizer has an X on a qubit, some destabilizer has
PivotFound ==
    Live => \A q \in Qubits(n) : IsRandom(tab, n, q) \/ Pivots(tab, 0, n, q) # {}

\* When an outcome is certain, the search of measure for a destabilizer ends before
\* the last one: rowcopy never reads the scratch row itself.
THEOREM PivotIsThere == Spec => []PivotFound
<1>1. ASSUME Inv PROVE PivotFound
  <2>1. n \in Nat /\ (Live => IsTableau(tab, n) /\ IsDual(tab, n))
    BY <1>1, InvIs DEF Simulates
  <2> QED
    BY <2>1, PivotIsFound DEF PivotFound
<1>2. Inv => PivotFound
  BY <1>1
<1> QED
  BY <1>2, Invariance, PTL

\* gaussian brings the rows of every reachable state into the form its comment promises
\* of the bottom rows, and keeps the basis and the stabilized state doing so, on any
\* number of qubits.
THEOREM GaussianReduces == Spec => []ReducedForm
<1>1. ASSUME Inv, Live PROVE ReducedForm
  <2>1. n \in Nat /\ IsState(psi, n) /\ Simulates(tab, words, psi, n)
    BY <1>1, InvIs
  <2>2. IsSound(tab, n, psi)
    BY <2>1 DEF Simulates, IsSound
  <2> DEFINE e == Gaussian(tab, n)
  <2>3. IsSound(e.rows, n, psi) /\ NoX(e.rows, n + e.g .. 2 * n - 1, Qubits(n))
    BY <2>1, <2>2, GaussianKeeps
  <2> HIDE DEF e
  <2>4. /\ IsBasis(e.rows, n) /\ \A i \in n .. 2 * n - 1 : StabilizedBy(psi, e.rows[i])
        /\ \A i \in n + e.g .. 2 * n - 1, q \in Qubits(n) : e.rows[i].x[q] = 0
    BY <2>3 DEF IsSound, IsStabilized, NoX
  <2> QED
    BY <2>4 DEF ReducedForm, e
<1>2. Inv => ReducedForm
  BY <1>1 DEF ReducedForm
<1> QED
  BY <1>2, Invariance, PTL
===============================================================================
