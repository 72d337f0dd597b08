----------------------------- MODULE StateVector -----------------------------
(* The reference: n qubits as a vector of complex amplitudes.  Amplitudes are *)
(* Gaussian integers, pairs <<re, im>>, and a vector stands for its ray.  It   *)
(* is scaled so that, on the states that the Clifford gates reach, all         *)
(* non-zero amplitudes are 1, i, -1 or -i and one of them is 1.                *)
EXTENDS Integers, FiniteSetsExt

Basis(n) == [0 .. n - 1 -> {0, 1}]

Zero       == <<0, 0>>
Plus(a, b) == <<a[1] + b[1], a[2] + b[2]>>
Neg(a)     == <<-a[1], -a[2]>>
TimesI(a)  == <<-a[2], a[1]>>

\* i^e * a
Rotate(e, a) ==
    CASE e % 4 = 0 -> a
      [] e % 4 = 1 -> TimesI(a)
      [] e % 4 = 2 -> Neg(a)
      [] e % 4 = 3 -> TimesI(Neg(a))

Times(a, b)  == <<a[1] * b[1] - a[2] * b[2], a[1] * b[2] + a[2] * b[1]>>
Conjugate(a) == <<a[1], -a[2]>>

Support(psi) == {b \in DOMAIN psi : psi[b] # Zero}

\* divided by 1 + i if every amplitude is a multiple of it
Reduce(psi) ==
    IF \A b \in DOMAIN psi : (psi[b][1] + psi[b][2]) % 2 = 0
    THEN [b \in DOMAIN psi |-> <<(psi[b][1] + psi[b][2]) \div 2, (psi[b][2] - psi[b][1]) \div 2>>]
    ELSE psi

\* One vector for each ray: what a gate adds to the length is a factor (1 + i)^2 at
\* most, and the phase of one amplitude is taken off all.
Normalise(psi) ==
    LET short == Reduce(Reduce(psi))
        one   == CHOOSE b \in Support(short) : TRUE
    IN  IF Support(short) = {} THEN psi
        ELSE [b \in DOMAIN psi |-> Times(short[b], Conjugate(short[one]))]

Put(b, q, v) == [b EXCEPT ![q] = v]

GroundState(n) ==
    [b \in Basis(n) |-> IF \A q \in DOMAIN b : b[q] = 0 THEN <<1, 0>> ELSE Zero]

ApplyH(psi, q) ==
    Normalise([b \in DOMAIN psi |->
        Plus(psi[Put(b, q, 0)],
             IF b[q] = 0 THEN psi[Put(b, q, 1)] ELSE Neg(psi[Put(b, q, 1)]))])

ApplyS(psi, q) ==
    Normalise([b \in DOMAIN psi |-> Rotate(b[q], psi[b])])

ApplyX(psi, q) ==
    Normalise([b \in DOMAIN psi |-> psi[Put(b, q, 1 - b[q])]])

ApplyZ(psi, q) ==
    Normalise([b \in DOMAIN psi |-> Rotate(2 * b[q], psi[b])])

ApplyY(psi, q) ==
    Normalise([b \in DOMAIN psi |-> Rotate(3 - 2 * b[q], psi[Put(b, q, 1 - b[q])])])

ApplyCnot(psi, c, t) ==
    Normalise([b \in DOMAIN psi |-> psi[Put(b, t, (b[t] + b[c]) % 2)]])

\* what is left of the state after qubit q was found to be v
Project(psi, q, v) ==
    Normalise([b \in DOMAIN psi |-> IF b[q] = v THEN psi[b] ELSE Zero])

\* qubit q may be found to be v
Possible(psi, q, v) == \E b \in Support(psi) : b[q] = v

\* the basis state in which the row's X and Y operators leave b
Flipped(row, b) == [q \in DOMAIN b |-> (b[q] + row.x[q]) % 2]

\* the power of i that it gets there: the phase of the row, a sign for each Z or Y
\* on a 1, and an i for each Y
Power(row, b) ==
    row.r + 2 * Cardinality({q \in DOMAIN b : row.z[q] = 1 /\ b[q] = 1})
          + Cardinality({q \in DOMAIN b : row.z[q] = 1 /\ row.x[q] = 1})

\* The Pauli product of a tableau row leaves the state as it is.
StabilizedBy(psi, row) ==
    \A b \in DOMAIN psi : psi[Flipped(row, b)] = Rotate(Power(row, b), psi[b])
=============================================================================
