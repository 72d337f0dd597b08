------------------------------- MODULE Tableau -------------------------------
(* The stabilizer tableau of state/chp_state.hpp as operators on rows.  A row *)
(* is a product of Pauli operators with a phase: qubit q carries X, Z or Y    *)
(* (x, z or both bits set), and the phase is i^r.  A tableau of n qubits is a *)
(* function on rows 0 .. 2n-1: the destabilizers 0 .. n-1 and the stabilizers *)
(* n .. 2n-1.  The bits the code packs into words are kept as bits.           *)
EXTENDS Integers, FiniteSetsExt

Qubits(n) == 0 .. n - 1
Bit       == {0, 1}
Row(n)    == [x : [Qubits(n) -> Bit], z : [Qubits(n) -> Bit], r : 0 .. 3]

NumQubits(row) == Cardinality(DOMAIN row.x)
Xor(a, b)      == (a + b) % 2
Flip(r)        == (r + 2) % 4

\* rowset: the observable X_k for k < n, and Z_(k-n) from there on
RowSet(n, k) ==
    [x |-> [q \in Qubits(n) |-> IF q = k THEN 1 ELSE 0],
     z |-> [q \in Qubits(n) |-> IF q + n = k THEN 1 ELSE 0],
     r |-> 0]

\* init_state: destabilizer i is X_i, stabilizer i is Z_i
InitTableau(n) == [i \in 0 .. 2 * n - 1 |-> RowSet(n, i)]

-----------------------------------------------------------------------------
(* The gates, on one row.                                                     *)

HadamardRow(row, q) ==
    [x |-> [row.x EXCEPT ![q] = row.z[q]],
     z |-> [row.z EXCEPT ![q] = row.x[q]],
     r |-> IF row.x[q] = 1 /\ row.z[q] = 1 THEN Flip(row.r) ELSE row.r]

PhaseRow(row, q) ==
    [x |-> row.x,
     z |-> [row.z EXCEPT ![q] = Xor(@, row.x[q])],
     r |-> IF row.x[q] = 1 /\ row.z[q] = 1 THEN Flip(row.r) ELSE row.r]

\* Variants with a plausible mistake stand before some definitions; the
\* properties of ChpState tell them apart.
\* variant: the phase looks at the bits before the update
CnotRowOldBits(row, control, target) ==
    [x |-> [row.x EXCEPT ![target] = Xor(@, row.x[control])],
     z |-> [row.z EXCEPT ![control] = Xor(@, row.z[target])],
     r |-> IF row.x[control] = 1 /\ row.z[target] = 1 /\ row.x[target] # row.z[target]
           THEN Flip(row.r) ELSE row.r]

\* the phase looks at the bits after both have been updated
CnotRow(row, control, target) ==
    LET x == [row.x EXCEPT ![target] = Xor(@, row.x[control])]
        z == [row.z EXCEPT ![control] = Xor(@, row.z[target])]
    IN  [x |-> x, z |-> z,
         r |-> IF x[control] = 1 /\ z[target] = 1 /\ x[target] = z[control]
               THEN Flip(row.r) ELSE row.r]

Hadamard(tab, q)           == [i \in DOMAIN tab |-> HadamardRow(tab[i], q)]
Phase(tab, q)              == [i \in DOMAIN tab |-> PhaseRow(tab[i], q)]
Cnot(tab, control, target) == [i \in DOMAIN tab |-> CnotRow(tab[i], control, target)]

\* run_program: the Pauli gates as sequences of the others
PauliX(tab, q) == Hadamard(Phase(Phase(Hadamard(tab, q), q), q), q)
PauliZ(tab, q) == Phase(Phase(tab, q), q)
PauliY(tab, q) == Phase(PauliZ(PauliX(Phase(tab, q), q), q), q)

-----------------------------------------------------------------------------
(* Row multiplication.                                                        *)

\* The power of i that multiplying b's operator on a qubit by a's gives:
\* XY, YZ and ZX give +1, the other way round -1, equal or identity none.
PauliPower(xa, za, xb, zb) ==
    CASE xb = 1 /\ zb = 0 -> IF za = 0 THEN 0 ELSE IF xa = 1 THEN 1 ELSE -1
      [] xb = 1 /\ zb = 1 -> IF xa = za THEN 0 ELSE IF za = 1 THEN 1 ELSE -1
      [] xb = 0 /\ zb = 1 -> IF xa = 0 THEN 0 ELSE IF za = 0 THEN 1 ELSE -1
      [] OTHER            -> 0

\* clifford: the phase when row a is left-multiplied by row b; the qubits that
\* give +1 and those that give -1 are counted
Clifford(a, b) ==
    LET Giving(power) ==
            {q \in DOMAIN a.x : PauliPower(a.x[q], a.z[q], b.x[q], b.z[q]) = power}
    IN  (Cardinality(Giving(1)) - Cardinality(Giving(-1)) + a.r + b.r) % 4

RowMult(a, b) ==
    [x |-> [q \in DOMAIN a.x |-> Xor(a.x[q], b.x[q])],
     z |-> [q \in DOMAIN a.z |-> Xor(a.z[q], b.z[q])],
     r |-> Clifford(a, b)]

-----------------------------------------------------------------------------
(* measure                                                                    *)

\* the first row from "from" on, among n, with an X on the qubit
Pivots(tab, from, n, q) == {i \in 0 .. n - 1 : tab[from + i].x[q] = 1}
IsRandom(tab, n, q)     == Pivots(tab, n, n, q) # {}

\* Z_q, with the sign of its outcome
Observable(n, q, outcome) == [RowSet(n, q + n) EXCEPT !.r = 2 * outcome]

\* variant: the destabilizer is not replaced by the old stabilizer
CollapseNoCopy(tab, n, q, outcome) ==
    LET p    == Min(Pivots(tab, n, n, q))
        swap == [tab EXCEPT ![p + n] = Observable(n, q, outcome)]
    IN  [i \in DOMAIN tab |->
            IF i # p /\ swap[i].x[q] = 1 THEN RowMult(swap[i], swap[p]) ELSE swap[i]]

\* the outcome is random: the observable becomes a stabilizer, and every other row
\* with an X on the qubit is multiplied by the stabilizer it replaces
Collapse(tab, n, q, outcome) ==
    LET p    == Min(Pivots(tab, n, n, q))
        swap == [tab EXCEPT ![p] = tab[p + n],
                            ![p + n] = Observable(n, q, outcome)]
    IN  [i \in DOMAIN tab |->
            IF i # p /\ swap[i].x[q] = 1 THEN RowMult(swap[i], swap[p]) ELSE swap[i]]

\* variant: the loop leaves out the last stabilizer
ScratchShort(tab, n, q) == tab[Min(Pivots(tab, 0, n, q)) + n]

\* the outcome is certain: the scratch row becomes the product of the
\* stabilizers whose destabilizer has an X on the qubit, in order
Scratch(tab, n, q) ==
    LET m == Min(Pivots(tab, 0, n, q))
        product[i \in m .. n - 1] ==
            IF i = m THEN tab[m + n]
            ELSE IF tab[i].x[q] = 1 THEN RowMult(product[i - 1], tab[i + n])
                                    ELSE product[i - 1]
    IN  product[n - 1]

CertainOutcome(tab, n, q) == IF Scratch(tab, n, q).r = 0 THEN 0 ELSE 1

-----------------------------------------------------------------------------
(* gaussian and seed, which nothing calls yet.                                *)

\* rowswap
RowSwap(tab, a, b) == [tab EXCEPT ![a] = tab[b], ![b] = tab[a]]

\* variant: the destabilizer of the other row takes the product
EliminateRowOther(tab, n, i, k) ==
    [tab EXCEPT ![k] = RowMult(@, tab[i]), ![k - n] = RowMult(@, tab[i - n])]

\* stabilizer k is multiplied by stabilizer i, and the destabilizer of i by k's
EliminateRow(tab, n, i, k) ==
    [tab EXCEPT ![k] = RowMult(@, tab[i]), ![i - n] = RowMult(@, tab[k - n])]

\* One column of gaussian, on the X or the Z bits: the first row from s.i on that
\* has the bit is swapped up to s.i and taken out of the rows below.
EliminateColumn(s, n, part, j) ==
    LET hits == {k \in s.i .. 2 * n - 1 : s.rows[k][part][j] = 1}
        k    == Min(hits)
        up   == RowSwap(RowSwap(s.rows, s.i, k), s.i - n, k - n)
        below[m \in s.i .. 2 * n - 1] ==
            IF m = s.i THEN up
            ELSE IF below[m - 1][m][part][j] = 1 THEN EliminateRow(below[m - 1], n, s.i, m)
                                                 ELSE below[m - 1]
    IN  IF hits = {} THEN s ELSE [rows |-> below[2 * n - 1], i |-> s.i + 1]

Gaussian(tab, n) ==
    LET xPass[j \in -1 .. n - 1] ==
            IF j = -1 THEN [rows |-> tab, i |-> n]
                      ELSE EliminateColumn(xPass[j - 1], n, "x", j)
        zPass[j \in -1 .. n - 1] ==
            IF j = -1 THEN xPass[n - 1]
                      ELSE EliminateColumn(zPass[j - 1], n, "z", j)
    IN  [rows |-> zPass[n - 1].rows, g |-> xPass[n - 1].i - n]

\* seed: from the last row up, the lowest qubit of a Z row whose sign does not fit
\* the bits chosen so far is turned
Seed(tab, n, g) ==
    LET chosen[i \in n + g .. 2 * n] ==
            IF i = 2 * n THEN [bits |-> [q \in Qubits(n) |-> 0], low |-> 0]
            ELSE LET s   == chosen[i + 1]
                     zs  == {q \in Qubits(n) : tab[i].z[q] = 1}
                     low == IF zs = {} THEN s.low ELSE Min(zs)
                     f   == (tab[i].r + 2 * Cardinality({q \in zs : s.bits[q] = 1})) % 4
                 IN  [bits |-> IF f = 2 THEN [s.bits EXCEPT ![low] = Xor(@, 1)] ELSE s.bits,
                      low  |-> low]
    IN  chosen[n + g].bits
=============================================================================
