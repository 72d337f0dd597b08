---------------------------- MODULE PackedTableau ----------------------------
(* The tableau as chp_state.hpp stores it: the bits of a row packed into       *)
(* words, w to a word (32 in the code), of Width bits each (int_fast64_t: 64). *)
(* A word is the set of its bits that are 1.  A packed row has words           *)
(* 0 .. n \div w, which is over32 of them.  The operators are those of         *)
(* Tableau, on words.                                                          *)
EXTENDS Tableau

CONSTANT Width

ASSUME WidthAssumption == Width \in Nat \ {0}

\* pt: 1 << i is computed in int, so that the top bit of the int becomes the
\* sign and fills the rest of the word when it is widened
Pt(w, i)   == IF i = w - 1 THEN i .. Width - 1 ELSE {i}
Word(w, q) == q \div w
Mask(w, q) == Pt(w, q % w)

\* words[q >> 5] & pt(q & 0x1F), as a condition
Has(w, words, q) == words[Word(w, q)] \cap Mask(w, q) # {}
\* words[q >> 5] ^= pt(q & 0x1F)
Toggle(w, words, q) == [words EXCEPT ![Word(w, q)] = SymDiff(@, Mask(w, q))]

ZeroWords(w, n) == [i \in 0 .. n \div w |-> {}]

\* rowset
RowSetWords(w, n, k) ==
    [x |-> IF k < n THEN Toggle(w, ZeroWords(w, n), k) ELSE ZeroWords(w, n),
     z |-> IF k < n THEN ZeroWords(w, n) ELSE Toggle(w, ZeroWords(w, n), k - n),
     r |-> 0]

\* init_state writes the scratch row, 2n, too; every use of it copies first, and
\* it is left out from here on
InitWords(w, n) == [i \in 0 .. 2 * n - 1 |-> RowSetWords(w, n, i)]

\* variant: the toggled bit is widened to the word before it is shifted, as it is
\* not where it is tested or set
CnotRowWordsNarrow(w, row, control, target) ==
    LET x == IF Has(w, row.x, control)
             THEN [row.x EXCEPT ![Word(w, target)] = SymDiff(@, {target % w})] ELSE row.x
        z == IF Has(w, row.z, target) THEN Toggle(w, row.z, control) ELSE row.z
    IN  [x |-> x, z |-> z,
         r |-> IF /\ Has(w, x, control) /\ Has(w, z, target)
                  /\ Has(w, x, target) <=> Has(w, z, control)
               THEN Flip(row.r) ELSE row.r]

CnotRowWords(w, row, control, target) ==
    LET x == IF Has(w, row.x, control) THEN Toggle(w, row.x, target) ELSE row.x
        z == IF Has(w, row.z, target) THEN Toggle(w, row.z, control) ELSE row.z
    IN  [x |-> x, z |-> z,
         r |-> IF /\ Has(w, x, control) /\ Has(w, z, target)
                  /\ Has(w, x, target) <=> Has(w, z, control)
               THEN Flip(row.r) ELSE row.r]

\* the two words exchange the bits under the mask
HadamardRowWords(w, row, q) ==
    LET both == SymDiff(row.x[Word(w, q)], row.z[Word(w, q)]) \cap Mask(w, q)
        x    == [row.x EXCEPT ![Word(w, q)] = SymDiff(@, both)]
        z    == [row.z EXCEPT ![Word(w, q)] = SymDiff(@, both)]
    IN  [x |-> x, z |-> z,
         r |-> IF Has(w, x, q) /\ Has(w, z, q) THEN Flip(row.r) ELSE row.r]

PhaseRowWords(w, row, q) ==
    [x |-> row.x,
     z |-> [row.z EXCEPT ![Word(w, q)] = SymDiff(@, row.x[Word(w, q)] \cap Mask(w, q))],
     r |-> IF Has(w, row.x, q) /\ Has(w, row.z, q) THEN Flip(row.r) ELSE row.r]

CnotWords(w, rows, c, t)  == [i \in DOMAIN rows |-> CnotRowWords(w, rows[i], c, t)]
HadamardWords(w, rows, q) == [i \in DOMAIN rows |-> HadamardRowWords(w, rows[i], q)]
PhaseWords(w, rows, q)    == [i \in DOMAIN rows |-> PhaseRowWords(w, rows[i], q)]

PauliXWords(w, rows, q) ==
    HadamardWords(w, PhaseWords(w, PhaseWords(w, HadamardWords(w, rows, q), q), q), q)
PauliZWords(w, rows, q) == PhaseWords(w, PhaseWords(w, rows, q), q)
PauliYWords(w, rows, q) ==
    PhaseWords(w, PauliZWords(w, PauliXWords(w, PhaseWords(w, rows, q), q), q), q)

-----------------------------------------------------------------------------

\* clifford looks at all bits of all words, the unused ones of the last included
BitOf(w, words, q) == IF Has(w, words, q) THEN 1 ELSE 0
CliffordWords(w, a, b) ==
    LET Giving(power) ==
            {q \in 0 .. Cardinality(DOMAIN a.x) * w - 1 :
                PauliPower(BitOf(w, a.x, q), BitOf(w, a.z, q),
                           BitOf(w, b.x, q), BitOf(w, b.z, q)) = power}
    IN  (Cardinality(Giving(1)) - Cardinality(Giving(-1)) + a.r + b.r) % 4

\* rowmult
RowMultWords(w, a, b) ==
    [x |-> [i \in DOMAIN a.x |-> SymDiff(a.x[i], b.x[i])],
     z |-> [i \in DOMAIN a.z |-> SymDiff(a.z[i], b.z[i])],
     r |-> CliffordWords(w, a, b)]

\* measure: the rows it leaves and the outcome, where "coin" is what the
\* generator returns if it is asked
PivotsWords(w, rows, from, n, q) == {i \in 0 .. n - 1 : Has(w, rows[from + i].x, q)}

ObservableWords(w, n, q, outcome) == [RowSetWords(w, n, q + n) EXCEPT !.r = 2 * outcome]

CollapseWords(w, rows, n, q, coin) ==
    LET p    == Min(PivotsWords(w, rows, n, n, q))
        swap == [rows EXCEPT ![p] = rows[p + n],
                             ![p + n] = ObservableWords(w, n, q, coin)]
    IN  [i \in DOMAIN rows |->
            IF i # p /\ Has(w, swap[i].x, q) THEN RowMultWords(w, swap[i], swap[p])
                                             ELSE swap[i]]

ScratchWords(w, rows, n, q) ==
    LET m == Min(PivotsWords(w, rows, 0, n, q))
        product[i \in m .. n - 1] ==
            IF i = m THEN rows[m + n]
            ELSE IF Has(w, rows[i].x, q) THEN RowMultWords(w, product[i - 1], rows[i + n])
                                         ELSE product[i - 1]
    IN  product[n - 1]

MeasureWords(w, rows, n, q, coin) ==
    IF PivotsWords(w, rows, n, n, q) # {}
    THEN [rows |-> CollapseWords(w, rows, n, q, coin), outcome |-> coin]
    ELSE [rows |-> rows, outcome |-> IF ScratchWords(w, rows, n, q).r = 0 THEN 0 ELSE 1]

-----------------------------------------------------------------------------

\* the bits that the words stand for
DecodeRow(w, n, row) ==
    [x |-> [q \in Qubits(n) |-> BitOf(w, row.x, q)],
     z |-> [q \in Qubits(n) |-> BitOf(w, row.z, q)],
     r |-> row.r]

Decode(w, n, rows) == [i \in DOMAIN rows |-> DecodeRow(w, n, rows[i])]

-----------------------------------------------------------------------------
(* What the words of a row keep to.                                           *)

\* the sign of the int fills the word
SignExtended(w, word) == \A b \in w - 1 .. Width - 1 : b \in word <=> w - 1 \in word

\* the positions of the bits, in all words
Positions(w, n) == 0 .. (n \div w + 1) * w - 1

AreWords(w, n, words) ==
    /\ words \in [0 .. n \div w -> SUBSET (0 .. Width - 1)]
    /\ \A i \in 0 .. n \div w : SignExtended(w, words[i])

\* the bits behind the last qubit are not used
ArePacked(w, n, words) ==
    AreWords(w, n, words) /\ \A q \in Positions(w, n) \ Qubits(n) : ~Has(w, words, q)

IsPackedRow(w, n, row) == ArePacked(w, n, row.x) /\ ArePacked(w, n, row.z)

IsPacked(w, n, rows) ==
    DOMAIN rows = 0 .. 2 * n - 1 /\ \A i \in DOMAIN rows : IsPackedRow(w, n, rows[i])
=============================================================================
