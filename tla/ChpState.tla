------------------------------- MODULE ChpState -------------------------------
(* One _chp_state and the programs that are run on it (chp_state.hpp): each   *)
(* instruction of run_program is an action, and so is the destructor.  The    *)
(* tableau is kept as bits and, for each word size, as the words the code     *)
(* packs them into, with the arrays that hold them.  Beside it the model      *)
(* carries the state vector the gates should have produced (history), which   *)
(* the properties compare it with.                                            *)
EXTENDS PackedTableau, StateVector, Sequences

CONSTANTS Sizes,     \* operands of the initialize instruction
          WordSizes  \* bits used of a word; the code uses 32

ASSUME SizesAssumption == Sizes \subseteq Nat
ASSUME WordSizesAssumption == WordSizes \subseteq 1 .. Width

\* The arrays of a state in the order init_state allocates them.  The chunks hold
\* the words; only x[0] and z[0] point to them.
Arrays   == <<"x", "z", "r", "xchunk", "zchunk">>
Pointers == {"x", "z", "r"}
Names    == Pointers \cup {"xchunk", "zchunk"}
Place(a) == CHOOSE k \in DOMAIN Arrays : Arrays[k] = a

VARIABLES n,       \* state.n
          tab,     \* the bits of state.x, state.z, and state.r; empty before initialize
          words,   \* the same as words, for each word size
          heap,    \* each array: "null", "live", or "freed" with its pointer kept
          status,  \* the object: "alive", "destroyed", or "undefined" behaviour
          psi,     \* history: the state vector
          last,    \* history: the last instruction, if it was a measurement
          ready    \* history: the last initialize succeeded and made qubits

bits   == <<n, tab, words, psi, last>>
memory == <<heap, status, ready>>
vars   == <<bits, memory>>

NoMeasurement ==
    [qubit |-> -1, outcome |-> 0, random |-> FALSE, packed |-> [w \in WordSizes |-> 0]]

Live == \A a \in Names : heap[a] = "live"

\* _chp_state(): no qubits, null pointers
Init ==
    /\ n = 0
    /\ tab = << >>
    /\ words = [w \in WordSizes |-> << >>]
    /\ heap = [a \in Names |-> "null"]
    /\ status = "alive"
    /\ psi = GroundState(0)
    /\ last = NoMeasurement
    /\ ready = FALSE

\* variant: arrays that are there already are taken over
InitializeKeeps(size) ==
    /\ n' = size
    /\ tab' = InitTableau(size)
    /\ words' = [w \in WordSizes |-> InitWords(w, size)]
    /\ heap' = [a \in Names |-> IF heap[a] = "null" THEN "live" ELSE heap[a]]
    /\ ready' = (size > 0)
    /\ psi' = GroundState(size) /\ last' = NoMeasurement
    /\ UNCHANGED status

\* An initialize instruction anywhere in a program starts over with new arrays,
\* whatever the pointers hold: arrays they still own are leaked.
Initialize(size) ==
    /\ n' = size
    /\ tab' = InitTableau(size)
    /\ words' = [w \in WordSizes |-> InitWords(w, size)]
    /\ heap' = [a \in Names |-> "live"]
    /\ ready' = (size > 0)
    /\ psi' = GroundState(size) /\ last' = NoMeasurement
    /\ UNCHANGED status

\* variant: the phases are not deleted
InitializeFailsForgets(size, k) ==
    /\ \A a \in Pointers : Place(a) >= k => heap[a] # "freed"
    /\ n' = size
    /\ tab' = << >> /\ words' = [w \in WordSizes |-> << >>]
    /\ heap' = [a \in Names |->
                  IF a = "r" THEN (IF Place(a) < k THEN "live" ELSE heap[a])
                  ELSE IF a \in Pointers /\ (Place(a) < k \/ heap[a] # "null")
                       THEN "freed" ELSE "null"]
    /\ ready' = FALSE
    /\ psi' = GroundState(size) /\ last' = NoMeasurement
    /\ UNCHANGED status

\* bad_alloc from the k-th allocation: n is set; x, z and r are deleted, be they
\* new or left from before, and keep their values; the new chunks are deleted and
\* old ones are lost with the old x and z.  run_program returns false, which
\* encode_state ignores: the state goes on being used.
InitializeFails(size, k) ==
    /\ \A a \in Pointers : Place(a) >= k => heap[a] # "freed"
    /\ n' = size
    /\ tab' = << >> /\ words' = [w \in WordSizes |-> << >>]
    /\ heap' = [a \in Names |-> IF a \in Pointers /\ (Place(a) < k \/ heap[a] # "null")
                                THEN "freed" ELSE "null"]
    /\ ready' = FALSE
    /\ psi' = GroundState(size) /\ last' = NoMeasurement
    /\ UNCHANGED status

\* the members are not read any more
End(how) ==
    /\ status' = how
    /\ n' = 0 /\ tab' = << >> /\ words' = [w \in WordSizes |-> << >>]
    /\ psi' = GroundState(0) /\ last' = NoMeasurement
    /\ UNCHANGED ready

Undefined == End("undefined") /\ UNCHANGED heap

\* after an earlier failure, one that comes sooner deletes freed arrays again
InitializeFailsTwice(k) ==
    /\ \E a \in Pointers : Place(a) >= k /\ heap[a] = "freed"
    /\ Undefined

\* ~_chp_state() deletes the chunks it finds through x and z, then the pointers
Destroy ==
    /\ \A a \in Pointers : heap[a] # "freed"
    /\ End("destroyed")
    /\ heap' = [a \in Names |-> IF heap[a] = "live" THEN "freed" ELSE heap[a]]

DestroyFreed ==
    /\ \E a \in Pointers : heap[a] = "freed"
    /\ Undefined

\* an instruction on a qubit reads the arrays, null or freed as they may be
UseMissing ==
    /\ n > 0 /\ ~Live
    /\ Undefined

Gate(newTab, newWords, newPsi) ==
    /\ Live
    /\ tab' = newTab
    /\ words' = newWords
    /\ psi' = newPsi
    /\ last' = NoMeasurement
    /\ UNCHANGED <<n, memory>>

OnWords(gate(_, _)) == [w \in WordSizes |-> gate(w, words[w])]

RunHadamard(q) ==
    Gate(Hadamard(tab, q), OnWords(LAMBDA w, rows : HadamardWords(w, rows, q)), ApplyH(psi, q))
RunPhase(q) ==
    Gate(Phase(tab, q), OnWords(LAMBDA w, rows : PhaseWords(w, rows, q)), ApplyS(psi, q))
RunPauliX(q) ==
    Gate(PauliX(tab, q), OnWords(LAMBDA w, rows : PauliXWords(w, rows, q)), ApplyX(psi, q))
RunPauliY(q) ==
    Gate(PauliY(tab, q), OnWords(LAMBDA w, rows : PauliYWords(w, rows, q)), ApplyY(psi, q))
RunPauliZ(q) ==
    Gate(PauliZ(tab, q), OnWords(LAMBDA w, rows : PauliZWords(w, rows, q)), ApplyZ(psi, q))
RunCnot(c, t) ==
    Gate(Cnot(tab, c, t), OnWords(LAMBDA w, rows : CnotWords(w, rows, c, t)),
         ApplyCnot(psi, c, t))

\* the words are measured as they are, with the same answer of the generator
Measured(q, v, isRandom) ==
    LET packed == [w \in WordSizes |-> MeasureWords(w, words[w], n, q, v)]
    IN  /\ words' = [w \in WordSizes |-> packed[w].rows]
        /\ psi' = Project(psi, q, v)
        /\ last' = [qubit |-> q, outcome |-> v, random |-> isRandom,
                    packed |-> [w \in WordSizes |-> packed[w].outcome]]
        /\ UNCHANGED <<n, memory>>

\* get_uniform_integer(0, 1) decides a random outcome
MeasureRandom(q) ==
    /\ Live
    /\ IsRandom(tab, n, q)
    /\ \E v \in Bit : Measured(q, v, TRUE) /\ tab' = Collapse(tab, n, q, v)

MeasureCertain(q) ==
    /\ Live
    /\ ~IsRandom(tab, n, q)
    /\ Measured(q, CertainOutcome(tab, n, q), FALSE)
    /\ UNCHANGED tab

\* With no qubits, gates do nothing but measure reads r[0]: a null or freed
\* pointer, or, after initialize 0, an element nothing was written to.
MeasureNothing ==
    /\ n = 0
    /\ IF Live
       THEN /\ \E v \in Bit : last' = [NoMeasurement EXCEPT !.qubit = 0, !.outcome = v,
                                           !.packed = [w \in WordSizes |-> v]]
            /\ UNCHANGED <<n, tab, words, psi, memory>>
       ELSE Undefined

Instruction ==
    \/ \E size \in Sizes :
          \/ Initialize(size)
          \/ \E k \in DOMAIN Arrays : InitializeFails(size, k) \/ InitializeFailsTwice(k)
    \/ Destroy \/ DestroyFreed
    \/ UseMissing
    \/ \E q \in Qubits(n) :
          \/ RunHadamard(q) \/ RunPhase(q)
          \/ RunPauliX(q) \/ RunPauliY(q) \/ RunPauliZ(q)
          \/ MeasureRandom(q) \/ MeasureCertain(q)
    \/ \E c, t \in Qubits(n) : c # t /\ RunCnot(c, t)
    \/ MeasureNothing

Stopped == status # "alive" /\ UNCHANGED vars

Next == (status = "alive" /\ Instruction) \/ Stopped

Spec == Init /\ [][Next]_vars

-----------------------------------------------------------------------------
(* Properties.                                                               *)

\* the qubits on which the operators of two rows anticommute
Clash(a, b) ==
    {q \in DOMAIN a.x : (a.x[q] = 1 /\ b.z[q] = 1) # (a.z[q] = 1 /\ b.x[q] = 1)}

\* whether the rows anticommute: 1 if they do
Anticommute(a, b) == Cardinality(Clash(a, b)) % 2

\* a destabilizer anticommutes with its own stabilizer and every other pair of
\* rows commutes
IsBasis(rows, size) ==
    \A i, j \in 0 .. 2 * size - 1 :
        i < j => Anticommute(rows[i], rows[j]) = (IF j = i + size THEN 1 ELSE 0)

\* The rows stay a basis of the Pauli group through gates and measurements.
\* measure relies on it to find a pivot row and to read an outcome off the
\* scratch row.
SymplecticBasis == Live => IsBasis(tab, n)

\* The tableau simulates the circuit: after any sequence of gates and
\* measurements every stabilizer row, sign included, stabilizes the state
\* vector that the same sequence produces.
StabilizesState ==
    /\ Support(psi) # {}
    /\ Live => \A i \in n .. 2 * n - 1 : StabilizedBy(psi, tab[i])

\* measure calls an outcome random exactly when both outcomes are possible, and
\* otherwise returns the one that is.
MeasurementIsBorn ==
    [][last' # NoMeasurement /\ n > 0 =>
          /\ Possible(psi, last'.qubit, last'.outcome)
          /\ last'.random <=> Possible(psi, last'.qubit, 1 - last'.outcome)]_vars

\* gaussian keeps a basis that stabilizes the same state, and leaves no X or Y in the
\* rows at the bottom, from the number it returns on.
ReducedForm ==
    Live /\ n > 0 =>
        LET e == Gaussian(tab, n)
        IN  /\ IsBasis(e.rows, n)
            /\ \A i \in n .. 2 * n - 1 : StabilizedBy(psi, e.rows[i])
            /\ \A i \in n + e.g .. 2 * n - 1, q \in Qubits(n) : e.rows[i].x[q] = 0

\* gaussian and seed keep their comments' promises in every reachable state: the
\* rows are in reduced form, the result is the logarithm of the number of basis
\* states, and the seed is one of them.
CanonicalForm ==
    /\ ReducedForm
    /\ Live /\ n > 0 =>
        LET e == Gaussian(tab, n)
        IN  /\ Cardinality(Support(psi)) = 2 ^ e.g
            /\ Seed(e.rows, n, e.g) \in Support(psi)

\* The packing is faithful: whatever the order of gates and measurements, the
\* words of every size stand for the bits that the gates act on, although the top
\* bit of an int fills the upper half of its word, unused bits of the last word
\* take part in clifford, and rows are multiplied a word at a time; measurements
\* have the same outcome.
WordsAgree ==
    /\ Live => \A w \in WordSizes : Decode(w, n, words[w]) = tab
    /\ \A w \in WordSizes : last.packed[w] = last.outcome

\* A state owns all of its arrays or none, after any sequence of failed and other
\* initialisations, and none once it is destroyed; so no array is lost except by
\* an initialize on a state that has arrays, and README.md asks a circuit to
\* initialize once.
ArraysOwned ==
    /\ \A a, b \in Names : heap[a] = "live" <=> heap[b] = "live"
    /\ status = "destroyed" => \A a \in Names : heap[a] # "live"

\* Once an initialize has succeeded, be it after failed ones, no instruction and
\* no destructor runs into a null or deleted array.
DefinedWhenInitialised == status = "undefined" => ~ready

-----------------------------------------------------------------------------
(* The inductive invariant behind all of these but CanonicalForm.            *)

\* what has been initialised can be used
OwnerInv ==
    /\ status \in {"alive", "destroyed", "undefined"}
    /\ heap \in [Names -> {"null", "live", "freed"}]
    /\ status = "alive" /\ ready => Live

\* the bits, not the phases, of rows of the right size
HasBits(row, size) == row.x \in [Qubits(size) -> Bit] /\ row.z \in [Qubits(size) -> Bit]

IsTableau(rows, size) ==
    DOMAIN rows = 0 .. 2 * size - 1 /\ \A i \in DOMAIN rows : HasBits(rows[i], size)

HasPhases(rows) == \A i \in DOMAIN rows : rows[i].r \in 0 .. 3

RowsInv == Live => IsTableau(tab, n) /\ HasPhases(tab)

\* The X and the Z bits of a qubit, as if the destabilizers' were the X bits and the
\* stabilizers' the Z bits of a row.
XColumn(rows, size, q) ==
    [x |-> [i \in Qubits(size) |-> rows[i].x[q]],
     z |-> [i \in Qubits(size) |-> rows[i + size].x[q]]]
ZColumn(rows, size, q) ==
    [x |-> [i \in Qubits(size) |-> rows[i].z[q]],
     z |-> [i \in Qubits(size) |-> rows[i + size].z[q]]]

\* the columns of a basis are one as well: so every X on a qubit can be found in
\* some row, and Z is a product of the stabilizers that measure multiplies
IsDual(rows, size) ==
    \A a, b \in Qubits(size) :
        /\ Anticommute(XColumn(rows, size, a), XColumn(rows, size, b)) = 0
        /\ Anticommute(ZColumn(rows, size, a), ZColumn(rows, size, b)) = 0
        /\ Anticommute(XColumn(rows, size, a), ZColumn(rows, size, b)) = (IF a = b THEN 1 ELSE 0)

ColumnsInv == Live => IsDual(tab, n)

PackedInv == Live => \A w \in WordSizes : IsPacked(w, n, words[w])

VectorInv == n \in Nat /\ psi \in [Basis(n) -> Int \X Int]

Inv ==
    /\ OwnerInv /\ RowsInv /\ ColumnsInv /\ PackedInv /\ VectorInv
    /\ SymplecticBasis /\ StabilizesState /\ WordsAgree
    /\ ArraysOwned /\ DefinedWhenInitialised
=============================================================================
