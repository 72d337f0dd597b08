------------------------------- MODULE Program -------------------------------
(* The way of a program from the client's text to its results: parse_program  *)
(* of the chpext dialect (interpreter.cpp, dialect.hpp, chpext.cpp), the       *)
(* program object (program.hpp), the loop of run_program and the buffer of     *)
(* measurement results that measure_state and compute_result answer with.     *)
(* What the instructions do to a quantum state is in ChpState; here a          *)
(* measurement has any outcome.                                               *)
(*                                                                            *)
(* Characters have names where they would be hard to see: sp, tab, comma, eol *)
(* (the line delimiter) and nul.                                              *)
EXTENDS Buffer, Integers, SequencesExt

CONSTANTS OperandSpace,   \* number of values of machine::operand_t: 2^64
          ProgramClass,   \* managed_container<instruction, SABOT_UINTN, 16>
          ResultClass,    \* string_buffer<>
          Statements,     \* instructions that clients write
          MaxStatements,  \* bound on the length of their programs
          Alphabet,       \* characters of the texts that follow no rule
          MaxLength,      \* bound on the length of those
          Tails           \* what may follow the text in the request's buffer

ASSUME OperandSpaceAssumption == OperandSpace \in Nat \ {0}
ASSUME BoundsAssumption == MaxStatements \in Nat /\ MaxLength \in Nat
ASSUME ClassesAssumption == IsClass(ProgramClass) /\ IsClass(ResultClass)
\* an instruction has 24 bytes, the inner array of a program 16 items
ASSUME InstructionAssumption == StackCapacity(ProgramClass) <= ProgramClass.size

\* machine::operand_counts
OperandCounts ==
    [macro |-> 2, initialize |-> 1, identity |-> 1, hadamard |-> 1, phase |-> 1,
     measure |-> 1, cnot |-> 2, paulix |-> 1, pauliy |-> 1, pauliz |-> 1]

Define(mnemonic, op) ==
    [mnemonic |-> mnemonic, count |-> OperandCounts[op], bytecode |-> op]

\* chpext::instructionDefs
Definitions ==
    << Define(<<"m", "a", "c", "r", "o">>, "macro"),
       Define(<<"i", "n", "i", "t">>, "initialize"),
       Define(<<"i">>, "identity"), Define(<<"h">>, "hadamard"),
       Define(<<"p">>, "phase"),    Define(<<"m">>, "measure"),
       Define(<<"c">>, "cnot"),     Define(<<"x">>, "paulix"),
       Define(<<"y">>, "pauliy"),   Define(<<"z">>, "pauliz") >>

Figures == <<"0", "1", "2", "3", "4", "5", "6", "7", "8", "9">>

\* distance of the other characters from '0'
Distance == [nul |-> -48, tab |-> -39, eol |-> -38, sp |-> -16, comma |-> -4,
             semicolon |-> 11, a |-> 49, c |-> 51, h |-> 56, i |-> 57, m |-> 61,
             n |-> 62, o |-> 63, p |-> 64, r |-> 66, t |-> 68, x |-> 72,
             y |-> 73, z |-> 74]

Characters == {Figures[i] : i \in DOMAIN Figures} \cup DOMAIN Distance

\* *pos - '0'
Offset(c) == IF \E i \in 0 .. 9 : Figures[i + 1] = c THEN CHOOSE i \in 0 .. 9 : Figures[i + 1] = c
                                                     ELSE Distance[c]

\* machine::operand_t
Operands == 0 .. OperandSpace - 1

ASSUME TextAssumption == Alphabet \subseteq Characters /\ Tails \subseteq Seq(Characters)
ASSUME StatementsAssumption ==
    \A s \in Statements :
        /\ s \in [bytecode : DOMAIN OperandCounts, operands : Seq(Operands)]
        /\ Len(s.operands) = OperandCounts[s.bytecode]

VARIABLES memory,    \* the text, its nul, and what lies behind it up to another nul
          end,       \* where the text's nul is
          meant,     \* history: the instructions the client wrote
          style,     \* history: how it wrote them
          step,      \* where the worker is
          pos,       \* parse_program's pos
          list,      \* instructionList
          program,   \* the program's _instructions
          next,      \* number of instructions run_program has run
          result,    \* the string_buffer of results
          measured   \* history: the outcomes so far

vars == <<memory, end, meant, style, step, pos, list, program, next, result, measured>>

Init ==
    /\ memory = <<"nul">> /\ end = 1
    /\ meant = << >> /\ style = "none"
    /\ step = "idle"
    /\ pos = 1 /\ list = << >>
    /\ program = Empty(ProgramClass)
    /\ next = 0
    /\ result = Empty(ResultClass)
    /\ measured = << >>

-----------------------------------------------------------------------------
(* The texts that clients send.                                               *)

\* a number in decimal notation
Digits[k \in Operands] ==
    IF k < 10 THEN <<Figures[k + 1]>> ELSE Append(Digits[k \div 10], Figures[(k % 10) + 1])

DefinitionOf(s) ==
    Definitions[CHOOSE i \in DOMAIN Definitions : Definitions[i].bytecode = s.bytecode]

\* "strict" is how the example clients write; the others follow README.md
Styles == {"strict", "spaced", "tabbed", "commented"}

\* one statement, without the end of its line
Render(s, how) ==
    DefinitionOf(s).mnemonic
        \o (IF how = "tabbed" THEN <<"tab">> ELSE <<"sp">>)
        \o Digits[s.operands[1]]
        \o (IF Len(s.operands) = 1 THEN << >>
            ELSE (IF how = "spaced" THEN <<"comma", "sp">> ELSE <<"comma">>)
                     \o Digits[s.operands[2]])
        \o (IF how = "commented" THEN <<"sp", "semicolon", "a">> ELSE << >>)

\* the first lines of a program, for each number of them
Lines(ss, how) ==
    LET text[k \in 0 .. Len(ss)] ==
            IF k = 0 THEN << >> ELSE text[k - 1] \o Render(ss[k], how) \o <<"eol">>
    IN  text

RenderAll(ss, how) == Lines(ss, how)[Len(ss)]

\* remove_leading_whitespace
SkipBlanks(mem) ==
    CHOOSE i \in DOMAIN mem : /\ mem[i] \notin {"sp", "tab"}
                              /\ \A j \in 1 .. i - 1 : mem[j] \in {"sp", "tab"}

\* The worker has received a request with this text and starts to parse it.
Accept(text) ==
    /\ step = "idle"
    /\ \E tail \in Tails : memory' = text \o <<"nul">> \o tail \o <<"nul">>
    /\ end' = Len(text) + 1
    /\ pos' = SkipBlanks(memory')
    /\ step' = "parsing"
    /\ UNCHANGED <<list, program, next, result, measured>>

\* with or without an end of the last line and blanks before the first
SubmitProgram ==
    \E ss \in SeqOf(Statements, MaxStatements), how \in Styles, indented \in BOOLEAN :
        \E text \in {RenderAll(ss, how)} :
            /\ \/ Accept(IF indented THEN <<"sp">> \o text ELSE text)
               \/ text # << >> /\ Accept(Front(text))
            /\ meant' = ss
            /\ style' = how

SubmitOther ==
    /\ \E text \in SeqOf(Alphabet, MaxLength) : Accept(text)
    /\ meant' = << >>
    /\ style' = "none"

-----------------------------------------------------------------------------
(* parse_program: one round of its loop for each instruction.                 *)

\* where a scan that starts at i stops: at a nul at the latest
ScanTo(stops, i) ==
    CHOOSE j \in i .. Len(memory) :
        /\ memory[j] \in stops \cup {"nul"}
        /\ \A k \in i .. j - 1 : memory[k] \notin stops \cup {"nul"}

OpcodeEnd == ScanTo({"sp"}, pos)

\* find_idef: the definition whose mnemonic is the whole of the opcode
Found == {i \in DOMAIN Definitions :
             Definitions[i].mnemonic = SubSeq(memory, pos, OpcodeEnd - 1)}

\* variant: digits are added up
StuifSum(s, first) ==
    LET value[i \in 0 .. Len(s)] ==
            IF i <= 1 THEN Offset(first) % OperandSpace
                      ELSE (value[i - 1] + Offset(s[i])) % OperandSpace
    IN  value[Len(s)]

\* variant: the value is not kept to the width of operand_t
StuifWide(s, first) ==
    LET value[i \in 0 .. Len(s)] ==
            IF i <= 1 THEN Offset(first) ELSE value[i - 1] * 10 + Offset(s[i])
    IN  value[Len(s)]

\* stuif: no character is checked, and the first is read even if there is none
Stuif(s, first) ==
    LET value[i \in 0 .. Len(s)] ==
            IF i <= 1 THEN Offset(first) % OperandSpace
                      ELSE (value[i - 1] * 10 + Offset(s[i])) % OperandSpace
    IN  value[Len(s)]

\* where the operand after i ends; beyond the memory we know if it is missing
EndAfter(i) ==
    IF i >= Len(memory) THEN Len(memory) + 1 ELSE ScanTo({"comma", "eol"}, i + 1)

\* where each operand ends; there are two at most
OperandEnd(k) ==
    IF k = 0 THEN OpcodeEnd
    ELSE IF k = 1 THEN EndAfter(OpcodeEnd) ELSE EndAfter(EndAfter(OpcodeEnd))

Operand(k) ==
    LET start == OperandEnd(k - 1) + 1
    IN  Stuif(SubSeq(memory, start, OperandEnd(k) - 1), memory[start])

\* variant: always to the next character
AdvanceAlways(last) == last + 1

\* over the delimiter, but not over the nul
Advance(last) == IF memory[last] = "nul" THEN last ELSE last + 1

ParseInstruction ==
    /\ step = "parsing" /\ memory[pos] # "nul"
    /\ \E i \in Found :
          LET n == Definitions[i].count
              last == OperandEnd(n)
          IN  /\ last <= Len(memory)
              /\ list' = Append(list, [bytecode |-> Definitions[i].bytecode,
                                       operands |-> [k \in 1 .. n |-> Operand(k)]])
              /\ pos' = Advance(last)
    /\ UNCHANGED <<memory, end, meant, style, step, program, next, result, measured>>

Leave(how) ==
    /\ step' = how
    /\ UNCHANGED <<memory, end, meant, style, pos, list, program, next, result, measured>>

\* find_idef throws std::exception, which nobody catches
Reject == step = "parsing" /\ memory[pos] # "nul" /\ Found = {} /\ Leave("rejected")

\* An operand is missing, and its scan goes on behind the memory we know.  What it
\* finds there is undefined, and is not followed any further.
Overrun ==
    /\ step = "parsing" /\ memory[pos] # "nul"
    /\ \E i \in Found : OperandEnd(Definitions[i].count) > Len(memory)
    /\ step' = "outside"
    /\ pos' = Len(memory) + 1
    /\ UNCHANGED <<memory, end, meant, style, list, program, next, result, measured>>

\* program(instructionList, instructionCount)
FinishParse ==
    /\ step = "parsing" /\ memory[pos] = "nul"
    /\ program' = Add(ProgramClass, program, list)
    /\ step' = "compiled"
    /\ UNCHANGED <<memory, end, meant, style, pos, list, next, result, measured>>

-----------------------------------------------------------------------------
(* The program is handed on and run.                                          *)

\* the request, the program and the buffer are locals of the worker
EndRequest ==
    /\ step' = "idle"
    /\ memory' = <<"nul">> /\ end' = 1 /\ pos' = 1
    /\ meant' = << >> /\ style' = "none"
    /\ list' = << >> /\ program' = Empty(ProgramClass)
    /\ next' = 0 /\ result' = Empty(ResultClass) /\ measured' = << >>

\* edit_item returns it, insert_macro stores it: the compiler may leave out the
\* move of the former
HandOn ==
    /\ step = "compiled"
    /\ program' \in {program, MoveConstruct(ProgramClass, program)}
    /\ step' = "running"
    /\ UNCHANGED <<memory, end, meant, style, pos, list, next, result, measured>>

\* run_program's loop; the macro instruction does nothing
Execute ==
    /\ step = "running" /\ next < program.count
    /\ next' = next + 1
    /\ IF Contents(ProgramClass, program)[next + 1].bytecode = "measure"
       THEN \E v \in {"0", "1"} :
               /\ result' = Add(ResultClass, result, <<v>>)
               /\ measured' = Append(measured, v)
       ELSE UNCHANGED <<result, measured>>
    /\ UNCHANGED <<memory, end, meant, style, step, pos, list, program>>

\* initialize runs out of memory: run_program returns false, and the request is
\* answered.  compute_result's temporary state deletes its arrays before that, which
\* init_state has deleted already: this may also crash.
ExecuteFails ==
    /\ step = "running" /\ next < program.count
    /\ Contents(ProgramClass, program)[next + 1].bytecode = "initialize"
    /\ EndRequest \/ Leave("crashed")

\* the response is made of the result's data() and size()
Answer == step = "running" /\ next = program.count /\ EndRequest

Aborted == step \in {"rejected", "outside", "crashed"} /\ UNCHANGED vars

Next == \/ SubmitProgram \/ SubmitOther
        \/ ParseInstruction \/ Reject \/ Overrun \/ FinishParse
        \/ HandOn \/ Execute \/ ExecuteFails \/ Answer \/ Aborted

Spec == Init /\ [][Next]_vars

-----------------------------------------------------------------------------
(* Properties.                                                               *)

\* pos is in the memory we know or just behind it, and an operand in its width
TypeOK ==
    /\ step \in {"idle", "parsing", "compiled", "running", "rejected", "outside", "crashed"}
    /\ pos \in 1 .. Len(memory) + 1
    /\ next \in 0 .. program.count
    /\ \A i \in DOMAIN list : \A k \in DOMAIN list[i].operands :
          list[i].operands[k] \in Operands

Parsed == step \in {"compiled", "running"}

AsMeant == /\ Parsed => list = meant
           /\ step \notin {"rejected", "outside"}
           /\ pos <= end

\* A program in the form of the example clients is parsed into exactly the
\* instructions it says, and without reading past its end, wherever its
\* operands, lines and text end.
StrictIsParsed == style = "strict" => AsMeant

\* where parse_program expects an instruction
LineStarts ==
    {SkipBlanks(memory)} \cup {j + 1 : j \in {k \in 1 .. end - 1 : memory[k] = "eol"}}

\* The line that starts at a and ends before e has a mnemonic up to its first blank, at
\* s, and behind it the right number of commas.
IsLine(a, s, e, i) ==
    /\ memory[e] \in {"eol", "nul"}
    /\ \A k \in a .. e - 1 : memory[k] \notin {"eol", "nul"}
    /\ s < e /\ memory[s] = "sp"
    /\ SubSeq(memory, a, s - 1) = Definitions[i].mnemonic
    /\ Cardinality({k \in s .. e : memory[k] = "comma"}) = Definitions[i].count - 1

\* no line of the text lacks an operand
Complete ==
    \A a \in LineStarts : a < end =>
        \E s \in a .. end, e \in a .. end, i \in DOMAIN Definitions : IsLine(a, s, e, i)

\* A text is rejected, or read past its nul, only if some line of it has no known
\* mnemonic or not as many operands as it needs: whatever the operands consist of,
\* whatever lies behind the text, and with or without an end of its last line.
CompleteIsContained == (step \in {"rejected", "outside"} \/ pos > end) => ~Complete

\* README.md: "The opcode is seperated from the operands with a space or tab,
\* while each operand is seperated with a comma. Comments are denoted with a
\* semicolon", with "opcode operand, operand" as its pattern.
DocumentedIsParsed == style # "none" => AsMeant

\* The program that is run or stored is the one that was parsed, although the
\* move constructor copies bytes where it should copy items: instructions are so
\* large that they are never stored inside the object.
ProgramKept == Parsed => Contents(ProgramClass, program) = list

\* No buffer holds more than its array, nor believes in more room than it has.
InBounds(class, b) ==
    /\ b.count <= Len(Data(b))
    /\ Capacity(class, b) <= Len(Data(b))

BuffersInBounds == InBounds(ProgramClass, program) /\ InBounds(ResultClass, result)

\* "Measurements will be returned in a buffer with each measurement result as a
\* character in the order they are executed" (README.md), also when the buffer
\* moves to the heap or grows there.
ResultsInOrder == Contents(ResultClass, result) = measured

-----------------------------------------------------------------------------
(* The inductive invariant behind these but DocumentedIsParsed.              *)

Outcomes == {"0", "1"}

\* the arrays hold instructions that were parsed, outcomes, or junk
ItemsInv ==
    /\ list \in Seq(Range(list))
    /\ program \in Containers(Range(list) \cup {ProgramClass.junk})
    /\ measured \in Seq(Outcomes)
    /\ result \in Containers(Outcomes \cup {ResultClass.junk})

\* a program is filled once, and no instruction of it is stored inside the object
ProgramInv ==
    /\ Parsed \/ step = "crashed" \/ program = Empty(ProgramClass)
    /\ program.isHeap \/ program.count = 0

\* the loop of run_program stays inside the program
LoopInv == next \in 0 .. program.count

\* scans end at the last nul if not before, or leave the memory we know
MemoryInv ==
    /\ memory \in Seq(Characters) /\ memory # << >> /\ memory[Len(memory)] = "nul"
    /\ step # "outside" => pos \in 1 .. Len(memory)

\* a complete text is parsed from line to line
ContainedInv ==
    /\ end \in 1 .. Len(memory) /\ memory[end] = "nul"
    /\ Complete /\ step = "parsing" => memory[pos] = "nul" \/ pos \in LineStarts

\* the characters of s are those that come after the first i
Follows(i, s) == \A j \in 1 .. Len(s) : i + j \in 1 .. Len(memory) /\ memory[i + j] = s[j]

\* where line k of a strict program ends, if so many blanks are before the first
LineEnd(blanks, k) == blanks + Len(Lines(meant, "strict")[k])

\* The text is that of a strict program: every line is followed by its delimiter, or
\* by the nul if it is the last one.
StrictText(blanks) ==
    /\ end \in 1 .. Len(memory) /\ memory[end] = "nul"
    /\ end \in {LineEnd(blanks, Len(meant)), LineEnd(blanks, Len(meant)) + 1}
    /\ \A k \in 1 .. Len(meant) :
          /\ Follows(LineEnd(blanks, k - 1), Render(meant[k], "strict"))
          /\ LineEnd(blanks, k) \in 1 .. end
          /\ memory[LineEnd(blanks, k)] = IF LineEnd(blanks, k) = end THEN "nul" ELSE "eol"

\* the first k statements have been parsed, and no more
ParsedTo(blanks, k) ==
    /\ list = SubSeq(meant, 1, k)
    /\ pos = IF k = Len(meant) THEN end ELSE LineEnd(blanks, k) + 1

StrictInv ==
    /\ step = "idle" => list = << >> /\ style = "none"
    /\ style = "strict" =>
          /\ meant \in Seq(Statements)
          /\ step = "parsing" => \E blanks \in {0, 1} :
                StrictText(blanks) /\ \E k \in 0 .. Len(meant) : ParsedTo(blanks, k)

\* programs and results are stored as they came
StoreInv == /\ ItemsInv /\ ProgramInv /\ LoopInv
            /\ ProgramKept /\ BuffersInBounds /\ ResultsInOrder

\* texts are read as they were meant
TextInv == MemoryInv /\ StrictInv /\ TypeOK /\ StrictIsParsed

Inv == StoreInv /\ TextInv /\ ContainedInv /\ CompleteIsContained
=============================================================================
