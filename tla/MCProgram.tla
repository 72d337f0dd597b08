------------------------------ MODULE MCProgram ------------------------------
(* Small instances of Program for TLC.                                       *)
EXTENDS Program

Instruction(b, operands) == [bytecode |-> b, operands |-> operands]

\* with words of two bytes: two instructions of six bytes, three characters
SmallProgram == [parameter |-> 2, size |-> 3 * Word,
                 junk |-> Instruction("junk", << >>)]
SmallResult  == [parameter |-> 3, size |-> 1, junk |-> "junk"]

\* one and two operands, mnemonics and operands of one and more characters
SomeStatements == {Instruction("measure", <<0>>), Instruction("cnot", <<10, 1>>),
                   Instruction("initialize", <<2>>)}

\* the rest of the request, which may itself look like an operand
SomeTails == {<< >>, <<"1">>, <<"comma", "0">>}
=============================================================================
