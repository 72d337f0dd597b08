------------------------------- MODULE Buffer -------------------------------
(* managed_container<T, U, stackCapacityT> (managed_container.hpp), the      *)
(* storage of programs and of measurement results (string_buffer.hpp).  It    *)
(* keeps its items in an array inside the object until they no longer fit,    *)
(* then in a heap array, whose capacity it writes over the first word of the  *)
(* array inside.                                                              *)
(*                                                                            *)
(* A class is a record: its template parameter, sizeof(T), and an item that   *)
(* stands for memory nobody wrote an item to.                                 *)
EXTENDS Naturals, Sequences

CONSTANT Word        \* sizeof(SABOT_UINTN) and sizeof(U): 8 in the code

ASSUME WordAssumption == Word \in Nat \ {0}

\* what the template asks of its parameters
IsClass(class) == class.parameter \in Nat \ {0} /\ class.size \in Nat \ {0}

\* variant: rounds down
RoundDown(number, multiple) == (number \div multiple) * multiple

RoundToMultiple(number, multiple) ==
    ((number + multiple - 1) \div multiple) * multiple

\* the code gives round_to_multiple its arguments in this order
StackCapacity(class) == RoundToMultiple(Word, class.parameter)

\* the members of a container of such items
Containers(items) ==
    [count : Nat, isHeap : BOOLEAN, heap : Seq(items), capacity : Nat, stack : Seq(items)]

Junk(class, length) == [i \in 1 .. length |-> class.junk]

Empty(class) ==
    [count |-> 0, isHeap |-> FALSE, heap |-> << >>, capacity |-> 0,
     stack |-> Junk(class, StackCapacity(class))]

Capacity(class, b) == IF b.isHeap THEN b.capacity ELSE StackCapacity(class)

Data(b) == IF b.isHeap THEN b.heap ELSE b.stack

\* memcpy of the items s into an array, behind its first n items
Copy(array, n, s) ==
    [i \in DOMAIN array |-> IF i \in n + 1 .. n + Len(s) THEN s[i - n] ELSE array[i]]

\* The items a reader of data() and count() gets.
Contents(class, b) ==
    [i \in 1 .. b.count |-> IF i \in DOMAIN Data(b) THEN Data(b)[i] ELSE class.junk]

\* the items of the inner array behind its first word
BehindWord(class, b) ==
    [i \in DOMAIN b.stack |-> IF (i - 1) * class.size < Word THEN class.junk
                                                             ELSE b.stack[i]]

\* variant: the capacity is written before the old items are copied
MoveToHeapEarly(class, b, s, newSize) ==
    LET newCapacity == RoundToMultiple(newSize, Word)
        old == IF b.isHeap THEN b.heap ELSE BehindWord(class, b)
    IN  [count |-> b.count + Len(s), isHeap |-> TRUE, capacity |-> newCapacity,
         heap |-> Copy(Copy(Junk(class, newCapacity), 0, SubSeq(old, 1, b.count)),
                       b.count, s),
         stack |-> BehindWord(class, b)]

\* a new heap array, with as many items as the old ones and the new have bytes
MoveToHeap(class, b, s, newSize) ==
    LET newCapacity == RoundToMultiple(newSize, Word)
    IN  [count |-> b.count + Len(s), isHeap |-> TRUE, capacity |-> newCapacity,
         heap |-> Copy(Copy(Junk(class, newCapacity), 0, Contents(class, b)),
                       b.count, s),
         stack |-> BehindWord(class, b)]

AddInPlace(b, s) ==
    [b EXCEPT !.count = b.count + Len(s),
              !.heap  = IF b.isHeap THEN Copy(@, b.count, s) ELSE @,
              !.stack = IF b.isHeap THEN @ ELSE Copy(@, b.count, s)]

\* variant: items compared with items
SizeInItems(class, n) == n

\* the size that add compares with a capacity in items
SizeInBytes(class, n) == n * class.size

Add(class, b, s) ==
    LET newSize == SizeInBytes(class, b.count + Len(s))
    IN  IF newSize < Capacity(class, b) THEN AddInPlace(b, s)
                                        ELSE MoveToHeap(class, b, s, newSize)

\* The move constructor takes the heap array, and of the inner array as many
\* bytes as that has items.
MoveConstruct(class, b) ==
    [b EXCEPT !.stack = [i \in DOMAIN @ |-> IF i * class.size <= StackCapacity(class)
                                            THEN @[i] ELSE class.junk]]
=============================================================================
