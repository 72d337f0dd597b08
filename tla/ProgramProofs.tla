---------------------------- MODULE ProgramProofs ----------------------------
(* The storage of programs and of measurement results keeps what is put into  *)
(* it, for classes of every size, programs of every length and every text;    *)
(* and programs in the form of the example clients are parsed as they read.   *)
EXTENDS Program, SequenceTheorems, FiniteSetTheorems, NaturalsInduction,
        WellFoundedInduction, TLAPS

LEMMA RoundedUp ==
  ASSUME NEW n \in Nat, NEW m \in Nat \ {0}
  PROVE  RoundToMultiple(n, m) \in Nat /\ n <= RoundToMultiple(n, m)
<1> DEFINE a == n + m - 1
           d == a \div m
           p == d * m
<1>1. a \in Nat /\ m > 0
  OBVIOUS
<1> HIDE DEF a
<1>2. d \in Nat /\ a = d * m + (a % m) /\ a % m \in 0 .. m - 1
  BY <1>1, Z3
<1> HIDE DEF d
<1>3. p \in Nat
  BY <1>2
<1> HIDE DEF p
<1>4. n <= p
  BY <1>2, <1>3 DEF a, p
<1> QED
  BY <1>3, <1>4 DEF RoundToMultiple, a, d, p

\* an array the model builds item by item is a sequence
LEMMA ArrayIsSeq ==
  ASSUME NEW T, NEW k \in Nat, NEW f, f = [i \in 1 .. k |-> f[i]],
         \A i \in 1 .. k : f[i] \in T
  PROVE  f \in Seq(T) /\ Len(f) = k /\ DOMAIN f = 1 .. k
<1>1. f \in [1 .. k -> T]
  OBVIOUS
<1> QED
  BY <1>1

LEMMA JunkIsSeq ==
  ASSUME NEW T, NEW class, class.junk \in T, NEW k \in Nat
  PROVE  /\ Junk(class, k) \in Seq(T) /\ Len(Junk(class, k)) = k
         /\ \A i \in 1 .. k : Junk(class, k)[i] = class.junk
<1>1. Junk(class, k) \in [1 .. k -> T]
  BY DEF Junk
<1> QED
  BY <1>1 DEF Junk

\* memcpy stays inside the array and writes exactly the items it is given
LEMMA CopyIsSeq ==
  ASSUME NEW T, NEW array \in Seq(T), NEW k \in Nat, NEW s \in Seq(T)
  PROVE  /\ Copy(array, k, s) \in Seq(T) /\ Len(Copy(array, k, s)) = Len(array)
         /\ \A i \in 1 .. Len(array) :
               Copy(array, k, s)[i] =
                   IF i \in k + 1 .. k + Len(s) THEN s[i - k] ELSE array[i]
<1> DEFINE c == Copy(array, k, s)
<1>1. DOMAIN array = 1 .. Len(array) /\ Len(array) \in Nat /\ Len(s) \in Nat
  OBVIOUS
<1>2. c = [i \in 1 .. Len(array) |->
             IF i \in k + 1 .. k + Len(s) THEN s[i - k] ELSE array[i]]
  BY <1>1 DEF Copy
<1>3. \A i \in 1 .. Len(array) : c[i] = IF i \in k + 1 .. k + Len(s) THEN s[i - k] ELSE array[i]
  BY <1>2
<1>4. \A i \in 1 .. Len(array) : c[i] \in T
  <2> TAKE i \in 1 .. Len(array)
  <2>1. CASE i \in k + 1 .. k + Len(s)
    <3>1. i - k \in 1 .. Len(s)
      BY <2>1, <1>1
    <3>2. s[i - k] \in T
      BY <3>1, ElementOfSeq
    <3> QED
      BY <3>2, <2>1, <1>3
  <2>2. CASE i \notin k + 1 .. k + Len(s)
    BY <2>2, <1>3, ElementOfSeq
  <2> QED
    BY <2>1, <2>2
<1>5. c \in [1 .. Len(array) -> T]
  BY <1>2, <1>4
<1>6. c \in Seq(T) /\ Len(c) = Len(array)
  BY <1>5, <1>1
<1> QED
  BY <1>3, <1>6

\* what data() and count() give of a container within its bounds
LEMMA ContentsAre ==
  ASSUME NEW T, NEW class, class.junk \in T, NEW b \in Containers(T),
         b.count <= Len(Data(b))
  PROVE  /\ Contents(class, b) \in Seq(T) /\ Len(Contents(class, b)) = b.count
         /\ \A i \in 1 .. b.count : Contents(class, b)[i] = Data(b)[i]
         /\ Data(b) \in Seq(T)
<1> DEFINE c == Contents(class, b)
           d == Data(b)
<1>1. d \in Seq(T) /\ b.count \in Nat
  BY DEF Containers, Data
<1>2. DOMAIN d = 1 .. Len(d) /\ Len(d) \in Nat /\ b.count <= Len(d)
  BY <1>1
<1>3. c = [i \in 1 .. b.count |-> IF i \in DOMAIN d THEN d[i] ELSE class.junk]
  BY DEF Contents
<1> HIDE DEF c, d
<1>4. \A i \in 1 .. b.count : i \in 1 .. Len(d)
  BY <1>1, <1>2
<1>5. \A i \in 1 .. b.count : c[i] = d[i] /\ d[i] \in T
  BY <1>1, <1>2, <1>3, <1>4, ElementOfSeq
<1>6. c \in [1 .. b.count -> T]
  BY <1>3, <1>5
<1>7. c \in Seq(T) /\ Len(c) = b.count
  BY <1>6, <1>1
<1> QED
  BY <1>1, <1>5, <1>7 DEF c, d

LEMMA EmptyIsEmpty ==
  ASSUME NEW T, NEW class, IsClass(class), class.junk \in T
  PROVE  /\ Empty(class) \in Containers(T) /\ InBounds(class, Empty(class))
         /\ Contents(class, Empty(class)) = << >>
         /\ Empty(class).count = 0 /\ Empty(class).isHeap = FALSE
<1> DEFINE k == StackCapacity(class)
           e == Empty(class)
<1>1. k \in Nat
  BY RoundedUp, WordAssumption DEF StackCapacity, IsClass
<1>2. Junk(class, k) \in Seq(T) /\ Len(Junk(class, k)) = k
  BY <1>1, JunkIsSeq
<1>3. << >> \in Seq(T)
  OBVIOUS
<1>4. /\ e.count = 0 /\ e.isHeap = FALSE /\ e.heap = << >> /\ e.capacity = 0
      /\ e.stack = Junk(class, k)
  BY DEF Empty
<1>5. e \in Containers(T)
  BY <1>2, <1>3 DEF Empty, Containers
<1> HIDE DEF e
<1>6. Data(e) = Junk(class, k) /\ Capacity(class, e) = k
  BY <1>4 DEF Data, Capacity
<1>7. InBounds(class, e)
  BY <1>1, <1>2, <1>4, <1>6 DEF InBounds
<1>8. Contents(class, e) = << >>
  <2>1. Contents(class, e) \in Seq(T) /\ Len(Contents(class, e)) = 0
    BY <1>1, <1>2, <1>4, <1>5, <1>6, ContentsAre
  <2> QED
    BY <2>1
<1> QED
  BY <1>4, <1>5, <1>7, <1>8 DEF e

-----------------------------------------------------------------------------
(* add                                                                        *)

\* a container whose data is an array with the old items and the new ones in
\* front has both as its contents
LEMMA ContentsGrow ==
  ASSUME NEW T, NEW class, class.junk \in T,
         NEW b \in Containers(T), b.count <= Len(Data(b)), NEW s \in Seq(T),
         NEW c \in Containers(T), c.count = b.count + Len(s), c.count <= Len(Data(c)),
         \A i \in 1 .. b.count : Data(c)[i] = Data(b)[i],
         \A i \in 1 .. Len(s) : Data(c)[b.count + i] = s[i]
  PROVE  Contents(class, c) = Contents(class, b) \o s
<1> DEFINE old == Contents(class, b)
           new == Contents(class, c)
<1>1. /\ old \in Seq(T) /\ Len(old) = b.count /\ b.count \in Nat
      /\ \A i \in 1 .. b.count : old[i] = Data(b)[i]
  BY ContentsAre DEF Containers
<1>2. /\ new \in Seq(T) /\ Len(new) = c.count
      /\ \A i \in 1 .. c.count : new[i] = Data(c)[i]
  BY ContentsAre
<1>3. Len(s) \in Nat
  OBVIOUS
<1> HIDE DEF old, new
<1>4. /\ old \o s \in Seq(T) /\ Len(old \o s) = Len(old) + Len(s)
      /\ \A i \in 1 .. Len(old) + Len(s) :
            (old \o s)[i] = IF i <= Len(old) THEN old[i] ELSE s[i - Len(old)]
  BY <1>1, ConcatProperties
<1>5. Len(new) = Len(old \o s)
  BY <1>1, <1>2, <1>4
<1>6. ASSUME NEW i \in 1 .. Len(new)
      PROVE  new[i] = (old \o s)[i]
  <2>1. i \in 1 .. b.count + Len(s)
    BY <1>2
  <2>2. CASE i <= b.count
    <3>1. i \in 1 .. b.count
      BY <2>1, <2>2, <1>1, <1>3
    <3> QED
      BY <3>1, <2>1, <2>2, <1>1, <1>2, <1>4
  <2>3. CASE ~(i <= b.count)
    <3> DEFINE j == i - b.count
    <3>1. j \in 1 .. Len(s) /\ b.count + j = i
      BY <2>1, <2>3, <1>1, <1>3
    <3>2. Data(c)[i] = s[j]
      <4> HIDE DEF j
      <4>1. Data(c)[b.count + j] = s[j]
        BY <3>1
      <4> QED
        BY <4>1, <3>1
    <3>3. (old \o s)[i] = s[j]
      BY <2>1, <2>3, <1>1, <1>4
    <3> QED
      BY <3>2, <3>3, <1>2
  <2> QED
    BY <2>2, <2>3
<1> QED
  BY <1>2, <1>4, <1>5, <1>6, SeqEqual DEF old, new

LEMMA ContainerExcept ==
  ASSUME NEW T, NEW b \in Containers(T), NEW k, NEW h, NEW t
  PROVE  [b EXCEPT !.count = k, !.heap = h, !.stack = t]
            = [count |-> k, isHeap |-> b.isHeap, capacity |-> b.capacity,
               heap |-> h, stack |-> t]
<1> DEFINE u == [b EXCEPT !.count = k]
           v == [u EXCEPT !.heap = h]
<1>1. u = [count |-> k, isHeap |-> b.isHeap, heap |-> b.heap, capacity |-> b.capacity,
           stack |-> b.stack]
  BY DEF Containers
<1> HIDE DEF u
<1>2. v = [count |-> k, isHeap |-> b.isHeap, heap |-> h, capacity |-> b.capacity,
           stack |-> b.stack]
  BY <1>1
<1> HIDE DEF v
<1>3. [v EXCEPT !.stack = t]
        = [count |-> k, isHeap |-> b.isHeap, heap |-> h, capacity |-> b.capacity, stack |-> t]
  BY <1>2
<1> QED
  BY <1>3 DEF u, v

LEMMA AddInPlaceKeeps ==
  ASSUME NEW T, NEW class, class.junk \in T,
         NEW b \in Containers(T), InBounds(class, b), NEW s \in Seq(T),
         b.count + Len(s) <= Len(Data(b))
  PROVE  /\ AddInPlace(b, s) \in Containers(T) /\ InBounds(class, AddInPlace(b, s))
         /\ Contents(class, AddInPlace(b, s)) = Contents(class, b) \o s
         /\ AddInPlace(b, s).isHeap = b.isHeap
         /\ AddInPlace(b, s).count = b.count + Len(s)
<1> DEFINE c == AddInPlace(b, s)
           k == b.count
           data == Copy(Data(b), k, s)
<1>1. /\ k \in Nat /\ b.isHeap \in BOOLEAN /\ b.heap \in Seq(T) /\ b.stack \in Seq(T)
      /\ b.capacity \in Nat /\ Len(s) \in Nat
  BY DEF Containers
<1>2. Data(b) \in Seq(T) /\ Len(Data(b)) \in Nat
  BY <1>1 DEF Data
<1>3. /\ data \in Seq(T) /\ Len(data) = Len(Data(b))
      /\ \A i \in 1 .. Len(Data(b)) :
            data[i] = IF i \in k + 1 .. k + Len(s) THEN s[i - k] ELSE Data(b)[i]
  BY <1>1, <1>2, CopyIsSeq
<1>4. c = [count |-> k + Len(s), isHeap |-> b.isHeap, capacity |-> b.capacity,
           heap  |-> IF b.isHeap THEN data ELSE b.heap,
           stack |-> IF b.isHeap THEN b.stack ELSE data]
  <2> DEFINE h == IF b.isHeap THEN Copy(b.heap, k, s) ELSE b.heap
             t == IF b.isHeap THEN b.stack ELSE Copy(b.stack, k, s)
  <2>1. c = [b EXCEPT !.count = k + Len(s), !.heap = h, !.stack = t]
    BY DEF AddInPlace
  <2>2. /\ h = IF b.isHeap THEN data ELSE b.heap
        /\ t = IF b.isHeap THEN b.stack ELSE data
    BY <1>1 DEF Data
  <2> HIDE DEF h, t, data, c
  <2>3. c = [count |-> k + Len(s), isHeap |-> b.isHeap, capacity |-> b.capacity,
             heap |-> h, stack |-> t]
    BY <2>1, ContainerExcept
  <2> QED
    BY <2>2, <2>3
<1> HIDE DEF c, data
<1>5. c \in Containers(T)
  BY <1>1, <1>3, <1>4 DEF Containers
<1>6. Data(c) = data /\ c.count = k + Len(s) /\ c.isHeap = b.isHeap /\ c.capacity = b.capacity
  BY <1>1, <1>4 DEF Data
<1>7. Capacity(class, c) = Capacity(class, b)
  BY <1>6 DEF Capacity
<1>8. InBounds(class, c)
  BY <1>3, <1>6, <1>7 DEF InBounds
<1>9. \A i \in 1 .. k : data[i] = Data(b)[i]
  BY <1>1, <1>2, <1>3
<1>10. ASSUME NEW i \in 1 .. Len(s)
       PROVE  data[k + i] = s[i]
  <2>1. k + i \in k + 1 .. k + Len(s) /\ k + i \in 1 .. Len(Data(b)) /\ (k + i) - k = i
    BY <1>1, <1>2
  <2> QED
    BY <2>1, <1>3
<1>11. b.count <= Len(Data(b)) /\ c.count <= Len(Data(c))
  BY <1>8 DEF InBounds
<1>12. Contents(class, c) = Contents(class, b) \o s
  BY <1>5, <1>6, <1>9, <1>10, <1>11, ContentsGrow
<1> QED
  BY <1>5, <1>6, <1>8, <1>12 DEF c

LEMMA MoveToHeapKeeps ==
  ASSUME NEW T, NEW class, class.junk \in T,
         NEW b \in Containers(T), InBounds(class, b), NEW s \in Seq(T),
         NEW size \in Nat, b.count + Len(s) <= size
  PROVE  /\ MoveToHeap(class, b, s, size) \in Containers(T)
         /\ InBounds(class, MoveToHeap(class, b, s, size))
         /\ Contents(class, MoveToHeap(class, b, s, size)) = Contents(class, b) \o s
         /\ MoveToHeap(class, b, s, size).isHeap
         /\ MoveToHeap(class, b, s, size).count = b.count + Len(s)
<1> DEFINE c == MoveToHeap(class, b, s, size)
           k == b.count
           room == RoundToMultiple(size, Word)
           old == Contents(class, b)
           new == Junk(class, room)
           first == Copy(new, 0, old)
           both == Copy(first, k, s)
<1>1. /\ k \in Nat /\ b.heap \in Seq(T) /\ b.stack \in Seq(T) /\ Len(s) \in Nat
      /\ k <= Len(Data(b))
  BY DEF Containers, InBounds
<1>2. room \in Nat /\ size <= room
  BY RoundedUp, WordAssumption
<1>3. /\ old \in Seq(T) /\ Len(old) = k
      /\ \A i \in 1 .. k : old[i] = Data(b)[i]
  BY <1>1, ContentsAre
<1>4. c = [count |-> k + Len(s), isHeap |-> TRUE, capacity |-> room, heap |-> both,
           stack |-> BehindWord(class, b)]
  BY DEF MoveToHeap
<1> HIDE DEF c, room, old
<1>5. new \in Seq(T) /\ Len(new) = room
  BY <1>2, JunkIsSeq
<1> HIDE DEF new
<1>6. /\ first \in Seq(T) /\ Len(first) = room
      /\ \A i \in 1 .. room : first[i] = IF i \in 0 + 1 .. 0 + Len(old) THEN old[i - 0] ELSE new[i]
  BY <1>3, <1>5, CopyIsSeq
<1>7. \A i \in 1 .. k : i \in 1 .. room /\ first[i] = old[i]
  BY <1>1, <1>2, <1>3, <1>6
<1> HIDE DEF first
<1>8. /\ both \in Seq(T) /\ Len(both) = room
      /\ \A i \in 1 .. room : both[i] = IF i \in k + 1 .. k + Len(s) THEN s[i - k] ELSE first[i]
  <2>1. k \in Nat /\ first \in Seq(T) /\ Len(first) = room
    BY <1>1, <1>6
  <2> HIDE DEF k
  <2>2. /\ both \in Seq(T) /\ Len(both) = Len(first)
        /\ \A i \in 1 .. Len(first) :
              both[i] = IF i \in k + 1 .. k + Len(s) THEN s[i - k] ELSE first[i]
    BY <2>1, CopyIsSeq
  <2> QED
    BY <2>1, <2>2, Zenon
<1> HIDE DEF both
<1>9. BehindWord(class, b) \in Seq(T)
  <2> DEFINE w == BehindWord(class, b)
  <2>1. DOMAIN b.stack = 1 .. Len(b.stack) /\ Len(b.stack) \in Nat
    BY <1>1
  <2>2. w = [i \in 1 .. Len(b.stack) |-> IF (i - 1) * class.size < Word THEN class.junk
                                                                       ELSE b.stack[i]]
    BY <2>1 DEF BehindWord
  <2>3. \A i \in 1 .. Len(b.stack) : w[i] \in {class.junk, b.stack[i]} /\ b.stack[i] \in T
    BY <2>2, <1>1, ElementOfSeq
  <2>4. w \in [1 .. Len(b.stack) -> T]
    BY <2>2, <2>3
  <2> QED
    BY <2>1, <2>4
<1>10. c \in Containers(T)
  BY <1>1, <1>2, <1>4, <1>8, <1>9 DEF Containers
<1>11. Data(c) = both /\ c.count = k + Len(s) /\ c.isHeap = TRUE /\ c.capacity = room
  BY <1>4 DEF Data
<1>12. Capacity(class, c) = room
  BY <1>11 DEF Capacity
<1>13. InBounds(class, c)
  BY <1>1, <1>2, <1>8, <1>11, <1>12 DEF InBounds
<1>14. ASSUME NEW i \in 1 .. k
       PROVE  both[i] = Data(b)[i]
  <2>1. i \in 1 .. room /\ first[i] = old[i] /\ old[i] = Data(b)[i]
    BY <1>3, <1>7
  <2>2. i \notin k + 1 .. k + Len(s)
    BY <1>1
  <2> QED
    BY <2>1, <2>2, <1>8
<1>15. ASSUME NEW i \in 1 .. Len(s)
       PROVE  both[k + i] = s[i]
  <2>1. k + i \in k + 1 .. k + Len(s) /\ k + i \in 1 .. room /\ (k + i) - k = i
    BY <1>1, <1>2, SMTT(20)
  <2> QED
    BY <2>1, <1>8
<1>16. c.count <= Len(Data(c))
  BY <1>13 DEF InBounds
<1>17. /\ \A i \in 1 .. b.count : Data(c)[i] = Data(b)[i]
       /\ \A i \in 1 .. Len(s) : Data(c)[b.count + i] = s[i]
  BY <1>11, <1>14, <1>15
<1>18. c.count = b.count + Len(s) /\ b.count <= Len(Data(b))
  BY <1>1, <1>11
<1>19. Contents(class, c) = Contents(class, b) \o s
  BY <1>10, <1>16, <1>17, <1>18, ContentsGrow
<1> QED
  BY <1>10, <1>11, <1>13, <1>19 DEF c

\* The items of a container after add are the ones before it and the new ones,
\* and it stays within its bounds, although it compares bytes with items.
LEMMA AddKeeps ==
  ASSUME NEW T, NEW class, IsClass(class), class.junk \in T,
         NEW b \in Containers(T), InBounds(class, b), NEW s \in Seq(T)
  PROVE  /\ Add(class, b, s) \in Containers(T) /\ InBounds(class, Add(class, b, s))
         /\ Contents(class, Add(class, b, s)) = Contents(class, b) \o s
         /\ Add(class, b, s).count = b.count + Len(s)
         /\ \/ Add(class, b, s).isHeap
            \/ (b.count + Len(s)) * class.size < StackCapacity(class)
<1> DEFINE k == b.count + Len(s)
           size == SizeInBytes(class, k)
<1>1. k \in Nat /\ class.size \in Nat \ {0} /\ b.isHeap \in BOOLEAN
  BY DEF Containers, IsClass
<1> HIDE DEF k
<1>2. size \in Nat /\ k <= size
  BY <1>1 DEF SizeInBytes
<1>3. Capacity(class, b) \in Nat /\ Capacity(class, b) <= Len(Data(b)) /\ Len(Data(b)) \in Nat
  <2>1. StackCapacity(class) \in Nat
    BY RoundedUp, WordAssumption DEF StackCapacity, IsClass
  <2> QED
    BY <2>1 DEF Capacity, Data, Containers, InBounds
<1>4. CASE size < Capacity(class, b)
  <2>1. Add(class, b, s) = AddInPlace(b, s)
    BY <1>4 DEF Add, k
  <2>2. b.count + Len(s) <= Len(Data(b))
    BY <1>1, <1>2, <1>3, <1>4 DEF k
  <2>3. b.isHeap = FALSE => size < StackCapacity(class)
    BY <1>4 DEF Capacity
  <2>4. size = (b.count + Len(s)) * class.size
    BY DEF SizeInBytes, k
  <2> HIDE DEF size
  <2>5. /\ AddInPlace(b, s) \in Containers(T) /\ InBounds(class, AddInPlace(b, s))
        /\ Contents(class, AddInPlace(b, s)) = Contents(class, b) \o s
        /\ AddInPlace(b, s).isHeap = b.isHeap
        /\ AddInPlace(b, s).count = b.count + Len(s)
    BY <2>2, AddInPlaceKeeps
  <2> QED
    BY <2>1, <2>3, <2>4, <2>5, <1>1
<1>5. CASE ~(size < Capacity(class, b))
  <2>1. Add(class, b, s) = MoveToHeap(class, b, s, size)
    BY <1>5 DEF Add, k
  <2>2. b.count + Len(s) <= size /\ size \in Nat
    BY <1>2 DEF k
  <2>3. ASSUME NEW z \in Nat, b.count + Len(s) <= z
        PROVE  /\ MoveToHeap(class, b, s, z) \in Containers(T)
               /\ InBounds(class, MoveToHeap(class, b, s, z))
               /\ Contents(class, MoveToHeap(class, b, s, z)) = Contents(class, b) \o s
               /\ MoveToHeap(class, b, s, z).isHeap
               /\ MoveToHeap(class, b, s, z).count = b.count + Len(s)
    BY <2>3, MoveToHeapKeeps
  <2> HIDE DEF size
  <2> QED
    BY <2>1, <2>2, <2>3
<1> QED
  BY <1>4, <1>5

\* The move constructor copies too few bytes of the inner array, which does not
\* matter while that holds no item.
LEMMA MoveConstructKeeps ==
  ASSUME NEW T, NEW class, class.junk \in T,
         NEW b \in Containers(T), InBounds(class, b), b.isHeap \/ b.count = 0
  PROVE  /\ MoveConstruct(class, b) \in Containers(T)
         /\ InBounds(class, MoveConstruct(class, b))
         /\ Contents(class, MoveConstruct(class, b)) = Contents(class, b)
         /\ MoveConstruct(class, b).count = b.count
         /\ MoveConstruct(class, b).isHeap = b.isHeap
<1> DEFINE c == MoveConstruct(class, b)
           t == [i \in DOMAIN b.stack |-> IF i * class.size <= StackCapacity(class)
                                          THEN b.stack[i] ELSE class.junk]
<1>1. b.stack \in Seq(T) /\ b.isHeap \in BOOLEAN /\ b.count \in Nat
  BY DEF Containers
<1>2. t \in Seq(T) /\ Len(t) = Len(b.stack)
  <2>1. DOMAIN b.stack = 1 .. Len(b.stack) /\ Len(b.stack) \in Nat
    BY <1>1
  <2>2. \A i \in 1 .. Len(b.stack) : t[i] \in {class.junk, b.stack[i]} /\ b.stack[i] \in T
    BY <2>1, <1>1, ElementOfSeq
  <2>3. t \in [1 .. Len(b.stack) -> T]
    BY <2>1, <2>2
  <2> QED
    BY <2>1, <2>3
<1>3. c = [b EXCEPT !.stack = t]
  BY DEF MoveConstruct
<1> HIDE DEF c, t
<1>4. /\ c.count = b.count /\ c.isHeap = b.isHeap /\ c.heap = b.heap
      /\ c.capacity = b.capacity /\ c.stack = t
  BY <1>3 DEF Containers
<1>5. c \in Containers(T)
  BY <1>2, <1>3 DEF Containers
<1>6. Len(Data(c)) = Len(Data(b)) /\ Capacity(class, c) = Capacity(class, b)
  BY <1>1, <1>2, <1>4 DEF Data, Capacity
<1>7. InBounds(class, c)
  BY <1>4, <1>6 DEF InBounds
<1>8. Contents(class, c) = Contents(class, b)
  <2>1. CASE b.isHeap
    BY <2>1, <1>4 DEF Contents, Data
  <2>2. CASE b.count = 0
    <3>1. /\ Contents(class, b) \in Seq(T) /\ Len(Contents(class, b)) = 0
      BY <2>2, ContentsAre DEF InBounds
    <3>2. /\ Contents(class, c) \in Seq(T) /\ Len(Contents(class, c)) = 0
      BY <2>2, <1>4, <1>5, <1>7, ContentsAre DEF InBounds
    <3> QED
      BY <3>1, <3>2
  <2> QED
    BY <2>1, <2>2
<1> QED
  BY <1>4, <1>5, <1>7, <1>8 DEF c

-----------------------------------------------------------------------------
(* Induction and recursive functions.                                        *)

\* A set of natural numbers has a smallest one.
LEMMA SmallestNat ==
  ASSUME NEW T \in SUBSET Nat, T # {}
  PROVE  \E m \in T : \A k \in T : m <= k
<1>1. PICK m \in T : \A k \in T : ~ (<<k, m>> \in OpToRel(<, Nat))
  BY NatLessThanWellFounded, WFMin
<1>2. ASSUME NEW k \in T PROVE m <= k
  <2>1. <<k, m>> \notin {ss \in Nat \X Nat : ss[1] < ss[2]}
    BY <1>1, Zenon DEF OpToRel
  <2> QED
    BY <2>1
<1> QED
  BY <1>2

\* Induction, for a set instead of a predicate.
LEMMA NatInduct ==
  ASSUME NEW P \in SUBSET Nat, 0 \in P, \A i \in P : i + 1 \in P
  PROVE  P = Nat
<1> SUFFICES ASSUME P # Nat PROVE FALSE
  OBVIOUS
<1> DEFINE T == Nat \ P
<1>1. T \in SUBSET Nat /\ T # {}
  OBVIOUS
<1>2. PICK m \in T : \A k \in T : m <= k
  <2> HIDE DEF T
  <2> QED
    BY <1>1, SmallestNat
<1>3. m \in Nat /\ m # 0 /\ m - 1 \in Nat /\ m - 1 \notin T
  BY <1>2
<1>4. (m - 1) + 1 \in P /\ (m - 1) + 1 = m
  BY <1>3
<1> QED
  BY <1>2, <1>4

FigureSet == {Figures[i] : i \in 1 .. 10}

\* The ten figures differ, and no delimiter is one.
LEMMA FiguresAre ==
  /\ DOMAIN Figures = 1 .. 10
  /\ \A i, j \in 0 .. 9 : Figures[i + 1] = Figures[j + 1] => i = j
  /\ \A i \in 1 .. 10 : Figures[i] \in FigureSet
  /\ FigureSet \cap {"sp", "tab", "comma", "eol", "nul"} = {}
<1>1. FigureSet = {"0", "1", "2", "3", "4", "5", "6", "7", "8", "9"}
  BY DEF FigureSet, Figures
<1>2. \A i, j \in 0 .. 9 : Figures[i + 1] = Figures[j + 1] => i = j
  BY DEF Figures
<1>3. DOMAIN Figures = 1 .. 10
  BY DEF Figures
<1> QED
  BY <1>1, <1>2, <1>3 DEF FigureSet

LEMMA CharactersAre ==
  /\ Characters = FigureSet \cup DOMAIN Distance
  /\ {"nul", "tab", "eol", "sp", "comma", "semicolon", "a", "c", "h", "i", "m", "n", "o", "p",
      "r", "t", "x", "y", "z"} = DOMAIN Distance
<1>1. DOMAIN Figures = 1 .. 10
  BY FiguresAre
<1> QED
  BY <1>1 DEF Characters, FigureSet, Distance

LEMMA OffsetIs ==
  /\ \A i \in 0 .. 9 : Offset(Figures[i + 1]) = i
  /\ \A c \in Characters : Offset(c) \in Int
<1>1. ASSUME NEW i \in 0 .. 9 PROVE Offset(Figures[i + 1]) = i
  <2> DEFINE c == Figures[i + 1]
             k == CHOOSE k \in 0 .. 9 : Figures[k + 1] = c
  <2>1. k \in 0 .. 9 /\ Figures[k + 1] = c
    OBVIOUS
  <2>2. k = i
    BY <2>1, FiguresAre
  <2>3. Offset(c) = k
    BY DEF Offset
  <2> QED
    BY <2>2, <2>3
<1>2. ASSUME NEW c \in Characters PROVE Offset(c) \in Int
  <2>1. CASE c \in FigureSet
    <3>1. PICK i \in 1 .. 10 : c = Figures[i]
      BY <2>1 DEF FigureSet
    <3>2. i - 1 \in 0 .. 9 /\ (i - 1) + 1 = i
      OBVIOUS
    <3> QED
      BY <1>1, <3>1, <3>2
  <2>2. CASE c \notin FigureSet
    <3>1. ~\E i \in 0 .. 9 : Figures[i + 1] = c
      <4> SUFFICES ASSUME NEW i \in 0 .. 9 PROVE Figures[i + 1] # c
        OBVIOUS
      <4>1. i + 1 \in 1 .. 10
        OBVIOUS
      <4> QED
        BY <2>2, <4>1, FiguresAre
    <3>2. Offset(c) = Distance[c] /\ c \in DOMAIN Distance
      BY <2>2, <3>1, CharactersAre DEF Offset
    <3> QED
      BY <3>2, CharactersAre DEF Distance
  <2> QED
    BY <2>1, <2>2
<1> QED
  BY <1>1, <1>2

\* g runs through n values from a on, each one the function f of the one before and of
\* its own number.
IsRun(g, S, a, f, n) ==
    /\ g \in [0 .. n -> S] /\ g[0] = a
    /\ \A i \in 0 .. n - 1 : g[i + 1] = f[<<g[i], i + 1>>]

\* Every run can be made one longer.
LEMMA RunExists ==
  ASSUME NEW S, NEW a \in S, NEW f \in [S \X Nat -> S], NEW n \in Nat
  PROVE  \E g : IsRun(g, S, a, f, n)
<1> DEFINE P == {k \in Nat : \E g : IsRun(g, S, a, f, k)}
<1>1. 0 \in P
  <2>1. IsRun([i \in 0 .. 0 |-> a], S, a, f, 0)
    BY DEF IsRun
  <2> QED
    BY <2>1
<1>2. ASSUME NEW k \in P PROVE k + 1 \in P
  <2>1. PICK g : IsRun(g, S, a, f, k)
    BY <1>2
  <2> DEFINE v == f[<<g[k], k + 1>>]
             h == [i \in 0 .. k + 1 |-> IF i = k + 1 THEN v ELSE g[i]]
  <2>2. k \in Nat /\ g[k] \in S /\ <<g[k], k + 1>> \in S \X Nat
    BY <2>1 DEF IsRun
  <2>3. v \in S
    BY <2>2
  <2> HIDE DEF v
  <2>4. h \in [0 .. k + 1 -> S] /\ h[0] = a
    BY <2>1, <2>2, <2>3 DEF IsRun
  <2>5. ASSUME NEW i \in 0 .. k PROVE h[i + 1] = f[<<h[i], i + 1>>]
    <3>1. CASE i = k
      <4>1. k + 1 \in 0 .. k + 1 /\ k \in 0 .. k + 1 /\ k # k + 1
        BY <2>2
      <4>2. h[k + 1] = v /\ h[k] = g[k]
        BY <4>1
      <4> QED
        BY <3>1, <4>2 DEF v
    <3>2. CASE i # k
      <4>1. i \in 0 .. k - 1 /\ i + 1 # k + 1 /\ i + 1 \in 0 .. k + 1 /\ i # k + 1 /\ i \in 0 .. k + 1
        BY <2>2, <3>2
      <4>2. h[i + 1] = g[i + 1] /\ h[i] = g[i]
        BY <4>1
      <4> QED
        BY <2>1, <4>1, <4>2 DEF IsRun
    <3> QED
      BY <3>1, <3>2
  <2>6. (k + 1) - 1 = k
    BY <2>2
  <2> HIDE DEF h
  <2>7. IsRun(h, S, a, f, k + 1)
    BY <2>4, <2>5, <2>6 DEF IsRun
  <2> QED
    BY <2>2, <2>7
<1>3. P = Nat
  <2>1. P \in SUBSET Nat
    OBVIOUS
  <2> HIDE DEF P
  <2> QED
    BY <1>1, <1>2, <2>1, NatInduct
<1> QED
  BY <1>3

\* Runs that start alike do not part.
LEMMA RunUnique ==
  ASSUME NEW S, NEW a \in S, NEW f, NEW m \in Nat, NEW n \in Nat, NEW g, NEW h,
         IsRun(g, S, a, f, m), IsRun(h, S, a, f, n), NEW j \in Nat, j <= m, j <= n
  PROVE  g[j] = h[j]
<1> DEFINE P == {i \in Nat : i <= m /\ i <= n => g[i] = h[i]}
<1>1. 0 \in P
  BY DEF IsRun
<1>2. ASSUME NEW k \in P PROVE k + 1 \in P
  <2> SUFFICES ASSUME k + 1 <= m, k + 1 <= n PROVE g[k + 1] = h[k + 1]
    BY <1>2
  <2>1. k \in 0 .. m - 1 /\ k \in 0 .. n - 1 /\ g[k] = h[k]
    BY <1>2
  <2> QED
    BY <2>1 DEF IsRun
<1>3. P = Nat
  <2>1. P \in SUBSET Nat
    OBVIOUS
  <2> HIDE DEF P
  <2> QED
    BY <1>1, <1>2, <2>1, NatInduct
<1> QED
  BY <1>3

\* The steps of a run, counted from 1.
LEMMA RunSteps ==
  ASSUME NEW S, NEW a, NEW f, NEW n \in Nat, NEW g, IsRun(g, S, a, f, n)
  PROVE  \A i \in 1 .. n : g[i] = f[<<g[i - 1], i>>]
<1> SUFFICES ASSUME NEW i \in 1 .. n PROVE g[i] = f[<<g[i - 1], i>>]
  OBVIOUS
<1>1. i - 1 \in 0 .. n - 1 /\ (i - 1) + 1 = i
  OBVIOUS
<1>2. g[(i - 1) + 1] = f[<<g[i - 1], (i - 1) + 1>>]
  BY <1>1 DEF IsRun
<1> QED
  BY <1>1, <1>2


-----------------------------------------------------------------------------
(* Numbers in texts.                                                         *)

\* A remainder is an operand.
LEMMA Remainder == \A v \in Int : v % OperandSpace \in Operands
  BY OperandSpaceAssumption, Z3 DEF Operands

\* the values that stuif has after each character
IsValue(g, s, first, n) ==
    g = [i \in 0 .. n |-> IF i <= 1 THEN Offset(first) % OperandSpace
                                    ELSE (g[i - 1] * 10 + Offset(s[i])) % OperandSpace]

ValueSteps(g, s, first, n) ==
    /\ g \in [0 .. n -> Operands]
    /\ \A i \in 0 .. n : i <= 1 => g[i] = Offset(first) % OperandSpace
    /\ \A i \in 2 .. n : g[i] = (g[i - 1] * 10 + Offset(s[i])) % OperandSpace

LEMMA ValueExists ==
  ASSUME NEW n \in Nat, NEW s \in [1 .. n -> Characters], NEW first \in Characters
  PROVE  \E g : ValueSteps(g, s, first, n)
<1> DEFINE S == Operands
           a == Offset(first) % OperandSpace
           f == [x \in S \X Nat |-> IF x[2] \in 2 .. n
                                    THEN (x[1] * 10 + Offset(s[x[2]])) % OperandSpace ELSE a]
<1>1. a \in S
  BY OffsetIs, Remainder
<1>2. f \in [S \X Nat -> S]
  <2> SUFFICES ASSUME NEW v \in S, NEW i \in Nat, i \in 2 .. n
               PROVE  (v * 10 + Offset(s[i])) % OperandSpace \in S
    BY <1>1
  <2>1. Offset(s[i]) \in Int /\ v \in Int
    BY OffsetIs DEF Operands
  <2> QED
    BY <2>1, Remainder
<1>3. PICK g : IsRun(g, S, a, f, n)
  <2> HIDE DEF f, S, a
  <2> QED
    BY <1>1, <1>2, RunExists
<1>4. g \in [0 .. n -> S] /\ g[0] = a
  BY <1>3 DEF IsRun
<1>5. ASSUME NEW i \in 1 .. n
      PROVE  g[i] = IF i \in 2 .. n THEN (g[i - 1] * 10 + Offset(s[i])) % OperandSpace ELSE a
  <2>1. g[i] = f[<<g[i - 1], i>>]
    <3> HIDE DEF f, S, a
    <3> QED
      BY <1>3, RunSteps
  <2>2. <<g[i - 1], i>> \in S \X Nat
    <3>1. i - 1 \in 0 .. n /\ i \in Nat
      OBVIOUS
    <3> QED
      BY <1>4, <3>1
  <2> QED
    BY <2>1, <2>2
<1>6. \A i \in 0 .. n : i <= 1 => g[i] = a
  BY <1>4, <1>5
<1>7. \A i \in 2 .. n : g[i] = (g[i - 1] * 10 + Offset(s[i])) % OperandSpace
  BY <1>5
<1> QED
  BY <1>4, <1>6, <1>7 DEF ValueSteps

\* Such values are the ones that the recursion defines.
LEMMA ValueDefines ==
  ASSUME NEW n \in Nat, NEW s, NEW first, NEW g, ValueSteps(g, s, first, n)
  PROVE  IsValue(g, s, first, n)
<1>1. g \in [0 .. n -> Operands]
  BY DEF ValueSteps
<1>2. ASSUME NEW i \in 0 .. n
      PROVE  g[i] = IF i <= 1 THEN Offset(first) % OperandSpace
                              ELSE (g[i - 1] * 10 + Offset(s[i])) % OperandSpace
  <2>1. CASE i <= 1
    BY <2>1 DEF ValueSteps
  <2>2. CASE ~(i <= 1)
    <3>1. i \in 2 .. n
      BY <2>2
    <3> QED
      BY <2>2, <3>1 DEF ValueSteps
  <2> QED
    BY <2>1, <2>2
<1> QED
  BY <1>1, <1>2 DEF IsValue

LEMMA ValueUnique ==
  ASSUME NEW n \in Nat, NEW s, NEW first, NEW g, NEW h,
         ValueSteps(g, s, first, n), IsValue(h, s, first, n)
  PROVE  h[n] = g[n]
<1> DEFINE P == {i \in Nat : i <= n => h[i] = g[i]}
<1>0. \A i \in 0 .. n : h[i] = IF i <= 1 THEN Offset(first) % OperandSpace
                                ELSE (h[i - 1] * 10 + Offset(s[i])) % OperandSpace
  BY DEF IsValue
<1>1. 0 \in P
  BY <1>0 DEF ValueSteps
<1>2. ASSUME NEW i \in P PROVE i + 1 \in P
  <2> SUFFICES ASSUME i + 1 <= n PROVE h[i + 1] = g[i + 1]
    BY <1>2
  <2>1. i \in Nat /\ i + 1 \in 0 .. n /\ h[i] = g[i] /\ (i + 1) - 1 = i
    BY <1>2
  <2>2. CASE i = 0
    <3>1. i + 1 <= 1
      BY <2>1, <2>2
    <3> QED
      BY <1>0, <2>1, <3>1 DEF ValueSteps
  <2>3. CASE i # 0
    <3>1. i + 1 \in 2 .. n /\ ~(i + 1 <= 1)
      BY <2>1, <2>3
    <3>2. h[i + 1] = (h[i] * 10 + Offset(s[i + 1])) % OperandSpace
      BY <1>0, <2>1, <3>1
    <3>3. g[i + 1] = (g[i] * 10 + Offset(s[i + 1])) % OperandSpace
      BY <2>1, <3>1 DEF ValueSteps
    <3> QED
      BY <2>1, <3>2, <3>3
  <2> QED
    BY <2>2, <2>3
<1>3. P = Nat
  <2>1. P \in SUBSET Nat
    OBVIOUS
  <2> HIDE DEF P
  <2> QED
    BY <1>1, <1>2, <2>1, NatInduct
<1> QED
  BY <1>3

\* stuif gives the last of any values that follow its rule.
LEMMA StuifIs ==
  ASSUME NEW s \in Seq(Characters), NEW first, NEW g, ValueSteps(g, s, first, Len(s))
  PROVE  Stuif(s, first) = g[Len(s)]
<1> DEFINE n == Len(s)
           c == CHOOSE h : IsValue(h, s, first, n)
<1>1. Stuif(s, first) = c[n]
  BY DEF Stuif, IsValue
<1>2. IsValue(g, s, first, n)
  BY ValueDefines
<1>3. IsValue(c, s, first, n)
  BY <1>2, Zenon
<1> HIDE DEF c
<1>4. n \in Nat
  OBVIOUS
<1> HIDE DEF n
<1>5. ValueSteps(g, s, first, n)
  BY DEF n
<1> QED
  BY <1>1, <1>3, <1>4, <1>5, ValueUnique DEF n

\* Whatever the characters are, the result is an operand.
LEMMA StuifTyped ==
  ASSUME NEW s \in Seq(Characters), NEW first \in Characters
  PROVE  Stuif(s, first) \in Operands
<1> DEFINE n == Len(s)
<1>1. n \in Nat /\ s \in [1 .. n -> Characters]
  OBVIOUS
<1>2. PICK g : ValueSteps(g, s, first, n)
  <2> HIDE DEF n
  <2> QED
    BY <1>1, ValueExists
<1>3. Stuif(s, first) = g[n]
  BY <1>2, StuifIs
<1>4. g[n] \in Operands
  BY <1>1, <1>2 DEF ValueSteps
<1> QED
  BY <1>3, <1>4

\* One character more is one figure more.
LEMMA StuifAppend ==
  ASSUME NEW s \in Seq(Characters), NEW first \in Characters, NEW c \in Characters, Len(s) >= 1
  PROVE  Stuif(Append(s, c), first) = (Stuif(s, first) * 10 + Offset(c)) % OperandSpace
<1> DEFINE n == Len(s)
           t == Append(s, c)
<1>1. n \in Nat /\ n >= 1 /\ s \in [1 .. n -> Characters]
  OBVIOUS
<1>2. t \in Seq(Characters) /\ Len(t) = n + 1 /\ t[n + 1] = c /\ \A i \in 1 .. n : t[i] = s[i]
  OBVIOUS
<1>3. PICK g : ValueSteps(g, s, first, n)
  <2> HIDE DEF n
  <2> QED
    BY <1>1, ValueExists
<1>4. Stuif(s, first) = g[n]
  BY <1>3, StuifIs
<1> HIDE DEF n, t
<1> DEFINE v == (g[n] * 10 + Offset(c)) % OperandSpace
           h == [i \in 0 .. n + 1 |-> IF i = n + 1 THEN v ELSE g[i]]
<1>5. g \in [0 .. n -> Operands] /\ g[n] \in Operands
  BY <1>1, <1>3 DEF ValueSteps
<1>6. v \in Operands
  <2>1. g[n] * 10 + Offset(c) \in Int
    BY <1>5, OffsetIs, SMTT(20) DEF Operands
  <2> QED
    BY <2>1, Remainder
<1> HIDE DEF v
<1>7. h \in [0 .. n + 1 -> Operands]
  BY <1>1, <1>5, <1>6
<1>8. ASSUME NEW i \in 0 .. n + 1, i <= 1 PROVE h[i] = Offset(first) % OperandSpace
  <2>1. i \in 0 .. n /\ i # n + 1
    BY <1>1, <1>8
  <2> QED
    BY <1>3, <1>8, <2>1 DEF ValueSteps
<1>9. ASSUME NEW i \in 2 .. n + 1 PROVE h[i] = (h[i - 1] * 10 + Offset(t[i])) % OperandSpace
  <2>1. CASE i = n + 1
    <3>1. i - 1 = n /\ n \in 0 .. n + 1 /\ n # n + 1 /\ n + 1 \in 0 .. n + 1
      BY <1>1, <2>1
    <3>2. h[i] = v /\ h[i - 1] = g[n]
      BY <2>1, <3>1
    <3>3. t[i] = c
      BY <1>2, <2>1
    <3> QED
      BY <3>2, <3>3 DEF v
  <2>2. CASE i # n + 1
    <3>1. i \in 2 .. n /\ i - 1 # n + 1 /\ i - 1 \in 0 .. n + 1 /\ i \in 0 .. n + 1 /\ i \in 1 .. n
      BY <1>1, <2>2
    <3>2. h[i] = g[i] /\ h[i - 1] = g[i - 1] /\ t[i] = s[i]
      BY <1>2, <2>2, <3>1
    <3>3. g[i] = (g[i - 1] * 10 + Offset(s[i])) % OperandSpace
      BY <1>3, <3>1 DEF ValueSteps
    <3> QED
      BY <3>2, <3>3
  <2> QED
    BY <2>1, <2>2
<1>10. h[n + 1] = v
  BY <1>1
<1> HIDE DEF h
<1>11. ValueSteps(h, t, first, n + 1)
  BY <1>7, <1>8, <1>9 DEF ValueSteps
<1>12. Stuif(t, first) = h[n + 1]
  BY <1>2, <1>11, StuifIs
<1> QED
  BY <1>4, <1>10, <1>12 DEF v, t, n

\* A single character is its distance from '0'.
LEMMA StuifOne ==
  ASSUME NEW c \in Characters
  PROVE  Stuif(<<c>>, c) = Offset(c) % OperandSpace
<1> DEFINE s == <<c>>
<1>1. s \in Seq(Characters) /\ Len(s) = 1 /\ s \in [1 .. 1 -> Characters]
  OBVIOUS
<1> HIDE DEF s
<1>2. PICK g : ValueSteps(g, s, c, 1)
  BY <1>1, ValueExists
<1>3. Stuif(s, c) = g[1]
  BY <1>1, <1>2, StuifIs
<1>4. g[1] = Offset(c) % OperandSpace
  BY <1>2 DEF ValueSteps
<1> QED
  BY <1>3, <1>4 DEF s

LEMMA Decimal ==
  ASSUME NEW k \in Nat
  PROVE  /\ k \div 10 \in Nat /\ k % 10 \in 0 .. 9 /\ k = (k \div 10) * 10 + (k % 10)
         /\ k >= 10 => k \div 10 < k
<1>1. /\ k \div 10 \in Nat /\ k % 10 \in 0 .. 9 /\ k = (k \div 10) * 10 + (k % 10)
  BY Z3
<1> QED
  BY <1>1

\* the figures of the numbers up to n
IsDigits(g, n) ==
    /\ g \in [0 .. n -> Seq(FigureSet)]
    /\ \A k \in 0 .. n :
          g[k] = IF k < 10 THEN <<Figures[k + 1]>> ELSE Append(g[k \div 10], Figures[(k % 10) + 1])

LEMMA DigitsExist ==
  ASSUME NEW n \in Nat
  PROVE  \E g : IsDigits(g, n)
<1> DEFINE P == {k \in Nat : \E g : IsDigits(g, k)}
           Longer(g, k) == IF k < 10 THEN <<Figures[k + 1]>>
                                     ELSE Append(g[k \div 10], Figures[(k % 10) + 1])
<1>0. \A i \in 0 .. 9 : Figures[i + 1] \in FigureSet
  BY FiguresAre
<1>1. 0 \in P
  <2> DEFINE g == [k \in 0 .. 0 |-> <<Figures[k + 1]>>]
  <2>1. IsDigits(g, 0)
    BY <1>0 DEF IsDigits
  <2> QED
    BY <2>1
<1>2. ASSUME NEW k \in P PROVE k + 1 \in P
  <2>1. PICK g : IsDigits(g, k)
    BY <1>2
  <2>2. k \in Nat /\ k + 1 \in Nat
    OBVIOUS
  <2> DEFINE v == Longer(g, k + 1)
             h == [i \in 0 .. k + 1 |-> IF i = k + 1 THEN v ELSE g[i]]
  <2>3. v \in Seq(FigureSet)
    <3>1. CASE k + 1 < 10
      <4>1. k + 1 \in 0 .. 9
        BY <2>2, <3>1
      <4>2. Figures[(k + 1) + 1] \in FigureSet
        BY <1>0, <4>1
      <4> QED
        BY <3>1, <4>2
    <3>2. CASE ~(k + 1 < 10)
      <4>1. (k + 1) \div 10 \in 0 .. k /\ (k + 1) % 10 \in 0 .. 9
        BY <2>2, <3>2, Decimal
      <4>2. g[(k + 1) \div 10] \in Seq(FigureSet) /\ Figures[((k + 1) % 10) + 1] \in FigureSet
        BY <1>0, <2>1, <4>1 DEF IsDigits
      <4> QED
        BY <3>2, <4>2
    <3> QED
      BY <3>1, <3>2
  <2> HIDE DEF v
  <2>4. h \in [0 .. k + 1 -> Seq(FigureSet)]
    BY <2>1, <2>2, <2>3 DEF IsDigits
  <2>5. \A i \in 0 .. k : h[i] = g[i]
    BY <2>2
  <2>6. h[k + 1] = v
    BY <2>2
  <2> HIDE DEF h
  <2>7. ASSUME NEW i \in 0 .. k + 1 PROVE Longer(h, i) = Longer(g, i)
    <3>1. CASE i < 10
      BY <3>1
    <3>2. CASE ~(i < 10)
      <4>1. i \div 10 \in 0 .. k
        BY <2>2, <3>2, Decimal
      <4> QED
        BY <2>5, <3>2, <4>1
    <3> QED
      BY <3>1, <3>2
  <2>8. ASSUME NEW i \in 0 .. k + 1 PROVE h[i] = Longer(h, i)
    <3>1. CASE i = k + 1
      BY <2>6, <2>7, <3>1 DEF v
    <3>2. CASE i # k + 1
      <4>1. i \in 0 .. k
        BY <2>2, <3>2
      <4>2. g[i] = Longer(g, i)
        BY <2>1, <4>1 DEF IsDigits
      <4> QED
        BY <2>5, <2>7, <4>1, <4>2
    <3> QED
      BY <3>1, <3>2
  <2>9. IsDigits(h, k + 1)
    BY <2>4, <2>8 DEF IsDigits
  <2> QED
    BY <2>2, <2>9
<1>3. P = Nat
  <2>1. P \in SUBSET Nat
    OBVIOUS
  <2> HIDE DEF P
  <2> QED
    BY <1>1, <1>2, <2>1, NatInduct
<1> QED
  BY <1>3

LEMMA DigitsSteps ==
  \A k \in Operands :
     Digits[k] = IF k < 10 THEN <<Figures[k + 1]>>
                           ELSE Append(Digits[k \div 10], Figures[(k % 10) + 1])
<1> DEFINE Is(g) == g = [k \in Operands |-> IF k < 10 THEN <<Figures[k + 1]>>
                             ELSE Append(g[k \div 10], Figures[(k % 10) + 1])]
<1>1. PICK g : IsDigits(g, OperandSpace - 1)
  <2>1. OperandSpace - 1 \in Nat
    BY OperandSpaceAssumption
  <2> QED
    BY <2>1, DigitsExist
<1>2. Is(g)
  BY <1>1 DEF IsDigits, Operands
<1>3. Digits = CHOOSE d : Is(d)
  BY DEF Digits
<1>4. Is(Digits)
  <2> HIDE DEF Is
  <2> QED
    BY <1>2, <1>3, Zenon
<1> QED
  BY <1>4

\* d is a notation of k that stuif reads as k
Denotes(d, k) ==
    /\ d \in Seq(Characters) /\ Len(d) >= 1
    /\ \A i \in 1 .. Len(d) : d[i] \in FigureSet
    /\ Stuif(d, d[1]) = k

\* What clients write for a number is what stuif reads.
LEMMA DigitsDenote == \A k \in Operands : Denotes(Digits[k], k)
<1> DEFINE P == {n \in Nat : \A k \in Operands : k <= n => Denotes(Digits[k], k)}
<1>0. FigureSet \subseteq Characters
  BY CharactersAre
<1>1. ASSUME NEW k \in Operands, k < 10 PROVE Denotes(Digits[k], k)
  <2> DEFINE c == Figures[k + 1]
  <2>1. k \in 0 .. 9 /\ k + 1 \in 1 .. 10 /\ k \in Nat /\ k < OperandSpace
    BY <1>1, OperandSpaceAssumption DEF Operands
  <2>2. c \in FigureSet /\ Offset(c) = k
    BY <2>1, FiguresAre, OffsetIs
  <2>3. Digits[k] = <<c>>
    BY <1>1, DigitsSteps
  <2> HIDE DEF c
  <2>4. Stuif(<<c>>, c) = k % OperandSpace
    BY <1>0, <2>2, StuifOne
  <2>5. k % OperandSpace = k
    BY <2>1, OperandSpaceAssumption, Z3
  <2> QED
    BY <1>0, <2>2, <2>3, <2>4, <2>5 DEF Denotes
<1>2. ASSUME NEW k \in Operands, ~(k < 10), Denotes(Digits[k \div 10], k \div 10)
      PROVE  Denotes(Digits[k], k)
  <2> DEFINE q == k \div 10
             c == Figures[(k % 10) + 1]
             d == Digits[q]
             t == Append(d, c)
  <2>1. k \in Nat /\ k < OperandSpace
    BY OperandSpaceAssumption DEF Operands
  <2>2. q \in Nat /\ k % 10 \in 0 .. 9 /\ k = q * 10 + (k % 10)
    BY <2>1, Decimal
  <2>3. (k % 10) + 1 \in 1 .. 10
    BY <2>2
  <2>4. c \in FigureSet /\ Offset(c) = k % 10
    BY <2>2, <2>3, FiguresAre, OffsetIs
  <2>5. Digits[k] = t
    BY <1>2, DigitsSteps
  <2>6. d \in Seq(Characters) /\ Len(d) >= 1 /\ Stuif(d, d[1]) = q
        /\ \A i \in 1 .. Len(d) : d[i] \in FigureSet
    BY <1>2 DEF Denotes
  <2>7. c \in Characters
    BY <1>0, <2>4
  <2> HIDE DEF q, c, d
  <2>8. d[1] \in Characters /\ Len(d) \in Nat
    BY <2>6
  <2>9. Stuif(t, d[1]) = (q * 10 + (k % 10)) % OperandSpace
    BY <2>4, <2>6, <2>7, <2>8, StuifAppend
  <2>10. Stuif(t, d[1]) = k % OperandSpace
    BY <2>2, <2>9
  <2>11. k % OperandSpace = k
    BY <2>1, OperandSpaceAssumption, Z3
  <2>12. t \in Seq(Characters) /\ Len(t) = Len(d) + 1 /\ t[1] = d[1]
    BY <2>6, <2>7, <2>8
  <2>13. \A i \in 1 .. Len(t) : t[i] \in FigureSet
    BY <2>4, <2>6, <2>7, <2>8
  <2> HIDE DEF t
  <2> QED
    BY <2>5, <2>8, <2>10, <2>11, <2>12, <2>13 DEF Denotes
<1>3. 0 \in P
  BY <1>1 DEF Operands
<1>4. ASSUME NEW n \in P PROVE n + 1 \in P
  <2> SUFFICES ASSUME NEW k \in Operands, k <= n + 1 PROVE Denotes(Digits[k], k)
    BY <1>4
  <2>1. CASE k < 10
    BY <1>1, <2>1
  <2>2. CASE ~(k < 10)
    <3>1. n \in Nat /\ k \in Nat
      BY OperandSpaceAssumption DEF Operands
    <3>2. k \div 10 \in Operands /\ k \div 10 <= n
      BY <2>2, <3>1, Decimal, OperandSpaceAssumption DEF Operands
    <3>3. Denotes(Digits[k \div 10], k \div 10)
      BY <1>4, <3>2
    <3> QED
      BY <1>2, <2>2, <3>3
  <2> QED
    BY <2>1, <2>2
<1>5. P = Nat
  <2>1. P \in SUBSET Nat
    OBVIOUS
  <2> HIDE DEF P
  <2> QED
    BY <1>3, <1>4, <2>1, NatInduct
<1> SUFFICES ASSUME NEW k \in Operands PROVE Denotes(Digits[k], k)
  OBVIOUS
<1>6. k \in Nat /\ k <= k
  BY OperandSpaceAssumption DEF Operands
<1>7. k \in P
  BY <1>5, <1>6
<1> QED
  BY <1>6, <1>7

-----------------------------------------------------------------------------
(* Statements and their texts.                                               *)

Letters == {"a", "c", "h", "i", "m", "n", "o", "p", "r", "t", "x", "y", "z"}

Bytecodes == {"macro", "initialize", "identity", "hadamard", "phase", "measure", "cnot",
              "paulix", "pauliy", "pauliz"}

LEMMA OperandCountsAre ==
  DOMAIN OperandCounts = Bytecodes /\ \A op \in Bytecodes : OperandCounts[op] \in {1, 2}
  BY DEF OperandCounts, Bytecodes

\* the length and the first letter of each mnemonic
Shape == <<<<5, "m">>, <<4, "i">>, <<1, "i">>, <<1, "h">>, <<1, "p">>, <<1, "m">>, <<1, "c">>,
           <<1, "x">>, <<1, "y">>, <<1, "z">>>>

Codes == <<"macro", "initialize", "identity", "hadamard", "phase", "measure", "cnot",
           "paulix", "pauliy", "pauliz">>

IsDefinition(d, shape, op) ==
    /\ d.mnemonic \in Seq(Letters) /\ Len(d.mnemonic) = shape[1] /\ d.mnemonic[1] = shape[2]
    /\ d.bytecode = op /\ d.count = OperandCounts[op]

LEMMA DefinitionsAre ==
  /\ DOMAIN Definitions = 1 .. 10
  /\ \A i \in 1 .. 10 : IsDefinition(Definitions[i], Shape[i], Codes[i])
<1>1. DOMAIN Definitions = 1 .. 10
  BY DEF Definitions
<1>2. /\ Definitions[1] = Define(<<"m", "a", "c", "r", "o">>, "macro")
      /\ Definitions[2] = Define(<<"i", "n", "i", "t">>, "initialize")
      /\ Definitions[3] = Define(<<"i">>, "identity")
      /\ Definitions[4] = Define(<<"h">>, "hadamard")
      /\ Definitions[5] = Define(<<"p">>, "phase")
      /\ Definitions[6] = Define(<<"m">>, "measure")
      /\ Definitions[7] = Define(<<"c">>, "cnot")
      /\ Definitions[8] = Define(<<"x">>, "paulix")
      /\ Definitions[9] = Define(<<"y">>, "pauliy")
      /\ Definitions[10] = Define(<<"z">>, "pauliz")
  BY DEF Definitions
<1>3. ASSUME NEW m \in Seq(Letters), NEW n, NEW c, Len(m) = n, m[1] = c, NEW op
      PROVE  IsDefinition(Define(m, op), <<n, c>>, op)
  BY <1>3 DEF IsDefinition, Define
<1>4. /\ IsDefinition(Definitions[1], <<5, "m">>, "macro")
      /\ IsDefinition(Definitions[2], <<4, "i">>, "initialize")
      /\ IsDefinition(Definitions[3], <<1, "i">>, "identity")
      /\ IsDefinition(Definitions[4], <<1, "h">>, "hadamard")
      /\ IsDefinition(Definitions[5], <<1, "p">>, "phase")
  <2>1. <<"m", "a", "c", "r", "o">> \in Seq(Letters) /\ <<"i", "n", "i", "t">> \in Seq(Letters)
    BY DEF Letters
  <2>2. <<"i">> \in Seq(Letters) /\ <<"h">> \in Seq(Letters) /\ <<"p">> \in Seq(Letters)
    BY DEF Letters
  <2> QED
    BY <1>2, <1>3, <2>1, <2>2
<1>5. /\ IsDefinition(Definitions[6], <<1, "m">>, "measure")
      /\ IsDefinition(Definitions[7], <<1, "c">>, "cnot")
      /\ IsDefinition(Definitions[8], <<1, "x">>, "paulix")
      /\ IsDefinition(Definitions[9], <<1, "y">>, "pauliy")
      /\ IsDefinition(Definitions[10], <<1, "z">>, "pauliz")
  <2>1. /\ <<"m">> \in Seq(Letters) /\ <<"c">> \in Seq(Letters) /\ <<"x">> \in Seq(Letters)
        /\ <<"y">> \in Seq(Letters) /\ <<"z">> \in Seq(Letters)
    BY DEF Letters
  <2> QED
    BY <1>2, <1>3, <2>1
<1>6. /\ Shape[1] = <<5, "m">> /\ Shape[2] = <<4, "i">> /\ Shape[3] = <<1, "i">>
      /\ Shape[4] = <<1, "h">> /\ Shape[5] = <<1, "p">> /\ Shape[6] = <<1, "m">>
      /\ Shape[7] = <<1, "c">> /\ Shape[8] = <<1, "x">> /\ Shape[9] = <<1, "y">>
      /\ Shape[10] = <<1, "z">>
  BY DEF Shape
<1>7. /\ Codes[1] = "macro" /\ Codes[2] = "initialize" /\ Codes[3] = "identity"
      /\ Codes[4] = "hadamard" /\ Codes[5] = "phase" /\ Codes[6] = "measure"
      /\ Codes[7] = "cnot" /\ Codes[8] = "paulix" /\ Codes[9] = "pauliy"
      /\ Codes[10] = "pauliz"
  BY DEF Codes
<1>8. /\ IsDefinition(Definitions[1], Shape[1], Codes[1])
      /\ IsDefinition(Definitions[2], Shape[2], Codes[2])
      /\ IsDefinition(Definitions[3], Shape[3], Codes[3])
      /\ IsDefinition(Definitions[4], Shape[4], Codes[4])
      /\ IsDefinition(Definitions[5], Shape[5], Codes[5])
      /\ IsDefinition(Definitions[6], Shape[6], Codes[6])
      /\ IsDefinition(Definitions[7], Shape[7], Codes[7])
      /\ IsDefinition(Definitions[8], Shape[8], Codes[8])
      /\ IsDefinition(Definitions[9], Shape[9], Codes[9])
      /\ IsDefinition(Definitions[10], Shape[10], Codes[10])
  BY <1>4, <1>5, <1>6, <1>7, Zenon
<1>9. ASSUME NEW i \in 1 .. 10 PROVE IsDefinition(Definitions[i], Shape[i], Codes[i])
  <2>1. \/ i = 1 \/ i = 2 \/ i = 3 \/ i = 4 \/ i = 5
        \/ i = 6 \/ i = 7 \/ i = 8 \/ i = 9 \/ i = 10
    OBVIOUS
  <2> QED
    BY <1>8, <2>1, Zenon
<1> QED
  BY <1>1, <1>9

\* No two mnemonics are the same, and every bytecode has one.
LEMMA MnemonicsDiffer ==
  /\ \A i, j \in 1 .. 10 : Definitions[i].mnemonic = Definitions[j].mnemonic => i = j
  /\ \A i, j \in 1 .. 10 : Definitions[i].bytecode = Definitions[j].bytecode => i = j
  /\ \A op \in Bytecodes : \E i \in 1 .. 10 : Definitions[i].bytecode = op
<1>1. \A i, j \in 1 .. 10 : Shape[i][1] = Shape[j][1] /\ Shape[i][2] = Shape[j][2] => i = j
  BY DEF Shape
<1>2. \A i, j \in 1 .. 10 : Codes[i] = Codes[j] => i = j
  BY DEF Codes
<1>3. \A op \in Bytecodes : \E i \in 1 .. 10 : Codes[i] = op
  BY DEF Codes, Bytecodes
<1>4. \A i \in 1 .. 10 : /\ Len(Definitions[i].mnemonic) = Shape[i][1]
                         /\ Definitions[i].mnemonic[1] = Shape[i][2]
                         /\ Definitions[i].bytecode = Codes[i]
  BY DefinitionsAre DEF IsDefinition
<1>5. ASSUME NEW i \in 1 .. 10, NEW j \in 1 .. 10,
             Definitions[i].mnemonic = Definitions[j].mnemonic
      PROVE  i = j
  <2> DEFINE m == Definitions[i].mnemonic
             n == Definitions[j].mnemonic
  <2>1. Len(m) = Shape[i][1] /\ m[1] = Shape[i][2]
    BY <1>4
  <2>2. Len(n) = Shape[j][1] /\ n[1] = Shape[j][2]
    BY <1>4
  <2>3. m = n
    BY <1>5
  <2> HIDE DEF m, n
  <2>4. Shape[i][1] = Shape[j][1] /\ Shape[i][2] = Shape[j][2]
    BY <2>1, <2>2, <2>3
  <2> QED
    BY <1>1, <2>4
<1>6. ASSUME NEW i \in 1 .. 10, NEW j \in 1 .. 10,
             Definitions[i].bytecode = Definitions[j].bytecode
      PROVE  i = j
  <2>1. Codes[i] = Codes[j]
    BY <1>4, <1>6
  <2> QED
    BY <1>2, <2>1
<1>7. ASSUME NEW op \in Bytecodes PROVE \E i \in 1 .. 10 : Definitions[i].bytecode = op
  <2>1. PICK i \in 1 .. 10 : Codes[i] = op
    BY <1>3
  <2> QED
    BY <1>4, <2>1
<1> QED
  BY <1>5, <1>6, <1>7

LEMMA DefinitionOfIs ==
  ASSUME NEW s \in Statements
  PROVE  \E i \in 1 .. 10 :
            /\ DefinitionOf(s) = Definitions[i] /\ Definitions[i].bytecode = s.bytecode
            /\ Definitions[i].count = Len(s.operands) /\ Len(s.operands) \in {1, 2}
            /\ Definitions[i].mnemonic \in Seq(Letters) /\ Len(Definitions[i].mnemonic) >= 1
<1> DEFINE P(i) == Definitions[i].bytecode = s.bytecode
           c == CHOOSE i \in DOMAIN Definitions : P(i)
<1>1. s.bytecode \in Bytecodes /\ Len(s.operands) = OperandCounts[s.bytecode]
  BY StatementsAssumption, OperandCountsAre
<1>2. \E i \in DOMAIN Definitions : P(i)
  BY <1>1, MnemonicsDiffer, DefinitionsAre
<1>3. DefinitionOf(s) = Definitions[c]
  BY DEF DefinitionOf
<1>4. c \in DOMAIN Definitions /\ P(c)
  <2> HIDE DEF P
  <2> QED
    BY <1>2, Zenon
<1> HIDE DEF c
<1>5. c \in 1 .. 10 /\ IsDefinition(Definitions[c], Shape[c], Codes[c])
  BY <1>4, DefinitionsAre
<1>6. Shape[c][1] \in Nat /\ Shape[c][1] >= 1
  BY <1>5 DEF Shape
<1>7. /\ Definitions[c].mnemonic \in Seq(Letters) /\ Len(Definitions[c].mnemonic) >= 1
      /\ Definitions[c].count = OperandCounts[s.bytecode]
  BY <1>4, <1>5, <1>6 DEF IsDefinition
<1>8. OperandCounts[s.bytecode] \in {1, 2}
  BY <1>1, OperandCountsAre
<1> QED
  BY <1>1, <1>3, <1>4, <1>5, <1>7, <1>8

LEMMA LettersAre ==
  Letters \subseteq Characters /\ Letters \cap {"sp", "tab", "comma", "eol", "nul"} = {}
  BY CharactersAre DEF Letters

LEMMA DelimitersAre == {"sp", "tab", "comma", "eol", "nul", "semicolon", "a"} \subseteq Characters
  BY CharactersAre

\* The operands of a statement.
LEMMA StatementOperands ==
  ASSUME NEW s \in Statements
  PROVE  /\ s.operands \in Seq(Operands)
         /\ \A k \in 1 .. Len(s.operands) :
               s.operands[k] \in Operands /\ Denotes(Digits[s.operands[k]], s.operands[k])
<1>1. s.operands \in Seq(Operands)
  BY StatementsAssumption
<1>2. \A k \in 1 .. Len(s.operands) : s.operands[k] \in Operands
  BY <1>1, ElementOfSeq
<1> QED
  BY <1>1, <1>2, DigitsDenote

\* Every text that clients write consists of characters.
LEMMA RenderTyped ==
  ASSUME NEW s \in Statements, NEW how
  PROVE  Render(s, how) \in Seq(Characters)
<1> DEFINE m == DefinitionOf(s).mnemonic
           d1 == Digits[s.operands[1]]
           d2 == Digits[s.operands[2]]
           b == IF how = "tabbed" THEN <<"tab">> ELSE <<"sp">>
           e == IF how = "spaced" THEN <<"comma", "sp">> ELSE <<"comma">>
           f == IF how = "commented" THEN <<"sp", "semicolon", "a">> ELSE << >>
           o == IF Len(s.operands) = 1 THEN << >> ELSE e \o d2
<1>1. /\ Len(s.operands) \in {1, 2} /\ m \in Seq(Letters)
      /\ \A n \in {1, 2} : 1 \in 1 .. n
  BY DefinitionOfIs
<1>2. m \in Seq(Characters)
  BY <1>1, LettersAre, SeqMonotonic
<1>3. d1 \in Seq(Characters)
  <2>1. 1 \in 1 .. Len(s.operands)
    BY <1>1, Zenon
  <2> QED
    BY <2>1, StatementOperands DEF Denotes
<1>4. b \in Seq(Characters) /\ e \in Seq(Characters) /\ f \in Seq(Characters)
  BY DelimitersAre
<1> HIDE DEF b, e, f
<1>5. o \in Seq(Characters)
  <2>1. CASE Len(s.operands) = 1
    BY <2>1
  <2>2. CASE Len(s.operands) = 2
    <3>1. 2 \in 1 .. Len(s.operands)
      BY <2>2
    <3>2. d2 \in Seq(Characters)
      BY <3>1, StatementOperands DEF Denotes
    <3> HIDE DEF d2
    <3> QED
      BY <2>2, <3>2, <1>4
  <2> QED
    BY <1>1, <2>1, <2>2
<1>6. Render(s, how) = m \o b \o d1 \o o \o f
  BY DEF Render, b, e, f
<1> HIDE DEF m, d1, o
<1> QED
  BY <1>2, <1>3, <1>4, <1>5, <1>6

\* the lines of ss that come after one another in L
IsLines(L, ss, how) ==
    /\ L \in [0 .. Len(ss) -> Seq(Characters)] /\ L[0] = << >>
    /\ \A k \in 1 .. Len(ss) : L[k] = L[k - 1] \o Render(ss[k], how) \o <<"eol">>

LEMMA LinesAre ==
  ASSUME NEW ss \in Seq(Statements), NEW how
  PROVE  IsLines(Lines(ss, how), ss, how)
<1> DEFINE n == Len(ss)
           S == Seq(Characters)
           More(v, k) == v \o Render(ss[k], how) \o <<"eol">>
           f == [x \in S \X Nat |-> IF x[2] \in 1 .. n THEN More(x[1], x[2]) ELSE << >>]
           Is(g) == g = [k \in 0 .. n |-> IF k = 0 THEN << >> ELSE More(g[k - 1], k)]
<1>0. n \in Nat
  OBVIOUS
<1>1. ASSUME NEW v \in S, NEW k \in 1 .. n PROVE More(v, k) \in S
  <2>1. Render(ss[k], how) \in S /\ <<"eol">> \in S
    BY RenderTyped, DelimitersAre, ElementOfSeq
  <2> QED
    BY <2>1
<1>2. << >> \in S
  OBVIOUS
<1> HIDE DEF More, S, n
<1>3. f \in [S \X Nat -> S]
  BY <1>1, <1>2
<1>4. PICK g : IsRun(g, S, << >>, f, n)
  <2> HIDE DEF f
  <2> QED
    BY <1>0, <1>2, <1>3, RunExists
<1>5. g \in [0 .. n -> S] /\ g[0] = << >>
  BY <1>4 DEF IsRun
<1>6. ASSUME NEW k \in 1 .. n PROVE g[k] = More(g[k - 1], k)
  <2>1. g[k] = f[<<g[k - 1], k>>]
    <3> HIDE DEF f
    <3> QED
      BY <1>0, <1>4, RunSteps
  <2>2. <<g[k - 1], k>> \in S \X Nat
    <3>1. k - 1 \in 0 .. n /\ k \in Nat
      BY <1>0
    <3> QED
      BY <1>5, <3>1
  <2> QED
    BY <2>1, <2>2
<1>7. Is(g)
  <2>1. ASSUME NEW k \in 0 .. n PROVE g[k] = IF k = 0 THEN << >> ELSE More(g[k - 1], k)
    <3>1. CASE k = 0
      BY <1>5, <3>1
    <3>2. CASE k # 0
      <4>1. k \in 1 .. n
        BY <1>0, <3>2
      <4> QED
        BY <1>6, <3>2, <4>1
    <3> QED
      BY <3>1, <3>2
  <2> QED
    BY <1>5, <2>1
<1> DEFINE L == CHOOSE h : Is(h)
<1>8. Is(L)
  <2> HIDE DEF Is
  <2> QED
    BY <1>7, Zenon
<1>9. Lines(ss, how) = L
  BY DEF Lines, More, n
<1> HIDE DEF L
<1>10. L[0] = << >>
  BY <1>0, <1>8
<1>11. ASSUME NEW k \in 1 .. n PROVE L[k] = More(L[k - 1], k)
  <2>1. k \in 0 .. n /\ k # 0
    BY <1>0
  <2> QED
    BY <1>8, <2>1
<1> DEFINE P == {k \in Nat : k <= n => L[k] \in S}
<1>12. 0 \in P
  BY <1>2, <1>10
<1>13. ASSUME NEW k \in P PROVE k + 1 \in P
  <2> SUFFICES ASSUME k + 1 <= n PROVE L[k + 1] \in S
    BY <1>13
  <2>1. k + 1 \in 1 .. n /\ (k + 1) - 1 = k /\ L[k] \in S
    BY <1>0, <1>13
  <2>2. L[k + 1] = More(L[k], k + 1)
    BY <1>11, <2>1
  <2> QED
    BY <1>1, <2>1, <2>2
<1>14. P = Nat
  <2>1. P \in SUBSET Nat
    OBVIOUS
  <2> HIDE DEF P
  <2> QED
    BY <1>12, <1>13, <2>1, NatInduct
<1>15. \A k \in 0 .. n : L[k] \in S
  BY <1>0, <1>14
<1>16. L \in [0 .. n -> S]
  BY <1>8, <1>15
<1> QED
  BY <1>9, <1>10, <1>11, <1>16 DEF IsLines, More, S, n

\* where line k of text is, if L are its lines
LineIn(text, L, ss, how, k) ==
    /\ Len(L[k]) = Len(L[k - 1]) + Len(Render(ss[k], how)) + 1
    /\ Len(L[k]) <= Len(text)
    /\ \A j \in 1 .. Len(Render(ss[k], how)) : text[Len(L[k - 1]) + j] = Render(ss[k], how)[j]
    /\ text[Len(L[k])] = "eol"

\* t begins with s
Begins(s, t) == Len(s) <= Len(t) /\ \A i \in 1 .. Len(s) : t[i] = s[i]

LEMMA BeginsTrans ==
  ASSUME NEW S, NEW s \in Seq(S), NEW t \in Seq(S), NEW u \in Seq(S), Begins(s, t), Begins(t, u)
  PROVE  Begins(s, u)
<1>1. Len(s) \in Nat /\ Len(t) \in Nat /\ Len(u) \in Nat
  OBVIOUS
<1>2. \A i \in 1 .. Len(s) : i \in 1 .. Len(t)
  BY <1>1 DEF Begins
<1> QED
  BY <1>1, <1>2 DEF Begins

\* The lines up to one are the beginning of the whole text.
LEMMA LinesBegin ==
  ASSUME NEW ss \in Seq(Statements), NEW how, NEW k \in 0 .. Len(ss)
  PROVE  Begins(Lines(ss, how)[k], RenderAll(ss, how))
<1> DEFINE n == Len(ss)
           L == Lines(ss, how)
           P == {j \in Nat : j <= n => Begins(L[n - j], L[n])}
<1>0. n \in Nat /\ IsLines(L, ss, how) /\ RenderAll(ss, how) = L[n]
  BY LinesAre DEF RenderAll
<1>1. k \in 0 .. n
  OBVIOUS
<1> HIDE DEF L
<1>2. /\ L \in [0 .. n -> Seq(Characters)]
      /\ \A i \in 1 .. n : L[i] = L[i - 1] \o Render(ss[i], how) \o <<"eol">>
  BY <1>0 DEF IsLines
<1>3. \A i \in 1 .. n : Render(ss[i], how) \in Seq(Characters)
  BY RenderTyped, ElementOfSeq
<1> HIDE DEF n
<1>4. 0 \in P /\ P \in SUBSET Nat
  <2>1. n - 0 = n /\ n \in 0 .. n
    BY <1>0
  <2>2. Begins(L[n], L[n])
    BY <1>2, <2>1 DEF Begins
  <2> QED
    BY <2>1, <2>2
<1>5. ASSUME NEW j \in P PROVE j + 1 \in P
  <2> SUFFICES ASSUME j + 1 <= n PROVE Begins(L[n - (j + 1)], L[n])
    BY <1>5
  <2> DEFINE i == n - j
  <2>1. i \in 1 .. n /\ i - 1 = n - (j + 1) /\ i - 1 \in 0 .. n /\ i \in 0 .. n /\ Begins(L[i], L[n])
    BY <1>0, <1>5
  <2> HIDE DEF i
  <2> DEFINE s == L[i - 1]
             t == Render(ss[i], how)
             u == s \o t \o <<"eol">>
  <2>2. s \in Seq(Characters) /\ t \in Seq(Characters) /\ L[i] = u /\ <<"eol">> \in Seq(Characters)
    <3>1. s \in Seq(Characters)
      BY <1>2, <2>1
    <3>2. t \in Seq(Characters)
      BY <1>3, <2>1
    <3>3. L[i] = u
      BY <1>2, <2>1, Zenon
    <3> QED
      BY <3>1, <3>2, <3>3, DelimitersAre
  <2> HIDE DEF s, t
  <2>3. Begins(s, u)
    BY <2>2 DEF Begins
  <2>4. u \in Seq(Characters) /\ L[n] \in Seq(Characters) /\ Begins(u, L[n])
    BY <1>0, <1>2, <2>1, <2>2
  <2> HIDE DEF u
  <2>5. Begins(s, L[n])
    BY <2>2, <2>3, <2>4, BeginsTrans
  <2> QED
    BY <2>1, <2>5 DEF s
<1>6. P = Nat
  <2> HIDE DEF P
  <2> QED
    BY <1>4, <1>5, NatInduct
<1>7. n - k \in Nat /\ n - k <= n /\ n - (n - k) = k
  BY <1>0, <1>1
<1>8. Begins(L[n - (n - k)], L[n])
  BY <1>6, <1>7
<1> QED
  BY <1>0, <1>7, <1>8 DEF L

LEMMA LinesIn ==
  ASSUME NEW ss \in Seq(Statements), NEW how, NEW k \in 1 .. Len(ss)
  PROVE  LineIn(RenderAll(ss, how), Lines(ss, how), ss, how, k)
<1> DEFINE L == Lines(ss, how)
           text == RenderAll(ss, how)
           s == L[k - 1]
           t == Render(ss[k], how)
           u == s \o t \o <<"eol">>
<1>1. k - 1 \in 0 .. Len(ss) /\ k \in 0 .. Len(ss)
  OBVIOUS
<1>2. s \in Seq(Characters) /\ L[k] = u
  BY <1>1, LinesAre DEF IsLines
<1>3. t \in Seq(Characters) /\ <<"eol">> \in Seq(Characters)
  BY RenderTyped, ElementOfSeq, DelimitersAre
<1>4. Begins(u, text)
  BY <1>1, <1>2, LinesBegin
<1> HIDE DEF L, text, s, t
<1>5. Len(u) = Len(s) + Len(t) + 1 /\ u[Len(u)] = "eol" /\ Len(s) \in Nat /\ Len(t) \in Nat
  BY <1>2, <1>3
<1>6. \A j \in 1 .. Len(t) : u[Len(s) + j] = t[j] /\ Len(s) + j \in 1 .. Len(u)
  BY <1>2, <1>3, <1>5
<1> HIDE DEF u
<1>7. Len(u) \in 1 .. Len(u)
  BY <1>5
<1>8. Len(u) <= Len(text) /\ text[Len(u)] = "eol" /\ \A j \in 1 .. Len(t) : text[Len(s) + j] = t[j]
  BY <1>4, <1>5, <1>6, <1>7 DEF Begins
<1> QED
  BY <1>2, <1>5, <1>8 DEF LineIn, L, s, t, text

-----------------------------------------------------------------------------
(* Scans.                                                                    *)

\* Two numbers that are both the first of their kind are the same.
LEMMA FirstIsUnique ==
  ASSUME NEW i \in Nat, NEW T, NEW a \in Nat, NEW b \in Nat, i <= a, i <= b, a \in T, b \in T,
         \A k \in i .. a - 1 : k \notin T, \A k \in i .. b - 1 : k \notin T
  PROVE  a = b
<1>1. CASE a < b
  <2>1. a \in i .. b - 1
    BY <1>1
  <2> QED
    BY <2>1
<1>2. CASE b < a
  <2>1. b \in i .. a - 1
    BY <1>2
  <2> QED
    BY <2>1
<1> QED
  BY <1>1, <1>2

\* where parse_program may read
InMemory ==
    /\ memory \in Seq(Characters) /\ memory # << >> /\ memory[Len(memory)] = "nul"
    /\ pos \in 1 .. Len(memory)

\* where a scan that starts at i may stop
StopsAt(stops, i, j) ==
    /\ memory[j] \in stops \cup {"nul"}
    /\ \A k \in i .. j - 1 : memory[k] \notin stops \cup {"nul"}

\* Every scan stops inside the memory.
LEMMA ScanIs ==
  ASSUME InMemory, NEW stops, NEW i \in 1 .. Len(memory)
  PROVE  ScanTo(stops, i) \in i .. Len(memory) /\ StopsAt(stops, i, ScanTo(stops, i))
<1> DEFINE n == Len(memory)
           T == {j \in i .. n : memory[j] \in stops \cup {"nul"}}
           c == CHOOSE j \in i .. n : StopsAt(stops, i, j)
<1>1. n \in Nat /\ n \in T
  BY DEF InMemory
<1>2. PICK j \in T : \A k \in T : j <= k
  <2>1. T \in SUBSET Nat /\ T # {}
    BY <1>1
  <2> HIDE DEF T
  <2> QED
    BY <2>1, SmallestNat
<1>3. j \in i .. n /\ StopsAt(stops, i, j)
  <2>1. j \in i .. n /\ memory[j] \in stops \cup {"nul"}
    BY <1>2
  <2>2. ASSUME NEW k \in i .. j - 1, memory[k] \in stops \cup {"nul"} PROVE FALSE
    <3>1. k \in i .. n /\ ~(j <= k)
      BY <1>1, <2>1
    <3> QED
      BY <1>2, <2>2, <3>1
  <2> QED
    BY <2>1, <2>2 DEF StopsAt
<1>4. ScanTo(stops, i) = c
  BY DEF ScanTo, StopsAt
<1>5. c \in i .. n /\ StopsAt(stops, i, c)
  BY <1>3, Zenon
<1> QED
  BY <1>4, <1>5

\* A scan stops at the first stop there is.
LEMMA ScanStops ==
  ASSUME InMemory, NEW stops, NEW i \in 1 .. Len(memory), NEW j \in i .. Len(memory),
         StopsAt(stops, i, j)
  PROVE  ScanTo(stops, i) = j
<1> DEFINE c == ScanTo(stops, i)
           T == {k \in 1 .. Len(memory) : memory[k] \in stops \cup {"nul"}}
<1>1. c \in i .. Len(memory) /\ StopsAt(stops, i, c) /\ Len(memory) \in Nat
  BY ScanIs DEF InMemory
<1> HIDE DEF c
<1>2. i \in Nat /\ c \in Nat /\ j \in Nat /\ i <= c /\ i <= j /\ c \in T /\ j \in T
  BY <1>1 DEF StopsAt
<1>3. \A k \in i .. c - 1 : k \notin T
  BY <1>1 DEF StopsAt
<1>4. \A k \in i .. j - 1 : k \notin T
  BY DEF StopsAt
<1> HIDE DEF T
<1>5. c = j
  BY <1>2, <1>3, <1>4, FirstIsUnique
<1> QED
  BY <1>5 DEF c

\* remove_leading_whitespace stops at the first character that is no blank.
LEMMA SkipBlanksIs ==
  ASSUME NEW mem, NEW n \in Nat, DOMAIN mem = 1 .. n, NEW i \in 1 .. n,
         mem[i] \notin {"sp", "tab"}, \A j \in 1 .. i - 1 : mem[j] \in {"sp", "tab"}
  PROVE  SkipBlanks(mem) = i
<1> DEFINE Is(k) == /\ mem[k] \notin {"sp", "tab"}
                    /\ \A j \in 1 .. k - 1 : mem[j] \in {"sp", "tab"}
           c == CHOOSE k \in 1 .. n : Is(k)
           T == {k \in 1 .. n : mem[k] \notin {"sp", "tab"}}
<1>1. Is(i)
  OBVIOUS
<1>2. c \in 1 .. n /\ Is(c)
  <2> HIDE DEF Is
  <2> QED
    BY <1>1, Zenon
<1>3. SkipBlanks(mem) = c
  BY DEF SkipBlanks
<1> HIDE DEF c
<1>4. 1 \in Nat /\ c \in Nat /\ i \in Nat /\ 1 <= c /\ 1 <= i /\ c \in T /\ i \in T
  BY <1>2
<1>5. /\ \A k \in 1 .. c - 1 : k \notin T
      /\ \A k \in 1 .. i - 1 : k \notin T
  BY <1>2
<1> HIDE DEF T
<1>6. c = i
  BY <1>4, <1>5, FirstIsUnique
<1> QED
  BY <1>3, <1>6

LEMMA SkipBlanksTyped ==
  ASSUME NEW mem, NEW n \in Nat, DOMAIN mem = 1 .. n, NEW e \in 1 .. n, mem[e] = "nul"
  PROVE  SkipBlanks(mem) \in 1 .. e
<1> DEFINE T == {k \in 1 .. n : mem[k] \notin {"sp", "tab"}}
<1>1. e \in T
  OBVIOUS
<1>2. PICK i \in T : \A k \in T : i <= k
  <2>1. T \in SUBSET Nat /\ T # {}
    BY <1>1
  <2> HIDE DEF T
  <2> QED
    BY <2>1, SmallestNat
<1>3. i \in 1 .. n /\ i <= e /\ mem[i] \notin {"sp", "tab"}
  BY <1>1, <1>2
<1>4. ASSUME NEW j \in 1 .. i - 1 PROVE mem[j] \in {"sp", "tab"}
  <2>1. j \in 1 .. n /\ ~(i <= j)
    BY <1>3
  <2> QED
    BY <1>2, <2>1
<1>5. SkipBlanks(mem) = i
  BY <1>3, <1>4, SkipBlanksIs
<1> QED
  BY <1>3, <1>5

-----------------------------------------------------------------------------
(* Instructions of any text.                                                 *)

\* An operand ends behind the place before it, if not behind the memory.
LEMMA EndAfterIs ==
  ASSUME InMemory, NEW i \in 1 .. Len(memory) + 1
  PROVE  /\ EndAfter(i) \in 1 .. Len(memory) + 1
         /\ EndAfter(i) <= Len(memory) => i < EndAfter(i)
<1>1. Len(memory) \in Nat /\ Len(memory) >= 1
  BY DEF InMemory
<1>2. CASE i >= Len(memory)
  BY <1>1, <1>2 DEF EndAfter
<1>3. CASE ~(i >= Len(memory))
  <2> DEFINE c == ScanTo({"comma", "eol"}, i + 1)
  <2>1. i + 1 \in 1 .. Len(memory)
    BY <1>1, <1>3
  <2>2. c \in i + 1 .. Len(memory)
    BY <2>1, ScanIs
  <2>3. EndAfter(i) = c
    BY <1>3 DEF EndAfter
  <2> HIDE DEF c
  <2> QED
    BY <1>1, <2>2, <2>3
<1> QED
  BY <1>2, <1>3

LEMMA OperandEndIs ==
  ASSUME InMemory
  PROVE  /\ \A k \in 0 .. 2 : OperandEnd(k) \in 1 .. Len(memory) + 1
         /\ \A k \in 1 .. 2 : OperandEnd(k) <= Len(memory) => OperandEnd(k - 1) < OperandEnd(k)
<1> DEFINE a == OperandEnd(0)
           b == OperandEnd(1)
           c == OperandEnd(2)
<1>0. Len(memory) \in Nat
  BY DEF InMemory
<1>1. a = OpcodeEnd /\ b = EndAfter(a) /\ c = EndAfter(b)
  BY DEF OperandEnd
<1>2. OpcodeEnd \in pos .. Len(memory) /\ pos \in 1 .. Len(memory)
  BY ScanIs DEF OpcodeEnd, InMemory
<1> HIDE DEF a, b, c
<1>3. a \in 1 .. Len(memory) + 1
  BY <1>0, <1>1, <1>2
<1>4. b \in 1 .. Len(memory) + 1 /\ (b <= Len(memory) => a < b)
  BY <1>1, <1>3, EndAfterIs
<1>5. c \in 1 .. Len(memory) + 1 /\ (c <= Len(memory) => b < c)
  BY <1>1, <1>4, EndAfterIs
<1>6. ASSUME NEW k \in 0 .. 2 PROVE OperandEnd(k) \in 1 .. Len(memory) + 1
  <2>1. k = 0 \/ k = 1 \/ k = 2
    OBVIOUS
  <2> QED
    BY <1>3, <1>4, <1>5, <2>1 DEF a, b, c
<1>7. ASSUME NEW k \in 1 .. 2, OperandEnd(k) <= Len(memory)
      PROVE  OperandEnd(k - 1) < OperandEnd(k)
  <2>1. CASE k = 1
    <3>1. k - 1 = 0
      BY <2>1
    <3> QED
      BY <1>4, <1>7, <2>1, <3>1 DEF a, b
  <2>2. CASE k = 2
    <3>1. k - 1 = 1
      BY <2>2
    <3> QED
      BY <1>5, <1>7, <2>2, <3>1 DEF b, c
  <2> QED
    BY <2>1, <2>2
<1> QED
  BY <1>6, <1>7

\* If the last operand ends in the memory, each one is read from it and is a number.
LEMMA OperandTyped ==
  ASSUME InMemory, NEW n \in {1, 2}, OperandEnd(n) <= Len(memory), NEW k \in 1 .. n
  PROVE  Operand(k) \in Operands
<1> DEFINE e == OperandEnd(k)
           b == OperandEnd(k - 1)
           s == SubSeq(memory, b + 1, e - 1)
<1>0. Len(memory) \in Nat /\ memory \in Seq(Characters)
  BY DEF InMemory
<1>1. e \in 1 .. Len(memory) + 1 /\ b \in 1 .. Len(memory) + 1
  <2>1. k \in 0 .. 2 /\ k - 1 \in 0 .. 2
    OBVIOUS
  <2> QED
    BY <2>1, OperandEndIs
<1>2. e <= Len(memory)
  <2>1. CASE k = n
    BY <2>1
  <2>2. CASE k # n
    <3>1. n = 2 /\ k = 1 /\ n - 1 = k /\ n \in 1 .. 2
      BY <2>2
    <3>2. OperandEnd(n - 1) < OperandEnd(n) /\ OperandEnd(n) \in 1 .. Len(memory) + 1
      BY <3>1, OperandEndIs
    <3>3. e < OperandEnd(n)
      BY <3>1, <3>2
    <3> HIDE DEF e, b
    <3> QED
      BY <1>0, <1>1, <3>2, <3>3
  <2> QED
    BY <2>1, <2>2
<1>3. b < e
  <2>1. k \in 1 .. 2
    OBVIOUS
  <2> QED
    BY <1>2, <2>1, OperandEndIs
<1>4. Operand(k) = Stuif(s, memory[b + 1])
  BY DEF Operand
<1> HIDE DEF e, b
<1>5. b + 1 \in 1 .. Len(memory)
  BY <1>0, <1>1, <1>2, <1>3
<1>6. memory[b + 1] \in Characters
  BY <1>0, <1>5, ElementOfSeq
<1>7. s \in Seq(Characters)
  <2>1. \A i \in b + 1 .. e - 1 : i \in 1 .. Len(memory)
    BY <1>0, <1>1, <1>2
  <2>2. \A i \in b + 1 .. e - 1 : memory[i] \in Characters
    BY <1>0, <2>1, ElementOfSeq
  <2> QED
    BY <1>0, <1>1, <1>2, <2>2, SubSeqProperties
<1> QED
  BY <1>4, <1>6, <1>7, StuifTyped

\* pos stays in the memory.
LEMMA AdvanceTyped ==
  ASSUME InMemory, NEW last \in 1 .. Len(memory)
  PROVE  Advance(last) \in 1 .. Len(memory)
<1>1. CASE memory[last] = "nul"
  BY <1>1 DEF Advance
<1>2. CASE memory[last] # "nul"
  <2>1. last # Len(memory) /\ Len(memory) \in Nat
    BY <1>2 DEF InMemory
  <2> QED
    BY <1>2, <2>1 DEF Advance
<1> QED
  BY <1>1, <1>2

-----------------------------------------------------------------------------
(* Instructions of a strict program.                                         *)

LEMMA FollowsConcat ==
  ASSUME NEW p \in Nat, NEW s \in Seq(Characters), NEW t \in Seq(Characters), Follows(p, s \o t)
  PROVE  Follows(p, s) /\ Follows(p + Len(s), t)
<1> DEFINE u == s \o t
           a == Len(s)
           b == Len(t)
<1>1. /\ a \in Nat /\ b \in Nat /\ Len(u) = a + b
      /\ \A j \in 1 .. a : u[j] = s[j]
      /\ \A j \in 1 .. b : u[a + j] = t[j]
  OBVIOUS
<1>2. \A j \in 1 .. Len(u) : p + j \in 1 .. Len(memory) /\ memory[p + j] = u[j]
  BY DEF Follows
<1> HIDE DEF u, a, b
<1>3. \A j \in 1 .. a : p + j \in 1 .. Len(memory) /\ memory[p + j] = s[j]
  BY <1>1, <1>2
<1>4. ASSUME NEW j \in 1 .. b
      PROVE  (p + a) + j \in 1 .. Len(memory) /\ memory[(p + a) + j] = t[j]
  <2>1. a + j \in 1 .. Len(u) /\ p + (a + j) = (p + a) + j
    BY <1>1
  <2>2. p + (a + j) \in 1 .. Len(memory) /\ memory[p + (a + j)] = u[a + j]
    BY <1>2, <2>1
  <2> QED
    BY <1>1, <2>1, <2>2
<1> QED
  BY <1>3, <1>4 DEF Follows, a, b

\* What follows can be cut out.
LEMMA FollowsSubSeq ==
  ASSUME InMemory, NEW p \in Nat, NEW s \in Seq(Characters), Follows(p, s)
  PROVE  SubSeq(memory, p + 1, p + Len(s)) = s
<1> DEFINE n == Len(s)
           t == SubSeq(memory, p + 1, p + n)
<1>1. n \in Nat /\ \A j \in 1 .. n : memory[p + j] = s[j] /\ s[j] \in Characters
  BY ElementOfSeq DEF Follows
<1> HIDE DEF n
<1>2. ASSUME NEW i \in p + 1 .. p + n PROVE memory[i] \in Characters
  <2>1. i - p \in 1 .. n /\ p + (i - p) = i
    BY <1>1
  <2>2. memory[p + (i - p)] \in Characters
    BY <1>1, <2>1
  <2> QED
    BY <2>1, <2>2
<1>3. p + 1 \in Int /\ p + n \in Int
  BY <1>1
<1>4. /\ t \in Seq(Characters)
      /\ Len(t) = IF p + 1 <= p + n THEN (p + n) - (p + 1) + 1 ELSE 0
      /\ \A i \in 1 .. (p + n) - (p + 1) + 1 : t[i] = memory[(p + 1) + i - 1]
  BY <1>2, <1>3, SubSeqProperties
<1> HIDE DEF t
<1>5. Len(t) = n
  BY <1>1, <1>4
<1>6. ASSUME NEW i \in 1 .. n PROVE t[i] = s[i]
  <2>1. i \in 1 .. (p + n) - (p + 1) + 1 /\ (p + 1) + i - 1 = p + i
    BY <1>1
  <2> QED
    BY <1>1, <1>4, <2>1
<1>7. t = s
  <2>1. Len(t) = Len(s) /\ \A i \in 1 .. Len(t) : t[i] = s[i]
    BY <1>5, <1>6 DEF n
  <2> QED
    BY <1>4, <2>1, SeqEqual
<1> QED
  BY <1>7 DEF t, n

\* The figures of an operand, up to what delimits it, are read as that operand.
LEMMA OperandText ==
  ASSUME InMemory, NEW i \in Nat, i >= 1, NEW d \in Seq(Characters), Len(d) >= 1,
         \A x \in 1 .. Len(d) : d[x] \in FigureSet, Follows(i, d),
         i + Len(d) + 1 \in 1 .. Len(memory), memory[i + Len(d) + 1] \in {"comma", "eol", "nul"}
  PROVE  /\ EndAfter(i) = i + Len(d) + 1
         /\ SubSeq(memory, i + 1, EndAfter(i) - 1) = d
         /\ memory[i + 1] = d[1]
<1> DEFINE n == Len(d)
           j == i + n + 1
           stops == {"comma", "eol"}
<1>0. Len(memory) \in Nat /\ n \in Nat /\ n >= 1
  BY DEF InMemory
<1>1. \A x \in 1 .. n : memory[i + x] \in FigureSet /\ memory[i + x] = d[x]
  BY DEF Follows
<1>2. j \in 1 .. Len(memory) /\ memory[j] \in {"comma", "eol", "nul"}
  OBVIOUS
<1> HIDE DEF n
<1>3. j \in i + 1 .. Len(memory) /\ i + 1 \in 1 .. Len(memory) /\ ~(i >= Len(memory))
  BY <1>0, <1>2
<1>4. StopsAt(stops, i + 1, j)
  <2>1. ASSUME NEW k \in i + 1 .. j - 1 PROVE memory[k] \notin stops \cup {"nul"}
    <3>1. k - i \in 1 .. n /\ i + (k - i) = k
      BY <1>0
    <3>2. memory[i + (k - i)] \in FigureSet
      BY <1>1, <3>1
    <3> QED
      BY <3>1, <3>2, FiguresAre
  <2> QED
    BY <1>2, <2>1 DEF StopsAt
<1> HIDE DEF j, stops
<1>5. ScanTo(stops, i + 1) = j
  BY <1>3, <1>4, ScanStops
<1>6. EndAfter(i) = j
  BY <1>3, <1>5 DEF EndAfter, stops
<1>7. j - 1 = i + n
  BY <1>0 DEF j
<1>8. SubSeq(memory, i + 1, j - 1) = d
  BY <1>7, FollowsSubSeq DEF n
<1>9. memory[i + 1] = d[1]
  BY <1>0, <1>1
<1> QED
  BY <1>6, <1>8, <1>9 DEF j, n

\* The parts of a statement in the memory after p, and the end e of the statement
OnePart(p, m, d1, e) ==
    /\ Follows(p, m) /\ memory[p + Len(m) + 1] = "sp" /\ Follows(p + Len(m) + 1, d1)
    /\ e = p + Len(m) + 1 + Len(d1) + 1

TwoParts(p, m, d1, d2, e) ==
    /\ OnePart(p, m, d1, p + Len(m) + 1 + Len(d1) + 1)
    /\ memory[p + Len(m) + 1 + Len(d1) + 1] = "comma"
    /\ Follows(p + Len(m) + 1 + Len(d1) + 1, d2)
    /\ e = p + Len(m) + 1 + Len(d1) + 1 + Len(d2) + 1

LEMMA ConcatIs ==
  ASSUME NEW S, NEW s \in Seq(S), NEW t \in Seq(S)
  PROVE  /\ s \o t \in Seq(S) /\ Len(s \o t) = Len(s) + Len(t)
         /\ Len(s) \in Nat /\ Len(t) \in Nat /\ s \o << >> = s
  BY ConcatProperties

LEMMA FirstPart ==
  ASSUME NEW p \in Nat, NEW m \in Seq(Characters), NEW d1 \in Seq(Characters),
         NEW t \in Seq(Characters), Follows(p, m \o <<"sp">> \o d1 \o t)
  PROVE  /\ OnePart(p, m, d1, p + Len(m) + 1 + Len(d1) + 1)
         /\ Follows(p + Len(m) + 1 + Len(d1), t)
<1> DEFINE sp == <<"sp">>
           u == m \o sp
           v == u \o d1
<1>1. sp \in Seq(Characters) /\ Len(sp) = 1 /\ sp[1] = "sp"
  BY DelimitersAre
<1>2. Follows(p, v \o t)
  OBVIOUS
<1>3. Len(m) \in Nat /\ Len(d1) \in Nat /\ Len(t) \in Nat
  OBVIOUS
<1> HIDE DEF sp
<1>4. u \in Seq(Characters) /\ Len(u) = Len(m) + 1
  BY <1>1, ConcatIs
<1> HIDE DEF u
<1>5. v \in Seq(Characters) /\ Len(v) = Len(m) + 1 + Len(d1)
  BY <1>3, <1>4, ConcatIs
<1> HIDE DEF v
<1>6. Follows(p, v) /\ Follows(p + Len(v), t)
  BY <1>2, <1>5, FollowsConcat
<1>7. Follows(p, u) /\ Follows(p + Len(u), d1)
  BY <1>4, <1>6, FollowsConcat DEF v
<1>8. Follows(p, m) /\ Follows(p + Len(m), sp)
  BY <1>1, <1>7, FollowsConcat DEF u
<1>9. memory[p + Len(m) + 1] = "sp"
  BY <1>1, <1>8 DEF Follows
<1>10. p + Len(u) = p + Len(m) + 1 /\ p + Len(v) = p + Len(m) + 1 + Len(d1)
  BY <1>3, <1>4, <1>5
<1> QED
  BY <1>6, <1>7, <1>8, <1>9, <1>10 DEF OnePart

LEMMA BothParts ==
  ASSUME NEW p \in Nat, NEW m \in Seq(Characters), NEW d1 \in Seq(Characters),
         NEW d2 \in Seq(Characters),
         Follows(p, m \o <<"sp">> \o d1 \o (<<"comma">> \o d2))
  PROVE  TwoParts(p, m, d1, d2, p + Len(m) + 1 + Len(d1) + 1 + Len(d2) + 1)
<1> DEFINE comma == <<"comma">>
           t == comma \o d2
           q == p + Len(m) + 1 + Len(d1)
<1>1. comma \in Seq(Characters) /\ Len(comma) = 1 /\ comma[1] = "comma"
  BY DelimitersAre
<1>2. t \in Seq(Characters)
  BY <1>1
<1>3. OnePart(p, m, d1, q + 1) /\ Follows(q, t)
  BY <1>2, FirstPart
<1>4. q \in Nat
  OBVIOUS
<1> HIDE DEF q, comma
<1>5. Follows(q, comma) /\ Follows(q + Len(comma), d2)
  BY <1>1, <1>3, <1>4, FollowsConcat
<1>6. memory[q + 1] = "comma" /\ Follows(q + 1, d2)
  BY <1>1, <1>5 DEF Follows
<1> QED
  BY <1>3, <1>6 DEF TwoParts, q

\* the statement s in the memory after p, up to its end e
Parts(p, s, e) ==
    LET m == DefinitionOf(s).mnemonic
        n == Len(s.operands)
        d1 == Digits[s.operands[1]]
        d2 == Digits[s.operands[2]]
    IN  /\ n = 1 => OnePart(p, m, d1, e)
        /\ n = 2 => TwoParts(p, m, d1, d2, e)

\* nothing more at the end, and the length of the parts
HasLength(p, m, b, d, t) ==
    /\ m \o b \o d \o t \o << >> = m \o b \o d \o t
    /\ p + Len(m \o b \o d \o t) + 1 = p + Len(m) + 1 + Len(d) + Len(t) + 1

LEMMA OneLength ==
  ASSUME NEW m \in Seq(Characters), NEW b \in Seq(Characters), Len(b) = 1,
         NEW d \in Seq(Characters), NEW t \in Seq(Characters), NEW p \in Nat
  PROVE  HasLength(p, m, b, d, t)
<1> DEFINE u == m \o b
           v == u \o d
           w == v \o t
<1>1. u \in Seq(Characters) /\ Len(u) = Len(m) + 1 /\ Len(m) \in Nat
  BY ConcatIs
<1> HIDE DEF u
<1>2. v \in Seq(Characters) /\ Len(v) = Len(u) + Len(d) /\ Len(d) \in Nat
  BY <1>1, ConcatIs
<1> HIDE DEF v
<1>3. w \in Seq(Characters) /\ Len(w) = Len(v) + Len(t) /\ Len(t) \in Nat
  BY <1>2, ConcatIs
<1> HIDE DEF w
<1>4. w \o << >> = w
  BY <1>3, ConcatIs
<1>5. p + Len(w) + 1 = p + Len(m) + 1 + Len(d) + Len(t) + 1
  BY <1>1, <1>2, <1>3
<1> QED
  BY <1>4, <1>5 DEF HasLength, u, v, w

LEMMA OneText ==
  ASSUME NEW p \in Nat, NEW m \in Seq(Characters), NEW d1 \in Seq(Characters), NEW r,
         r = m \o <<"sp">> \o d1 \o << >> \o << >>, Follows(p, r)
  PROVE  OnePart(p, m, d1, p + Len(r) + 1)
<1> DEFINE t == << >>
           sp == <<"sp">>
<1>1. t \in Seq(Characters) /\ Len(t) = 0 /\ sp \in Seq(Characters) /\ Len(sp) = 1
  BY DelimitersAre
<1>2. r = m \o sp \o d1 \o t \o << >>
  OBVIOUS
<1> HIDE DEF t, sp
<1>3. r = m \o sp \o d1 \o t /\ p + Len(r) + 1 = p + Len(m) + 1 + Len(d1) + Len(t) + 1
  <2>1. HasLength(p, m, sp, d1, t)
    BY <1>1, OneLength
  <2> QED
    BY <1>2, <2>1, Zenon DEF HasLength
<1>4. OnePart(p, m, d1, p + Len(m) + 1 + Len(d1) + 1)
  BY <1>1, <1>3, FirstPart DEF sp
<1>5. Len(m) \in Nat /\ Len(d1) \in Nat
  BY ConcatIs
<1>6. p + Len(r) + 1 = p + Len(m) + 1 + Len(d1) + 1
  BY <1>1, <1>3, <1>5
<1> QED
  BY <1>4, <1>6

LEMMA TwoTexts ==
  ASSUME NEW p \in Nat, NEW m \in Seq(Characters), NEW d1 \in Seq(Characters),
         NEW d2 \in Seq(Characters), NEW r,
         r = m \o <<"sp">> \o d1 \o (<<"comma">> \o d2) \o << >>, Follows(p, r)
  PROVE  TwoParts(p, m, d1, d2, p + Len(r) + 1)
<1> DEFINE comma == <<"comma">>
           sp == <<"sp">>
           t == comma \o d2
<1>1. comma \in Seq(Characters) /\ Len(comma) = 1 /\ sp \in Seq(Characters) /\ Len(sp) = 1
  BY DelimitersAre
<1>2. r = m \o sp \o d1 \o t \o << >>
  OBVIOUS
<1> HIDE DEF sp, comma
<1>3. t \in Seq(Characters) /\ Len(t) = 1 + Len(d2) /\ Len(d2) \in Nat
  BY <1>1, ConcatIs
<1> HIDE DEF t
<1>4. r = m \o sp \o d1 \o t /\ p + Len(r) + 1 = p + Len(m) + 1 + Len(d1) + Len(t) + 1
  <2>1. HasLength(p, m, sp, d1, t)
    BY <1>1, <1>3, OneLength
  <2> QED
    BY <1>2, <2>1, Zenon DEF HasLength
<1>5. TwoParts(p, m, d1, d2, p + Len(m) + 1 + Len(d1) + 1 + Len(d2) + 1)
  BY <1>4, BothParts DEF t, sp, comma
<1>6. Len(m) \in Nat /\ Len(d1) \in Nat
  BY ConcatIs
<1>7. p + Len(r) + 1 = p + Len(m) + 1 + Len(d1) + 1 + Len(d2) + 1
  BY <1>3, <1>4, <1>6
<1> QED
  BY <1>5, <1>7

LEMMA StrictParts ==
  ASSUME NEW s \in Statements, NEW p \in Nat, Follows(p, Render(s, "strict"))
  PROVE  Parts(p, s, p + Len(Render(s, "strict")) + 1)
<1> DEFINE m == DefinitionOf(s).mnemonic
           n == Len(s.operands)
           d1 == Digits[s.operands[1]]
           d2 == Digits[s.operands[2]]
           r == Render(s, "strict")
           S == Seq(Characters)
<1>1. n \in {1, 2} /\ m \in Seq(Letters)
  BY DefinitionOfIs
<1>2. m \in S
  BY <1>1, LettersAre, SeqMonotonic
<1>3. \A k \in 1 .. n : Digits[s.operands[k]] \in S
  BY StatementOperands DEF Denotes
<1>4. Follows(p, r)
  OBVIOUS
<1>5. CASE n = 1
  <2>1. r = m \o <<"sp">> \o d1 \o << >> \o << >>
    <3>1. Len(s.operands) = 1
      BY <1>5
    <3> HIDE DEF n
    <3> QED
      BY <3>1 DEF Render
  <2>2. d1 \in S
    <3>1. 1 \in 1 .. n
      BY <1>5
    <3> HIDE DEF n
    <3> QED
      BY <1>3, <3>1
  <2>3. OnePart(p, m, d1, p + Len(r) + 1)
    <3> HIDE DEF m, d1, r
    <3> QED
      BY <1>2, <1>4, <2>1, <2>2, OneText
  <2> QED
    BY <1>5, <2>3 DEF Parts
<1>6. CASE n = 2
  <2>1. r = m \o <<"sp">> \o d1 \o (<<"comma">> \o d2) \o << >>
    <3>1. ~(Len(s.operands) = 1)
      BY <1>6
    <3> HIDE DEF n
    <3> QED
      BY <3>1 DEF Render
  <2>2. d1 \in S /\ d2 \in S
    <3>1. 1 \in 1 .. n /\ 2 \in 1 .. n
      BY <1>6
    <3> HIDE DEF n
    <3> QED
      BY <1>3, <3>1
  <2>3. TwoParts(p, m, d1, d2, p + Len(r) + 1)
    <3> HIDE DEF m, d1, d2, r
    <3> QED
      BY <1>2, <1>4, <2>1, <2>2, TwoTexts
  <2> QED
    BY <1>6, <2>3 DEF Parts
<1> QED
  BY <1>1, <1>5, <1>6

\* A mnemonic before a blank is found as the opcode.
LEMMA OpcodeText ==
  ASSUME InMemory, NEW p \in Nat, pos = p + 1, NEW m \in Seq(Letters), Len(m) >= 1,
         Follows(p, m), p + Len(m) + 1 \in 1 .. Len(memory), memory[p + Len(m) + 1] = "sp"
  PROVE  /\ OpcodeEnd = p + Len(m) + 1
         /\ SubSeq(memory, pos, OpcodeEnd - 1) = m
         /\ memory[pos] # "nul"
<1> DEFINE n == Len(m)
           j == p + n + 1
           stops == {"sp"}
<1>0. Len(memory) \in Nat /\ n \in Nat /\ n >= 1 /\ m \in Seq(Characters)
  BY LettersAre, SeqMonotonic DEF InMemory
<1>1. \A x \in 1 .. n : memory[p + x] \in Letters
  BY ElementOfSeq DEF Follows
<1>2. j \in 1 .. Len(memory) /\ memory[j] = "sp"
  OBVIOUS
<1> HIDE DEF n
<1>3. j \in p + 1 .. Len(memory) /\ p + 1 \in 1 .. Len(memory)
  BY <1>0, <1>2
<1>4. StopsAt(stops, p + 1, j)
  <2>1. ASSUME NEW k \in p + 1 .. j - 1 PROVE memory[k] \notin stops \cup {"nul"}
    <3>1. k - p \in 1 .. n /\ p + (k - p) = k
      BY <1>0
    <3>2. memory[p + (k - p)] \in Letters
      BY <1>1, <3>1
    <3> QED
      BY <3>1, <3>2, LettersAre
  <2> QED
    BY <1>2, <2>1 DEF StopsAt
<1> HIDE DEF j, stops
<1>5. ScanTo(stops, p + 1) = j
  BY <1>3, <1>4, ScanStops
<1>6. OpcodeEnd = j
  BY <1>5 DEF OpcodeEnd, stops
<1>7. j - 1 = p + n
  BY <1>0 DEF j
<1>8. SubSeq(memory, p + 1, p + n) = m
  BY <1>0, FollowsSubSeq DEF n
<1>9. SubSeq(memory, pos, j - 1) = m
  BY <1>7, <1>8
<1>10. memory[p + 1] \in Letters
  BY <1>0, <1>1
<1>11. memory[pos] # "nul"
  BY <1>10, LettersAre
<1> QED
  BY <1>6, <1>9, <1>11 DEF j, n

\* what the parser makes of one operand, or of two
ReadsOne(p, m, k1, e) ==
    /\ SubSeq(memory, pos, OpcodeEnd - 1) = m /\ memory[pos] # "nul"
    /\ OperandEnd(1) = e /\ Operand(1) = k1

LEMMA OneRead ==
  ASSUME InMemory, NEW p \in Nat, pos = p + 1, NEW m \in Seq(Letters), Len(m) >= 1,
         NEW k1, NEW d1, Denotes(d1, k1), NEW e \in 1 .. Len(memory), OnePart(p, m, d1, e),
         memory[e] \in {"comma", "eol", "nul"}
  PROVE  ReadsOne(p, m, k1, e)
<1> DEFINE i == p + Len(m) + 1
<1>0. /\ d1 \in Seq(Characters) /\ Len(d1) >= 1 /\ \A x \in 1 .. Len(d1) : d1[x] \in FigureSet
      /\ Stuif(d1, d1[1]) = k1 /\ Len(d1) \in Nat /\ Len(m) \in Nat /\ Len(memory) \in Nat
  BY DEF Denotes, InMemory
<1>1. /\ Follows(p, m) /\ memory[i] = "sp" /\ Follows(i, d1) /\ e = i + Len(d1) + 1
  BY DEF OnePart
<1>2. i \in Nat /\ i >= 1 /\ i \in 1 .. Len(memory)
  BY <1>0, <1>1
<1>3. OpcodeEnd = i /\ SubSeq(memory, pos, OpcodeEnd - 1) = m /\ memory[pos] # "nul"
  BY <1>1, <1>2, OpcodeText
<1> HIDE DEF i
<1>4. /\ EndAfter(i) = e /\ SubSeq(memory, i + 1, e - 1) = d1 /\ memory[i + 1] = d1[1]
  BY <1>0, <1>1, <1>2, OperandText
<1>5. OperandEnd(0) = i /\ OperandEnd(1) = e
  BY <1>3, <1>4 DEF OperandEnd
<1>6. Operand(1) = Stuif(SubSeq(memory, OperandEnd(0) + 1, OperandEnd(1) - 1),
                         memory[OperandEnd(0) + 1])
  BY DEF Operand
<1>7. Operand(1) = k1
  BY <1>0, <1>4, <1>5, <1>6
<1> QED
  BY <1>3, <1>5, <1>7 DEF ReadsOne

LEMMA TwoRead ==
  ASSUME InMemory, NEW p \in Nat, pos = p + 1, NEW m \in Seq(Letters), Len(m) >= 1,
         NEW k1, NEW d1, Denotes(d1, k1), NEW k2, NEW d2, Denotes(d2, k2),
         NEW e \in 1 .. Len(memory), TwoParts(p, m, d1, d2, e),
         memory[e] \in {"eol", "nul"}
  PROVE  /\ ReadsOne(p, m, k1, OperandEnd(1))
         /\ OperandEnd(2) = e /\ Operand(2) = k2
<1> DEFINE i == p + Len(m) + 1 + Len(d1) + 1
<1>0. /\ d2 \in Seq(Characters) /\ Len(d2) >= 1 /\ \A x \in 1 .. Len(d2) : d2[x] \in FigureSet
      /\ Stuif(d2, d2[1]) = k2 /\ Len(d2) \in Nat /\ Len(d1) \in Nat /\ Len(m) \in Nat
      /\ Len(memory) \in Nat
  BY DEF Denotes, InMemory
<1>1. /\ OnePart(p, m, d1, i) /\ memory[i] = "comma" /\ Follows(i, d2) /\ e = i + Len(d2) + 1
  BY DEF TwoParts
<1>2. i \in Nat /\ i >= 1 /\ i \in 1 .. Len(memory)
  BY <1>0, <1>1
<1> HIDE DEF i
<1>3. ReadsOne(p, m, k1, i)
  BY <1>1, <1>2, OneRead
<1>4. OperandEnd(1) = i
  BY <1>3 DEF ReadsOne
<1>5. /\ EndAfter(i) = e /\ SubSeq(memory, i + 1, e - 1) = d2 /\ memory[i + 1] = d2[1]
  BY <1>0, <1>1, <1>2, OperandText
<1>6. OperandEnd(2) = EndAfter(OperandEnd(1))
  BY DEF OperandEnd
<1>7. OperandEnd(2) = e
  BY <1>4, <1>5, <1>6
<1>8. Operand(2) = Stuif(SubSeq(memory, OperandEnd(2 - 1) + 1, OperandEnd(2) - 1),
                         memory[OperandEnd(2 - 1) + 1])
  BY DEF Operand
<1>9. OperandEnd(2 - 1) = i
  <2>1. 2 - 1 = 1
    OBVIOUS
  <2> QED
    BY <1>4, <2>1
<1>10. Operand(2) = k2
  BY <1>0, <1>5, <1>7, <1>8, <1>9
<1> QED
  BY <1>3, <1>4, <1>7, <1>10

\* the parser finds just the statement s, up to e
Reads(s, e) ==
    /\ memory[pos] # "nul"
    /\ \E i \in 1 .. 10 :
          /\ Found = {i} /\ Definitions[i].bytecode = s.bytecode
          /\ Definitions[i].count = Len(s.operands)
    /\ OperandEnd(Len(s.operands)) = e
    /\ \A k \in 1 .. Len(s.operands) : Operand(k) = s.operands[k]

\* A strict statement is read as what it says.
LEMMA StrictLine ==
  ASSUME InMemory, NEW s \in Statements, NEW p \in Nat, pos = p + 1,
         NEW e \in 1 .. Len(memory), Parts(p, s, e), memory[e] \in {"eol", "nul"}
  PROVE  Reads(s, e)
<1> DEFINE n == Len(s.operands)
           m == DefinitionOf(s).mnemonic
           d1 == Digits[s.operands[1]]
           d2 == Digits[s.operands[2]]
<1>1. PICK i \in 1 .. 10 :
         /\ DefinitionOf(s) = Definitions[i] /\ Definitions[i].bytecode = s.bytecode
         /\ Definitions[i].count = n /\ n \in {1, 2}
         /\ Definitions[i].mnemonic \in Seq(Letters) /\ Len(Definitions[i].mnemonic) >= 1
  BY DefinitionOfIs
<1>2. m = Definitions[i].mnemonic /\ m \in Seq(Letters) /\ Len(m) >= 1
  BY <1>1
<1>3. n = 1 => OnePart(p, m, d1, e)
  BY DEF Parts
<1>4. n = 2 => TwoParts(p, m, d1, d2, e)
  BY DEF Parts
<1>5. \A k \in 1 .. n : Denotes(Digits[s.operands[k]], s.operands[k])
  BY StatementOperands
<1>6. ASSUME SubSeq(memory, pos, OpcodeEnd - 1) = m PROVE Found = {i}
  <2>1. Found = {j \in 1 .. 10 : Definitions[j].mnemonic = m}
    BY <1>6, DefinitionsAre DEF Found
  <2> HIDE DEF m
  <2> QED
    BY <1>2, <2>1, MnemonicsDiffer
<1> HIDE DEF n
<1>7. CASE n = 1
  <2>1. Denotes(d1, s.operands[1])
    BY <1>5, <1>7
  <2>2. ReadsOne(p, m, s.operands[1], e)
    <3> HIDE DEF m, d1
    <3> QED
      BY <1>2, <1>3, <1>7, <2>1, OneRead
  <2>3. /\ SubSeq(memory, pos, OpcodeEnd - 1) = m /\ memory[pos] # "nul"
        /\ OperandEnd(n) = e /\ Operand(1) = s.operands[1]
    BY <1>7, <2>2 DEF ReadsOne
  <2>4. ASSUME NEW k \in 1 .. n PROVE Operand(k) = s.operands[k]
    <3>1. k = 1
      BY <1>7
    <3> QED
      BY <2>3, <3>1
  <2>5. Found = {i}
    BY <1>6, <2>3
  <2> HIDE DEF m
  <2> QED
    BY <1>1, <2>3, <2>4, <2>5 DEF Reads, n
<1>8. CASE n = 2
  <2>1. Denotes(d1, s.operands[1]) /\ Denotes(d2, s.operands[2])
    BY <1>5, <1>8
  <2>2. /\ ReadsOne(p, m, s.operands[1], OperandEnd(1))
        /\ OperandEnd(2) = e /\ Operand(2) = s.operands[2]
    <3> HIDE DEF m, d1, d2
    <3> QED
      BY <1>2, <1>4, <1>8, <2>1, TwoRead
  <2>3. /\ SubSeq(memory, pos, OpcodeEnd - 1) = m /\ memory[pos] # "nul"
        /\ Operand(1) = s.operands[1]
    BY <2>2 DEF ReadsOne
  <2>4. ASSUME NEW k \in 1 .. n PROVE Operand(k) = s.operands[k]
    <3>1. k = 1 \/ k = 2
      BY <1>8
    <3> QED
      BY <2>2, <2>3, <3>1
  <2>5. Found = {i}
    BY <1>6, <2>3
  <2>6. OperandEnd(n) = e
    BY <1>8, <2>2
  <2> HIDE DEF m
  <2> QED
    BY <1>1, <2>3, <2>4, <2>5, <2>6 DEF Reads, n
<1> QED
  BY <1>1, <1>7, <1>8

LEMMA LineEndIs ==
  ASSUME meant \in Seq(Statements), NEW blanks \in {0, 1}
  PROVE  /\ LineEnd(blanks, 0) = blanks
         /\ \A k \in 0 .. Len(meant) : LineEnd(blanks, k) \in Nat
         /\ \A k \in 1 .. Len(meant) :
               /\ Len(Render(meant[k], "strict")) \in Nat
               /\ LineEnd(blanks, k) = LineEnd(blanks, k - 1) + Len(Render(meant[k], "strict")) + 1
<1> DEFINE L == Lines(meant, "strict")
<1>1. L \in [0 .. Len(meant) -> Seq(Characters)] /\ L[0] = << >>
  BY LinesAre DEF IsLines
<1>2. ASSUME NEW k \in 1 .. Len(meant)
      PROVE  /\ Len(L[k]) = Len(L[k - 1]) + Len(Render(meant[k], "strict")) + 1
             /\ Len(Render(meant[k], "strict")) \in Nat
  <2>1. LineIn(RenderAll(meant, "strict"), L, meant, "strict", k)
    BY LinesIn
  <2>2. Render(meant[k], "strict") \in Seq(Characters)
    BY RenderTyped, ElementOfSeq
  <2>3. Len(L[k]) = Len(L[k - 1]) + Len(Render(meant[k], "strict")) + 1
    BY <2>1, Zenon DEF LineIn
  <2>4. Len(Render(meant[k], "strict")) \in Nat
    BY <2>2
  <2> QED
    BY <2>3, <2>4, Zenon
<1> HIDE DEF L
<1>3. \A k \in 0 .. Len(meant) : Len(L[k]) \in Nat
  BY <1>1
<1>4. \A k \in 0 .. Len(meant) : LineEnd(blanks, k) = blanks + Len(L[k])
  BY DEF LineEnd, L
<1>5. LineEnd(blanks, 0) = blanks
  BY <1>1, <1>4
<1>6. \A k \in 0 .. Len(meant) : LineEnd(blanks, k) \in Nat
  BY <1>3, <1>4
<1>7. ASSUME NEW k \in 1 .. Len(meant)
      PROVE  LineEnd(blanks, k) = LineEnd(blanks, k - 1) + Len(Render(meant[k], "strict")) + 1
  <2>1. k - 1 \in 0 .. Len(meant) /\ k \in 0 .. Len(meant)
    OBVIOUS
  <2>2. LineEnd(blanks, k) = blanks + Len(L[k]) /\ LineEnd(blanks, k - 1) = blanks + Len(L[k - 1])
    BY <1>4, <2>1
  <2>3. Len(L[k]) \in Nat /\ Len(L[k - 1]) \in Nat
    BY <1>3, <2>1
  <2> DEFINE a == Len(L[k])
             b == Len(L[k - 1])
             c == Len(Render(meant[k], "strict"))
  <2>4. a = b + c + 1 /\ a \in Nat /\ b \in Nat /\ c \in Nat
    BY <1>2, <2>3
  <2>5. LineEnd(blanks, k) = blanks + a /\ LineEnd(blanks, k - 1) = blanks + b
    BY <2>2
  <2> HIDE DEF a, b, c
  <2>6. LineEnd(blanks, k) = LineEnd(blanks, k - 1) + c + 1
    BY <2>4, <2>5
  <2> QED
    BY <2>6 DEF c
<1> QED
  BY <1>2, <1>5, <1>6, <1>7

\* the next statement is read, and pos moves to the one after it or to the end
Moves(blanks, k) ==
    /\ Reads(meant[k + 1], LineEnd(blanks, k + 1))
    /\ LineEnd(blanks, k + 1) \in 1 .. Len(memory)
    /\ Advance(LineEnd(blanks, k + 1)) = IF k + 1 = Len(meant) THEN end
                                         ELSE LineEnd(blanks, k + 1) + 1

\* While a strict program is parsed, the next statement is read, or none is left.
LEMMA StrictProgress ==
  ASSUME InMemory, meant \in Seq(Statements), NEW blanks \in {0, 1}, StrictText(blanks),
         NEW k \in 0 .. Len(meant), ParsedTo(blanks, k)
  PROVE  /\ pos <= end
         /\ k = Len(meant) => memory[pos] = "nul"
         /\ k # Len(meant) => Moves(blanks, k)
<1> DEFINE N == Len(meant)
           E(j) == LineEnd(blanks, j)
           r(j) == Render(meant[j], "strict")
<1>0. N \in Nat /\ Len(memory) \in Nat /\ end \in 1 .. Len(memory)
  BY DEF InMemory, StrictText
<1>1. /\ \A j \in 0 .. N : E(j) \in Nat
      /\ \A j \in 1 .. N : Len(r(j)) \in Nat /\ E(j) = E(j - 1) + Len(r(j)) + 1
  BY LineEndIs
<1>2. /\ memory[end] = "nul" /\ end \in {E(N), E(N) + 1}
      /\ \A j \in 1 .. N : /\ Follows(E(j - 1), r(j)) /\ E(j) \in 1 .. end
                           /\ memory[E(j)] = IF E(j) = end THEN "nul" ELSE "eol"
  BY DEF StrictText
<1>3. pos = IF k = N THEN end ELSE E(k) + 1
  BY DEF ParsedTo
<1>4. CASE k = N
  BY <1>0, <1>2, <1>3, <1>4
<1>5. CASE k # N
  <2> DEFINE j == k + 1
             s == meant[j]
             e == E(j)
             p == E(k)
  <2>1. j \in 1 .. N /\ j - 1 = k /\ k \in 0 .. N
    BY <1>0, <1>5
  <2>2. s \in Statements
    BY <2>1, ElementOfSeq
  <2>3. p \in Nat /\ Len(r(j)) \in Nat /\ e = p + Len(r(j)) + 1 /\ e \in Nat
    <3> HIDE DEF E, r, N
    <3> QED
      BY <1>1, <2>1
  <2>4. Follows(p, r(j)) /\ e \in 1 .. end /\ memory[e] = IF e = end THEN "nul" ELSE "eol"
    <3> HIDE DEF E, r, N
    <3> QED
      BY <1>2, <2>1
  <2>5. pos = p + 1
    BY <1>3, <1>5
  <2>6. e \in 1 .. Len(memory) /\ memory[e] \in {"eol", "nul"}
    <3> HIDE DEF e
    <3> QED
      BY <1>0, <2>4
  <2>7. Parts(p, s, e)
    <3>1. Parts(p, s, p + Len(r(j)) + 1)
      <4> HIDE DEF E
      <4> QED
        BY <2>2, <2>3, <2>4, StrictParts
    <3> HIDE DEF e, p, r, s
    <3> QED
      BY <2>3, <3>1
  <2>8. Reads(s, e)
    <3> HIDE DEF e, p, s
    <3> QED
      BY <2>2, <2>3, <2>5, <2>6, <2>7, StrictLine
  <2>9. pos <= end
    <3> HIDE DEF e, p, r
    <3> QED
      BY <1>0, <2>3, <2>4, <2>5
  <2>10. Advance(e) = IF j = N THEN end ELSE e + 1
    <3>1. CASE e = end
      <4>1. Advance(e) = end
        <5> HIDE DEF e
        <5> QED
          BY <2>4, <3>1 DEF Advance
      <4>2. j = N
        <5>1. SUFFICES ASSUME j # N PROVE FALSE
          OBVIOUS
        <5>2. j + 1 \in 1 .. N /\ (j + 1) - 1 = j
          BY <1>0, <2>1, <5>1
        <5>3. E(j + 1) = E((j + 1) - 1) + Len(r(j + 1)) + 1 /\ E(j + 1) \in 1 .. end /\ Len(r(j + 1)) \in Nat
          <6> HIDE DEF E, r, N, j
          <6> QED
            BY <1>1, <1>2, <5>2
        <5>4. E(j + 1) = e + Len(r(j + 1)) + 1
          <6> HIDE DEF E, r
          <6> QED
            BY <5>2, <5>3
        <5> HIDE DEF e, r, E
        <5> QED
          BY <1>0, <2>3, <3>1, <5>3, <5>4, SMTT(20)
      <4> HIDE DEF e
      <4> QED
        BY <4>1, <4>2
    <3>2. CASE e # end
      <4>1. Advance(e) = e + 1
        <5> HIDE DEF e
        <5> QED
          BY <2>4, <3>2 DEF Advance
      <4>2. j = N => end = e + 1
        <5>1. ASSUME j = N PROVE end \in {e, e + 1}
          <6> HIDE DEF E, N
          <6> QED
            BY <1>2, <5>1
        <5> HIDE DEF e
        <5> QED
          BY <3>2, <5>1
      <4> HIDE DEF e
      <4> QED
        BY <4>1, <4>2
    <3> QED
      BY <3>1, <3>2
  <2>11. Moves(blanks, k)
    BY <2>6, <2>8, <2>10 DEF Moves
  <2> QED
    BY <1>5, <2>9, <2>11
<1> QED
  BY <1>4, <1>5

\* a strict program as it was sent, with so many blanks before it
StrictStart(blanks) ==
    LET text == RenderAll(meant, "strict")
    IN  /\ end \in 1 .. Len(memory) /\ memory[end] = "nul" /\ end > blanks
        /\ end \in {blanks + Len(text), blanks + Len(text) + 1}
        /\ \A i \in 1 .. Len(text) : blanks + i # end => memory[blanks + i] = text[i]
        /\ \A i \in 1 .. blanks : memory[i] = "sp"
        /\ pos = SkipBlanks(memory)

LEMMA StartText ==
  ASSUME InMemory, meant \in Seq(Statements), NEW blanks \in {0, 1}, StrictStart(blanks)
  PROVE  StrictText(blanks)
<1> DEFINE N == Len(meant)
           text == RenderAll(meant, "strict")
           L == Lines(meant, "strict")
           E(k) == LineEnd(blanks, k)
           r(k) == Render(meant[k], "strict")
<1>0. N \in Nat /\ Len(memory) \in Nat
  BY DEF InMemory
<1>1. /\ end \in 1 .. Len(memory) /\ memory[end] = "nul"
      /\ end \in {blanks + Len(text), blanks + Len(text) + 1}
      /\ \A i \in 1 .. Len(text) : blanks + i # end => memory[blanks + i] = text[i]
  BY DEF StrictStart
<1>2. text = L[N] /\ L \in [0 .. N -> Seq(Characters)]
  BY LinesAre DEF RenderAll, IsLines
<1>3. \A k \in 0 .. N : E(k) = blanks + Len(L[k])
  BY DEF LineEnd
<1>4. Len(text) \in Nat /\ \A k \in 0 .. N : Len(L[k]) \in Nat
  <2> HIDE DEF L, text
  <2> QED
    BY <1>0, <1>2
<1>5. end \in {E(N), E(N) + 1}
  <2>1. N \in 0 .. N
    BY <1>0
  <2>2. E(N) = blanks + Len(L[N])
    BY <1>3, <2>1
  <2> HIDE DEF E, L, text, N
  <2> QED
    BY <1>1, <1>2, <2>2
<1>6. ASSUME NEW k \in 1 .. N
      PROVE  /\ Follows(E(k - 1), r(k)) /\ E(k) \in 1 .. end
             /\ memory[E(k)] = IF E(k) = end THEN "nul" ELSE "eol"
  <2> DEFINE a == Len(L[k - 1])
             b == Len(L[k])
             R == r(k)
             c == Len(R)
  <2>0. k \in 0 .. N /\ k - 1 \in 0 .. N
    BY <1>0
  <2>1. LineIn(text, L, meant, "strict", k)
    BY LinesIn
  <2>2. R \in Seq(Characters)
    BY RenderTyped, ElementOfSeq
  <2>3. /\ b = a + c + 1 /\ b <= Len(text) /\ text[b] = "eol"
        /\ \A j \in 1 .. c : text[a + j] = R[j]
    BY <2>1, Zenon DEF LineIn
  <2>4. a \in Nat /\ b \in Nat /\ E(k - 1) = blanks + a /\ E(k) = blanks + b
    <3> HIDE DEF E, L, N
    <3> QED
      BY <1>3, <1>4, <2>0
  <2> HIDE DEF R
  <2>5. c \in Nat
    BY <2>2
  <2> HIDE DEF a, b, c, text
  <2>6. ASSUME NEW j \in 1 .. c
        PROVE  (blanks + a) + j \in 1 .. Len(memory) /\ memory[(blanks + a) + j] = R[j]
    <3>1. a + j \in 1 .. Len(text) /\ blanks + (a + j) # end /\ (blanks + a) + j = blanks + (a + j)
      BY <1>1, <1>4, <2>3, <2>4, <2>5
    <3>2. memory[blanks + (a + j)] = text[a + j] /\ text[a + j] = R[j]
      BY <1>1, <2>3, <3>1
    <3>3. blanks + (a + j) \in 1 .. Len(memory)
      BY <1>0, <1>1, <1>4, <2>3, <2>4, <2>5, SMTT(20)
    <3> QED
      BY <3>1, <3>2, <3>3
  <2>7. Follows(blanks + a, R)
    BY <2>6 DEF Follows, c
  <2>8. blanks + b \in 1 .. end
    BY <1>0, <1>1, <1>4, <2>3, <2>4, <2>5
  <2>9. memory[blanks + b] = IF blanks + b = end THEN "nul" ELSE "eol"
    <3>1. b \in 1 .. Len(text)
      BY <1>4, <2>3, <2>4, <2>5
    <3> QED
      BY <1>1, <2>3, <3>1
  <2> QED
    BY <2>4, <2>7, <2>8, <2>9 DEF R
<1> QED
  BY <1>1, <1>5, <1>6 DEF StrictText

LEMMA StartPos ==
  ASSUME InMemory, meant \in Seq(Statements), NEW blanks \in {0, 1}, StrictStart(blanks)
  PROVE  pos = blanks + 1 /\ (meant = << >> => end = blanks + 1)
<1> DEFINE N == Len(meant)
<1>0. N \in Nat /\ Len(memory) \in Nat /\ DOMAIN memory = 1 .. Len(memory)
  BY DEF InMemory
<1>1. /\ end \in 1 .. Len(memory) /\ memory[end] = "nul" /\ end > blanks
      /\ \A i \in 1 .. blanks : memory[i] = "sp"
      /\ pos = SkipBlanks(memory)
  BY DEF StrictStart
<1>2. StrictText(blanks) /\ LineEnd(blanks, 0) = blanks
  BY StartText, LineEndIs
<1>3. end \in {LineEnd(blanks, N), LineEnd(blanks, N) + 1}
  BY <1>2 DEF StrictText
<1>4. blanks + 1 \in 1 .. Len(memory) /\ memory[blanks + 1] \notin {"sp", "tab"}
  <2>1. CASE N = 0
    <3>1. end = blanks + 1
      BY <1>1, <1>2, <1>3, <2>1
    <3> QED
      BY <1>1, <3>1
  <2>2. CASE N # 0
    <3> DEFINE s == meant[1]
               m == DefinitionOf(s).mnemonic
    <3>1. 1 \in 1 .. N /\ s \in Statements
      BY <1>0, <2>2, ElementOfSeq
    <3>2. Follows(LineEnd(blanks, 1 - 1), Render(s, "strict"))
      BY <1>2, <3>1 DEF StrictText
    <3>3. Follows(blanks, Render(s, "strict"))
      <4>1. 1 - 1 = 0
        OBVIOUS
      <4> QED
        BY <1>2, <3>2, <4>1
    <3>4. Parts(blanks, s, blanks + Len(Render(s, "strict")) + 1)
      <4> HIDE DEF s
      <4> QED
        BY <3>1, <3>3, StrictParts
    <3>5. m \in Seq(Letters) /\ Len(m) >= 1 /\ Len(s.operands) \in {1, 2}
      <4> HIDE DEF s
      <4> QED
        BY <3>1, DefinitionOfIs
    <3>6. Follows(blanks, m)
      BY <3>4, <3>5 DEF Parts, OnePart, TwoParts
    <3>7. 1 \in 1 .. Len(m) /\ m[1] \in Letters
      BY <3>5, ElementOfSeq
    <3>8. blanks + 1 \in 1 .. Len(memory) /\ memory[blanks + 1] = m[1]
      BY <3>6, <3>7 DEF Follows
    <3> QED
      BY <3>7, <3>8, LettersAre
  <2> QED
    BY <2>1, <2>2
<1>5. \A j \in 1 .. (blanks + 1) - 1 : memory[j] \in {"sp", "tab"}
  BY <1>1
<1>6. SkipBlanks(memory) = blanks + 1
  BY <1>0, <1>4, <1>5, SkipBlanksIs
<1>7. ASSUME meant = << >> PROVE end = blanks + 1
  BY <1>1, <1>2, <1>3, <1>7
<1> QED
  BY <1>1, <1>6, <1>7

\* a strict program has just been sent
StrictSent ==
    /\ InMemory /\ meant \in Seq(Statements) /\ list = << >>
    /\ \E blanks \in {0, 1} : StrictStart(blanks)

StrictParsing ==
    \E blanks \in {0, 1} :
        StrictText(blanks) /\ \E k \in 0 .. Len(meant) : ParsedTo(blanks, k)

LEMMA StrictStarts == StrictSent => StrictParsing
<1> SUFFICES ASSUME StrictSent PROVE StrictParsing
  OBVIOUS
<1>1. PICK blanks \in {0, 1} : StrictStart(blanks)
  BY DEF StrictSent
<1>2. InMemory /\ meant \in Seq(Statements) /\ list = << >>
  BY DEF StrictSent
<1>3. StrictText(blanks)
  BY <1>1, <1>2, StartText
<1>4. pos = blanks + 1 /\ (meant = << >> => end = blanks + 1)
  BY <1>1, <1>2, StartPos
<1>5. 0 \in 0 .. Len(meant) /\ LineEnd(blanks, 0) = blanks /\ (Len(meant) = 0 => meant = << >>)
  BY <1>2, LineEndIs
<1>6. SubSeq(meant, 1, 0) = << >>
  BY <1>2
<1>7. ParsedTo(blanks, 0)
  BY <1>2, <1>4, <1>5, <1>6 DEF ParsedTo
<1> QED
  BY <1>3, <1>5, <1>7 DEF StrictParsing

-----------------------------------------------------------------------------
(* Requests.                                                                 *)

\* u is s and t, one after the other
Joins(u, s, t) ==
    /\ u \in Seq(Characters) /\ Len(u) = Len(s) + Len(t) /\ Len(s) \in Nat /\ Len(t) \in Nat
    /\ \A i \in 1 .. Len(s) : u[i] = s[i]
    /\ \A i \in 1 .. Len(t) : u[Len(s) + i] = t[i]

LEMMA ConcatJoins ==
  ASSUME NEW s \in Seq(Characters), NEW t \in Seq(Characters)
  PROVE  Joins(s \o t, s, t)
  BY DEF Joins

\* mem holds text, a nul and some more up to another nul
HoldsText(mem, text) ==
    /\ mem \in Seq(Characters) /\ Len(mem) \in Nat /\ Len(text) \in Nat
    /\ Len(text) + 1 < Len(mem) /\ mem[Len(mem)] = "nul"
    /\ \A i \in 1 .. Len(text) : mem[i] = text[i]
    /\ mem[Len(text) + 1] = "nul"

LEMMA MemoryIs ==
  ASSUME NEW text \in Seq(Characters), NEW tail \in Seq(Characters)
  PROVE  HoldsText(text \o <<"nul">> \o tail \o <<"nul">>, text)
<1> DEFINE nul == <<"nul">>
           u == text \o nul
           v == u \o tail
           mem == v \o nul
<1>1. nul \in Seq(Characters) /\ Len(nul) = 1 /\ nul[1] = "nul"
  BY DelimitersAre
<1> HIDE DEF nul
<1>2. Joins(u, text, nul)
  BY <1>1, ConcatJoins
<1>3. u \in Seq(Characters)
  BY <1>2 DEF Joins
<1> HIDE DEF u
<1>4. Joins(v, u, tail)
  BY <1>3, ConcatJoins
<1>5. v \in Seq(Characters)
  BY <1>4 DEF Joins
<1> HIDE DEF v
<1>6. Joins(mem, v, nul)
  BY <1>1, <1>5, ConcatJoins
<1> HIDE DEF mem
<1>7. /\ Len(text) \in Nat /\ Len(tail) \in Nat /\ Len(u) = Len(text) + 1
      /\ Len(v) = Len(u) + Len(tail) /\ Len(mem) = Len(v) + 1 /\ mem \in Seq(Characters)
  BY <1>1, <1>2, <1>4, <1>6 DEF Joins
<1>8. mem[Len(mem)] = "nul"
  <2>1. mem[Len(v) + 1] = nul[1]
    BY <1>1, <1>6 DEF Joins
  <2> QED
    BY <1>1, <1>7, <2>1
<1>9. ASSUME NEW i \in 1 .. Len(u) PROVE mem[i] = u[i]
  <2>1. i \in 1 .. Len(v)
    BY <1>7
  <2>2. mem[i] = v[i]
    BY <1>6, <2>1 DEF Joins
  <2>3. v[i] = u[i]
    BY <1>4 DEF Joins
  <2> QED
    BY <2>2, <2>3
<1>10. ASSUME NEW i \in 1 .. Len(text) PROVE mem[i] = text[i]
  <2>1. i \in 1 .. Len(u)
    BY <1>7
  <2>2. u[i] = text[i]
    BY <1>2 DEF Joins
  <2> QED
    BY <1>9, <2>1, <2>2
<1>11. mem[Len(text) + 1] = "nul"
  <2>1. Len(text) + 1 \in 1 .. Len(u)
    BY <1>7
  <2>2. u[Len(text) + 1] = nul[1]
    BY <1>1, <1>2 DEF Joins
  <2> QED
    BY <1>1, <1>9, <2>1, <2>2
<1>12. HoldsText(mem, text)
  BY <1>7, <1>8, <1>10, <1>11 DEF HoldsText
<1> QED
  BY <1>12 DEF mem, v, u, nul

\* what a request with this text leaves behind
Accepted(text) ==
    /\ end' = Len(text) + 1 /\ end' \in 1 .. Len(memory') /\ memory'[end'] = "nul"
    /\ \A i \in 1 .. Len(text) : memory'[i] = text[i]
    /\ pos' = SkipBlanks(memory')
    /\ step = "idle" /\ step' = "parsing"
    /\ UNCHANGED <<list, program, next, result, measured>>

LEMMA AcceptIs ==
  ASSUME NEW text \in Seq(Characters), Accept(text)
  PROVE  InMemory' /\ Accepted(text)
<1>1. PICK tail \in Tails : memory' = text \o <<"nul">> \o tail \o <<"nul">>
  BY DEF Accept
<1>2. tail \in Seq(Characters)
  BY <1>1, TextAssumption
<1>3. /\ memory' \in Seq(Characters) /\ Len(memory') \in Nat /\ Len(text) \in Nat
      /\ Len(text) + 1 < Len(memory') /\ memory'[Len(memory')] = "nul"
      /\ \A i \in 1 .. Len(text) : memory'[i] = text[i]
      /\ memory'[Len(text) + 1] = "nul"
  <2>1. HoldsText(memory', text)
    BY <1>1, <1>2, MemoryIs
  <2> QED
    BY <2>1 DEF HoldsText
<1>4. /\ end' = Len(text) + 1 /\ pos' = SkipBlanks(memory')
      /\ step = "idle" /\ step' = "parsing"
      /\ UNCHANGED <<list, program, next, result, measured>>
  BY DEF Accept
<1>5. DOMAIN (memory') = 1 .. Len(memory') /\ Len(memory') >= 1 /\ memory' # << >>
  BY <1>3
<1>6. pos' \in 1 .. Len(memory')
  <2>1. Len(memory') \in 1 .. Len(memory')
    BY <1>3, <1>5
  <2> QED
    BY <1>3, <1>4, <1>5, <2>1, SkipBlanksTyped
<1>7. end' \in 1 .. Len(memory')
  BY <1>3, <1>4
<1> QED
  BY <1>3, <1>4, <1>5, <1>6, <1>7 DEF InMemory, Accepted

LEMMA FrontIs ==
  ASSUME NEW S, NEW s \in Seq(S), s # << >>
  PROVE  /\ Front(s) \in Seq(S) /\ Len(Front(s)) = Len(s) - 1 /\ Len(s) \in Nat /\ Len(s) >= 1
         /\ \A i \in 1 .. Len(s) - 1 : Front(s)[i] = s[i]
<1>1. Len(s) \in Nat /\ Len(s) >= 1
  BY EmptySeq
<1>2. Front(s) = SubSeq(s, 1, Len(s) - 1)
  BY DEF Front
<1>3. \A i \in 1 .. Len(s) - 1 : s[i] \in S
  BY <1>1, ElementOfSeq
<1> DEFINE n == Len(s) - 1
           t == SubSeq(s, 1, n)
<1>4. n \in Nat /\ \A i \in 1 .. n : s[i] \in S
  BY <1>1, <1>3
<1> HIDE DEF n
<1>5. /\ t \in Seq(S) /\ Len(t) = IF 1 <= n THEN n - 1 + 1 ELSE 0
      /\ \A i \in 1 .. n - 1 + 1 : t[i] = s[1 + i - 1]
  BY <1>4, SubSeqProperties
<1> HIDE DEF t
<1>6. t \in Seq(S) /\ Len(t) = n /\ \A i \in 1 .. n : t[i] = s[i]
  BY <1>4, <1>5
<1> QED
  BY <1>1, <1>2, <1>6 DEF n, t

LEMMA SeqOfIs ==
  ASSUME NEW S, NEW n, NEW s \in SeqOf(S, n)
  PROVE  s \in Seq(S)
<1>1. PICK m \in 0 .. n : s \in [1 .. m -> S]
  BY DEF SeqOf
<1> QED
  BY <1>1

LEMMA RenderAllTyped ==
  ASSUME NEW ss \in Seq(Statements), NEW how
  PROVE  RenderAll(ss, how) \in Seq(Characters)
<1>1. IsLines(Lines(ss, how), ss, how)
  BY LinesAre
<1>2. Lines(ss, how) \in [0 .. Len(ss) -> Seq(Characters)]
  BY <1>1 DEF IsLines
<1>3. Len(ss) \in 0 .. Len(ss)
  OBVIOUS
<1> QED
  BY <1>2, <1>3 DEF RenderAll

\* the text behind some blanks, perhaps without its last character
LEMMA StartOfText ==
  ASSUME NEW blanks \in {0, 1}, NEW text \in Seq(Characters), NEW sent \in Seq(Characters),
         text = RenderAll(meant', "strict"), Accepted(sent),
         Len(sent) \in {blanks + Len(text), blanks + Len(text) - 1}, Len(sent) >= blanks,
         \A i \in 1 .. Len(text) : blanks + i <= Len(sent) => sent[blanks + i] = text[i],
         \A i \in 1 .. blanks : sent[i] = "sp"
  PROVE  StrictStart(blanks)'
<1>0. Len(text) \in Nat /\ Len(sent) \in Nat
  OBVIOUS
<1>1. /\ end' = Len(sent) + 1 /\ end' \in 1 .. Len(memory') /\ memory'[end'] = "nul"
      /\ \A i \in 1 .. Len(sent) : memory'[i] = sent[i]
      /\ pos' = SkipBlanks(memory')
  BY DEF Accepted
<1>2. end' > blanks /\ end' \in {blanks + Len(text), blanks + Len(text) + 1}
  BY <1>0, <1>1
<1>3. ASSUME NEW i \in 1 .. Len(text), blanks + i # end' PROVE memory'[blanks + i] = text[i]
  <2>1. blanks + i <= Len(sent) /\ blanks + i \in 1 .. Len(sent)
    BY <1>0, <1>1, <1>2, <1>3
  <2> QED
    BY <1>1, <2>1
<1>4. ASSUME NEW i \in 1 .. blanks PROVE memory'[i] = "sp"
  <2>1. i \in 1 .. Len(sent)
    BY <1>0
  <2> QED
    BY <1>1, <2>1
<1> QED
  BY <1>1, <1>2, <1>3, <1>4 DEF StrictStart

LEMMA SubmitProgramText ==
  ASSUME SubmitProgram
  PROVE  /\ InMemory' /\ step' = "parsing" /\ step = "idle"
         /\ end' \in 1 .. Len(memory') /\ memory'[end'] = "nul" /\ pos' = SkipBlanks(memory')
         /\ UNCHANGED <<list, program, next, result, measured>>
         /\ style' = "strict" => /\ meant' \in Seq(Statements)
                                 /\ \E blanks \in {0, 1} : StrictStart(blanks)'
<1>1. PICK ss \in SeqOf(Statements, MaxStatements), how \in Styles, indented \in BOOLEAN :
         \E text \in {RenderAll(ss, how)} :
            /\ \/ Accept(IF indented THEN <<"sp">> \o text ELSE text)
               \/ text # << >> /\ Accept(Front(text))
            /\ meant' = ss
            /\ style' = how
  BY DEF SubmitProgram
<1> DEFINE text == RenderAll(ss, how)
<1>2. /\ \/ Accept(IF indented THEN <<"sp">> \o text ELSE text)
         \/ text # << >> /\ Accept(Front(text))
      /\ meant' = ss /\ style' = how
  BY <1>1
<1>3. ss \in Seq(Statements)
  BY SeqOfIs
<1>4. text \in Seq(Characters)
  BY <1>3, RenderAllTyped
<1>5. style' = "strict" => text = RenderAll(meant', "strict") /\ meant' \in Seq(Statements)
  BY <1>2, <1>3
<1> HIDE DEF text
<1>6. CASE text # << >> /\ Accept(Front(text))
  <2> DEFINE sent == Front(text)
  <2>1. /\ sent \in Seq(Characters) /\ Len(sent) = Len(text) - 1 /\ Len(text) \in Nat
        /\ Len(text) >= 1 /\ \A i \in 1 .. Len(text) - 1 : sent[i] = text[i]
    BY <1>4, <1>6, FrontIs
  <2>2. Accept(sent)
    BY <1>6
  <2> HIDE DEF sent
  <2>3. InMemory' /\ Accepted(sent)
    BY <2>1, <2>2, AcceptIs
  <2>4. ASSUME style' = "strict" PROVE StrictStart(0)'
    <3>1. Len(sent) \in {0 + Len(text), 0 + Len(text) - 1} /\ Len(sent) >= 0
      BY <2>1
    <3>2. \A i \in 1 .. Len(text) : 0 + i <= Len(sent) => sent[0 + i] = text[i]
      BY <2>1
    <3>3. text = RenderAll(meant', "strict") /\ \A i \in 1 .. 0 : sent[i] = "sp"
      BY <1>5, <2>4
    <3> QED
      BY <1>4, <2>1, <2>3, <3>1, <3>2, <3>3, StartOfText
  <2> QED
    BY <1>5, <2>3, <2>4 DEF Accepted
<1>7. CASE Accept(text)
  <2>1. InMemory' /\ Accepted(text)
    BY <1>4, <1>7, AcceptIs
  <2>2. ASSUME style' = "strict" PROVE StrictStart(0)'
    <3>1. Len(text) \in {0 + Len(text), 0 + Len(text) - 1} /\ Len(text) >= 0
      BY <1>4
    <3>2. \A i \in 1 .. Len(text) : 0 + i <= Len(text) => text[0 + i] = text[i]
      BY <1>4
    <3>3. text = RenderAll(meant', "strict") /\ \A i \in 1 .. 0 : text[i] = "sp"
      BY <1>5, <2>2
    <3> QED
      BY <1>4, <2>1, <3>1, <3>2, <3>3, StartOfText
  <2> QED
    BY <1>5, <2>1, <2>2 DEF Accepted
<1>8. CASE Accept(<<"sp">> \o text)
  <2> DEFINE sp == <<"sp">>
             sent == sp \o text
  <2>1. sp \in Seq(Characters) /\ Len(sp) = 1 /\ sp[1] = "sp"
    BY DelimitersAre
  <2>2. Accept(sent)
    BY <1>8
  <2> HIDE DEF sp
  <2>3. /\ sent \in Seq(Characters) /\ Len(sent) = 1 + Len(text) /\ Len(text) \in Nat
        /\ sent[1] = "sp" /\ \A i \in 1 .. Len(text) : sent[1 + i] = text[i]
    <3>1. Joins(sent, sp, text)
      BY <1>4, <2>1, ConcatJoins
    <3> HIDE DEF sent
    <3> QED
      BY <2>1, <3>1 DEF Joins
  <2> HIDE DEF sent
  <2>4. InMemory' /\ Accepted(sent)
    BY <2>2, <2>3, AcceptIs
  <2>5. ASSUME style' = "strict" PROVE StrictStart(1)'
    <3>1. Len(sent) \in {1 + Len(text), 1 + Len(text) - 1} /\ Len(sent) >= 1
      BY <2>3
    <3>2. text = RenderAll(meant', "strict") /\ \A i \in 1 .. 1 : sent[i] = "sp"
      BY <1>5, <2>3, <2>5
    <3> QED
      BY <1>4, <2>3, <2>4, <3>1, <3>2, StartOfText
  <2> QED
    BY <1>5, <2>4, <2>5 DEF Accepted
<1> QED
  BY <1>2, <1>6, <1>7, <1>8

-----------------------------------------------------------------------------
(* The invariant, for texts.                                                 *)

\* every operand of the list is a number
ListInv ==
    \A i \in DOMAIN list : \A k \in DOMAIN list[i].operands : list[i].operands[k] \in Operands

LEMMA TypeOKIs ==
  ASSUME step' \in {"idle", "parsing", "compiled", "running", "rejected", "crashed"},
         MemoryInv', LoopInv', ListInv'
  PROVE  TypeOK'
<1>1. pos' \in 1 .. Len(memory') + 1
  BY DEF MemoryInv
<1> QED
  BY <1>1 DEF TypeOK, LoopInv, ListInv

LEMMA TextStart ==
  ASSUME memory = <<"nul">>, end = 1, pos = 1, list = << >>, style = "none", step = "idle", LoopInv
  PROVE  TextInv
<1>1. MemoryInv
  BY DelimitersAre DEF MemoryInv
<1>2. StrictInv /\ StrictIsParsed
  BY DEF StrictInv, StrictIsParsed
<1>3. pos \in 1 .. Len(memory) + 1
  BY <1>1 DEF MemoryInv
<1>4. TypeOK
  BY <1>3 DEF TypeOK, LoopInv
<1> QED
  BY <1>1, <1>2, <1>4 DEF TextInv

\* pos has not left the text
InText == pos <= end

StrictReady == InMemory /\ meant \in Seq(Statements) /\ StrictParsing

LEMMA StrictReadyIn == StrictReady => InText
<1> SUFFICES ASSUME StrictReady PROVE InText
  OBVIOUS
<1>1. PICK blanks \in {0, 1} : StrictText(blanks) /\ \E k \in 0 .. Len(meant) : ParsedTo(blanks, k)
  BY DEF StrictReady, StrictParsing
<1>2. PICK k \in 0 .. Len(meant) : ParsedTo(blanks, k)
  BY <1>1
<1>3. InMemory /\ meant \in Seq(Statements)
  BY DEF StrictReady
<1>4. pos <= end
  BY <1>1, <1>2, <1>3, StrictProgress
<1> QED
  BY <1>4 DEF InText

\* a text has just been sent
Sent ==
    /\ InMemory /\ step = "parsing"
    /\ end \in 1 .. Len(memory) /\ memory[end] = "nul" /\ pos = SkipBlanks(memory)

\* A request with a strict text is one that can be parsed.
LEMMA SubmitText ==
  ASSUME Inv, SubmitProgram \/ SubmitOther, LoopInv'
  PROVE  TextInv' /\ Sent'
<1>1. /\ InMemory' /\ step' = "parsing" /\ step = "idle"
      /\ end' \in 1 .. Len(memory') /\ memory'[end'] = "nul" /\ pos' = SkipBlanks(memory')
      /\ UNCHANGED <<list, program, next, result, measured>>
      /\ style' = "strict" => /\ meant' \in Seq(Statements)
                              /\ \E blanks \in {0, 1} : StrictStart(blanks)'
  <2>1. CASE SubmitProgram
    BY <2>1, SubmitProgramText
  <2>2. CASE SubmitOther
    <3>1. PICK text \in SeqOf(Alphabet, MaxLength) : Accept(text)
      BY <2>2 DEF SubmitOther
    <3>2. text \in Seq(Characters)
      BY <3>1, SeqOfIs, TextAssumption, SeqMonotonic
    <3>3. InMemory' /\ Accepted(text)
      BY <3>1, <3>2, AcceptIs
    <3>4. style' = "none"
      BY <2>2 DEF SubmitOther
    <3> QED
      BY <3>3, <3>4 DEF Accepted
  <2> QED
    BY <2>1, <2>2
<1>2. list' = << >>
  BY <1>1 DEF Inv, TextInv, StrictInv
<1>3. ASSUME style' = "strict" PROVE StrictParsing' /\ meant' \in Seq(Statements) /\ pos' <= end'
  <2>1. StrictSent'
    BY <1>1, <1>2, <1>3 DEF StrictSent
  <2>2. StrictParsing'
    BY <2>1, StrictStarts, PTL
  <2>3. pos' <= end'
    <3>1. StrictReady'
      BY <1>1, <1>3, <2>2 DEF StrictReady
    <3>2. InText'
      BY <3>1, StrictReadyIn, PTL
    <3> QED
      BY <3>2 DEF InText
  <2> QED
    BY <1>1, <1>3, <2>2, <2>3
<1>4. StrictInv' /\ StrictIsParsed'
  BY <1>1, <1>3 DEF StrictInv, StrictIsParsed, AsMeant, Parsed, StrictParsing
<1>5. ListInv'
  BY <1>2 DEF ListInv
<1>6. MemoryInv' /\ Sent'
  BY <1>1 DEF InMemory, MemoryInv, Sent
<1>7. TypeOK'
  BY <1>1, <1>5, <1>6, TypeOKIs
<1> QED
  BY <1>4, <1>6, <1>7 DEF TextInv

\* what a worker that parses a strict program does next
LEMMA StrictNext ==
  ASSUME Inv, style = "strict", step = "parsing"
  PROVE  \E blanks \in {0, 1} : \E k \in 0 .. Len(meant) :
            /\ StrictText(blanks) /\ ParsedTo(blanks, k)
            /\ k = Len(meant) => memory[pos] = "nul"
            /\ k # Len(meant) => Moves(blanks, k)
<1>1. InMemory /\ meant \in Seq(Statements)
  BY DEF Inv, TextInv, StrictInv, MemoryInv, InMemory
<1>2. PICK blanks \in {0, 1} : StrictText(blanks) /\ \E k \in 0 .. Len(meant) : ParsedTo(blanks, k)
  BY DEF Inv, TextInv, StrictInv
<1>3. PICK k \in 0 .. Len(meant) : ParsedTo(blanks, k)
  BY <1>2
<1>4. /\ k = Len(meant) => memory[pos] = "nul"
      /\ k # Len(meant) => Moves(blanks, k)
  BY <1>1, <1>2, <1>3, StrictProgress
<1> QED
  BY <1>2, <1>3, <1>4

\* The parser never stops in a strict program.
LEMMA StrictNotRejected ==
  ASSUME Inv, Reject \/ Overrun
  PROVE  style # "strict"
<1> SUFFICES ASSUME style = "strict" PROVE FALSE
  OBVIOUS
<1>1. step = "parsing" /\ memory[pos] # "nul"
  BY DEF Reject, Overrun
<1>2. PICK blanks \in {0, 1} : \E k \in 0 .. Len(meant) :
            /\ StrictText(blanks) /\ ParsedTo(blanks, k)
            /\ k = Len(meant) => memory[pos] = "nul"
            /\ k # Len(meant) => Moves(blanks, k)
  BY <1>1, StrictNext
<1>3. PICK k \in 0 .. Len(meant) : Moves(blanks, k)
  BY <1>1, <1>2
<1> DEFINE s == meant[k + 1]
           e == LineEnd(blanks, k + 1)
<1>4. Reads(s, e) /\ e \in 1 .. Len(memory)
  BY <1>3 DEF Moves
<1> HIDE DEF s, e
<1>5. PICK i \in 1 .. 10 : Found = {i} /\ Definitions[i].count = Len(s.operands)
  BY <1>4 DEF Reads
<1>6. OperandEnd(Definitions[i].count) = e
  BY <1>4, <1>5 DEF Reads
<1>7. e <= Len(memory) /\ e \in Nat /\ Len(memory) \in Nat
  BY <1>4 DEF Inv, TextInv, MemoryInv
<1>8. CASE Reject
  BY <1>5, <1>8 DEF Reject
<1>9. CASE Overrun
  <2>1. PICK j \in Found : OperandEnd(Definitions[j].count) > Len(memory)
    BY <1>9 DEF Overrun
  <2>2. j = i
    BY <1>5, <2>1
  <2>3. e > Len(memory)
    BY <1>6, <2>1, <2>2
  <2> QED
    BY <1>7, <2>3
<1> QED
  BY <1>8, <1>9

LEMMA CountsAre ==
  ASSUME NEW i \in Found
  PROVE  i \in 1 .. 10 /\ Definitions[i].count \in {1, 2}
<1>1. i \in 1 .. 10
  BY DefinitionsAre DEF Found
<1>2. Definitions[i].count = OperandCounts[Codes[i]]
  BY <1>1, DefinitionsAre DEF IsDefinition
<1>3. Codes[i] \in Bytecodes
  BY <1>1 DEF Codes, Bytecodes
<1> QED
  BY <1>1, <1>2, <1>3, OperandCountsAre

\* One more statement of a strict program is read.
LEMMA StrictStep ==
  ASSUME Inv, ParseInstruction, style = "strict"
  PROVE  StrictParsing'
<1>0. /\ step = "parsing" /\ memory[pos] # "nul" /\ UNCHANGED <<memory, end, meant, style, step>>
  BY DEF ParseInstruction
<1>1. PICK blanks \in {0, 1} : \E k \in 0 .. Len(meant) :
            /\ StrictText(blanks) /\ ParsedTo(blanks, k)
            /\ k = Len(meant) => memory[pos] = "nul"
            /\ k # Len(meant) => Moves(blanks, k)
  BY <1>0, StrictNext
<1>2. PICK k \in 0 .. Len(meant) :
         StrictText(blanks) /\ ParsedTo(blanks, k) /\ k # Len(meant) /\ Moves(blanks, k)
  BY <1>0, <1>1
<1>3. meant \in Seq(Statements)
  BY DEF Inv, TextInv, StrictInv
<1> DEFINE s == meant[k + 1]
           e == LineEnd(blanks, k + 1)
<1>4. k + 1 \in 1 .. Len(meant) /\ k + 1 \in 0 .. Len(meant) /\ s \in Statements
  BY <1>2, <1>3, ElementOfSeq
<1>5. Reads(s, e) /\ Advance(e) = IF k + 1 = Len(meant) THEN end ELSE e + 1
  BY <1>2 DEF Moves
<1>6. PICK i \in Found :
         LET n == Definitions[i].count
             last == OperandEnd(n)
         IN  /\ last <= Len(memory)
             /\ list' = Append(list, [bytecode |-> Definitions[i].bytecode,
                                      operands |-> [x \in 1 .. n |-> Operand(x)]])
             /\ pos' = Advance(last)
  BY DEF ParseInstruction
<1> DEFINE n == Len(s.operands)
           rec == [bytecode |-> Definitions[i].bytecode, operands |-> [x \in 1 .. n |-> Operand(x)]]
<1>7. /\ Definitions[i].bytecode = s.bytecode /\ Definitions[i].count = n /\ OperandEnd(n) = e
      /\ \A x \in 1 .. n : Operand(x) = s.operands[x]
  <2> HIDE DEF s, e
  <2> QED
    BY <1>5, <1>6 DEF Reads
<1>8. rec = s
  <2>1. s \in [bytecode : DOMAIN OperandCounts, operands : Seq(Operands)]
    BY <1>4, StatementsAssumption
  <2> HIDE DEF s
  <2>2. s.operands \in Seq(Operands)
    BY <2>1
  <2>3. s.operands = [x \in 1 .. n |-> s.operands[x]]
    BY <2>2
  <2>4. [x \in 1 .. n |-> Operand(x)] = s.operands
    BY <1>7, <2>3
  <2>5. s = [bytecode |-> s.bytecode, operands |-> s.operands]
    BY <2>1
  <2> QED
    BY <1>7, <2>4, <2>5
<1>9. list' = Append(list, s) /\ pos' = Advance(e)
  <2>1. list' = Append(list, rec) /\ pos' = Advance(e)
    <3> HIDE DEF s, e
    <3> QED
      BY <1>6, <1>7
  <2> QED
    BY <1>8, <2>1
<1>10. list' = SubSeq(meant, 1, k + 1)
  <2>1. list = SubSeq(meant, 1, k)
    BY <1>2 DEF ParsedTo
  <2>2. Append(SubSeq(meant, 1, k), meant[k + 1]) = SubSeq(meant, 1, k + 1)
    BY <1>3, <1>4
  <2> QED
    BY <1>9, <2>1, <2>2
<1>11. ParsedTo(blanks, k + 1)'
  <2>1. LineEnd(blanks, k + 1)' = e
    BY <1>0 DEF LineEnd
  <2>2. pos' = IF k + 1 = Len(meant) THEN end ELSE e + 1
    BY <1>5, <1>9
  <2> HIDE DEF e
  <2> QED
    BY <1>0, <1>10, <2>1, <2>2 DEF ParsedTo
<1>12. StrictText(blanks)'
  BY <1>0, <1>2 DEF StrictText, Follows, LineEnd
<1> QED
  BY <1>0, <1>4, <1>11, <1>12 DEF StrictParsing

\* Whatever the text says, its operands are numbers and pos stays in the memory.
LEMMA ParseInstructionText ==
  ASSUME Inv, ParseInstruction, LoopInv'
  PROVE  TextInv'
<1>0. /\ step = "parsing" /\ memory[pos] # "nul" /\ UNCHANGED <<memory, end, meant, style, step>>
  BY DEF ParseInstruction
<1>1. PICK i \in Found :
         LET n == Definitions[i].count
             last == OperandEnd(n)
         IN  /\ last <= Len(memory)
             /\ list' = Append(list, [bytecode |-> Definitions[i].bytecode,
                                      operands |-> [k \in 1 .. n |-> Operand(k)]])
             /\ pos' = Advance(last)
  BY DEF ParseInstruction
<1> DEFINE n == Definitions[i].count
           rec == [bytecode |-> Definitions[i].bytecode, operands |-> [k \in 1 .. n |-> Operand(k)]]
<1>2. InMemory /\ ListInv /\ list \in Seq(Range(list))
  BY <1>0 DEF Inv, TextInv, StoreInv, TypeOK, ListInv, ItemsInv, MemoryInv, InMemory
<1>3. n \in {1, 2} /\ OperandEnd(n) <= Len(memory) /\ list' = Append(list, rec)
      /\ pos' = Advance(OperandEnd(n))
  BY <1>1, CountsAre
<1> HIDE DEF n
<1>4. pos' \in 1 .. Len(memory)
  <2>1. OperandEnd(n) \in 1 .. Len(memory) + 1
    BY <1>2, <1>3, OperandEndIs
  <2>2. OperandEnd(n) \in 1 .. Len(memory)
    BY <1>2, <1>3, <2>1 DEF InMemory
  <2> QED
    BY <1>2, <1>3, <2>2, AdvanceTyped
<1>5. InMemory' /\ MemoryInv'
  BY <1>0, <1>2, <1>4 DEF InMemory, MemoryInv
<1>6. \A k \in 1 .. n : Operand(k) \in Operands
  BY <1>2, <1>3, OperandTyped
<1>7. DOMAIN rec.operands = 1 .. n /\ \A k \in 1 .. n : rec.operands[k] \in Operands
  BY <1>6
<1> HIDE DEF rec
<1>8. ListInv'
  <2>1. ASSUME NEW j \in DOMAIN (list') PROVE list'[j] = rec \/ (j \in DOMAIN list /\ list'[j] = list[j])
    BY <1>2, <1>3
  <2> QED
    BY <1>2, <1>7, <2>1 DEF ListInv
<1>9. ASSUME style = "strict" PROVE StrictParsing' /\ meant' \in Seq(Statements) /\ pos' <= end'
  <2>1. StrictParsing' /\ meant' \in Seq(Statements)
    BY <1>0, <1>9, StrictStep DEF Inv, TextInv, StrictInv
  <2>2. StrictReady'
    BY <1>5, <2>1 DEF StrictReady
  <2>3. InText'
    BY <2>2, StrictReadyIn, PTL
  <2> QED
    BY <2>1, <2>3 DEF InText
<1>10. StrictInv' /\ StrictIsParsed'
  BY <1>0, <1>9 DEF StrictInv, StrictIsParsed, AsMeant, Parsed, StrictParsing
<1>11. TypeOK'
  BY <1>0, <1>5, <1>8, TypeOKIs
<1> QED
  BY <1>5, <1>10, <1>11 DEF TextInv

LEMMA RejectText ==
  ASSUME Inv, Reject, LoopInv'
  PROVE  TextInv'
<1>1. /\ step = "parsing" /\ step' = "rejected"
      /\ UNCHANGED <<memory, end, meant, style, pos, list, program, next, result, measured>>
  BY DEF Reject, Leave
<1>2. style' # "strict"
  BY <1>1, StrictNotRejected
<1>3. MemoryInv' /\ ListInv'
  BY <1>1 DEF Inv, TextInv, MemoryInv, ListInv, TypeOK
<1>4. StrictInv' /\ StrictIsParsed'
  BY <1>1, <1>2 DEF StrictInv, StrictIsParsed
<1>5. TypeOK'
  BY <1>1, <1>3, TypeOKIs
<1> QED
  BY <1>3, <1>4, <1>5 DEF TextInv

LEMMA OverrunText ==
  ASSUME Inv, Overrun, LoopInv'
  PROVE  TextInv'
<1>1. /\ step' = "outside" /\ pos' = Len(memory) + 1
      /\ UNCHANGED <<memory, end, meant, style, list, program, next, result, measured>>
  BY DEF Overrun
<1>2. style' # "strict"
  BY <1>1, StrictNotRejected
<1>3. MemoryInv' /\ ListInv' /\ Len(memory) \in Nat
  BY <1>1 DEF Inv, TextInv, MemoryInv, ListInv, TypeOK
<1>4. StrictInv' /\ StrictIsParsed'
  BY <1>1, <1>2 DEF StrictInv, StrictIsParsed
<1>5. pos' \in 1 .. Len(memory') + 1
  BY <1>1, <1>3
<1>6. TypeOK'
  BY <1>1, <1>3, <1>5 DEF TypeOK, ListInv, LoopInv
<1> QED
  BY <1>3, <1>4, <1>6 DEF TextInv

\* The end of a strict program is reached when all of its statements are read.
LEMMA FinishParseText ==
  ASSUME Inv, FinishParse, LoopInv'
  PROVE  TextInv'
<1>1. /\ step = "parsing" /\ memory[pos] = "nul" /\ step' = "compiled"
      /\ UNCHANGED <<memory, end, meant, style, pos, list>>
  BY DEF FinishParse
<1>2. MemoryInv' /\ ListInv'
  BY <1>1 DEF Inv, TextInv, MemoryInv, ListInv, TypeOK
<1>3. ASSUME style = "strict" PROVE list = meant /\ pos <= end /\ meant \in Seq(Statements)
  <2>1. PICK blanks \in {0, 1} : \E k \in 0 .. Len(meant) :
            /\ StrictText(blanks) /\ ParsedTo(blanks, k)
            /\ k = Len(meant) => memory[pos] = "nul"
            /\ k # Len(meant) => Moves(blanks, k)
    BY <1>1, <1>3, StrictNext
  <2>2. PICK k \in 0 .. Len(meant) : ParsedTo(blanks, k) /\ (k # Len(meant) => Moves(blanks, k))
    BY <2>1
  <2>3. k = Len(meant)
    BY <1>1, <2>2 DEF Moves, Reads
  <2>4. meant \in Seq(Statements) /\ pos <= end
    BY <1>1, <1>3 DEF Inv, TextInv, StrictInv, StrictIsParsed, AsMeant
  <2>5. SubSeq(meant, 1, Len(meant)) = meant
    BY <2>4
  <2> QED
    BY <2>2, <2>3, <2>4, <2>5 DEF ParsedTo
<1>4. StrictInv' /\ StrictIsParsed'
  BY <1>1, <1>3 DEF StrictInv, StrictIsParsed, AsMeant
<1>5. TypeOK'
  BY <1>1, <1>2, TypeOKIs
<1> QED
  BY <1>2, <1>4, <1>5 DEF TextInv

\* What comes after the parser does not touch the text or the list.
LEMMA RunText ==
  ASSUME Inv, step \in {"compiled", "running"}, step' \in {"compiled", "running", "crashed"},
         UNCHANGED <<memory, end, meant, style, pos, list>>, LoopInv'
  PROVE  TextInv'
<1>1. /\ step \in {"compiled", "running"} /\ step' \in {"compiled", "running", "crashed"}
      /\ UNCHANGED <<memory, end, meant, style, pos, list>>
  OBVIOUS
<1>2. MemoryInv' /\ ListInv'
  BY <1>1 DEF Inv, TextInv, MemoryInv, ListInv, TypeOK
<1>3. StrictInv'
  BY <1>1 DEF Inv, TextInv, StrictInv
<1>4. StrictIsParsed'
  BY <1>1 DEF Inv, TextInv, StrictIsParsed, AsMeant, Parsed
<1>5. TypeOK'
  BY <1>1, <1>2, TypeOKIs
<1> QED
  BY <1>2, <1>3, <1>4, <1>5 DEF TextInv

LEMMA StutterText ==
  ASSUME Inv, UNCHANGED vars
  PROVE  TextInv'
<1>1. MemoryInv' /\ TypeOK' /\ StrictIsParsed'
  BY DEF vars, Inv, TextInv, MemoryInv, TypeOK, StrictIsParsed, AsMeant, Parsed
<1>2. StrictInv'
  BY SMTT(20) DEF vars, Inv, TextInv, StrictInv, StrictText, ParsedTo, LineEnd, Follows
<1> QED
  BY <1>1, <1>2 DEF TextInv

-----------------------------------------------------------------------------
(* The invariant, for what is stored.                                         *)

LEMMA RangeIs ==
  ASSUME NEW T, NEW s \in Seq(T)
  PROVE  s \in Seq(Range(s)) /\ Range(s) \subseteq T
<1>1. \A i \in 1 .. Len(s) : s[i] \in Range(s) /\ s[i] \in T
  BY ElementOfSeq DEF Range
<1>2. s \in [1 .. Len(s) -> Range(s)] /\ Len(s) \in Nat
  BY <1>1
<1> QED
  BY <1>1, <1>2 DEF Range

\* the worker's variables when a request begins
Fresh ==
    /\ list = << >> /\ program = Empty(ProgramClass) /\ next = 0
    /\ result = Empty(ResultClass) /\ measured = << >> /\ ~Parsed

LEMMA FreshStore == Fresh => StoreInv
<1> SUFFICES ASSUME Fresh PROVE StoreInv
  OBVIOUS
<1> USE DEF Fresh
<1> DEFINE P == Range(list) \cup {ProgramClass.junk}
           R == Outcomes \cup {ResultClass.junk}
<1>1. << >> \in Seq(Range(list)) /\ << >> \in Seq(Outcomes)
  OBVIOUS
<1>2. /\ program \in Containers(P) /\ InBounds(ProgramClass, program)
      /\ program.count = 0
  BY EmptyIsEmpty, ClassesAssumption
<1>3. /\ result \in Containers(R) /\ InBounds(ResultClass, result)
      /\ Contents(ResultClass, result) = << >>
  BY EmptyIsEmpty, ClassesAssumption
<1>4. ItemsInv
  BY <1>1, <1>2, <1>3 DEF ItemsInv
<1>5. ProgramInv /\ LoopInv
  BY <1>2 DEF ProgramInv, LoopInv
<1>6. ProgramKept /\ BuffersInBounds /\ ResultsInOrder
  BY <1>2, <1>3 DEF ProgramKept, BuffersInBounds, ResultsInOrder
<1> QED
  BY <1>4, <1>5, <1>6 DEF StoreInv

LEMMA InitStore == Init => StoreInv
  BY FreshStore DEF Init, Fresh, Parsed

LEMMA EndRequestStore ==
  ASSUME EndRequest
  PROVE  StoreInv'
<1>1. /\ list' = << >> /\ program' = Empty(ProgramClass) /\ next' = 0
      /\ result' = Empty(ResultClass) /\ measured' = << >> /\ step' = "idle"
  BY DEF EndRequest
<1>2. Fresh'
  BY <1>1 DEF Fresh, Parsed
<1> QED
  BY <1>2, FreshStore, PTL

LEMMA QuietStore ==
  ASSUME StoreInv, UNCHANGED <<list, program, next, result, measured>>,
         Parsed' => Parsed, Parsed \/ step = "crashed" => Parsed' \/ step' = "crashed"
  PROVE  StoreInv'
<1>1. ItemsInv' /\ LoopInv' /\ BuffersInBounds' /\ ResultsInOrder'
  BY DEF StoreInv, ItemsInv, LoopInv, BuffersInBounds, InBounds, ResultsInOrder
<1>2. ProgramInv' /\ ProgramKept'
  BY DEF StoreInv, ProgramInv, ProgramKept
<1> QED
  BY <1>1, <1>2 DEF StoreInv

LEMMA ParseInstructionStore ==
  ASSUME StoreInv, ParseInstruction
  PROVE  StoreInv'
<1>1. /\ step = "parsing" /\ step' = "parsing"
      /\ UNCHANGED <<program, next, result, measured>>
  BY DEF ParseInstruction
<1>2. PICK e : list' = Append(list, e)
  BY DEF ParseInstruction
<1>3. program = Empty(ProgramClass) /\ program' = program /\ ~Parsed'
  BY <1>1 DEF StoreInv, ProgramInv, Parsed
<1>4. list' \in Seq(Range(list'))
  <2>1. list \in Seq(Range(list) \cup {e})
    BY SeqMonotonic DEF StoreInv, ItemsInv
  <2>2. list' \in Seq(Range(list) \cup {e})
    BY <1>2, <2>1
  <2> QED
    BY <2>2, RangeIs
<1>5. program' \in Containers(Range(list') \cup {ProgramClass.junk})
  BY <1>3, EmptyIsEmpty, ClassesAssumption
<1>6. ItemsInv'
  BY <1>1, <1>4, <1>5 DEF StoreInv, ItemsInv
<1>7. LoopInv' /\ BuffersInBounds' /\ ResultsInOrder' /\ ProgramInv' /\ ProgramKept'
  BY <1>1, <1>3 DEF StoreInv, LoopInv, BuffersInBounds, InBounds, ResultsInOrder,
                    ProgramInv, ProgramKept
<1> QED
  BY <1>6, <1>7 DEF StoreInv

\* Of a program only the empty one is stored inside the object, since one
\* instruction has more bytes than its inner array items.
LEMMA FinishParseStore ==
  ASSUME StoreInv, FinishParse
  PROVE  StoreInv'
<1> DEFINE P == Range(list) \cup {ProgramClass.junk}
           a == Add(ProgramClass, program, list)
<1>1. /\ step = "parsing" /\ step' = "compiled" /\ program' = a
      /\ UNCHANGED <<list, next, result, measured>>
  BY DEF FinishParse
<1>2. program = Empty(ProgramClass)
  BY <1>1 DEF StoreInv, ProgramInv, Parsed
<1>3. /\ program \in Containers(P) /\ InBounds(ProgramClass, program)
      /\ Contents(ProgramClass, program) = << >>
      /\ program.count = 0
  BY <1>2, EmptyIsEmpty, ClassesAssumption
<1>4. list \in Seq(P) /\ Len(list) \in Nat
  BY SeqMonotonic DEF StoreInv, ItemsInv
<1> HIDE DEF P
<1>5. ProgramClass.junk \in P
  BY DEF P
<1>6. /\ a \in Containers(P) /\ InBounds(ProgramClass, a)
      /\ Contents(ProgramClass, a) = Contents(ProgramClass, program) \o list
      /\ a.count = program.count + Len(list)
      /\ \/ a.isHeap
         \/ (program.count + Len(list)) * ProgramClass.size < StackCapacity(ProgramClass)
  BY <1>3, <1>4, <1>5, AddKeeps, ClassesAssumption
<1> HIDE DEF a
<1>7. Contents(ProgramClass, a) = list
  BY <1>3, <1>4, <1>6
<1>8. a.count = Len(list)
  BY <1>3, <1>4, <1>6
<1>9. a.isHeap \/ a.count = 0
  <2>1. SUFFICES ASSUME Len(list) * ProgramClass.size < StackCapacity(ProgramClass)
                 PROVE  Len(list) = 0
    BY <1>3, <1>4, <1>6, <1>8
  <2>2. ProgramClass.size \in Nat \ {0} /\ StackCapacity(ProgramClass) \in Nat
    BY ClassesAssumption, RoundedUp, WordAssumption DEF StackCapacity, IsClass
  <2> DEFINE size == ProgramClass.size
             k == Len(list)
  <2>3. k * size < size
    BY <1>4, <2>1, <2>2, InstructionAssumption
  <2>4. size \in Nat \ {0} /\ k \in Nat
    BY <2>2, <1>4
  <2> HIDE DEF size, k
  <2>5. k = 0
    BY <2>3, <2>4
  <2> QED
    BY <2>5 DEF k
<1>10. ItemsInv'
  BY <1>1, <1>6 DEF StoreInv, ItemsInv, P
<1>11. ProgramInv'
  BY <1>1, <1>9 DEF ProgramInv, Parsed
<1>12. LoopInv'
  <2>1. next = 0
    BY <1>3 DEF StoreInv, LoopInv
  <2> QED
    BY <2>1, <1>1, <1>4, <1>8 DEF LoopInv
<1>13. ProgramKept'
  BY <1>1, <1>7 DEF ProgramKept
<1>14. BuffersInBounds' /\ ResultsInOrder'
  BY <1>1, <1>6 DEF StoreInv, BuffersInBounds, InBounds, ResultsInOrder
<1> QED
  BY <1>10, <1>11, <1>12, <1>13, <1>14 DEF StoreInv

LEMMA HandOnStore ==
  ASSUME StoreInv, HandOn
  PROVE  StoreInv'
<1> DEFINE P == Range(list) \cup {ProgramClass.junk}
           m == MoveConstruct(ProgramClass, program)
<1>1. /\ step = "compiled" /\ step' = "running" /\ program' \in {program, m}
      /\ UNCHANGED <<list, next, result, measured>>
  BY DEF HandOn
<1>2. Parsed /\ Parsed'
  BY <1>1 DEF Parsed
<1>3. CASE program' = program
  BY <1>1, <1>2, <1>3, QuietStore
<1>4. CASE program' = m
  <2>1. /\ program \in Containers(P) /\ InBounds(ProgramClass, program)
        /\ program.isHeap \/ program.count = 0
    BY DEF StoreInv, ItemsInv, ProgramInv, BuffersInBounds
  <2> HIDE DEF P
  <2>2. ProgramClass.junk \in P
    BY DEF P
  <2>3. /\ m \in Containers(P) /\ InBounds(ProgramClass, m)
        /\ Contents(ProgramClass, m) = Contents(ProgramClass, program)
        /\ m.count = program.count /\ m.isHeap = program.isHeap
    BY <2>1, <2>2, MoveConstructKeeps
  <2> HIDE DEF m
  <2>4. ItemsInv'
    BY <1>1, <1>4, <2>3 DEF StoreInv, ItemsInv, P
  <2>5. ProgramInv' /\ LoopInv' /\ ProgramKept'
    BY <1>1, <1>2, <1>4, <2>1, <2>3 DEF StoreInv, ProgramInv, LoopInv, ProgramKept
  <2>6. BuffersInBounds' /\ ResultsInOrder'
    BY <1>1, <1>4, <2>3 DEF StoreInv, BuffersInBounds, InBounds, ResultsInOrder
  <2> QED
    BY <2>4, <2>5, <2>6 DEF StoreInv
<1> QED
  BY <1>1, <1>3, <1>4

LEMMA ExecuteStore ==
  ASSUME StoreInv, Execute
  PROVE  StoreInv'
<1>1. /\ next < program.count /\ next' = next + 1
      /\ UNCHANGED <<list, program, step>>
  BY DEF Execute
<1>2. LoopInv'
  BY <1>1 DEF StoreInv, LoopInv, ItemsInv, Containers
<1>3. ProgramInv' /\ ProgramKept'
  BY <1>1 DEF StoreInv, ProgramInv, ProgramKept, Parsed
<1>4. CASE UNCHANGED <<result, measured>>
  BY <1>1, <1>2, <1>3, <1>4 DEF StoreInv, ItemsInv, BuffersInBounds, InBounds, ResultsInOrder
<1>5. CASE \E v \in Outcomes : /\ result' = Add(ResultClass, result, <<v>>)
                               /\ measured' = Append(measured, v)
  <2>1. PICK v \in Outcomes : /\ result' = Add(ResultClass, result, <<v>>)
                              /\ measured' = Append(measured, v)
    BY <1>5
  <2> DEFINE R == Outcomes \cup {ResultClass.junk}
             one == <<v>>
             a == Add(ResultClass, result, one)
  <2>2. /\ result \in Containers(R) /\ InBounds(ResultClass, result)
        /\ Contents(ResultClass, result) = measured /\ measured \in Seq(Outcomes)
    BY DEF StoreInv, ItemsInv, BuffersInBounds, ResultsInOrder
  <2>3. one \in Seq(R) /\ ResultClass.junk \in R
    OBVIOUS
  <2> HIDE DEF R, one
  <2>4. /\ a \in Containers(R) /\ InBounds(ResultClass, a)
        /\ Contents(ResultClass, a) = Contents(ResultClass, result) \o one
        /\ a.count = result.count + Len(one)
        /\ \/ a.isHeap
           \/ (result.count + Len(one)) * ResultClass.size < StackCapacity(ResultClass)
    BY <2>2, <2>3, AddKeeps, ClassesAssumption
  <2> HIDE DEF a
  <2>5. measured' \in Seq(Outcomes) /\ measured' = measured \o one
    BY <2>1, <2>2 DEF one
  <2>6. result' = a
    BY <2>1 DEF a, one
  <2>7. ItemsInv'
    BY <1>1, <2>4, <2>5, <2>6 DEF StoreInv, ItemsInv, R
  <2>8. BuffersInBounds' /\ ResultsInOrder'
    BY <1>1, <2>2, <2>4, <2>5, <2>6 DEF StoreInv, BuffersInBounds, InBounds, ResultsInOrder
  <2> QED
    BY <1>2, <1>3, <2>7, <2>8 DEF StoreInv
<1> QED
  BY <1>4, <1>5 DEF Execute, Outcomes

LEMMA NextStore ==
  ASSUME StoreInv, [Next]_vars
  PROVE  StoreInv'
<1>1. CASE SubmitProgram \/ SubmitOther
  <2>1. /\ step = "idle" /\ step' = "parsing"
        /\ UNCHANGED <<list, program, next, result, measured>>
    BY <1>1 DEF SubmitProgram, SubmitOther, Accept
  <2> QED
    BY <2>1, QuietStore DEF Parsed
<1>2. CASE ParseInstruction
  BY <1>2, ParseInstructionStore
<1>3. CASE Reject \/ Overrun
  <2>1. /\ step = "parsing" /\ step' \in {"rejected", "outside"}
        /\ UNCHANGED <<list, program, next, result, measured>>
    BY <1>3 DEF Reject, Overrun, Leave
  <2> QED
    BY <2>1, QuietStore DEF Parsed
<1>4. CASE FinishParse
  BY <1>4, FinishParseStore
<1>5. CASE HandOn
  BY <1>5, HandOnStore
<1>6. CASE Execute
  BY <1>6, ExecuteStore
<1>7. CASE ExecuteFails \/ Answer
  <2>1. CASE EndRequest
    BY <2>1, EndRequestStore
  <2>2. CASE Leave("crashed")
    BY <2>2, QuietStore DEF Leave, Parsed
  <2> QED
    BY <1>7, <2>1, <2>2 DEF ExecuteFails, Answer
<1>8. CASE UNCHANGED vars
  BY <1>8, QuietStore DEF vars, Parsed
<1> QED
  BY <1>1, <1>2, <1>3, <1>4, <1>5, <1>6, <1>7, <1>8 DEF Next, Aborted

-----------------------------------------------------------------------------
(* Complete texts.                                                           *)

\* No line starts behind the end of the text.
LEMMA LineStartsAre ==
  ASSUME InMemory, end \in 1 .. Len(memory), memory[end] = "nul"
  PROVE  LineStarts \subseteq 1 .. end
<1>1. Len(memory) \in Nat /\ DOMAIN memory = 1 .. Len(memory)
  BY DEF InMemory
<1>2. SkipBlanks(memory) \in 1 .. end
  BY <1>1, SkipBlanksTyped
<1> QED
  BY <1>1, <1>2 DEF LineStarts

\* An operand ends at the first delimiter behind its start.
LEMMA EndAfterStops ==
  ASSUME InMemory, NEW a \in 1 .. Len(memory), NEW j \in a + 1 .. Len(memory),
         StopsAt({"comma", "eol"}, a + 1, j)
  PROVE  EndAfter(a) = j
<1>1. Len(memory) \in Nat /\ ~(a >= Len(memory)) /\ a + 1 \in 1 .. Len(memory)
  BY DEF InMemory
<1>2. ScanTo({"comma", "eol"}, a + 1) = j
  BY <1>1, ScanStops
<1> QED
  BY <1>1, <1>2 DEF EndAfter

\* The opcode of a line ends at its first blank.
LEMMA LineOpcode ==
  ASSUME InMemory, end \in 1 .. Len(memory), NEW s \in pos .. end, NEW e \in pos .. end,
         NEW i \in 1 .. 10, IsLine(pos, s, e, i)
  PROVE  OpcodeEnd = s /\ Found = {i}
<1> DEFINE m == Definitions[i].mnemonic
<1>0. Len(memory) \in Nat /\ pos \in 1 .. Len(memory) /\ memory \in Seq(Characters)
  BY DEF InMemory
<1>1. m \in Seq(Letters)
  BY DefinitionsAre DEF IsDefinition
<1>2. SubSeq(memory, pos, s - 1) = m /\ memory[s] = "sp"
  BY DEF IsLine
<1> HIDE DEF m
<1>3. s \in 1 .. Len(memory) /\ s \in pos .. Len(memory)
  BY <1>0
<1>4. ASSUME NEW k \in pos .. s - 1 PROVE memory[k] \in Letters
  <2> DEFINE j == k - pos + 1
  <2>1. j \in 1 .. s - 1 - pos + 1 /\ pos + j - 1 = k /\ pos <= s - 1
    BY <1>0, <1>3
  <2>2. \A x \in pos .. s - 1 : memory[x] \in Characters
    <3>1. \A x \in pos .. s - 1 : x \in 1 .. Len(memory)
      BY <1>0, <1>3
    <3> QED
      BY <1>0, <3>1, ElementOfSeq
  <2> DEFINE f == s - 1
             sub == SubSeq(memory, pos, f)
  <2>3. f \in Int /\ pos \in Int /\ \A x \in pos .. f : memory[x] \in Characters
    BY <1>0, <1>3, <2>2
  <2>4. sub = m /\ j \in 1 .. f - pos + 1 /\ pos <= f
    BY <1>2, <2>1
  <2> HIDE DEF f
  <2>5. /\ Len(sub) = IF pos <= f THEN f - pos + 1 ELSE 0
        /\ \A x \in 1 .. f - pos + 1 : sub[x] = memory[pos + x - 1]
    <3>1. pos \in 1 .. Len(memory) + 1 /\ f \in 0 .. Len(memory)
      BY <1>0, <1>3 DEF f
    <3> QED
      BY <1>0, <2>3, <3>1, SubSeqProperties
  <2> HIDE DEF sub, j
  <2>6. m[j] = memory[k] /\ j \in 1 .. Len(m)
    BY <2>1, <2>4, <2>5
  <2> QED
    BY <1>1, <2>6, ElementOfSeq
<1>5. StopsAt({"sp"}, pos, s)
  <2>1. \A k \in pos .. s - 1 : memory[k] \notin {"sp"} \cup {"nul"}
    BY <1>4, LettersAre
  <2> QED
    BY <1>2, <2>1 DEF StopsAt
<1>6. OpcodeEnd = s
  BY <1>0, <1>3, <1>5, ScanStops DEF OpcodeEnd
<1>7. Found = {j \in 1 .. 10 : Definitions[j].mnemonic = m}
  BY <1>2, <1>6, DefinitionsAre DEF Found
<1>8. Found = {i}
  BY <1>7, MnemonicsDiffer DEF m
<1> QED
  BY <1>6, <1>8

\* The operands of a line end with the line.
LEMMA LineOperands ==
  ASSUME InMemory, end \in 1 .. Len(memory), NEW s \in pos .. end, NEW e \in pos .. end,
         NEW i \in 1 .. 10, IsLine(pos, s, e, i)
  PROVE  OperandEnd(Definitions[i].count) = e
<1> DEFINE C == {k \in s .. e : memory[k] = "comma"}
           n == Definitions[i].count
<1>0. Len(memory) \in Nat /\ pos \in 1 .. Len(memory)
  BY DEF InMemory
<1>1. /\ memory[e] \in {"eol", "nul"} /\ s < e /\ memory[s] = "sp"
      /\ \A k \in pos .. e - 1 : memory[k] \notin {"eol", "nul"}
      /\ Cardinality(C) = n - 1
  BY DEF IsLine
<1>2. OpcodeEnd = s /\ Found = {i}
  BY LineOpcode
<1>3. n \in {1, 2}
  BY <1>2, CountsAre
<1>4. s \in Int /\ e \in Int /\ s \in 1 .. Len(memory) /\ e \in s + 1 .. Len(memory) /\ pos <= s
  BY <1>0, <1>1
<1>5. IsFiniteSet(C)
  <2>1. IsFiniteSet(s .. e) /\ C \in SUBSET (s .. e)
    BY <1>4, FS_Interval
  <2> QED
    BY <2>1, FS_Subset
<1>6. \A k \in s + 1 .. e - 1 : memory[k] \notin {"eol", "nul"}
  BY <1>0, <1>1, <1>4
<1>7. CASE n = 1
  <2>1. C = {}
    BY <1>1, <1>5, <1>7, FS_EmptySet
  <2>2. \A k \in s + 1 .. e - 1 : memory[k] # "comma"
    BY <1>4, <2>1
  <2>3. StopsAt({"comma", "eol"}, s + 1, e)
    BY <1>1, <1>6, <2>2 DEF StopsAt
  <2>4. EndAfter(s) = e
    BY <1>4, <2>3, EndAfterStops
  <2> QED
    BY <1>2, <1>7, <2>4 DEF OperandEnd
<1>8. CASE n = 2
  <2>1. PICK c : C = {c}
    <3>1. Cardinality(C) = 1
      BY <1>1, <1>8
    <3> HIDE DEF C
    <3> QED
      BY <1>5, <3>1, FS_Singleton, Zenon
  <2>2. c \in s .. e /\ memory[c] = "comma" /\ \A k \in s .. e : memory[k] = "comma" => k = c
    BY <2>1
  <2>3. c # s /\ c # e
    BY <1>1, <2>2
  <2>4. /\ c \in s + 1 .. Len(memory) /\ c \in 1 .. Len(memory) /\ e \in c + 1 .. Len(memory)
        /\ c \in s + 1 .. e - 1
    BY <1>4, <2>2, <2>3
  <2>5. StopsAt({"comma", "eol"}, s + 1, c)
    <3>1. \A k \in s + 1 .. c - 1 : k \in s + 1 .. e - 1 /\ k \in s .. e /\ k # c
      BY <1>4, <2>4
    <3> QED
      BY <1>6, <2>2, <3>1 DEF StopsAt
  <2>6. StopsAt({"comma", "eol"}, c + 1, e)
    <3>1. \A k \in c + 1 .. e - 1 : k \in s + 1 .. e - 1 /\ k \in s .. e /\ k # c
      BY <1>4, <2>4
    <3> QED
      BY <1>1, <1>6, <2>2, <3>1 DEF StopsAt
  <2>7. EndAfter(s) = c /\ EndAfter(c) = e
    BY <1>4, <2>4, <2>5, <2>6, EndAfterStops
  <2> QED
    BY <1>2, <1>8, <2>7 DEF OperandEnd
<1> QED
  BY <1>3, <1>7, <1>8

\* In a complete text the next instruction is found and ends with its line.
LEMMA CompleteNext ==
  ASSUME Inv, Complete, step = "parsing", memory[pos] # "nul"
  PROVE  \E i \in 1 .. 10, e \in pos .. end :
            Found = {i} /\ OperandEnd(Definitions[i].count) = e /\ memory[e] \in {"eol", "nul"}
<1>1. InMemory /\ end \in 1 .. Len(memory) /\ memory[end] = "nul" /\ pos \in LineStarts
  BY DEF Inv, TextInv, MemoryInv, InMemory, ContainedInv
<1>2. pos \in 1 .. end /\ pos # end
  BY <1>1, LineStartsAre
<1>3. pos < end
  BY <1>1, <1>2
<1>4. PICK s \in pos .. end, e \in pos .. end, i \in DOMAIN Definitions : IsLine(pos, s, e, i)
  BY <1>1, <1>3 DEF Complete
<1>5. i \in 1 .. 10
  BY <1>4, DefinitionsAre
<1>6. Found = {i} /\ OperandEnd(Definitions[i].count) = e
  BY <1>1, <1>4, <1>5, LineOpcode, LineOperands
<1>7. memory[e] \in {"eol", "nul"}
  BY <1>4 DEF IsLine
<1> QED
  BY <1>4, <1>5, <1>6, <1>7

\* A step that leaves the text alone leaves it complete or incomplete.
LEMMA SameText ==
  ASSUME UNCHANGED <<memory, end>>
  PROVE  LineStarts' = LineStarts /\ (Complete' <=> Complete)
<1>1. LineStarts' = LineStarts
  BY DEF LineStarts, SkipBlanks
<1>2. \A a, s, e, i : IsLine(a, s, e, i)' <=> IsLine(a, s, e, i)
  BY DEF IsLine
<1> QED
  BY <1>1, <1>2 DEF Complete

Contained == ContainedInv /\ CompleteIsContained

LEMMA SentContained == Sent => Contained
<1> SUFFICES ASSUME Sent PROVE Contained
  OBVIOUS
<1>1. pos \in LineStarts /\ LineStarts \subseteq 1 .. end
  BY LineStartsAre DEF LineStarts, Sent
<1>2. pos \in 1 .. end /\ end \in Nat
  BY <1>1 DEF Sent
<1> QED
  BY <1>1, <1>2 DEF Sent, Contained, ContainedInv, CompleteIsContained

LEMMA ParseInstructionContained ==
  ASSUME Inv, ParseInstruction
  PROVE  Contained'
<1>0. /\ step = "parsing" /\ memory[pos] # "nul" /\ UNCHANGED <<memory, end, meant, style, step>>
  BY DEF ParseInstruction
<1>1. LineStarts' = LineStarts /\ (Complete' <=> Complete)
  BY <1>0, SameText
<1>2. end \in 1 .. Len(memory) /\ memory[end] = "nul" /\ InMemory
  BY <1>0 DEF Inv, TextInv, MemoryInv, InMemory, ContainedInv
<1>3. ASSUME Complete
      PROVE  (memory[pos'] = "nul" \/ pos' \in LineStarts) /\ ~(pos' > end)
  <2>1. PICK i \in 1 .. 10, e \in pos .. end :
           Found = {i} /\ OperandEnd(Definitions[i].count) = e /\ memory[e] \in {"eol", "nul"}
    BY <1>0, <1>3, CompleteNext
  <2>2. pos' = Advance(e)
    BY <2>1 DEF ParseInstruction
  <2>3. e \in 1 .. end /\ end \in Nat
    BY <1>2, <2>1 DEF InMemory
  <2>4. CASE memory[e] = "nul"
    <3>1. pos' = e
      BY <2>2, <2>4 DEF Advance
    <3> QED
      BY <2>3, <2>4, <3>1
  <2>5. CASE memory[e] = "eol"
    <3>1. pos' = e + 1
      BY <2>2, <2>5 DEF Advance
    <3>2. e # end
      BY <1>2, <2>5
    <3>3. e \in {k \in 1 .. end - 1 : memory[k] = "eol"} /\ e + 1 <= end
      BY <2>3, <2>5, <3>2
    <3>4. e + 1 \in LineStarts
      BY <3>3 DEF LineStarts
    <3> QED
      BY <2>3, <3>1, <3>3, <3>4
  <2> QED
    BY <2>1, <2>4, <2>5
<1> QED
  BY <1>0, <1>1, <1>2, <1>3 DEF Contained, ContainedInv, CompleteIsContained

\* A text that the parser gives up, or that it leaves, is not complete.
LEMMA LeaveContained ==
  ASSUME Inv, Reject \/ Overrun
  PROVE  Contained'
<1>0. /\ step = "parsing" /\ memory[pos] # "nul" /\ step' \in {"rejected", "outside"}
      /\ UNCHANGED <<memory, end>>
  BY DEF Reject, Overrun, Leave
<1>1. Complete' <=> Complete
  BY <1>0, SameText
<1>2. end \in 1 .. Len(memory) /\ memory[end] = "nul" /\ Len(memory) \in Nat /\ pos \in Nat
  BY <1>0 DEF Inv, TextInv, MemoryInv, ContainedInv
<1>3. ~Complete
  <2> SUFFICES ASSUME Complete PROVE FALSE
    OBVIOUS
  <2>1. PICK i \in 1 .. 10, e \in pos .. end :
           Found = {i} /\ OperandEnd(Definitions[i].count) = e /\ memory[e] \in {"eol", "nul"}
    BY <1>0, CompleteNext
  <2>2. CASE Reject
    BY <2>1, <2>2 DEF Reject
  <2>3. CASE Overrun
    <3>1. e > Len(memory)
      BY <2>1, <2>3 DEF Overrun
    <3> QED
      BY <1>2, <2>1, <3>1
  <2> QED
    BY <2>2, <2>3
<1> QED
  BY <1>0, <1>1, <1>2, <1>3 DEF Contained, ContainedInv, CompleteIsContained

\* What comes after the parser does not move pos.
LEMMA QuietContained ==
  ASSUME Inv, UNCHANGED <<memory, end, pos>>,
         step' = step \/ step' \in {"compiled", "running", "crashed"}
  PROVE  Contained'
<1>1. LineStarts' = LineStarts /\ (Complete' <=> Complete)
  BY SameText
<1> QED
  BY <1>1 DEF Inv, Contained, ContainedInv, CompleteIsContained

LEMMA IdleContained ==
  (memory = <<"nul">> /\ end = 1 /\ pos = 1 /\ step = "idle") => Contained
  BY DEF Contained, ContainedInv, CompleteIsContained

-----------------------------------------------------------------------------
(* The whole invariant.                                                      *)

\* the worker's text when a request begins
NoText ==
    /\ memory = <<"nul">> /\ end = 1 /\ pos = 1 /\ list = << >> /\ style = "none" /\ step = "idle"
    /\ LoopInv

LEMMA NoTextInv == NoText => TextInv /\ Contained
  BY TextStart, IdleContained DEF NoText

LEMMA InitInv == Init => Inv
<1> SUFFICES ASSUME Init PROVE Inv
  OBVIOUS
<1>1. StoreInv
  BY InitStore
<1>2. NoText
  BY <1>1 DEF StoreInv, Init, NoText
<1> QED
  BY <1>1, <1>2, NoTextInv DEF Inv, Contained

LEMMA NextInv ==
  ASSUME Inv, [Next]_vars
  PROVE  Inv'
<1>1. StoreInv'
  BY NextStore DEF Inv
<1>2. LoopInv'
  BY <1>1 DEF StoreInv
<1>3. SUFFICES TextInv' /\ Contained'
  BY <1>1 DEF Inv, Contained
<1>4. CASE SubmitProgram \/ SubmitOther
  <2>1. TextInv' /\ Sent'
    BY <1>2, <1>4, SubmitText
  <2>2. Contained'
    BY <2>1, SentContained, PTL
  <2> QED
    BY <2>1, <2>2
<1>5. CASE ParseInstruction
  BY <1>2, <1>5, ParseInstructionText, ParseInstructionContained
<1>6. CASE Reject \/ Overrun
  BY <1>2, <1>6, RejectText, OverrunText, LeaveContained
<1>7. CASE FinishParse
  <2>1. UNCHANGED <<memory, end, pos>> /\ step' = "compiled"
    BY <1>7 DEF FinishParse
  <2> QED
    BY <1>2, <1>7, <2>1, FinishParseText, QuietContained
<1>8. CASE HandOn \/ Execute
  <2>1. /\ step \in {"compiled", "running"} /\ step' \in {"compiled", "running"}
        /\ UNCHANGED <<memory, end, meant, style, pos, list>>
    BY <1>8 DEF HandOn, Execute
  <2> QED
    BY <1>2, <2>1, RunText, QuietContained
<1>9. CASE ExecuteFails \/ Answer
  <2>1. CASE EndRequest
    <3>1. NoText'
      BY <1>2, <2>1 DEF EndRequest, NoText
    <3> QED
      BY <3>1, NoTextInv, PTL
  <2>2. CASE step = "running" /\ Leave("crashed")
    <3>1. /\ step' = "crashed" /\ UNCHANGED <<memory, end, meant, style, pos, list>>
      BY <2>2 DEF Leave
    <3> QED
      BY <1>2, <2>2, <3>1, RunText, QuietContained
  <2> QED
    BY <1>9, <2>1, <2>2 DEF ExecuteFails, Answer
<1>10. CASE UNCHANGED vars
  <2>1. UNCHANGED <<memory, end, pos, step>>
    BY <1>10 DEF vars
  <2> QED
    BY <1>10, <2>1, StutterText, QuietContained
<1> QED
  BY <1>4, <1>5, <1>6, <1>7, <1>8, <1>9, <1>10 DEF Next, Aborted

\* A worker's program and results stay as Inv says from the request to the reply,
\* whatever text the client sends and however add moves the items; and what it parses of a
\* strict text is what the client meant.
THEOREM Invariance == Spec => []Inv
<1>1. Inv /\ [Next]_vars => Inv'
  BY NextInv
<1> QED
  BY InitInv, <1>1, PTL DEF Spec

\* parse_program neither rejects a text nor reads past its nul unless some line of it has
\* no known mnemonic or lacks an operand or has one too many: for texts of any length, with
\* any characters as operands and anything behind them in the request's memory.
THEOREM CompleteTextsAreContained == Spec => []CompleteIsContained
<1>1. Inv => CompleteIsContained
  BY DEF Inv
<1> QED
  BY <1>1, Invariance, PTL

\* parse_program, find_idef and stuif give back exactly the instructions of every program
\* in the form of the example clients, of any length and with any operands, without
\* reading past the end of its text or ending the process.
THEOREM StrictProgramsAreParsed == Spec => []StrictIsParsed
<1>1. Inv => StrictIsParsed
  BY DEF Inv, TextInv
<1> QED
  BY <1>1, Invariance, PTL

\* A program that run_program runs or insert_macro stores has exactly the
\* instructions that parse_program found, although add and the move constructor
\* of managed_container confuse bytes with items.
THEOREM ProgramIsKept == Spec => []ProgramKept
<1>1. Inv => ProgramKept
  BY DEF Inv, StoreInv
<1> QED
  BY <1>1, Invariance, PTL

\* No memcpy of managed_container leaves its array: a buffer never counts more
\* items than its array has, nor takes it to be larger than it is.
THEOREM BuffersStayInBounds == Spec => []BuffersInBounds
<1>1. Inv => BuffersInBounds
  BY DEF Inv, StoreInv
<1> QED
  BY <1>1, Invariance, PTL

\* The buffer of results holds the outcomes of all measurements in the order they
\* were made, however often it grew.
THEOREM ResultsAreInOrder == Spec => []ResultsInOrder
<1>1. Inv => ResultsInOrder
  BY DEF Inv, StoreInv
<1> QED
  BY <1>1, Invariance, PTL
=============================================================================
