---------------------------- MODULE DispatchProofs ----------------------------
(* The search of find_call in the table that actions.cpp fills, for every     *)
(* size of the table and every request.                                       *)
EXTENDS Dispatch, Integers, SequenceTheorems, WellFoundedInduction, TLAPS

LEMMA Restricted ==
  ASSUME NEW S, NEW T, NEW s \in Seq(S), \A i \in 1 .. Len(s) : s[i] \in T
  PROVE  s \in Seq(T)
  OBVIOUS

\* the table, written out
LEMMA TableIs ==
  /\ Len(Calls) = 13 /\ Calls \in Seq(Stems)
  /\ Calls[1] = Call("get_uniform_integer", 19, 3) /\ Calls[2] = Call("get_uniform_real", 16, 3)
  /\ Calls[3] = Call("get_weighted_integer", 20, 3)
  /\ Calls[4] = Call("create_kernel", 13, 0) /\ Calls[5] = Call("delete_kernel", 13, 1)
  /\ Calls[6] = Call("compile_macro", 13, 4)
  /\ Calls[7] = Call("create_system", 13, 1) /\ Calls[8] = Call("delete_system", 13, 1)
  /\ Calls[9] = Call("create_state", 12, 4) /\ Calls[10] = Call("delete_state", 12, 2)
  /\ Calls[11] = Call("modify_state", 12, 5) /\ Calls[12] = Call("measure_state", 13, 5)
  /\ Calls[13] = Call("compute_result", 14, 4)
<1> DEFINE C == UNION {{l[i] : i \in DOMAIN l} : l \in {RandomCalls, KernelCalls, SystemCalls, ResultCalls}}
           A == RandomCalls \o KernelCalls
           B == A \o SystemCalls
<1>1. /\ RandomCalls \in Seq(C) /\ Len(RandomCalls) = 3
      /\ KernelCalls \in Seq(C) /\ Len(KernelCalls) = 3
      /\ SystemCalls \in Seq(C) /\ Len(SystemCalls) = 4
      /\ ResultCalls \in Seq(C) /\ Len(ResultCalls) = 3
  <2>1. RandomCalls \in Seq(C) /\ Len(RandomCalls) = 3
    BY DEF RandomCalls
  <2>2. KernelCalls \in Seq(C) /\ Len(KernelCalls) = 3
    BY DEF KernelCalls
  <2>3. SystemCalls \in Seq(C) /\ Len(SystemCalls) = 4
    BY DEF SystemCalls
  <2>4. ResultCalls \in Seq(C) /\ Len(ResultCalls) = 3
    BY DEF ResultCalls
  <2> QED
    BY <2>1, <2>2, <2>3, <2>4
<1> HIDE DEF C
<1>3. A \in Seq(C) /\ Len(A) = 6
      /\ \A i \in 1 .. 6 : A[i] = IF i <= 3 THEN RandomCalls[i] ELSE KernelCalls[i - 3]
  <2>1. A \in Seq(C) /\ Len(A) = Len(RandomCalls) + Len(KernelCalls)
        /\ \A i \in 1 .. Len(RandomCalls) + Len(KernelCalls) : A[i] =
              IF i <= Len(RandomCalls) THEN RandomCalls[i] ELSE KernelCalls[i - Len(RandomCalls)]
    BY <1>1, ConcatProperties
  <2> QED
    BY <1>1, <2>1
<1> HIDE DEF A
<1>4. B \in Seq(C) /\ Len(B) = 10
      /\ \A i \in 1 .. 10 : B[i] = IF i <= 6 THEN A[i] ELSE SystemCalls[i - 6]
  <2>1. B \in Seq(C) /\ Len(B) = Len(A) + Len(SystemCalls)
        /\ \A i \in 1 .. Len(A) + Len(SystemCalls) : B[i] =
              IF i <= Len(A) THEN A[i] ELSE SystemCalls[i - Len(A)]
    BY <1>1, <1>3, ConcatProperties
  <2> HIDE DEF B
  <2>2. Len(A) = 6 /\ Len(A) + Len(SystemCalls) = 10
    BY <1>1, <1>3
  <2> QED
    BY <2>1, <2>2
<1> HIDE DEF B
<1>5. Calls \in Seq(C) /\ Len(Calls) = 13
      /\ \A i \in 1 .. 13 : Calls[i] = IF i <= 10 THEN B[i] ELSE ResultCalls[i - 10]
  <2>1. Calls \in Seq(C) /\ Len(Calls) = Len(B) + Len(ResultCalls)
        /\ \A i \in 1 .. Len(B) + Len(ResultCalls) : Calls[i] =
              IF i <= Len(B) THEN B[i] ELSE ResultCalls[i - Len(B)]
    <3>1. Calls = B \o ResultCalls
      BY DEF Calls, B, A
    <3> QED
      BY <1>1, <1>4, <3>1, ConcatProperties
  <2> QED
    BY <1>1, <1>4, <2>1
<1>6. /\ Calls[1] = RandomCalls[1] /\ Calls[2] = RandomCalls[2] /\ Calls[3] = RandomCalls[3]
      /\ Calls[4] = KernelCalls[1] /\ Calls[5] = KernelCalls[2] /\ Calls[6] = KernelCalls[3]
  BY <1>3, <1>4, <1>5
<1>7. /\ Calls[7] = SystemCalls[1] /\ Calls[8] = SystemCalls[2] /\ Calls[9] = SystemCalls[3] /\ Calls[10] = SystemCalls[4]
      /\ Calls[11] = ResultCalls[1] /\ Calls[12] = ResultCalls[2] /\ Calls[13] = ResultCalls[3]
  BY <1>4, <1>5
<1>8. /\ RandomCalls[1] = Call("get_uniform_integer", 19, 3) /\ RandomCalls[2] = Call("get_uniform_real", 16, 3)
      /\ RandomCalls[3] = Call("get_weighted_integer", 20, 3)
      /\ KernelCalls[1] = Call("create_kernel", 13, 0) /\ KernelCalls[2] = Call("delete_kernel", 13, 1)
      /\ KernelCalls[3] = Call("compile_macro", 13, 4)
  BY DEF RandomCalls, KernelCalls, get_uniform_integer, get_uniform_real, get_weighted_integer,
         create_kernel, delete_kernel, compile_macro
<1>9. /\ SystemCalls[1] = Call("create_system", 13, 1) /\ SystemCalls[2] = Call("delete_system", 13, 1)
      /\ SystemCalls[3] = Call("create_state", 12, 4) /\ SystemCalls[4] = Call("delete_state", 12, 2)
      /\ ResultCalls[1] = Call("modify_state", 12, 5) /\ ResultCalls[2] = Call("measure_state", 13, 5)
      /\ ResultCalls[3] = Call("compute_result", 14, 4)
  BY DEF SystemCalls, ResultCalls, create_system, delete_system, create_state, delete_state,
         modify_state, measure_state, compute_result
<1>10. Calls \in Seq(Stems)
  <2>1. \A i \in 1 .. Len(Calls) : Calls[i] \in Stems
    BY <1>5 DEF Stems
  <2> QED
    BY <1>5, <2>1, Restricted
<1> QED
  BY <1>5, <1>6, <1>7, <1>8, <1>9, <1>10

LEMMA TableLength ==
  Len(Calls) = 13 /\ Calls \in Seq(Stems) /\ \A i \in 1 .. 13 : Calls[i] \in Stems
<1>1. Len(Calls) = 13 /\ Calls \in Seq(Stems)
  BY TableIs
<1> QED
  BY <1>1

\* no two calls have one name
LEMMA NamesDiffer ==
  \A i, j \in 1 .. 13 : /\ Calls[i].method = Calls[j].method => i = j
                        /\ Calls[i].method # "other"
<1>1. \A i \in 1 .. 13 : Calls[i].method =
        IF i = 1 THEN "get_uniform_integer" ELSE IF i = 2 THEN "get_uniform_real"
        ELSE IF i = 3 THEN "get_weighted_integer" ELSE IF i = 4 THEN "create_kernel"
        ELSE IF i = 5 THEN "delete_kernel" ELSE IF i = 6 THEN "compile_macro"
        ELSE IF i = 7 THEN "create_system" ELSE IF i = 8 THEN "delete_system"
        ELSE IF i = 9 THEN "create_state" ELSE IF i = 10 THEN "delete_state"
        ELSE IF i = 11 THEN "modify_state" ELSE IF i = 12 THEN "measure_state"
        ELSE "compute_result"
  BY TableIs DEF Call
<1> QED
  BY <1>1

\* A set of natural numbers has a smallest one; the proofs by induction use it.
LEMMA SmallestNat ==
  ASSUME NEW T \in SUBSET Nat, T # {}
  PROVE  \E m \in T : \A k \in T : m <= k
<1>1. PICK m \in T : \A k \in T : ~ (<<k, m>> \in OpToRel(<, Nat))
  BY NatLessThanWellFounded, WFMin
<1>2. ASSUME NEW k \in T PROVE m <= k
  <2>1. <<k, m>> \notin {ss \in Nat \X Nat : ss[1] < ss[2]}
    BY <1>1, Zenon DEF OpToRel
  <2> QED
    BY <2>1
<1> QED
  BY <1>2

\* Every call fits the byte, and none is taken for an unused slot.
LEMMA CallSizes ==
  \A i \in 1 .. 13 : /\ Calls[i].size \in 12 .. 20 /\ Calls[i].params \in 0 .. 5
                     /\ Attribute(Calls[i]) = Calls[i].size + Calls[i].params * 32
                     /\ Attribute(Calls[i]) # 0
<1>1. \A i \in 1 .. 13 : Calls[i].size \in 12 .. 20 /\ Calls[i].params \in 0 .. 5
  <2>1. \A i \in 1 .. 13 : Calls[i].size =
        IF i \in {4, 5, 6, 7, 8, 12} THEN 13 ELSE IF i \in {9, 10, 11} THEN 12 ELSE IF i = 13 THEN 14
        ELSE IF i = 1 THEN 19 ELSE IF i = 2 THEN 16 ELSE 20
    BY TableIs DEF Call
  <2>2. \A i \in 1 .. 13 : Calls[i].params =
        IF i = 4 THEN 0 ELSE IF i \in {5, 7, 8} THEN 1 ELSE IF i = 10 THEN 2
        ELSE IF i \in {1, 2, 3} THEN 3 ELSE IF i \in {6, 9, 13} THEN 4 ELSE 5
    BY TableIs DEF Call
  <2> QED
    BY <2>1, <2>2
<1>2. ASSUME NEW i \in 1 .. 13
      PROVE  /\ Attribute(Calls[i]) = Calls[i].size + Calls[i].params * 32
             /\ Attribute(Calls[i]) # 0
  <2>1. Calls[i].size + Calls[i].params * 32 \in 12 .. 255
    BY <1>1
  <2> QED
    BY <2>1 DEF Attribute
<1> QED
  BY <1>1, <1>2

\* The search goes on exactly as long as there are calls.
LEMMA SearchStops ==
  ASSUME registered = Calls, NEW i \in Nat
  PROVE  RestOfWordEmpty(i) <=> i >= 13
<1>1. i \in i .. 8 * (i \div 8) + 7
  OBVIOUS
<1>2. ASSUME i >= 13, NEW j \in i .. 8 * (i \div 8) + 7 PROVE AttributeAt(j) = 0
  BY <1>2, TableIs DEF AttributeAt
<1>3. ASSUME i < 13 PROVE AttributeAt(i) # 0
  <2>1. i + 1 \in 1 .. 13
    BY <1>3
  <2>2. Attribute(Calls[i + 1]) # 0
    BY <2>1, CallSizes
  <2> QED
    BY <1>3, <2>2, TableIs DEF AttributeAt
<1> QED
  BY <1>1, <1>2, <1>3 DEF RestOfWordEmpty

\* The recursive definition of the search has a solution: the first match from i on.
LEMMA SearchExists ==
  ASSUME registered = Calls, Maximum >= 13, NEW r
  PROVE  \E f : f = [i \in 0 .. Maximum |->
                       IF i = Maximum THEN 0
                       ELSE IF RestOfWordEmpty(i) THEN 0
                       ELSE IF Matches(r, i) THEN i + 1
                       ELSE f[i + 1]]
<1>0. Maximum \in Nat
  BY MaximumAssumption
<1> DEFINE From(i) == {j \in i .. 12 : Matches(r, j)}
           First(i) == CHOOSE j \in From(i) : \A k \in From(i) : j <= k
           g == [i \in 0 .. Maximum |-> IF From(i) = {} THEN 0 ELSE First(i) + 1]
<1>1. ASSUME NEW i \in 0 .. Maximum
      PROVE  g[i] = IF i = Maximum THEN 0
                    ELSE IF RestOfWordEmpty(i) THEN 0
                    ELSE IF Matches(r, i) THEN i + 1
                    ELSE g[i + 1]
  <2>1. CASE i >= 13
    <3>1. From(i) = {} /\ RestOfWordEmpty(i)
      BY <2>1, SearchStops
    <3> HIDE DEF From
    <3> QED
      BY <3>1
  <2>2. CASE i < 13
    <3>0. i \in 0 .. 12 /\ i # Maximum /\ ~RestOfWordEmpty(i) /\ i + 1 \in 0 .. Maximum
      BY <1>0, <2>2, SearchStops
    <3>1. CASE Matches(r, i)
      <4>1. i \in From(i) /\ \A k \in From(i) : i <= k /\ k \in Nat
        BY <3>0, <3>1
      <4> HIDE DEF From
      <4>2. First(i) = i
        <5>1. First(i) \in From(i) /\ \A k \in From(i) : First(i) <= k
          BY <4>1
        <5> QED
          BY <4>1, <5>1
      <4> QED
        BY <3>0, <3>1, <4>1, <4>2
    <3>2. CASE ~Matches(r, i)
      <4>1. From(i) = From(i + 1)
        BY <3>0, <3>2
      <4> HIDE DEF From
      <4> QED
        BY <3>0, <3>2, <4>1
    <3> QED
      BY <3>1, <3>2
  <2> QED
    BY <2>1, <2>2
<1> HIDE DEF From, First
<1>2. g = [i \in 0 .. Maximum |->
                       IF i = Maximum THEN 0
                       ELSE IF RestOfWordEmpty(i) THEN 0
                       ELSE IF Matches(r, i) THEN i + 1
                       ELSE g[i + 1]]
  BY <1>1
<1> QED
  BY <1>2

\* find_call finds a match if there is one.
LEMMA FindCallFinds ==
  ASSUME registered = Calls, Maximum >= 13, NEW r
  PROVE  \/ FindCall(r) = 0 /\ \A j \in 0 .. 12 : ~Matches(r, j)
         \/ FindCall(r) \in 1 .. 13 /\ Matches(r, FindCall(r) - 1)
<1>0. Maximum \in Nat
  BY MaximumAssumption
<1> DEFINE Step(f, i) == IF i = Maximum THEN 0
                         ELSE IF RestOfWordEmpty(i) THEN 0
                         ELSE IF Matches(r, i) THEN i + 1
                         ELSE f[i + 1]
           search == CHOOSE f : f = [i \in 0 .. Maximum |-> Step(f, i)]
           Right(i) == \/ search[i] = 0 /\ \A j \in i .. 12 : ~Matches(r, j)
                       \/ search[i] \in 1 .. 13 /\ Matches(r, search[i] - 1)
           Wrong == {n \in 0 .. 13 : ~Right(13 - n)}
<1>1. FindCall(r) = search[0]
  BY DEF FindCall
<1>2. search = [i \in 0 .. Maximum |-> Step(search, i)]
  BY SearchExists
<1> HIDE DEF search
<1>3. \A i \in 0 .. Maximum : search[i] = Step(search, i)
  BY <1>2
<1>4. Right(13)
  <2>1. search[13] = 0
    BY <1>0, <1>3, SearchStops
  <2> QED
    BY <2>1
<1>5. ASSUME NEW i \in 0 .. 12, Right(i + 1) PROVE Right(i)
  <2>1. search[i] = IF Matches(r, i) THEN i + 1 ELSE search[i + 1]
    BY <1>0, <1>3, SearchStops
  <2> QED
    BY <1>5, <2>1
<1> HIDE DEF Right
<1>6. Wrong = {}
  <2> SUFFICES ASSUME Wrong # {} PROVE FALSE
    OBVIOUS
  <2>1. PICK n \in Wrong : \A k \in Wrong : n <= k
    <3>1. Wrong \in SUBSET Nat
      OBVIOUS
    <3> HIDE DEF Wrong
    <3> QED
      BY <3>1, SmallestNat
  <2>2. n \in 1 .. 13
    BY <1>4, <2>1
  <2>3. n - 1 \notin Wrong
    BY <2>1, <2>2
  <2>4. Right(13 - (n - 1))
    BY <2>2, <2>3
  <2>5. 13 - n \in 0 .. 12 /\ 13 - (n - 1) = (13 - n) + 1
    BY <2>2
  <2>6. Right(13 - n)
    BY <1>5, <2>4, <2>5
  <2> QED
    BY <2>1, <2>6
<1>7. Right(0)
  <2>1. 13 \notin Wrong /\ 13 \in 0 .. 13 /\ 13 - 13 = 0
    BY <1>6
  <2> QED
    BY <2>1
<1> QED
  BY <1>1, <1>7 DEF Right

\* A match is a call of that name and number of parameters, if they fit a byte.
LEMMA MatchIsNamed ==
  ASSUME registered = Calls, NEW r \in Requests, NEW i \in 0 .. 12
  PROVE  /\ Matches(r, i) /\ Representable(r) => Named(r, i + 1)
         /\ Named(r, i + 1) => Matches(r, i)
<1>0. i + 1 \in 1 .. 13
  OBVIOUS
<1> DEFINE c == Calls[i + 1]
<1>1. PICK s \in Stems, e \in Extras, p \in 0 .. MaxParameters :
         r = [method |-> s.method, extra |-> e, size |-> s.size + e, params |-> p]
  BY DEF Requests
<1>2. r.method = s.method /\ r.extra = e /\ r.size = s.size + e /\ r.params = p
  BY <1>1
<1>3. r.method = c.method => s = c
  <2>1. c.method # "other"
    BY <1>0, NamesDiffer
  <2>2. s = Call("other", 13, 0) => s.method = "other"
    BY DEF Call
  <2>3. s = Call("other", 13, 0) \/ \E k \in 1 .. 13 : s = Calls[k]
    BY TableIs DEF Stems
  <2>4. \A k \in 1 .. 13 : Calls[k].method = c.method => k = i + 1
    BY <1>0, NamesDiffer
  <2> QED
    BY <1>2, <2>1, <2>2, <2>3, <2>4
<1>4. /\ c.size \in 12 .. 20 /\ c.params \in 0 .. 5 /\ Attribute(c) = c.size + c.params * 32
  BY <1>0, CallSizes
<1>5. e \in Nat /\ p \in Nat
  BY ExtrasAssumption, MaxParametersAssumption
<1>6. AttributeAt(i) = Attribute(c) /\ registered[i + 1] = c
  BY TableIs DEF AttributeAt
<1> HIDE DEF c
<1>7. ASSUME Matches(r, i), Representable(r) PROVE Named(r, i + 1)
  <2>1. r.method = c.method /\ Attribute(r) = c.size + c.params * 32
    BY <1>4, <1>6, <1>7 DEF Matches
  <2>2. r.size = c.size + e /\ r.size \in 0 .. 31 /\ r.params \in 0 .. 7
    BY <1>2, <1>3, <1>4, <1>5, <1>7, <2>1 DEF Representable
  <2>3. r.size + r.params * 32 \in 0 .. 255
    BY <2>2
  <2>4. Attribute(r) = r.size + r.params * 32
    BY <2>3 DEF Attribute
  <2>5. r.size = c.size /\ r.params = c.params
    BY <1>4, <2>1, <2>2, <2>4, SMTT(20)
  <2>6. e = 0
    BY <1>4, <1>5, <2>2, <2>5
  <2> QED
    BY <1>2, <2>1, <2>5, <2>6 DEF Named, c
<1>8. ASSUME Named(r, i + 1) PROVE Matches(r, i)
  <2>1. c.method = r.method /\ r.extra = 0 /\ c.params = r.params
    BY <1>8 DEF Named, c
  <2>2. r.size = c.size
    BY <1>2, <1>3, <1>4, <2>1
  <2> QED
    BY <1>6, <2>1, <2>2 DEF Matches, Attribute
<1> QED
  BY <1>7, <1>8

\* find_call, which compares the length of the name and the number of parameters
\* through one byte: what it finds is the call that a request which fits the byte
\* names, and it finds every call that is named.
THEOREM FindCallIsExact ==
  ASSUME registered = Calls, Maximum >= 13, NEW r \in Requests
  PROVE  /\ FindCall(r) # 0 /\ Representable(r) => Named(r, FindCall(r))
         /\ FindCall(r) = 0 => ~\E i \in DOMAIN Calls : Named(r, i)
<1>1. ASSUME FindCall(r) # 0, Representable(r) PROVE Named(r, FindCall(r))
  <2>1. FindCall(r) \in 1 .. 13 /\ Matches(r, FindCall(r) - 1)
    BY <1>1, FindCallFinds
  <2>2. FindCall(r) - 1 \in 0 .. 12 /\ (FindCall(r) - 1) + 1 = FindCall(r)
    BY <2>1
  <2> QED
    BY <1>1, <2>1, <2>2, MatchIsNamed
<1>2. ASSUME FindCall(r) = 0, NEW i \in DOMAIN Calls, Named(r, i) PROVE FALSE
  <2>1. i \in 1 .. 13
    BY TableIs
  <2>2. i - 1 \in 0 .. 12 /\ (i - 1) + 1 = i
    BY <2>1
  <2>3. Matches(r, i - 1)
    BY <1>2, <2>2, MatchIsNamed
  <2> QED
    BY <1>2, <2>2, <2>3, FindCallFinds
<1> QED
  BY <1>1, <1>2
=============================================================================
