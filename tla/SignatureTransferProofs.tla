----------------------- MODULE SignatureTransferProofs -----------------------
(***************************************************************************)
(* SignatureTransfer for every base of digits, every set of signatures and *)
(* values that programs may pass, and everything the vector of toBinary    *)
(* may hold before.                                                        *)
(*                                                                         *)
(* The loops of the codecs are folds.  A fold is shown to be the last of a *)
(* sequence of states, one per round (RunsTo); what a round keeps is then  *)
(* carried along that sequence by induction, stated for the set of the     *)
(* rounds for which it holds (Induct, InductTo).                           *)
(*                                                                         *)
(* The order is that of the codecs: concatenation and folds; a field, an   *)
(* element, an array, a value and a message written by C++ and by Go; the  *)
(* same read, from bytes that may end anywhere; and last the states of     *)
(* SignatureTransfer.                                                      *)
(***************************************************************************)
EXTENDS SignatureTransfer, SequenceTheorems, WellFoundedInduction, TLAPS

(* Induction, as a fact about sets of numbers. *)
LEMMA Induct ==
  ASSUME NEW T, 0 \in T, \A n \in Nat : n \in T => n + 1 \in T
  PROVE  \A n \in Nat : n \in T
<1> DEFINE R == OpToRel(<, Nat)
           B == Nat \ T
<1>1. IsWellFoundedOn(R, Nat) /\ B \subseteq Nat
  BY NatLessThanWellFounded
<1>2. \A x, y \in Nat : <<x, y>> \in R <=> x < y
  BY DEF OpToRel
<1> HIDE DEF R
<1>3. ASSUME B # {} PROVE FALSE
  <2>1. PICK x \in B : \A y \in B : ~(<<y, x>> \in R)
    <3> HIDE DEF B
    <3> QED BY ONLY <1>1, <1>3, WFMin
  <2>2. x # 0 /\ x \in Nat
    BY <2>1
  <2>3. x - 1 \in Nat /\ x - 1 \notin T
    BY <2>1, <2>2
  <2>4. <<x - 1, x>> \in R
    BY <1>2, <2>2, <2>3
  <2> QED BY <2>1, <2>3, <2>4
<1> QED BY <1>3

(* The same up to a bound. *)
LEMMA InductTo ==
  ASSUME NEW T, NEW m \in Nat, 0 \in T, \A n \in 0 .. m - 1 : n \in T => n + 1 \in T
  PROVE  \A n \in 0 .. m : n \in T
<1> DEFINE U == T \cup {n \in Nat : n > m}
<1>1. 0 \in U
  OBVIOUS
<1>2. \A n \in Nat : n \in U => n + 1 \in U
  OBVIOUS
<1> HIDE DEF U
<1>3. \A n \in Nat : n \in U
  BY <1>1, <1>2, Induct
<1> QED BY <1>3 DEF U

(* Concatenation, by a name of its own that is expanded nowhere but here.  *)
Cat(a, b) == a \o b

(* The type and the length of a concatenation. *)
LEMMA CatType ==
  ASSUME NEW S, NEW a \in Seq(S), NEW b \in Seq(S)
  PROVE  Cat(a, b) \in Seq(S) /\ Len(Cat(a, b)) = Len(a) + Len(b)
BY ConcatProperties DEF Cat

LEMMA CatElements ==
  ASSUME NEW S, NEW a \in Seq(S), NEW b \in Seq(S)
  PROVE  \A i \in 1 .. Len(a) + Len(b) :
            Cat(a, b)[i] = IF i <= Len(a) THEN a[i] ELSE b[i - Len(a)]
BY ConcatProperties, Zenon DEF Cat

(* A function of the first n numbers is a sequence of length n. *)
LEMMA FunctionSeq ==
  ASSUME NEW S, NEW n \in Nat, NEW f \in [1 .. n -> S]
  PROVE  f \in Seq(S) /\ Len(f) = n
BY SeqDef

(* Concatenation is associative ... *)
LEMMA CatAssociative ==
  ASSUME NEW S, NEW a \in Seq(S), NEW b \in Seq(S), NEW c \in Seq(S)
  PROVE  Cat(Cat(a, b), c) = Cat(a, Cat(b, c))
BY ConcatAssociative DEF Cat

(* ... and the empty sequence is neutral. *)
LEMMA CatEmpty ==
  ASSUME NEW S, NEW a \in Seq(S)
  PROVE  Cat(<<>>, a) = a /\ Cat(a, <<>>) = a
BY ConcatEmptySeq DEF Cat

-----------------------------------------------------------------------------
(* Folds.  The largest number of a segment is its end. *)
LEMMA MaxSegment ==
  ASSUME NEW k \in Nat, k > 0
  PROVE  Max(1 .. k) = k /\ (1 .. k) \ {k} = 1 .. k - 1
BY DEF Max

LEMMA MaxWithin ==
  ASSUME NEW k \in Nat, NEW s \in SUBSET (1 .. k + 1), k + 1 \in s
  PROVE  Max(s) = k + 1 /\ s \ {k + 1} \in SUBSET (1 .. k)
<1>1. \A y \in s : y \in Int /\ k + 1 >= y
  OBVIOUS
<1>2. Max(s) \in s /\ \A y \in s : Max(s) >= y
  BY <1>1 DEF Max
<1>3. Max(s) = k + 1
  <2>1. Max(s) \in Int /\ k + 1 >= Max(s)
    BY <1>1, <1>2, Zenon
  <2>2. Max(s) >= k + 1
    BY <1>2, Zenon
  <2> QED BY <2>1, <2>2
<1>4. \A x \in s \ {k + 1} : x \in 1 .. k
  OBVIOUS
<1> QED BY <1>3, <1>4

LEMMA MaxOfSubset ==
  ASSUME NEW n \in Nat
  PROVE  \A s \in SUBSET (1 .. n) : s # {} => Max(s) \in 1 .. n
<1> DEFINE T == {k \in Nat : \A s \in SUBSET (1 .. k) : s # {} => Max(s) \in 1 .. k}
<1>1. 0 \in T
  <2>1. \A s \in SUBSET (1 .. 0) : s = {}
    OBVIOUS
  <2> QED BY <2>1
<1>2. ASSUME NEW k \in Nat, k \in T PROVE k + 1 \in T
  <2> SUFFICES ASSUME NEW s \in SUBSET (1 .. k + 1), s # {} PROVE Max(s) \in 1 .. k + 1
    OBVIOUS
  <2>1. CASE k + 1 \in s
    BY <2>1, MaxWithin
  <2>2. CASE k + 1 \notin s
    <3>1. s \in SUBSET (1 .. k)
      BY <2>2
    <3>2. Max(s) \in 1 .. k
      BY <1>2, <3>1
    <3> QED BY <3>2
  <2> QED BY <2>1, <2>2
<1> HIDE DEF T
<1>3. \A k \in Nat : k \in T
  BY <1>1, <1>2, Induct
<1> QED BY <1>3 DEF T

(* What FoldLeft recurs over: the subsets of the first n numbers. *)
FoldSteps(base, step, n) ==
  {g \in [SUBSET (1 .. n) -> DOMAIN step] :
     \A s \in SUBSET (1 .. n) :
        g[s] = IF s = {} THEN base ELSE step[g[s \ {Max(s)}]][Max(s)]}

LEMMA FoldExists ==
  ASSUME NEW A, NEW base \in A, NEW m \in Nat, NEW step \in [A -> [1 .. m -> A]]
  PROVE  FoldSteps(base, step, m) # {}
<1> DEFINE T == {n \in Nat : n <= m => FoldSteps(base, step, n) # {}}
<1>0. DOMAIN step = A
  OBVIOUS
<1>1. 0 \in T
  <2> DEFINE g == [s \in SUBSET (1 .. 0) |-> base]
  <2>1. \A s \in SUBSET (1 .. 0) : s = {}
    OBVIOUS
  <2>2. g \in FoldSteps(base, step, 0)
    BY <1>0, <2>1 DEF FoldSteps
  <2> QED BY <2>2
<1>2. ASSUME NEW n \in Nat, n \in T PROVE n + 1 \in T
  <2> SUFFICES ASSUME n + 1 <= m PROVE FoldSteps(base, step, n + 1) # {}
    OBVIOUS
  <2>1. PICK g : g \in FoldSteps(base, step, n)
    BY <1>2
  <2>2. g \in [SUBSET (1 .. n) -> A]
    BY <1>0, <2>1 DEF FoldSteps
  <2>3. \A s \in SUBSET (1 .. n) :
          g[s] = IF s = {} THEN base ELSE step[g[s \ {Max(s)}]][Max(s)]
    BY <2>1 DEF FoldSteps
  <2> DEFINE h == [s \in SUBSET (1 .. n + 1) |->
                     IF n + 1 \in s THEN step[g[s \ {n + 1}]][n + 1] ELSE g[s]]
  <2>4. ASSUME NEW s \in SUBSET (1 .. n + 1), n + 1 \in s
        PROVE  /\ h[s] \in A /\ s # {}
               /\ h[s] = step[h[s \ {Max(s)}]][Max(s)]
    <3>1. Max(s) = n + 1 /\ s \ {n + 1} \in SUBSET (1 .. n)
      BY <2>4, MaxWithin
    <3>2. g[s \ {n + 1}] \in A
      BY <2>2, <3>1
    <3>3. h[s \ {n + 1}] = g[s \ {n + 1}]
      BY <3>1
    <3>4. n + 1 \in 1 .. m
      OBVIOUS
    <3>5. step[g[s \ {n + 1}]][n + 1] \in A
      BY <3>2, <3>4
    <3> QED BY <2>4, <3>1, <3>3, <3>5
  <2>5. ASSUME NEW s \in SUBSET (1 .. n + 1), n + 1 \notin s
        PROVE  /\ h[s] \in A
               /\ h[s] = IF s = {} THEN base ELSE step[h[s \ {Max(s)}]][Max(s)]
    <3>1. s \in SUBSET (1 .. n) /\ h[s] = g[s]
      BY <2>5
    <3>2. s \ {Max(s)} \in SUBSET (1 .. n) /\ h[s \ {Max(s)}] = g[s \ {Max(s)}]
      <4> DEFINE r == s \ {Max(s)}
      <4>1. r \in SUBSET (1 .. n) /\ r \in SUBSET (1 .. n + 1) /\ n + 1 \notin r
        BY <2>5, <3>1
      <4> HIDE DEF r
      <4>2. h[r] = g[r]
        BY <4>1
      <4> QED BY <4>1, <4>2 DEF r
    <3> HIDE DEF h
    <3> QED BY <2>2, <2>3, <3>1, <3>2
  <2> HIDE DEF h
  <2>6. h \in [SUBSET (1 .. n + 1) -> A]
    <3>1. h = [s \in SUBSET (1 .. n + 1) |-> h[s]]
      BY DEF h
    <3> QED BY <2>4, <2>5, <3>1
  <2>7. h \in FoldSteps(base, step, n + 1)
    BY <1>0, <2>4, <2>5, <2>6 DEF FoldSteps
  <2> QED BY <2>7
<1> HIDE DEF T
<1>3. \A n \in Nat : n \in T
  BY <1>1, <1>2, Induct
<1> QED BY <1>3 DEF T

(* A function that recurs like the fold runs through the numbers in order. *)
Recurs(h, A, base, step, m) ==
  /\ h[{}] = base
  /\ \A s \in SUBSET (1 .. m) :
        s # {} /\ h[s \ {Max(s)}] \in A => h[s] = step[h[s \ {Max(s)}]][Max(s)]

RunsTo(last, A, base, step, m) ==
  \E H \in [0 .. m -> A] :
    /\ H[0] = base /\ H[m] = last
    /\ \A k \in 1 .. m : H[k] = step[H[k - 1]][k]

LEMMA FoldUnroll ==
  ASSUME NEW A, NEW base \in A, NEW m \in Nat, NEW step \in [A -> [1 .. m -> A]], NEW h,
         Recurs(h, A, base, step, m)
  PROVE  RunsTo(h[1 .. m], A, base, step, m)
<1> DEFINE T == {k \in 0 .. m : h[1 .. k] \in A}
           H == [k \in 0 .. m |-> h[1 .. k]]
<1> USE DEF Recurs
<1>1. 1 .. 0 = {}
  OBVIOUS
<1>2. 0 \in T
  BY <1>1
<1>3. ASSUME NEW k \in 1 .. m, h[1 .. k - 1] \in A
      PROVE  h[1 .. k] = step[h[1 .. k - 1]][k]
  <2>1. Max(1 .. k) = k /\ (1 .. k) \ {k} = 1 .. k - 1
    BY MaxSegment
  <2>2. 1 \in 1 .. k
    OBVIOUS
  <2>3. \A i \in 1 .. k : i \in 1 .. m
    OBVIOUS
  <2>4. 1 .. k # {} /\ 1 .. k \in SUBSET (1 .. m)
    BY <2>2, <2>3
  <2> QED BY <1>3, <2>1, <2>4
<1>4. ASSUME NEW k \in 0 .. m - 1, k \in T PROVE k + 1 \in T
  <2>1. k + 1 \in 1 .. m /\ (k + 1) - 1 = k
    OBVIOUS
  <2>2. h[1 .. k] \in A
    BY <1>4
  <2>3. h[1 .. k + 1] = step[h[1 .. k]][k + 1]
    BY <1>3, <2>1, <2>2
  <2>4. step[h[1 .. k]][k + 1] \in A
    BY <2>1, <2>2
  <2> QED BY <2>1, <2>3, <2>4
<1> HIDE DEF T
<1>5. \A k \in 0 .. m : k \in T
  BY <1>2, <1>4, InductTo
<1>6. \A k \in 0 .. m : h[1 .. k] \in A
  BY <1>5 DEF T
<1>7. H \in [0 .. m -> A]
  BY <1>6
<1>8. H[0] = base /\ H[m] = h[1 .. m]
  BY <1>1
<1>9. \A k \in 1 .. m : H[k] = step[H[k - 1]][k]
  BY <1>3, <1>6
<1> QED BY <1>7, <1>8, <1>9 DEF RunsTo

(* Some function solves the equation of the fold, so the one chosen does. *)
Solves(g, A, base, step, m) ==
  /\ g = [s \in SUBSET (1 .. m) |-> g[s]]
  /\ \A s \in SUBSET (1 .. m) :
       /\ s = {} => g[s] = base
       /\ s # {} => /\ Max(s) \in 1 .. m
                    /\ g[s \ {Max(s)}] \in A
                    /\ g[s] = step[g[s \ {Max(s)}]][Max(s)]

LEMMA FoldSolution ==
  ASSUME NEW A, NEW base \in A, NEW m \in Nat, NEW step \in [A -> [1 .. m -> A]]
  PROVE  \E g : Solves(g, A, base, step, m)
<1>1. FoldSteps(base, step, m) # {} /\ DOMAIN step = A
  BY FoldExists
<1>2. PICK g : g \in FoldSteps(base, step, m)
  BY <1>1
<1>3. g \in [SUBSET (1 .. m) -> A]
  BY <1>1, <1>2 DEF FoldSteps
<1>4. \A s \in SUBSET (1 .. m) :
        g[s] = IF s = {} THEN base ELSE step[g[s \ {Max(s)}]][Max(s)]
  BY <1>2 DEF FoldSteps
<1>5. \A s \in SUBSET (1 .. m) : g[s \ {Max(s)}] \in A
  BY <1>3
<1> QED BY <1>3, <1>4, <1>5, MaxOfSubset DEF Solves

(* For every start and every step there is such a run. *)
LEMMA RunExists ==
  ASSUME NEW A, NEW base \in A, NEW m \in Nat, NEW step \in [A -> [1 .. m -> A]]
  PROVE  \E last : RunsTo(last, A, base, step, m)
<1>1. PICK g : Solves(g, A, base, step, m)
  BY FoldSolution
<1>2. Recurs(g, A, base, step, m)
  BY <1>1 DEF Solves, Recurs
<1> QED BY <1>2, FoldUnroll

(* FlattenSeq puts one sequence after the other: P[k] is the first k. *)
Flattens(P, S, seqs) ==
  /\ P \in [0 .. Len(seqs) -> Seq(S)]
  /\ P[0] = <<>>
  /\ \A k \in 1 .. Len(seqs) : P[k] = Cat(P[k - 1], seqs[k])
  /\ FlattenSeq(seqs) = P[Len(seqs)]

LEMMA FlattenRuns ==
  ASSUME NEW S, NEW seqs \in Seq(Seq(S))
  PROVE  \E P : Flattens(P, S, seqs)
<1> DEFINE n == Len(seqs)
           step == [a \in Seq(S) |-> [k \in 1 .. n |-> Cat(a, seqs[k])]]
           Eqn(f) == f = [i \in 1 .. n |-> IF i = 1 THEN seqs[i] ELSE f[i - 1] \o seqs[i]]
           f0 == CHOOSE f : Eqn(f)
<1>1. n \in Nat /\ \A k \in 1 .. n : seqs[k] \in Seq(S)
  BY LenProperties, ElementOfSeq
<1>2. <<>> \in Seq(S)
  BY EmptySeq
<1>3. \A a, b \in Seq(S) : Cat(a, b) \in Seq(S)
  BY CatType
<1>4. step \in [Seq(S) -> [1 .. n -> Seq(S)]]
  BY <1>1, <1>3
<1> HIDE DEF n
<1>5. \E last : RunsTo(last, Seq(S), <<>>, step, n)
  <2> HIDE DEF step
  <2> QED BY <1>1, <1>2, <1>4, RunExists
<1>6. PICK P \in [0 .. n -> Seq(S)] :
        P[0] = <<>> /\ \A k \in 1 .. n : P[k] = step[P[k - 1]][k]
  BY <1>5 DEF RunsTo
<1>7. ASSUME NEW k \in 1 .. n PROVE P[k - 1] \in Seq(S) /\ P[k] = Cat(P[k - 1], seqs[k])
  <2>1. P[k - 1] \in Seq(S)
    BY <1>1
  <2> QED BY <1>6, <2>1
<1> HIDE DEF step
<1> DEFINE g == [i \in 1 .. n |-> P[i]]
<1>8. Eqn(g)
  <2>1. ASSUME NEW i \in 1 .. n
        PROVE  g[i] = IF i = 1 THEN seqs[i] ELSE g[i - 1] \o seqs[i]
    <3>1. CASE i = 1
      <4>1. P[1] = Cat(<<>>, seqs[1]) /\ seqs[1] \in Seq(S)
        BY <1>1, <1>6, <1>7, <3>1
      <4> QED BY <3>1, <4>1, CatEmpty
    <3>2. CASE i # 1
      <4>1. i - 1 \in 1 .. n
        BY <1>1, <3>2
      <4> QED BY <1>7, <3>2, <4>1 DEF Cat
    <3> QED BY <3>1, <3>2
  <2> HIDE DEF g
  <2>2. g = [i \in 1 .. n |-> g[i]]
    BY DEF g
  <2> QED BY <2>1, <2>2
<1>9. Eqn(f0)
  <2> HIDE DEF Eqn
  <2> QED BY <1>8
<1>10. n > 0 => FlattenSeq(seqs) = f0[n]
  BY <1>1 DEF FlattenSeq, n
<1> HIDE DEF f0
<1> DEFINE T == {k \in 0 .. n : k > 0 => f0[k] = P[k]}
<1>11. 0 \in T
  BY <1>1
<1>12. ASSUME NEW k \in 0 .. n - 1, k \in T PROVE k + 1 \in T
  <2>1. k + 1 \in 1 .. n /\ (k + 1) - 1 = k
    BY <1>1
  <2>2. f0[k + 1] = IF k + 1 = 1 THEN seqs[k + 1] ELSE f0[(k + 1) - 1] \o seqs[k + 1]
    BY <1>9, <2>1
  <2>3. ASSUME k = 0 PROVE f0[k + 1] = P[k + 1]
    <3>1. P[1] = Cat(<<>>, seqs[1]) /\ seqs[1] \in Seq(S)
      BY <1>1, <1>6, <1>7, <2>1, <2>3
    <3>2. P[1] = seqs[1]
      BY <3>1, CatEmpty
    <3> QED BY <2>1, <2>2, <2>3, <3>2
  <2>4. ASSUME k # 0 PROVE f0[k + 1] = P[k + 1]
    <3>1. f0[k] = P[k]
      BY <1>12, <2>4
    <3>2. P[k + 1] = Cat(P[k], seqs[k + 1])
      BY <1>7, <2>1
    <3>3. f0[k + 1] = f0[(k + 1) - 1] \o seqs[k + 1]
      <4>1. k + 1 # 1
        BY <2>4
      <4> QED BY <2>2, <4>1
    <3>4. f0[k + 1] = f0[k] \o seqs[k + 1]
      BY <2>1, <3>3
    <3> QED BY <3>1, <3>2, <3>4 DEF Cat
  <2>5. f0[k + 1] = P[k + 1] /\ k + 1 \in 0 .. n
    <3> HIDE DEF T
    <3> QED BY <2>1, <2>3, <2>4
  <2> QED BY <2>5
<1> HIDE DEF T
<1>13. \A k \in 0 .. n : k \in T
  BY <1>1, <1>11, <1>12, InductTo
<1>14. FlattenSeq(seqs) = P[n]
  <2>1. CASE n = 0
    <3>1. seqs = <<>>
      BY <2>1, EmptySeq DEF n
    <3> QED BY <1>6, <2>1, <3>1 DEF FlattenSeq, n
  <2>2. CASE n # 0
    <3>1. n \in T /\ n > 0
      BY <1>1, <1>13, <2>2
    <3> QED BY <1>10, <3>1 DEF T
  <2> QED BY <2>1, <2>2
<1> QED BY <1>6, <1>7, <1>14 DEF Flattens, n

-----------------------------------------------------------------------------
(* The folds of the codecs: one step of each, the fold, and that it runs   *)
(* through the numbers in order, whatever its steps do.                    *)
PutStep(arr, type, acc, k) ==
  IF acc.ok THEN PutOne(acc, type, arr[k]) ELSE acc

PutFold(arr, type, base, m) ==
  FoldLeft(LAMBDA acc, k : IF acc.ok THEN PutOne(acc, type, arr[k]) ELSE acc,
           base, Indexes(m))

AddStep(arr, type, acc, k) ==
  IF acc.ok THEN AddOne(acc, type, arr[k]) ELSE acc

AddFold(arr, type, base, m) ==
  FoldLeft(LAMBDA acc, k : IF acc.ok THEN AddOne(acc, type, arr[k]) ELSE acc,
           base, Indexes(m))

GetStep(bytes, type, acc, k) ==
  Followed(acc, GetOne(bytes, acc.offset, type))

GetFold(bytes, type, base, m) ==
  FoldLeft(LAMBDA acc, k : Followed(acc, GetOne(bytes, acc.offset, type)),
           base, Indexes(m))

ToStep(types, vals, acc, k) ==
  IF acc.ok THEN PutValue(acc, types[k], vals[k]) ELSE acc

ToFold(types, vals, base, m) ==
  FoldLeft(LAMBDA acc, k : IF acc.ok THEN PutValue(acc, types[k], vals[k]) ELSE acc,
           base, Indexes(m))

GoToStep(types, vals, acc, k) ==
  IF acc.ok THEN AddValue(acc, types[k], vals[k]) ELSE acc

GoToFold(types, vals, base, m) ==
  FoldLeft(LAMBDA acc, k : IF acc.ok THEN AddValue(acc, types[k], vals[k]) ELSE acc,
           base, Indexes(m))

FromStep(types, bytes, acc, k) ==
  Followed(acc, GetValue(bytes, acc.offset, types[k]))

FromFold(types, bytes, base, m) ==
  FoldLeft(LAMBDA acc, k : Followed(acc, GetValue(bytes, acc.offset, types[k])),
           base, Indexes(m))

GoFromStep(types, bytes, acc, k) ==
  Followed(acc, GoGetValue(bytes, acc.offset, types[k]))

GoFromFold(types, bytes, base, m) ==
  FoldLeft(LAMBDA acc, k : Followed(acc, GoGetValue(bytes, acc.offset, types[k])),
           base, Indexes(m))

LEMMA PutRuns ==
  ASSUME NEW arr, NEW type, NEW A, NEW base \in A, NEW m \in Nat,
         NEW step \in [A -> [1 .. m -> A]],
         \A acc \in A, k \in 1 .. m : step[acc][k] = PutStep(arr, type, acc, k)
  PROVE  RunsTo(PutFold(arr, type, base, m), A, base, step, m)
<1> DEFINE Eqn(f) == f = [s \in SUBSET DOMAIN Indexes(m) |->
                            IF s = {} THEN base
                            ELSE PutStep(arr, type, f[s \ {Max(s)}], Indexes(m)[Max(s)])]
           h == CHOOSE f : Eqn(f)
<1>1. DOMAIN Indexes(m) = 1 .. m /\ \A k \in 1 .. m : Indexes(m)[k] = k
  BY DEF Indexes
<1>2. PutFold(arr, type, base, m) = h[1 .. m]
  BY <1>1 DEF PutFold, PutStep, FoldLeft, MapThenFoldSet
<1>3. PICK g : Solves(g, A, base, step, m)
  BY FoldSolution
<1>4. Eqn(g)
  <2>1. ASSUME NEW s \in SUBSET (1 .. m)
        PROVE  g[s] = IF s = {} THEN base
                      ELSE PutStep(arr, type, g[s \ {Max(s)}], Indexes(m)[Max(s)])
    <3>1. CASE s = {}
      BY <1>3, <3>1 DEF Solves
    <3>2. CASE s # {}
      <4>1. /\ Max(s) \in 1 .. m /\ g[s \ {Max(s)}] \in A
            /\ g[s] = step[g[s \ {Max(s)}]][Max(s)]
        BY <1>3, <3>2 DEF Solves
      <4> QED BY <1>1, <3>2, <4>1
    <3> QED BY <3>1, <3>2
  <2>2. g = [s \in SUBSET (1 .. m) |-> g[s]]
    BY <1>3 DEF Solves
  <2> QED BY <1>1, <2>1, <2>2
<1>5. Eqn(h)
  <2> HIDE DEF Eqn
  <2> QED BY <1>4
<1> HIDE DEF h
<1>6. Recurs(h, A, base, step, m)
  <2>1. \A s \in SUBSET (1 .. m) :
          h[s] = IF s = {} THEN base
                 ELSE PutStep(arr, type, h[s \ {Max(s)}], Indexes(m)[Max(s)])
    BY <1>1, <1>5
  <2>2. ASSUME NEW s \in SUBSET (1 .. m), s # {}, h[s \ {Max(s)}] \in A
        PROVE  h[s] = step[h[s \ {Max(s)}]][Max(s)]
    <3>1. Max(s) \in 1 .. m
      BY <2>2, MaxOfSubset
    <3>2. h[s] = PutStep(arr, type, h[s \ {Max(s)}], Max(s))
      BY <1>1, <2>1, <2>2, <3>1
    <3> QED BY <2>2, <3>1, <3>2
  <2>3. h[{}] = base
    BY <2>1
  <2> QED BY <2>2, <2>3 DEF Recurs
<1>7. RunsTo(h[1 .. m], A, base, step, m)
  BY <1>6, FoldUnroll
<1> QED BY <1>2, <1>7

LEMMA AddRuns ==
  ASSUME NEW arr, NEW type, NEW A, NEW base \in A, NEW m \in Nat,
         NEW step \in [A -> [1 .. m -> A]],
         \A acc \in A, k \in 1 .. m : step[acc][k] = AddStep(arr, type, acc, k)
  PROVE  RunsTo(AddFold(arr, type, base, m), A, base, step, m)
<1> DEFINE Eqn(f) == f = [s \in SUBSET DOMAIN Indexes(m) |->
                            IF s = {} THEN base
                            ELSE AddStep(arr, type, f[s \ {Max(s)}], Indexes(m)[Max(s)])]
           h == CHOOSE f : Eqn(f)
<1>1. DOMAIN Indexes(m) = 1 .. m /\ \A k \in 1 .. m : Indexes(m)[k] = k
  BY DEF Indexes
<1>2. AddFold(arr, type, base, m) = h[1 .. m]
  BY <1>1 DEF AddFold, AddStep, FoldLeft, MapThenFoldSet
<1>3. PICK g : Solves(g, A, base, step, m)
  BY FoldSolution
<1>4. Eqn(g)
  <2>1. ASSUME NEW s \in SUBSET (1 .. m)
        PROVE  g[s] = IF s = {} THEN base
                      ELSE AddStep(arr, type, g[s \ {Max(s)}], Indexes(m)[Max(s)])
    <3>1. CASE s = {}
      BY <1>3, <3>1 DEF Solves
    <3>2. CASE s # {}
      <4>1. /\ Max(s) \in 1 .. m /\ g[s \ {Max(s)}] \in A
            /\ g[s] = step[g[s \ {Max(s)}]][Max(s)]
        BY <1>3, <3>2 DEF Solves
      <4> QED BY <1>1, <3>2, <4>1
    <3> QED BY <3>1, <3>2
  <2>2. g = [s \in SUBSET (1 .. m) |-> g[s]]
    BY <1>3 DEF Solves
  <2> QED BY <1>1, <2>1, <2>2
<1>5. Eqn(h)
  <2> HIDE DEF Eqn
  <2> QED BY <1>4
<1> HIDE DEF h
<1>6. Recurs(h, A, base, step, m)
  <2>1. \A s \in SUBSET (1 .. m) :
          h[s] = IF s = {} THEN base
                 ELSE AddStep(arr, type, h[s \ {Max(s)}], Indexes(m)[Max(s)])
    BY <1>1, <1>5
  <2>2. ASSUME NEW s \in SUBSET (1 .. m), s # {}, h[s \ {Max(s)}] \in A
        PROVE  h[s] = step[h[s \ {Max(s)}]][Max(s)]
    <3>1. Max(s) \in 1 .. m
      BY <2>2, MaxOfSubset
    <3>2. h[s] = AddStep(arr, type, h[s \ {Max(s)}], Max(s))
      BY <1>1, <2>1, <2>2, <3>1
    <3> QED BY <2>2, <3>1, <3>2
  <2>3. h[{}] = base
    BY <2>1
  <2> QED BY <2>2, <2>3 DEF Recurs
<1>7. RunsTo(h[1 .. m], A, base, step, m)
  BY <1>6, FoldUnroll
<1> QED BY <1>2, <1>7

LEMMA GetRuns ==
  ASSUME NEW bytes, NEW type, NEW A, NEW base \in A, NEW m \in Nat,
         NEW step \in [A -> [1 .. m -> A]],
         \A acc \in A, k \in 1 .. m : step[acc][k] = GetStep(bytes, type, acc, k)
  PROVE  RunsTo(GetFold(bytes, type, base, m), A, base, step, m)
<1> DEFINE Eqn(f) == f = [s \in SUBSET DOMAIN Indexes(m) |->
                            IF s = {} THEN base
                            ELSE GetStep(bytes, type, f[s \ {Max(s)}], Indexes(m)[Max(s)])]
           h == CHOOSE f : Eqn(f)
<1>1. DOMAIN Indexes(m) = 1 .. m /\ \A k \in 1 .. m : Indexes(m)[k] = k
  BY DEF Indexes
<1>2. GetFold(bytes, type, base, m) = h[1 .. m]
  BY <1>1 DEF GetFold, GetStep, FoldLeft, MapThenFoldSet
<1>3. PICK g : Solves(g, A, base, step, m)
  BY FoldSolution
<1>4. Eqn(g)
  <2>1. ASSUME NEW s \in SUBSET (1 .. m)
        PROVE  g[s] = IF s = {} THEN base
                      ELSE GetStep(bytes, type, g[s \ {Max(s)}], Indexes(m)[Max(s)])
    <3>1. CASE s = {}
      BY <1>3, <3>1 DEF Solves
    <3>2. CASE s # {}
      <4>1. /\ Max(s) \in 1 .. m /\ g[s \ {Max(s)}] \in A
            /\ g[s] = step[g[s \ {Max(s)}]][Max(s)]
        BY <1>3, <3>2 DEF Solves
      <4> QED BY <1>1, <3>2, <4>1
    <3> QED BY <3>1, <3>2
  <2>2. g = [s \in SUBSET (1 .. m) |-> g[s]]
    BY <1>3 DEF Solves
  <2> QED BY <1>1, <2>1, <2>2
<1>5. Eqn(h)
  <2> HIDE DEF Eqn
  <2> QED BY <1>4
<1> HIDE DEF h
<1>6. Recurs(h, A, base, step, m)
  <2>1. \A s \in SUBSET (1 .. m) :
          h[s] = IF s = {} THEN base
                 ELSE GetStep(bytes, type, h[s \ {Max(s)}], Indexes(m)[Max(s)])
    BY <1>1, <1>5
  <2>2. ASSUME NEW s \in SUBSET (1 .. m), s # {}, h[s \ {Max(s)}] \in A
        PROVE  h[s] = step[h[s \ {Max(s)}]][Max(s)]
    <3>1. Max(s) \in 1 .. m
      BY <2>2, MaxOfSubset
    <3>2. h[s] = GetStep(bytes, type, h[s \ {Max(s)}], Max(s))
      BY <1>1, <2>1, <2>2, <3>1
    <3> QED BY <2>2, <3>1, <3>2
  <2>3. h[{}] = base
    BY <2>1
  <2> QED BY <2>2, <2>3 DEF Recurs
<1>7. RunsTo(h[1 .. m], A, base, step, m)
  BY <1>6, FoldUnroll
<1> QED BY <1>2, <1>7

LEMMA ToRuns ==
  ASSUME NEW types, NEW vals, NEW A, NEW base \in A, NEW m \in Nat,
         NEW step \in [A -> [1 .. m -> A]],
         \A acc \in A, k \in 1 .. m : step[acc][k] = ToStep(types, vals, acc, k)
  PROVE  RunsTo(ToFold(types, vals, base, m), A, base, step, m)
<1> DEFINE Eqn(f) == f = [s \in SUBSET DOMAIN Indexes(m) |->
                            IF s = {} THEN base
                            ELSE ToStep(types, vals, f[s \ {Max(s)}], Indexes(m)[Max(s)])]
           h == CHOOSE f : Eqn(f)
<1>1. DOMAIN Indexes(m) = 1 .. m /\ \A k \in 1 .. m : Indexes(m)[k] = k
  BY DEF Indexes
<1>2. ToFold(types, vals, base, m) = h[1 .. m]
  BY <1>1 DEF ToFold, ToStep, FoldLeft, MapThenFoldSet
<1>3. PICK g : Solves(g, A, base, step, m)
  BY FoldSolution
<1>4. Eqn(g)
  <2>1. ASSUME NEW s \in SUBSET (1 .. m)
        PROVE  g[s] = IF s = {} THEN base
                      ELSE ToStep(types, vals, g[s \ {Max(s)}], Indexes(m)[Max(s)])
    <3>1. CASE s = {}
      BY <1>3, <3>1 DEF Solves
    <3>2. CASE s # {}
      <4>1. /\ Max(s) \in 1 .. m /\ g[s \ {Max(s)}] \in A
            /\ g[s] = step[g[s \ {Max(s)}]][Max(s)]
        BY <1>3, <3>2 DEF Solves
      <4> QED BY <1>1, <3>2, <4>1
    <3> QED BY <3>1, <3>2
  <2>2. g = [s \in SUBSET (1 .. m) |-> g[s]]
    BY <1>3 DEF Solves
  <2> QED BY <1>1, <2>1, <2>2
<1>5. Eqn(h)
  <2> HIDE DEF Eqn
  <2> QED BY <1>4
<1> HIDE DEF h
<1>6. Recurs(h, A, base, step, m)
  <2>1. \A s \in SUBSET (1 .. m) :
          h[s] = IF s = {} THEN base
                 ELSE ToStep(types, vals, h[s \ {Max(s)}], Indexes(m)[Max(s)])
    BY <1>1, <1>5
  <2>2. ASSUME NEW s \in SUBSET (1 .. m), s # {}, h[s \ {Max(s)}] \in A
        PROVE  h[s] = step[h[s \ {Max(s)}]][Max(s)]
    <3>1. Max(s) \in 1 .. m
      BY <2>2, MaxOfSubset
    <3>2. h[s] = ToStep(types, vals, h[s \ {Max(s)}], Max(s))
      BY <1>1, <2>1, <2>2, <3>1
    <3> QED BY <2>2, <3>1, <3>2
  <2>3. h[{}] = base
    BY <2>1
  <2> QED BY <2>2, <2>3 DEF Recurs
<1>7. RunsTo(h[1 .. m], A, base, step, m)
  BY <1>6, FoldUnroll
<1> QED BY <1>2, <1>7

LEMMA GoToRuns ==
  ASSUME NEW types, NEW vals, NEW A, NEW base \in A, NEW m \in Nat,
         NEW step \in [A -> [1 .. m -> A]],
         \A acc \in A, k \in 1 .. m : step[acc][k] = GoToStep(types, vals, acc, k)
  PROVE  RunsTo(GoToFold(types, vals, base, m), A, base, step, m)
<1> DEFINE Eqn(f) == f = [s \in SUBSET DOMAIN Indexes(m) |->
                            IF s = {} THEN base
                            ELSE GoToStep(types, vals, f[s \ {Max(s)}], Indexes(m)[Max(s)])]
           h == CHOOSE f : Eqn(f)
<1>1. DOMAIN Indexes(m) = 1 .. m /\ \A k \in 1 .. m : Indexes(m)[k] = k
  BY DEF Indexes
<1>2. GoToFold(types, vals, base, m) = h[1 .. m]
  BY <1>1 DEF GoToFold, GoToStep, FoldLeft, MapThenFoldSet
<1>3. PICK g : Solves(g, A, base, step, m)
  BY FoldSolution
<1>4. Eqn(g)
  <2>1. ASSUME NEW s \in SUBSET (1 .. m)
        PROVE  g[s] = IF s = {} THEN base
                      ELSE GoToStep(types, vals, g[s \ {Max(s)}], Indexes(m)[Max(s)])
    <3>1. CASE s = {}
      BY <1>3, <3>1 DEF Solves
    <3>2. CASE s # {}
      <4>1. /\ Max(s) \in 1 .. m /\ g[s \ {Max(s)}] \in A
            /\ g[s] = step[g[s \ {Max(s)}]][Max(s)]
        BY <1>3, <3>2 DEF Solves
      <4> QED BY <1>1, <3>2, <4>1
    <3> QED BY <3>1, <3>2
  <2>2. g = [s \in SUBSET (1 .. m) |-> g[s]]
    BY <1>3 DEF Solves
  <2> QED BY <1>1, <2>1, <2>2
<1>5. Eqn(h)
  <2> HIDE DEF Eqn
  <2> QED BY <1>4
<1> HIDE DEF h
<1>6. Recurs(h, A, base, step, m)
  <2>1. \A s \in SUBSET (1 .. m) :
          h[s] = IF s = {} THEN base
                 ELSE GoToStep(types, vals, h[s \ {Max(s)}], Indexes(m)[Max(s)])
    BY <1>1, <1>5
  <2>2. ASSUME NEW s \in SUBSET (1 .. m), s # {}, h[s \ {Max(s)}] \in A
        PROVE  h[s] = step[h[s \ {Max(s)}]][Max(s)]
    <3>1. Max(s) \in 1 .. m
      BY <2>2, MaxOfSubset
    <3>2. h[s] = GoToStep(types, vals, h[s \ {Max(s)}], Max(s))
      BY <1>1, <2>1, <2>2, <3>1
    <3> QED BY <2>2, <3>1, <3>2
  <2>3. h[{}] = base
    BY <2>1
  <2> QED BY <2>2, <2>3 DEF Recurs
<1>7. RunsTo(h[1 .. m], A, base, step, m)
  BY <1>6, FoldUnroll
<1> QED BY <1>2, <1>7

LEMMA FromRuns ==
  ASSUME NEW types, NEW bytes, NEW A, NEW base \in A, NEW m \in Nat,
         NEW step \in [A -> [1 .. m -> A]],
         \A acc \in A, k \in 1 .. m : step[acc][k] = FromStep(types, bytes, acc, k)
  PROVE  RunsTo(FromFold(types, bytes, base, m), A, base, step, m)
<1> DEFINE Eqn(f) == f = [s \in SUBSET DOMAIN Indexes(m) |->
                            IF s = {} THEN base
                            ELSE FromStep(types, bytes, f[s \ {Max(s)}], Indexes(m)[Max(s)])]
           h == CHOOSE f : Eqn(f)
<1>1. DOMAIN Indexes(m) = 1 .. m /\ \A k \in 1 .. m : Indexes(m)[k] = k
  BY DEF Indexes
<1>2. FromFold(types, bytes, base, m) = h[1 .. m]
  BY <1>1 DEF FromFold, FromStep, FoldLeft, MapThenFoldSet
<1>3. PICK g : Solves(g, A, base, step, m)
  BY FoldSolution
<1>4. Eqn(g)
  <2>1. ASSUME NEW s \in SUBSET (1 .. m)
        PROVE  g[s] = IF s = {} THEN base
                      ELSE FromStep(types, bytes, g[s \ {Max(s)}], Indexes(m)[Max(s)])
    <3>1. CASE s = {}
      BY <1>3, <3>1 DEF Solves
    <3>2. CASE s # {}
      <4>1. /\ Max(s) \in 1 .. m /\ g[s \ {Max(s)}] \in A
            /\ g[s] = step[g[s \ {Max(s)}]][Max(s)]
        BY <1>3, <3>2 DEF Solves
      <4> QED BY <1>1, <3>2, <4>1
    <3> QED BY <3>1, <3>2
  <2>2. g = [s \in SUBSET (1 .. m) |-> g[s]]
    BY <1>3 DEF Solves
  <2> QED BY <1>1, <2>1, <2>2
<1>5. Eqn(h)
  <2> HIDE DEF Eqn
  <2> QED BY <1>4
<1> HIDE DEF h
<1>6. Recurs(h, A, base, step, m)
  <2>1. \A s \in SUBSET (1 .. m) :
          h[s] = IF s = {} THEN base
                 ELSE FromStep(types, bytes, h[s \ {Max(s)}], Indexes(m)[Max(s)])
    BY <1>1, <1>5
  <2>2. ASSUME NEW s \in SUBSET (1 .. m), s # {}, h[s \ {Max(s)}] \in A
        PROVE  h[s] = step[h[s \ {Max(s)}]][Max(s)]
    <3>1. Max(s) \in 1 .. m
      BY <2>2, MaxOfSubset
    <3>2. h[s] = FromStep(types, bytes, h[s \ {Max(s)}], Max(s))
      BY <1>1, <2>1, <2>2, <3>1
    <3> QED BY <2>2, <3>1, <3>2
  <2>3. h[{}] = base
    BY <2>1
  <2> QED BY <2>2, <2>3 DEF Recurs
<1>7. RunsTo(h[1 .. m], A, base, step, m)
  BY <1>6, FoldUnroll
<1> QED BY <1>2, <1>7

LEMMA GoFromRuns ==
  ASSUME NEW types, NEW bytes, NEW A, NEW base \in A, NEW m \in Nat,
         NEW step \in [A -> [1 .. m -> A]],
         \A acc \in A, k \in 1 .. m : step[acc][k] = GoFromStep(types, bytes, acc, k)
  PROVE  RunsTo(GoFromFold(types, bytes, base, m), A, base, step, m)
<1> DEFINE Eqn(f) == f = [s \in SUBSET DOMAIN Indexes(m) |->
                            IF s = {} THEN base
                            ELSE GoFromStep(types, bytes, f[s \ {Max(s)}], Indexes(m)[Max(s)])]
           h == CHOOSE f : Eqn(f)
<1>1. DOMAIN Indexes(m) = 1 .. m /\ \A k \in 1 .. m : Indexes(m)[k] = k
  BY DEF Indexes
<1>2. GoFromFold(types, bytes, base, m) = h[1 .. m]
  BY <1>1 DEF GoFromFold, GoFromStep, FoldLeft, MapThenFoldSet
<1>3. PICK g : Solves(g, A, base, step, m)
  BY FoldSolution
<1>4. Eqn(g)
  <2>1. ASSUME NEW s \in SUBSET (1 .. m)
        PROVE  g[s] = IF s = {} THEN base
                      ELSE GoFromStep(types, bytes, g[s \ {Max(s)}], Indexes(m)[Max(s)])
    <3>1. CASE s = {}
      BY <1>3, <3>1 DEF Solves
    <3>2. CASE s # {}
      <4>1. /\ Max(s) \in 1 .. m /\ g[s \ {Max(s)}] \in A
            /\ g[s] = step[g[s \ {Max(s)}]][Max(s)]
        BY <1>3, <3>2 DEF Solves
      <4> QED BY <1>1, <3>2, <4>1
    <3> QED BY <3>1, <3>2
  <2>2. g = [s \in SUBSET (1 .. m) |-> g[s]]
    BY <1>3 DEF Solves
  <2> QED BY <1>1, <2>1, <2>2
<1>5. Eqn(h)
  <2> HIDE DEF Eqn
  <2> QED BY <1>4
<1> HIDE DEF h
<1>6. Recurs(h, A, base, step, m)
  <2>1. \A s \in SUBSET (1 .. m) :
          h[s] = IF s = {} THEN base
                 ELSE GoFromStep(types, bytes, h[s \ {Max(s)}], Indexes(m)[Max(s)])
    BY <1>1, <1>5
  <2>2. ASSUME NEW s \in SUBSET (1 .. m), s # {}, h[s \ {Max(s)}] \in A
        PROVE  h[s] = step[h[s \ {Max(s)}]][Max(s)]
    <3>1. Max(s) \in 1 .. m
      BY <2>2, MaxOfSubset
    <3>2. h[s] = GoFromStep(types, bytes, h[s \ {Max(s)}], Max(s))
      BY <1>1, <2>1, <2>2, <3>1
    <3> QED BY <2>2, <3>1, <3>2
  <2>3. h[{}] = base
    BY <2>1
  <2> QED BY <2>2, <2>3 DEF Recurs
<1>7. RunsTo(h[1 .. m], A, base, step, m)
  BY <1>6, FoldUnroll
<1> QED BY <1>2, <1>7

-----------------------------------------------------------------------------
(* Writing in C++.  The vector is never shorter than the offset, and what  *)
(* is in front of the offset has been written.                             *)
WState == {st \in [ok : BOOLEAN, replyOffset : Nat, message : Seq(Nat), overrun : BOOLEAN] :
             st.replyOffset <= Len(st.message)}

Written(st) == SubSeq(st.message, 1, st.replyOffset)

(* st2 is st with bytes written behind it. *)
Appends(st, st2, bytes) ==
  /\ st2 \in WState
  /\ st2.ok = st.ok /\ st2.overrun = st.overrun
  /\ Written(st2) = Cat(Written(st), bytes)

LEMMA WStateFields ==
  ASSUME NEW st \in WState
  PROVE  /\ st \in [ok : BOOLEAN, replyOffset : Nat, message : Seq(Nat), overrun : BOOLEAN]
         /\ st.ok \in BOOLEAN /\ st.overrun \in BOOLEAN
         /\ st.message \in Seq(Nat)
         /\ st.replyOffset \in Nat /\ Len(st.message) \in Nat
         /\ st.replyOffset <= Len(st.message)
         /\ Written(st) \in Seq(Nat)
         /\ Len(Written(st)) = st.replyOffset
         /\ \A i \in 1 .. st.replyOffset : Written(st)[i] = st.message[i]
<1>1. /\ st \in [ok : BOOLEAN, replyOffset : Nat, message : Seq(Nat), overrun : BOOLEAN]
      /\ st.replyOffset <= Len(st.message)
  BY DEF WState
<1>2. st.message \in Seq(Nat) /\ st.replyOffset \in Nat /\ Len(st.message) \in Nat
  BY <1>1, LenProperties
<1>3. \A i \in 1 .. st.replyOffset : st.message[i] \in Nat
  <2>1. \A i \in 1 .. Len(st.message) : st.message[i] \in Nat
    BY <1>2, ElementOfSeq
  <2> QED BY <1>1, <1>2, <2>1
<1>4. /\ Written(st) \in Seq(Nat)
      /\ Len(Written(st)) = IF 1 <= st.replyOffset THEN st.replyOffset - 1 + 1 ELSE 0
      /\ \A i \in 1 .. st.replyOffset - 1 + 1 : Written(st)[i] = st.message[1 + i - 1]
  BY <1>2, <1>3, SubSeqProperties DEF Written
<1>5. Len(Written(st)) = st.replyOffset
  BY <1>2, <1>4
<1>6. \A i \in 1 .. st.replyOffset : Written(st)[i] = st.message[i]
  BY <1>2, <1>4
<1> QED BY <1>1, <1>2, <1>4, <1>5, <1>6

(* Two states with the same bytes in front of the same offset. *)
LEMMA SameWritten ==
  ASSUME NEW st \in WState, NEW st2 \in WState, st2.replyOffset = st.replyOffset,
         \A i \in 1 .. st.replyOffset : st2.message[i] = st.message[i]
  PROVE  Written(st2) = Written(st)
<1>1. \A i \in 1 .. st.replyOffset : Written(st2)[i] = Written(st)[i]
  BY WStateFields
<1> QED BY <1>1, WStateFields, SeqEqual

LEMMA RefuseResult ==
  ASSUME NEW st \in WState
  PROVE  Refuse(st) \in WState /\ ~Refuse(st).ok
BY DEF WState, Refuse

(* The vector grows behind the offset, and then has room for n more. *)
LEMMA GrowResult ==
  ASSUME NEW st \in WState, NEW n \in Nat
  PROVE  /\ Grow(st, n) \in WState
         /\ Grow(st, n).ok = st.ok /\ Grow(st, n).overrun = st.overrun
         /\ Grow(st, n).replyOffset = st.replyOffset
         /\ st.replyOffset + n <= Len(Grow(st, n).message)
         /\ Written(Grow(st, n)) = Written(st)
<1> DEFINE zeros == [k \in 1 .. n |-> 0]
<1>1. zeros \in Seq(Nat) /\ Len(zeros) = n
  <2>1. zeros \in [1 .. n -> Nat]
    OBVIOUS
  <2> QED BY <2>1, SeqDef
<1> HIDE DEF zeros
<1>2. CASE Len(st.message) < st.replyOffset + n
  <2>1. Grow(st, n) = [st EXCEPT !.message = st.message \o zeros]
    BY <1>2 DEF Grow, zeros
  <2> DEFINE m == Cat(st.message, zeros)
  <2>2. /\ m \in Seq(Nat) /\ Len(m) = Len(st.message) + n
        /\ \A i \in 1 .. Len(st.message) + n :
             m[i] = IF i <= Len(st.message) THEN st.message[i] ELSE zeros[i - Len(st.message)]
    <3>1. st.message \in Seq(Nat)
      BY WStateFields
    <3>2. m \in Seq(Nat) /\ Len(m) = Len(st.message) + Len(zeros)
      BY <1>1, <3>1, CatType
    <3>3. \A i \in 1 .. Len(st.message) + Len(zeros) :
             m[i] = IF i <= Len(st.message) THEN st.message[i] ELSE zeros[i - Len(st.message)]
      BY <1>1, <3>1, CatElements
    <3> HIDE DEF m
    <3> QED BY <1>1, <3>2, <3>3
  <2> HIDE DEF m
  <2>3. /\ Grow(st, n) \in [ok : BOOLEAN, replyOffset : Nat, message : Seq(Nat), overrun : BOOLEAN]
        /\ Grow(st, n).ok = st.ok /\ Grow(st, n).overrun = st.overrun
        /\ Grow(st, n).replyOffset = st.replyOffset
        /\ Grow(st, n).message = m
    <3>1. Grow(st, n) = [st EXCEPT !.message = m]
      BY <2>1 DEF m, Cat
    <3> QED BY <2>2, <3>1, WStateFields
  <2>4. Len(m) = Len(st.message) + n /\ \A i \in 1 .. Len(st.message) : m[i] = st.message[i]
    BY <2>2, WStateFields
  <2>5. st.replyOffset + n <= Len(m) /\ st.replyOffset <= Len(m)
    BY <2>4, WStateFields
  <2>6. Grow(st, n) \in WState
    BY <2>3, <2>5 DEF WState
  <2>7. \A i \in 1 .. st.replyOffset : Grow(st, n).message[i] = st.message[i]
    BY <2>3, <2>4, WStateFields
  <2>8. Written(Grow(st, n)) = Written(st)
    BY <2>3, <2>6, <2>7, SameWritten
  <2> QED BY <2>3, <2>5, <2>6, <2>8
<1>3. CASE ~(Len(st.message) < st.replyOffset + n)
  BY <1>3, WStateFields DEF Grow
<1> QED BY <1>2, <1>3

(* Copying where there is room. *)
LEMMA CopyResult ==
  ASSUME NEW st \in WState, NEW bytes \in Seq(Nat),
         st.replyOffset + Len(bytes) <= Len(st.message)
  PROVE  Appends(st, Copy(st, bytes, Len(bytes)), bytes)
<1> DEFINE n == Len(bytes)
           off == st.replyOffset
           st2 == Copy(st, bytes, n)
           m == [k \in 1 .. Len(st.message) |->
                   IF k \in off + 1 .. off + n THEN bytes[k - off] ELSE st.message[k]]
<1>1. /\ n \in Nat /\ off \in Nat /\ Len(st.message) \in Nat /\ off + n <= Len(st.message)
      /\ DOMAIN st.message = 1 .. Len(st.message)
      /\ \A k \in 1 .. Len(st.message) : st.message[k] \in Nat
      /\ \A k \in 1 .. n : bytes[k] \in Nat
  BY WStateFields, LenProperties, ElementOfSeq
<1>2. m \in Seq(Nat) /\ Len(m) = Len(st.message)
  <2>1. m \in [1 .. Len(st.message) -> Nat]
    BY <1>1
  <2> HIDE DEF m
  <2> QED BY <1>1, <2>1, FunctionSeq
<1>3. /\ st2.ok = st.ok /\ st2.replyOffset = off + n /\ st2.message = m
      /\ st2.overrun = (st.overrun \/ off + n > Len(st.message))
      /\ st2 \in [ok : BOOLEAN, replyOffset : Nat, message : Seq(Nat), overrun : BOOLEAN]
  <2>1. st2 = [st EXCEPT !.message = m, !.overrun = st.overrun \/ off + n > Len(st.message),
                         !.replyOffset = off + n]
    BY <1>1 DEF Copy
  <2> HIDE DEF m, st2
  <2>2. /\ st \in [ok : BOOLEAN, replyOffset : Nat, message : Seq(Nat), overrun : BOOLEAN]
        /\ st.overrun \in BOOLEAN
    BY WStateFields
  <2>3. off + n \in Nat /\ (st.overrun \/ off + n > Len(st.message)) \in BOOLEAN
    BY <1>1
  <2> HIDE DEF off, n
  <2> QED BY <1>2, <2>1, <2>2, <2>3
<1>4. st2.overrun = st.overrun
  BY <1>1, <1>3, WStateFields
<1>5. st2 \in WState
  BY <1>1, <1>2, <1>3 DEF WState
<1>6. \A i \in 1 .. off + n :
        m[i] = IF i <= off THEN Written(st)[i] ELSE bytes[i - off]
  BY <1>1, WStateFields
<1> HIDE DEF m, st2
<1>7. /\ Cat(Written(st), bytes) \in Seq(Nat) /\ Len(Cat(Written(st), bytes)) = off + n
      /\ \A i \in 1 .. off + n :
           Cat(Written(st), bytes)[i] = IF i <= off THEN Written(st)[i] ELSE bytes[i - off]
  <2> DEFINE w == Written(st)
  <2>1. w \in Seq(Nat) /\ Len(w) = off
    BY WStateFields
  <2> HIDE DEF w
  <2>2. Cat(w, bytes) \in Seq(Nat) /\ Len(Cat(w, bytes)) = Len(w) + Len(bytes)
    BY <2>1, CatType
  <2>3. \A i \in 1 .. Len(w) + Len(bytes) :
           Cat(w, bytes)[i] = IF i <= Len(w) THEN w[i] ELSE bytes[i - Len(w)]
    BY <2>1, CatElements
  <2> QED BY <2>1, <2>2, <2>3 DEF w
<1>8. \A i \in 1 .. off + n : Written(st2)[i] = m[i]
  BY <1>3, <1>5, WStateFields
<1>9. Written(st2) \in Seq(Nat) /\ Len(Written(st2)) = off + n
  BY <1>3, <1>5, WStateFields
<1>10. Written(st2) = Cat(Written(st), bytes)
  <2> HIDE DEF n, off
  <2>1. \A i \in 1 .. Len(Written(st2)) : Written(st2)[i] = Cat(Written(st), bytes)[i]
    BY <1>6, <1>7, <1>8, <1>9
  <2> QED BY <1>7, <1>9, <2>1, SeqEqual
<1> QED BY <1>3, <1>4, <1>5, <1>10 DEF Appends, st2

LEMMA PutResult ==
  ASSUME NEW st \in WState, NEW bytes \in Seq(Nat)
  PROVE  Appends(st, Put(st, bytes), bytes)
<1> DEFINE grown == Grow(st, Len(bytes))
<1>1. /\ grown \in WState /\ grown.ok = st.ok /\ grown.overrun = st.overrun
      /\ grown.replyOffset + Len(bytes) <= Len(grown.message) /\ Written(grown) = Written(st)
  BY LenProperties, GrowResult
<1> HIDE DEF grown
<1>2. Appends(grown, Copy(grown, bytes, Len(bytes)), bytes)
  BY <1>1, CopyResult
<1> QED BY <1>1, <1>2 DEF Appends, Put, grown

(* Copying of whatever length never moves the offset behind the vector. *)
LEMMA CopyTyped ==
  ASSUME NEW st \in WState, NEW bytes \in Seq(Nat), NEW n \in Nat,
         st.replyOffset + n <= Len(st.message)
  PROVE  Copy(st, bytes, n) \in WState /\ Copy(st, bytes, n).ok = st.ok
<1> DEFINE off == st.replyOffset
           m == [k \in 1 .. Len(st.message) |->
                   IF k \in off + 1 .. off + Len(bytes) THEN bytes[k - off] ELSE st.message[k]]
           over == (st.overrun \/ off + Len(bytes) > Len(st.message))
<1>1. /\ Len(bytes) \in Nat /\ off \in Nat /\ Len(st.message) \in Nat
      /\ DOMAIN st.message = 1 .. Len(st.message)
      /\ \A k \in 1 .. Len(st.message) : st.message[k] \in Nat
      /\ \A k \in 1 .. Len(bytes) : bytes[k] \in Nat
  BY WStateFields, LenProperties, ElementOfSeq
<1>2. m \in Seq(Nat) /\ Len(m) = Len(st.message)
  <2>1. ASSUME NEW k \in off + 1 .. off + Len(bytes) PROVE bytes[k - off] \in Nat
    <3>1. k - off \in 1 .. Len(bytes)
      BY <1>1
    <3> QED BY <1>1, <3>1
  <2>2. m \in [1 .. Len(st.message) -> Nat]
    BY <1>1, <2>1
  <2> HIDE DEF m
  <2> QED BY <1>1, <2>2, FunctionSeq
<1>3. Copy(st, bytes, n) = [st EXCEPT !.message = m, !.overrun = over, !.replyOffset = off + n]
  BY <1>1 DEF Copy
<1>4. /\ st \in [ok : BOOLEAN, replyOffset : Nat, message : Seq(Nat), overrun : BOOLEAN]
      /\ over \in BOOLEAN /\ off + n \in Nat /\ off + n <= Len(m)
  BY <1>1, <1>2, WStateFields
<1> HIDE DEF m, over, off
<1> QED BY <1>2, <1>3, <1>4 DEF WState

(* One after the other. *)
LEMMA AppendsThen ==
  ASSUME NEW st \in WState, NEW a \in Seq(Nat), NEW b \in Seq(Nat), NEW st2, NEW st3,
         Appends(st, st2, a), Appends(st2, st3, b)
  PROVE  Appends(st, st3, Cat(a, b))
<1>1. Written(st) \in Seq(Nat)
  BY WStateFields
<1>2. Written(st3) = Cat(Cat(Written(st), a), b)
  BY DEF Appends
<1>3. Written(st3) = Cat(Written(st), Cat(a, b))
  BY <1>1, <1>2, CatAssociative
<1> QED BY <1>3 DEF Appends

LEMMA AppendsNone ==
  ASSUME NEW st \in WState
  PROVE  Appends(st, st, <<>>)
BY WStateFields, CatEmpty DEF Appends

LEMMA OneByte ==
  ASSUME NEW d \in Nat
  PROVE  <<d>> \in Seq(Nat) /\ Len(<<d>>) = 1 /\ <<d>>[1] = d
OBVIOUS

LEMMA TwoBytes ==
  ASSUME NEW d \in Nat, NEW e \in Nat
  PROVE  <<d, e>> \in Seq(Nat) /\ Len(<<d, e>>) = 2 /\ <<d, e>>[1] = d /\ <<d, e>>[2] = e
OBVIOUS

LEMMA DivMod ==
  ASSUME NEW n \in Nat
  PROVE  /\ n % Radix \in Nat /\ n % Radix < Radix /\ n \div Radix \in Nat
         /\ n < Radix => n % Radix = n
         /\ n = Radix => n % Radix = 0
         /\ n = (n % Radix) + Radix * (n \div Radix)
BY DSAssumption

(* A length is refused above the limit and truncated at it. *)
LEMMA PutLengthResult ==
  ASSUME NEW st \in WState, NEW n \in Nat
  PROVE  /\ PutLength(st, n) \in WState
         /\ n > Radix => ~PutLength(st, n).ok
         /\ n <= Radix => Appends(st, PutLength(st, n), <<n % Radix>>)
<1>0. Radix \in Nat
  BY DSAssumption
<1>1. CASE n > Radix
  <2>1. PutLength(st, n) = Refuse(Grow(st, 1))
    BY <1>1 DEF PutLength, TooLong
  <2>2. Grow(st, 1) \in WState
    BY GrowResult
  <2> QED BY <1>0, <1>1, <2>1, <2>2, RefuseResult
<1>2. CASE ~(n > Radix)
  <2>1. PutLength(st, n) = Put(st, <<n % Radix>>)
    BY <1>2 DEF PutLength, TooLong, LengthBytes
  <2>2. <<n % Radix>> \in Seq(Nat)
    BY DivMod, OneByte
  <2>3. Appends(st, Put(st, <<n % Radix>>), <<n % Radix>>)
    BY <2>2, PutResult
  <2> QED BY <1>0, <1>2, <2>1, <2>3 DEF Appends
<1> QED BY <1>1, <1>2

(* A string: of fewer than Radix bytes it is written as it is, of Radix    *)
(* bytes as one of none with the bytes behind it, and longer ones are      *)
(* refused. *)
LEMMA PutStringResult ==
  ASSUME NEW st \in WState, st.ok, NEW str \in Seq(Nat)
  PROVE  /\ PutString(st, str) \in WState
         /\ PutString(st, str).ok <=> Len(str) <= Radix
         /\ Len(str) < Radix => Appends(st, PutString(st, str), Cat(<<Len(str)>>, str))
<1> DEFINE n == Len(str)
           start == PutLength(st, n)
           size == n % Radix
           grown == Grow(start, size)
<1>0. Radix \in Nat /\ n \in Nat /\ size \in Nat
  BY DSAssumption, LenProperties, DivMod
<1>1. PutString(st, str) = IF start.ok THEN Copy(grown, str, size) ELSE start
  BY DEF PutString
<1>2. /\ start \in WState
      /\ n > Radix => ~start.ok
      /\ n <= Radix => Appends(st, start, <<size>>)
  <2> HIDE DEF n
  <2> QED BY <1>0, PutLengthResult
<1>3. /\ grown \in WState /\ grown.ok = start.ok /\ grown.overrun = start.overrun
      /\ grown.replyOffset + size <= Len(grown.message) /\ Written(grown) = Written(start)
  <2> HIDE DEF start, size
  <2> QED BY <1>0, <1>2, GrowResult
<1> HIDE DEF start, grown
<1>4. CASE n > Radix
  BY <1>0, <1>1, <1>2, <1>4
<1>5. CASE n = Radix
  <2>1. start.ok
    <3>1. Appends(st, start, <<size>>)
      BY <1>0, <1>2, <1>5
    <3> QED BY <3>1 DEF Appends
  <2>2. Copy(grown, str, size) \in WState /\ Copy(grown, str, size).ok = grown.ok
    <3> HIDE DEF size
    <3> QED BY <1>0, <1>3, CopyTyped
  <2>3. PutString(st, str) = Copy(grown, str, size)
    BY <1>1, <2>1
  <2>4. PutString(st, str) \in WState /\ PutString(st, str).ok
    BY <1>3, <2>1, <2>2, <2>3
  <2> QED BY <1>0, <1>5, <2>4
<1>6. CASE n < Radix
  <2>1. size = n
    BY <1>0, <1>6, DivMod
  <2>2. Appends(st, start, <<n>>) /\ start.ok
    <3>1. Appends(st, start, <<n>>)
      BY <1>0, <1>2, <1>6, <2>1
    <3> QED BY <3>1 DEF Appends
  <2>3. Appends(grown, Copy(grown, str, n), str)
    BY <1>3, <2>1, CopyResult
  <2>4. Appends(start, PutString(st, str), str)
    BY <1>1, <1>3, <2>1, <2>2, <2>3 DEF Appends
  <2>5. Appends(st, PutString(st, str), Cat(<<n>>, str))
    <3>1. <<n>> \in Seq(Nat)
      BY <1>0, OneByte
    <3> HIDE DEF n
    <3> QED BY <2>2, <2>4, <3>1, AppendsThen
  <2>6. PutString(st, str) \in WState /\ PutString(st, str).ok
    BY <2>2, <2>4 DEF Appends
  <2> QED BY <1>0, <1>6, <2>5, <2>6
<1> QED BY <1>0, <1>4, <1>5, <1>6

-----------------------------------------------------------------------------
(* Elements: a number, a string or a wide string, what the latter two say  *)
(* as bytes, and how it is written.                                        *)
ElemTypes == {"i", "s", "w"}

IsElem(type, val) ==
  /\ type \in ElemTypes
  /\ type = "i" => val \in Numbers
  /\ type = "s" => val \in Seq(Digits)
  /\ type = "w" => val \in Seq(WideChars)

Said(type, val) == IF type = "w" THEN ToBytes(val) ELSE val

ElemLen(type, val) == IF type = "i" THEN 0 ELSE Len(Said(type, val))

PlainFormat(type, said) == IF type = "i" THEN NumberFormat(said) ELSE Cat(<<Len(said)>>, said)

ElemFormat(type, val) == PlainFormat(type, Said(type, val))

LEMMA DigitsAreNumbers ==
  /\ Digits \subseteq Nat /\ Numbers \subseteq Nat /\ WideChars \subseteq Nat
  /\ Lead \in Digits /\ Lead > 0
  /\ \A text \in Seq(Digits) : text \in Seq(Nat)
<1>1. Digits \subseteq Nat /\ Numbers \subseteq Nat /\ WideChars \subseteq Nat
  BY DSAssumption DEF Digits, Numbers, WideChars, Lead
<1>2. Lead \in Digits /\ Lead > 0
  BY DSAssumption DEF Digits, Lead
<1>3. ASSUME NEW text \in Seq(Digits) PROVE text \in Seq(Nat)
  <2>1. Len(text) \in Nat /\ text \in [1 .. Len(text) -> Digits]
    BY LenProperties
  <2>2. text \in [1 .. Len(text) -> Nat]
    BY <1>1, <2>1
  <2> QED BY <2>1, <2>2, FunctionSeq
<1> QED BY <1>1, <1>2, <1>3

(* A wide character is written as digits. *)
LEMMA WideBytesType ==
  ASSUME NEW c \in WideChars
  PROVE  WideBytes(c) \in Seq(Digits)
<1>1. Radix \in Nat /\ Radix > 7
  BY DSAssumption
<1>2. CASE c < Lead
  BY <1>1, <1>2 DEF WideBytes, Digits, Lead, WideChars
<1>3. CASE ~(c < Lead)
  <2>1. Lead \in Digits /\ c - Lead + 1 \in Digits
    BY <1>1, <1>3 DEF Digits, Lead, WideChars
  <2> QED BY <1>3, <2>1 DEF WideBytes
<1> QED BY <1>2, <1>3

(* The pieces of a wide string, and the whole of them. *)
Pieces(str) == [k \in DOMAIN str |-> WideBytes(str[k])]

LEMMA PiecesType ==
  ASSUME NEW str \in Seq(WideChars)
  PROVE  Pieces(str) \in Seq(Seq(Digits)) /\ Len(Pieces(str)) = Len(str)
<1>1. Len(str) \in Nat /\ DOMAIN str = 1 .. Len(str) /\ \A k \in 1 .. Len(str) : str[k] \in WideChars
  BY LenProperties, ElementOfSeq
<1>2. Pieces(str) \in [1 .. Len(str) -> Seq(Digits)]
  BY <1>1, WideBytesType DEF Pieces
<1> QED BY <1>1, <1>2, FunctionSeq

LEMMA ToBytesType ==
  ASSUME NEW str \in Seq(WideChars)
  PROVE  ToBytes(str) \in Seq(Digits)
<1>1. Pieces(str) \in Seq(Seq(Digits)) /\ Len(Pieces(str)) \in Nat
  BY PiecesType, LenProperties
<1>2. PICK P : Flattens(P, Digits, Pieces(str))
  BY <1>1, FlattenRuns
<1>3. FlattenSeq(Pieces(str)) \in Seq(Digits)
  BY <1>1, <1>2 DEF Flattens
<1> QED BY <1>3 DEF ToBytes, Pieces

LEMMA SaidType ==
  ASSUME NEW type, NEW val, IsElem(type, val)
  PROVE  /\ type = "i" => Said(type, val) \in Numbers /\ Said(type, val) = val
         /\ type # "i" => Said(type, val) \in Seq(Digits)
BY ToBytesType DEF IsElem, Said, ElemTypes

LEMMA ElemFormatType ==
  ASSUME NEW type, NEW val, IsElem(type, val)
  PROVE  ElemFormat(type, val) \in Seq(Nat) /\ ElemLen(type, val) \in Nat
<1> DEFINE said == Said(type, val)
<1>1. CASE type = "i"
  <2>1. said \in Nat
    BY <1>1, SaidType, DigitsAreNumbers
  <2>2. <<said % Radix, said \div Radix>> \in Seq(Nat)
    <3> HIDE DEF said
    <3> QED BY <2>1, DivMod, TwoBytes
  <2> QED BY <1>1, <2>2 DEF ElemFormat, PlainFormat, NumberFormat, ElemLen
<1>2. CASE type # "i"
  <2>1. said \in Seq(Nat)
    BY <1>2, SaidType, DigitsAreNumbers
  <2>2. Len(said) \in Nat /\ <<Len(said)>> \in Seq(Nat)
    BY <2>1, LenProperties, OneByte
  <2>3. Cat(<<Len(said)>>, said) \in Seq(Nat)
    BY <2>1, <2>2, CatType
  <2> QED BY <1>2, <2>2, <2>3 DEF ElemFormat, PlainFormat, ElemLen
<1> QED BY <1>1, <1>2

(* An element is refused when its text is above the limit and else written *)
(* in its format, at the limit as one of none.                             *)
LEMMA PutOneResult ==
  ASSUME NEW st \in WState, st.ok, NEW type, NEW val, IsElem(type, val)
  PROVE  /\ PutOne(st, type, val) \in WState
         /\ PutOne(st, type, val).ok <=> ElemLen(type, val) <= Radix
         /\ ElemLen(type, val) < Radix =>
              Appends(st, PutOne(st, type, val), ElemFormat(type, val))
<1> DEFINE said == Said(type, val)
<1>1. CASE type = "i"
  <2>1. said \in Nat /\ said = val
    BY <1>1, SaidType, DigitsAreNumbers
  <2>2. <<said % Radix, said \div Radix>> \in Seq(Nat)
    <3> HIDE DEF said
    <3> QED BY <2>1, DivMod, TwoBytes
  <2>3. PutOne(st, type, val) = Put(st, ElemFormat(type, val))
    BY <1>1, <2>1 DEF PutOne, PutNumber, NumberBytes, ElemFormat, PlainFormat, NumberFormat
  <2>4. ElemFormat(type, val) \in Seq(Nat)
    BY ElemFormatType
  <2>5. Appends(st, PutOne(st, type, val), ElemFormat(type, val))
    BY <2>3, <2>4, PutResult
  <2>6. PutOne(st, type, val) \in WState /\ PutOne(st, type, val).ok
    BY <2>5 DEF Appends
  <2>7. ElemLen(type, val) = 0 /\ 0 <= Radix
    BY <1>1, DSAssumption DEF ElemLen
  <2> QED BY <2>5, <2>6, <2>7
<1>2. CASE type # "i"
  <2>1. said \in Seq(Nat)
    BY <1>2, SaidType, DigitsAreNumbers
  <2>2. PutOne(st, type, val) = PutString(st, said)
    BY <1>2 DEF PutOne, PutWide, Said, IsElem, ElemTypes
  <2>3. /\ ElemLen(type, val) = Len(said)
        /\ ElemFormat(type, val) = Cat(<<Len(said)>>, said)
    BY <1>2 DEF ElemLen, ElemFormat, PlainFormat
  <2> HIDE DEF said
  <2> QED BY <2>1, <2>2, <2>3, PutStringResult
<1> QED BY <1>1, <1>2

(* Arrays: the elements in their formats, one after the other. *)
AreElems(type, arr, n) == \A k \in 1 .. n : IsElem(type, arr[k])

Formats(type, arr, n) == [k \in 1 .. n |-> ElemFormat(type, arr[k])]

LEMMA FormatsType ==
  ASSUME NEW type, NEW arr, NEW n \in Nat, AreElems(type, arr, n)
  PROVE  /\ Formats(type, arr, n) \in Seq(Seq(Nat)) /\ Len(Formats(type, arr, n)) = n
         /\ \A k \in 1 .. n : /\ Formats(type, arr, n)[k] = ElemFormat(type, arr[k])
                              /\ ElemFormat(type, arr[k]) \in Seq(Nat)
<1>1. \A k \in 1 .. n : ElemFormat(type, arr[k]) \in Seq(Nat)
  BY ElemFormatType DEF AreElems
<1>2. Formats(type, arr, n) \in [1 .. n -> Seq(Nat)]
  BY <1>1 DEF Formats
<1>3. \A k \in 1 .. n : Formats(type, arr, n)[k] = ElemFormat(type, arr[k])
  BY DEF Formats
<1> QED BY <1>1, <1>2, <1>3, FunctionSeq

(* The loop over the elements. *)
LEMMA PutFoldResult ==
  ASSUME NEW base \in WState, base.ok, NEW type, NEW arr, NEW m \in Nat,
         AreElems(type, arr, m)
  PROVE  /\ PutFold(arr, type, base, m) \in WState
         /\ PutFold(arr, type, base, m).ok <=> \A k \in 1 .. m : ElemLen(type, arr[k]) <= Radix
         /\ (\A k \in 1 .. m : ElemLen(type, arr[k]) < Radix) =>
              Appends(base, PutFold(arr, type, base, m), FlattenSeq(Formats(type, arr, m)))
<1> DEFINE step == [acc \in WState |-> [k \in 1 .. m |-> PutStep(arr, type, acc, k)]]
           r == PutFold(arr, type, base, m)
           fits(k) == ElemLen(type, arr[k]) <= Radix
<1>1. ASSUME NEW acc \in WState, NEW k \in 1 .. m
      PROVE  /\ PutStep(arr, type, acc, k) \in WState
             /\ PutStep(arr, type, acc, k).ok <=> acc.ok /\ fits(k)
             /\ acc.ok /\ ElemLen(type, arr[k]) < Radix =>
                  Appends(acc, PutStep(arr, type, acc, k), ElemFormat(type, arr[k]))
  <2>1. IsElem(type, arr[k])
    BY DEF AreElems
  <2> QED BY <2>1, PutOneResult DEF PutStep
<1>2. step \in [WState -> [1 .. m -> WState]]
  BY <1>1
<1>3. \A acc \in WState, k \in 1 .. m : step[acc][k] = PutStep(arr, type, acc, k)
  OBVIOUS
<1> HIDE DEF step
<1>4. RunsTo(r, WState, base, step, m)
  BY <1>2, <1>3, PutRuns
<1> HIDE DEF r
<1>5. PICK H \in [0 .. m -> WState] :
        H[0] = base /\ H[m] = r /\ \A k \in 1 .. m : H[k] = step[H[k - 1]][k]
  BY <1>4 DEF RunsTo
<1>6. ASSUME NEW k \in 0 .. m - 1
      PROVE  k + 1 \in 1 .. m /\ H[k] \in WState /\ H[k + 1] = PutStep(arr, type, H[k], k + 1)
  BY <1>3, <1>5
<1>7. r \in WState
  BY <1>5
<1>8. r.ok <=> \A k \in 1 .. m : fits(k)
  <2> DEFINE T == {k \in 0 .. m : H[k].ok <=> \A i \in 1 .. k : fits(i)}
  <2>1. 0 \in T
    BY <1>5
  <2>2. ASSUME NEW k \in 0 .. m - 1, k \in T PROVE k + 1 \in T
    <3> HIDE DEF fits
    <3>1. H[k + 1].ok <=> H[k].ok /\ fits(k + 1)
      BY <1>1, <1>6
    <3>2. (\A i \in 1 .. k + 1 : fits(i)) <=> (\A i \in 1 .. k : fits(i)) /\ fits(k + 1)
      <4>1. 1 .. k + 1 = (1 .. k) \cup {k + 1}
        OBVIOUS
      <4> QED BY <4>1
    <3>3. H[k].ok <=> \A i \in 1 .. k : fits(i)
      BY <2>2
    <3>4. k + 1 \in 0 .. m
      OBVIOUS
    <3>5. H[k + 1].ok <=> \A i \in 1 .. k + 1 : fits(i)
      BY <3>1, <3>2, <3>3, Zenon
    <3> QED BY <3>4, <3>5
  <2> HIDE DEF T
  <2>3. \A k \in 0 .. m : k \in T
    BY <2>1, <2>2, InductTo
  <2>4. m \in T
    BY <2>3
  <2> QED BY <1>5, <2>4 DEF T
<1>9. ASSUME \A k \in 1 .. m : ElemLen(type, arr[k]) < Radix
      PROVE  Appends(base, r, FlattenSeq(Formats(type, arr, m)))
  <2> DEFINE formats == Formats(type, arr, m)
  <2>1. formats \in Seq(Seq(Nat)) /\ Len(formats) = m
        /\ \A k \in 1 .. m : formats[k] = ElemFormat(type, arr[k]) /\ formats[k] \in Seq(Nat)
    BY FormatsType
  <2> HIDE DEF formats
  <2>2. PICK P : Flattens(P, Nat, formats)
    BY <2>1, FlattenRuns
  <2>3. /\ P \in [0 .. m -> Seq(Nat)] /\ P[0] = <<>>
        /\ \A k \in 1 .. m : P[k] = Cat(P[k - 1], formats[k])
        /\ FlattenSeq(formats) = P[m]
    BY <2>1, <2>2 DEF Flattens
  <2> DEFINE T == {k \in 0 .. m : Appends(base, H[k], P[k])}
  <2>4. 0 \in T
    BY <1>5, <2>3, AppendsNone
  <2>5. ASSUME NEW k \in 0 .. m - 1, k \in T PROVE k + 1 \in T
    <3>1. /\ k + 1 \in 1 .. m /\ H[k] \in WState
          /\ H[k + 1] = PutStep(arr, type, H[k], k + 1)
          /\ Appends(base, H[k], P[k])
          /\ k + 1 \in 0 .. m /\ (k + 1) - 1 = k
      BY <1>6, <2>5
    <3>2. H[k].ok
      BY <3>1 DEF Appends
    <3>3. Appends(H[k], H[k + 1], formats[k + 1])
      BY <1>1, <1>9, <2>1, <3>1, <3>2
    <3>4. P[k] \in Seq(Nat) /\ formats[k + 1] \in Seq(Nat) /\ P[k + 1] = Cat(P[k], formats[k + 1])
      BY <2>1, <2>3, <3>1
    <3>5. Appends(base, H[k + 1], P[k + 1])
      BY <3>1, <3>3, <3>4, AppendsThen
    <3> QED BY <3>1, <3>5
  <2> HIDE DEF T
  <2>6. \A k \in 0 .. m : k \in T
    BY <2>4, <2>5, InductTo
  <2>7. m \in T
    BY <2>6
  <2> QED BY <1>5, <2>3, <2>7 DEF T, formats
<1> QED BY <1>7, <1>8, <1>9 DEF r

ArrayFormat(type, arr) == Cat(<<Len(arr)>>, FlattenSeq(Formats(type, arr, Len(arr))))

(* An array of exactly Radix elements is written as one of none. *)
LEMMA PutEachResult ==
  ASSUME NEW st \in WState, st.ok, NEW type, NEW arr, Len(arr) \in Nat,
         AreElems(type, arr, Len(arr))
  PROVE  /\ PutEach(st, arr, type) \in WState
         /\ Len(arr) > Radix => ~PutEach(st, arr, type).ok
         /\ Len(arr) = Radix => PutEach(st, arr, type).ok
         /\ Len(arr) < Radix =>
              /\ PutEach(st, arr, type).ok <=>
                   \A k \in 1 .. Len(arr) : ElemLen(type, arr[k]) <= Radix
              /\ (\A k \in 1 .. Len(arr) : ElemLen(type, arr[k]) < Radix) =>
                   Appends(st, PutEach(st, arr, type), ArrayFormat(type, arr))
<1> DEFINE n == Len(arr)
           start == PutLength(st, n)
           m == n % Radix
           r == PutEach(st, arr, type)
<1>0. Radix \in Nat /\ n \in Nat /\ m \in Nat /\ m <= n
      /\ (n < Radix => m = n) /\ (n = Radix => m = 0)
  <2>1. n \in Nat /\ Radix \in Nat
    BY DSAssumption
  <2> HIDE DEF n
  <2>2. m \in Nat /\ m < Radix /\ (n < Radix => m = n) /\ (n = Radix => m = 0)
    BY <2>1, DivMod
  <2> QED BY <2>1, <2>2
<1>1. /\ start \in WState
      /\ n > Radix => ~start.ok
      /\ n <= Radix => Appends(st, start, <<m>>)
  <2> HIDE DEF n
  <2> QED BY <1>0, PutLengthResult
<1>2. r = IF ~start.ok THEN start ELSE PutFold(arr, type, start, m)
  BY DEF PutEach, PutFold
<1> HIDE DEF start
<1>3. CASE n > Radix
  BY <1>0, <1>1, <1>2, <1>3
<1>4. ASSUME ~(n > Radix)
      PROVE  /\ start.ok /\ r = PutFold(arr, type, start, m)
             /\ Appends(st, start, <<m>>)
             /\ r \in WState
             /\ r.ok <=> \A k \in 1 .. m : ElemLen(type, arr[k]) <= Radix
             /\ (\A k \in 1 .. m : ElemLen(type, arr[k]) < Radix) =>
                  Appends(start, r, FlattenSeq(Formats(type, arr, m)))
  <2>1. Appends(st, start, <<m>>)
    BY <1>0, <1>1, <1>4
  <2>2. start.ok
    BY <2>1 DEF Appends
  <2>3. r = PutFold(arr, type, start, m)
    BY <1>2, <2>2
  <2>4. AreElems(type, arr, m)
    <3> HIDE DEF m
    <3> QED BY <1>0 DEF AreElems
  <2> HIDE DEF m, r
  <2> QED BY <1>0, <1>1, <2>1, <2>2, <2>3, <2>4, PutFoldResult
<1>5. CASE n = Radix
  <2>1. ~(n > Radix) /\ m = 0
    BY <1>0, <1>5
  <2> HIDE DEF m, r
  <2>2. r.ok
    BY <1>4, <2>1
  <2> QED BY <1>0, <1>4, <1>5, <2>1, <2>2 DEF r
<1>6. CASE n < Radix
  <2>1. ~(n > Radix) /\ m = n
    BY <1>0, <1>6
  <2> HIDE DEF r
  <2>2. ASSUME \A k \in 1 .. n : ElemLen(type, arr[k]) < Radix
        PROVE  Appends(st, r, ArrayFormat(type, arr))
    <3> DEFINE rest == FlattenSeq(Formats(type, arr, n))
    <3>1. Appends(start, r, rest) /\ Appends(st, start, <<n>>)
      BY <1>4, <2>1, <2>2
    <3>2. <<n>> \in Seq(Nat)
      BY <1>0, OneByte
    <3>3. rest \in Seq(Nat)
      <4>1. Formats(type, arr, n) \in Seq(Seq(Nat)) /\ Len(Formats(type, arr, n)) = n
        BY FormatsType
      <4>2. PICK P : Flattens(P, Nat, Formats(type, arr, n))
        BY <4>1, FlattenRuns
      <4> QED BY <4>1, <4>2 DEF Flattens
    <3>4. ArrayFormat(type, arr) = Cat(<<n>>, rest)
      BY DEF ArrayFormat
    <3> HIDE DEF rest, n
    <3> QED BY <3>1, <3>2, <3>3, <3>4, AppendsThen
  <2>3. r.ok <=> \A k \in 1 .. n : ElemLen(type, arr[k]) <= Radix
    <3> HIDE DEF n, m
    <3> QED BY <1>4, <2>1
  <2>4. ~(n > Radix) /\ n # Radix /\ r \in WState
    BY <1>0, <1>4, <1>6
  <2> QED BY <2>2, <2>3, <2>4 DEF r
<1> QED BY <1>0, <1>3, <1>5, <1>6

-----------------------------------------------------------------------------
(* Values: one element, or an array of elements of one type. *)
ArrayTypes == {"I", "S", "W"}

ElemType(type) == CASE type = "I" -> "i" [] type = "S" -> "s" [] OTHER -> "w"

IsOne(value) == value.type \in ElemTypes /\ IsElem(value.type, value.val)

IsArray(value) ==
  /\ value.type \in ArrayTypes
  /\ Len(value.val) \in Nat /\ DOMAIN value.val = 1 .. Len(value.val)
  /\ AreElems(ElemType(value.type), value.val, Len(value.val))

LEMMA ArrayElements ==
  ASSUME NEW V, NEW arr \in Seq(V)
  PROVE  Len(arr) \in Nat /\ DOMAIN arr = 1 .. Len(arr) /\ \A k \in 1 .. Len(arr) : arr[k] \in V
BY LenProperties, ElementOfSeq

LEMMA ValueKinds ==
  ASSUME NEW value, IsCppValue(value)
  PROVE  IsOne(value) \/ IsArray(value)
<1>1. CASE value.type \in ElemTypes
  BY <1>1 DEF IsCppValue, IsGoValue, IsOne, IsElem, ElemTypes
<1>2. CASE value.type = "I"
  <2>1. value.val \in Seq(Numbers)
    BY <1>2 DEF IsCppValue, IsGoValue
  <2> QED BY <1>2, <2>1, ArrayElements DEF IsArray, ArrayTypes, AreElems, IsElem, ElemType, ElemTypes
<1>3. CASE value.type = "S"
  <2>1. value.val \in Seq(Seq(Digits))
    BY <1>3 DEF IsCppValue, IsGoValue
  <2> QED BY <1>3, <2>1, ArrayElements DEF IsArray, ArrayTypes, AreElems, IsElem, ElemType, ElemTypes
<1>4. CASE value.type = "W"
  <2>1. value.val \in Seq(Seq(WideChars))
    BY <1>4 DEF IsCppValue, IsGoValue
  <2> QED BY <1>4, <2>1, ArrayElements DEF IsArray, ArrayTypes, AreElems, IsElem, ElemType, ElemTypes
<1>5. value.type \in ElemTypes \cup ArrayTypes
  BY DEF IsCppValue, IsGoValue, ElemTypes, ArrayTypes
<1> QED BY <1>1, <1>2, <1>3, <1>4, <1>5 DEF ArrayTypes

(* The format of a value by its elements. *)
SaidFormat(value) ==
  IF value.type \in ElemTypes THEN ElemFormat(value.type, value.val)
  ELSE ArrayFormat(ElemType(value.type), value.val)

LEMMA ValueFormatIs ==
  ASSUME NEW value, IsCppValue(value)
  PROVE  ValueFormat(value) = SaidFormat(value)
<1> DEFINE arr == value.val
           n == Len(arr)
<1>0. IsOne(value) \/ IsArray(value)
  BY ValueKinds
<1>1. CASE value.type = "i"
  BY <1>1 DEF ValueFormat, Plain, SaidFormat, ElemFormat, PlainFormat, ElemTypes, Said
<1>2. CASE value.type = "s"
  BY <1>2 DEF ValueFormat, Plain, SaidFormat, ElemFormat, PlainFormat, ElemTypes, Said, TextFormat, Cat
<1>3. CASE value.type = "w"
  BY <1>3 DEF ValueFormat, Plain, SaidFormat, ElemFormat, PlainFormat, ElemTypes, Said, TextFormat, Cat
<1>4. CASE value.type = "I"
  <2>1. DOMAIN arr = 1 .. n
    BY <1>0, <1>4 DEF IsOne, IsArray, ElemTypes
  <2>2. [k \in DOMAIN arr |-> NumberFormat(arr[k])] = Formats("i", arr, n)
    BY <2>1 DEF Formats, ElemFormat, PlainFormat, Said
  <2>3. ValueFormat(value) = <<n>> \o FlattenSeq([k \in DOMAIN arr |-> NumberFormat(arr[k])])
    BY <1>4 DEF ValueFormat, Plain
  <2>4. SaidFormat(value) = Cat(<<n>>, FlattenSeq(Formats("i", arr, n)))
    BY <1>4 DEF SaidFormat, ArrayFormat, ElemType, ElemTypes
  <2> QED BY <2>2, <2>3, <2>4 DEF Cat
<1>5. CASE value.type = "S"
  <2>1. DOMAIN arr = 1 .. n
    BY <1>0, <1>5 DEF IsOne, IsArray, ElemTypes
  <2>2. [k \in DOMAIN arr |-> TextFormat(arr[k])] = Formats("s", arr, n)
    BY <2>1 DEF Formats, ElemFormat, PlainFormat, Said, TextFormat, Cat
  <2>3. ValueFormat(value) = <<n>> \o FlattenSeq([k \in DOMAIN arr |-> TextFormat(arr[k])])
    BY <1>5 DEF ValueFormat, Plain
  <2>4. SaidFormat(value) = Cat(<<n>>, FlattenSeq(Formats("s", arr, n)))
    BY <1>5 DEF SaidFormat, ArrayFormat, ElemType, ElemTypes
  <2> QED BY <2>2, <2>3, <2>4 DEF Cat
<1>6. CASE value.type = "W"
  <2> DEFINE texts == [k \in DOMAIN arr |-> ToBytes(arr[k])]
  <2>1. DOMAIN arr = 1 .. n /\ n \in Nat /\ AreElems("w", arr, n)
    BY <1>0, <1>6 DEF IsOne, IsArray, ElemTypes, ElemType
  <2>2. [k \in DOMAIN texts |-> TextFormat(texts[k])] = Formats("w", arr, n)
    BY <2>1 DEF Formats, ElemFormat, PlainFormat, Said, TextFormat, Cat
  <2>3. Len(texts) = n
    <3>1. texts \in [1 .. n -> Seq(Digits)]
      BY <2>1, ToBytesType DEF AreElems, IsElem
    <3> HIDE DEF n, texts
    <3> QED BY <2>1, <3>1, FunctionSeq
  <2>4. ValueFormat(value) = <<Len(texts)>> \o FlattenSeq([k \in DOMAIN texts |-> TextFormat(texts[k])])
    BY <1>6 DEF ValueFormat, Plain
  <2>5. SaidFormat(value) = Cat(<<n>>, FlattenSeq(Formats("w", arr, n)))
    BY <1>6 DEF SaidFormat, ArrayFormat, ElemType, ElemTypes
  <2> HIDE DEF texts, n
  <2> QED BY <2>2, <2>3, <2>4, <2>5 DEF Cat
<1> QED BY <1>0, <1>1, <1>2, <1>3, <1>4, <1>5, <1>6 DEF IsOne, IsArray, ElemTypes, ArrayTypes

(* The lengths of a value are those of its elements and that of the array. *)
LEMMA LengthsAre ==
  ASSUME NEW value, IsCppValue(value), NEW b \in Nat
  PROVE  (\A n \in Lengths(value) : n <= b) <=>
           IF value.type \in ElemTypes THEN ElemLen(value.type, value.val) <= b
           ELSE /\ Len(value.val) <= b
                /\ \A k \in 1 .. Len(value.val) : ElemLen(ElemType(value.type), value.val[k]) <= b
<1> DEFINE arr == value.val
           n == Len(arr)
<1>0. IsOne(value) \/ IsArray(value)
  BY ValueKinds
<1>1. CASE value.type = "i"
  <2>1. Lengths(value) = {}
    BY <1>1 DEF Lengths, Texts
  <2> QED BY <1>1, <2>1 DEF ElemLen, ElemTypes
<1>2. CASE value.type = "s"
  <2>1. Lengths(value) = {Len(arr)}
    BY <1>2 DEF Lengths, Texts
  <2> QED BY <1>2, <2>1 DEF ElemLen, ElemTypes, Said
<1>3. CASE value.type = "w"
  <2>1. Lengths(value) = {Len(ToBytes(arr))}
    BY <1>3 DEF Lengths, Texts
  <2> QED BY <1>3, <2>1 DEF ElemLen, ElemTypes, Said
<1>4. CASE value.type = "I"
  <2>1. Lengths(value) = {n}
    BY <1>4 DEF Lengths, Texts
  <2>2. \A k \in 1 .. n : ElemLen("i", arr[k]) <= b
    BY DEF ElemLen
  <2> QED BY <1>4, <2>1, <2>2 DEF ElemTypes, ElemType
<1>5. CASE value.type = "S"
  <2>1. DOMAIN arr = 1 .. n
    BY <1>0, <1>5 DEF IsOne, IsArray, ElemTypes
  <2>2. Lengths(value) = {Len(text) : text \in {arr[k] : k \in 1 .. n}} \cup {n}
    BY <1>5, <2>1 DEF Lengths, Texts, ToSet
  <2>3. \A k \in 1 .. n : ElemLen("s", arr[k]) = Len(arr[k])
    BY DEF ElemLen, Said
  <2> HIDE DEF n, arr
  <2>4. (\A l \in Lengths(value) : l <= b) <=> n <= b /\ \A k \in 1 .. n : Len(arr[k]) <= b
    BY <2>2
  <2>5. (\A l \in Lengths(value) : l <= b) <=> n <= b /\ \A k \in 1 .. n : ElemLen("s", arr[k]) <= b
    BY <2>3, <2>4
  <2> QED BY <1>5, <2>5 DEF ElemTypes, ElemType, n, arr
<1>6. CASE value.type = "W"
  <2>1. DOMAIN arr = 1 .. n
    BY <1>0, <1>6 DEF IsOne, IsArray, ElemTypes
  <2>2. Lengths(value) = {Len(text) : text \in {ToBytes(str) : str \in {arr[k] : k \in 1 .. n}}} \cup {n}
    BY <1>6, <2>1 DEF Lengths, Texts, ToSet
  <2>3. \A k \in 1 .. n : ElemLen("w", arr[k]) = Len(ToBytes(arr[k]))
    BY DEF ElemLen, Said
  <2> HIDE DEF n, arr
  <2>4. (\A l \in Lengths(value) : l <= b) <=> n <= b /\ \A k \in 1 .. n : Len(ToBytes(arr[k])) <= b
    BY <2>2
  <2>5. (\A l \in Lengths(value) : l <= b) <=> n <= b /\ \A k \in 1 .. n : ElemLen("w", arr[k]) <= b
    BY <2>3, <2>4
  <2> QED BY <1>6, <2>5 DEF ElemTypes, ElemType, n, arr
<1> QED BY <1>0, <1>1, <1>2, <1>3, <1>4, <1>5, <1>6 DEF IsOne, IsArray, ElemTypes, ArrayTypes

Short(value) == \A n \in Lengths(value) : n <= Radix - 1

CppAccepts(value) ==
  \A n \in IF value.type \in {"S", "W"} /\ Len(value.val) = Radix THEN {Radix} ELSE Lengths(value) :
    n <= Radix

LEMMA PutTypedResult ==
  ASSUME NEW st \in WState, st.ok, NEW value, IsCppValue(value)
  PROVE  /\ PutTyped(st, value.type, value) \in WState
         /\ PutTyped(st, value.type, value).ok <=> CppAccepts(value)
         /\ Short(value) => Appends(st, PutTyped(st, value.type, value), ValueFormat(value))
<1> DEFINE r == PutTyped(st, value.type, value)
           type == value.type
           val == value.val
           n == Len(val)
<1>0. /\ IsOne(value) \/ IsArray(value)
      /\ Radix \in Nat /\ Radix - 1 \in Nat /\ Radix > 7
      /\ ValueFormat(value) = SaidFormat(value)
  BY ValueKinds, DSAssumption, ValueFormatIs
<1>1. CASE IsOne(value)
  <2> DEFINE len == ElemLen(type, val)
  <2>1. r = PutOne(st, type, val)
    BY <1>1 DEF PutTyped, PutOne, IsOne, ElemTypes
  <2>2. /\ type \in ElemTypes /\ IsElem(type, val) /\ len \in Nat
        /\ SaidFormat(value) = ElemFormat(type, val)
    BY <1>1, ElemFormatType DEF IsOne, SaidFormat
  <2>3. Short(value) <=> len <= Radix - 1
    BY <1>0, <2>2, LengthsAre DEF Short
  <2>4. CppAccepts(value) <=> len <= Radix
    <3>1. ~(type \in {"S", "W"})
      BY <2>2 DEF ElemTypes
    <3>2. CppAccepts(value) <=> \A l \in Lengths(value) : l <= Radix
      BY <3>1 DEF CppAccepts
    <3> QED BY <1>0, <2>2, <3>2, LengthsAre
  <2>5. /\ r \in WState
        /\ r.ok <=> len <= Radix
        /\ len < Radix => Appends(st, r, ElemFormat(type, val))
    <3> HIDE DEF r, type, val
    <3> QED BY <2>1, <2>2, PutOneResult
  <2>6. Short(value) => len < Radix
    <3> HIDE DEF len
    <3> QED BY <1>0, <2>2, <2>3
  <2> QED BY <1>0, <2>2, <2>4, <2>5, <2>6
<1>2. CASE IsArray(value)
  <2> DEFINE et == ElemType(type)
  <2>1. r = PutEach(st, val, et)
    BY <1>2 DEF PutTyped, PutNumbers, PutStrings, PutWides, IsArray, ArrayTypes, ElemType
  <2>2. /\ type \in ArrayTypes /\ ~(type \in ElemTypes) /\ n \in Nat /\ AreElems(et, val, n)
        /\ SaidFormat(value) = ArrayFormat(et, val)
    BY <1>2 DEF IsArray, SaidFormat, ElemTypes, ArrayTypes
  <2>3. \A k \in 1 .. n : ElemLen(et, val[k]) \in Nat
    BY <2>2, ElemFormatType DEF AreElems
  <2> DEFINE len(k) == ElemLen(et, val[k])
  <2>4. Short(value) <=> n <= Radix - 1 /\ \A k \in 1 .. n : len(k) <= Radix - 1
    BY <1>0, <2>2, LengthsAre DEF Short
  <2>5. (\A l \in Lengths(value) : l <= Radix) <=> n <= Radix /\ \A k \in 1 .. n : len(k) <= Radix
    BY <1>0, <2>2, LengthsAre
  <2>6. /\ r \in WState
        /\ n > Radix => ~r.ok
        /\ n = Radix => r.ok
        /\ n < Radix =>
             /\ r.ok <=> \A k \in 1 .. n : len(k) <= Radix
             /\ (\A k \in 1 .. n : len(k) < Radix) => Appends(st, r, ArrayFormat(et, val))
    <3> HIDE DEF r, et, val
    <3> QED BY <2>1, <2>2, PutEachResult
  <2>7. r.ok <=> CppAccepts(value)
    <3>1. CASE n = Radix
      <4>1. type = "I" => \A k \in 1 .. n : len(k) <= Radix
        BY <1>0 DEF ElemType, ElemLen
      <4>2. type \in {"S", "W"} => CppAccepts(value)
        BY <3>1, <1>0 DEF CppAccepts
      <4>3. type = "I" => CppAccepts(value)
        <5>1. n <= Radix
          BY <1>0, <3>1
        <5> HIDE DEF len, n
        <5> QED BY <2>5, <4>1, <5>1 DEF CppAccepts
      <4>4. CppAccepts(value)
        BY <2>2, <4>2, <4>3 DEF ArrayTypes
      <4> QED BY <2>6, <3>1, <4>4
    <3>2. CASE n # Radix
      <4>1. CppAccepts(value) <=> \A l \in Lengths(value) : l <= Radix
        BY <3>2 DEF CppAccepts
      <4> HIDE DEF len, r, n
      <4>2. n < Radix \/ n > Radix
        BY <1>0, <2>2, <3>2
      <4>3. n < Radix => n <= Radix
        BY <1>0, <2>2
      <4>4. n > Radix => ~(n <= Radix)
        BY <1>0, <2>2
      <4> QED BY <2>5, <2>6, <4>1, <4>2, <4>3, <4>4
    <3> QED BY <3>1, <3>2
  <2>8. ASSUME Short(value) PROVE Appends(st, r, ArrayFormat(et, val))
    <3> HIDE DEF len, n
    <3>1. n < Radix /\ \A k \in 1 .. n : len(k) < Radix
      <4>1. n < Radix
        BY <1>0, <2>2, <2>4, <2>8
      <4>2. ASSUME NEW k \in 1 .. n PROVE len(k) < Radix
        <5>1. len(k) \in Nat /\ len(k) <= Radix - 1
          BY <2>3, <2>4, <2>8 DEF len
        <5> QED BY <1>0, <5>1
      <4> QED BY <4>1, <4>2
    <3> QED BY <2>6, <3>1
  <2> QED BY <1>0, <2>2, <2>6, <2>7, <2>8
<1> QED BY <1>0, <1>1, <1>2

(* With the mark of a variant in front. *)
Fits(type, value) == type = "v" \/ type = value.type

MarkedFormat(type, value) ==
  IF type = "v" THEN Cat(<<Tags[Plain(value).type]>>, ValueFormat(value)) ELSE ValueFormat(value)

LEMMA PlainType ==
  ASSUME NEW value, IsCppValue(value)
  PROVE  /\ Plain(value).type = VariantMark(value.type)
         /\ Plain(value).type \in {"i", "I", "s", "S"}
         /\ Tags[Plain(value).type] \in Nat
<1>1. value.type \in {"i", "I", "s", "S", "w", "W"}
  BY DEF IsCppValue, IsGoValue
<1>2. Plain(value).type = VariantMark(value.type)
  BY <1>1 DEF Plain, VariantMark
<1>3. Plain(value).type \in {"i", "I", "s", "S"}
  BY <1>1, <1>2 DEF VariantMark
<1> QED BY <1>2, <1>3 DEF Tags

LEMMA ValueFormatType ==
  ASSUME NEW value, IsCppValue(value)
  PROVE  ValueFormat(value) \in Seq(Nat)
<1>0. (IsOne(value) \/ IsArray(value)) /\ ValueFormat(value) = SaidFormat(value)
  BY ValueKinds, ValueFormatIs
<1>1. CASE IsOne(value)
  BY <1>0, <1>1, ElemFormatType DEF IsOne, SaidFormat
<1>2. CASE IsArray(value)
  <2> DEFINE et == ElemType(value.type)
             n == Len(value.val)
             formats == Formats(et, value.val, n)
  <2>1. n \in Nat /\ AreElems(et, value.val, n) /\ SaidFormat(value) = Cat(<<n>>, FlattenSeq(formats))
    BY <1>2 DEF IsArray, SaidFormat, ElemTypes, ArrayTypes, ArrayFormat
  <2>2. formats \in Seq(Seq(Nat)) /\ Len(formats) = n
    BY <2>1, FormatsType
  <2>3. <<n>> \in Seq(Nat)
    BY <2>1, OneByte
  <2> HIDE DEF formats, n
  <2>4. PICK P : Flattens(P, Nat, formats)
    BY <2>2, FlattenRuns
  <2>5. FlattenSeq(formats) \in Seq(Nat)
    BY <2>1, <2>2, <2>4 DEF Flattens
  <2> QED BY <1>0, <2>1, <2>3, <2>5, CatType
<1> QED BY <1>0, <1>1, <1>2

LEMMA PutValueResult ==
  ASSUME NEW st \in WState, st.ok, NEW type, NEW value, IsCppValue(value)
  PROVE  /\ PutValue(st, type, value) \in WState
         /\ PutValue(st, type, value).ok <=> Fits(type, value) /\ CppAccepts(value)
         /\ Fits(type, value) /\ Short(value) =>
              Appends(st, PutValue(st, type, value), MarkedFormat(type, value))
<1> DEFINE r == PutValue(st, type, value)
<1>1. CASE type = "v"
  <2> DEFINE mark == <<Tags[Plain(value).type]>>
             st2 == Put(st, mark)
  <2>1. r = PutTyped(st2, value.type, value)
    BY <1>1, PlainType DEF PutValue, PutVariant
  <2>2. mark \in Seq(Nat) /\ ValueFormat(value) \in Seq(Nat)
    BY PlainType, OneByte, ValueFormatType
  <2>3. Appends(st, st2, mark)
    BY <2>2, PutResult
  <2>4. st2 \in WState /\ st2.ok
    BY <2>3 DEF Appends
  <2> HIDE DEF st2, mark, r
  <2>5. /\ r \in WState
        /\ r.ok <=> CppAccepts(value)
        /\ Short(value) => Appends(st2, r, ValueFormat(value))
    BY <2>1, <2>4, PutTypedResult
  <2>6. Short(value) => Appends(st, r, Cat(mark, ValueFormat(value)))
    BY <2>2, <2>3, <2>5, AppendsThen
  <2> QED BY <1>1, <2>5, <2>6 DEF Fits, MarkedFormat, mark, r
<1>2. CASE type # "v" /\ type = value.type
  <2>1. r = PutTyped(st, value.type, value)
    BY <1>2 DEF PutValue
  <2> QED BY <1>2, <2>1, PutTypedResult DEF Fits, MarkedFormat
<1>3. CASE type # "v" /\ type # value.type
  <2>1. r = Refuse(st)
    BY <1>3 DEF PutValue, PutTyped
  <2> QED BY <1>3, <2>1, RefuseResult DEF Fits
<1> QED BY <1>1, <1>2, <1>3

(* A whole message. *)
AreValues(types, vals, n) ==
  \A k \in 1 .. n : types[k] \in SignatureTypes /\ IsCppValue(vals[k])

MarkedFormats(types, vals, n) == [k \in 1 .. n |-> MarkedFormat(types[k], vals[k])]

LEMMA MarkedFormatsType ==
  ASSUME NEW types, NEW vals, NEW n \in Nat, \A k \in 1 .. n : IsCppValue(vals[k])
  PROVE  /\ MarkedFormats(types, vals, n) \in Seq(Seq(Nat)) /\ Len(MarkedFormats(types, vals, n)) = n
         /\ \A k \in 1 .. n :
              /\ MarkedFormats(types, vals, n)[k] = MarkedFormat(types[k], vals[k])
              /\ MarkedFormat(types[k], vals[k]) \in Seq(Nat)
<1>1. ASSUME NEW k \in 1 .. n PROVE MarkedFormat(types[k], vals[k]) \in Seq(Nat)
  <2> DEFINE mark == <<Tags[Plain(vals[k]).type]>>
  <2>1. mark \in Seq(Nat) /\ ValueFormat(vals[k]) \in Seq(Nat)
    BY PlainType, OneByte, ValueFormatType
  <2> HIDE DEF mark
  <2>2. Cat(mark, ValueFormat(vals[k])) \in Seq(Nat)
    BY <2>1, CatType
  <2> QED BY <2>1, <2>2 DEF MarkedFormat, mark
<1>2. MarkedFormats(types, vals, n) \in [1 .. n -> Seq(Nat)]
  BY <1>1 DEF MarkedFormats
<1>3. \A k \in 1 .. n : MarkedFormats(types, vals, n)[k] = MarkedFormat(types[k], vals[k])
  BY DEF MarkedFormats
<1> QED BY <1>1, <1>2, <1>3, FunctionSeq

LEMMA ToFoldResult ==
  ASSUME NEW base \in WState, base.ok, NEW types, NEW vals, NEW m \in Nat,
         \A k \in 1 .. m : IsCppValue(vals[k])
  PROVE  /\ ToFold(types, vals, base, m) \in WState
         /\ ToFold(types, vals, base, m).ok <=>
              \A k \in 1 .. m : Fits(types[k], vals[k]) /\ CppAccepts(vals[k])
         /\ (\A k \in 1 .. m : Fits(types[k], vals[k]) /\ Short(vals[k])) =>
              Appends(base, ToFold(types, vals, base, m), FlattenSeq(MarkedFormats(types, vals, m)))
<1> DEFINE step == [acc \in WState |-> [k \in 1 .. m |-> ToStep(types, vals, acc, k)]]
           r == ToFold(types, vals, base, m)
           fits(k) == Fits(types[k], vals[k]) /\ CppAccepts(vals[k])
           short(k) == Fits(types[k], vals[k]) /\ Short(vals[k])
<1>1. ASSUME NEW acc \in WState, NEW k \in 1 .. m
      PROVE  /\ ToStep(types, vals, acc, k) \in WState
             /\ ToStep(types, vals, acc, k).ok <=> acc.ok /\ fits(k)
             /\ acc.ok /\ short(k) =>
                  Appends(acc, ToStep(types, vals, acc, k), MarkedFormat(types[k], vals[k]))
  BY PutValueResult DEF ToStep
<1>2. step \in [WState -> [1 .. m -> WState]]
  BY <1>1
<1>3. \A acc \in WState, k \in 1 .. m : step[acc][k] = ToStep(types, vals, acc, k)
  OBVIOUS
<1> HIDE DEF step
<1>4. RunsTo(r, WState, base, step, m)
  BY <1>2, <1>3, ToRuns
<1> HIDE DEF r
<1>5. PICK H \in [0 .. m -> WState] :
        H[0] = base /\ H[m] = r /\ \A k \in 1 .. m : H[k] = step[H[k - 1]][k]
  BY <1>4 DEF RunsTo
<1>6. ASSUME NEW k \in 0 .. m - 1
      PROVE  k + 1 \in 1 .. m /\ H[k] \in WState /\ H[k + 1] = ToStep(types, vals, H[k], k + 1)
  BY <1>3, <1>5
<1>7. r \in WState
  BY <1>5
<1>8. r.ok <=> \A k \in 1 .. m : fits(k)
  <2> DEFINE T == {k \in 0 .. m : H[k].ok <=> \A i \in 1 .. k : fits(i)}
  <2>1. 0 \in T
    BY <1>5
  <2>2. ASSUME NEW k \in 0 .. m - 1, k \in T PROVE k + 1 \in T
    <3> HIDE DEF fits
    <3>1. H[k + 1].ok <=> H[k].ok /\ fits(k + 1)
      BY <1>1, <1>6
    <3>2. (\A i \in 1 .. k + 1 : fits(i)) <=> (\A i \in 1 .. k : fits(i)) /\ fits(k + 1)
      <4>1. 1 .. k + 1 = (1 .. k) \cup {k + 1}
        OBVIOUS
      <4> QED BY <4>1
    <3>3. H[k].ok <=> \A i \in 1 .. k : fits(i)
      BY <2>2
    <3>4. k + 1 \in 0 .. m
      OBVIOUS
    <3>5. H[k + 1].ok <=> \A i \in 1 .. k + 1 : fits(i)
      BY <3>1, <3>2, <3>3, Zenon
    <3> QED BY <3>4, <3>5
  <2> HIDE DEF T
  <2>3. \A k \in 0 .. m : k \in T
    BY <2>1, <2>2, InductTo
  <2>4. m \in T
    BY <2>3
  <2> QED BY <1>5, <2>4 DEF T
<1>9. ASSUME \A k \in 1 .. m : short(k)
      PROVE  Appends(base, r, FlattenSeq(MarkedFormats(types, vals, m)))
  <2> DEFINE formats == MarkedFormats(types, vals, m)
  <2>1. formats \in Seq(Seq(Nat)) /\ Len(formats) = m
        /\ \A k \in 1 .. m : formats[k] = MarkedFormat(types[k], vals[k]) /\ formats[k] \in Seq(Nat)
    BY MarkedFormatsType
  <2> HIDE DEF formats
  <2>2. PICK P : Flattens(P, Nat, formats)
    BY <2>1, FlattenRuns
  <2>3. /\ P \in [0 .. m -> Seq(Nat)] /\ P[0] = <<>>
        /\ \A k \in 1 .. m : P[k] = Cat(P[k - 1], formats[k])
        /\ FlattenSeq(formats) = P[m]
    BY <2>1, <2>2 DEF Flattens
  <2> DEFINE T == {k \in 0 .. m : Appends(base, H[k], P[k])}
  <2>4. 0 \in T
    BY <1>5, <2>3, AppendsNone
  <2>5. ASSUME NEW k \in 0 .. m - 1, k \in T PROVE k + 1 \in T
    <3>1. /\ k + 1 \in 1 .. m /\ H[k] \in WState
          /\ H[k + 1] = ToStep(types, vals, H[k], k + 1)
          /\ Appends(base, H[k], P[k])
          /\ k + 1 \in 0 .. m /\ (k + 1) - 1 = k
      BY <1>6, <2>5
    <3>2. H[k].ok
      BY <3>1 DEF Appends
    <3>3. Appends(H[k], H[k + 1], formats[k + 1])
      BY <1>1, <1>9, <2>1, <3>1, <3>2
    <3>4. P[k] \in Seq(Nat) /\ formats[k + 1] \in Seq(Nat) /\ P[k + 1] = Cat(P[k], formats[k + 1])
      BY <2>1, <2>3, <3>1
    <3>5. Appends(base, H[k + 1], P[k + 1])
      BY <3>1, <3>3, <3>4, AppendsThen
    <3> QED BY <3>1, <3>5
  <2> HIDE DEF T
  <2>6. \A k \in 0 .. m : k \in T
    BY <2>4, <2>5, InductTo
  <2>7. m \in T
    BY <2>6
  <2> QED BY <1>5, <2>3, <2>7 DEF T, formats
<1> QED BY <1>7, <1>8, <1>9 DEF r

LEMMA WritingResult ==
  ASSUME NEW bytes \in Seq(Nat)
  PROVE  Writing(bytes) \in WState /\ Writing(bytes).ok /\ Written(Writing(bytes)) = <<>>
<1> DEFINE st == Writing(bytes)
<1>1. st.replyOffset = 0 /\ st.ok /\ st.message = bytes
  BY DEF Writing
<1>2. st \in WState
  BY LenProperties DEF Writing, WState
<1> HIDE DEF st
<1>3. Written(st) \in Seq(Nat) /\ Len(Written(st)) = 0
  BY <1>1, <1>2, WStateFields
<1>4. Written(st) = <<>>
  BY <1>3, EmptySeq
<1> QED BY <1>1, <1>2, <1>4 DEF st

(* What toBinary writes, and when it refuses. *)
LEMMA ToBinaryResult ==
  ASSUME NEW types, NEW vals, NEW bytes \in Seq(Nat), Len(types) \in Nat,
         \A k \in 1 .. Len(types) : IsCppValue(vals[k])
  PROVE  /\ ToBinary(types, vals, bytes).ok \in BOOLEAN
         /\ ToBinary(types, vals, bytes).message \in Seq(Nat)
         /\ ToBinary(types, vals, bytes).ok <=>
              \A k \in 1 .. Len(types) : Fits(types[k], vals[k]) /\ CppAccepts(vals[k])
         /\ (\A k \in 1 .. Len(types) : Fits(types[k], vals[k]) /\ CppAccepts(vals[k]) /\ Short(vals[k])) =>
              /\ ToBinary(types, vals, bytes).message = FlattenSeq(MarkedFormats(types, vals, Len(types)))
              /\ ~ToBinary(types, vals, bytes).overrun
<1> DEFINE n == Len(types)
           base == Writing(bytes)
           end == ToFold(types, vals, base, n)
           r == ToBinary(types, vals, bytes)
           all == \A k \in 1 .. n : Fits(types[k], vals[k]) /\ CppAccepts(vals[k])
           formats == MarkedFormats(types, vals, n)
<1>1. base \in WState /\ base.ok /\ Written(base) = <<>> /\ ~base.overrun
  BY WritingResult DEF Writing
<1>2. r = IF end.ok THEN [end EXCEPT !.message = SubSeq(end.message, 1, end.replyOffset)] ELSE end
  BY DEF ToBinary, ToFold
<1> HIDE DEF base, n, r
<1>3. /\ end \in WState
      /\ end.ok <=> all
      /\ (\A k \in 1 .. n : Fits(types[k], vals[k]) /\ Short(vals[k])) =>
           Appends(base, end, FlattenSeq(formats))
  BY <1>1, ToFoldResult DEF n
<1> HIDE DEF end, formats
<1>4. /\ end.ok \in BOOLEAN
      /\ end \in [ok : BOOLEAN, replyOffset : Nat, message : Seq(Nat), overrun : BOOLEAN]
  BY <1>3, WStateFields
<1>5. r.ok = end.ok /\ r.overrun = end.overrun /\ (end.ok => r.message = Written(end))
  BY <1>2, <1>4 DEF Written
<1>7. r.message \in Seq(Nat)
  <2>1. ~end.ok => r.message = end.message
    BY <1>2
  <2>2. Written(end) \in Seq(Nat) /\ end.message \in Seq(Nat)
    BY <1>3, WStateFields
  <2> QED BY <1>4, <1>5, <2>1, <2>2
<1>6. ASSUME \A k \in 1 .. n : Fits(types[k], vals[k]) /\ CppAccepts(vals[k]) /\ Short(vals[k])
      PROVE  r.message = FlattenSeq(formats) /\ ~r.overrun
  <2>1. all /\ Appends(base, end, FlattenSeq(formats))
    BY <1>3, <1>6
  <2>2. /\ Written(end) = Cat(Written(base), FlattenSeq(formats))
        /\ end.overrun = base.overrun /\ end.ok
    BY <1>3, <2>1 DEF Appends
  <2>3. FlattenSeq(formats) \in Seq(Nat)
    <3>1. formats \in Seq(Seq(Nat)) /\ Len(formats) = n
      BY MarkedFormatsType DEF formats, n
    <3>2. PICK P : Flattens(P, Nat, formats)
      BY <3>1, FlattenRuns
    <3> QED BY <3>1, <3>2 DEF Flattens, n
  <2>4. Cat(<<>>, FlattenSeq(formats)) = FlattenSeq(formats)
    BY <2>3, CatEmpty
  <2> QED BY <1>1, <1>5, <2>2, <2>4
<1> QED BY <1>3, <1>4, <1>5, <1>6, <1>7 DEF n, r, formats

-----------------------------------------------------------------------------
(* Writing in Go: bytes are only ever appended. *)
GState == [ok : BOOLEAN, body : Seq(Nat)]

Adds(st, st2, bytes) ==
  /\ st2 \in GState
  /\ st2.ok = st.ok
  /\ st2.body = Cat(st.body, bytes)

LEMMA AddsThen ==
  ASSUME NEW st \in GState, NEW a \in Seq(Nat), NEW b \in Seq(Nat), NEW st2, NEW st3,
         Adds(st, st2, a), Adds(st2, st3, b)
  PROVE  Adds(st, st3, Cat(a, b))
<1>1. st.body \in Seq(Nat)
  BY DEF GState
<1>2. st3.body = Cat(Cat(st.body, a), b)
  BY DEF Adds
<1>3. st3.body = Cat(st.body, Cat(a, b))
  BY <1>1, <1>2, CatAssociative
<1> QED BY <1>3 DEF Adds

LEMMA AddsNone ==
  ASSUME NEW st \in GState
  PROVE  Adds(st, st, <<>>)
<1>1. st.body \in Seq(Nat)
  BY DEF GState
<1> QED BY <1>1, CatEmpty DEF Adds

LEMMA AddResult ==
  ASSUME NEW st \in GState, NEW bytes \in Seq(Nat)
  PROVE  Adds(st, Add(st, bytes), bytes)
<1> DEFINE body == Cat(st.body, bytes)
<1>1. st.body \in Seq(Nat)
  BY DEF GState
<1>2. body \in Seq(Nat)
  BY <1>1, CatType
<1>3. Add(st, bytes) = [st EXCEPT !.body = body]
  BY DEF Add, Cat
<1> HIDE DEF body
<1>4. Add(st, bytes) \in GState /\ Add(st, bytes).ok = st.ok /\ Add(st, bytes).body = body
  BY <1>2, <1>3 DEF GState
<1> QED BY <1>4 DEF Adds, body

LEMMA AbandonResult ==
  ASSUME NEW st \in GState
  PROVE  Abandon(st) \in GState /\ ~Abandon(st).ok
BY DEF GState, Abandon

LEMMA AddLengthResult ==
  ASSUME NEW st \in GState, NEW n \in Nat
  PROVE  /\ AddLength(st, n) \in GState
         /\ n > Radix => ~AddLength(st, n).ok
         /\ n <= Radix => Adds(st, AddLength(st, n), <<n % Radix>>)
<1>0. Radix \in Nat
  BY DSAssumption
<1>1. CASE n > Radix
  <2>1. AddLength(st, n) = Abandon(st)
    BY <1>1 DEF AddLength, TooLong
  <2> QED BY <1>0, <1>1, <2>1, AbandonResult
<1>2. CASE ~(n > Radix)
  <2>1. AddLength(st, n) = Add(st, <<n % Radix>>)
    BY <1>2 DEF AddLength, TooLong, LengthBytes
  <2>2. <<n % Radix>> \in Seq(Nat)
    BY DivMod, OneByte
  <2>3. Adds(st, Add(st, <<n % Radix>>), <<n % Radix>>)
    BY <2>2, AddResult
  <2> QED BY <1>0, <1>2, <2>1, <2>3 DEF Adds
<1> QED BY <1>1, <1>2

LEMMA AddStringResult ==
  ASSUME NEW st \in GState, st.ok, NEW str \in Seq(Nat)
  PROVE  /\ AddString(st, str) \in GState
         /\ AddString(st, str).ok <=> Len(str) <= Radix
         /\ Len(str) < Radix => Adds(st, AddString(st, str), Cat(<<Len(str)>>, str))
<1> DEFINE n == Len(str)
           start == AddLength(st, n)
           r == AddString(st, str)
<1>0. Radix \in Nat /\ n \in Nat /\ n % Radix \in Nat /\ (n < Radix => n % Radix = n)
  BY DSAssumption, LenProperties, DivMod
<1>1. r = IF start.ok THEN Add(start, str) ELSE start
  BY DEF AddString
<1>2. /\ start \in GState
      /\ n > Radix => ~start.ok
      /\ n <= Radix => Adds(st, start, <<n % Radix>>)
  <2> HIDE DEF n
  <2> QED BY <1>0, AddLengthResult
<1> HIDE DEF start, n, r
<1>3. CASE n > Radix
  BY <1>0, <1>1, <1>2, <1>3 DEF n, r
<1>4. CASE n <= Radix
  <2>1. Adds(st, start, <<n % Radix>>)
    BY <1>2, <1>4
  <2>2. start.ok
    BY <2>1 DEF Adds
  <2>3. Adds(start, r, str)
    BY <1>1, <1>2, <2>2, AddResult
  <2>4. r \in GState /\ r.ok
    BY <2>2, <2>3 DEF Adds
  <2>5. <<n % Radix>> \in Seq(Nat)
    BY <1>0, OneByte
  <2>6. Adds(st, r, Cat(<<n % Radix>>, str))
    BY <2>1, <2>3, <2>5, AddsThen
  <2> QED BY <1>0, <1>4, <2>4, <2>6 DEF n, r
<1> QED BY <1>0, <1>3, <1>4

LEMMA AddOneResult ==
  ASSUME NEW st \in GState, st.ok, NEW type \in {"i", "s"}, NEW val, IsElem(type, val)
  PROVE  /\ AddOne(st, type, val) \in GState
         /\ AddOne(st, type, val).ok <=> ElemLen(type, val) <= Radix
         /\ ElemLen(type, val) < Radix => Adds(st, AddOne(st, type, val), ElemFormat(type, val))
<1>1. CASE type = "i"
  <2>1. AddOne(st, type, val) = Add(st, ElemFormat(type, val))
    BY <1>1 DEF AddOne, AddNumber, NumberBytes, ElemFormat, PlainFormat, NumberFormat, Said
  <2>2. ElemFormat(type, val) \in Seq(Nat)
    BY ElemFormatType
  <2>3. Adds(st, AddOne(st, type, val), ElemFormat(type, val))
    BY <2>1, <2>2, AddResult
  <2>4. AddOne(st, type, val) \in GState /\ AddOne(st, type, val).ok
    BY <2>3 DEF Adds
  <2>5. ElemLen(type, val) = 0 /\ 0 <= Radix
    BY <1>1, DSAssumption DEF ElemLen
  <2> QED BY <2>3, <2>4, <2>5
<1>2. CASE type = "s"
  <2>1. val \in Seq(Nat)
    BY <1>2, DigitsAreNumbers DEF IsElem
  <2>2. /\ AddOne(st, type, val) = AddString(st, val)
        /\ ElemLen(type, val) = Len(val)
        /\ ElemFormat(type, val) = Cat(<<Len(val)>>, val)
    BY <1>2 DEF AddOne, ElemLen, ElemFormat, PlainFormat, Said
  <2> QED BY <2>1, <2>2, AddStringResult
<1> QED BY <1>1, <1>2

LEMMA AddFoldResult ==
  ASSUME NEW base \in GState, NEW type \in {"i", "s"}, NEW arr, NEW m \in Nat,
         AreElems(type, arr, m)
  PROVE  /\ AddFold(arr, type, base, m) \in GState
         /\ AddFold(arr, type, base, m).ok <=>
              base.ok /\ \A k \in 1 .. m : ElemLen(type, arr[k]) <= Radix
         /\ base.ok /\ (\A k \in 1 .. m : ElemLen(type, arr[k]) < Radix) =>
              Adds(base, AddFold(arr, type, base, m), FlattenSeq(Formats(type, arr, m)))
<1> DEFINE step == [acc \in GState |-> [k \in 1 .. m |-> AddStep(arr, type, acc, k)]]
           r == AddFold(arr, type, base, m)
           fits(k) == ElemLen(type, arr[k]) <= Radix
<1>1. ASSUME NEW acc \in GState, NEW k \in 1 .. m
      PROVE  /\ AddStep(arr, type, acc, k) \in GState
             /\ AddStep(arr, type, acc, k).ok <=> acc.ok /\ fits(k)
             /\ acc.ok /\ ElemLen(type, arr[k]) < Radix =>
                  Adds(acc, AddStep(arr, type, acc, k), ElemFormat(type, arr[k]))
  <2>1. IsElem(type, arr[k])
    BY DEF AreElems
  <2> QED BY <2>1, AddOneResult DEF AddStep
<1>2. step \in [GState -> [1 .. m -> GState]]
  BY <1>1
<1>3. \A acc \in GState, k \in 1 .. m : step[acc][k] = AddStep(arr, type, acc, k)
  OBVIOUS
<1> HIDE DEF step
<1>4. RunsTo(r, GState, base, step, m)
  BY <1>2, <1>3, AddRuns
<1> HIDE DEF r
<1>5. PICK H \in [0 .. m -> GState] :
        H[0] = base /\ H[m] = r /\ \A k \in 1 .. m : H[k] = step[H[k - 1]][k]
  BY <1>4 DEF RunsTo
<1>6. ASSUME NEW k \in 0 .. m - 1
      PROVE  k + 1 \in 1 .. m /\ H[k] \in GState /\ H[k + 1] = AddStep(arr, type, H[k], k + 1)
  BY <1>3, <1>5
<1>7. r \in GState
  BY <1>5
<1>8. r.ok <=> base.ok /\ \A k \in 1 .. m : fits(k)
  <2> DEFINE T == {k \in 0 .. m : H[k].ok <=> base.ok /\ \A i \in 1 .. k : fits(i)}
  <2>1. 0 \in T
    BY <1>5
  <2>2. ASSUME NEW k \in 0 .. m - 1, k \in T PROVE k + 1 \in T
    <3> HIDE DEF fits
    <3>1. H[k + 1].ok <=> H[k].ok /\ fits(k + 1)
      BY <1>1, <1>6
    <3>2. (\A i \in 1 .. k + 1 : fits(i)) <=> (\A i \in 1 .. k : fits(i)) /\ fits(k + 1)
      <4>1. 1 .. k + 1 = (1 .. k) \cup {k + 1}
        OBVIOUS
      <4> QED BY <4>1
    <3>3. H[k].ok <=> base.ok /\ \A i \in 1 .. k : fits(i)
      BY <2>2
    <3>4. k + 1 \in 0 .. m
      OBVIOUS
    <3>5. H[k + 1].ok <=> base.ok /\ \A i \in 1 .. k + 1 : fits(i)
      BY <3>1, <3>2, <3>3, Zenon
    <3> QED BY <3>4, <3>5
  <2> HIDE DEF T
  <2>3. \A k \in 0 .. m : k \in T
    BY <2>1, <2>2, InductTo
  <2>4. m \in T
    BY <2>3
  <2> QED BY <1>5, <2>4 DEF T
<1>9. ASSUME base.ok, \A k \in 1 .. m : ElemLen(type, arr[k]) < Radix
      PROVE  Adds(base, r, FlattenSeq(Formats(type, arr, m)))
  <2> DEFINE formats == Formats(type, arr, m)
  <2>1. formats \in Seq(Seq(Nat)) /\ Len(formats) = m
        /\ \A k \in 1 .. m : formats[k] = ElemFormat(type, arr[k]) /\ formats[k] \in Seq(Nat)
    BY FormatsType
  <2> HIDE DEF formats
  <2>2. PICK P : Flattens(P, Nat, formats)
    BY <2>1, FlattenRuns
  <2>3. /\ P \in [0 .. m -> Seq(Nat)] /\ P[0] = <<>>
        /\ \A k \in 1 .. m : P[k] = Cat(P[k - 1], formats[k])
        /\ FlattenSeq(formats) = P[m]
    BY <2>1, <2>2 DEF Flattens
  <2> DEFINE T == {k \in 0 .. m : Adds(base, H[k], P[k])}
  <2>4. 0 \in T
    BY <1>5, <2>3, AddsNone
  <2>5. ASSUME NEW k \in 0 .. m - 1, k \in T PROVE k + 1 \in T
    <3>1. /\ k + 1 \in 1 .. m /\ H[k] \in GState
          /\ H[k + 1] = AddStep(arr, type, H[k], k + 1)
          /\ Adds(base, H[k], P[k])
          /\ k + 1 \in 0 .. m /\ (k + 1) - 1 = k
      BY <1>6, <2>5
    <3>2. H[k].ok
      BY <1>9, <3>1 DEF Adds
    <3>3. Adds(H[k], H[k + 1], formats[k + 1])
      BY <1>1, <1>9, <2>1, <3>1, <3>2
    <3>4. P[k] \in Seq(Nat) /\ formats[k + 1] \in Seq(Nat) /\ P[k + 1] = Cat(P[k], formats[k + 1])
      BY <2>1, <2>3, <3>1
    <3>5. Adds(base, H[k + 1], P[k + 1])
      BY <3>1, <3>3, <3>4, AddsThen
    <3> QED BY <3>1, <3>5
  <2> HIDE DEF T
  <2>6. \A k \in 0 .. m : k \in T
    BY <2>4, <2>5, InductTo
  <2>7. m \in T
    BY <2>6
  <2> QED BY <1>5, <2>3, <2>7 DEF T, formats
<1> QED BY <1>7, <1>8, <1>9 DEF r

LEMMA AddEachResult ==
  ASSUME NEW st \in GState, st.ok, NEW type \in {"i", "s"}, NEW arr, Len(arr) \in Nat,
         AreElems(type, arr, Len(arr))
  PROVE  /\ AddEach(st, arr, type) \in GState
         /\ AddEach(st, arr, type).ok <=>
              Len(arr) <= Radix /\ \A k \in 1 .. Len(arr) : ElemLen(type, arr[k]) <= Radix
         /\ Len(arr) < Radix /\ (\A k \in 1 .. Len(arr) : ElemLen(type, arr[k]) < Radix) =>
              Adds(st, AddEach(st, arr, type), ArrayFormat(type, arr))
<1> DEFINE n == Len(arr)
           start == AddLength(st, n)
           r == AddEach(st, arr, type)
           rest == FlattenSeq(Formats(type, arr, n))
<1>0. Radix \in Nat /\ n \in Nat /\ n % Radix \in Nat /\ (n < Radix => n % Radix = n)
  <2>1. n \in Nat /\ Radix \in Nat
    BY DSAssumption
  <2> HIDE DEF n
  <2> QED BY <2>1, DivMod
<1>1. /\ start \in GState
      /\ n > Radix => ~start.ok
      /\ n <= Radix => Adds(st, start, <<n % Radix>>)
  <2> HIDE DEF n
  <2> QED BY <1>0, AddLengthResult
<1>2. r = AddFold(arr, type, start, n)
  BY DEF AddEach, AddFold
<1>3. AreElems(type, arr, n)
  OBVIOUS
<1>4. ArrayFormat(type, arr) = Cat(<<n>>, rest)
  BY DEF ArrayFormat
<1>5. rest \in Seq(Nat)
  <2>1. Formats(type, arr, n) \in Seq(Seq(Nat)) /\ Len(Formats(type, arr, n)) = n
    BY FormatsType
  <2>2. PICK P : Flattens(P, Nat, Formats(type, arr, n))
    BY <2>1, FlattenRuns
  <2> QED BY <2>1, <2>2 DEF Flattens
<1> HIDE DEF start, r
<1>6. /\ r \in GState
      /\ r.ok <=> start.ok /\ \A k \in 1 .. n : ElemLen(type, arr[k]) <= Radix
      /\ start.ok /\ (\A k \in 1 .. n : ElemLen(type, arr[k]) < Radix) => Adds(start, r, rest)
  <2> HIDE DEF n
  <2> QED BY <1>0, <1>1, <1>2, <1>3, AddFoldResult DEF n
<1> HIDE DEF rest, n
<1>7. start.ok <=> n <= Radix
  <2>1. ASSUME n <= Radix PROVE start.ok
    <3>1. Adds(st, start, <<n % Radix>>)
      BY <1>1, <2>1
    <3> QED BY <3>1 DEF Adds
  <2> QED BY <1>0, <1>1, <2>1
<1>8. ASSUME n < Radix, \A k \in 1 .. n : ElemLen(type, arr[k]) < Radix
      PROVE  Adds(st, r, Cat(<<n>>, rest))
  <2>1. Adds(st, start, <<n>>) /\ <<n>> \in Seq(Nat)
    BY <1>0, <1>1, <1>8, OneByte
  <2>2. Adds(start, r, rest)
    BY <1>0, <1>6, <1>7, <1>8
  <2> QED BY <1>5, <2>1, <2>2, AddsThen
<1>9. r.ok <=> n <= Radix /\ \A k \in 1 .. n : ElemLen(type, arr[k]) <= Radix
  BY <1>6, <1>7, Zenon
<1> QED BY <1>4, <1>6, <1>8, <1>9 DEF n, r

GoAccepts(value) == \A n \in Lengths(value) : n <= Radix

GoFits(type, value) == type = "v" \/ GoType(type) = value.type

(* Go has the values of C++ but for the wide strings. *)
LEMMA GoValues ==
  ASSUME NEW value, IsGoValue(value)
  PROVE  IsCppValue(value) /\ value.type \in {"i", "I", "s", "S"} /\ Plain(value) = value
BY DEF IsCppValue, IsGoValue, Plain

LEMMA AddTypedResult ==
  ASSUME NEW st \in GState, st.ok, NEW type, NEW value, IsGoValue(value), GoType(type) = value.type
  PROVE  /\ AddTyped(st, type, value) \in GState
         /\ AddTyped(st, type, value).ok <=> GoAccepts(value)
         /\ Short(value) => Adds(st, AddTyped(st, type, value), ValueFormat(value))
<1> DEFINE r == AddTyped(st, type, value)
           t == value.type
           val == value.val
           n == Len(val)
<1>0. /\ IsOne(value) \/ IsArray(value)
      /\ Radix \in Nat /\ Radix - 1 \in Nat /\ Radix > 7
      /\ ValueFormat(value) = SaidFormat(value)
      /\ IsCppValue(value) /\ t \in {"i", "I", "s", "S"}
  BY GoValues, ValueKinds, DSAssumption, ValueFormatIs
<1>1. CASE IsOne(value)
  <2> DEFINE len == ElemLen(t, val)
  <2>1. t \in {"i", "s"}
    BY <1>0, <1>1 DEF IsOne, ElemTypes
  <2>2. r = AddOne(st, t, val)
    BY <2>1 DEF AddTyped, AddOne
  <2>3. /\ t \in ElemTypes /\ IsElem(t, val) /\ len \in Nat
        /\ SaidFormat(value) = ElemFormat(t, val)
    BY <1>1, ElemFormatType DEF IsOne, SaidFormat
  <2>4. Short(value) <=> len <= Radix - 1
    BY <1>0, <2>3, LengthsAre DEF Short
  <2>5. GoAccepts(value) <=> len <= Radix
    BY <1>0, <2>3, LengthsAre DEF GoAccepts
  <2>6. /\ r \in GState
        /\ r.ok <=> len <= Radix
        /\ len < Radix => Adds(st, r, ElemFormat(t, val))
    <3> HIDE DEF r, t, val
    <3> QED BY <2>1, <2>2, <2>3, AddOneResult
  <2>7. Short(value) => len < Radix
    <3> HIDE DEF len
    <3> QED BY <1>0, <2>3, <2>4
  <2> QED BY <1>0, <2>3, <2>5, <2>6, <2>7
<1>2. CASE IsArray(value)
  <2> DEFINE et == ElemType(t)
             len(k) == ElemLen(et, val[k])
  <2>1. t \in {"I", "S"} /\ et \in {"i", "s"}
    BY <1>0, <1>2 DEF IsArray, ArrayTypes, ElemType
  <2>2. r = AddEach(st, val, et)
    BY <2>1 DEF AddTyped, ElemType
  <2>3. /\ t \in ArrayTypes /\ ~(t \in ElemTypes) /\ n \in Nat /\ AreElems(et, val, n)
        /\ SaidFormat(value) = ArrayFormat(et, val)
    BY <1>2 DEF IsArray, SaidFormat, ElemTypes, ArrayTypes
  <2>4. \A k \in 1 .. n : len(k) \in Nat
    BY <2>3, ElemFormatType DEF AreElems
  <2>5. Short(value) <=> n <= Radix - 1 /\ \A k \in 1 .. n : len(k) <= Radix - 1
    BY <1>0, <2>3, LengthsAre DEF Short
  <2>6. GoAccepts(value) <=> n <= Radix /\ \A k \in 1 .. n : len(k) <= Radix
    BY <1>0, <2>3, LengthsAre DEF GoAccepts
  <2>7. /\ r \in GState
        /\ r.ok <=> n <= Radix /\ \A k \in 1 .. n : len(k) <= Radix
        /\ n < Radix /\ (\A k \in 1 .. n : len(k) < Radix) => Adds(st, r, ArrayFormat(et, val))
    <3> HIDE DEF r, et, val
    <3> QED BY <2>1, <2>2, <2>3, AddEachResult
  <2>8. ASSUME Short(value) PROVE Adds(st, r, ArrayFormat(et, val))
    <3> HIDE DEF len, n
    <3>1. n < Radix
      BY <1>0, <2>3, <2>5, <2>8
    <3>2. ASSUME NEW k \in 1 .. n PROVE len(k) < Radix
      <4>1. len(k) \in Nat /\ len(k) <= Radix - 1
        BY <2>4, <2>5, <2>8 DEF len
      <4> QED BY <1>0, <4>1
    <3> QED BY <2>7, <3>1, <3>2
  <2> QED BY <1>0, <2>3, <2>6, <2>7, <2>8
<1> QED BY <1>0, <1>1, <1>2

LEMMA AddValueResult ==
  ASSUME NEW st \in GState, st.ok, NEW type, NEW value, IsGoValue(value)
  PROVE  /\ AddValue(st, type, value) \in GState
         /\ AddValue(st, type, value).ok <=> GoFits(type, value) /\ GoAccepts(value)
         /\ GoFits(type, value) /\ Short(value) =>
              Adds(st, AddValue(st, type, value), MarkedFormat(type, value))
<1> DEFINE r == AddValue(st, type, value)
<1>0. IsCppValue(value) /\ value.type \in {"i", "I", "s", "S"} /\ Plain(value) = value
  BY GoValues
<1>1. CASE type = "v"
  <2> DEFINE mark == <<Tags[value.type]>>
             st2 == Add(st, mark)
  <2>1. r = AddTyped(st2, value.type, value) /\ GoType(value.type) = value.type
    BY <1>0, <1>1 DEF AddValue, GoType
  <2>2. mark \in Seq(Nat) /\ ValueFormat(value) \in Seq(Nat) /\ mark = <<Tags[Plain(value).type]>>
    BY <1>0, PlainType, OneByte, ValueFormatType
  <2>3. Adds(st, st2, mark)
    BY <2>2, AddResult
  <2>4. st2 \in GState /\ st2.ok
    BY <2>3 DEF Adds
  <2>5. MarkedFormat(type, value) = Cat(mark, ValueFormat(value)) /\ GoFits(type, value)
    BY <1>1, <2>2 DEF MarkedFormat, GoFits
  <2> HIDE DEF st2, mark, r
  <2>6. /\ r \in GState
        /\ r.ok <=> GoAccepts(value)
        /\ Short(value) => Adds(st2, r, ValueFormat(value))
    BY <2>1, <2>4, AddTypedResult
  <2>7. Short(value) => Adds(st, r, Cat(mark, ValueFormat(value)))
    BY <2>2, <2>3, <2>6, AddsThen
  <2> QED BY <2>5, <2>6, <2>7 DEF r
<1>2. CASE type # "v" /\ GoType(type) = value.type
  <2>1. r = AddTyped(st, type, value)
    BY <1>2 DEF AddValue
  <2> QED BY <1>2, <2>1, AddTypedResult DEF GoFits, MarkedFormat
<1>3. CASE type # "v" /\ GoType(type) # value.type
  <2>1. r = Abandon(st)
    BY <1>3 DEF AddValue, AddTyped
  <2> QED BY <1>3, <2>1, AbandonResult DEF GoFits
<1> QED BY <1>1, <1>2, <1>3

LEMMA GoToFoldResult ==
  ASSUME NEW base \in GState, base.ok, NEW types, NEW vals, NEW m \in Nat,
         \A k \in 1 .. m : IsGoValue(vals[k])
  PROVE  /\ GoToFold(types, vals, base, m) \in GState
         /\ GoToFold(types, vals, base, m).ok <=>
              \A k \in 1 .. m : GoFits(types[k], vals[k]) /\ GoAccepts(vals[k])
         /\ (\A k \in 1 .. m : GoFits(types[k], vals[k]) /\ Short(vals[k])) =>
              Adds(base, GoToFold(types, vals, base, m), FlattenSeq(MarkedFormats(types, vals, m)))
<1> DEFINE step == [acc \in GState |-> [k \in 1 .. m |-> GoToStep(types, vals, acc, k)]]
           r == GoToFold(types, vals, base, m)
           fits(k) == GoFits(types[k], vals[k]) /\ GoAccepts(vals[k])
           short(k) == GoFits(types[k], vals[k]) /\ Short(vals[k])
<1>1. ASSUME NEW acc \in GState, NEW k \in 1 .. m
      PROVE  /\ GoToStep(types, vals, acc, k) \in GState
             /\ GoToStep(types, vals, acc, k).ok <=> acc.ok /\ fits(k)
             /\ acc.ok /\ short(k) =>
                  Adds(acc, GoToStep(types, vals, acc, k), MarkedFormat(types[k], vals[k]))
  BY AddValueResult DEF GoToStep
<1>2. step \in [GState -> [1 .. m -> GState]]
  BY <1>1
<1>3. \A acc \in GState, k \in 1 .. m : step[acc][k] = GoToStep(types, vals, acc, k)
  OBVIOUS
<1> HIDE DEF step
<1>4. RunsTo(r, GState, base, step, m)
  BY <1>2, <1>3, GoToRuns
<1> HIDE DEF r
<1>5. PICK H \in [0 .. m -> GState] :
        H[0] = base /\ H[m] = r /\ \A k \in 1 .. m : H[k] = step[H[k - 1]][k]
  BY <1>4 DEF RunsTo
<1>6. ASSUME NEW k \in 0 .. m - 1
      PROVE  k + 1 \in 1 .. m /\ H[k] \in GState /\ H[k + 1] = GoToStep(types, vals, H[k], k + 1)
  BY <1>3, <1>5
<1>7. r \in GState
  BY <1>5
<1>8. r.ok <=> \A k \in 1 .. m : fits(k)
  <2> DEFINE T == {k \in 0 .. m : H[k].ok <=> \A i \in 1 .. k : fits(i)}
  <2>1. 0 \in T
    BY <1>5
  <2>2. ASSUME NEW k \in 0 .. m - 1, k \in T PROVE k + 1 \in T
    <3> HIDE DEF fits
    <3>1. H[k + 1].ok <=> H[k].ok /\ fits(k + 1)
      BY <1>1, <1>6
    <3>2. (\A i \in 1 .. k + 1 : fits(i)) <=> (\A i \in 1 .. k : fits(i)) /\ fits(k + 1)
      <4>1. 1 .. k + 1 = (1 .. k) \cup {k + 1}
        OBVIOUS
      <4> QED BY <4>1
    <3>3. H[k].ok <=> \A i \in 1 .. k : fits(i)
      BY <2>2
    <3>4. k + 1 \in 0 .. m
      OBVIOUS
    <3>5. H[k + 1].ok <=> \A i \in 1 .. k + 1 : fits(i)
      BY <3>1, <3>2, <3>3, Zenon
    <3> QED BY <3>4, <3>5
  <2> HIDE DEF T
  <2>3. \A k \in 0 .. m : k \in T
    BY <2>1, <2>2, InductTo
  <2>4. m \in T
    BY <2>3
  <2> QED BY <1>5, <2>4 DEF T
<1>9. ASSUME \A k \in 1 .. m : short(k)
      PROVE  Adds(base, r, FlattenSeq(MarkedFormats(types, vals, m)))
  <2> DEFINE formats == MarkedFormats(types, vals, m)
  <2>1. formats \in Seq(Seq(Nat)) /\ Len(formats) = m
        /\ \A k \in 1 .. m : formats[k] = MarkedFormat(types[k], vals[k]) /\ formats[k] \in Seq(Nat)
    BY GoValues, MarkedFormatsType
  <2> HIDE DEF formats
  <2>2. PICK P : Flattens(P, Nat, formats)
    BY <2>1, FlattenRuns
  <2>3. /\ P \in [0 .. m -> Seq(Nat)] /\ P[0] = <<>>
        /\ \A k \in 1 .. m : P[k] = Cat(P[k - 1], formats[k])
        /\ FlattenSeq(formats) = P[m]
    BY <2>1, <2>2 DEF Flattens
  <2> DEFINE T == {k \in 0 .. m : Adds(base, H[k], P[k])}
  <2>4. 0 \in T
    BY <1>5, <2>3, AddsNone
  <2>5. ASSUME NEW k \in 0 .. m - 1, k \in T PROVE k + 1 \in T
    <3>1. /\ k + 1 \in 1 .. m /\ H[k] \in GState
          /\ H[k + 1] = GoToStep(types, vals, H[k], k + 1)
          /\ Adds(base, H[k], P[k])
          /\ k + 1 \in 0 .. m /\ (k + 1) - 1 = k
      BY <1>6, <2>5
    <3>2. H[k].ok
      BY <3>1 DEF Adds
    <3>3. Adds(H[k], H[k + 1], formats[k + 1])
      BY <1>1, <1>9, <2>1, <3>1, <3>2
    <3>4. P[k] \in Seq(Nat) /\ formats[k + 1] \in Seq(Nat) /\ P[k + 1] = Cat(P[k], formats[k + 1])
      BY <2>1, <2>3, <3>1
    <3>5. Adds(base, H[k + 1], P[k + 1])
      BY <3>1, <3>3, <3>4, AddsThen
    <3> QED BY <3>1, <3>5
  <2> HIDE DEF T
  <2>6. \A k \in 0 .. m : k \in T
    BY <2>4, <2>5, InductTo
  <2>7. m \in T
    BY <2>6
  <2> QED BY <1>5, <2>3, <2>7 DEF T, formats
<1> QED BY <1>7, <1>8, <1>9 DEF r

(* What Go's ToBinary writes, and when it refuses. *)
LEMMA GoToBinaryResult ==
  ASSUME NEW types, NEW vals, Len(types) \in Nat, Len(vals) \in Nat,
         \A k \in 1 .. Len(vals) : IsGoValue(vals[k])
  PROVE  /\ GoToBinary(types, vals).ok \in BOOLEAN
         /\ GoToBinary(types, vals).body \in Seq(Nat)
         /\ GoToBinary(types, vals).ok <=>
              /\ Len(types) = Len(vals)
              /\ \A k \in 1 .. Len(vals) : GoFits(types[k], vals[k]) /\ GoAccepts(vals[k])
         /\ Len(types) = Len(vals) /\
            (\A k \in 1 .. Len(vals) : GoFits(types[k], vals[k]) /\ Short(vals[k])) =>
              GoToBinary(types, vals).body = FlattenSeq(MarkedFormats(types, vals, Len(vals)))
<1> DEFINE n == Len(vals)
           end == GoToFold(types, vals, Appending, n)
           r == GoToBinary(types, vals)
           formats == MarkedFormats(types, vals, n)
<1>1. Appending \in GState /\ Appending.ok /\ Appending.body = <<>>
  BY EmptySeq DEF Appending, GState
<1>2. CASE Len(types) # n
  <2>1. r = Abandon(Appending)
    BY <1>2 DEF GoToBinary
  <2>2. r \in GState /\ ~r.ok
    BY <1>1, <2>1, AbandonResult
  <2> QED BY <1>2, <2>2 DEF GState
<1>3. CASE Len(types) = n
  <2>1. r = end
    BY <1>3 DEF GoToBinary, GoToFold
  <2> HIDE DEF n, r
  <2>2. /\ end \in GState
        /\ end.ok <=> \A k \in 1 .. n : GoFits(types[k], vals[k]) /\ GoAccepts(vals[k])
        /\ (\A k \in 1 .. n : GoFits(types[k], vals[k]) /\ Short(vals[k])) =>
             Adds(Appending, end, FlattenSeq(formats))
    BY <1>1, GoToFoldResult DEF n
  <2> HIDE DEF end, formats
  <2>3. FlattenSeq(formats) \in Seq(Nat)
    <3>1. formats \in Seq(Seq(Nat)) /\ Len(formats) = n
      BY GoValues, MarkedFormatsType DEF formats, n
    <3>2. PICK P : Flattens(P, Nat, formats)
      BY <3>1, FlattenRuns
    <3> QED BY <3>1, <3>2 DEF Flattens, n
  <2>4. ASSUME \A k \in 1 .. n : GoFits(types[k], vals[k]) /\ Short(vals[k])
        PROVE  r.body = FlattenSeq(formats)
    <3>1. end.body = Cat(<<>>, FlattenSeq(formats))
      BY <1>1, <2>2, <2>4 DEF Adds
    <3> QED BY <2>1, <2>3, <3>1, CatEmpty
  <2>5. end.ok \in BOOLEAN /\ end.body \in Seq(Nat)
    BY <2>2 DEF GState
  <2> QED BY <1>3, <2>1, <2>2, <2>4, <2>5 DEF n, r, formats
<1> QED BY <1>2, <1>3

-----------------------------------------------------------------------------
(* Reading.  The message may end anywhere: as far as it goes, it holds the *)
(* bytes e from the offset on.                                             *)
Partly(m, o, e) == \A j \in 1 .. Len(e) : o + j <= Len(m) => m[o + j] = e[j]

Prefix(a, b) == Len(a) <= Len(b) /\ \A j \in 1 .. Len(a) : b[j] = a[j]

Joins(c, a, b, S) ==
  /\ c \in Seq(S)
  /\ Len(a) \in Nat /\ Len(b) \in Nat /\ Len(c) = Len(a) + Len(b)
  /\ \A j \in 1 .. Len(a) : c[j] = a[j]
  /\ \A j \in 1 .. Len(b) : c[Len(a) + j] = b[j]

LEMMA CatParts ==
  ASSUME NEW S, NEW a \in Seq(S), NEW b \in Seq(S)
  PROVE  Joins(Cat(a, b), a, b, S)
<1> DEFINE c == Cat(a, b)
<1>1. c \in Seq(S) /\ Len(c) = Len(a) + Len(b) /\ Len(a) \in Nat /\ Len(b) \in Nat
  BY CatType, LenProperties
<1>2. \A i \in 1 .. Len(a) + Len(b) : c[i] = IF i <= Len(a) THEN a[i] ELSE b[i - Len(a)]
  BY CatElements
<1> HIDE DEF c
<1>3. ASSUME NEW j \in 1 .. Len(a) PROVE c[j] = a[j]
  BY <1>1, <1>2
<1>4. ASSUME NEW j \in 1 .. Len(b) PROVE c[Len(a) + j] = b[j]
  <2>1. Len(a) + j \in 1 .. Len(a) + Len(b) /\ ~(Len(a) + j <= Len(a)) /\ (Len(a) + j) - Len(a) = j
    BY <1>1
  <2> QED BY <1>2, <2>1
<1> QED BY <1>1, <1>3, <1>4 DEF c, Joins

LEMMA PartlyCat ==
  ASSUME NEW m \in Seq(Nat), NEW o \in Nat, NEW a \in Seq(Nat), NEW b \in Seq(Nat),
         Partly(m, o, Cat(a, b))
  PROVE  Partly(m, o, a) /\ Partly(m, o + Len(a), b)
<1> DEFINE c == Cat(a, b)
<1>1. /\ Len(a) \in Nat /\ Len(b) \in Nat /\ Len(c) = Len(a) + Len(b) /\ Len(m) \in Nat
      /\ \A j \in 1 .. Len(a) : c[j] = a[j]
      /\ \A j \in 1 .. Len(b) : c[Len(a) + j] = b[j]
  <2>1. Len(m) \in Nat
    BY LenProperties
  <2>2. Joins(c, a, b, Nat)
    BY CatParts
  <2> HIDE DEF c
  <2> QED BY <2>1, <2>2 DEF Joins
<1>2. \A j \in 1 .. Len(c) : o + j <= Len(m) => m[o + j] = c[j]
  BY DEF Partly
<1> HIDE DEF c
<1>3. ASSUME NEW j \in 1 .. Len(a), o + j <= Len(m) PROVE m[o + j] = a[j]
  BY <1>1, <1>2, <1>3
<1>4. ASSUME NEW j \in 1 .. Len(b), o + Len(a) + j <= Len(m) PROVE m[o + Len(a) + j] = b[j]
  <2>1. Len(a) + j \in 1 .. Len(c) /\ o + (Len(a) + j) = o + Len(a) + j
    BY <1>1
  <2>2. m[o + (Len(a) + j)] = c[Len(a) + j]
    BY <1>2, <1>4, <2>1
  <2> QED BY <1>1, <2>1, <2>2
<1> QED BY <1>3, <1>4 DEF Partly

(* The parts of a flattened sequence follow one another. *)
Slices(P, whole, part, k, S) ==
  /\ part \in Seq(S) /\ Len(part) \in Nat
  /\ P[k - 1] \in Seq(S) /\ Len(P[k - 1]) \in Nat
  /\ P[k] \in Seq(S) /\ Len(P[k]) = Len(P[k - 1]) + Len(part)
  /\ Len(P[k]) <= Len(whole)
  /\ \A j \in 1 .. Len(part) : whole[Len(P[k - 1]) + j] = part[j]

LEMMA FlattenSlices ==
  ASSUME NEW S, NEW seqs \in Seq(Seq(S)), NEW P, Flattens(P, S, seqs)
  PROVE  /\ Len(seqs) \in Nat /\ FlattenSeq(seqs) \in Seq(S) /\ Len(FlattenSeq(seqs)) \in Nat
         /\ \A k \in 1 .. Len(seqs) : Slices(P, FlattenSeq(seqs), seqs[k], k, S)
<1> DEFINE n == Len(seqs)
<1>1. /\ n \in Nat
      /\ \A k \in 1 .. n : seqs[k] \in Seq(S)
  BY LenProperties, ElementOfSeq
<1>2. /\ P \in [0 .. n -> Seq(S)]
      /\ \A k \in 1 .. n : P[k] = Cat(P[k - 1], seqs[k])
      /\ FlattenSeq(seqs) = P[n]
  BY DEF Flattens
<1> HIDE DEF n
<1>3. ASSUME NEW k \in 1 .. n
      PROVE  /\ seqs[k] \in Seq(S) /\ Len(seqs[k]) \in Nat
             /\ P[k - 1] \in Seq(S) /\ Len(P[k - 1]) \in Nat
             /\ P[k] \in Seq(S) /\ Len(P[k]) = Len(P[k - 1]) + Len(seqs[k])
             /\ Prefix(P[k - 1], P[k])
             /\ \A j \in 1 .. Len(seqs[k]) : P[k][Len(P[k - 1]) + j] = seqs[k][j]
  <2>1. seqs[k] \in Seq(S) /\ P[k - 1] \in Seq(S) /\ P[k] = Cat(P[k - 1], seqs[k])
    BY <1>1, <1>2
  <2> DEFINE a == P[k - 1]
             b == seqs[k]
             c == P[k]
  <2>2. /\ c \in Seq(S) /\ Len(a) \in Nat /\ Len(b) \in Nat /\ Len(c) = Len(a) + Len(b)
        /\ \A j \in 1 .. Len(a) : c[j] = a[j]
        /\ \A j \in 1 .. Len(b) : c[Len(a) + j] = b[j]
    <3>1. a \in Seq(S) /\ b \in Seq(S) /\ c = Cat(a, b)
      BY <2>1
    <3> HIDE DEF a, b, c
    <3>2. Joins(c, a, b, S)
      BY <3>1, CatParts
    <3> QED BY <3>2 DEF Joins
  <2>3. Len(a) <= Len(c)
    <3> HIDE DEF a, b, c
    <3> QED BY <2>2
  <2> QED BY <2>1, <2>2, <2>3 DEF Prefix
<1> DEFINE T == {i \in 0 .. n : \A k \in 0 .. i : Prefix(P[k], P[i])}
<1>4. \A k \in 0 .. n : P[k] \in Seq(S) /\ Len(P[k]) \in Nat
  BY <1>2, LenProperties
<1>5. 0 \in T
  BY <1>1, <1>4 DEF Prefix
<1>6. ASSUME NEW i \in 0 .. n - 1, i \in T PROVE i + 1 \in T
  <2>1. i + 1 \in 1 .. n /\ (i + 1) - 1 = i /\ i + 1 \in 0 .. n
    BY <1>1
  <2>2. Prefix(P[i], P[i + 1])
    BY <1>3, <2>1
  <2>3. ASSUME NEW k \in 0 .. i + 1 PROVE Prefix(P[k], P[i + 1])
    <3>1. CASE k = i + 1
      BY <1>4, <2>1, <3>1 DEF Prefix
    <3>2. CASE k # i + 1
      <4>1. Prefix(P[k], P[i])
        BY <1>6, <3>2
      <4>2. Len(P[k]) \in Nat /\ Len(P[i]) \in Nat /\ Len(P[i + 1]) \in Nat
        BY <1>1, <1>4, <2>1, <3>2
      <4> QED BY <2>2, <4>1, <4>2 DEF Prefix
    <3> QED BY <3>1, <3>2
  <2> QED BY <2>1, <2>3
<1> HIDE DEF T
<1>7. \A i \in 0 .. n : i \in T
  BY <1>1, <1>5, <1>6, InductTo
<1>8. \A k \in 0 .. n : Prefix(P[k], P[n])
  BY <1>1, <1>7 DEF T
<1>9. ASSUME NEW k \in 1 .. n
      PROVE  /\ Len(P[k]) <= Len(P[n])
             /\ \A j \in 1 .. Len(seqs[k]) : P[n][Len(P[k - 1]) + j] = seqs[k][j]
  <2>1. Prefix(P[k], P[n])
    BY <1>8
  <2>2. \A j \in 1 .. Len(seqs[k]) : Len(P[k - 1]) + j \in 1 .. Len(P[k])
    <3> DEFINE a == Len(P[k - 1])
               b == Len(seqs[k])
               c == Len(P[k])
    <3>1. a \in Nat /\ b \in Nat /\ c = a + b
      BY <1>3
    <3> HIDE DEF a, b, c
    <3>2. \A j \in 1 .. b : a + j \in 1 .. c
      BY <3>1
    <3> QED BY <3>2 DEF a, b, c
  <2>3. \A j \in 1 .. Len(seqs[k]) : P[n][Len(P[k - 1]) + j] = P[k][Len(P[k - 1]) + j]
    BY <2>1, <2>2 DEF Prefix
  <2> QED BY <1>3, <2>1, <2>3 DEF Prefix
<1>10. FlattenSeq(seqs) \in Seq(S) /\ Len(FlattenSeq(seqs)) \in Nat
  BY <1>1, <1>2, <1>4
<1>11. ASSUME NEW k \in 1 .. n PROVE Slices(P, FlattenSeq(seqs), seqs[k], k, S)
  BY <1>2, <1>3, <1>9 DEF Slices
<1> QED BY <1>1, <1>10, <1>11 DEF n

LEMMA PartlySlices ==
  ASSUME NEW m \in Seq(Nat), NEW o \in Nat, NEW seqs \in Seq(Seq(Nat)), NEW P,
         Flattens(P, Nat, seqs), Partly(m, o, FlattenSeq(seqs))
  PROVE  \A k \in 1 .. Len(seqs) : Partly(m, o + Len(P[k - 1]), seqs[k])
<1> SUFFICES ASSUME NEW k \in 1 .. Len(seqs), NEW j \in 1 .. Len(seqs[k]),
                    o + Len(P[k - 1]) + j <= Len(m)
             PROVE  m[o + Len(P[k - 1]) + j] = seqs[k][j]
  BY DEF Partly
<1> DEFINE a == Len(P[k - 1])
           b == Len(seqs[k])
           e == FlattenSeq(seqs)
<1>1. Slices(P, e, seqs[k], k, Nat) /\ Len(e) \in Nat
  BY FlattenSlices
<1>2. a \in Nat /\ b \in Nat /\ Len(P[k]) = a + b /\ Len(P[k]) <= Len(e) /\ e[a + j] = seqs[k][j]
  <2> HIDE DEF e
  <2> QED BY <1>1 DEF Slices
<1>3. \A i \in 1 .. Len(e) : o + i <= Len(m) => m[o + i] = e[i]
  BY DEF Partly
<1>4. o + a + j <= Len(m) /\ j \in 1 .. b
  OBVIOUS
<1> HIDE DEF e, a, b
<1>5. a + j \in 1 .. Len(e) /\ o + (a + j) = o + a + j
  BY <1>1, <1>2, <1>4
<1>6. m[o + (a + j)] = e[a + j]
  BY <1>3, <1>4, <1>5
<1>7. m[o + a + j] = seqs[k][j]
  BY <1>2, <1>5, <1>6
<1> QED BY <1>7 DEF a

-----------------------------------------------------------------------------
(* Wide strings: what from_bytes makes of well-formed bytes, to_bytes turns *)
(* back into the same bytes.                                               *)
LEMMA FlattenHead ==
  ASSUME NEW S, NEW x \in Seq(S), NEW seqs \in Seq(Seq(S))
  PROVE  FlattenSeq(Cat(<<x>>, seqs)) = Cat(x, FlattenSeq(seqs))
<1> DEFINE all == Cat(<<x>>, seqs)
           n == Len(seqs)
<1>1. <<x>> \in Seq(Seq(S)) /\ Len(<<x>>) = 1 /\ <<x>>[1] = x
  OBVIOUS
<1>2. Joins(all, <<x>>, seqs, Seq(S))
  BY <1>1, CatParts
<1>3. /\ all \in Seq(Seq(S)) /\ n \in Nat /\ Len(all) = 1 + n /\ all[1] = x
      /\ \A j \in 1 .. n : all[1 + j] = seqs[j]
  <2> HIDE DEF all
  <2> QED BY <1>1, <1>2 DEF Joins
<1> HIDE DEF all
<1>4. PICK P : Flattens(P, S, all)
  BY <1>3, FlattenRuns
<1>5. PICK Q : Flattens(Q, S, seqs)
  BY FlattenRuns
<1>6. /\ P \in [0 .. 1 + n -> Seq(S)] /\ P[0] = <<>> /\ FlattenSeq(all) = P[1 + n]
      /\ \A k \in 1 .. 1 + n : P[k] = Cat(P[k - 1], all[k])
  BY <1>3, <1>4 DEF Flattens
<1>7. /\ Q \in [0 .. n -> Seq(S)] /\ Q[0] = <<>> /\ FlattenSeq(seqs) = Q[n]
      /\ \A k \in 1 .. n : Q[k] = Cat(Q[k - 1], seqs[k])
  BY <1>5 DEF Flattens
<1> HIDE DEF n
<1> DEFINE T == {k \in 0 .. n : P[k + 1] = Cat(x, Q[k])}
<1>8. 0 \in T
  <2>1. 1 \in 1 .. 1 + n /\ 1 - 1 = 0 /\ 0 \in 0 .. n
    BY <1>3
  <2>2. P[1] = Cat(<<>>, x)
    BY <1>3, <1>6, <2>1
  <2>3. P[1] = Cat(x, Q[0])
    BY <1>7, <2>2, CatEmpty
  <2> QED BY <2>1, <2>3
<1>9. ASSUME NEW k \in 0 .. n - 1, k \in T PROVE k + 1 \in T
  <2>1. /\ k + 1 \in 1 .. n /\ (k + 1) + 1 \in 1 .. 1 + n /\ (k + 1) - 1 = k
        /\ (k + 1) + 1 - 1 = k + 1 /\ k \in 0 .. n /\ (k + 1) + 1 = 1 + (k + 1) /\ k + 1 \in 0 .. n
    BY <1>3
  <2>2. P[(k + 1) + 1] = Cat(P[k + 1], seqs[k + 1])
    BY <1>3, <1>6, <2>1
  <2>3. Q[k + 1] = Cat(Q[k], seqs[k + 1]) /\ Q[k] \in Seq(S)
    BY <1>7, <2>1
  <2>4. seqs[k + 1] \in Seq(S)
    BY <2>1, ElementOfSeq DEF n
  <2>5. P[(k + 1) + 1] = Cat(Cat(x, Q[k]), seqs[k + 1])
    BY <1>9, <2>2
  <2>6. P[(k + 1) + 1] = Cat(x, Q[k + 1])
    BY <2>3, <2>4, <2>5, CatAssociative
  <2> QED BY <2>1, <2>6
<1> HIDE DEF T
<1>10. \A k \in 0 .. n : k \in T
  BY <1>3, <1>8, <1>9, InductTo
<1>11. P[n + 1] = Cat(x, Q[n]) /\ n + 1 = 1 + n
  BY <1>3, <1>10 DEF T
<1> QED BY <1>6, <1>7, <1>11 DEF all

LEMMA ToBytesHead ==
  ASSUME NEW c \in WideChars, NEW str \in Seq(WideChars)
  PROVE  ToBytes(Cat(<<c>>, str)) = Cat(WideBytes(c), ToBytes(str))
<1> DEFINE all == Cat(<<c>>, str)
           pieces == Cat(<<WideBytes(c)>>, Pieces(str))
<1>1. <<c>> \in Seq(WideChars) /\ Len(<<c>>) = 1 /\ <<c>>[1] = c
  OBVIOUS
<1>2. Joins(all, <<c>>, str, WideChars)
  BY <1>1, CatParts
<1>3. WideBytes(c) \in Seq(Digits) /\ Pieces(str) \in Seq(Seq(Digits)) /\ Len(Pieces(str)) = Len(str)
  BY WideBytesType, PiecesType
<1>4. <<WideBytes(c)>> \in Seq(Seq(Digits)) /\ Len(<<WideBytes(c)>>) = 1 /\ <<WideBytes(c)>>[1] = WideBytes(c)
  BY <1>3
<1>5. Joins(pieces, <<WideBytes(c)>>, Pieces(str), Seq(Digits))
  BY <1>3, <1>4, CatParts
<1> HIDE DEF all, pieces
<1>6. /\ all \in Seq(WideChars) /\ Len(str) \in Nat /\ Len(all) = 1 + Len(str) /\ all[1] = c
      /\ \A j \in 1 .. Len(str) : all[1 + j] = str[j]
  BY <1>1, <1>2 DEF Joins
<1>7. /\ pieces \in Seq(Seq(Digits)) /\ Len(pieces) = 1 + Len(str) /\ pieces[1] = WideBytes(c)
      /\ \A j \in 1 .. Len(str) : pieces[1 + j] = Pieces(str)[j]
  BY <1>3, <1>4, <1>5 DEF Joins
<1>8. /\ Pieces(all) \in Seq(Seq(Digits)) /\ Len(Pieces(all)) = 1 + Len(str)
  BY <1>6, PiecesType
<1>9. /\ \A j \in 1 .. 1 + Len(str) : Pieces(all)[j] = WideBytes(all[j])
      /\ \A j \in 1 .. Len(str) : Pieces(str)[j] = WideBytes(str[j])
  <2>1. DOMAIN all = 1 .. 1 + Len(str) /\ DOMAIN str = 1 .. Len(str)
    BY <1>6, LenProperties
  <2> QED BY <2>1 DEF Pieces
<1>10. \A j \in 1 .. 1 + Len(str) : Pieces(all)[j] = pieces[j]
  <2> SUFFICES ASSUME NEW j \in 1 .. 1 + Len(str) PROVE Pieces(all)[j] = pieces[j]
    OBVIOUS
  <2>1. CASE j = 1
    BY <1>6, <1>7, <1>9, <2>1
  <2>2. CASE j # 1
    <3>1. j - 1 \in 1 .. Len(str) /\ 1 + (j - 1) = j
      BY <1>6, <2>2
    <3>2. all[j] = str[j - 1] /\ pieces[j] = Pieces(str)[j - 1]
      BY <1>6, <1>7, <3>1
    <3> QED BY <1>9, <3>1, <3>2
  <2> QED BY <2>1, <2>2
<1>11. Pieces(all) = pieces
  BY <1>7, <1>8, <1>10, SeqEqual
<1>12. FlattenSeq(pieces) = Cat(WideBytes(c), FlattenSeq(Pieces(str)))
  BY <1>3, FlattenHead DEF pieces
<1> QED BY <1>11, <1>12 DEF ToBytes, Pieces, all

LEMMA ToBytesEmpty == ToBytes(<<>>) = <<>>
<1>1. Pieces(<<>>) \in Seq(Seq(Digits)) /\ Len(Pieces(<<>>)) = 0
  <2>1. <<>> \in Seq(WideChars) /\ Len(<<>>) = 0
    BY EmptySeq
  <2> QED BY <2>1, PiecesType
<1>2. Pieces(<<>>) = <<>>
  BY <1>1, EmptySeq
<1> QED BY <1>2 DEF ToBytes, Pieces, FlattenSeq

(* What is left of a text from its k-th byte on. *)
Rest(text, k) == SubSeq(text, k, Len(text))

IsRest(r, text, k) ==
  /\ r \in Seq(Digits) /\ Len(r) = Len(text) + 1 - k
  /\ \A j \in 1 .. Len(r) : r[j] = text[k + j - 1]

LEMMA RestParts ==
  ASSUME NEW text \in Seq(Digits), NEW k \in 1 .. Len(text) + 1
  PROVE  IsRest(Rest(text, k), text, k)
<1>1. Len(text) \in Nat /\ \A i \in 1 .. Len(text) : text[i] \in Digits
  BY LenProperties, ElementOfSeq
<1>2. \A i \in k .. Len(text) : text[i] \in Digits
  BY <1>1
<1>3. /\ Rest(text, k) \in Seq(Digits)
      /\ Len(Rest(text, k)) = IF k <= Len(text) THEN Len(text) - k + 1 ELSE 0
      /\ \A i \in 1 .. Len(text) - k + 1 : Rest(text, k)[i] = text[k + i - 1]
  BY <1>1, <1>2, SubSeqProperties DEF Rest
<1>4. Len(Rest(text, k)) = Len(text) + 1 - k /\ Len(text) + 1 - k = Len(text) - k + 1
  BY <1>1, <1>3
<1> QED BY <1>3, <1>4 DEF IsRest

LEMMA RestHead ==
  ASSUME NEW text \in Seq(Digits), NEW head \in Seq(Digits), NEW k \in 1 .. Len(text) + 1,
         k + Len(head) <= Len(text) + 1,
         \A j \in 1 .. Len(head) : text[k + j - 1] = head[j]
  PROVE  Cat(head, Rest(text, k + Len(head))) = Rest(text, k)
<1> DEFINE n == Len(text)
           h == Len(head)
           rest == Rest(text, k + h)
           whole == Rest(text, k)
           c == Cat(head, rest)
<1>1. n \in Nat /\ h \in Nat
  BY LenProperties
<1>2. k + h \in 1 .. n + 1
  BY <1>1
<1>3. IsRest(rest, text, k + h) /\ IsRest(whole, text, k)
  BY <1>2, RestParts
<1>4. Joins(c, head, rest, Digits)
  BY <1>3, CatParts DEF IsRest
<1> HIDE DEF rest, whole, c
<1>5. /\ rest \in Seq(Digits) /\ Len(rest) = n + 1 - (k + h)
      /\ \A j \in 1 .. Len(rest) : rest[j] = text[k + h + j - 1]
      /\ whole \in Seq(Digits) /\ Len(whole) = n + 1 - k
      /\ \A j \in 1 .. Len(whole) : whole[j] = text[k + j - 1]
  BY <1>3 DEF IsRest
<1>6. /\ c \in Seq(Digits) /\ Len(c) = h + Len(rest)
      /\ \A j \in 1 .. h : c[j] = head[j]
      /\ \A j \in 1 .. Len(rest) : c[h + j] = rest[j]
  BY <1>4 DEF Joins
<1>7. \A j \in 1 .. h : text[k + j - 1] = head[j]
  OBVIOUS
<1> HIDE DEF n, h
<1>8. Len(c) = Len(whole)
  BY <1>1, <1>5, <1>6
<1>9. ASSUME NEW j \in 1 .. Len(whole) PROVE c[j] = whole[j]
  <2>1. CASE j <= h
    BY <1>1, <1>5, <1>6, <1>7, <2>1
  <2>2. CASE ~(j <= h)
    <3>1. j - h \in 1 .. Len(rest) /\ h + (j - h) = j /\ k + h + (j - h) - 1 = k + j - 1
      BY <1>1, <1>5, <2>2
    <3>2. c[j] = rest[j - h] /\ rest[j - h] = text[k + j - 1]
      BY <1>5, <1>6, <3>1
    <3> QED BY <1>5, <3>2
  <2> QED BY <2>1, <2>2
<1>10. c = whole
  BY <1>5, <1>6, <1>8, <1>9, SeqEqual
<1> QED BY <1>10 DEF c, whole, rest, h

(* One character of from_bytes, and what it goes on with. *)
DecodesAt(f, text, k) ==
  f[k] = IF k > Len(text) THEN <<>>
         ELSE IF text[k] = Lead THEN <<Lead + text[k + 1] - 1>> \o f[k + 2]
         ELSE <<text[k]>> \o f[k + 1]

LEMMA WellFormedAt ==
  ASSUME NEW text \in Seq(Digits), WellFormed(text), NEW k \in 1 .. Len(text)
  PROVE  /\ text[k] \in Digits
         /\ text[k] = Lead => /\ k + 1 \in 1 .. Len(text) /\ text[k + 1] \in Digits
                              /\ text[k + 1] # 0 /\ text[k + 1] # Lead
<1>1. Len(text) \in Nat /\ DOMAIN text = 1 .. Len(text) /\ \A i \in 1 .. Len(text) : text[i] \in Digits
  BY LenProperties, ElementOfSeq
<1>2. text[k] = Lead => k < Len(text) /\ text[k + 1] \notin {0, Lead}
  BY <1>1 DEF WellFormed
<1> QED BY <1>1, <1>2

(* A character that has been read is written as it was. *)
LEMMA CharacterBack ==
  ASSUME NEW text \in Seq(Digits), WellFormed(text), NEW k \in 1 .. Len(text)
  PROVE  /\ text[k] = Lead => /\ Lead + text[k + 1] - 1 \in WideChars
                              /\ WideBytes(Lead + text[k + 1] - 1) = <<Lead, text[k + 1]>>
         /\ text[k] # Lead => text[k] \in WideChars /\ WideBytes(text[k]) = <<text[k]>>
<1>0. Radix \in Nat /\ Radix > 7 /\ Lead = Radix - 1 /\ Digits = 0 .. Radix - 1
      /\ WideChars = 0 .. Radix - 1 + Radix - 3
  BY DSAssumption DEF Lead, Digits, WideChars
<1>1. ASSUME text[k] = Lead
      PROVE  /\ Lead + text[k + 1] - 1 \in WideChars
             /\ WideBytes(Lead + text[k + 1] - 1) = <<Lead, text[k + 1]>>
  <2> DEFINE d == text[k + 1]
             c == Lead + d - 1
  <2>1. d \in Digits /\ d # 0 /\ d # Lead
    BY <1>1, WellFormedAt
  <2> HIDE DEF d
  <2>2. c \in WideChars /\ ~(c < Lead) /\ c - Lead + 1 = d
    BY <1>0, <2>1
  <2> HIDE DEF c
  <2>3. WideBytes(c) = <<Lead, d>>
    BY <2>2 DEF WideBytes
  <2> QED BY <2>2, <2>3 DEF c, d
<1>2. ASSUME text[k] # Lead PROVE text[k] \in WideChars /\ WideBytes(text[k]) = <<text[k]>>
  <2>1. text[k] \in Digits
    BY WellFormedAt
  <2>2. text[k] \in WideChars /\ text[k] < Lead
    BY <1>0, <1>2, <2>1
  <2> QED BY <2>2 DEF WideBytes
<1> QED BY <1>1, <1>2

(* The recursion of from_bytes has a solution: from the end to the start. *)
LEMMA DecodingExists ==
  ASSUME NEW text \in Seq(Digits), WellFormed(text)
  PROVE  \E f : /\ f = [k \in 1 .. Len(text) + 1 |-> f[k]]
                /\ \A k \in 1 .. Len(text) + 1 : DecodesAt(f, text, k)
<1> DEFINE n == Len(text)
           Good(f, i) == /\ f = [k \in n + 1 - i .. n + 1 |-> f[k]]
                         /\ \A k \in n + 1 - i .. n + 1 : DecodesAt(f, text, k)
           T == {i \in 0 .. n : \E f : Good(f, i)}
<1>0. n \in Nat
  BY LenProperties
<1>1. 0 \in T
  <2> DEFINE f == [k \in n + 1 - 0 .. n + 1 |-> <<>>]
  <2>1. \A k \in n + 1 - 0 .. n + 1 : k > n /\ f[k] = <<>>
    BY <1>0
  <2>2. f = [k \in n + 1 - 0 .. n + 1 |-> f[k]]
    BY <2>1
  <2> HIDE DEF f
  <2>3. Good(f, 0)
    BY <2>1, <2>2 DEF DecodesAt
  <2> HIDE DEF Good
  <2> QED BY <1>0, <2>3
<1>2. ASSUME NEW i \in 0 .. n - 1, i \in T PROVE i + 1 \in T
  <2>1. PICK g : Good(g, i)
    BY <1>2
  <2> DEFINE at == n - i
             head == IF text[at] = Lead THEN <<Lead + text[at + 1] - 1>> \o g[at + 2]
                     ELSE <<text[at]>> \o g[at + 1]
             f == [k \in n + 1 - (i + 1) .. n + 1 |-> IF k = at THEN head ELSE g[k]]
  <2>2. at \in 1 .. n /\ n + 1 - (i + 1) = at /\ n + 1 - i = at + 1 /\ i + 1 \in 0 .. n
    BY <1>0
  <2>3. text[at] = Lead => at + 1 \in 1 .. n
    <3> HIDE DEF at, n
    <3> QED BY <2>2, WellFormedAt DEF n
  <2> HIDE DEF at
  <2>4. /\ f = [k \in at .. n + 1 |-> f[k]]
        /\ f[at] = head
        /\ \A k \in at + 1 .. n + 1 : f[k] = g[k]
    <3>1. at \in at .. n + 1 /\ \A k \in at + 1 .. n + 1 : k \in at .. n + 1 /\ k # at
      BY <1>0, <2>2
    <3>2. f = [k \in at .. n + 1 |-> IF k = at THEN head ELSE g[k]]
      BY <2>2
    <3> HIDE DEF f, head
    <3> QED BY <3>1, <3>2
  <2> HIDE DEF f
  <2>5. DecodesAt(f, text, at)
    <3>1. at + 1 \in at + 1 .. n + 1 /\ (text[at] = Lead => at + 2 \in at + 1 .. n + 1)
      BY <1>0, <2>2, <2>3
    <3>2. ~(at > n)
      BY <1>0, <2>2
    <3>3. f[at + 1] = g[at + 1] /\ (text[at] = Lead => f[at + 2] = g[at + 2])
      BY <2>4, <3>1
    <3> QED BY <2>4, <3>2, <3>3 DEF DecodesAt
  <2>6. ASSUME NEW k \in at + 1 .. n + 1 PROVE DecodesAt(f, text, k)
    <3>1. DecodesAt(g, text, k)
      BY <2>1, <2>2
    <3>2. k \in 1 .. n => k + 1 \in at + 1 .. n + 1 /\ (text[k] = Lead => k + 2 \in at + 1 .. n + 1)
      <4>1. k \in 1 .. n /\ text[k] = Lead => k + 1 \in 1 .. n
        BY WellFormedAt
      <4> QED BY <1>0, <2>2, <4>1
    <3>3. k \in 1 .. n \/ k > n
      BY <1>0, <2>2
    <3>4. CASE k > n
      BY <2>4, <3>1, <3>4 DEF DecodesAt
    <3>5. CASE k \in 1 .. n
      <4>1. f[k] = g[k] /\ f[k + 1] = g[k + 1] /\ (text[k] = Lead => f[k + 2] = g[k + 2])
        BY <2>4, <3>2, <3>5
      <4> QED BY <3>1, <4>1 DEF DecodesAt
    <3> QED BY <3>3, <3>4, <3>5
  <2>7. \A k \in at .. n + 1 : k = at \/ k \in at + 1 .. n + 1
    BY <1>0, <2>2
  <2>8. Good(f, i + 1)
    BY <2>2, <2>4, <2>5, <2>6, <2>7
  <2> HIDE DEF Good
  <2> QED BY <2>2, <2>8
<1> HIDE DEF T
<1>3. \A i \in 0 .. n : i \in T
  BY <1>0, <1>1, <1>2, InductTo
<1>4. n \in T /\ n + 1 - n = 1
  BY <1>0, <1>3
<1>5. PICK f : Good(f, n)
  BY <1>4 DEF T
<1> QED BY <1>4, <1>5

LEMMA BytesBack ==
  ASSUME NEW text \in Seq(Digits), WellFormed(text)
  PROVE  ToBytes(FromBytes(text)) = text
<1> DEFINE n == Len(text)
           Eqn(f) == f = [k \in 1 .. Len(text) + 1 |->
                            IF k > Len(text) THEN <<>>
                            ELSE IF text[k] = Lead THEN <<Lead + text[k + 1] - 1>> \o f[k + 2]
                            ELSE <<text[k]>> \o f[k + 1]]
           wide == CHOOSE f : Eqn(f)
<1>0. n \in Nat
  BY LenProperties
<1>1. FromBytes(text) = wide[1]
  BY DEF FromBytes
<1>2. Eqn(wide)
  <2>1. PICK g : /\ g = [k \in 1 .. Len(text) + 1 |-> g[k]]
                 /\ \A k \in 1 .. Len(text) + 1 : DecodesAt(g, text, k)
    BY DecodingExists
  <2>2. Eqn(g)
    BY <2>1 DEF DecodesAt
  <2> HIDE DEF Eqn
  <2> QED BY <2>2
<1> HIDE DEF wide
<1>3. \A k \in 1 .. n + 1 : DecodesAt(wide, text, k)
  BY <1>2 DEF DecodesAt
<1> HIDE DEF Eqn, n
<1> DEFINE Back(k) == wide[k] \in Seq(WideChars) /\ ToBytes(wide[k]) = Rest(text, k)
           T == {i \in 0 .. n : \A k \in n + 1 - i .. n + 1 : Back(k)}
<1>4. 0 \in T
  <2>1. \A k \in n + 1 - 0 .. n + 1 : k = n + 1 /\ k > n /\ k \in 1 .. n + 1
    BY <1>0
  <2>2. n + 1 \in 1 .. n + 1 /\ n + 1 > n
    BY <1>0
  <2>3. wide[n + 1] = <<>>
    BY <1>3, <2>2 DEF DecodesAt, n
  <2>4. Rest(text, n + 1) = <<>>
    <3>1. IsRest(Rest(text, n + 1), text, n + 1)
      BY <2>2, RestParts DEF n
    <3>2. Rest(text, n + 1) \in Seq(Digits) /\ Len(Rest(text, n + 1)) = 0
      BY <1>0, <3>1 DEF IsRest, n
    <3> QED BY <3>2, EmptySeq
  <2>5. Back(n + 1)
    BY <2>3, <2>4, ToBytesEmpty, EmptySeq
  <2> HIDE DEF Back
  <2> QED BY <1>0, <2>1, <2>5
<1>5. ASSUME NEW i \in 0 .. n - 1, i \in T PROVE i + 1 \in T
  <2> DEFINE at == n - i
             d == text[at]
  <2>1. at \in 1 .. n /\ n + 1 - (i + 1) = at /\ n + 1 - i = at + 1 /\ i + 1 \in 0 .. n
    BY <1>0
  <2>2. \A k \in at + 1 .. n + 1 : Back(k)
    <3> HIDE DEF Back, at
    <3> QED BY <1>5, <2>1
  <2> HIDE DEF at
  <2>3. /\ text[at] \in Digits
        /\ text[at] = Lead => /\ at + 1 \in 1 .. n /\ text[at + 1] \in Digits
    BY <2>1, WellFormedAt DEF n
  <2>4. at \in 1 .. n + 1 /\ ~(at > n) /\ at + 1 \in at + 1 .. n + 1
    BY <1>0, <2>1
  <2>5. ASSUME text[at] = Lead PROVE Back(at)
    <3> DEFINE c == Lead + text[at + 1] - 1
               head == <<Lead, text[at + 1]>>
    <3>1. at + 2 \in at + 1 .. n + 1 /\ at + 2 <= n + 1
      BY <1>0, <2>1, <2>3, <2>5
    <3>2. wide[at] = Cat(<<c>>, wide[at + 2])
      BY <1>3, <2>4, <2>5 DEF DecodesAt, Cat, n
    <3>3. c \in WideChars /\ WideBytes(c) = head
      BY <2>1, <2>5, CharacterBack DEF n
    <3>4. head \in Seq(Digits) /\ Len(head) = 2 /\ head[1] = Lead /\ head[2] = text[at + 1]
      BY <2>3, <2>5, DigitsAreNumbers
    <3> HIDE DEF c, head
    <3>5. wide[at + 2] \in Seq(WideChars) /\ ToBytes(wide[at + 2]) = Rest(text, at + 2)
      BY <2>2, <3>1
    <3>6. wide[at] \in Seq(WideChars)
      <4>1. <<c>> \in Seq(WideChars)
        BY <3>3
      <4> QED BY <3>2, <3>5, <4>1, CatType
    <3>7. ToBytes(wide[at]) = Cat(head, Rest(text, at + 2))
      BY <3>2, <3>3, <3>5, ToBytesHead
    <3>8. Cat(head, Rest(text, at + 2)) = Rest(text, at)
      <4>1. \A j \in 1 .. Len(head) : text[at + j - 1] = head[j]
        <5>1. \A j \in 1 .. Len(head) : (j = 1 /\ at + j - 1 = at) \/ (j = 2 /\ at + j - 1 = at + 1)
          BY <2>1, <3>4
        <5> QED BY <2>5, <3>4, <5>1
      <4>2. at + Len(head) <= Len(text) + 1 /\ at + Len(head) = at + 2 /\ at \in 1 .. Len(text) + 1
        BY <1>0, <2>4, <3>1, <3>4 DEF n
      <4>3. Cat(head, Rest(text, at + Len(head))) = Rest(text, at)
        BY <3>4, <4>1, <4>2, RestHead
      <4> QED BY <4>2, <4>3
    <3> QED BY <3>6, <3>7, <3>8
  <2>6. ASSUME text[at] # Lead PROVE Back(at)
    <3> DEFINE head == <<text[at]>>
    <3>2. wide[at] = Cat(head, wide[at + 1])
      BY <1>3, <2>4, <2>6 DEF DecodesAt, Cat, n
    <3>3. text[at] \in WideChars /\ WideBytes(text[at]) = head
      BY <2>1, <2>6, CharacterBack DEF n
    <3>4. head \in Seq(Digits) /\ Len(head) = 1 /\ head[1] = text[at]
      BY <2>3
    <3>5. wide[at + 1] \in Seq(WideChars) /\ ToBytes(wide[at + 1]) = Rest(text, at + 1)
      BY <2>2, <2>4
    <3>6. wide[at] \in Seq(WideChars)
      <4>1. head \in Seq(WideChars)
        BY <3>3
      <4> HIDE DEF head
      <4> QED BY <3>2, <3>5, <4>1, CatType
    <3>7. ToBytes(wide[at]) = Cat(head, Rest(text, at + 1))
      BY <3>2, <3>3, <3>5, ToBytesHead
    <3> HIDE DEF head
    <3>8. Cat(head, Rest(text, at + 1)) = Rest(text, at)
      <4>1. \A j \in 1 .. Len(head) : text[at + j - 1] = head[j]
        <5>1. \A j \in 1 .. Len(head) : j = 1 /\ at + j - 1 = at
          BY <2>1, <3>4
        <5> QED BY <3>4, <5>1
      <4>2. at + Len(head) <= Len(text) + 1 /\ Len(head) = 1 /\ at \in 1 .. Len(text) + 1
        BY <1>0, <2>1, <2>4, <3>4 DEF n
      <4>3. Cat(head, Rest(text, at + Len(head))) = Rest(text, at)
        BY <3>4, <4>1, <4>2, RestHead
      <4> QED BY <4>2, <4>3
    <3> QED BY <3>6, <3>7, <3>8
  <2>7. Back(at)
    BY <2>5, <2>6
  <2>8. \A k \in at .. n + 1 : k = at \/ k \in at + 1 .. n + 1
    BY <1>0, <2>1
  <2> HIDE DEF Back
  <2>9. \A k \in at .. n + 1 : Back(k)
    BY <2>2, <2>7, <2>8
  <2> QED BY <2>1, <2>9
<1> HIDE DEF T
<1>6. \A i \in 0 .. n : i \in T
  BY <1>0, <1>4, <1>5, InductTo
<1>7. n \in T /\ 1 \in n + 1 - n .. n + 1 /\ 1 \in 1 .. n + 1
  BY <1>0, <1>6
<1>8. ToBytes(wide[1]) = Rest(text, 1)
  BY <1>7 DEF T
<1>9. Rest(text, 1) = text
  <2>1. IsRest(Rest(text, 1), text, 1)
    BY <1>7, RestParts DEF n
  <2>2. /\ Rest(text, 1) \in Seq(Digits) /\ Len(Rest(text, 1)) = Len(text)
        /\ \A j \in 1 .. Len(text) : Rest(text, 1)[j] = text[j]
    <3>1. Len(text) + 1 - 1 = Len(text) /\ \A j \in 1 .. Len(text) : 1 + j - 1 = j
      BY <1>0 DEF n
    <3> QED BY <2>1, <3>1 DEF IsRest
  <2> QED BY <2>2, SeqEqual
<1> QED BY <1>1, <1>8, <1>9

-----------------------------------------------------------------------------
(* Reading one element.  What every reader returns, whatever it reads ...  *)
IsResult(r) ==
  /\ r = [end |-> r.end, offset |-> r.offset, val |-> r.val]
  /\ r.offset \in Nat
  /\ r.end = "ok" \/ r = Incomplete \/ r = Raised

LEMMA GotIsResult ==
  ASSUME NEW offset \in Nat, NEW val
  PROVE  /\ IsResult(Got(offset, val)) /\ Got(offset, val).end = "ok"
         /\ Got(offset, val).offset = offset /\ Got(offset, val).val = val
BY DEF IsResult, Got

LEMMA FailureIsResult ==
  /\ IsResult(Incomplete) /\ Incomplete.end # "ok"
  /\ IsResult(Raised) /\ Raised.end # "ok"
BY DEF IsResult, Incomplete, Raised

(* ... and where a reader of good bytes ends that end at at. *)
Reads(r, at, m, good) ==
  /\ r.end = "ok" => at <= Len(m) /\ r.offset = at
  /\ at <= Len(m) /\ good => r.end = "ok"

LEMMA MessageByte ==
  ASSUME NEW m \in Seq(Nat)
  PROVE  Len(m) \in Nat /\ \A i \in 1 .. Len(m) : m[i] \in Nat
BY LenProperties, ElementOfSeq

LEMMA GetLengthResult ==
  ASSUME NEW m \in Seq(Nat), NEW o \in Nat
  PROVE  /\ IsResult(GetLength(m, o))
         /\ GetLength(m, o).end = "ok" <=> o + 1 <= Len(m)
         /\ GetLength(m, o).end = "ok" =>
              /\ GetLength(m, o).offset = o + 1
              /\ GetLength(m, o).val = m[o + 1] /\ m[o + 1] \in Nat
<1>0. Len(m) \in Nat /\ \A i \in 1 .. Len(m) : m[i] \in Nat
  BY MessageByte
<1>1. CASE o + 1 <= Len(m)
  <2>1. o + 1 \in 1 .. Len(m) /\ ~(Len(m) - o < 1)
    BY <1>0, <1>1
  <2>2. GetLength(m, o) = Got(o + 1, m[o + 1])
    BY <2>1 DEF GetLength
  <2>3. m[o + 1] \in Nat /\ o + 1 \in Nat
    BY <1>0, <2>1
  <2> QED BY <1>1, <2>2, <2>3, GotIsResult
<1>2. CASE ~(o + 1 <= Len(m))
  <2>1. Len(m) - o < 1
    BY <1>0, <1>2
  <2>2. GetLength(m, o) = Incomplete
    BY <2>1 DEF GetLength
  <2> QED BY <1>2, <2>2, FailureIsResult
<1> QED BY <1>1, <1>2

LEMMA GetNumberResult ==
  ASSUME NEW m \in Seq(Nat), NEW o \in Nat
  PROVE  /\ IsResult(GetNumber(m, o))
         /\ \A n \in Nat : Partly(m, o, NumberFormat(n)) =>
              /\ Reads(GetNumber(m, o), o + 2, m, TRUE)
              /\ GetNumber(m, o).end = "ok" => GetNumber(m, o).val = n
<1> DEFINE r == GetNumber(m, o)
<1>0. Len(m) \in Nat /\ \A i \in 1 .. Len(m) : m[i] \in Nat
  BY MessageByte
<1>1. CASE o + 2 <= Len(m)
  <2>1. o + 1 \in 1 .. Len(m) /\ o + 2 \in 1 .. Len(m) /\ ~(Len(m) - o < 2) /\ o + 2 \in Nat
    BY <1>0, <1>1
  <2>2. r = Got(o + 2, m[o + 1] + Radix * m[o + 2])
    BY <2>1 DEF GetNumber
  <2>3. /\ IsResult(r) /\ r.end = "ok" /\ r.offset = o + 2
        /\ r.val = m[o + 1] + Radix * m[o + 2]
    BY <2>1, <2>2, GotIsResult
  <2>4. ASSUME NEW n \in Nat, Partly(m, o, NumberFormat(n)) PROVE r.val = n
    <3> DEFINE e == NumberFormat(n)
    <3>1. Len(e) = 2 /\ e[1] = n % Radix /\ e[2] = n \div Radix
      BY DEF NumberFormat
    <3> HIDE DEF e
    <3>2. \A j \in 1 .. 2 : o + j <= Len(m) => m[o + j] = e[j]
      BY <2>4, <3>1 DEF Partly, e
    <3>3. m[o + 1] = n % Radix /\ m[o + 2] = n \div Radix
      BY <2>1, <3>1, <3>2
    <3>4. n = (n % Radix) + Radix * (n \div Radix)
      BY DivMod
    <3> HIDE DEF r
    <3> QED BY <2>3, <3>3, <3>4
  <2> HIDE DEF r
  <2> QED BY <1>1, <2>3, <2>4 DEF Reads, r
<1>2. CASE ~(o + 2 <= Len(m))
  <2>1. Len(m) - o < 2
    BY <1>0, <1>2
  <2>2. r = Incomplete
    BY <2>1 DEF GetNumber
  <2> QED BY <1>2, <2>2, FailureIsResult DEF Reads
<1> QED BY <1>1, <1>2

LEMMA SubSeqWithin ==
  ASSUME NEW m \in Seq(Nat), NEW a \in Nat, NEW n \in Nat, a + n <= Len(m)
  PROVE  /\ SubSeq(m, a + 1, a + n) \in Seq(Nat) /\ Len(SubSeq(m, a + 1, a + n)) = n
         /\ \A j \in 1 .. n : SubSeq(m, a + 1, a + n)[j] = m[a + j]
<1> DEFINE lo == a + 1
           hi == a + n
           s == SubSeq(m, lo, hi)
<1>0. Len(m) \in Nat /\ \A i \in 1 .. Len(m) : m[i] \in Nat
  BY MessageByte
<1>1. lo \in Int /\ hi \in Int /\ \A i \in lo .. hi : m[i] \in Nat
  BY <1>0
<1>2. (lo <= hi <=> 1 <= n) /\ hi - lo + 1 = n
  OBVIOUS
<1>3. \A j \in 1 .. n : lo + j - 1 = a + j
  OBVIOUS
<1> HIDE DEF lo, hi
<1>4. /\ s \in Seq(Nat)
      /\ Len(s) = IF lo <= hi THEN hi - lo + 1 ELSE 0
      /\ \A i \in 1 .. hi - lo + 1 : s[i] = m[lo + i - 1]
  BY <1>1, SubSeqProperties
<1> HIDE DEF s
<1>5. Len(s) = n
  BY <1>2, <1>4
<1>6. ASSUME NEW j \in 1 .. n PROVE s[j] = m[a + j]
  <2>1. s[j] = m[lo + j - 1]
    BY <1>2, <1>4, Zenon
  <2> QED BY <1>3, <2>1
<1> QED BY <1>4, <1>5, <1>6 DEF s, lo, hi

LEMMA GetStringResult ==
  ASSUME NEW m \in Seq(Nat), NEW o \in Nat
  PROVE  /\ IsResult(GetString(m, o))
         /\ \A text \in Seq(Nat) : Partly(m, o, Cat(<<Len(text)>>, text)) =>
              /\ Reads(GetString(m, o), o + 1 + Len(text), m, TRUE)
              /\ GetString(m, o).end = "ok" => GetString(m, o).val = text
<1> DEFINE r == GetString(m, o)
           len == GetLength(m, o)
<1>0. Len(m) \in Nat /\ \A i \in 1 .. Len(m) : m[i] \in Nat
  BY MessageByte
<1>1. /\ IsResult(len)
      /\ len.end = "ok" <=> o + 1 <= Len(m)
      /\ len.end = "ok" => len.offset = o + 1 /\ len.val = m[o + 1] /\ m[o + 1] \in Nat
  BY GetLengthResult
<1>2. r = IF len.end # "ok" THEN len
          ELSE IF Len(m) - len.offset < len.val THEN Incomplete
          ELSE Got(len.offset + len.val, SubSeq(m, len.offset + 1, len.offset + len.val))
  BY DEF GetString
<1> HIDE DEF len, r
<1>3. CASE len.end # "ok"
  <2>1. r = len /\ ~(o + 1 <= Len(m))
    BY <1>1, <1>2, <1>3
  <2>2. ASSUME NEW text \in Seq(Nat) PROVE Reads(r, o + 1 + Len(text), m, TRUE)
    <3>1. Len(text) \in Nat
      BY LenProperties
    <3>2. ~(o + 1 + Len(text) <= Len(m))
      BY <1>0, <2>1, <3>1
    <3> QED BY <1>3, <2>1, <3>2 DEF Reads
  <2> QED BY <1>1, <1>3, <2>1, <2>2 DEF r
<1>4. CASE len.end = "ok"
  <2> DEFINE n == m[o + 1]
             a == o + 1
             s == SubSeq(m, a + 1, a + n)
  <2>1. o + 1 <= Len(m) /\ n \in Nat
    BY <1>1, <1>4
  <2>2. r = IF Len(m) - (o + 1) < n THEN Incomplete ELSE Got(o + 1 + n, s)
    BY <1>1, <1>2, <1>4
  <2> HIDE DEF n, s
  <2>3. o + 1 + n \in Nat
    BY <2>1
  <2>4. IsResult(r)
    BY <2>2, <2>3, GotIsResult, FailureIsResult
  <2>5. ASSUME NEW text \in Seq(Nat), Partly(m, o, Cat(<<Len(text)>>, text))
        PROVE  Reads(r, o + 1 + Len(text), m, TRUE) /\ (r.end = "ok" => r.val = text)
    <3>1. /\ Len(text) \in Nat /\ <<Len(text)>> \in Seq(Nat)
          /\ Len(<<Len(text)>>) = 1 /\ <<Len(text)>>[1] = Len(text)
      BY LenProperties, OneByte
    <3>2. Partly(m, o, <<Len(text)>>) /\ Partly(m, o + 1, text)
      BY <2>5, <3>1, PartlyCat
    <3>3. n = Len(text)
      BY <2>1, <3>1, <3>2 DEF Partly, n
    <3>4. CASE Len(m) - (o + 1) < n
      <4>1. r = Incomplete
        BY <2>2, <3>4
      <4>2. ~(o + 1 + Len(text) <= Len(m))
        BY <1>0, <3>1, <3>3, <3>4
      <4> QED BY <4>1, <4>2, FailureIsResult DEF Reads
    <3>5. CASE ~(Len(m) - (o + 1) < n)
      <4>1. r.end = "ok" /\ r.offset = o + 1 + n /\ r.val = s
        BY <2>2, <2>3, <3>5, GotIsResult
      <4>2. o + 1 + n <= Len(m)
        BY <1>0, <2>1, <3>5
      <4>3. s = text
        <5>1. a \in Nat /\ a + n <= Len(m)
          BY <4>2
        <5>2. s \in Seq(Nat) /\ Len(s) = n /\ \A j \in 1 .. n : s[j] = m[a + j]
          <6> HIDE DEF a
          <6> QED BY <2>1, <5>1, SubSeqWithin DEF s
        <5>3. ASSUME NEW j \in 1 .. n PROVE s[j] = text[j]
          <6>1. o + 1 + j <= Len(m) /\ j \in 1 .. Len(text)
            BY <1>0, <2>1, <3>3, <4>2
          <6> QED BY <3>2, <5>2, <6>1 DEF Partly
        <5> QED BY <3>3, <5>2, <5>3, SeqEqual
      <4> QED BY <3>3, <4>1, <4>2, <4>3 DEF Reads
    <3> QED BY <3>4, <3>5
  <2> QED BY <2>4, <2>5 DEF r
<1> QED BY <1>3, <1>4

(* A text that a wide string can be made of. *)
IsWideText(text) == WellFormed(text) /\ 0 \notin ToSet(text)

LEMMA CStringWhole ==
  ASSUME NEW text \in Seq(Digits), 0 \notin ToSet(text)
  PROVE  CString(text) = text
<1>1. DOMAIN text = 1 .. Len(text)
  BY LenProperties
<1>2. {i \in 1 .. Len(text) : text[i] = 0} = {}
  BY <1>1 DEF ToSet
<1> QED BY <1>2 DEF CString, SelectInSeq

LEMMA GetWideResult ==
  ASSUME NEW m \in Seq(Nat), NEW o \in Nat
  PROVE  /\ IsResult(GetWide(m, o))
         /\ \A text \in Seq(Digits) : Partly(m, o, Cat(<<Len(text)>>, text)) =>
              /\ Reads(GetWide(m, o), o + 1 + Len(text), m, IsWideText(text))
              /\ GetWide(m, o).end = "ok" /\ IsWideText(text) => ToBytes(GetWide(m, o).val) = text
<1> DEFINE r == GetWide(m, o)
           str == GetString(m, o)
           bytes == CString(str.val)
<1>1. IsResult(str)
  BY GetStringResult
<1>2. r = IF str.end # "ok" THEN str
          ELSE IF ~WellFormed(bytes) THEN Raised
          ELSE Got(str.offset, FromBytes(bytes))
  BY DEF GetWide
<1>3. ASSUME NEW text \in Seq(Digits), Partly(m, o, Cat(<<Len(text)>>, text))
      PROVE  /\ Reads(str, o + 1 + Len(text), m, TRUE)
             /\ str.end = "ok" => str.val = text
  <2>1. text \in Seq(Nat)
    BY DigitsAreNumbers
  <2> QED BY <1>3, <2>1, GetStringResult
<1> HIDE DEF str, r
<1>4. str.offset \in Nat
  BY <1>1 DEF IsResult
<1>5. IsResult(r)
  BY <1>1, <1>2, <1>4, GotIsResult, FailureIsResult
<1>6. r.end = "ok" => /\ str.end = "ok" /\ r.offset = str.offset
                      /\ r.val = FromBytes(bytes)
  BY <1>2, <1>4, GotIsResult, FailureIsResult
<1>7. ASSUME NEW text \in Seq(Digits), Partly(m, o, Cat(<<Len(text)>>, text))
      PROVE  /\ Reads(r, o + 1 + Len(text), m, IsWideText(text))
             /\ r.end = "ok" /\ IsWideText(text) => ToBytes(r.val) = text
  <2>1. Reads(str, o + 1 + Len(text), m, TRUE) /\ (str.end = "ok" => str.val = text)
    BY <1>3, <1>7
  <2>2. IsWideText(text) /\ str.end = "ok" => bytes = text /\ WellFormed(bytes)
    BY <2>1, CStringWhole DEF IsWideText
  <2>3. IsWideText(text) /\ str.end = "ok" => r.end = "ok"
    BY <1>2, <1>4, <2>2, GotIsResult
  <2>4. Reads(r, o + 1 + Len(text), m, IsWideText(text))
    BY <1>6, <2>1, <2>3 DEF Reads
  <2>5. r.end = "ok" /\ IsWideText(text) => ToBytes(r.val) = text
    BY <1>6, <2>2, BytesBack
  <2> QED BY <2>4, <2>5
<1> QED BY <1>5, <1>7 DEF r

-----------------------------------------------------------------------------
(* Reading one value after the other: reader R[k] reads what formats[k]    *)
(* says, from wherever it starts.                                          *)
ReadStates(V) ==
  {r \in [end : {"ok", "incomplete", "raised"}, offset : Nat, val : Seq(V)] :
     r.end = "ok" \/ r = Incomplete \/ r = Raised}

ReadStep(R, V, n) == [acc \in ReadStates(V) |-> [k \in 1 .. n |-> Followed(acc, R[k][acc.offset])]]

AreReaders(R, V, n) == \A k \in 1 .. n, o \in Nat : IsResult(R[k][o]) /\ R[k][o].val \in V

(* Reader k reads its format; in G are those that do so in any case, and   *)
(* what they then return is in Mean.                                       *)
ReadFormats(R, m, formats, G, Mean) ==
  \A k \in 1 .. Len(formats), o \in Nat :
    Partly(m, o, formats[k]) =>
      /\ Reads(R[k][o], o + Len(formats[k]), m, k \in G)
      /\ R[k][o].end = "ok" /\ k \in G => R[k][o].val \in Mean[k]

LEMMA FollowedResult ==
  ASSUME NEW V, NEW acc \in ReadStates(V), NEW one, IsResult(one), one.val \in V
  PROVE  /\ Followed(acc, one) \in ReadStates(V)
         /\ Followed(acc, one).end = "ok" <=> acc.end = "ok" /\ one.end = "ok"
         /\ acc.end = "ok" /\ one.end = "ok" =>
              /\ Followed(acc, one).offset = one.offset
              /\ Followed(acc, one).val = Append(acc.val, one.val)
<1> DEFINE r == Followed(acc, one)
<1>1. CASE acc.end # "ok"
  BY <1>1 DEF Followed
<1>2. CASE acc.end = "ok" /\ one.end # "ok"
  <2>1. one = Incomplete \/ one = Raised
    BY <1>2 DEF IsResult
  <2>2. Incomplete \in ReadStates(V) /\ Raised \in ReadStates(V)
    <3>1. <<>> \in Seq(V)
      BY EmptySeq
    <3> QED BY <3>1 DEF ReadStates, Incomplete, Raised
  <2>3. r = one
    BY <1>2 DEF Followed
  <2> QED BY <1>2, <2>1, <2>2, <2>3
<1>3. CASE acc.end = "ok" /\ one.end = "ok"
  <2> DEFINE val == Append(acc.val, one.val)
  <2>1. r = Got(one.offset, val)
    BY <1>3 DEF Followed
  <2>2. one.offset \in Nat
    BY DEF IsResult
  <2>3. val \in Seq(V)
    <3>1. acc.val \in Seq(V)
      BY DEF ReadStates
    <3> QED BY <3>1, AppendProperties
  <2> HIDE DEF val, r
  <2>4. r \in ReadStates(V) /\ r.end = "ok" /\ r.offset = one.offset /\ r.val = val
    BY <2>1, <2>2, <2>3 DEF Got, ReadStates
  <2> QED BY <1>3, <2>4 DEF val, r
<1> QED BY <1>1, <1>2, <1>3

LEMMA ReadStepType ==
  ASSUME NEW R, NEW V, NEW n \in Nat, AreReaders(R, V, n)
  PROVE  /\ ReadStep(R, V, n) \in [ReadStates(V) -> [1 .. n -> ReadStates(V)]]
         /\ \A acc \in ReadStates(V), k \in 1 .. n :
              ReadStep(R, V, n)[acc][k] = Followed(acc, R[k][acc.offset])
<1>1. ASSUME NEW acc \in ReadStates(V), NEW k \in 1 .. n
      PROVE  Followed(acc, R[k][acc.offset]) \in ReadStates(V)
  <2>1. acc.offset \in Nat
    BY DEF ReadStates
  <2>2. IsResult(R[k][acc.offset]) /\ R[k][acc.offset].val \in V
    BY <2>1 DEF AreReaders
  <2> QED BY <2>2, FollowedResult
<1> QED BY <1>1 DEF ReadStep

LEMMA AppendParts ==
  ASSUME NEW V, NEW seq \in Seq(V), NEW x \in V
  PROVE  /\ Len(Append(seq, x)) = Len(seq) + 1
         /\ \A i \in 1 .. Len(seq) : Append(seq, x)[i] = seq[i]
         /\ Append(seq, x)[Len(seq) + 1] = x
BY AppendProperties

(* The result of all of them, which read up to at. *)
ReadsAll(r, at, m, n, G, Mean, V) ==
  /\ r \in ReadStates(V)
  /\ Reads(r, at, m, \A k \in 1 .. n : k \in G)
  /\ r.end = "ok" /\ (\A k \in 1 .. n : k \in G) =>
       /\ Len(r.val) = n
       /\ \A k \in 1 .. n : r.val[k] \in Mean[k]

LEMMA ReadInTurn ==
  ASSUME NEW m \in Seq(Nat), NEW a \in Nat, a <= Len(m),
         NEW formats \in Seq(Seq(Nat)), NEW n \in Nat, Len(formats) = n,
         Partly(m, a, FlattenSeq(formats)),
         NEW R, NEW V, AreReaders(R, V, n),
         NEW G, NEW Mean, ReadFormats(R, m, formats, G, Mean), NEW last,
         RunsTo(last, ReadStates(V), Got(a, <<>>), ReadStep(R, V, n), n)
  PROVE  ReadsAll(last, a + Len(FlattenSeq(formats)), m, n, G, Mean, V)
<1>0. n \in Nat /\ Len(m) \in Nat
  BY LenProperties
<1>1. PICK H \in [0 .. n -> ReadStates(V)] :
        /\ H[0] = Got(a, <<>>) /\ H[n] = last
        /\ \A k \in 1 .. n : H[k] = ReadStep(R, V, n)[H[k - 1]][k]
  BY DEF RunsTo
<1>2. PICK P : Flattens(P, Nat, formats)
  BY FlattenRuns
<1>3. \A k \in 1 .. n : Slices(P, FlattenSeq(formats), formats[k], k, Nat)
  BY <1>2, FlattenSlices
<1>4. P[0] = <<>> /\ P[n] = FlattenSeq(formats)
  BY <1>2 DEF Flattens
<1>5. \A k \in 1 .. n : Partly(m, a + Len(P[k - 1]), formats[k])
  BY <1>2, PartlySlices
<1>6. \A acc \in ReadStates(V), k \in 1 .. n : ReadStep(R, V, n)[acc][k] = Followed(acc, R[k][acc.offset])
  BY ReadStepType
<1>7. \A k \in 1 .. n, o \in Nat :
        /\ IsResult(R[k][o]) /\ R[k][o].val \in V
        /\ Partly(m, o, formats[k]) =>
             /\ Reads(R[k][o], o + Len(formats[k]), m, k \in G)
             /\ R[k][o].end = "ok" /\ k \in G => R[k][o].val \in Mean[k]
  BY DEF AreReaders, ReadFormats
<1> DEFINE at(k) == a + Len(P[k])
           Good(k) == \A i \in 1 .. k : i \in G
           T == {k \in 0 .. n :
                   /\ Reads(H[k], at(k), m, Good(k))
                   /\ H[k].end = "ok" => Len(H[k].val) = k
                   /\ H[k].end = "ok" /\ Good(k) => \A i \in 1 .. k : H[k].val[i] \in Mean[i]}
<1>8. 0 \in T
  <2>1. Len(P[0]) = 0 /\ at(0) = a
    BY <1>4
  <2>2. H[0].end = "ok" /\ H[0].offset = a /\ Len(H[0].val) = 0
    BY <1>1 DEF Got
  <2>3. Reads(H[0], a, m, Good(0))
    BY <2>2 DEF Reads
  <2> HIDE DEF Good, at
  <2> QED BY <1>0, <2>1, <2>2, <2>3
<1>9. ASSUME NEW k \in 0 .. n - 1, k \in T PROVE k + 1 \in T
  <2> DEFINE j == k + 1
             one == R[j][H[k].offset]
  <2>1. j \in 1 .. n /\ j - 1 = k /\ k \in 0 .. n /\ j \in 0 .. n /\ k \in Nat
    BY <1>0
  <2>2. /\ Reads(H[k], at(k), m, Good(k))
        /\ H[k].end = "ok" => Len(H[k].val) = k
        /\ H[k].end = "ok" /\ Good(k) => \A i \in 1 .. k : H[k].val[i] \in Mean[i]
    <3> HIDE DEF Good, at
    <3> QED BY <1>9
  <2> HIDE DEF j, T
  <2>3. /\ H[k] \in ReadStates(V) /\ H[j] = Followed(H[k], one)
    BY <1>1, <1>6, <2>1
  <2>4. H[k].offset \in Nat /\ H[k].val \in Seq(V)
    BY <2>3 DEF ReadStates
  <2>5. IsResult(one) /\ one.val \in V
    BY <1>7, <2>1, <2>4
  <2>6. /\ H[j].end = "ok" <=> H[k].end = "ok" /\ one.end = "ok"
        /\ H[k].end = "ok" /\ one.end = "ok" =>
             /\ H[j].offset = one.offset
             /\ H[j].val = Append(H[k].val, one.val)
    <3> DEFINE acc == H[k]
    <3>1. acc \in ReadStates(V) /\ H[j] = Followed(acc, one)
      BY <2>3
    <3> HIDE DEF one, acc
    <3>2. /\ Followed(acc, one).end = "ok" <=> acc.end = "ok" /\ one.end = "ok"
          /\ acc.end = "ok" /\ one.end = "ok" =>
               /\ Followed(acc, one).offset = one.offset
               /\ Followed(acc, one).val = Append(acc.val, one.val)
      BY <2>5, <3>1, FollowedResult
    <3> QED BY <3>1, <3>2 DEF acc
  <2>7. Slices(P, FlattenSeq(formats), formats[j], j, Nat)
    BY <1>3, <2>1
  <2>8. /\ Len(P[k]) \in Nat /\ Len(formats[j]) \in Nat
        /\ Len(P[j]) = Len(P[k]) + Len(formats[j])
    BY <2>1, <2>7 DEF Slices
  <2>9. at(k) \in Nat /\ at(j) \in Nat /\ at(j) = at(k) + Len(formats[j]) /\ at(k) <= at(j)
    <3> DEFINE p == Len(P[k])
               q == Len(P[j])
               l == Len(formats[j])
    <3>1. p \in Nat /\ l \in Nat /\ q = p + l
      BY <2>8
    <3> HIDE DEF p, q, l
    <3>2. a + p \in Nat /\ a + q \in Nat /\ a + q = a + p + l /\ a + p <= a + q
      BY <3>1
    <3> QED BY <3>2 DEF p, q, l
  <2>10. Partly(m, at(k), formats[j])
    BY <1>5, <2>1
  <2>11. H[k].end = "ok" => at(k) <= Len(m) /\ H[k].offset = at(k)
    <3> HIDE DEF at, Good
    <3> QED BY <2>2 DEF Reads
  <2> HIDE DEF at
  <2>12. H[k].end = "ok" =>
           /\ Reads(one, at(j), m, j \in G)
           /\ one.end = "ok" /\ j \in G => one.val \in Mean[j]
    BY <1>7, <2>1, <2>9, <2>10, <2>11
  <2>13. Good(j) <=> Good(k) /\ j \in G
    <3>1. 1 .. j = (1 .. k) \cup {j}
      BY <2>1 DEF j
    <3> QED BY <3>1
  <2> HIDE DEF Good, one
  <2>14. Reads(H[j], at(j), m, Good(j))
    <3>1. H[j].end = "ok" => at(j) <= Len(m) /\ H[j].offset = at(j)
      BY <2>6, <2>12 DEF Reads
    <3>2. ASSUME at(j) <= Len(m), Good(j) PROVE H[j].end = "ok"
      <4>1. at(k) <= Len(m) /\ Good(k) /\ j \in G
        BY <1>0, <2>9, <2>13, <3>2
      <4>2. H[k].end = "ok"
        BY <2>2, <4>1 DEF Reads
      <4>3. one.end = "ok"
        BY <2>12, <3>2, <4>1, <4>2 DEF Reads
      <4> QED BY <2>6, <4>2, <4>3
    <3> QED BY <3>1, <3>2 DEF Reads
  <2>15. ASSUME H[j].end = "ok"
         PROVE  /\ Len(H[j].val) = j
                /\ Good(j) => \A i \in 1 .. j : H[j].val[i] \in Mean[i]
    <3>1. H[k].end = "ok" /\ one.end = "ok" /\ H[j].val = Append(H[k].val, one.val) /\ Len(H[k].val) = k
      BY <2>2, <2>6, <2>15
    <3> DEFINE v == H[k].val
    <3>2. /\ Len(H[j].val) = k + 1 /\ H[j].val[k + 1] = one.val
          /\ \A i \in 1 .. k : H[j].val[i] = v[i]
      <4>1. v \in Seq(V) /\ Len(v) = k /\ H[j].val = Append(v, one.val)
        BY <2>4, <3>1
      <4> HIDE DEF v
      <4> QED BY <2>5, <4>1, AppendParts
    <3>3. ASSUME Good(j), NEW i \in 1 .. j PROVE H[j].val[i] \in Mean[i]
      <4>1. Good(k) /\ j \in G
        BY <2>13, <3>3
      <4>2. CASE i = j
        <5>1. one.val \in Mean[j]
          BY <2>12, <3>1, <4>1
        <5> QED BY <3>2, <4>2, <5>1 DEF j
      <4>3. CASE i # j
        <5>1. i \in 1 .. k
          BY <2>1, <4>3 DEF j
        <5>2. v[i] \in Mean[i]
          BY <2>2, <3>1, <4>1, <5>1
        <5> QED BY <3>2, <5>1, <5>2
      <4> QED BY <4>2, <4>3
    <3> QED BY <3>2, <3>3 DEF j
  <2>16. j \in T
    BY <2>1, <2>14, <2>15 DEF T
  <2> QED BY <2>16 DEF j
<1> HIDE DEF T
<1>10. \A k \in 0 .. n : k \in T
  BY <1>0, <1>8, <1>9, InductTo
<1>11. n \in T
  BY <1>0, <1>10
<1>12. /\ Reads(last, a + Len(FlattenSeq(formats)), m, Good(n))
       /\ last.end = "ok" => Len(last.val) = n
       /\ last.end = "ok" /\ Good(n) => \A i \in 1 .. n : last.val[i] \in Mean[i]
  <2> HIDE DEF Good
  <2> QED BY <1>1, <1>4, <1>11 DEF T
<1>13. last \in ReadStates(V)
  BY <1>0, <1>1
<1> QED BY <1>12, <1>13 DEF ReadsAll

(* One element that says what it should. *)
IsSaid(type, said) == IF type = "i" THEN said \in Nat ELSE said \in Seq(Digits)

Readable(type, said) == type = "w" => IsWideText(said)

LEMMA GetOneResult ==
  ASSUME NEW m \in Seq(Nat), NEW o \in Nat, NEW type \in ElemTypes
  PROVE  /\ IsResult(GetOne(m, o, type))
         /\ \A said : IsSaid(type, said) /\ Partly(m, o, PlainFormat(type, said)) =>
              /\ Reads(GetOne(m, o, type), o + Len(PlainFormat(type, said)), m, Readable(type, said))
              /\ GetOne(m, o, type).end = "ok" /\ Readable(type, said) =>
                   Said(type, GetOne(m, o, type).val) = said
<1> DEFINE r == GetOne(m, o, type)
<1>1. CASE type = "i"
  <2>1. r = GetNumber(m, o)
    BY <1>1 DEF GetOne
  <2>2. ASSUME NEW said \in Nat, Partly(m, o, NumberFormat(said))
        PROVE  Reads(r, o + Len(NumberFormat(said)), m, TRUE) /\ (r.end = "ok" => r.val = said)
    <3>1. Reads(r, o + 2, m, TRUE) /\ (r.end = "ok" => r.val = said)
      BY <2>1, <2>2, GetNumberResult
    <3>2. Len(NumberFormat(said)) = 2
      BY DEF NumberFormat
    <3> QED BY <3>1, <3>2
  <2>3. IsResult(r)
    BY <2>1, GetNumberResult
  <2> HIDE DEF r
  <2>4. ASSUME NEW said, IsSaid(type, said), Partly(m, o, PlainFormat(type, said))
        PROVE  /\ Reads(r, o + Len(PlainFormat(type, said)), m, Readable(type, said))
               /\ r.end = "ok" /\ Readable(type, said) => Said(type, r.val) = said
    <3>1. PlainFormat(type, said) = NumberFormat(said) /\ said \in Nat /\ Readable(type, said)
      BY <1>1, <2>4 DEF PlainFormat, IsSaid, Readable
    <3>2. Reads(r, o + Len(NumberFormat(said)), m, TRUE) /\ (r.end = "ok" => r.val = said)
      BY <2>2, <2>4, <3>1
    <3> QED BY <1>1, <3>1, <3>2 DEF Reads, Said
  <2> QED BY <2>3, <2>4 DEF r
<1>2. ASSUME NEW text \in Seq(Digits)
      PROVE  Len(Cat(<<Len(text)>>, text)) = 1 + Len(text) /\ text \in Seq(Nat) /\ Len(text) \in Nat
  <2>1. text \in Seq(Nat) /\ Len(text) \in Nat
    BY DigitsAreNumbers, LenProperties
  <2>2. <<Len(text)>> \in Seq(Nat) /\ Len(<<Len(text)>>) = 1
    BY <2>1, OneByte
  <2> QED BY <2>1, <2>2, CatType
<1>3. CASE type = "s"
  <2>1. r = GetString(m, o)
    BY <1>3 DEF GetOne
  <2>2. IsResult(r)
    BY <2>1, GetStringResult
  <2> HIDE DEF r
  <2>3. ASSUME NEW said, IsSaid(type, said), Partly(m, o, PlainFormat(type, said))
        PROVE  /\ Reads(r, o + Len(PlainFormat(type, said)), m, Readable(type, said))
               /\ r.end = "ok" /\ Readable(type, said) => Said(type, r.val) = said
    <3>1. PlainFormat(type, said) = Cat(<<Len(said)>>, said) /\ said \in Seq(Digits) /\ Readable(type, said)
      BY <1>3, <2>3 DEF PlainFormat, IsSaid, Readable
    <3>2. said \in Seq(Nat) /\ Len(said) \in Nat /\ Len(PlainFormat(type, said)) = 1 + Len(said)
      BY <1>2, <3>1
    <3>3. Reads(r, o + 1 + Len(said), m, TRUE) /\ (r.end = "ok" => r.val = said)
      BY <2>1, <2>3, <3>1, <3>2, GetStringResult
    <3>4. o + Len(PlainFormat(type, said)) = o + 1 + Len(said)
      BY <3>2
    <3> QED BY <1>3, <3>1, <3>3, <3>4 DEF Reads, Said
  <2> QED BY <2>2, <2>3 DEF r
<1>4. CASE type = "w"
  <2>1. r = GetWide(m, o)
    BY <1>4 DEF GetOne
  <2>2. IsResult(r)
    BY <2>1, GetWideResult
  <2> HIDE DEF r
  <2>3. ASSUME NEW said, IsSaid(type, said), Partly(m, o, PlainFormat(type, said))
        PROVE  /\ Reads(r, o + Len(PlainFormat(type, said)), m, Readable(type, said))
               /\ r.end = "ok" /\ Readable(type, said) => Said(type, r.val) = said
    <3>1. PlainFormat(type, said) = Cat(<<Len(said)>>, said) /\ said \in Seq(Digits)
      BY <1>4, <2>3 DEF PlainFormat, IsSaid
    <3>2. Len(said) \in Nat /\ Len(PlainFormat(type, said)) = 1 + Len(said)
      BY <1>2, <3>1
    <3>3. /\ Reads(r, o + 1 + Len(said), m, IsWideText(said))
          /\ r.end = "ok" /\ IsWideText(said) => ToBytes(r.val) = said
      BY <2>1, <2>3, <3>1, GetWideResult
    <3>4. o + Len(PlainFormat(type, said)) = o + 1 + Len(said)
      BY <3>2
    <3> QED BY <1>4, <3>3, <3>4 DEF Reads, Said, Readable
  <2> QED BY <2>2, <2>3 DEF r
<1> QED BY <1>1, <1>3, <1>4 DEF ElemTypes

(* An array of them. *)
SaidFormats(type, saids, n) == [k \in 1 .. n |-> PlainFormat(type, saids[k])]

ElemReader(m, type, n) == [k \in 1 .. n |-> [x \in Nat |-> GetOne(m, x, type)]]

ElemVals(m, type) == {GetOne(m, x, type).val : x \in Nat}

LEMMA GetFoldRuns ==
  ASSUME NEW m \in Seq(Nat), NEW a \in Nat, NEW type \in ElemTypes, NEW n \in Nat
  PROVE  /\ AreReaders(ElemReader(m, type, n), ElemVals(m, type), n)
         /\ RunsTo(GetFold(m, type, Got(a, <<>>), n), ReadStates(ElemVals(m, type)), Got(a, <<>>),
                   ReadStep(ElemReader(m, type, n), ElemVals(m, type), n), n)
<1> DEFINE R == ElemReader(m, type, n)
           V == ElemVals(m, type)
           base == Got(a, <<>>)
           step == ReadStep(R, V, n)
<1>1. \A k \in 1 .. n, x \in Nat : R[k][x] = GetOne(m, x, type)
  BY DEF ElemReader
<1>2. \A x \in Nat : IsResult(GetOne(m, x, type)) /\ GetOne(m, x, type).val \in V
  BY GetOneResult DEF ElemVals
<1> HIDE DEF R, V
<1>3. AreReaders(R, V, n)
  BY <1>1, <1>2 DEF AreReaders
<1>4. /\ step \in [ReadStates(V) -> [1 .. n -> ReadStates(V)]]
      /\ \A acc \in ReadStates(V), k \in 1 .. n : step[acc][k] = Followed(acc, R[k][acc.offset])
  BY <1>3, ReadStepType
<1> HIDE DEF step
<1>5. \A acc \in ReadStates(V), k \in 1 .. n : step[acc][k] = GetStep(m, type, acc, k)
  <2>1. \A acc \in ReadStates(V) : acc.offset \in Nat
    BY DEF ReadStates
  <2> QED BY <1>1, <1>4, <2>1 DEF GetStep
<1>6. base \in ReadStates(V)
  <2>1. <<>> \in Seq(V)
    BY EmptySeq
  <2> QED BY <2>1 DEF ReadStates, Got
<1> HIDE DEF base
<1>7. RunsTo(GetFold(m, type, base, n), ReadStates(V), base, step, n)
  BY <1>4, <1>5, <1>6, GetRuns
<1> QED BY <1>3, <1>7 DEF R, V, base, step

LEMMA ReadStatesAreResults ==
  ASSUME NEW V, NEW r \in ReadStates(V)
  PROVE  IsResult(r) /\ r.val \in Seq(V)
BY DEF ReadStates, IsResult

LEMMA GetEachIsResult ==
  ASSUME NEW m \in Seq(Nat), NEW o \in Nat, NEW type \in ElemTypes
  PROVE  IsResult(GetEach(m, o, type))
<1> DEFINE len == GetLength(m, o)
           V == ElemVals(m, type)
           n == m[o + 1]
           last == GetFold(m, type, Got(o + 1, <<>>), n)
<1>1. IsResult(len) /\ (len.end = "ok" => len.offset = o + 1 /\ len.val = n /\ n \in Nat)
  BY GetLengthResult
<1>2. GetEach(m, o, type) = IF len.end # "ok" THEN len ELSE GetFold(m, type, Got(len.offset, <<>>), len.val)
  BY DEF GetEach, GetFold
<1> HIDE DEF len
<1>3. CASE len.end # "ok"
  BY <1>1, <1>2, <1>3
<1>4. CASE len.end = "ok"
  <2>1. GetEach(m, o, type) = last /\ n \in Nat /\ o + 1 \in Nat
    BY <1>1, <1>2, <1>4
  <2> DEFINE R == ElemReader(m, type, n)
             step == ReadStep(R, V, n)
             base == Got(o + 1, <<>>)
  <2>2. RunsTo(last, ReadStates(V), base, step, n)
    <3> HIDE DEF n
    <3> QED BY <2>1, GetFoldRuns
  <2> HIDE DEF last, V, n, R, step, base
  <2>3. PICK H \in [0 .. n -> ReadStates(V)] : H[n] = last
    BY <2>2 DEF RunsTo
  <2>4. last \in ReadStates(V)
    BY <2>1, <2>3
  <2> QED BY <2>1, <2>4, ReadStatesAreResults
<1> QED BY <1>3, <1>4

LEMMA SaidFormatsType ==
  ASSUME NEW type \in ElemTypes, NEW saids, NEW n \in Nat, \A k \in 1 .. n : IsSaid(type, saids[k])
  PROVE  /\ SaidFormats(type, saids, n) \in Seq(Seq(Nat)) /\ Len(SaidFormats(type, saids, n)) = n
         /\ \A k \in 1 .. n : SaidFormats(type, saids, n)[k] = PlainFormat(type, saids[k])
<1>1. ASSUME NEW k \in 1 .. n PROVE PlainFormat(type, saids[k]) \in Seq(Nat)
  <2> DEFINE said == saids[k]
  <2>1. IsSaid(type, said)
    OBVIOUS
  <2> HIDE DEF said
  <2>2. CASE type = "i"
    <3>1. said % Radix \in Nat /\ said \div Radix \in Nat
      BY <2>1, <2>2, DivMod DEF IsSaid
    <3> QED BY <2>2, <3>1, TwoBytes DEF PlainFormat, NumberFormat, said
  <2>3. CASE type # "i"
    <3>1. said \in Seq(Nat) /\ Len(said) \in Nat
      BY <2>1, <2>3, DigitsAreNumbers, LenProperties DEF IsSaid
    <3>2. <<Len(said)>> \in Seq(Nat)
      BY <3>1, OneByte
    <3>3. Cat(<<Len(said)>>, said) \in Seq(Nat)
      BY <3>1, <3>2, CatType
    <3> QED BY <2>3, <3>3 DEF PlainFormat, said
  <2> QED BY <2>2, <2>3
<1>2. SaidFormats(type, saids, n) \in [1 .. n -> Seq(Nat)]
  BY <1>1 DEF SaidFormats
<1>3. \A k \in 1 .. n : SaidFormats(type, saids, n)[k] = PlainFormat(type, saids[k])
  BY DEF SaidFormats
<1> QED BY <1>2, <1>3, FunctionSeq

EachReads(m, o, type, n, saids) ==
  /\ Reads(GetEach(m, o, type), o + Len(Cat(<<n>>, FlattenSeq(SaidFormats(type, saids, n)))), m,
           \A k \in 1 .. n : Readable(type, saids[k]))
  /\ GetEach(m, o, type).end = "ok" /\ (\A k \in 1 .. n : Readable(type, saids[k])) =>
       /\ GetEach(m, o, type).val = [k \in 1 .. n |-> GetEach(m, o, type).val[k]]
       /\ \A k \in 1 .. n : Said(type, GetEach(m, o, type).val[k]) = saids[k]

LEMMA GetEachResult ==
  ASSUME NEW m \in Seq(Nat), NEW o \in Nat, NEW type \in ElemTypes, NEW n \in Nat, NEW saids,
         \A k \in 1 .. n : IsSaid(type, saids[k]),
         Partly(m, o, Cat(<<n>>, FlattenSeq(SaidFormats(type, saids, n))))
  PROVE  EachReads(m, o, type, n, saids)
<1> DEFINE formats == SaidFormats(type, saids, n)
           e == FlattenSeq(formats)
           r == GetEach(m, o, type)
           len == GetLength(m, o)
           all == \A k \in 1 .. n : Readable(type, saids[k])
           whole == Cat(<<n>>, e)
<1>1. /\ formats \in Seq(Seq(Nat)) /\ Len(formats) = n
      /\ \A k \in 1 .. n : formats[k] = PlainFormat(type, saids[k])
  BY SaidFormatsType
<1> HIDE DEF formats
<1>2. e \in Seq(Nat) /\ Len(e) \in Nat
  <2>1. PICK P : Flattens(P, Nat, formats)
    BY <1>1, FlattenRuns
  <2> QED BY <1>1, <2>1, FlattenSlices
<1>3. <<n>> \in Seq(Nat) /\ Len(<<n>>) = 1 /\ <<n>>[1] = n
  BY OneByte
<1>4. Partly(m, o, whole)
  BY DEF formats
<1> HIDE DEF e
<1>5. Partly(m, o, <<n>>) /\ Partly(m, o + 1, e) /\ Len(whole) = 1 + Len(e)
  BY <1>2, <1>3, <1>4, PartlyCat, CatType
<1>6. Len(m) \in Nat
  BY LenProperties
<1>7. /\ IsResult(len)
      /\ len.end = "ok" <=> o + 1 <= Len(m)
      /\ len.end = "ok" => len.offset = o + 1 /\ len.val = m[o + 1]
  BY GetLengthResult
<1>8. r = IF len.end # "ok" THEN len ELSE GetFold(m, type, Got(len.offset, <<>>), len.val)
  BY DEF GetEach, GetFold
<1> HIDE DEF len, r, whole
<1>9. CASE len.end # "ok"
  <2>1. r.end # "ok" /\ ~(o + 1 <= Len(m))
    BY <1>7, <1>8, <1>9
  <2>2. ~(o + Len(whole) <= Len(m))
    BY <1>2, <1>5, <1>6, <2>1
  <2>3. Reads(r, o + Len(whole), m, all)
    BY <2>1, <2>2 DEF Reads
  <2> QED BY <2>1, <2>3 DEF EachReads, r, whole, e, formats
<1>10. CASE len.end = "ok"
  <2> DEFINE R == ElemReader(m, type, n)
             V == ElemVals(m, type)
             base == Got(o + 1, <<>>)
             Mean == [k \in 1 .. n |-> {v \in V : Said(type, v) = saids[k]}]
             G == {k \in 1 .. n : Readable(type, saids[k])}
             step == ReadStep(R, V, n)
  <2>1. o + 1 <= Len(m) /\ m[o + 1] = n /\ o + 1 \in Nat
    <3>1. o + 1 <= Len(m)
      BY <1>7, <1>10
    <3> QED BY <1>3, <1>5, <3>1 DEF Partly
  <2>2. r = GetFold(m, type, base, n)
    BY <1>7, <1>8, <1>10, <2>1
  <2>3. AreReaders(R, V, n) /\ RunsTo(r, ReadStates(V), base, step, n)
    BY <2>1, <2>2, GetFoldRuns
  <2>4. ReadFormats(R, m, formats, G, Mean)
    <3> SUFFICES ASSUME NEW k \in 1 .. n, NEW x \in Nat, Partly(m, x, formats[k])
                 PROVE  /\ Reads(R[k][x], x + Len(formats[k]), m, k \in G)
                        /\ R[k][x].end = "ok" /\ k \in G => R[k][x].val \in Mean[k]
      BY <1>1 DEF ReadFormats
    <3> DEFINE one == GetOne(m, x, type)
    <3>1. R[k][x] = one /\ one.val \in V
      BY DEF ElemReader, ElemVals
    <3>2. formats[k] = PlainFormat(type, saids[k]) /\ IsSaid(type, saids[k])
      BY <1>1
    <3>3. /\ Reads(one, x + Len(formats[k]), m, Readable(type, saids[k]))
          /\ one.end = "ok" /\ Readable(type, saids[k]) => Said(type, one.val) = saids[k]
      BY <3>2, GetOneResult
    <3> HIDE DEF one, R, V
    <3>4. k \in G <=> Readable(type, saids[k])
      OBVIOUS
    <3> HIDE DEF G
    <3>5. Mean[k] = {v \in V : Said(type, v) = saids[k]}
      OBVIOUS
    <3> HIDE DEF Mean
    <3>6. Reads(one, x + Len(formats[k]), m, k \in G)
      BY <3>3, <3>4 DEF Reads
    <3> QED BY <3>1, <3>3, <3>4, <3>5, <3>6
  <2>5. \A k \in 1 .. n : /\ k \in G <=> Readable(type, saids[k])
                          /\ \A v \in Mean[k] : Said(type, v) = saids[k]
    OBVIOUS
  <2> HIDE DEF R, V, Mean, G, base, step
  <2>6. /\ r \in ReadStates(V)
        /\ Reads(r, o + 1 + Len(e), m, \A k \in 1 .. n : k \in G)
        /\ r.end = "ok" /\ (\A k \in 1 .. n : k \in G) =>
             Len(r.val) = n /\ \A k \in 1 .. n : r.val[k] \in Mean[k]
    <3>1. RunsTo(r, ReadStates(V), Got(o + 1, <<>>), ReadStep(R, V, n), n)
      BY <2>3 DEF base, step
    <3>2. Partly(m, o + 1, FlattenSeq(formats))
      BY <1>5 DEF e
    <3>3. ReadsAll(r, o + 1 + Len(FlattenSeq(formats)), m, n, G, Mean, V)
      BY <1>1, <2>1, <2>3, <2>4, <3>1, <3>2, ReadInTurn
    <3> QED BY <3>3 DEF ReadsAll, e
  <2>7. all <=> \A k \in 1 .. n : k \in G
    BY <2>5
  <2>8. Reads(r, o + Len(whole), m, all)
    <3>1. o + 1 + Len(e) = o + Len(whole)
      BY <1>2, <1>5
    <3> HIDE DEF all
    <3> QED BY <2>6, <2>7, <3>1 DEF Reads
  <2>9. ASSUME r.end = "ok", all
        PROVE  /\ r.val = [k \in 1 .. n |-> r.val[k]]
               /\ \A k \in 1 .. n : Said(type, r.val[k]) = saids[k]
    <3>1. Len(r.val) = n /\ \A k \in 1 .. n : r.val[k] \in Mean[k]
      BY <2>6, <2>7, <2>9
    <3>2. r.val \in Seq(V)
      BY <2>6, ReadStatesAreResults
    <3>3. r.val = [k \in 1 .. n |-> r.val[k]]
      BY <3>1, <3>2, LenProperties
    <3> QED BY <2>5, <3>1, <3>3
  <2> QED BY <2>8, <2>9 DEF EachReads, r, whole, e, formats
<1> QED BY <1>9, <1>10

-----------------------------------------------------------------------------
(* Reading one value of a type: what it says, in whatever type.            *)
MarkTypes == {"i", "I", "s", "S", "w", "W"}

LEMMA TagsDomain ==
  /\ DOMAIN Tags = MarkTypes /\ ElemTypes \cup ArrayTypes = MarkTypes
  /\ \A s, t \in MarkTypes : Tags[s] = Tags[t] => s = t
BY DEF Tags, MarkTypes, ElemTypes, ArrayTypes

Tagged(type, val) == [type |-> type, val |-> val]

LEMMA PlainOne ==
  ASSUME NEW type \in ElemTypes, NEW val
  PROVE  Plain(Tagged(type, val)) = Tagged(VariantMark(type), Said(type, val))
BY DEF Plain, Tagged, VariantMark, Said, ElemTypes

LEMMA PlainArray ==
  ASSUME NEW type \in ArrayTypes, NEW n \in Nat, NEW val, val = [k \in 1 .. n |-> val[k]]
  PROVE  Plain(Tagged(type, val)) =
           Tagged(VariantMark(type), [k \in 1 .. n |-> Said(ElemType(type), val[k])])
<1> DEFINE saids == [k \in 1 .. n |-> Said(ElemType(type), val[k])]
<1>1. DOMAIN val = 1 .. n
  OBVIOUS
<1>2. CASE type = "W"
  <2>1. [k \in DOMAIN val |-> ToBytes(val[k])] = saids
    BY <1>1, <1>2 DEF ElemType, Said
  <2>2. Plain(Tagged(type, val)) = Tagged("S", [k \in DOMAIN val |-> ToBytes(val[k])])
    BY <1>2 DEF Plain, Tagged
  <2>3. VariantMark(type) = "S"
    BY <1>2 DEF VariantMark
  <2>4. Plain(Tagged(type, val)) = Tagged(VariantMark(type), saids)
    <3> HIDE DEF saids
    <3> QED BY <2>1, <2>2, <2>3
  <2> QED BY <2>4
<1>3. CASE type # "W"
  <2>1. ElemType(type) # "w" /\ VariantMark(type) = type /\ type # "w"
    BY <1>3 DEF ArrayTypes, ElemType, VariantMark
  <2>2. saids = [k \in 1 .. n |-> val[k]]
    BY <2>1 DEF Said
  <2>3. saids = val
    BY <2>2
  <2>4. Plain(Tagged(type, val)) = Tagged(type, val)
    BY <1>3, <2>1 DEF Plain, Tagged
  <2>5. Plain(Tagged(type, val)) = Tagged(VariantMark(type), saids)
    <3> HIDE DEF saids
    <3> QED BY <2>1, <2>3, <2>4
  <2> QED BY <2>5
<1> QED BY <1>2, <1>3

(* What a C++ reader of a type needs of a value to be able to return it. *)
Turns(type, value) == type \in {"w", "W"} => \A text \in Texts(value) : IsWideText(text)

LEMMA GetTypedIsResult ==
  ASSUME NEW m \in Seq(Nat), NEW o \in Nat, NEW type \in MarkTypes
  PROVE  /\ IsResult(GetTyped(m, o, type))
         /\ type \in ElemTypes => GetTyped(m, o, type) = GetOne(m, o, type)
         /\ type \in ArrayTypes => GetTyped(m, o, type) = GetEach(m, o, ElemType(type))
<1>1. ASSUME type \in ElemTypes
      PROVE  GetTyped(m, o, type) = GetOne(m, o, type) /\ IsResult(GetOne(m, o, type))
  BY <1>1, GetOneResult DEF ElemTypes, GetTyped, GetOne
<1>2. ASSUME type \in ArrayTypes
      PROVE  /\ GetTyped(m, o, type) = GetEach(m, o, ElemType(type))
             /\ IsResult(GetEach(m, o, ElemType(type)))
  <2>1. ElemType(type) \in ElemTypes
    BY DEF ElemType, ElemTypes
  <2>2. GetTyped(m, o, type) = GetEach(m, o, ElemType(type))
    BY <1>2 DEF ArrayTypes, ElemType, GetTyped, GetNumbers, GetStrings, GetWides
  <2> QED BY <2>1, <2>2, GetEachIsResult
<1> QED BY <1>1, <1>2, TagsDomain

LEMMA GetTypedOne ==
  ASSUME NEW m \in Seq(Nat), NEW o \in Nat, NEW type \in MarkTypes,
         NEW value, IsCppValue(value), IsOne(value), VariantMark(type) = VariantMark(value.type),
         Partly(m, o, ValueFormat(value))
  PROVE  /\ Reads(GetTyped(m, o, type), o + Len(ValueFormat(value)), m, Turns(type, value))
         /\ GetTyped(m, o, type).end = "ok" /\ Turns(type, value) =>
              Plain(Tagged(type, GetTyped(m, o, type).val)) = Plain(value)
<1> DEFINE r == GetTyped(m, o, type)
           t == value.type
           said == Said(t, value.val)
<1>1. t \in ElemTypes /\ IsElem(t, value.val) /\ value = Tagged(t, value.val)
  BY DEF IsOne, IsCppValue, IsGoValue, Tagged
<1>2. type \in ElemTypes /\ (type = "i" <=> t = "i")
  BY <1>1 DEF VariantMark, ElemTypes, MarkTypes
<1>3. r = GetOne(m, o, type)
  BY <1>2, GetTypedIsResult
<1>4. ValueFormat(value) = PlainFormat(type, said)
  <2>1. ValueFormat(value) = PlainFormat(t, said)
    BY <1>1, ValueFormatIs DEF SaidFormat, ElemFormat
  <2> QED BY <1>2, <2>1 DEF PlainFormat
<1>5. IsSaid(type, said)
  BY <1>1, <1>2, SaidType, DigitsAreNumbers DEF IsSaid
<1>6. Turns(type, value) => Readable(type, said)
  <2>1. ASSUME type = "w" PROVE said \in Texts(value)
    <3>1. t = "s" \/ t = "w"
      BY <1>1, <1>2, <2>1 DEF ElemTypes
    <3> QED BY <3>1 DEF Texts, Said
  <2> QED BY <2>1 DEF Turns, Readable
<1>7. Plain(value) = Tagged(VariantMark(t), said)
  BY <1>1, PlainOne
<1> HIDE DEF r, said, t
<1>8. /\ Reads(r, o + Len(PlainFormat(type, said)), m, Readable(type, said))
      /\ r.end = "ok" /\ Readable(type, said) => Said(type, r.val) = said
  <2>1. Partly(m, o, PlainFormat(type, said))
    BY <1>4
  <2> QED BY <1>2, <1>3, <1>5, <2>1, GetOneResult
<1>9. Reads(r, o + Len(ValueFormat(value)), m, Turns(type, value))
  BY <1>4, <1>6, <1>8 DEF Reads
<1>10. ASSUME r.end = "ok", Turns(type, value) PROVE Plain(Tagged(type, r.val)) = Plain(value)
  <2>1. Plain(Tagged(type, r.val)) = Tagged(VariantMark(type), Said(type, r.val))
    BY <1>2, PlainOne
  <2>2. VariantMark(type) = VariantMark(t)
    BY DEF t
  <2> QED BY <1>6, <1>7, <1>8, <1>10, <2>1, <2>2
<1> QED BY <1>9, <1>10 DEF r

LEMMA GetTypedArray ==
  ASSUME NEW m \in Seq(Nat), NEW o \in Nat, NEW type \in MarkTypes,
         NEW value, IsCppValue(value), IsArray(value), VariantMark(type) = VariantMark(value.type),
         Partly(m, o, ValueFormat(value))
  PROVE  /\ Reads(GetTyped(m, o, type), o + Len(ValueFormat(value)), m, Turns(type, value))
         /\ GetTyped(m, o, type).end = "ok" /\ Turns(type, value) =>
              Plain(Tagged(type, GetTyped(m, o, type).val)) = Plain(value)
<1> DEFINE r == GetTyped(m, o, type)
           t == value.type
           arr == value.val
           n == Len(arr)
           et == ElemType(t)
           rt == ElemType(type)
           saids == [k \in 1 .. n |-> Said(et, arr[k])]
           all == \A k \in 1 .. n : Readable(rt, saids[k])
           whole == Cat(<<n>>, FlattenSeq(SaidFormats(rt, saids, n)))
<1>1. /\ t \in ArrayTypes /\ n \in Nat /\ DOMAIN arr = 1 .. n /\ AreElems(et, arr, n)
      /\ value = Tagged(t, arr)
  BY DEF IsArray, IsCppValue, IsGoValue, Tagged
<1>2. type \in ArrayTypes /\ (rt = "i" <=> et = "i") /\ rt \in ElemTypes
      /\ (rt = "w" => type = "W" /\ t \in {"S", "W"})
  BY <1>1 DEF VariantMark, ElemTypes, ArrayTypes, MarkTypes, ElemType
<1>3. r = GetEach(m, o, rt)
  BY <1>2, GetTypedIsResult
<1>4. ValueFormat(value) = whole
  <2>1. ValueFormat(value) = ArrayFormat(et, arr)
    BY <1>1, ValueFormatIs DEF SaidFormat, ElemTypes, ArrayTypes
  <2>2. Formats(et, arr, n) = SaidFormats(rt, saids, n)
    <3>1. \A k \in 1 .. n : ElemFormat(et, arr[k]) = PlainFormat(rt, saids[k])
      BY <1>2 DEF ElemFormat, PlainFormat
    <3> HIDE DEF saids
    <3> QED BY <3>1 DEF Formats, SaidFormats
  <2> QED BY <2>1, <2>2 DEF ArrayFormat
<1>5. \A k \in 1 .. n : IsSaid(rt, saids[k])
  <2> SUFFICES ASSUME NEW k \in 1 .. n PROVE IsSaid(rt, Said(et, arr[k]))
    OBVIOUS
  <2>1. IsElem(et, arr[k])
    BY <1>1 DEF AreElems
  <2> HIDE DEF et, rt, arr
  <2> QED BY <1>2, <2>1, SaidType, DigitsAreNumbers DEF IsSaid
<1>6. Turns(type, value) => all
  <2> SUFFICES ASSUME Turns(type, value), rt = "w", NEW k \in 1 .. n PROVE IsWideText(saids[k])
    BY DEF Readable
  <2>1. type = "W" /\ (t = "S" \/ t = "W")
    BY <1>2
  <2>2. saids[k] \in Texts(value)
    <3>1. CASE t = "S"
      BY <1>1, <3>1 DEF Texts, Said, ToSet, ElemType
    <3>2. CASE t = "W"
      BY <1>1, <3>2 DEF Texts, Said, ToSet, ElemType
    <3> QED BY <2>1, <3>1, <3>2
  <2> QED BY <2>1, <2>2 DEF Turns
<1>7. Plain(value) = Tagged(VariantMark(t), saids)
  <2>1. arr = [k \in 1 .. n |-> arr[k]]
    <3>1. arr = [k \in DOMAIN arr |-> arr[k]]
      <4>1. arr \in Seq(Numbers) \/ arr \in Seq(Seq(Digits)) \/ arr \in Seq(Seq(WideChars))
        BY <1>1 DEF IsCppValue, IsGoValue, ArrayTypes
      <4>2. \A V : arr \in Seq(V) => arr = [k \in DOMAIN arr |-> arr[k]]
        <5> HIDE DEF arr
        <5> QED BY LenProperties
      <4> HIDE DEF arr
      <4> QED BY <4>1, <4>2
    <3> QED BY <1>1, <3>1
  <2> HIDE DEF arr, n, t
  <2> QED BY <1>1, <2>1, PlainArray
<1>8. /\ Reads(r, o + Len(whole), m, all)
      /\ r.end = "ok" /\ all =>
           r.val = [k \in 1 .. n |-> r.val[k]] /\ \A k \in 1 .. n : Said(rt, r.val[k]) = saids[k]
  <2>1. Partly(m, o, whole)
    BY <1>4
  <2>2. EachReads(m, o, rt, n, saids)
    <3>1. n \in Nat /\ rt \in ElemTypes
      BY <1>1, <1>2
    <3> HIDE DEF saids, n, rt
    <3> QED BY <1>5, <2>1, <3>1, GetEachResult
  <2> HIDE DEF saids, n, rt
  <2> QED BY <1>3, <2>2 DEF EachReads
<1> HIDE DEF r, saids, n, rt, all, whole
<1>9. Reads(r, o + Len(ValueFormat(value)), m, Turns(type, value))
  BY <1>4, <1>6, <1>8 DEF Reads
<1>10. ASSUME r.end = "ok", Turns(type, value) PROVE Plain(Tagged(type, r.val)) = Plain(value)
  <2>1. r.val = [k \in 1 .. n |-> r.val[k]] /\ \A k \in 1 .. n : Said(rt, r.val[k]) = saids[k]
    BY <1>6, <1>8, <1>10
  <2>2. Plain(Tagged(type, r.val)) = Tagged(VariantMark(type), [k \in 1 .. n |-> Said(rt, r.val[k])])
    BY <1>1, <1>2, <2>1, PlainArray DEF rt
  <2>3. saids = [k \in 1 .. n |-> saids[k]]
    BY DEF saids
  <2>4. [k \in 1 .. n |-> Said(rt, r.val[k])] = saids
    BY <2>1, <2>3
  <2>5. VariantMark(type) = VariantMark(t)
    BY DEF t
  <2> QED BY <1>7, <2>2, <2>4, <2>5
<1> QED BY <1>9, <1>10 DEF r

-----------------------------------------------------------------------------
(* Reading one value by its type in the signature.                         *)
ReadsValue(r, at, m, good, value) ==
  /\ Reads(r, at, m, good)
  /\ r.end = "ok" /\ good => Plain(r.val) = Plain(value)

LEMMA GetMarkedIsResult ==
  ASSUME NEW m \in Seq(Nat), NEW o \in Nat, NEW type \in MarkTypes
  PROVE  IsResult(GetMarked(m, o, type))
<1> DEFINE one == GetTyped(m, o, type)
<1>1. IsResult(one)
  BY GetTypedIsResult
<1>2. GetMarked(m, o, type) = IF one.end # "ok" THEN one ELSE Got(one.offset, Tagged(type, one.val))
  BY DEF GetMarked, Tagged
<1>3. one.offset \in Nat
  BY <1>1 DEF IsResult
<1> HIDE DEF one
<1>4. IsResult(Got(one.offset, Tagged(type, one.val)))
  BY <1>3, GotIsResult
<1> QED BY <1>1, <1>2, <1>4

LEMMA GetMarkedReads ==
  ASSUME NEW m \in Seq(Nat), NEW o \in Nat, NEW type \in MarkTypes,
         NEW value, IsCppValue(value), VariantMark(type) = VariantMark(value.type),
         Partly(m, o, ValueFormat(value))
  PROVE  ReadsValue(GetMarked(m, o, type), o + Len(ValueFormat(value)), m, Turns(type, value), value)
<1> DEFINE one == GetTyped(m, o, type)
           r == GetMarked(m, o, type)
           at == o + Len(ValueFormat(value))
           good == Turns(type, value)
<1>1. /\ Reads(one, at, m, good)
      /\ one.end = "ok" /\ good => Plain(Tagged(type, one.val)) = Plain(value)
  <2>1. CASE IsOne(value)
    BY <2>1, GetTypedOne
  <2>2. CASE IsArray(value)
    BY <2>2, GetTypedArray
  <2> QED BY <2>1, <2>2, ValueKinds
<1>2. IsResult(one)
  BY GetTypedIsResult
<1>3. r = IF one.end # "ok" THEN one ELSE Got(one.offset, Tagged(type, one.val))
  BY DEF GetMarked, Tagged
<1>4. one.end = "ok" => r.end = "ok" /\ r.offset = one.offset /\ r.val = Tagged(type, one.val)
  <2> HIDE DEF one, r
  <2> QED BY <1>3 DEF Got
<1> HIDE DEF one, r, at, good
<1>5. r.end = "ok" <=> one.end = "ok"
  BY <1>3, <1>4
<1>6. Reads(r, at, m, good)
  BY <1>1, <1>4, <1>5 DEF Reads
<1>7. r.end = "ok" /\ good => Plain(r.val) = Plain(value)
  BY <1>1, <1>4, <1>5
<1> QED BY <1>6, <1>7 DEF ReadsValue, r, at, good

LEMMA TypeAtResult ==
  ASSUME NEW m \in Seq(Nat), NEW o \in Nat, NEW type \in SignatureTypes
  PROVE  /\ IsResult(TypeAt(m, o, type))
         /\ TypeAt(m, o, type).end = "ok" => TypeAt(m, o, type).val \in MarkTypes
         /\ type # "v" => type \in MarkTypes /\ TypeAt(m, o, type) = Got(o, type)
<1>1. CASE type # "v"
  <2>1. type \in MarkTypes /\ TypeAt(m, o, type) = Got(o, type)
    BY <1>1, TagsDomain DEF SignatureTypes, TypeAt
  <2>2. IsResult(Got(o, type)) /\ Got(o, type).val = type
    BY GotIsResult
  <2> QED BY <1>1, <2>1, <2>2
<1>2. CASE type = "v"
  <2> DEFINE marks == {Tags[t] : t \in DOMAIN Tags}
             mark == CHOOSE t \in DOMAIN Tags : Tags[t] = m[o + 1]
  <2>1. CASE Len(m) - o < 1 \/ m[o + 1] \notin marks
    <3>1. TypeAt(m, o, type) = Incomplete
      BY <1>2, <2>1 DEF TypeAt
    <3> QED BY <1>2, <3>1, FailureIsResult
  <2>2. CASE ~(Len(m) - o < 1 \/ m[o + 1] \notin marks)
    <3>1. TypeAt(m, o, type) = Got(o + 1, mark)
      BY <1>2, <2>2 DEF TypeAt
    <3>2. mark \in DOMAIN Tags
      BY <2>2
    <3> HIDE DEF mark
    <3>3. IsResult(Got(o + 1, mark)) /\ Got(o + 1, mark).val = mark
      BY GotIsResult
    <3> QED BY <1>2, <3>1, <3>2, <3>3, TagsDomain
  <2> QED BY <2>1, <2>2
<1> QED BY <1>1, <1>2

LEMMA TypeAtMark ==
  ASSUME NEW m \in Seq(Nat), NEW o \in Nat, NEW t \in MarkTypes, Partly(m, o, <<Tags[t]>>)
  PROVE  /\ TypeAt(m, o, "v").end = "ok" <=> o + 1 <= Len(m)
         /\ TypeAt(m, o, "v").end = "ok" => TypeAt(m, o, "v") = Got(o + 1, t)
<1> DEFINE marks == {Tags[s] : s \in DOMAIN Tags}
           mark == CHOOSE s \in DOMAIN Tags : Tags[s] = m[o + 1]
<1>1. Len(m) \in Nat
  BY LenProperties
<1>2. CASE ~(o + 1 <= Len(m))
  <2>1. Len(m) - o < 1
    BY <1>1, <1>2
  <2>2. TypeAt(m, o, "v") = Incomplete
    BY <2>1 DEF TypeAt
  <2> QED BY <1>2, <2>2, FailureIsResult
<1>3. CASE o + 1 <= Len(m)
  <2>1. ~(Len(m) - o < 1)
    BY <1>1, <1>3
  <2>2. m[o + 1] = Tags[t]
    <3>1. Len(<<Tags[t]>>) = 1 /\ <<Tags[t]>>[1] = Tags[t]
      OBVIOUS
    <3> QED BY <1>3, <3>1 DEF Partly
  <2>3. t \in DOMAIN Tags
    BY TagsDomain
  <2>4. TypeAt(m, o, "v") = Got(o + 1, mark)
    BY <2>1, <2>2, <2>3 DEF TypeAt
  <2>5. mark \in DOMAIN Tags /\ Tags[mark] = Tags[t]
    BY <2>2, <2>3
  <2> HIDE DEF mark
  <2>6. mark = t
    BY <2>5, TagsDomain
  <2>7. Got(o + 1, t).end = "ok"
    BY DEF Got
  <2> QED BY <1>3, <2>4, <2>6, <2>7
<1> QED BY <1>2, <1>3

LEMMA GoTypeMark ==
  ASSUME NEW type \in MarkTypes
  PROVE  /\ GoType(type) \in MarkTypes /\ VariantMark(GoType(type)) = VariantMark(type)
         /\ GoType(type) \notin {"w", "W"}
BY DEF GoType, VariantMark, MarkTypes

LEMMA GetValueIsResult ==
  ASSUME NEW m \in Seq(Nat), NEW o \in Nat, NEW type \in SignatureTypes
  PROVE  IsResult(GetValue(m, o, type)) /\ IsResult(GoGetValue(m, o, type))
<1> DEFINE mark == TypeAt(m, o, type)
<1>1. IsResult(mark) /\ (mark.end = "ok" => mark.val \in MarkTypes)
  BY TypeAtResult
<1>2. /\ GetValue(m, o, type) =
           IF mark.end # "ok" THEN mark ELSE GetMarked(m, mark.offset, mark.val)
      /\ GoGetValue(m, o, type) =
           IF mark.end # "ok" THEN mark ELSE GetMarked(m, mark.offset, GoType(mark.val))
  BY DEF GetValue, GoGetValue
<1>3. mark.offset \in Nat
  BY <1>1 DEF IsResult
<1> HIDE DEF mark
<1>4. ASSUME mark.end = "ok"
      PROVE  /\ IsResult(GetMarked(m, mark.offset, mark.val))
             /\ IsResult(GetMarked(m, mark.offset, GoType(mark.val)))
  <2>1. mark.val \in MarkTypes /\ GoType(mark.val) \in MarkTypes
    BY <1>1, <1>4, GoTypeMark
  <2> QED BY <1>3, <2>1, GetMarkedIsResult
<1> QED BY <1>1, <1>2, <1>4

(* A value of a type that stands in the signature: no mark is read. *)
LEMMA GetValueTyped ==
  ASSUME NEW m \in Seq(Nat), NEW o \in Nat, NEW type \in MarkTypes,
         NEW value, IsCppValue(value), VariantMark(type) = VariantMark(value.type),
         Partly(m, o, ValueFormat(value))
  PROVE  /\ ReadsValue(GetValue(m, o, type), o + Len(ValueFormat(value)), m, Turns(type, value), value)
         /\ ReadsValue(GoGetValue(m, o, type), o + Len(ValueFormat(value)), m, TRUE, value)
<1>1. type # "v" /\ type \in SignatureTypes
  BY TagsDomain DEF SignatureTypes, MarkTypes
<1>2. TypeAt(m, o, type) = Got(o, type)
  BY <1>1 DEF TypeAt
<1>3. /\ GetValue(m, o, type) = GetMarked(m, o, type)
      /\ GoGetValue(m, o, type) = GetMarked(m, o, GoType(type))
  BY <1>2 DEF GetValue, GoGetValue, Got
<1>4. GoType(type) \in MarkTypes /\ VariantMark(GoType(type)) = VariantMark(value.type)
  BY GoTypeMark
<1>5. Turns(GoType(type), value)
  BY GoTypeMark DEF Turns
<1>6. ReadsValue(GetMarked(m, o, type), o + Len(ValueFormat(value)), m, Turns(type, value), value)
  BY GetMarkedReads
<1>7. ReadsValue(GetMarked(m, o, GoType(type)), o + Len(ValueFormat(value)), m,
                 Turns(GoType(type), value), value)
  BY <1>4, GetMarkedReads
<1>8. ReadsValue(GetMarked(m, o, GoType(type)), o + Len(ValueFormat(value)), m, TRUE, value)
  BY <1>5, <1>7 DEF ReadsValue, Reads
<1> QED BY <1>3, <1>6, <1>8

(* A variant: the mark, then the value as one of the type it is marked with. *)
LEMMA GetValueVariant ==
  ASSUME NEW m \in Seq(Nat), NEW o \in Nat, NEW value, IsCppValue(value),
         Partly(m, o, Cat(<<Tags[Plain(value).type]>>, ValueFormat(value)))
  PROVE  LET at == o + Len(Cat(<<Tags[Plain(value).type]>>, ValueFormat(value))) IN
           /\ ReadsValue(GetValue(m, o, "v"), at, m, TRUE, value)
           /\ ReadsValue(GoGetValue(m, o, "v"), at, m, TRUE, value)
<1> DEFINE t == Plain(value).type
           f == ValueFormat(value)
           at == o + Len(Cat(<<Tags[t]>>, f))
           mark == TypeAt(m, o, "v")
<1>1. t = VariantMark(value.type) /\ t \in {"i", "I", "s", "S"} /\ Tags[t] \in Nat
  BY PlainType
<1>2. /\ t \in MarkTypes /\ VariantMark(t) = VariantMark(value.type) /\ GoType(t) = t
      /\ t \notin {"w", "W"}
  <2>1. t \in MarkTypes /\ VariantMark(t) = t /\ GoType(t) = t /\ t \notin {"w", "W"}
    <3> HIDE DEF t
    <3> QED BY <1>1 DEF MarkTypes, VariantMark, GoType
  <2> QED BY <1>1, <2>1
<1>3. f \in Seq(Nat) /\ Len(f) \in Nat
  BY ValueFormatType, LenProperties
<1>4. <<Tags[t]>> \in Seq(Nat) /\ Len(<<Tags[t]>>) = 1
  BY <1>1, OneByte
<1>5. Partly(m, o, Cat(<<Tags[t]>>, f))
  OBVIOUS
<1> HIDE DEF t, f
<1>6. Partly(m, o, <<Tags[t]>>) /\ Partly(m, o + 1, f) /\ at = o + 1 + Len(f)
  <2>1. Partly(m, o, <<Tags[t]>>) /\ Partly(m, o + Len(<<Tags[t]>>), f)
    BY <1>3, <1>4, <1>5, PartlyCat
  <2>2. Len(Cat(<<Tags[t]>>, f)) = Len(<<Tags[t]>>) + Len(f)
    BY <1>3, <1>4, CatType
  <2>3. Partly(m, o + 1, f)
    BY <1>4, <2>1
  <2>4. at = o + (1 + Len(f))
    BY <1>4, <2>2
  <2>5. o + (1 + Len(f)) = o + 1 + Len(f)
    BY <1>3
  <2> HIDE DEF at
  <2> QED BY <2>1, <2>3, <2>4, <2>5
<1>7. /\ mark.end = "ok" <=> o + 1 <= Len(m)
      /\ mark.end = "ok" => mark = Got(o + 1, t)
  BY <1>2, <1>6, TypeAtMark
<1>8. Len(m) \in Nat
  BY LenProperties
<1> SUFFICES ReadsValue(GetValue(m, o, "v"), at, m, TRUE, value)
             /\ ReadsValue(GoGetValue(m, o, "v"), at, m, TRUE, value)
  BY DEF t, f
<1> HIDE DEF at
<1>9. CASE mark.end # "ok"
  <2>1. GetValue(m, o, "v") = mark /\ GoGetValue(m, o, "v") = mark
    BY <1>9 DEF GetValue, GoGetValue
  <2>2. ~(at <= Len(m))
    BY <1>3, <1>6, <1>7, <1>8, <1>9
  <2> HIDE DEF mark
  <2>3. ReadsValue(mark, at, m, TRUE, value)
    BY <1>9, <2>2 DEF ReadsValue, Reads
  <2> QED BY <2>1, <2>3
<1>10. CASE mark.end = "ok"
  <2>1. mark.offset = o + 1 /\ mark.val = t
    <3> HIDE DEF mark
    <3> QED BY <1>7, <1>10 DEF Got
  <2>2. /\ GetValue(m, o, "v") = GetMarked(m, o + 1, t)
        /\ GoGetValue(m, o, "v") = GetMarked(m, o + 1, t)
    BY <1>2, <1>10, <2>1 DEF GetValue, GoGetValue
  <2>3. Turns(t, value)
    BY <1>2 DEF Turns
  <2>4. ReadsValue(GetMarked(m, o + 1, t), o + 1 + Len(f), m, Turns(t, value), value)
    <3>1. Partly(m, o + 1, ValueFormat(value)) /\ o + 1 \in Nat
      BY <1>6 DEF f
    <3>2. ReadsValue(GetMarked(m, o + 1, t), o + 1 + Len(ValueFormat(value)), m, Turns(t, value), value)
      BY <1>2, <3>1, GetMarkedReads
    <3> QED BY <3>2 DEF f
  <2>5. ReadsValue(GetMarked(m, o + 1, t), at, m, TRUE, value)
    BY <1>6, <2>3, <2>4 DEF ReadsValue, Reads
  <2> QED BY <2>2, <2>5
<1> QED BY <1>9, <1>10

(* By its type in the signature. *)
LEMMA GetValueReads ==
  ASSUME NEW m \in Seq(Nat), NEW o \in Nat, NEW type \in SignatureTypes,
         NEW value, IsCppValue(value), type # "v" => VariantMark(type) = VariantMark(value.type),
         Partly(m, o, MarkedFormat(type, value))
  PROVE  /\ ReadsValue(GetValue(m, o, type), o + Len(MarkedFormat(type, value)), m, Turns(type, value), value)
         /\ ReadsValue(GoGetValue(m, o, type), o + Len(MarkedFormat(type, value)), m, TRUE, value)
<1>1. CASE type = "v"
  <2>1. MarkedFormat(type, value) = Cat(<<Tags[Plain(value).type]>>, ValueFormat(value))
    BY <1>1 DEF MarkedFormat
  <2>2. LET at == o + Len(Cat(<<Tags[Plain(value).type]>>, ValueFormat(value))) IN
           /\ ReadsValue(GetValue(m, o, "v"), at, m, TRUE, value)
           /\ ReadsValue(GoGetValue(m, o, "v"), at, m, TRUE, value)
    BY <2>1, GetValueVariant
  <2>3. /\ ReadsValue(GetValue(m, o, type), o + Len(MarkedFormat(type, value)), m, TRUE, value)
        /\ ReadsValue(GoGetValue(m, o, type), o + Len(MarkedFormat(type, value)), m, TRUE, value)
    BY <1>1, <2>1, <2>2
  <2>4. Turns(type, value)
    BY <1>1 DEF Turns
  <2> QED BY <2>3, <2>4 DEF ReadsValue, Reads
<1>2. CASE type # "v"
  <2>1. MarkedFormat(type, value) = ValueFormat(value)
    BY <1>2 DEF MarkedFormat
  <2>2. type \in MarkTypes
    BY <1>2, TagsDomain DEF SignatureTypes
  <2>3. VariantMark(type) = VariantMark(value.type) /\ Partly(m, o, ValueFormat(value))
    BY <1>2, <2>1
  <2> QED BY <2>1, <2>2, <2>3, GetValueTyped
<1> QED BY <1>1, <1>2

-----------------------------------------------------------------------------
(* Reading a whole message: fromBinary and DataSignature.FromBinary.       *)
ReadsValues(r, at, m, n, good, vals) ==
  /\ Reads(r, at, m, good)
  /\ r.end = "ok" /\ good =>
       /\ Len(r.val) = n
       /\ \A k \in 1 .. n : Plain(r.val[k]) = Plain(vals[k])

(* A signature that the values have been written by. *)
Agrees(types, vals, n) ==
  \A k \in 1 .. n :
    /\ types[k] \in SignatureTypes /\ IsCppValue(vals[k])
    /\ types[k] # "v" => VariantMark(types[k]) = VariantMark(vals[k].type)

LEMMA ValuesInTurn ==
  ASSUME NEW m \in Seq(Nat), NEW types, NEW vals, NEW n \in Nat, Agrees(types, vals, n),
         Partly(m, 0, FlattenSeq(MarkedFormats(types, vals, n))),
         NEW R, NEW V, AreReaders(R, V, n), NEW G,
         \A k \in 1 .. n, x \in Nat :
           Partly(m, x, MarkedFormat(types[k], vals[k])) =>
             ReadsValue(R[k][x], x + Len(MarkedFormat(types[k], vals[k])), m, k \in G, vals[k]),
         NEW last, RunsTo(last, ReadStates(V), Got(0, <<>>), ReadStep(R, V, n), n)
  PROVE  ReadsValues(last, Len(FlattenSeq(MarkedFormats(types, vals, n))), m, n,
                     \A k \in 1 .. n : k \in G, vals)
<1> DEFINE formats == MarkedFormats(types, vals, n)
           e == FlattenSeq(formats)
           Mean == [k \in 1 .. n |-> {v \in V : Plain(v) = Plain(vals[k])}]
<1>1. /\ formats \in Seq(Seq(Nat)) /\ Len(formats) = n
      /\ \A k \in 1 .. n : formats[k] = MarkedFormat(types[k], vals[k])
  <2>1. \A k \in 1 .. n : IsCppValue(vals[k])
    BY DEF Agrees
  <2> QED BY <2>1, MarkedFormatsType
<1>2. Partly(m, 0, FlattenSeq(formats))
  OBVIOUS
<1>3. 0 \in Nat /\ 0 <= Len(m)
  BY LenProperties
<1>4. \A k \in 1 .. n : Mean[k] = {v \in V : Plain(v) = Plain(vals[k])}
  OBVIOUS
<1> HIDE DEF formats, Mean
<1>5. ReadFormats(R, m, formats, G, Mean)
  <2> SUFFICES ASSUME NEW k \in 1 .. n, NEW x \in Nat, Partly(m, x, formats[k])
               PROVE  /\ Reads(R[k][x], x + Len(formats[k]), m, k \in G)
                      /\ R[k][x].end = "ok" /\ k \in G => R[k][x].val \in Mean[k]
    BY <1>1 DEF ReadFormats
  <2>1. formats[k] = MarkedFormat(types[k], vals[k]) /\ R[k][x].val \in V
    BY <1>1 DEF AreReaders
  <2>2. ReadsValue(R[k][x], x + Len(formats[k]), m, k \in G, vals[k])
    BY <2>1
  <2>3. Reads(R[k][x], x + Len(formats[k]), m, k \in G)
    BY <2>2, Zenon DEF ReadsValue
  <2>4. R[k][x].end = "ok" /\ k \in G => Plain(R[k][x].val) = Plain(vals[k])
    BY <2>2, Zenon DEF ReadsValue
  <2> QED BY <1>4, <2>1, <2>3, <2>4
<1>6. ReadsAll(last, 0 + Len(e), m, n, G, Mean, V)
  BY <1>1, <1>2, <1>3, <1>5, ReadInTurn
<1>7. e \in Seq(Nat) /\ Len(e) \in Nat
  <2>1. PICK P : Flattens(P, Nat, formats)
    BY <1>1, FlattenRuns
  <2> QED BY <1>1, <2>1, FlattenSlices
<1> HIDE DEF e
<1>8. ReadsAll(last, Len(e), m, n, G, Mean, V)
  <2>1. 0 + Len(e) = Len(e)
    BY <1>7
  <2> QED BY <1>6, <2>1
<1>9. Reads(last, Len(e), m, \A k \in 1 .. n : k \in G)
  BY <1>8, Zenon DEF ReadsAll
<1>10. ASSUME last.end = "ok", \A k \in 1 .. n : k \in G
       PROVE  Len(last.val) = n /\ \A k \in 1 .. n : Plain(last.val[k]) = Plain(vals[k])
  <2>1. Len(last.val) = n /\ \A k \in 1 .. n : last.val[k] \in Mean[k]
    BY <1>8, <1>10 DEF ReadsAll
  <2> QED BY <1>4, <2>1
<1> QED BY <1>9, <1>10 DEF ReadsValues, e, formats

ValueReader(m, types, n) == [k \in 1 .. n |-> [x \in Nat |-> GetValue(m, x, types[k])]]

ValueVals(m, types, n) == {GetValue(m, x, types[k]).val : x \in Nat, k \in 1 .. n}

GoValueReader(m, types, n) == [k \in 1 .. n |-> [x \in Nat |-> GoGetValue(m, x, types[k])]]

GoValueVals(m, types, n) == {GoGetValue(m, x, types[k]).val : x \in Nat, k \in 1 .. n}

LEMMA FromBinaryRuns ==
  ASSUME NEW m \in Seq(Nat), NEW types, NEW n \in Nat, Len(types) = n,
         \A k \in 1 .. n : types[k] \in SignatureTypes
  PROVE  /\ AreReaders(ValueReader(m, types, n), ValueVals(m, types, n), n)
         /\ RunsTo(FromBinary(types, m), ReadStates(ValueVals(m, types, n)), Got(0, <<>>),
                   ReadStep(ValueReader(m, types, n), ValueVals(m, types, n), n), n)
<1> DEFINE R == ValueReader(m, types, n)
           V == ValueVals(m, types, n)
           base == Got(0, <<>>)
           step == ReadStep(R, V, n)
<1>1. \A k \in 1 .. n, x \in Nat : R[k][x] = GetValue(m, x, types[k])
  BY DEF ValueReader
<1>2. \A k \in 1 .. n, x \in Nat :
        IsResult(GetValue(m, x, types[k])) /\ GetValue(m, x, types[k]).val \in V
  BY GetValueIsResult DEF ValueVals
<1> HIDE DEF R, V
<1>3. AreReaders(R, V, n)
  BY <1>1, <1>2 DEF AreReaders
<1>4. /\ step \in [ReadStates(V) -> [1 .. n -> ReadStates(V)]]
      /\ \A acc \in ReadStates(V), k \in 1 .. n : step[acc][k] = Followed(acc, R[k][acc.offset])
  BY <1>3, ReadStepType
<1> HIDE DEF step
<1>5. \A acc \in ReadStates(V), k \in 1 .. n : step[acc][k] = FromStep(types, m, acc, k)
  <2>1. \A acc \in ReadStates(V) : acc.offset \in Nat
    BY DEF ReadStates
  <2> QED BY <1>1, <1>4, <2>1 DEF FromStep
<1>6. base \in ReadStates(V)
  <2>1. <<>> \in Seq(V)
    BY EmptySeq
  <2> QED BY <2>1 DEF ReadStates, Got
<1> HIDE DEF base
<1>7. RunsTo(FromFold(types, m, base, n), ReadStates(V), base, step, n)
  BY <1>4, <1>5, <1>6, FromRuns
<1>8. FromBinary(types, m) = FromFold(types, m, base, n)
  BY DEF FromBinary, FromFold, base
<1> QED BY <1>3, <1>7, <1>8 DEF R, V, base, step

LEMMA GoFromBinaryRuns ==
  ASSUME NEW m \in Seq(Nat), NEW types, NEW n \in Nat, Len(types) = n,
         \A k \in 1 .. n : types[k] \in SignatureTypes
  PROVE  /\ AreReaders(GoValueReader(m, types, n), GoValueVals(m, types, n), n)
         /\ RunsTo(GoFromBinary(types, m), ReadStates(GoValueVals(m, types, n)), Got(0, <<>>),
                   ReadStep(GoValueReader(m, types, n), GoValueVals(m, types, n), n), n)
<1> DEFINE R == GoValueReader(m, types, n)
           V == GoValueVals(m, types, n)
           base == Got(0, <<>>)
           step == ReadStep(R, V, n)
<1>1. \A k \in 1 .. n, x \in Nat : R[k][x] = GoGetValue(m, x, types[k])
  BY DEF GoValueReader
<1>2. \A k \in 1 .. n, x \in Nat :
        IsResult(GoGetValue(m, x, types[k])) /\ GoGetValue(m, x, types[k]).val \in V
  BY GetValueIsResult DEF GoValueVals
<1> HIDE DEF R, V
<1>3. AreReaders(R, V, n)
  BY <1>1, <1>2 DEF AreReaders
<1>4. /\ step \in [ReadStates(V) -> [1 .. n -> ReadStates(V)]]
      /\ \A acc \in ReadStates(V), k \in 1 .. n : step[acc][k] = Followed(acc, R[k][acc.offset])
  BY <1>3, ReadStepType
<1> HIDE DEF step
<1>5. \A acc \in ReadStates(V), k \in 1 .. n : step[acc][k] = GoFromStep(types, m, acc, k)
  <2>1. \A acc \in ReadStates(V) : acc.offset \in Nat
    BY DEF ReadStates
  <2> QED BY <1>1, <1>4, <2>1 DEF GoFromStep
<1>6. base \in ReadStates(V)
  <2>1. <<>> \in Seq(V)
    BY EmptySeq
  <2> QED BY <2>1 DEF ReadStates, Got
<1> HIDE DEF base
<1>7. RunsTo(GoFromFold(types, m, base, n), ReadStates(V), base, step, n)
  BY <1>4, <1>5, <1>6, GoFromRuns
<1>8. GoFromBinary(types, m) = GoFromFold(types, m, base, n)
  BY DEF GoFromBinary, GoFromFold, base
<1> QED BY <1>3, <1>7, <1>8 DEF R, V, base, step

LEMMA FromBinaryResult ==
  ASSUME NEW m \in Seq(Nat), NEW types, NEW vals, NEW n \in Nat, Len(types) = n,
         Agrees(types, vals, n), Partly(m, 0, FlattenSeq(MarkedFormats(types, vals, n)))
  PROVE  ReadsValues(FromBinary(types, m), Len(FlattenSeq(MarkedFormats(types, vals, n))), m, n,
                     \A k \in 1 .. n : Turns(types[k], vals[k]), vals)
<1> DEFINE R == ValueReader(m, types, n)
           V == ValueVals(m, types, n)
           G == {k \in 1 .. n : Turns(types[k], vals[k])}
           at == Len(FlattenSeq(MarkedFormats(types, vals, n)))
           r == FromBinary(types, m)
<1>1. \A k \in 1 .. n : types[k] \in SignatureTypes
  BY DEF Agrees
<1>2. AreReaders(R, V, n) /\ RunsTo(r, ReadStates(V), Got(0, <<>>), ReadStep(R, V, n), n)
  BY <1>1, FromBinaryRuns
<1>3. ASSUME NEW k \in 1 .. n, NEW x \in Nat, Partly(m, x, MarkedFormat(types[k], vals[k]))
      PROVE  ReadsValue(R[k][x], x + Len(MarkedFormat(types[k], vals[k])), m, k \in G, vals[k])
  <2>1. R[k][x] = GetValue(m, x, types[k])
    BY DEF ValueReader
  <2>2. /\ types[k] \in SignatureTypes /\ IsCppValue(vals[k])
        /\ types[k] # "v" => VariantMark(types[k]) = VariantMark(vals[k].type)
    BY DEF Agrees
  <2>3. ReadsValue(GetValue(m, x, types[k]), x + Len(MarkedFormat(types[k], vals[k])), m,
                   Turns(types[k], vals[k]), vals[k])
    BY <1>3, <2>2, GetValueReads
  <2>4. k \in G <=> Turns(types[k], vals[k])
    OBVIOUS
  <2> HIDE DEF R, G
  <2> QED BY <2>1, <2>3, <2>4 DEF ReadsValue, Reads
<1>4. (\A k \in 1 .. n : k \in G) <=> \A k \in 1 .. n : Turns(types[k], vals[k])
  OBVIOUS
<1> HIDE DEF R, V, G, r
<1>5. ReadsValues(r, at, m, n, \A k \in 1 .. n : k \in G, vals)
  BY <1>2, <1>3, ValuesInTurn
<1> HIDE DEF at
<1>6. ReadsValues(r, at, m, n, \A k \in 1 .. n : Turns(types[k], vals[k]), vals)
  BY <1>4, <1>5 DEF ReadsValues, Reads
<1> QED BY <1>6 DEF r, at

LEMMA GoFromBinaryResult ==
  ASSUME NEW m \in Seq(Nat), NEW types, NEW vals, NEW n \in Nat, Len(types) = n,
         Agrees(types, vals, n), Partly(m, 0, FlattenSeq(MarkedFormats(types, vals, n)))
  PROVE  ReadsValues(GoFromBinary(types, m), Len(FlattenSeq(MarkedFormats(types, vals, n))), m, n,
                     TRUE, vals)
<1> DEFINE R == GoValueReader(m, types, n)
           V == GoValueVals(m, types, n)
           G == 1 .. n
           at == Len(FlattenSeq(MarkedFormats(types, vals, n)))
           r == GoFromBinary(types, m)
<1>1. \A k \in 1 .. n : types[k] \in SignatureTypes
  BY DEF Agrees
<1>2. AreReaders(R, V, n) /\ RunsTo(r, ReadStates(V), Got(0, <<>>), ReadStep(R, V, n), n)
  BY <1>1, GoFromBinaryRuns
<1>3. ASSUME NEW k \in 1 .. n, NEW x \in Nat, Partly(m, x, MarkedFormat(types[k], vals[k]))
      PROVE  ReadsValue(R[k][x], x + Len(MarkedFormat(types[k], vals[k])), m, k \in G, vals[k])
  <2>1. R[k][x] = GoGetValue(m, x, types[k])
    BY DEF GoValueReader
  <2>2. /\ types[k] \in SignatureTypes /\ IsCppValue(vals[k])
        /\ types[k] # "v" => VariantMark(types[k]) = VariantMark(vals[k].type)
    BY DEF Agrees
  <2>3. ReadsValue(GoGetValue(m, x, types[k]), x + Len(MarkedFormat(types[k], vals[k])), m,
                   TRUE, vals[k])
    BY <1>3, <2>2, GetValueReads
  <2>4. k \in G
    OBVIOUS
  <2> HIDE DEF R, G
  <2> QED BY <2>1, <2>3, <2>4 DEF ReadsValue, Reads
<1>4. \A k \in 1 .. n : k \in G
  OBVIOUS
<1> HIDE DEF R, V, G, r
<1>5. ReadsValues(r, at, m, n, \A k \in 1 .. n : k \in G, vals)
  BY <1>2, <1>3, ValuesInTurn
<1> HIDE DEF at
<1>6. ReadsValues(r, at, m, n, TRUE, vals)
  BY <1>4, <1>5 DEF ReadsValues, Reads
<1> QED BY <1>6 DEF r, at

-----------------------------------------------------------------------------
(* The inductive invariant: the inputs are those of a case, what was sent  *)
(* is what the codec of the sender wrote, and what was received is what    *)
(* the codec of the receiver reads in it.                                  *)
InputsOK ==
  /\ sender \in {"cpp", "go"} /\ receiver \in {"cpp", "go"}
  /\ signature \in Seq(SignatureTypes)
  /\ Len(values) \in Nat /\ DOMAIN values = 1 .. Len(values)
  /\ \/ /\ sender = "cpp" /\ Len(values) = Len(signature) /\ old \in Seq(Digits)
        /\ \A k \in 1 .. Len(values) : IsCppValue(values[k])
     \/ sender = "go" /\ \A k \in 1 .. Len(values) : IsGoValue(values[k])

SentOK ==
  IF stage = "start" THEN ~overrun
  ELSE IF sender = "cpp"
  THEN /\ message = ToBinary(signature, values, old).message
       /\ overrun = ToBinary(signature, values, old).overrun
       /\ stage = "refused" <=> ~ToBinary(signature, values, old).ok
  ELSE /\ message = GoToBinary(signature, values).body
       /\ ~overrun
       /\ stage = "refused" <=> ~GoToBinary(signature, values).ok

ReceivedOK ==
  stage \notin {"start", "sent", "refused"} =>
    stage = Received(message).end /\ received = Received(message).val

Transferred == InputsOK /\ SentOK /\ ReceivedOK

LEMMA InputsInit == Init => InputsOK
<1> SUFFICES ASSUME Init PROVE InputsOK
  OBVIOUS
<1>1. sender \in {"cpp", "go"} /\ receiver \in {"cpp", "go"}
  BY DEF Init
<1>2. CASE sender = "cpp"
  <2>1. PICK case \in CppCases : signature = case[1] /\ values = case[2]
    BY <1>2 DEF Init
  <2>2. old \in Seq(Digits)
    BY <1>2, STAssumption DEF Init
  <2>3. /\ signature \in Seq(SignatureTypes)
        /\ Len(values) = Len(signature) /\ DOMAIN values = 1 .. Len(values)
        /\ \A k \in DOMAIN values : IsCppValue(values[k])
    BY <2>1, STAssumption
  <2>4. Len(signature) \in Nat
    BY <2>3, LenProperties
  <2> QED BY <1>1, <1>2, <2>2, <2>3, <2>4 DEF InputsOK
<1>3. CASE sender = "go"
  <2>1. PICK case \in GoCases : signature = case[1] /\ values = case[2]
    BY <1>3 DEF Init
  <2>2. /\ signature \in Seq(SignatureTypes)
        /\ Len(values) \in Nat /\ DOMAIN values = 1 .. Len(values)
        /\ \A k \in DOMAIN values : IsGoValue(values[k])
    BY <2>1, STAssumption
  <2> QED BY <1>1, <1>3, <2>2 DEF InputsOK
<1> QED BY <1>1, <1>2, <1>3

LEMMA SentMessage ==
  ASSUME InputsOK, SentOK, stage # "start"
  PROVE  message \in Seq(Nat)
<1>1. \A d \in Digits : d \in Nat
  BY DigitsAreNumbers
<1>2. CASE sender = "cpp"
  <2>1. old \in Seq(Nat) /\ Len(signature) \in Nat
    BY <1>1, <1>2, LenProperties DEF InputsOK
  <2> QED BY <1>2, <2>1, ToBinaryResult DEF InputsOK, SentOK
<1>3. CASE sender = "go"
  BY <1>3, LenProperties, GoToBinaryResult DEF InputsOK, SentOK
<1> QED BY <1>2, <1>3 DEF InputsOK

LEMMA ReceivedResult ==
  ASSUME InputsOK, NEW m \in Seq(Nat)
  PROVE  Received(m).end \in {"ok", "incomplete", "raised"}
<1> DEFINE n == Len(signature)
<1>1. n \in Nat /\ \A k \in 1 .. n : signature[k] \in SignatureTypes
  BY LenProperties, ElementOfSeq DEF InputsOK
<1> HIDE DEF n
<1>2. \A last, A, base, step : RunsTo(last, A, base, step, n) => last \in A
  BY <1>1 DEF RunsTo
<1>3. \A V : \A r \in ReadStates(V) : r.end \in {"ok", "incomplete", "raised"}
  BY DEF ReadStates
<1>4. FromBinary(signature, m).end \in {"ok", "incomplete", "raised"}
  <2>1. FromBinary(signature, m) \in ReadStates(ValueVals(m, signature, n))
    BY <1>1, <1>2, FromBinaryRuns DEF n
  <2> QED BY <1>3, <2>1
<1>5. GoFromBinary(signature, m).end \in {"ok", "incomplete", "raised"}
  <2>1. GoFromBinary(signature, m) \in ReadStates(GoValueVals(m, signature, n))
    BY <1>1, <1>2, GoFromBinaryRuns DEF n
  <2> QED BY <1>3, <2>1
<1> QED BY <1>4, <1>5 DEF Received

LEMMA TransferredInit == Init => Transferred
BY InputsInit DEF Init, Transferred, SentOK, ReceivedOK

LEMMA TransferredNext == Transferred /\ [Next]_vars => Transferred'
<1> SUFFICES ASSUME Transferred, [Next]_vars PROVE Transferred'
  OBVIOUS
<1>1. InputsOK /\ SentOK /\ ReceivedOK
  BY DEF Transferred
<1>2. UNCHANGED inputs
  BY DEF Next, vars, CppEncode, GoEncode, Decode
<1>3. InputsOK'
  BY <1>1, <1>2 DEF InputsOK, inputs
<1>4. CASE CppEncode
  <2>1. ToBinary(signature, values, old).ok \in BOOLEAN
    <3>1. \A d \in Digits : d \in Nat
      BY DigitsAreNumbers
    <3>2. old \in Seq(Nat) /\ Len(signature) \in Nat /\ \A k \in 1 .. Len(signature) : IsCppValue(values[k])
      BY <1>1, <1>4, <3>1, LenProperties DEF InputsOK, CppEncode
    <3> QED BY <3>2, ToBinaryResult
  <2>2. /\ sender = "cpp" /\ stage' \in {"sent", "refused"}
        /\ message' = ToBinary(signature, values, old).message
        /\ overrun' = ToBinary(signature, values, old).overrun
        /\ stage' = "refused" <=> ~ToBinary(signature, values, old).ok
    BY <1>4, <2>1 DEF CppEncode
  <2>3. SentOK'
    BY <1>2, <2>2 DEF SentOK, inputs
  <2>4. ReceivedOK'
    BY <2>2 DEF ReceivedOK
  <2> QED BY <1>3, <2>3, <2>4 DEF Transferred
<1>5. CASE GoEncode
  <2>1. ~overrun /\ sender = "go"
    BY <1>1, <1>5 DEF SentOK, GoEncode
  <2>2. GoToBinary(signature, values).ok \in BOOLEAN
    <3>1. Len(signature) \in Nat /\ Len(values) \in Nat /\ \A k \in 1 .. Len(values) : IsGoValue(values[k])
      BY <1>1, <2>1, LenProperties DEF InputsOK
    <3> QED BY <3>1, GoToBinaryResult
  <2>3. /\ stage' \in {"sent", "refused"} /\ ~overrun'
        /\ message' = GoToBinary(signature, values).body
        /\ stage' = "refused" <=> ~GoToBinary(signature, values).ok
    BY <1>5, <2>1, <2>2 DEF GoEncode
  <2>4. SentOK'
    BY <1>2, <2>1, <2>3 DEF SentOK, inputs
  <2>5. ReceivedOK'
    BY <2>3 DEF ReceivedOK
  <2> QED BY <1>3, <2>4, <2>5 DEF Transferred
<1>6. CASE Decode
  <2>1. stage = "sent" /\ UNCHANGED <<message, overrun>>
        /\ stage' = Received(message).end /\ received' = Received(message).val
    BY <1>6 DEF Decode
  <2>2. stage' \in {"ok", "incomplete", "raised"}
    BY <1>1, <2>1, SentMessage, ReceivedResult
  <2>3. SentOK'
    <3>1. CASE sender = "cpp"
      BY <1>1, <1>2, <2>1, <2>2, <3>1 DEF SentOK, inputs
    <3>2. CASE sender # "cpp"
      BY <1>1, <1>2, <2>1, <2>2, <3>2 DEF SentOK, inputs
    <3> QED BY <3>1, <3>2
  <2>4. Received(message)' = Received(message)
    BY <1>2, <2>1 DEF Received, inputs
  <2>5. ReceivedOK'
    BY <2>1, <2>4 DEF ReceivedOK
  <2> QED BY <1>3, <2>3, <2>5 DEF Transferred
<1>7. CASE UNCHANGED vars
  <2>1. UNCHANGED <<sender, receiver, signature, values, old, stage, message, overrun, received>>
    BY <1>7 DEF vars, inputs
  <2>2. SentOK'
    BY <1>1, <2>1 DEF SentOK
  <2>3. ReceivedOK'
    BY <1>1, <2>1 DEF ReceivedOK, Received
  <2> QED BY <1>3, <2>2, <2>3 DEF Transferred
<1> QED BY <1>4, <1>5, <1>6, <1>7 DEF Next

(* The invariant that the other theorems are drawn from: the message is    *)
(* what the codec of the sender wrote, and what was received is what the   *)
(* codec of the receiver reads in it.                                      *)
THEOREM TransferredHolds == Spec => []Transferred
BY TransferredInit, TransferredNext, PTL DEF Spec

-----------------------------------------------------------------------------
(* What the properties say, in the words of the lemmas about the codecs.   *)
LEMMA LengthsNat ==
  ASSUME NEW value, IsCppValue(value)
  PROVE  \A n \in Lengths(value) : n \in Nat
<1>1. \A V : \A s \in Seq(V) : Len(s) \in Nat
  BY LenProperties
<1>2. CASE value.type = "i"
  BY <1>2 DEF Lengths, Texts
<1>3. CASE value.type = "I"
  <2>1. Len(value.val) \in Nat
    BY <1>1, <1>3 DEF IsCppValue, IsGoValue
  <2> QED BY <1>3, <2>1 DEF Lengths, Texts
<1>4. CASE value.type = "s"
  <2>1. Len(value.val) \in Nat
    BY <1>1, <1>4 DEF IsCppValue, IsGoValue
  <2> QED BY <1>4, <2>1 DEF Lengths, Texts
<1>5. CASE value.type = "w"
  <2>1. value.val \in Seq(WideChars)
    BY <1>5 DEF IsCppValue, IsGoValue
  <2>2. Len(ToBytes(value.val)) \in Nat
    BY <1>1, <2>1, ToBytesType
  <2> QED BY <1>5, <2>2 DEF Lengths, Texts
<1>6. CASE value.type = "S"
  <2>1. value.val \in Seq(Seq(Digits))
    BY <1>6 DEF IsCppValue, IsGoValue
  <2>2. Len(value.val) \in Nat /\ \A text \in ToSet(value.val) : Len(text) \in Nat
    BY <1>1, <2>1, ArrayElements DEF ToSet
  <2> QED BY <1>6, <2>2 DEF Lengths, Texts
<1>7. CASE value.type = "W"
  <2>1. value.val \in Seq(Seq(WideChars))
    BY <1>7 DEF IsCppValue, IsGoValue
  <2>2. Len(value.val) \in Nat /\ \A str \in ToSet(value.val) : str \in Seq(WideChars)
    BY <1>1, <2>1, ArrayElements DEF ToSet
  <2>3. \A str \in ToSet(value.val) : Len(ToBytes(str)) \in Nat
    BY <1>1, <2>2, ToBytesType
  <2> QED BY <1>7, <2>2, <2>3 DEF Lengths, Texts
<1> QED BY <1>2, <1>3, <1>4, <1>5, <1>6, <1>7 DEF IsCppValue, IsGoValue

LEMMA ShortValues ==
  ASSUME NEW value, IsCppValue(value), CppAccepts(value) \/ GoAccepts(value), Radix \notin Lengths(value)
  PROVE  Short(value)
<1>1. ~(value.type \in {"S", "W"} /\ Len(value.val) = Radix)
  BY DEF Lengths
<1>2. \A n \in Lengths(value) : n <= Radix
  BY <1>1 DEF CppAccepts, GoAccepts
<1>3. Radix \in Nat
  BY DSAssumption
<1> SUFFICES ASSUME NEW n \in Lengths(value) PROVE n <= Radix - 1
  BY DEF Short
<1>4. n \in Nat /\ n <= Radix /\ n # Radix
  BY <1>2, LengthsNat
<1> QED BY <1>3, <1>4

LEMMA FormatIs ==
  ASSUME InputsOK
  PROVE  Format = FlattenSeq(MarkedFormats(signature, values, Len(values)))
<1>1. DOMAIN values = 1 .. Len(values)
  BY DEF InputsOK
<1> QED BY <1>1 DEF Format, MarkedFormats, MarkedFormat, Cat

(* When the sender does not refuse. *)
LEMMA AcceptedExactly ==
  ASSUME InputsOK, SentOK, stage # "start"
  PROVE  stage # "refused" <=>
           /\ Len(signature) = Len(values)
           /\ \A k \in 1 .. Len(values) :
                /\ FitsType(k)
                /\ IF sender = "cpp" THEN CppAccepts(values[k]) ELSE GoAccepts(values[k])
<1>1. Len(signature) \in Nat /\ Len(values) \in Nat
  BY LenProperties DEF InputsOK
<1>2. CASE sender = "cpp"
  <2>1. /\ \A k \in 1 .. Len(signature) : IsCppValue(values[k])
        /\ Len(values) = Len(signature) /\ old \in Seq(Nat)
    <3>1. \A d \in Digits : d \in Nat
      BY DigitsAreNumbers
    <3> QED BY <1>2, <3>1 DEF InputsOK
  <2>2. ToBinary(signature, values, old).ok <=>
          \A k \in 1 .. Len(signature) : Fits(signature[k], values[k]) /\ CppAccepts(values[k])
    BY <1>1, <2>1, ToBinaryResult
  <2>3. stage # "refused" <=> ToBinary(signature, values, old).ok
    BY <1>2 DEF SentOK
  <2>4. \A k \in 1 .. Len(values) : FitsType(k) <=> Fits(signature[k], values[k])
    BY <1>2 DEF FitsType, Fits
  <2> QED BY <1>2, <2>1, <2>2, <2>3, <2>4
<1>3. CASE sender = "go"
  <2>1. \A k \in 1 .. Len(values) : IsGoValue(values[k])
    BY <1>3 DEF InputsOK
  <2>2. GoToBinary(signature, values).ok <=>
          /\ Len(signature) = Len(values)
          /\ \A k \in 1 .. Len(values) : GoFits(signature[k], values[k]) /\ GoAccepts(values[k])
    BY <1>1, <2>1, GoToBinaryResult
  <2>3. stage # "refused" <=> GoToBinary(signature, values).ok
    BY <1>3 DEF SentOK
  <2>4. \A k \in 1 .. Len(values) : FitsType(k) <=> GoFits(signature[k], values[k])
    BY <1>3 DEF FitsType, GoFits
  <2> QED BY <1>3, <2>2, <2>3, <2>4
<1> QED BY <1>2, <1>3 DEF InputsOK

(* What a sender that does not refuse has written, and that its values are *)
(* of types that the signature can be read with.                           *)
LEMMA SentIs ==
  ASSUME InputsOK, SentOK, stage # "start", stage # "refused", ~AtLimit
  PROVE  /\ message = FlattenSeq(MarkedFormats(signature, values, Len(values)))
         /\ ~overrun /\ Len(signature) = Len(values)
         /\ Agrees(signature, values, Len(values))
<1> DEFINE n == Len(values)
<1>1. /\ Len(signature) = n /\ n \in Nat /\ DOMAIN values = 1 .. n
      /\ \A k \in 1 .. n :
           /\ FitsType(k)
           /\ IF sender = "cpp" THEN CppAccepts(values[k]) ELSE GoAccepts(values[k])
  BY AcceptedExactly DEF InputsOK
<1>2. \A k \in 1 .. n : IsCppValue(values[k])
  BY GoValues DEF InputsOK
<1>3. \A k \in 1 .. n : Radix \notin Lengths(values[k])
  BY <1>1 DEF AtLimit, AllLengths
<1>4. \A k \in 1 .. n : Short(values[k])
  BY <1>1, <1>2, <1>3, ShortValues
<1>5. \A k \in 1 .. n : signature[k] \in SignatureTypes
  BY <1>1, ElementOfSeq DEF InputsOK
<1>6. message = FlattenSeq(MarkedFormats(signature, values, n)) /\ ~overrun
  <2>1. CASE sender = "cpp"
    <3>1. old \in Seq(Nat)
      <4>1. \A d \in Digits : d \in Nat
        BY DigitsAreNumbers
      <4> QED BY <2>1, <4>1 DEF InputsOK
    <3>2. \A k \in 1 .. n : Fits(signature[k], values[k]) /\ CppAccepts(values[k]) /\ Short(values[k])
      BY <1>1, <1>4, <2>1 DEF FitsType, Fits
    <3>3. /\ ToBinary(signature, values, old).message = FlattenSeq(MarkedFormats(signature, values, n))
          /\ ~ToBinary(signature, values, old).overrun
      <4> HIDE DEF n
      <4> QED BY <1>1, <1>2, <3>1, <3>2, ToBinaryResult
    <3> QED BY <2>1, <3>3 DEF SentOK
  <2>2. CASE sender = "go"
    <3>1. \A k \in 1 .. n : IsGoValue(values[k]) /\ GoFits(signature[k], values[k]) /\ Short(values[k])
      BY <1>1, <1>4, <2>2 DEF FitsType, GoFits, InputsOK
    <3>2. GoToBinary(signature, values).body = FlattenSeq(MarkedFormats(signature, values, n))
      BY <1>1, <3>1, GoToBinaryResult
    <3> QED BY <2>2, <3>2 DEF SentOK
  <2> QED BY <2>1, <2>2 DEF InputsOK
<1>7. ASSUME NEW k \in 1 .. n, signature[k] # "v"
      PROVE  VariantMark(signature[k]) = VariantMark(values[k].type)
  <2>1. CASE sender = "go"
    <3>1. values[k].type = GoType(signature[k])
      BY <1>1, <1>7, <2>1 DEF FitsType
    <3>2. signature[k] \in MarkTypes
      BY <1>5, <1>7, TagsDomain DEF SignatureTypes
    <3> QED BY <3>1, <3>2, GoTypeMark
  <2>2. CASE sender # "go"
    BY <1>1, <1>7, <2>2 DEF FitsType
  <2> QED BY <2>1, <2>2
<1>8. Agrees(signature, values, n)
  BY <1>2, <1>5, <1>7 DEF Agrees
<1> QED BY <1>1, <1>6, <1>8

(* Reading bytes that are the message as far as they go. *)
LEMMA ReceivedReads ==
  ASSUME NEW m \in Seq(Nat), NEW n \in Nat, Len(signature) = n, Agrees(signature, values, n),
         Partly(m, 0, FlattenSeq(MarkedFormats(signature, values, n)))
  PROVE  ReadsValues(Received(m), Len(FlattenSeq(MarkedFormats(signature, values, n))), m, n,
                     \A k \in 1 .. n : Convertible(k), values)
<1> DEFINE at == Len(FlattenSeq(MarkedFormats(signature, values, n)))
<1>1. CASE receiver = "cpp"
  <2>1. ReadsValues(FromBinary(signature, m), at, m, n,
                    \A k \in 1 .. n : Turns(signature[k], values[k]), values)
    BY FromBinaryResult
  <2>2. \A k \in 1 .. n : Convertible(k) <=> Turns(signature[k], values[k])
    BY <1>1 DEF Convertible, Turns, IsWideText
  <2>3. Received(m) = FromBinary(signature, m)
    BY <1>1 DEF Received
  <2> HIDE DEF at
  <2> QED BY <2>1, <2>2, <2>3 DEF ReadsValues, Reads, at
<1>2. CASE receiver # "cpp"
  <2>1. ReadsValues(GoFromBinary(signature, m), at, m, n, TRUE, values)
    BY GoFromBinaryResult
  <2>2. Received(m) = GoFromBinary(signature, m)
    BY <1>2 DEF Received
  <2> HIDE DEF at
  <2> QED BY <2>1, <2>2 DEF ReadsValues, Reads, at
<1> QED BY <1>1, <1>2

(* What is sent is the format of the values and nothing else, from either  *)
(* language and whatever the vector of toBinary has held before, and no    *)
(* byte is written behind the end of the vector, for all signatures and    *)
(* values in which no length is exactly the limit.                         *)
THEOREM FormatExactHolds == Spec => []FormatExact
<1>1. Transferred => FormatExact
  <2> SUFFICES ASSUME Transferred, stage # "start" /\ stage # "refused", ~AtLimit
               PROVE  message = Format /\ ~overrun
    BY DEF FormatExact
  <2>1. InputsOK /\ SentOK
    BY DEF Transferred
  <2> QED BY <2>1, SentIs, FormatIs
<1> QED BY <1>1, TransferredHolds, PTL

(* Both codecs refuse just the values of another type than the signature   *)
(* says and those with a length above the limit among the lengths that are *)
(* compared with it, and Go's also another number of values.               *)
THEOREM RefusedExactlyHolds == Spec => []RefusedExactly
<1>1. Transferred => RefusedExactly
  <2> SUFFICES ASSUME Transferred, stage # "start"
               PROVE  stage = "refused" <=>
                        \/ Len(signature) # Len(values)
                        \/ \E k \in DOMAIN values : ~FitsType(k)
                        \/ \E k \in DOMAIN values : \E n \in Compared(values[k]) : n > Radix
    BY DEF RefusedExactly
  <2>1. InputsOK /\ SentOK
    BY DEF Transferred
  <2>2. DOMAIN values = 1 .. Len(values) /\ \A k \in 1 .. Len(values) : IsCppValue(values[k])
    BY <2>1, GoValues DEF InputsOK
  <2>3. ASSUME NEW k \in 1 .. Len(values)
        PROVE  (IF sender = "cpp" THEN CppAccepts(values[k]) ELSE GoAccepts(values[k])) <=>
                 ~\E n \in Compared(values[k]) : n > Radix
    <3>1. Radix \in Nat /\ \A n \in Lengths(values[k]) : n \in Nat
      BY <2>2, LengthsNat, DSAssumption
    <3>2. \A n \in Compared(values[k]) : n \in Nat
      BY <3>1 DEF Compared
    <3>3. (IF sender = "cpp" THEN CppAccepts(values[k]) ELSE GoAccepts(values[k])) <=>
            \A n \in Compared(values[k]) : n <= Radix
      BY DEF Compared, CppAccepts, GoAccepts
    <3>4. \A n \in Compared(values[k]) : n <= Radix <=> ~(n > Radix)
      BY <3>1, <3>2
    <3> QED BY <3>3, <3>4
  <2>4. stage # "refused" <=>
          /\ Len(signature) = Len(values)
          /\ \A k \in 1 .. Len(values) :
               /\ FitsType(k)
               /\ IF sender = "cpp" THEN CppAccepts(values[k]) ELSE GoAccepts(values[k])
    BY <2>1, AcceptedExactly
  <2> QED BY <2>2, <2>3, <2>4
<1> QED BY <1>1, TransferredHolds, PTL

(* Every value that is sent is read and says the same, in each of the four *)
(* combinations of languages, unless a length is exactly the limit or a    *)
(* text that C++ makes a wide string of cannot be converted.               *)
THEOREM TransferIntactHolds == Spec => []TransferIntact
<1>1. Transferred => TransferIntact
  <2> SUFFICES ASSUME Transferred, stage \in {"ok", "incomplete", "raised"}, ~AtLimit,
                      \A k \in DOMAIN values : Convertible(k)
               PROVE  /\ stage = "ok"
                      /\ Len(received) = Len(values)
                      /\ \A k \in DOMAIN values : Plain(received[k]) = Plain(values[k])
    BY DEF TransferIntact
  <2> DEFINE n == Len(values)
             e == FlattenSeq(MarkedFormats(signature, values, n))
  <2>1. InputsOK /\ SentOK /\ stage = Received(message).end /\ received = Received(message).val
    BY DEF Transferred, ReceivedOK
  <2>2. n \in Nat /\ DOMAIN values = 1 .. n
    BY <2>1 DEF InputsOK
  <2>3. message = e /\ Len(signature) = n /\ Agrees(signature, values, n)
    BY <2>1, SentIs
  <2>4. message \in Seq(Nat)
    BY <2>1, SentMessage
  <2>5. Partly(message, 0, e)
    <3>1. Len(message) \in Nat
      BY <2>4, LenProperties
    <3> HIDE DEF e
    <3> QED BY <2>3, <3>1 DEF Partly
  <2>6. ReadsValues(Received(message), Len(e), message, n, \A k \in 1 .. n : Convertible(k), values)
    BY <2>2, <2>3, <2>4, <2>5, ReceivedReads
  <2>7. Len(e) <= Len(message)
    <3>1. Len(message) \in Nat
      BY <2>4, LenProperties
    <3> QED BY <2>3, <3>1
  <2> HIDE DEF e
  <2>8. Received(message).end = "ok"
    BY <2>2, <2>6, <2>7 DEF ReadsValues, Reads
  <2>9. Len(Received(message).val) = n /\ \A k \in 1 .. n : Plain(Received(message).val[k]) = Plain(values[k])
    BY <2>2, <2>6, <2>8 DEF ReadsValues
  <2> QED BY <2>1, <2>2, <2>8, <2>9
<1> QED BY <1>1, TransferredHolds, PTL

(* Whatever the receiver and wherever the message is cut: the reader finds *)
(* that bytes are missing.                                                 *)
THEOREM PrefixRefusedHolds == Spec => []PrefixRefused
<1>1. Transferred => PrefixRefused
  <2> SUFFICES ASSUME Transferred, stage = "sent", ~AtLimit, NEW c \in 0 .. Len(message) - 1
               PROVE  Received(SubSeq(message, 1, c)).end # "ok"
    BY DEF PrefixRefused
  <2> DEFINE n == Len(values)
             e == FlattenSeq(MarkedFormats(signature, values, n))
             m == SubSeq(message, 1, c)
  <2>1. InputsOK /\ SentOK
    BY DEF Transferred
  <2>2. n \in Nat
    BY <2>1 DEF InputsOK
  <2>3. message = e /\ Len(signature) = n /\ Agrees(signature, values, n)
    BY <2>1, SentIs
  <2>4. message \in Seq(Nat) /\ Len(message) \in Nat
    BY <2>1, SentMessage, LenProperties
  <2>5. m \in Seq(Nat) /\ Len(m) = c /\ \A j \in 1 .. c : m[j] = message[j]
    <3>1. c \in Nat /\ 0 \in Nat /\ 0 + c <= Len(message) /\ 0 + 1 = 1 /\ 0 + c = c
      BY <2>4
    <3>2. /\ SubSeq(message, 0 + 1, 0 + c) \in Seq(Nat) /\ Len(SubSeq(message, 0 + 1, 0 + c)) = c
          /\ \A j \in 1 .. c : SubSeq(message, 0 + 1, 0 + c)[j] = message[0 + j]
      BY <2>4, <3>1, SubSeqWithin
    <3>3. \A j \in 1 .. c : 0 + j = j
      OBVIOUS
    <3> QED BY <3>1, <3>2, <3>3
  <2> HIDE DEF m, e, n
  <2>6. Partly(m, 0, e)
    <3> SUFFICES ASSUME NEW j \in 1 .. Len(e), 0 + j <= Len(m) PROVE m[0 + j] = e[j]
      BY DEF Partly
    <3>1. j \in 1 .. c /\ 0 + j = j
      BY <2>3, <2>4, <2>5
    <3> QED BY <2>3, <2>5, <3>1
  <2>7. ReadsValues(Received(m), Len(e), m, n, \A k \in 1 .. n : Convertible(k), values)
    BY <2>2, <2>3, <2>5, <2>6, ReceivedReads DEF e
  <2>8. ~(Len(e) <= Len(m))
    BY <2>3, <2>4, <2>5
  <2> QED BY <2>7, <2>8 DEF ReadsValues, Reads, m
<1> QED BY <1>1, TransferredHolds, PTL
=============================================================================
