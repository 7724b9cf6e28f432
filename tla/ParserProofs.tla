---------------------------- MODULE ParserProofs ----------------------------
(***************************************************************************)
(* Proofs about the parser, for every set of token sequences: the calls    *)
(* that are pending fit on one another, and as long as nothing was         *)
(* reported what they have built is part of a tree the later passes can    *)
(* work on.  Second part: the memory it needs.                             *)
(***************************************************************************)
EXTENDS ParserProperties, SequenceTheorems, WellFoundedInduction, TLAPS

-----------------------------------------------------------------------------
(* Sequences of sequences, laid end to end.                                *)

(* A set of numbers has a least one.                                       *)
LEMMA LeastNatural ==
  ASSUME NEW D, D \subseteq Nat, D # {}
  PROVE  \E x \in D : \A y \in D : x <= y
<1> DEFINE R == {ss \in Nat \X Nat : ss[1] < ss[2]}
<1>1. IsWellFoundedOn(R, Nat)
  BY NatLessThanWellFounded DEF OpToRel
<1>2. PICK x \in D : \A y \in D : ~ (<<y, x>> \in R)
  <2> HIDE DEF R
  <2> QED BY <1>1, WFMin
<1>3. ASSUME NEW y \in D
      PROVE  x <= y
  <2>1. ~ (y < x)
    <3>1. <<y, x>> \in Nat \X Nat
      OBVIOUS
    <3> QED BY <1>2, <3>1
  <2>2. x \in Nat /\ y \in Nat
    OBVIOUS
  <2> QED BY <2>1, <2>2
<1> QED BY <1>3

(* f lays the first parts of s, n of them, end to end.                     *)
Lays(f, s, n) == f = [i \in 1..n |-> IF i = 1 THEN s[i] ELSE f[i - 1] \o s[i]]

(* The parts can be laid, however many they are.                           *)
LEMMA LaysExists ==
  ASSUME NEW s, Len(s) \in Nat
  PROVE  \E f : Lays(f, s, Len(s))
<1> DEFINE D == {n \in 0..Len(s) : ~ \E f : Lays(f, s, n)}
<1>1. D = {}
  <2> SUFFICES ASSUME D # {} PROVE FALSE
    OBVIOUS
  <2>1. D \subseteq Nat
    OBVIOUS
  <2>2. PICK n \in D : \A m \in D : n <= m
    <3> HIDE DEF D
    <3> QED BY <2>1, LeastNatural
  <2>3. n # 0
    <3>1. Lays([i \in 1..0 |-> 0], s, 0)
      BY DEF Lays
    <3> QED BY <3>1
  <2>4. n - 1 \in 0..Len(s) /\ n - 1 \notin D /\ n \in Nat \ {0}
    BY <2>2, <2>3
  <2>5. PICK f : Lays(f, s, n - 1)
    BY <2>4
  <2> DEFINE g == [i \in 1..n |-> IF i = 1 THEN s[i] ELSE f[i - 1] \o s[i]]
  <2>6. ASSUME NEW i \in 1..n, i # n
        PROVE  g[i] = f[i]
    <3>1. i \in 1..(n - 1)
      BY <2>4, <2>6
    <3> QED BY <2>5, <3>1 DEF Lays
  <2>7. \A i \in 1..n : i # 1 => i - 1 \in 1..n /\ i - 1 # n
    BY <2>4
  <2>8. Lays(g, s, n)
    <3>1. \A i \in 1..n : i # 1 => g[i - 1] = f[i - 1]
      <4> HIDE DEF g
      <4> QED BY <2>6, <2>7
    <3>2. \A i \in 1..n : g[i] = IF i = 1 THEN s[i] ELSE g[i - 1] \o s[i]
      <4>1. \A i \in 1..n : g[i] = IF i = 1 THEN s[i] ELSE f[i - 1] \o s[i]
        OBVIOUS
      <4> HIDE DEF g
      <4> QED BY <3>1, <4>1
    <3>3. g = [i \in 1..n |-> g[i]]
      OBVIOUS
    <3> HIDE DEF g
    <3> QED BY <3>2, <3>3 DEF Lays
  <2> HIDE DEF g
  <2> QED BY <2>4, <2>8
<1> QED BY <1>1

(* FlattenSeq lays all of them.                                            *)
LEMMA FlattenLays ==
  ASSUME NEW s, Len(s) \in Nat, Len(s) # 0
  PROVE  \E f : Lays(f, s, Len(s)) /\ FlattenSeq(s) = f[Len(s)]
<1> DEFINE f == CHOOSE f : f = [i \in 1..Len(s) |-> IF i = 1 THEN s[i] ELSE f[i - 1] \o s[i]]
<1>1. Lays(f, s, Len(s))
  BY LaysExists DEF Lays
<1>2. FlattenSeq(s) = f[Len(s)]
  BY DEF FlattenSeq
<1> HIDE DEF f
<1> QED BY <1>1, <1>2

(* What is laid depends on the parts that are laid only.                   *)
LEMMA LaysSame ==
  ASSUME NEW s, NEW t, Len(s) \in Nat, Len(t) \in Nat, Len(t) <= Len(s),
         \A i \in 1..Len(t) : t[i] = s[i],
         NEW f, Lays(f, s, Len(s)), NEW g, Lays(g, t, Len(t))
  PROVE  \A i \in 1..Len(t) : g[i] = f[i]
<1> DEFINE D == {i \in 1..Len(t) : g[i] # f[i]}
<1> SUFFICES ASSUME D # {} PROVE FALSE
  OBVIOUS
<1>1. PICK n \in D : \A m \in D : n <= m
  <2>1. D \subseteq Nat
    OBVIOUS
  <2> HIDE DEF D
  <2> QED BY <2>1, LeastNatural
<1>2. /\ n \in 1..Len(t) /\ n \in 1..Len(s) /\ t[n] = s[n]
      /\ g[n] = IF n = 1 THEN t[n] ELSE g[n - 1] \o t[n]
      /\ f[n] = IF n = 1 THEN s[n] ELSE f[n - 1] \o s[n]
  <2>1. n \in 1..Len(t)
    OBVIOUS
  <2>2. n \in 1..Len(s) /\ t[n] = s[n]
    BY <2>1
  <2>3. g[n] = IF n = 1 THEN t[n] ELSE g[n - 1] \o t[n]
    BY ONLY <2>1, Lays(g, t, Len(t)) DEF Lays
  <2>4. f[n] = IF n = 1 THEN s[n] ELSE f[n - 1] \o s[n]
    BY ONLY <2>2, Lays(f, s, Len(s)) DEF Lays
  <2> QED BY <2>1, <2>2, <2>3, <2>4
<1>3. n # 1
  BY <1>2
<1>4. n - 1 \in 1..Len(t) /\ n - 1 \notin D
  BY <1>1, <1>3
<1>5. g[n - 1] = f[n - 1]
  BY <1>4
<1>6. g[n] # f[n]
  OBVIOUS
<1> QED BY <1>2, <1>3, <1>5, <1>6

(* FlattenSeq of the first i parts: one part more makes it longer by it.   *)
LEMMA FlattenStep ==
  ASSUME NEW S, NEW s \in Seq(Seq(S)), NEW i \in 1..Len(s)
  PROVE  FlattenSeq(SubSeq(s, 1, i)) = FlattenSeq(SubSeq(s, 1, i - 1)) \o s[i]
<1> DEFINE t == SubSeq(s, 1, i)
           u == SubSeq(s, 1, i - 1)
<1>1. i \in Nat /\ i - 1 \in Nat /\ Len(s) \in Nat /\ i <= Len(s)
  OBVIOUS
<1>2. /\ Len(t) = i /\ \A j \in 1..i : t[j] = s[j]
      /\ Len(u) = i - 1 /\ \A j \in 1..(i - 1) : u[j] = s[j]
  BY <1>1
<1>3. u = <<>> \/ i # 1
  BY <1>1
<1> HIDE DEF t, u
<1>4. PICK f : Lays(f, t, i) /\ FlattenSeq(t) = f[i]
  <2>1. Len(t) \in Nat /\ Len(t) # 0
    BY <1>1, <1>2
  <2>2. \E f : Lays(f, t, Len(t)) /\ FlattenSeq(t) = f[Len(t)]
    BY <2>1, FlattenLays
  <2> QED BY <1>2, <2>2
<1>5. f[i] = IF i = 1 THEN t[i] ELSE f[i - 1] \o t[i]
  <2>1. i \in 1..i
    BY <1>1
  <2> QED BY <1>4, <2>1 DEF Lays
<1>6. t[i] = s[i]
  BY <1>1, <1>2
<1>7. CASE i = 1
  <2>1. u = <<>>
    BY <1>1, <1>2, <1>7 DEF u
  <2>2. FlattenSeq(u) = <<>>
    BY <2>1 DEF FlattenSeq
  <2>3. s[i] \in Seq(S)
    OBVIOUS
  <2>4. <<>> \o s[i] = s[i]
    BY <2>3
  <2> QED BY <1>4, <1>5, <1>6, <1>7, <2>2, <2>4 DEF t, u
<1>8. CASE i # 1
  <2>1. PICK g : Lays(g, u, i - 1) /\ FlattenSeq(u) = g[i - 1]
    <3>1. Len(u) \in Nat /\ Len(u) # 0
      BY <1>1, <1>2, <1>8
    <3>2. \E g : Lays(g, u, Len(u)) /\ FlattenSeq(u) = g[Len(u)]
      BY <3>1, FlattenLays
    <3> QED BY <1>2, <3>2
  <2>2. \A j \in 1..(i - 1) : g[j] = f[j]
    <3>1. \A j \in 1..(i - 1) : j \in 1..i
      BY <1>1
    <3>2. /\ Len(t) \in Nat /\ Len(u) \in Nat /\ Len(u) <= Len(t)
          /\ \A j \in 1..Len(u) : u[j] = t[j]
      <4>1. Len(t) \in Nat /\ Len(u) \in Nat /\ Len(u) <= Len(t)
        BY <1>1, <1>2
      <4>2. \A j \in 1..(i - 1) : u[j] = t[j]
        BY <1>2, <3>1
      <4> QED BY <1>2, <4>1, <4>2
    <3>3. Lays(f, t, Len(t)) /\ Lays(g, u, Len(u))
      BY <1>2, <1>4, <2>1
    <3>4. \A j \in 1..Len(u) : g[j] = f[j]
      BY ONLY <3>2, <3>3, LaysSame
    <3> QED BY <1>2, <3>4
  <2>3. i - 1 \in 1..(i - 1)
    BY <1>1, <1>8
  <2>4. FlattenSeq(u) = f[i - 1]
    BY <2>1, <2>2, <2>3
  <2> QED BY <1>4, <1>5, <1>6, <1>8, <2>4 DEF t, u
<1> QED BY <1>7, <1>8

(* Of no parts nothing is made.                                            *)
LEMMA FlattenNone ==
  ASSUME NEW S, NEW s \in Seq(Seq(S))
  PROVE  FlattenSeq(SubSeq(s, 1, 0)) = <<>> /\ FlattenSeq(SubSeq(s, 1, Len(s))) = FlattenSeq(s)
<1>1. SubSeq(s, 1, 0) = <<>> /\ SubSeq(s, 1, Len(s)) = s
  OBVIOUS
<1>2. FlattenSeq(<<>>) = <<>>
  BY DEF FlattenSeq
<1> QED BY <1>1, <1>2

(* Where a part begins, and that the first n parts lie one behind the      *)
(* other, with nothing else.                                               *)
FirstParts(s, n) == FlattenSeq(SubSeq(s, 1, n))
Ahead(s, i) == Len(FirstParts(s, i - 1))

LaidOut(S, s, n) ==
  /\ FirstParts(s, n) \in Seq(S)
  /\ \A i \in 1..n : Ahead(s, i) \in Nat
  /\ \A i \in 1..n : Ahead(s, i) + Len(s[i]) <= Len(FirstParts(s, n))
  /\ \A i \in 1..n : \A x \in 1..Len(s[i]) : FirstParts(s, n)[Ahead(s, i) + x] = s[i][x]
  /\ \A i, j \in 1..n : i < j => Ahead(s, i) + Len(s[i]) <= Ahead(s, j)
  /\ \A y \in 1..Len(FirstParts(s, n)) :
       \E i \in 1..n : \E x \in 1..Len(s[i]) : y = Ahead(s, i) + x

(* The parts, one behind the other, and nothing else.                      *)
LEMMA Flattened ==
  ASSUME NEW S, NEW s \in Seq(Seq(S))
  PROVE  /\ FlattenSeq(s) \in Seq(S)
         /\ \A i \in 1..Len(s) : Ahead(s, i) \in Nat
         /\ \A i \in 1..Len(s) : Ahead(s, i) + Len(s[i]) <= Len(FlattenSeq(s))
         /\ \A i \in 1..Len(s) : \A x \in 1..Len(s[i]) :
              FlattenSeq(s)[Ahead(s, i) + x] = s[i][x]
         /\ \A i, j \in 1..Len(s) : i < j => Ahead(s, i) + Len(s[i]) <= Ahead(s, j)
         /\ \A y \in 1..Len(FlattenSeq(s)) :
              \E i \in 1..Len(s) : \E x \in 1..Len(s[i]) : y = Ahead(s, i) + x
<1> DEFINE F(n) == FirstParts(s, n)
           N == Len(s)
           Right(n) == LaidOut(S, s, n)
           D == {n \in 0..N : ~ Right(n)}
<1>1. F(0) = <<>> /\ F(N) = FlattenSeq(s) /\ N \in Nat
  BY FlattenNone DEF FirstParts
<1>2. \A i \in 1..N : F(i) = F(i - 1) \o s[i] /\ s[i] \in Seq(S)
  <2>1. ASSUME NEW i \in 1..Len(s)
        PROVE  FirstParts(s, i) = FirstParts(s, i - 1) \o s[i] /\ s[i] \in Seq(S)
    <3>1. FlattenSeq(SubSeq(s, 1, i)) = FlattenSeq(SubSeq(s, 1, i - 1)) \o s[i]
      BY FlattenStep
    <3>2. s[i] \in Seq(S)
      OBVIOUS
    <3> QED BY <3>1, <3>2 DEF FirstParts
  <2> QED BY <2>1
<1> HIDE DEF F, N
<1>3. Right(0)
  <2>1. PICK x : x = F(0)
    OBVIOUS
  <2>2. x = <<>> /\ x = FirstParts(s, 0)
    BY <1>1, <2>1 DEF F
  <2>3. 1..0 = {} /\ 1..Len(x) = {} /\ x \in Seq(S)
    BY ONLY <2>2
  <2> QED BY <2>2, <2>3 DEF LaidOut
<1>4. ASSUME NEW n \in 1..N, Right(n - 1)
      PROVE  Right(n)
  <2>1. PICK m \in Nat : m = n - 1
    BY <1>1
  <2>2. n = m + 1 /\ n \in Nat
    BY <1>1, <2>1
  <2>3. PICK old, part, all : old = F(m) /\ part = s[n] /\ all = F(n)
    OBVIOUS
  <2>4. /\ old \in Seq(S) /\ part \in Seq(S) /\ all = old \o part
    BY <1>2, <1>4, <2>1, <2>3 DEF LaidOut, F
  <2>5. /\ Len(old) \in Nat /\ Len(part) \in Nat
        /\ all \in Seq(S) /\ Len(all) = Len(old) + Len(part)
        /\ \A y \in 1..Len(old) : all[y] = old[y]
        /\ \A y \in 1..Len(part) : all[Len(old) + y] = part[y]
    BY <2>4
  <2>6. \A i \in 1..n : i = n \/ i \in 1..m
    BY <2>2
  <2>7. ASSUME NEW i \in 1..m
        PROVE  /\ Ahead(s, i) \in Nat
               /\ Ahead(s, i) + Len(s[i]) <= Len(old)
               /\ \A x \in 1..Len(s[i]) : old[Ahead(s, i) + x] = s[i][x]
               /\ Len(s[i]) \in Nat
    <3>1. i \in 1..N
      BY <1>1, <2>2
    <3>2. Len(s[i]) \in Nat
      BY <1>2, <3>1
    <3> QED BY <1>4, <2>1, <2>3, <3>2 DEF LaidOut, F
  <2>8. F(n - 1) = old
    BY <2>1, <2>3
  <2>a. F(n) \in Seq(S)
    BY <2>3, <2>5
  <2>b. \A i \in 1..n : Ahead(s, i) \in Nat
    BY <2>5, <2>6, <2>7, <2>8 DEF Ahead, F
  <2>c. \A i \in 1..n : Ahead(s, i) + Len(s[i]) <= Len(F(n))
    <3> SUFFICES ASSUME NEW i \in 1..n PROVE Ahead(s, i) + Len(s[i]) <= Len(all)
      BY <2>3
    <3>1. CASE i = n
      BY <2>3, <2>5, <2>8, <3>1 DEF Ahead, F
    <3>2. CASE i \in 1..m
      <4>1. Ahead(s, i) \in Nat /\ Ahead(s, i) + Len(s[i]) <= Len(old) /\ Len(s[i]) \in Nat
        BY <2>7, <3>2
      <4> QED BY <2>5, <4>1
    <3> QED BY <2>6, <3>1, <3>2
  <2>d. \A i \in 1..n : \A x \in 1..Len(s[i]) : F(n)[Ahead(s, i) + x] = s[i][x]
    <3> SUFFICES ASSUME NEW i \in 1..n, NEW x \in 1..Len(s[i])
                 PROVE  all[Ahead(s, i) + x] = s[i][x]
      BY <2>3
    <3>1. CASE i = n
      BY <2>3, <2>5, <2>8, <3>1 DEF Ahead, F
    <3>2. CASE i \in 1..m
      <4>1. PICK a : a = Ahead(s, i)
        OBVIOUS
      <4>2. /\ a \in Nat /\ a + Len(s[i]) <= Len(old) /\ Len(s[i]) \in Nat
            /\ old[a + x] = s[i][x]
        BY <2>7, <3>2, <4>1
      <4>3. a + x \in 1..Len(old)
        BY <2>5, <4>2
      <4> QED BY <2>5, <4>1, <4>2, <4>3
    <3> QED BY <2>6, <3>1, <3>2
  <2>e. \A i, j \in 1..n : i < j => Ahead(s, i) + Len(s[i]) <= Ahead(s, j)
    <3> SUFFICES ASSUME NEW i \in 1..n, NEW j \in 1..n, i < j
                 PROVE  Ahead(s, i) + Len(s[i]) <= Ahead(s, j)
      OBVIOUS
    <3>1. i \in 1..m
      BY <2>2
    <3>2. CASE j = n
      BY <2>7, <2>8, <3>1, <3>2 DEF Ahead, F
    <3>3. CASE j \in 1..m
      BY <1>4, <2>1, <3>1, <3>3 DEF LaidOut, F
    <3> QED BY <2>6, <3>2, <3>3
  <2>f. \A y \in 1..Len(F(n)) :
          \E i \in 1..n : \E x \in 1..Len(s[i]) : y = Ahead(s, i) + x
    <3> SUFFICES ASSUME NEW y \in 1..Len(all)
                 PROVE  \E i \in 1..n : \E x \in 1..Len(s[i]) : y = Ahead(s, i) + x
      BY <2>3
    <3>1. CASE y \in 1..Len(old)
      <4>1. \E i \in 1..m : \E x \in 1..Len(s[i]) : y = Ahead(s, i) + x
        BY <1>4, <2>1, <2>3, <3>1 DEF LaidOut, F
      <4>2. \A i \in 1..m : i \in 1..n
        BY <2>2
      <4> QED BY <4>1, <4>2
    <3>2. CASE y \notin 1..Len(old)
      <4>1. y - Len(old) \in 1..Len(part) /\ y = Len(old) + (y - Len(old)) /\ n \in 1..n
        BY <2>2, <2>5, <3>2
      <4> QED BY <2>3, <2>8, <4>1 DEF Ahead, F
    <3> QED BY <3>1, <3>2
  <2> QED BY <2>a, <2>b, <2>c, <2>d, <2>e, <2>f DEF LaidOut, F
<1>5. Right(N)
  <2>1. CASE D = {}
    BY <1>1, <2>1
  <2>2. CASE D # {}
    <3>1. D \subseteq Nat
      <4> HIDE DEF Right
      <4> QED BY <1>1
    <3>2. PICK n \in D : \A m \in D : n <= m
      <4> HIDE DEF D
      <4> QED BY <2>2, <3>1, LeastNatural
    <3> HIDE DEF Right
    <3>3. n \in 0..N /\ ~ Right(n) /\ n # 0
      BY <1>3, <3>2
    <3>4. n \in 1..N /\ n - 1 \in 0..N /\ ~ (n <= n - 1)
      BY <1>1, <3>3
    <3>5. Right(n - 1)
      BY <3>2, <3>4
    <3> QED BY <1>4, <3>3, <3>4, <3>5
  <2> QED BY <2>1, <2>2
<1> HIDE DEF D
<1> QED BY <1>1, <1>5 DEF F, N, LaidOut

-----------------------------------------------------------------------------
(* Terms, with distances instead of node numbers.                          *)

Cells == Seq(Cell)
Child(t, n, i) == n + t[n].kids[i]
KidKinds(t, n, S) == \A i \in DOMAIN t[n].kids : t[Child(t, n, i)].kind \in S

NodeOK(node) ==
  node.kind \in T!NodeKinds /\ node.type \in T!WrittenType /\ node.params \in Seq(T!Param)

Counted(kind, k) ==
  /\ kind \in {"LITERAL", "IDENT", "TUPLE"} => k = 0
  /\ kind \in {"DECL_VAR", "UNOP", "EXIT"} => k = 1
  /\ kind = "BINOP" => k = 2
  /\ kind = "IF" => k \in 2..3
  /\ kind = "CALL" => k # 0

(* What a node's children may be; any kind of node below no node.          *)
Takes(kind) ==
  CASE kind = "PROGRAM" -> {"DECL_VAR", "DECL_FUNC"}
    [] kind \in {"DECL_FUNC", "BLOCK"} -> T!ExprKinds \cup {"DECL_VAR"}
    [] OTHER -> T!ExprKinds

OnlyParent(t, m, n, i) ==
  /\ Child(t, n, i) = m
  /\ \A o \in DOMAIN t : \A j \in DOMAIN t[o].kids : Child(t, o, j) = m => o = n /\ j = i

Sound(t) ==
  /\ t \in Cells /\ t # <<>>
  /\ \A n \in DOMAIN t : NodeOK(t[n])
  /\ \A n \in DOMAIN t : \A i \in DOMAIN t[n].kids : t[n].kids[i] \in 1..(Len(t) - n)
  /\ \A n \in DOMAIN t : Counted(t[n].kind, Len(t[n].kids))
  /\ \A n \in DOMAIN t : KidKinds(t, n, Takes(t[n].kind))
  /\ \A m \in 2..Len(t) : \E n \in DOMAIN t : \E i \in DOMAIN t[n].kids : OnlyParent(t, m, n, i)

Marked(t) == \E n \in DOMAIN t : t[n].op = "["

-----------------------------------------------------------------------------
Spot(kids, i, x) == 1 + Ahead(kids, i) + x

(* A place in a term belongs to one node of one kid.                       *)
LEMMA SpotsDiffer ==
  ASSUME NEW kids \in Seq(Cells), NEW i \in 1..Len(kids), NEW j \in 1..Len(kids),
         NEW x \in 1..Len(kids[i]), NEW y \in 1..Len(kids[j]),
         Spot(kids, i, x) = Spot(kids, j, y)
  PROVE  i = j /\ x = y
<1>1. /\ \A k \in 1..Len(kids) : Ahead(kids, k) \in Nat
      /\ \A k, l \in 1..Len(kids) : k < l => Ahead(kids, k) + Len(kids[k]) <= Ahead(kids, l)
  BY Flattened DEF Cells
<1>2. PICK a, b : a = Ahead(kids, i) /\ b = Ahead(kids, j)
  OBVIOUS
<1>3. a \in Nat /\ b \in Nat /\ (i < j => a + Len(kids[i]) <= b) /\ (j < i => b + Len(kids[j]) <= a)
  BY <1>1, <1>2
<1>4. kids[i] \in Cells /\ kids[j] \in Cells
  OBVIOUS
<1>5. Len(kids[i]) \in Nat /\ Len(kids[j]) \in Nat
  BY <1>4 DEF Cells
<1>6. a + x = b + y
  <2>1. x \in Int /\ y \in Int
    BY <1>5
  <2>2. 1 + a + x = 1 + b + y
    BY <1>2 DEF Spot
  <2> QED BY ONLY <1>3, <2>1, <2>2
<1>7. i = j
  BY <1>3, <1>5, <1>6
<1>8. x = y
  BY <1>2, <1>3, <1>5, <1>6, <1>7
<1> QED BY <1>7, <1>8

RootOf(kind, name, op, val, type, params, kids) ==
  [kind |-> kind, name |-> name, op |-> op, val |-> val, type |-> type,
   params |-> params, kids |-> [i \in DOMAIN kids |-> 1 + Ahead(kids, i)]]

TermLies(t, root, kids) ==
  /\ t \in Cells /\ 1 \in DOMAIN t /\ t[1] = root
  /\ Len(root.kids) = Len(kids) /\ \A i \in 1..Len(kids) : root.kids[i] = 1 + Ahead(kids, i)
  /\ \A i \in 1..Len(kids) : \A x \in 1..Len(kids[i]) :
       Spot(kids, i, x) \in 2..Len(t) /\ t[Spot(kids, i, x)] = kids[i][x]
  /\ \A y \in 2..Len(t) :
       \E i \in 1..Len(kids) : \E x \in 1..Len(kids[i]) : y = Spot(kids, i, x)

(* The root of a term lies in front, its kids one behind the other.        *)
LEMMA TermLaid ==
  ASSUME NEW kind \in Kinds, NEW name \in Lexemes, NEW op \in T!NodeOps, NEW val \in Nat,
         NEW type \in T!Type, NEW params \in Params, NEW kids \in Seq(Cells)
  PROVE  LET root == RootOf(kind, name, op, val, type, params, kids)
             t == Term(kind, name, op, val, type, params, kids)
         IN  root \in Cell /\ TermLies(t, root, kids)
<1> DEFINE root == RootOf(kind, name, op, val, type, params, kids)
           t == Term(kind, name, op, val, type, params, kids)
<1>1. t = <<root>> \o FlattenSeq(kids)
  BY DEF Term, RootOf, Ahead, FirstParts
<1>2. /\ FlattenSeq(kids) \in Cells
      /\ \A i \in 1..Len(kids) : Ahead(kids, i) \in Nat
      /\ \A i \in 1..Len(kids) : Ahead(kids, i) + Len(kids[i]) <= Len(FlattenSeq(kids))
      /\ \A i \in 1..Len(kids) : \A x \in 1..Len(kids[i]) :
           FlattenSeq(kids)[Ahead(kids, i) + x] = kids[i][x]
      /\ \A y \in 1..Len(FlattenSeq(kids)) :
           \E i \in 1..Len(kids) : \E x \in 1..Len(kids[i]) : y = Ahead(kids, i) + x
  <2>1. kids \in Seq(Seq(Cell))
    BY DEF Cells
  <2> QED BY <2>1, Flattened DEF Cells
<1>3. DOMAIN kids = 1..Len(kids) /\ Len(kids) \in Nat
  OBVIOUS
<1>4. root.kids \in Seq(Nat) /\ Len(root.kids) = Len(kids)
      /\ \A i \in 1..Len(kids) : root.kids[i] = 1 + Ahead(kids, i)
  <2>1. root.kids = [i \in 1..Len(kids) |-> 1 + Ahead(kids, i)]
    BY <1>3 DEF RootOf
  <2> QED BY <1>2, <1>3, <2>1
<1>5. root \in Cell
  BY <1>4 DEF RootOf, Cell
<1>6. PICK flat : flat = FlattenSeq(kids)
  OBVIOUS
<1> HIDE DEF root, t
<1>7. /\ flat \in Seq(Cell) /\ t \in Seq(Cell) /\ Len(t) = 1 + Len(flat) /\ t[1] = root
      /\ Len(flat) \in Nat
      /\ \A y \in 1..Len(flat) : t[1 + y] = flat[y]
  <2>1. flat \in Seq(Cell)
    BY <1>2, <1>6 DEF Cells
  <2> QED BY <1>1, <1>5, <1>6, <2>1
<1>8. ASSUME NEW i \in 1..Len(kids), NEW x \in 1..Len(kids[i])
      PROVE  Spot(kids, i, x) \in 2..Len(t) /\ t[Spot(kids, i, x)] = kids[i][x]
  <2>1. PICK a : a = Ahead(kids, i)
    OBVIOUS
  <2>2. a \in Nat /\ a + Len(kids[i]) <= Len(flat) /\ flat[a + x] = kids[i][x]
    BY <1>2, <1>6, <2>1
  <2>3. kids[i] \in Cells
    OBVIOUS
  <2>4. Len(kids[i]) \in Nat
    BY <2>3 DEF Cells
  <2>5. a + x \in 1..Len(flat)
    BY <1>7, <2>2, <2>4
  <2>6. t[1 + (a + x)] = kids[i][x] /\ 1 + (a + x) \in 2..Len(t) /\ 1 + (a + x) = 1 + a + x
    BY <1>7, <2>2, <2>5
  <2> QED BY <2>1, <2>6 DEF Spot
<1>9. ASSUME NEW y \in 2..Len(t)
      PROVE  \E i \in 1..Len(kids) : \E x \in 1..Len(kids[i]) : y = Spot(kids, i, x)
  <2>1. y - 1 \in 1..Len(flat) /\ y \in Nat
    BY <1>7
  <2>2. PICK i \in 1..Len(kids) : \E x \in 1..Len(kids[i]) : y - 1 = Ahead(kids, i) + x
    BY <1>2, <1>6, <2>1
  <2>x. PICK x \in 1..Len(kids[i]) : y - 1 = Ahead(kids, i) + x
    BY <2>2
  <2>3. Ahead(kids, i) \in Nat /\ x \in Int
    BY <1>2
  <2>4. y = 1 + Ahead(kids, i) + x
    BY <2>1, <2>x, <2>3
  <2> QED BY <2>4 DEF Spot
<1>a. t \in Cells /\ 1 \in DOMAIN t
  BY <1>7 DEF Cells
<1>b. TermLies(t, root, kids)
  BY <1>4, <1>7, <1>8, <1>9, <1>a DEF TermLies
<1> QED BY <1>5, <1>b DEF root, t

-----------------------------------------------------------------------------
(* A term of sound kids that its kind may have is sound.                   *)

(* A node of a kid has the same kids in the term, and they are in it.      *)
LEMMA InnerNodes ==
  ASSUME NEW kids \in Seq(Cells), NEW root, NEW t, TermLies(t, root, kids),
         \A i \in 1..Len(kids) : Sound(kids[i]),
         NEW i \in 1..Len(kids), NEW x \in 1..Len(kids[i])
  PROVE  LET n == Spot(kids, i, x) IN
         /\ n \in 2..Len(t) /\ n \in DOMAIN t /\ t[n] = kids[i][x]
         /\ DOMAIN t[n].kids = DOMAIN kids[i][x].kids
         /\ \A k \in DOMAIN t[n].kids :
              /\ t[n].kids[k] \in 1..(Len(t) - n)
              /\ Child(kids[i], x, k) \in 1..Len(kids[i]) /\ Child(kids[i], x, k) > x
              /\ Child(t, n, k) = Spot(kids, i, Child(kids[i], x, k))
<1>1. PICK n : n = Spot(kids, i, x)
  OBVIOUS
<1>2. n \in 2..Len(t) /\ t[n] = kids[i][x]
  BY <1>1 DEF TermLies
<1>3. t \in Cells /\ Len(t) \in Nat /\ n \in DOMAIN t
  BY <1>2 DEF TermLies, Cells
<1>4. PICK a : a = Ahead(kids, i)
  OBVIOUS
<1>5. a \in Nat
  BY <1>4, Flattened DEF Cells
<1>6. Sound(kids[i]) /\ kids[i] \in Cells
  OBVIOUS
<1>7. Len(kids[i]) \in Nat /\ DOMAIN kids[i] = 1..Len(kids[i])
  BY <1>6 DEF Cells
<1>8. ASSUME NEW k \in DOMAIN t[n].kids
      PROVE  /\ t[n].kids[k] \in 1..(Len(t) - n)
             /\ Child(kids[i], x, k) \in 1..Len(kids[i]) /\ Child(kids[i], x, k) > x
             /\ Child(t, n, k) = Spot(kids, i, Child(kids[i], x, k))
  <2>1. PICK d : d = kids[i][x].kids[k]
    OBVIOUS
  <2>2. d \in 1..(Len(kids[i]) - x) /\ t[n].kids[k] = d
    BY <1>2, <1>6, <1>7, <2>1 DEF Sound
  <2>3. x + d \in 1..Len(kids[i]) /\ x + d > x /\ x \in Nat /\ d \in Nat
    BY <1>7, <2>2
  <2>4. Child(kids[i], x, k) = x + d
    BY <2>1 DEF Child
  <2>5. n = 1 + a + x /\ Spot(kids, i, x + d) = 1 + a + (x + d)
    BY <1>1, <1>4 DEF Spot
  <2>6. Spot(kids, i, x + d) \in 2..Len(t)
    BY <2>3 DEF TermLies
  <2>7. n + d = Spot(kids, i, x + d) /\ d \in 1..(Len(t) - n)
    BY ONLY <1>2, <1>3, <1>5, <2>2, <2>3, <2>5, <2>6
  <2>8. Child(t, n, k) = n + d
    BY <2>2 DEF Child
  <2> QED BY <2>2, <2>3, <2>4, <2>7, <2>8
<1> QED BY <1>1, <1>2, <1>3, <1>8

KidsFit(kind, kids) ==
  /\ Counted(kind, Len(kids))
  /\ \A i \in 1..Len(kids) : Sound(kids[i]) /\ kids[i][1].kind \in Takes(kind)

-----------------------------------------------------------------------------
(* Terms of sound kids.                                                    *)

(* A node of a term is its root, or it is a node of one of its kids.       *)
LEMMA WhereNodesLie ==
  ASSUME NEW kids, NEW root, NEW t, TermLies(t, root, kids), NEW n \in DOMAIN t
  PROVE  \/ n = 1
         \/ n # 1 /\ \E i \in 1..Len(kids) : \E x \in 1..Len(kids[i]) : n = Spot(kids, i, x)
<1>1. t \in Seq(Cell)
  BY DEF TermLies, Cells
<1>2. n = 1 \/ n \in 2..Len(t)
  BY <1>1
<1>3. CASE n \in 2..Len(t)
  <2>1. \E i \in 1..Len(kids) : \E x \in 1..Len(kids[i]) : n = Spot(kids, i, x)
    BY <1>3 DEF TermLies
  <2>2. n # 1
    BY <1>1, <1>3
  <2> QED BY <2>1, <2>2
<1> QED BY <1>2, <1>3

(* The kids of the root are the roots of the kids.                         *)
LEMMA RootsKids ==
  ASSUME NEW kids \in Seq(Cells), NEW root \in Cell, NEW t, TermLies(t, root, kids),
         \A i \in 1..Len(kids) : Sound(kids[i]),
         NEW i \in DOMAIN t[1].kids
  PROVE  /\ i \in 1..Len(kids) /\ 1 \in 1..Len(kids[i])
         /\ Child(t, 1, i) = Spot(kids, i, 1)
         /\ t[1].kids[i] \in 1..(Len(t) - 1)
<1>1. root.kids \in Seq(Nat)
  BY DEF Cell
<1>2. i \in 1..Len(kids) /\ t[1] = root /\ root.kids[i] = 1 + Ahead(kids, i)
  <2>1. t[1] = root
    BY DEF TermLies
  <2>2. i \in 1..Len(root.kids)
    BY <1>1, <2>1
  <2>3. i \in 1..Len(kids)
    BY <2>2 DEF TermLies
  <2> QED BY <2>1, <2>3 DEF TermLies
<1>3. kids[i] \in Seq(Cell) /\ kids[i] # <<>>
  BY <1>2 DEF Sound, Cells
<1>4. 1 \in 1..Len(kids[i])
  BY <1>3
<1>5. Ahead(kids, i) \in Nat
  BY <1>2, Flattened DEF Cells
<1>6. Spot(kids, i, 1) \in 2..Len(t)
  BY <1>2, <1>4 DEF TermLies
<1>7. PICK a : a = Ahead(kids, i)
  OBVIOUS
<1>8. Spot(kids, i, 1) = 1 + a + 1 /\ Child(t, 1, i) = 1 + (1 + a)
  BY <1>2, <1>7 DEF Spot, Child
<1>9. t \in Seq(Cell)
  BY DEF TermLies, Cells
<1>a. Len(t) \in Nat
  BY <1>9
<1> QED BY <1>2, <1>4, <1>5, <1>6, <1>7, <1>8, <1>a

(* A term of sound kids that its kind may have is sound.                   *)
LEMMA SoundAsLaid ==
  ASSUME NEW kids \in Seq(Cells), NEW root \in Cell, NEW t, TermLies(t, root, kids),
         NodeOK(root), KidsFit(root.kind, kids)
  PROVE  Sound(t)
<1>1. /\ t \in Cells /\ t # <<>> /\ t[1] = root /\ 1 \in DOMAIN t
  <2>1. t \in Cells /\ t[1] = root /\ 1 \in DOMAIN t
    BY DEF TermLies
  <2> QED BY <2>1
<1>2. \A i \in 1..Len(kids) : Sound(kids[i])
  BY DEF KidsFit
<1>3. \A i \in 1..Len(kids) : kids[i] \in Cells /\ DOMAIN kids[i] = 1..Len(kids[i])
  BY <1>2 DEF Sound, Cells
<1>4. ASSUME NEW n \in DOMAIN t
      PROVE  /\ NodeOK(t[n])
             /\ \A i \in DOMAIN t[n].kids : t[n].kids[i] \in 1..(Len(t) - n)
             /\ Counted(t[n].kind, Len(t[n].kids))
             /\ KidKinds(t, n, Takes(t[n].kind))
  <2>1. CASE n = 1
    <3>1. NodeOK(t[n])
      BY <1>1, <2>1
    <3>2. \A i \in DOMAIN t[n].kids : t[n].kids[i] \in 1..(Len(t) - n)
      BY <1>2, <2>1, RootsKids
    <3>3. Len(root.kids) = Len(kids)
      BY DEF TermLies
    <3>4. Counted(t[n].kind, Len(t[n].kids))
      BY <1>1, <2>1, <3>3 DEF KidsFit
    <3>5. ASSUME NEW i \in DOMAIN t[1].kids
          PROVE  t[Child(t, 1, i)].kind \in Takes(root.kind)
      <4>1. i \in 1..Len(kids) /\ 1 \in 1..Len(kids[i]) /\ Child(t, 1, i) = Spot(kids, i, 1)
        BY <1>2, RootsKids
      <4>2. t[Spot(kids, i, 1)] = kids[i][1]
        BY <4>1 DEF TermLies
      <4>3. kids[i][1].kind \in Takes(root.kind)
        BY <4>1 DEF KidsFit
      <4> QED BY <4>1, <4>2, <4>3
    <3>6. KidKinds(t, n, Takes(t[n].kind))
      BY <1>1, <2>1, <3>5 DEF KidKinds
    <3> QED BY <3>1, <3>2, <3>4, <3>6
  <2>2. CASE n # 1
    <3>1. PICK i \in 1..Len(kids) : \E x \in 1..Len(kids[i]) : n = Spot(kids, i, x)
      BY <2>2, WhereNodesLie
    <3>2. PICK x \in 1..Len(kids[i]) : n = Spot(kids, i, x)
      BY <3>1
    <3>3. /\ t[n] = kids[i][x]
          /\ \A k \in DOMAIN t[n].kids :
               /\ t[n].kids[k] \in 1..(Len(t) - n)
               /\ Child(kids[i], x, k) \in 1..Len(kids[i])
               /\ Child(t, n, k) = Spot(kids, i, Child(kids[i], x, k))
      BY <1>2, <3>2, InnerNodes
    <3>4. /\ NodeOK(kids[i][x])
          /\ Counted(kids[i][x].kind, Len(kids[i][x].kids))
          /\ KidKinds(kids[i], x, Takes(kids[i][x].kind))
      <4>1. Sound(kids[i]) /\ x \in DOMAIN kids[i]
        BY <1>2, <1>3
      <4> QED BY <4>1 DEF Sound
    <3>5. ASSUME NEW k \in DOMAIN t[n].kids
          PROVE  t[Child(t, n, k)].kind \in Takes(t[n].kind)
      <4>1. PICK y \in 1..Len(kids[i]) : y = Child(kids[i], x, k)
        BY <3>3
      <4>2. t[Spot(kids, i, y)] = kids[i][y]
        BY DEF TermLies
      <4>3. kids[i][y].kind \in Takes(t[n].kind)
        BY <3>3, <3>4, <4>1 DEF KidKinds
      <4>4. Child(t, n, k) = Spot(kids, i, y)
        BY <3>3, <4>1
      <4> QED BY <4>2, <4>3, <4>4
    <3>6. KidKinds(t, n, Takes(t[n].kind))
      BY <3>5 DEF KidKinds
    <3> QED BY <3>3, <3>4, <3>6
  <2> QED BY <2>1, <2>2
<1>5. ASSUME NEW m \in 2..Len(t)
      PROVE  \E n \in DOMAIN t : \E i \in DOMAIN t[n].kids : OnlyParent(t, m, n, i)
  <2>1. PICK i \in 1..Len(kids) : \E x \in 1..Len(kids[i]) : m = Spot(kids, i, x)
    BY DEF TermLies
  <2>2. PICK x \in 1..Len(kids[i]) : m = Spot(kids, i, x)
    BY <2>1
  <2>3. i \in DOMAIN t[1].kids
    <3>1. root.kids \in Seq(Nat) /\ Len(root.kids) = Len(kids)
      BY DEF Cell, TermLies
    <3> QED BY <1>1, <3>1
  (* Whoever has m as a child: the root, or a node of the same part.       *)
  <2>4. ASSUME NEW o \in DOMAIN t, NEW j \in DOMAIN t[o].kids, Child(t, o, j) = m, o = 1
        PROVE  j = i /\ x = 1
    <3>1. j \in 1..Len(kids) /\ 1 \in 1..Len(kids[j]) /\ Child(t, 1, j) = Spot(kids, j, 1)
      BY <1>2, <2>4, RootsKids
    <3> QED BY <2>2, <2>4, <3>1, SpotsDiffer
  <2>5. ASSUME NEW o \in DOMAIN t, NEW j \in DOMAIN t[o].kids, Child(t, o, j) = m, o # 1
        PROVE  \E y \in 1..Len(kids[i]) :
                 /\ o = Spot(kids, i, y) /\ j \in DOMAIN kids[i][y].kids
                 /\ Child(kids[i], y, j) = x /\ x > y
    <3>1. PICK h \in 1..Len(kids) : \E y \in 1..Len(kids[h]) : o = Spot(kids, h, y)
      BY <2>5, WhereNodesLie
    <3>2. PICK y \in 1..Len(kids[h]) : o = Spot(kids, h, y)
      BY <3>1
    <3>3. /\ j \in DOMAIN kids[h][y].kids
          /\ Child(kids[h], y, j) \in 1..Len(kids[h]) /\ Child(kids[h], y, j) > y
          /\ Child(t, o, j) = Spot(kids, h, Child(kids[h], y, j))
      BY <1>2, <3>2, InnerNodes
    <3>4. h = i /\ Child(kids[h], y, j) = x
      <4>1. PICK d \in 1..Len(kids[h]) : d = Child(kids[h], y, j)
        BY <3>3
      <4>2. Spot(kids, i, x) = Spot(kids, h, d)
        BY <2>2, <2>5, <3>3, <4>1
      <4>3. i = h /\ x = d
        BY ONLY kids \in Seq(Cells), i \in 1..Len(kids), h \in 1..Len(kids),
                x \in 1..Len(kids[i]), d \in 1..Len(kids[h]), <4>2, SpotsDiffer
      <4> QED BY <4>1, <4>3
    <3> QED BY <3>2, <3>3, <3>4
  <2>6. CASE x = 1
    <3>1. Child(t, 1, i) = Spot(kids, i, 1)
      BY <1>2, <2>3, RootsKids
    <3>2. ASSUME NEW o \in DOMAIN t, NEW j \in DOMAIN t[o].kids, Child(t, o, j) = m
          PROVE  o = 1 /\ j = i
      <4>1. CASE o = 1
        BY <2>4, <3>2, <4>1
      <4>2. CASE o # 1
        <5>1. PICK y \in 1..Len(kids[i]) : x > y
          BY <2>5, <3>2, <4>2
        <5> QED BY <2>6, <5>1
      <4> QED BY <4>1, <4>2
    <3>3. OnlyParent(t, m, 1, i)
      BY <2>2, <2>6, <3>1, <3>2 DEF OnlyParent
    <3> QED BY <1>1, <2>3, <3>3
  <2>7. CASE x # 1
    <3>1. x \in 2..Len(kids[i])
      <4>1. kids[i] \in Seq(Cell)
        BY <1>3 DEF Cells
      <4> QED BY <2>7, <4>1
    <3>2. PICK y \in DOMAIN kids[i] : \E k \in DOMAIN kids[i][y].kids : OnlyParent(kids[i], x, y, k)
      BY <1>2, <3>1 DEF Sound
    <3>3. PICK k \in DOMAIN kids[i][y].kids : OnlyParent(kids[i], x, y, k)
      BY <3>2
    <3>4. y \in 1..Len(kids[i])
      BY <1>3
    <3>5. PICK n : n = Spot(kids, i, y)
      OBVIOUS
    <3>6. n \in DOMAIN t /\ k \in DOMAIN t[n].kids
          /\ Child(t, n, k) = Spot(kids, i, Child(kids[i], y, k))
      BY <1>2, <3>4, <3>5, InnerNodes
    <3>7. Child(kids[i], y, k) = x
      BY <3>3 DEF OnlyParent
    <3>8. ASSUME NEW o \in DOMAIN t, NEW j \in DOMAIN t[o].kids, Child(t, o, j) = m
          PROVE  o = n /\ j = k
      <4>1. CASE o = 1
        BY <2>4, <2>7, <3>8, <4>1
      <4>2. CASE o # 1
        <5>1. PICK z \in 1..Len(kids[i]) :
                /\ o = Spot(kids, i, z) /\ j \in DOMAIN kids[i][z].kids
                /\ Child(kids[i], z, j) = x
          BY <2>5, <3>8, <4>2
        <5>2. z \in DOMAIN kids[i]
          BY <1>3
        <5>3. z = y /\ j = k
          BY <3>3, <5>1, <5>2 DEF OnlyParent
        <5> QED BY <3>5, <5>1, <5>3
      <4> QED BY <4>1, <4>2
    <3>9. OnlyParent(t, m, n, k)
      BY <2>2, <3>6, <3>7, <3>8 DEF OnlyParent
    <3> QED BY <3>6, <3>9
  <2> QED BY <2>6, <2>7
<1> QED BY <1>1, <1>4, <1>5 DEF Sound

(* It has the operator '[' where its root or a kid has it.                 *)
LEMMA MarkedAsLaid ==
  ASSUME NEW kids, NEW root, NEW t, TermLies(t, root, kids)
  PROVE  Marked(t) <=> root.op = "[" \/ \E i \in 1..Len(kids) : \E x \in 1..Len(kids[i]) : kids[i][x].op = "["
<1>1. ASSUME Marked(t), root.op # "["
      PROVE  \E i \in 1..Len(kids) : \E x \in 1..Len(kids[i]) : kids[i][x].op = "["
  <2>1. PICK n \in DOMAIN t : t[n].op = "["
    BY <1>1 DEF Marked
  <2>2. n # 1
    BY <1>1, <2>1 DEF TermLies
  <2>3. PICK i \in 1..Len(kids) : \E x \in 1..Len(kids[i]) : n = Spot(kids, i, x)
    BY <2>2, WhereNodesLie
  <2>4. PICK x \in 1..Len(kids[i]) : n = Spot(kids, i, x)
    BY <2>3
  <2>5. t[n] = kids[i][x]
    BY <2>4 DEF TermLies
  <2> QED BY <2>1, <2>5
<1>2. ASSUME root.op = "["
      PROVE  Marked(t)
  BY <1>2 DEF Marked, TermLies
<1>3. ASSUME NEW i \in 1..Len(kids), NEW x \in 1..Len(kids[i]), kids[i][x].op = "["
      PROVE  Marked(t)
  <2>1. Spot(kids, i, x) \in 2..Len(t) /\ t[Spot(kids, i, x)] = kids[i][x] /\ t \in Seq(Cell)
    BY DEF TermLies, Cells
  <2>2. Spot(kids, i, x) \in DOMAIN t
    BY <2>1
  <2> QED BY <1>3, <2>1, <2>2 DEF Marked
<1> QED BY <1>1, <1>2, <1>3

SomeMarked(kids) == \E i \in 1..Len(kids) : Marked(kids[i])

(* Term makes terms of terms, sound or not.                                *)
LEMMA TermTyped ==
  ASSUME NEW kind \in Kinds, NEW name \in Lexemes, NEW op \in T!NodeOps, NEW val \in Nat,
         NEW type \in T!Type, NEW params \in Params, NEW kids \in Seq(Cells),
         NEW t, t = Term(kind, name, op, val, type, params, kids)
  PROVE  t \in Cells
<1>1. TermLies(t, RootOf(kind, name, op, val, type, params, kids), kids)
  BY TermLaid
<1> QED BY <1>1 DEF TermLies

(* Term makes a sound term of the kids its kind may have.                  *)
LEMMA TermSound ==
  ASSUME NEW kind \in T!NodeKinds, NEW name \in Lexemes, NEW op \in T!NodeOps, NEW val \in Nat,
         NEW type \in T!WrittenType, NEW params \in Seq(T!Param), NEW kids \in Seq(Cells),
         KidsFit(kind, kids),
         NEW t, t = Term(kind, name, op, val, type, params, kids)
  PROVE  /\ Sound(t) /\ t[1].kind = kind
         /\ Marked(t) <=> op = "[" \/ SomeMarked(kids)
<1>1. PICK root : root = RootOf(kind, name, op, val, type, params, kids)
  OBVIOUS
<1>2. kind \in Kinds /\ type \in T!Type /\ params \in Params
  <2>1. kind \in Kinds /\ type \in T!Type
    BY DEF Kinds, T!WrittenType
  <2>2. T!Param \subseteq [name : Lexemes, type : T!Type]
    BY DEF T!Param, T!WrittenType
  <2> QED BY <2>1, <2>2, SeqMonotonic DEF Params
<1>3. root \in Cell /\ TermLies(t, root, kids)
  <2>1. \A kd \in Kinds, ty \in T!Type, pa \in Params :
          LET r == RootOf(kd, name, op, val, ty, pa, kids)
              u == Term(kd, name, op, val, ty, pa, kids)
          IN  r \in Cell /\ TermLies(u, r, kids)
    BY TermLaid
  <2> QED BY <1>1, <1>2, <2>1
<1>4. root.kind = kind /\ root.type = type /\ root.params = params /\ root.op = op
  BY <1>1 DEF RootOf
<1>5. NodeOK(root)
  BY <1>4 DEF NodeOK
<1>6. Sound(t)
  BY <1>3, <1>4, <1>5, SoundAsLaid
<1>7. t[1].kind = kind
  BY <1>3, <1>4 DEF TermLies
<1>8. \A i \in 1..Len(kids) : DOMAIN kids[i] = 1..Len(kids[i])
  <2>1. \A i \in 1..Len(kids) : kids[i] \in Seq(Cell)
    BY DEF Cells
  <2> QED BY <2>1
<1>9. Marked(t) <=> op = "[" \/ SomeMarked(kids)
  <2>1. Marked(t) <=> root.op = "[" \/ \E i \in 1..Len(kids) : \E x \in 1..Len(kids[i]) : kids[i][x].op = "["
    BY <1>3, MarkedAsLaid
  <2>2. SomeMarked(kids) <=> \E i \in 1..Len(kids) : \E x \in 1..Len(kids[i]) : kids[i][x].op = "["
    BY <1>8 DEF SomeMarked, Marked
  <2> QED BY <1>4, <2>1, <2>2
<1> QED BY <1>6, <1>7, <1>9

(* The operator '[' in its operand's node.                                 *)
LEMMA OverwrittenSound ==
  ASSUME NEW t, Sound(t)
  PROVE  /\ Sound(Overwritten(t)) /\ Overwritten(t)[1].kind = t[1].kind
         /\ Marked(Overwritten(t))
<1>1. PICK u : u = Overwritten(t)
  OBVIOUS
<1>2. t \in Seq(Cell) /\ t # <<>> /\ 1 \in DOMAIN t
  BY DEF Sound, Cells
<1>3. "[" \in T!NodeOps
  BY DEF T!NodeOps
<1>4. [t[1] EXCEPT !.op = "["] \in Cell
  <2>1. t[1] \in Cell
    BY <1>2
  <2> QED BY <1>3, <2>1 DEF Cell
<1>5. /\ u \in Seq(Cell) /\ Len(u) = Len(t) /\ DOMAIN u = DOMAIN t
      /\ u[1] = [t[1] EXCEPT !.op = "["]
      /\ \A n \in DOMAIN t : n # 1 => u[n] = t[n]
  <2>1. u = [t EXCEPT ![1] = [t[1] EXCEPT !.op = "["]]
    BY <1>1 DEF Overwritten
  <2> HIDE DEF Cell
  <2> QED BY <1>2, <1>4, <2>1
<1>6. ASSUME NEW n \in DOMAIN t
      PROVE  u[n].kind = t[n].kind /\ u[n].type = t[n].type /\ u[n].params = t[n].params
             /\ u[n].kids = t[n].kids
  <2>1. CASE n = 1
    <3>1. t[1] \in Cell
      BY <1>2
    <3> QED BY <1>5, <2>1, <3>1 DEF Cell
  <2>2. CASE n # 1
    BY <1>5, <2>2
  <2> QED BY <2>1, <2>2
<1>7. \A n \in DOMAIN t : \A k : Child(u, n, k) = Child(t, n, k)
  BY <1>6 DEF Child
<1>8. u \in Cells /\ u # <<>>
  BY <1>2, <1>5 DEF Cells
<1>9. ASSUME NEW n \in DOMAIN u
      PROVE  /\ NodeOK(u[n])
             /\ \A i \in DOMAIN u[n].kids : u[n].kids[i] \in 1..(Len(u) - n)
             /\ Counted(u[n].kind, Len(u[n].kids))
             /\ KidKinds(u, n, Takes(u[n].kind))
  <2>1. n \in DOMAIN t
    BY <1>5
  <2>2. NodeOK(t[n]) /\ Counted(t[n].kind, Len(t[n].kids))
    BY <2>1 DEF Sound
  <2>3. NodeOK(u[n]) /\ Counted(u[n].kind, Len(u[n].kids))
    BY <1>6, <2>1, <2>2 DEF NodeOK
  <2>4. \A i \in DOMAIN t[n].kids : t[n].kids[i] \in 1..(Len(t) - n)
    BY <2>1 DEF Sound
  <2>5. KidKinds(t, n, Takes(t[n].kind))
    BY <2>1 DEF Sound
  <2>6. ASSUME NEW i \in DOMAIN t[n].kids
        PROVE  u[Child(u, n, i)].kind \in Takes(t[n].kind)
    <3>1. Child(t, n, i) \in DOMAIN t
      <4>1. t[n].kids[i] \in 1..(Len(t) - n) /\ n \in 1..Len(t) /\ Len(t) \in Nat
        BY <1>2, <2>1, <2>4
      <4>2. n + t[n].kids[i] \in 1..Len(t)
        BY <4>1
      <4> QED BY <1>2, <4>2 DEF Child
    <3>2. t[Child(t, n, i)].kind \in Takes(t[n].kind)
      BY <2>5 DEF KidKinds
    <3> QED BY <1>6, <1>7, <2>1, <3>1, <3>2
  <2>7. KidKinds(u, n, Takes(u[n].kind))
    BY <1>6, <2>1, <2>6 DEF KidKinds
  <2> QED BY <1>5, <1>6, <2>1, <2>3, <2>4, <2>7
<1>a. ASSUME NEW m \in 2..Len(u)
      PROVE  \E n \in DOMAIN u : \E i \in DOMAIN u[n].kids : OnlyParent(u, m, n, i)
  <2>1. PICK n \in DOMAIN t : \E i \in DOMAIN t[n].kids : OnlyParent(t, m, n, i)
    BY <1>5 DEF Sound
  <2>2. PICK i \in DOMAIN t[n].kids : OnlyParent(t, m, n, i)
    BY <2>1
  <2>3. OnlyParent(u, m, n, i)
    BY <1>5, <1>6, <1>7, <2>2 DEF OnlyParent
  <2> QED BY <1>5, <1>6, <2>2, <2>3
<1>b. Sound(u)
  BY <1>8, <1>9, <1>a DEF Sound
<1>c. u[1].op = "["
  <2>1. t[1] \in Cell
    BY <1>2
  <2> QED BY <1>5, <2>1 DEF Cell
<1>d. Marked(u)
  BY <1>2, <1>5, <1>c DEF Marked
<1> QED BY <1>1, <1>2, <1>6, <1>b, <1>d

-----------------------------------------------------------------------------
(* Trees of the later passes.                                              *)

(* With node numbers in place of the distances, a sound term of a program  *)
(* is a tree the later passes can work on.                                 *)
LEMMA SoundIsWellFormed ==
  ASSUME NEW t, Sound(t), t[1].kind = "PROGRAM"
  PROVE  /\ T!WellFormed(Table(t))
         /\ Marked(t) <=> \E n \in DOMAIN t : t[n].op = "["
<1>1. PICK a : a = Table(t)
  OBVIOUS
<1>2. t \in Seq(Cell) /\ t # <<>> /\ Len(t) \in Nat /\ DOMAIN t = 1..Len(t)
  BY DEF Sound, Cells
<1>3. a = [n \in 1..Len(t) |-> [t[n] EXCEPT !.kids = [i \in DOMAIN t[n].kids |-> n + t[n].kids[i]]]]
  BY <1>1, <1>2 DEF Table
<1>4. ASSUME NEW n \in 1..Len(t)
      PROVE  /\ a[n].kids \in Seq((n + 1)..Len(t)) /\ DOMAIN a[n].kids = DOMAIN t[n].kids
             /\ Len(a[n].kids) = Len(t[n].kids) /\ a[n].kids \in Seq(Nat)
             /\ \A i \in DOMAIN t[n].kids : a[n].kids[i] = Child(t, n, i) /\ Child(t, n, i) \in 1..Len(t)
             /\ a[n].kind = t[n].kind /\ a[n] \in T!Node
  <2>1. t[n] \in Cell /\ NodeOK(t[n]) /\ \A i \in DOMAIN t[n].kids : t[n].kids[i] \in 1..(Len(t) - n)
    BY <1>2 DEF Sound
  <2>2. PICK k : k = t[n].kids
    OBVIOUS
  <2>3. k \in Seq(Nat) /\ \A i \in 1..Len(k) : k[i] \in 1..(Len(t) - n)
    <3>1. k \in Seq(Nat)
      BY <2>1, <2>2 DEF Cell
    <3> QED BY <2>1, <2>2, <3>1
  <2>4. PICK l : l = [i \in 1..Len(k) |-> n + k[i]]
    OBVIOUS
  <2>5. \A i \in 1..Len(k) : n + k[i] \in (n + 1)..Len(t) /\ n + k[i] \in Nat /\ n + k[i] \in 1..Len(t)
    BY <1>2, <2>3
  <2>6. l \in Seq((n + 1)..Len(t)) /\ Len(l) = Len(k) /\ l \in Seq(Nat) /\ DOMAIN l = 1..Len(k)
    BY <2>3, <2>4, <2>5
  <2>7. PICK c \in Cell : c = t[n]
    BY <2>1
  <2>a. a[n] = [c EXCEPT !.kids = l]
    <3>1. a[n] = [t[n] EXCEPT !.kids = [i \in DOMAIN t[n].kids |-> n + t[n].kids[i]]]
      BY <1>3
    <3>2. DOMAIN k = 1..Len(k)
      BY <2>3
    <3>3. l = [i \in DOMAIN t[n].kids |-> n + t[n].kids[i]]
      BY <2>2, <2>4, <3>2
    <3> QED BY ONLY <2>7, <3>1, <3>3
  <2>b. a[n] = [kind |-> c.kind, name |-> c.name, op |-> c.op, val |-> c.val, type |-> c.type,
                params |-> c.params, kids |-> l]
    BY ONLY <2>a, c \in Cell DEF Cell
  <2>c. /\ c.kind \in T!NodeKinds /\ c.name \in Lexemes /\ c.op \in T!NodeOps /\ c.val \in Int
        /\ c.type \in T!WrittenType /\ c.params \in Seq(T!Param)
    BY <2>1, <2>7 DEF Cell, NodeOK
  <2>8. a[n].kids = l /\ a[n].kind = t[n].kind /\ a[n] \in T!Node
    BY ONLY <2>6, <2>7, <2>b, <2>c DEF T!Node
  <2>9. \A i \in 1..Len(k) : l[i] = Child(t, n, i) /\ Child(t, n, i) \in 1..Len(t)
    BY <2>2, <2>4, <2>5 DEF Child
  <2> QED BY <2>2, <2>3, <2>6, <2>8, <2>9
<1>5. a \in Seq(T!Node) /\ Len(a) = Len(t) /\ a # <<>> /\ DOMAIN a = 1..Len(t)
  <2>1. \A n \in 1..Len(t) : a[n] \in T!Node
    BY <1>4
  <2>2. a = [n \in 1..Len(t) |-> a[n]]
    BY <1>3
  <2> HIDE DEF T!Node
  <2>3. a \in [1..Len(t) -> T!Node]
    BY <2>1, <2>2
  <2> QED BY <1>2, <2>3
<1>6. a[1].kind = "PROGRAM"
  BY <1>2, <1>4
<1>7. ASSUME NEW n \in 1..Len(t)
      PROVE  T!Shape(a, n)
  <2>1. Counted(t[n].kind, Len(t[n].kids)) /\ KidKinds(t, n, Takes(t[n].kind))
    BY <1>2 DEF Sound
  <2>2. Len(a[n].kids) = Len(t[n].kids) /\ a[n].kids \in Seq(Nat) /\ a[n].kind = t[n].kind
    BY <1>4
  <2>3. Counted(a[n].kind, Len(a[n].kids))
    BY <2>1, <2>2
  <2>4. \A i \in DOMAIN a[n].kids : a[a[n].kids[i]].kind \in Takes(a[n].kind)
    <3>1. ASSUME NEW i \in DOMAIN a[n].kids
          PROVE  a[a[n].kids[i]].kind \in Takes(a[n].kind)
      <4>1. i \in DOMAIN t[n].kids /\ a[n].kids[i] = Child(t, n, i) /\ Child(t, n, i) \in 1..Len(t)
        BY <1>4
      <4>2. t[Child(t, n, i)].kind \in Takes(t[n].kind)
        BY <2>1, <4>1 DEF KidKinds
      <4>3. a[Child(t, n, i)].kind = t[Child(t, n, i)].kind
        BY <1>4, <4>1
      <4> QED BY <2>2, <4>1, <4>2, <4>3
    <3> QED BY <3>1
  <2>5. Len(a[n].kids) = 0 => a[n].kids = <<>>
    BY <2>2
  <2>6. Len(a[n].kids) # 0 => a[n].kids # <<>>
    BY <2>2
  <2> QED BY <2>3, <2>4, <2>5, <2>6 DEF T!Shape, Counted, Takes
<1>8. T!SingleParents(a)
  <2>1. ASSUME NEW m \in 2..Len(a)
        PROVE  \E n \in DOMAIN a : \E i \in DOMAIN a[n].kids :
                 /\ a[n].kids[i] = m
                 /\ \A o \in DOMAIN a : \A j \in DOMAIN a[o].kids :
                      a[o].kids[j] = m => o = n /\ j = i
    <3>1. PICK n \in DOMAIN t : \E i \in DOMAIN t[n].kids : OnlyParent(t, m, n, i)
      BY <1>5 DEF Sound
    <3>2. PICK i \in DOMAIN t[n].kids : OnlyParent(t, m, n, i)
      BY <3>1
    <3>3. n \in DOMAIN a /\ i \in DOMAIN a[n].kids /\ a[n].kids[i] = m
      BY <1>2, <1>4, <1>5, <3>2 DEF OnlyParent
    <3>4. ASSUME NEW o \in DOMAIN a, NEW j \in DOMAIN a[o].kids, a[o].kids[j] = m
          PROVE  o = n /\ j = i
      <4>1. o \in DOMAIN t /\ j \in DOMAIN t[o].kids /\ Child(t, o, j) = m
        BY <1>2, <1>4, <1>5, <3>4
      <4> QED BY <3>2, <4>1 DEF OnlyParent
    <3> QED BY <3>3, <3>4
  <2> QED BY <2>1 DEF T!SingleParents
<1>9. T!WellFormed(a)
  BY <1>4, <1>5, <1>6, <1>7, <1>8 DEF T!WellFormed
<1> QED BY <1>1, <1>9 DEF Marked

(* A node without kids.                                                    *)
LeafKinds == {"LITERAL", "IDENT", "TUPLE"}

(* A node without kids is a term, garbage and NULL are.                    *)
LEMMA LeafTyped ==
  ASSUME NEW kind \in Kinds, NEW name \in Lexemes, NEW op \in T!NodeOps, NEW val \in Nat,
         NEW t, t = Leaf(kind, name, op, val)
  PROVE  t \in Cells
<1>1. none \in T!Type
  BY DEF none, A!NoType, T!Type, Lexemes
<1>2. PICK e : e = <<>>
  OBVIOUS
<1>3. e \in Seq(Cells) /\ e \in Params
  BY <1>2, EmptySeq DEF Params
<1>4. t = Term(kind, name, op, val, none, e, e)
  BY <1>2 DEF Leaf
<1> QED BY <1>1, <1>3, <1>4, TermTyped

(* A literal, a name and the unit value are sound.                         *)
LEMMA LeafSound ==
  ASSUME NEW kind \in LeafKinds, NEW name \in Lexemes, NEW op \in T!NodeOps, op # "[",
         NEW val \in Nat, NEW t, t = Leaf(kind, name, op, val)
  PROVE  Sound(t) /\ t[1].kind = kind /\ kind \in T!ExprKinds /\ ~ Marked(t)
<1>1. kind \in T!NodeKinds /\ kind \in T!ExprKinds
  BY DEF LeafKinds, T!NodeKinds, T!ExprKinds
<1>2. none \in T!WrittenType
  BY DEF none, A!NoType, T!WrittenType, T!Type, Lexemes
<1>3. PICK e : e = <<>>
  OBVIOUS
<1>4. e \in Seq(Cells) /\ e \in Seq(T!Param)
  BY <1>3, EmptySeq
<1>5. Len(e) = 0 /\ 1..Len(e) = {}
  BY <1>3, <1>4
<1>6. t = Term(kind, name, op, val, none, e, e)
  BY <1>3 DEF Leaf
<1>7. KidsFit(kind, e)
  BY <1>5 DEF KidsFit, Counted, LeafKinds
<1>8. ~ SomeMarked(e)
  BY <1>5 DEF SomeMarked
<1> HIDE DEF LeafKinds
<1>9. Sound(t) /\ t[1].kind = kind
  BY <1>1, <1>2, <1>4, <1>6, <1>7, TermSound
<1>a. Marked(t) <=> op = "[" \/ SomeMarked(e)
  BY <1>1, <1>2, <1>4, <1>6, <1>7, TermSound
<1> QED BY <1>1, <1>8, <1>9, <1>a

-----------------------------------------------------------------------------
(* How the lookahead moves.                                                *)

Legal(q) ==
  /\ q \in [pos : 1..(Len(source) + 1), items : Nat, errors : Seq(Message), warnings : Seq(Message)]
  /\ Len(q.errors) <= MaxErrors /\ Len(q.warnings) <= MaxErrors

Unmarked(i, j) == \A k \in i..(j - 1) : source[k] # "["

Moves(a, b) ==
  /\ Legal(b) /\ b.items = a.items /\ b.warnings = a.warnings /\ a.pos <= b.pos
  /\ b.errors = <<>> => a.errors = <<>> /\ Unmarked(a.pos, b.pos)

(* The lookahead is a lexeme, and behind the last token it is TOK_EOF.     *)
LEMMA WhatIsThere ==
  ASSUME source \in Seq(Delivered), NEW q, Legal(q)
  PROVE  /\ Lexeme(q) \in Lexemes
         /\ q.pos <= Len(source) => Lexeme(q) = source[q.pos]
         /\ Kind(q) = "[" <=> Lexeme(q) = "["
         /\ Kind(q) = "[" => q.pos <= Len(source)
         /\ Kind(q) = "EOF" => q.pos = Len(source) + 1
         /\ Kind(q) = "INT" => Value[Lexeme(q)] \in Nat
<1>1. q.pos \in 1..(Len(source) + 1) /\ Len(source) \in Nat
  BY DEF Legal
<1>2. PICK l : l = Lexeme(q)
  OBVIOUS
<1>3. (q.pos <= Len(source) /\ l = source[q.pos] /\ l \in Delivered) \/ (q.pos = Len(source) + 1 /\ l = "EOF")
  BY <1>1, <1>2 DEF Lexeme
<1>4. /\ l \in Idents => Kind(q) = "IDENT"
      /\ l \in DOMAIN Value => Kind(q) = "INT"
      /\ l \notin Idents /\ l \notin DOMAIN Value => Kind(q) = l
  <2>1. ~ (l \in Idents /\ l \in DOMAIN Value)
    BY SourcesAssumption
  <2> QED BY <1>2, <2>1 DEF Kind
<1>5. /\ "[" \in Reserved /\ "INT" \notin Reserved /\ "EOF" \notin Reserved
  BY DEF Reserved, Prefix, Infix, Words, Marks, Inert
<1>6. \A x : x \in Idents \/ x \in DOMAIN Value => x \notin Reserved /\ x # "EOF"
  BY SourcesAssumption
<1>7. l \in Lexemes
  BY <1>3 DEF Lexemes
<1>8. Kind(q) = "[" <=> l = "["
  BY <1>4, <1>5, <1>6
<1>9. Kind(q) = "EOF" => q.pos = Len(source) + 1
  BY <1>3, <1>4, <1>5, <1>6 DEF Delivered
<1>a. Kind(q) = "INT" => Value[l] \in Nat
  <2>1. \A i \in DOMAIN Value : Value[i] \in Nat
    BY SourcesAssumption
  <2>2. Kind(q) = "INT" => l \in DOMAIN Value
    BY <1>3, <1>4, <1>5 DEF Delivered
  <2> QED BY <2>1, <2>2
<1>b. Kind(q) = "[" => q.pos <= Len(source)
  BY <1>3, <1>8
<1> QED BY <1>1, <1>2, <1>3, <1>7, <1>8, <1>9, <1>a, <1>b

(* p_next goes one token ahead, or stays at the end.                       *)
LEMMA Read ==
  ASSUME source \in Seq(Delivered), NEW q, Legal(q), NEW r, r = p_next(q)
  PROVE  /\ Legal(r) /\ r.items = q.items /\ r.warnings = q.warnings /\ r.errors = q.errors
         /\ q.pos <= r.pos /\ r.pos <= q.pos + 1
         /\ q.pos <= Len(source) => r.pos = q.pos + 1
         /\ q.pos = Len(source) + 1 => r.pos = q.pos
<1>1. q.pos \in 1..(Len(source) + 1) /\ Len(source) \in Nat
  BY DEF Legal
<1>2. r = [q EXCEPT !.pos = IF q.pos > Len(source) THEN q.pos ELSE q.pos + 1]
  BY DEF p_next
<1>3. PICK n : n = IF q.pos > Len(source) THEN q.pos ELSE q.pos + 1
  OBVIOUS
<1>4. /\ n \in 1..(Len(source) + 1) /\ q.pos <= n /\ n <= q.pos + 1
      /\ q.pos <= Len(source) => n = q.pos + 1
      /\ q.pos = Len(source) + 1 => n = q.pos
  BY <1>1, <1>3
<1>5. r = [q EXCEPT !.pos = n]
  BY <1>2, <1>3
<1>6. Legal(r) /\ r.items = q.items /\ r.warnings = q.warnings /\ r.errors = q.errors /\ r.pos = n
  BY <1>4, <1>5 DEF Legal
<1> QED BY <1>4, <1>6

(* Not to read anything is to go on properly,                              *)
LEMMA MovesSelf ==
  ASSUME source \in Seq(Delivered), NEW q, Legal(q)
  PROVE  Moves(q, q)
<1>1. q.pos \in Nat /\ q.pos <= q.pos
  BY DEF Legal
<1>2. Unmarked(q.pos, q.pos)
  BY <1>1 DEF Unmarked
<1> QED BY <1>1, <1>2 DEF Moves

(* and so is one move behind another,                                      *)
LEMMA MovesOn ==
  ASSUME source \in Seq(Delivered), NEW a, Legal(a), NEW b, Moves(a, b), NEW c, Moves(b, c)
  PROVE  Moves(a, c)
<1>1. a.pos \in Nat /\ b.pos \in Nat /\ c.pos \in Nat
  BY DEF Moves, Legal
<1>2. a.pos <= b.pos /\ b.pos <= c.pos
  BY DEF Moves
<1>3. c.errors = <<>> => a.errors = <<>> /\ Unmarked(a.pos, b.pos) /\ Unmarked(b.pos, c.pos)
  BY DEF Moves
<1>4. Unmarked(a.pos, b.pos) /\ Unmarked(b.pos, c.pos) => Unmarked(a.pos, c.pos)
  BY <1>1, <1>2 DEF Unmarked
<1>5. a.pos <= c.pos
  BY <1>1, <1>2
<1>6. Legal(c) /\ c.items = a.items /\ c.warnings = a.warnings
  BY DEF Moves
<1> QED BY <1>3, <1>4, <1>5, <1>6 DEF Moves

(* to read a token other than '[',                                         *)
LEMMA MovesNext ==
  ASSUME source \in Seq(Delivered), NEW q, Legal(q), Kind(q) # "["
  PROVE  Moves(q, p_next(q))
<1>1. PICK r : r = p_next(q)
  OBVIOUS
<1>2. /\ Legal(r) /\ r.items = q.items /\ r.warnings = q.warnings /\ r.errors = q.errors
      /\ q.pos <= r.pos /\ r.pos <= q.pos + 1
      /\ q.pos = Len(source) + 1 => r.pos = q.pos
  BY <1>1, Read
<1>3. /\ q.pos \in Nat /\ r.pos \in Nat /\ q.pos <= Len(source) + 1 /\ Len(source) \in Nat
  BY <1>2 DEF Legal
<1>4. q.pos <= Len(source) => source[q.pos] # "["
  BY WhatIsThere
<1>5. Unmarked(q.pos, r.pos)
  <2> SUFFICES ASSUME NEW k \in q.pos..(r.pos - 1) PROVE source[k] # "["
    BY DEF Unmarked
  <2>1. k = q.pos /\ q.pos <= Len(source)
    BY <1>2, <1>3
  <2> QED BY <1>4, <2>1
<1> QED BY <1>1, <1>2, <1>5 DEF Moves

(* A report is in the buffer, unless that is full.                         *)
LEMMA Reported ==
  ASSUME NEW buffer \in Seq(Message), Len(buffer) <= MaxErrors, NEW m \in Message
  PROVE  /\ Report(buffer, m) \in Seq(Message) /\ Len(Report(buffer, m)) <= MaxErrors
         /\ Report(buffer, m) # <<>>
         /\ \A i \in DOMAIN Report(buffer, m) : \/ Report(buffer, m)[i] = m
                                                \/ (i \in DOMAIN buffer /\ Report(buffer, m)[i] = buffer[i])
<1>1. MaxErrors \in Nat /\ MaxErrors # 0 /\ Len(buffer) \in Nat
  BY MaxErrorsAssumption
<1>2. CASE Len(buffer) >= MaxErrors
  <2>1. Report(buffer, m) = buffer /\ buffer # <<>>
    BY <1>1, <1>2 DEF Report
  <2> QED BY <2>1
<1>3. CASE ~ (Len(buffer) >= MaxErrors)
  <2> HIDE DEF Message
  <2>1. PICK r : r = Append(buffer, m)
    OBVIOUS
  <2>2. Report(buffer, m) = r
    BY <1>3, <2>1 DEF Report
  <2>x. PICK S : S = Message
    OBVIOUS
  <2>y. buffer \in Seq(S) /\ m \in S
    BY <2>x
  <2>3. /\ r \in Seq(S) /\ Len(r) = Len(buffer) + 1
        /\ \A i \in 1..Len(r) : r[i] = m \/ (i \in DOMAIN buffer /\ r[i] = buffer[i])
    BY ONLY <2>1, <2>y
  <2>4. r # <<>> /\ Len(r) <= MaxErrors /\ DOMAIN r = 1..Len(r)
    BY <1>1, <1>3, <2>3
  <2> QED BY <2>x, <2>2, <2>3, <2>4
<1> QED BY <1>2, <1>3

(* An error that is reported does not move the lookahead.                  *)
LEMMA Refused ==
  ASSUME source \in Seq(Delivered), NEW q, Legal(q), NEW m \in Message
  PROVE  /\ Moves(q, Refuse(q, m)) /\ Legal(Refuse(q, m)) /\ Refuse(q, m).errors # <<>>
         /\ Refuse(q, m).pos = q.pos /\ Refuse(q, m).items = q.items
         /\ Refuse(q, m).warnings = q.warnings
<1>1. PICK e : e = Report(q.errors, m)
  OBVIOUS
<1>2. e \in Seq(Message) /\ Len(e) <= MaxErrors /\ e # <<>>
  <2>1. q.errors \in Seq(Message) /\ Len(q.errors) <= MaxErrors
    BY DEF Legal
  <2> QED BY <1>1, <2>1, Reported
<1>3. PICK r : r = [q EXCEPT !.errors = e]
  OBVIOUS
<1>4. Legal(r) /\ r.pos = q.pos /\ r.items = q.items /\ r.warnings = q.warnings /\ r.errors = e
  <2> HIDE DEF Message
  <2> QED BY <1>2, <1>3 DEF Legal
<1>5. q.pos <= r.pos
  <2>1. q.pos \in Nat
    BY DEF Legal
  <2> QED BY <1>4, <2>1
<1>6. Refuse(q, m) = r
  BY <1>1, <1>3 DEF Refuse
<1> QED BY <1>2, <1>4, <1>5, <1>6 DEF Moves

(* p_consume, whether it finds its token or not,                           *)
LEMMA MovesConsume ==
  ASSUME source \in Seq(Delivered), NEW q, Legal(q), NEW type, type # "["
  PROVE  Moves(q, p_consume(q, type))
<1>1. Static("Expected ...") \in Message
  BY DEF Static, Message, Texts, ParserTexts
<1>2. PICK e : e = Static("Expected ...")
  OBVIOUS
<1>3. p_consume(q, type) \in {p_next(q), q, Refuse(q, e)} /\ (Kind(q) # type => p_consume(q, type) \in {q, Refuse(q, e)})
  BY <1>2 DEF p_consume
<1>4. Moves(q, q) /\ Moves(q, Refuse(q, e))
  BY <1>1, <1>2, MovesSelf, Refused
<1>5. CASE Kind(q) = type
  <2>1. Moves(q, p_next(q))
    BY <1>5, MovesNext
  <2> QED BY <1>3, <1>4, <2>1
<1>6. CASE Kind(q) # type
  BY <1>3, <1>4, <1>6
<1> QED BY <1>5, <1>6

-----------------------------------------------------------------------------
(* parseType and growableArrayPush.                                        *)

(* parseType gets behind the asterisks,                                    *)
LEMMA StarsEnd ==
  ASSUME source \in Seq(Delivered), NEW q, Legal(q)
  PROVE  \E i \in q.pos..(Len(source) + 1) :
           /\ Kind([q EXCEPT !.pos = i]) # "*"
           /\ \A j \in q.pos..(i - 1) : source[j] = "*"
<1> DEFINE D == {i \in q.pos..(Len(source) + 1) : Kind([q EXCEPT !.pos = i]) # "*"}
<1>1. q.pos \in Nat /\ Len(source) \in Nat /\ q.pos <= Len(source) + 1 /\ q.pos >= 1
  BY DEF Legal
<1>2. \A i \in q.pos..(Len(source) + 1) :
        LET l == IF i <= Len(source) THEN source[i] ELSE "EOF" IN
        /\ Lexeme([q EXCEPT !.pos = i]) = l
        /\ Kind([q EXCEPT !.pos = i]) \in {"IDENT", "INT", l}
  <2>1. ASSUME NEW i \in q.pos..(Len(source) + 1)
        PROVE  Lexeme([q EXCEPT !.pos = i]) = IF i <= Len(source) THEN source[i] ELSE "EOF"
    BY DEF Lexeme, Legal
  <2>2. ASSUME NEW r
        PROVE  Kind(r) \in {"IDENT", "INT", Lexeme(r)}
    BY DEF Kind
  <2> QED BY <2>1, <2>2
<1>3. D # {}
  <2>1. Len(source) + 1 \in D
    BY <1>1, <1>2
  <2> QED BY <2>1
<1>4. PICK i \in D : \A j \in D : i <= j
  <2>1. D \subseteq Nat
    BY <1>1
  <2> HIDE DEF D
  <2> QED BY <1>3, <2>1, LeastNatural
<1>5. ASSUME NEW j \in q.pos..(i - 1)
      PROVE  source[j] = "*"
  <2>1. j \in q.pos..(Len(source) + 1) /\ j <= Len(source) /\ ~ (i <= j)
    BY <1>1, <1>4
  <2>2. Kind([q EXCEPT !.pos = j]) = "*"
    BY <1>4, <2>1
  <2> QED BY <1>2, <2>1, <2>2
<1> QED BY <1>4, <1>5

LastStar(q) ==
  CHOOSE i \in q.pos..(Len(source) + 1) :
    /\ Kind([q EXCEPT !.pos = i]) # "*"
    /\ \A j \in q.pos..(i - 1) : source[j] = "*"
Behind(q) == [q EXCEPT !.pos = LastStar(q)]

(* and what it returns is a written type unless it reports an error.       *)
LEMMA MovesType ==
  ASSUME source \in Seq(Delivered), NEW q, Legal(q)
  PROVE  /\ Moves(q, parseType(q).p)
         /\ parseType(q).type \in T!Type
         /\ parseType(q).p.errors = <<>> => parseType(q).type \in T!WrittenType
         /\ q.pos <= Len(source) => q.pos < parseType(q).p.pos
<1>1. PICK last : last = LastStar(q)
  OBVIOUS
<1>2. last \in q.pos..(Len(source) + 1) /\ \A j \in q.pos..(last - 1) : source[j] = "*"
  BY <1>1, StarsEnd DEF LastStar
<1>3. PICK named : named = Behind(q)
  OBVIOUS
<1>4. PICK base : base = IF Kind(named) = "IDENT" THEN A!Named(Lexeme(named)) ELSE A!WildType
  OBVIOUS
<1>5. PICK m : m = Static("Unexpected ...")
  OBVIOUS
<1>6. /\ parseType(q).p = p_next(IF Kind(named) = "IDENT" THEN named ELSE Refuse(named, m))
      /\ parseType(q).type = PointerTo(base, last - q.pos)
  <2>1. parseType(q) =
          [p |-> p_next(IF Kind(named) = "IDENT" THEN named ELSE Refuse(named, m)),
           type |-> PointerTo(base, last - q.pos)]
    <3>1. parseType(q) =
            LET there == Behind(q)
                at == IF Kind(there) = "IDENT" THEN A!Named(Lexeme(there)) ELSE A!WildType
            IN  [p |-> p_next(IF Kind(there) = "IDENT" THEN there
                              ELSE Refuse(there, Static("Unexpected ..."))),
                 type |-> PointerTo(at, LastStar(q) - q.pos)]
      BY DEF parseType, LastStar, Behind
    <3> QED BY <1>1, <1>3, <1>4, <1>5, <3>1
  <2>2. PICK a, b : /\ a = p_next(IF Kind(named) = "IDENT" THEN named ELSE Refuse(named, m))
                    /\ b = PointerTo(base, last - q.pos)
    OBVIOUS
  <2>3. parseType(q) = [p |-> a, type |-> b]
    BY <2>1, <2>2
  <2> QED BY <2>2, <2>3
<1>7. q.pos \in 1..(Len(source) + 1) /\ Len(source) \in Nat /\ last \in 1..(Len(source) + 1)
      /\ last - q.pos \in Nat /\ q.pos <= last
  <2>1. q.pos \in 1..(Len(source) + 1) /\ Len(source) \in Nat
    BY DEF Legal
  <2> QED BY <1>2, <2>1
<1>8. Legal(named) /\ named.pos = last /\ named.items = q.items /\ named.warnings = q.warnings
      /\ named.errors = q.errors
  <2> HIDE DEF Message
  <2> QED BY <1>1, <1>3, <1>7 DEF Legal, Behind
<1>9. Moves(q, named)
  BY <1>2, <1>7, <1>8 DEF Moves, Unmarked
<1>a. m \in Message
  BY <1>5 DEF Static, Message, Texts, ParserTexts
<1>b. Lexeme(named) \in Lexemes
  BY <1>8, WhatIsThere
<1>c. base \in T!Type
  BY <1>4, <1>b DEF A!Named, A!WildType, T!Type, Lexemes
<1>d. PICK d \in Nat : d = last - q.pos
  BY <1>7
<1>e. PointerTo(base, d) = IF d = 0 THEN base ELSE [kind |-> "TYPE_PTR", of |-> base.of, decl |-> d - 1]
  BY DEF PointerTo, A!PointerThrough
<1>f. PointerTo(base, d) \in T!Type
  <2>1. d # 0 => d - 1 \in Nat
    OBVIOUS
  <2> QED BY <1>c, <1>e, <2>1 DEF T!Type
<1>g. CASE Kind(named) = "IDENT"
  <2>1. Moves(named, p_next(named))
    BY <1>8, <1>g, MovesNext
  <2>2. Moves(q, p_next(named))
    BY <1>9, <2>1, MovesOn
  <2>3. base.kind = "TYPE_NAMED"
    BY <1>4, <1>g DEF A!Named
  <2>4. PointerTo(base, d).kind \in {"TYPE_NAMED", "TYPE_PTR"}
    BY <1>e, <2>3
  <2>5. PointerTo(base, d) \in T!WrittenType
    BY <1>f, <2>4 DEF T!WrittenType
  <2>6. PICK r : r = p_next(named)
    OBVIOUS
  <2>7. /\ named.pos <= Len(source) => r.pos = named.pos + 1
        /\ named.pos = Len(source) + 1 => r.pos = named.pos
    BY <1>8, <2>6, Read
  <2>8. q.pos <= Len(source) => q.pos < r.pos
    BY <1>7, <1>8, <2>7
  <2> QED BY <1>6, <1>d, <1>f, <1>g, <2>2, <2>5, <2>6, <2>8
<1>h. CASE Kind(named) # "IDENT"
  <2>1. PICK r : r = Refuse(named, m)
    OBVIOUS
  <2>2. Legal(r) /\ r.errors # <<>> /\ r.pos = named.pos /\ r.items = named.items /\ r.warnings = named.warnings
    BY <1>8, <1>a, <2>1, Refused
  <2>3. PICK s : s = p_next(r)
    OBVIOUS
  <2>4. Legal(s) /\ s.items = r.items /\ s.warnings = r.warnings /\ s.errors = r.errors /\ r.pos <= s.pos
    BY <2>2, <2>3, Read
  <2>5. q.pos <= s.pos
    <3>1. s.pos \in Nat /\ r.pos = last
      BY <1>8, <2>2, <2>4 DEF Legal
    <3> QED BY <1>7, <2>4, <3>1
  <2>6. Moves(q, s)
    BY <1>8, <2>2, <2>4, <2>5 DEF Moves
  <2>7. q.pos <= Len(source) => q.pos < s.pos
    <3>1. /\ r.pos <= Len(source) => s.pos = r.pos + 1
          /\ r.pos = Len(source) + 1 => s.pos = r.pos
      BY <2>2, <2>3, Read
    <3>2. r.pos = last
      BY <1>8, <2>2
    <3> QED BY <1>7, <3>1, <3>2
  <2> QED BY <1>6, <1>d, <1>f, <1>h, <2>1, <2>2, <2>3, <2>4, <2>6, <2>7
<1> QED BY <1>g, <1>h

(* growableArrayPush leaves the lookahead where it is.                     *)
LEMMA Pushed ==
  ASSUME source \in Seq(Delivered), NEW q, Legal(q), NEW r, r = growableArrayPush(q)
  PROVE  /\ Legal(r) /\ r.items = q.items + 1
         /\ r.pos = q.pos /\ r.errors = q.errors /\ r.warnings = q.warnings
         /\ Kind(r) = Kind(q) /\ Lexeme(r) = Lexeme(q)
<1>1. PICK n : n = q.items + 1
  OBVIOUS
<1>2. n \in Nat
  BY <1>1 DEF Legal
<1>3. r = [q EXCEPT !.items = n]
  BY <1>1 DEF growableArrayPush
<1>4. Legal(r) /\ r.items = n /\ r.pos = q.pos /\ r.errors = q.errors /\ r.warnings = q.warnings
  <2> HIDE DEF Message
  <2> QED BY <1>2, <1>3 DEF Legal
<1>5. Lexeme(r) = Lexeme(q)
  BY <1>4 DEF Lexeme
<1> QED BY <1>1, <1>4, <1>5 DEF Kind

-----------------------------------------------------------------------------
(* The pending calls.                                                      *)

(* The node a call is building.                                            *)
HeadFits(f) ==
  /\ f.do = "p_parse" => f.head.kind = "PROGRAM"
  /\ f.do = "params" => f.head.kind = "DECL_FUNC"
  /\ f.do = "stmts" => f.head.kind \in {"DECL_FUNC", "BLOCK"}
  /\ f.do = "build" => f.head.kind \in {"DECL_VAR", "UNOP", "EXIT", "BINOP", "IF"}
  /\ f.do \in {"args", "comma"} => f.head.kind = "CALL"
  /\ f.do \in {"ifCond", "ifTrue"} => f.head.kind = "IF"

(* How many children it has when it goes on; one less while it waits.      *)
Fed(f, k) ==
  /\ f.do \in {"params", "parseExprBP"} => k = 0
  /\ f.do \in {"semicolon", "paren", "infix", "ifCond"} => k = 1
  /\ f.do \in {"args", "comma"} => k # 0
  /\ f.do = "ifTrue" => k = 2
  /\ f.do = "build" =>
       /\ f.head.kind \in {"DECL_VAR", "UNOP", "EXIT"} => k = 1
       /\ f.head.kind = "BINOP" => k = 2
       /\ f.head.kind = "IF" => k = 3

(* Which children it takes, and what the call it waits for may leave it.   *)
Accepts(do) ==
  IF do = "p_parse" THEN {"DECL_VAR", "DECL_FUNC"}
  ELSE IF do = "stmts" THEN T!ExprKinds \cup {"DECL_VAR"} ELSE T!ExprKinds

Room(f, s) == IF f.do = "semicolon" THEN Accepts(s[1].do) ELSE Accepts(f.do)

Sits(f, s) ==
  IF s = <<>> THEN f.do = "p_parse"
  ELSE /\ f.do # "p_parse"
       /\ f.do = "semicolon" => s[1].do \in {"p_parse", "stmts"}
       /\ f.do \in {"parseExprBP", "infix", "paren"} => T!ExprKinds \subseteq Room(s[1], Tail(s))
       /\ f.do \in {"params", "stmts", "build", "args", "comma", "ifCond", "ifTrue"} =>
            f.head.kind \in Room(s[1], Tail(s))

Under(s, k) == SubSeq(s, k + 1, Len(s))

WaitsAt(f, s) == HeadFits(f) /\ Fed(f, Len(f.kids) + 1) /\ Sits(f, s)

Waits(s) ==
  /\ s \in Seq(Frames)
  /\ \A k \in 1..Len(s) : WaitsAt(s[k], Under(s, k))

Runs(f, s) ==
  f \in Frames /\ HeadFits(f) /\ Fed(f, Len(f.kids)) /\ Sits(f, s) /\ Waits(s)

(* What the children are as long as nothing was reported.                  *)
Good(f, s) ==
  /\ f.head.type \in T!WrittenType /\ f.head.params \in Seq(T!Param) /\ f.head.op # "["
  /\ \A i \in 1..Len(f.kids) : Sound(f.kids[i]) /\ f.kids[i][1].kind \in Room(f, s)

AllGood(s) == \A k \in 1..Len(s) : Good(s[k], Under(s, k))

MarkedIn(s) == \E k \in 1..Len(s) : SomeMarked(s[k].kids)

-----------------------------------------------------------------------------
(* What holds of a stack holds of its first call and of the others.        *)
LEMMA Pile ==
  ASSUME NEW f \in Frames, NEW s \in Seq(Frames), NEW t, t = <<f>> \o s
  PROVE  /\ t \in Seq(Frames) /\ t # <<>> /\ t[1] = f /\ Head(t) = f /\ Tail(t) = s
         /\ Len(t) = Len(s) + 1
         /\ Waits(t) <=> WaitsAt(f, s) /\ Waits(s)
         /\ AllGood(t) <=> Good(f, s) /\ AllGood(s)
         /\ MarkedIn(t) <=> SomeMarked(f.kids) \/ MarkedIn(s)
<1>1. /\ t \in Seq(Frames) /\ t # <<>> /\ t[1] = f /\ Head(t) = f
      /\ Len(t) = Len(s) + 1 /\ Len(s) \in Nat
      /\ \A k \in 1..Len(s) : t[k + 1] = s[k]
  OBVIOUS
<1>2. Tail(t) = s
  OBVIOUS
<1>3. ASSUME NEW j \in 0..Len(s)
      PROVE  Under(t, j + 1) = [i \in 1..(Len(s) - j) |-> s[j + i]]
  <2>1. Under(t, j + 1) = [i \in 1..(Len(t) - (j + 1)) |-> t[(j + 2) + i - 1]]
    BY <1>1 DEF Under
  <2>2. Len(t) - (j + 1) = Len(s) - j
    BY <1>1
  <2>3. \A i \in 1..(Len(s) - j) : t[(j + 2) + i - 1] = s[j + i]
    <3>1. ASSUME NEW i \in 1..(Len(s) - j)
          PROVE  t[(j + 2) + i - 1] = s[j + i]
      <4>1. (j + 2) + i - 1 = (j + i) + 1 /\ j + i \in 1..Len(s)
        BY <1>1
      <4> QED BY <1>1, <4>1
    <3> QED BY <3>1
  <2> QED BY <2>1, <2>2, <2>3
<1>4. Under(t, 1) = s
  <2>1. Under(t, 1) = [i \in 1..(Len(s) - 0) |-> s[0 + i]]
    <3>1. 0 \in 0..Len(s) /\ 0 + 1 = 1
      BY <1>1
    <3> QED BY <1>3, <3>1
  <2>2. s = [i \in 1..Len(s) |-> s[i]] /\ Len(s) - 0 = Len(s) /\ \A i \in 1..Len(s) : 0 + i = i
    BY <1>1
  <2> QED BY <2>1, <2>2
<1>5. \A k \in 1..Len(s) : Under(t, k + 1) = Under(s, k)
  <2>1. ASSUME NEW k \in 1..Len(s)
        PROVE  Under(t, k + 1) = Under(s, k)
    <3>1. Under(t, k + 1) = [i \in 1..(Len(s) - k) |-> s[k + i]]
      <4>1. k \in 0..Len(s)
        BY <1>1
      <4> QED BY <1>3, <4>1
    <3>2. Under(s, k) = [i \in 1..(Len(s) - k) |-> s[(k + 1) + i - 1]]
      BY <1>1 DEF Under
    <3>3. \A i \in 1..(Len(s) - k) : (k + 1) + i - 1 = k + i
      BY <1>1
    <3> QED BY <3>1, <3>2, <3>3
  <2> QED BY <2>1
<1>6. \A k \in 1..Len(t) : k = 1 \/ \E j \in 1..Len(s) : k = j + 1
  <2>1. ASSUME NEW k \in 1..Len(t), k # 1
        PROVE  \E j \in 1..Len(s) : k = j + 1
    <3>1. k - 1 \in 1..Len(s) /\ k = (k - 1) + 1
      BY <1>1, <2>1
    <3> QED BY <3>1
  <2> QED BY <2>1
<1>7. 1 \in 1..Len(t) /\ \A j \in 1..Len(s) : j + 1 \in 1..Len(t)
  <2>1. Len(s) \in Nat
    OBVIOUS
  <2> QED BY <1>1, <2>1
<1>8. Waits(t) <=> WaitsAt(f, s) /\ Waits(s)
  <2>1. (\A k \in 1..Len(t) : WaitsAt(t[k], Under(t, k)))
          <=> WaitsAt(f, s) /\ \A k \in 1..Len(s) : WaitsAt(s[k], Under(s, k))
    BY <1>1, <1>4, <1>5, <1>6, <1>7
  <2>2. t \in Seq(Frames)
    BY <1>1
  <2> QED BY <2>1, <2>2 DEF Waits
<1>9. AllGood(t) <=> Good(f, s) /\ AllGood(s)
  BY <1>1, <1>4, <1>5, <1>6, <1>7 DEF AllGood
<1>a. MarkedIn(t) <=> SomeMarked(f.kids) \/ MarkedIn(s)
  BY <1>1, <1>4, <1>5, <1>6, <1>7 DEF MarkedIn
<1> QED BY <1>1, <1>2, <1>8, <1>9, <1>a

(* A stack is its first call and the others.                               *)
LEMMA Unpile ==
  ASSUME NEW t \in Seq(Frames), t # <<>>
  PROVE  Head(t) = t[1] /\ t[1] \in Frames /\ Tail(t) \in Seq(Frames) /\ t = <<t[1]>> \o Tail(t)
         /\ Len(Tail(t)) = Len(t) - 1 /\ Len(t) \in Nat
<1>0. PICK S : S = Frames
  OBVIOUS
<1>1. t \in Seq(S)
  BY <1>0
<1> QED BY ONLY <1>0, <1>1, t # <<>>

-----------------------------------------------------------------------------
(* The invariant.                                                          *)

Passed(q) == \E k \in 1..(q.pos - 1) : source[k] = "["

(* p_parse before a token that starts no declaration: it only allocates.   *)
Stuck == Len(calls) = 1 /\ Kind(p) \notin {"let", "const", "func", "pub", "EOF"}

Content(q, f, s) ==
  /\ Good(f, s) /\ AllGood(s)
  /\ Passed(q) <=> SomeMarked(f.kids) \/ MarkedIn(s)

Quiet(q) == \A i \in DOMAIN q.warnings : q.warnings[i].owner = "static"

Returned(t) ==
  T!WellFormed(Table(t)) /\ ((\E n \in DOMAIN t : t[n].op = "[") <=> \E i \in DOMAIN source : source[i] = "[")

StackRight == outcome = "parsing" => calls # <<>> /\ Runs(Head(calls), Tail(calls))

ContentRight ==
  p.errors = <<>> =>
    /\ outcome # "crashed" /\ Quiet(p)
    /\ outcome = "parsing" => Stuck \/ Content(p, Head(calls), Tail(calls))
    /\ outcome = "done" => Returned(tree)

IInv == TypeOK /\ StackRight /\ ContentRight

Going == IInv /\ outcome = "parsing" /\ p.items <= MaxItems
Below == Tail(calls)

Reaches(q) ==
  /\ Legal(q) /\ q.items <= MaxItems + 2
  /\ q.errors = <<>> => p.errors = <<>> /\ (Quiet(p) => Quiet(q)) /\ (Passed(q) <=> Passed(p))

(* What the invariant says of a parser that goes on.                       *)
LEMMA Underway ==
  ASSUME Going
  PROVE  /\ source \in Seq(Delivered) /\ Legal(p) /\ p.items \in 0..MaxItems /\ MaxItems \in Nat
         /\ calls \in Seq(Frames) /\ calls # <<>>
         /\ Runs(Top, Below) /\ Top \in Frames /\ Below \in Seq(Frames) /\ calls = <<Top>> \o Below
         /\ Top.do # "p_parse" => Below # <<>>
         /\ p.errors = <<>> => Quiet(p)
         /\ Top.do # "p_parse" => ~ Stuck
         /\ p.errors = <<>> /\ ~ Stuck => Content(p, Top, Below)
<1>1. TypeOK /\ StackRight /\ ContentRight /\ outcome = "parsing" /\ p.items <= MaxItems
  BY DEF Going, IInv
<1>2. source \in Seq(Delivered) /\ calls \in Seq(Frames)
  BY <1>1 DEF TypeOK
<1>3. MaxItems \in Nat
  BY SourcesAssumption
<1>4. Legal(p) /\ p.items \in 0..MaxItems
  <2>1. /\ p \in [pos : 1..(Len(source) + 1), items : 0..(MaxItems + 2),
                  errors : Seq(Message), warnings : Seq(Message)]
        /\ Len(p.errors) <= MaxErrors /\ Len(p.warnings) <= MaxErrors
    BY <1>1 DEF TypeOK
  <2>2. 0..(MaxItems + 2) \subseteq Nat
    BY <1>3
  <2> HIDE DEF Message
  <2>3. p.items \in 0..(MaxItems + 2)
    BY <2>1
  <2>4. p.items \in 0..MaxItems
    BY <1>1, <1>3, <2>3
  <2> QED BY <2>1, <2>2, <2>4 DEF Legal
<1>5. calls # <<>> /\ Runs(Top, Below)
  BY <1>1 DEF StackRight, Top, Below
<1>6. Head(calls) = calls[1] /\ calls[1] \in Frames /\ Tail(calls) \in Seq(Frames)
      /\ calls = <<calls[1]>> \o Tail(calls) /\ Len(Tail(calls)) = Len(calls) - 1 /\ Len(calls) \in Nat
  BY <1>2, <1>5, Unpile
<1>7. Top.do # "p_parse" => Below # <<>>
  BY <1>5 DEF Runs, Sits
<1>8. p.errors = <<>> => Quiet(p) /\ (Stuck \/ Content(p, Top, Below))
  BY <1>1 DEF ContentRight, Top, Below
<1>9. Below # <<>> => ~ Stuck
  <2>1. Below # <<>> => Len(Below) # 0
    BY <1>6 DEF Below
  <2> QED BY <1>6, <2>1 DEF Stuck, Below
<1> QED BY <1>2, <1>3, <1>4, <1>5, <1>6, <1>7, <1>8, <1>9 DEF Top, Below

(* The invariant holds behind a step that leaves a stack in order.         *)
LEMMA Resumed ==
  ASSUME TypeOK, outcome = "parsing", UNCHANGED <<source, outcome, tree>>,
         NEW f, NEW s, Runs(f, s), calls' = <<f>> \o s,
         Legal(p'), p'.items <= MaxItems + 2,
         p'.errors = <<>> => Quiet(p') /\ (Stuck' \/ Content(p', f, s))
  PROVE  IInv'
<1>1. f \in Frames /\ s \in Seq(Frames)
  BY DEF Runs, Waits
<1>2. PICK t : t = calls'
  OBVIOUS
<1>3. t \in Seq(Frames) /\ t # <<>> /\ Head(t) = f /\ Tail(t) = s
  BY <1>1, <1>2, Pile
<1>4. source' = source /\ outcome' = "parsing" /\ tree' = tree
  OBVIOUS
<1>5. TypeOK'
  <2>1. source' \in Seq(Delivered) /\ outcome' \in Outcomes /\ (outcome' # "done" => tree' = <<>>)
    BY <1>4 DEF TypeOK, Outcomes
  <2>2. p' \in [pos : 1..(Len(source) + 1), items : Nat, errors : Seq(Message), warnings : Seq(Message)]
        /\ Len(p'.errors) <= MaxErrors /\ Len(p'.warnings) <= MaxErrors
    BY DEF Legal
  <2>3. MaxItems \in Nat
    BY SourcesAssumption
  <2> HIDE DEF Message
  <2>4. p'.items \in 0..(MaxItems + 2)
    BY <2>2, <2>3
  <2>5. p' \in [pos : 1..(Len(source') + 1), items : 0..(MaxItems + 2),
                errors : Seq(Message), warnings : Seq(Message)]
    BY <1>4, <2>2, <2>4
  <2> QED BY <1>2, <1>3, <2>1, <2>2, <2>5 DEF TypeOK
<1>6. StackRight'
  BY <1>2, <1>3 DEF StackRight
<1>7. ContentRight'
  <2>1. p'.errors = <<>> => Quiet(p)'
    BY DEF Quiet
  <2>2. p'.errors = <<>> => Stuck' \/ Content(p, Head(calls), Tail(calls))'
    <3>1. Content(p, Head(calls), Tail(calls))'
            <=> /\ Good(f, s) /\ AllGood(s)
                /\ (\E k \in 1..(p'.pos - 1) : source'[k] = "[") <=> SomeMarked(f.kids) \/ MarkedIn(s)
      BY <1>2, <1>3 DEF Content, Passed
    <3>2. p'.errors = <<>> /\ ~ Stuck' =>
            /\ Good(f, s) /\ AllGood(s)
            /\ (\E k \in 1..(p'.pos - 1) : source[k] = "[") <=> SomeMarked(f.kids) \/ MarkedIn(s)
      BY DEF Content, Passed
    <3> QED BY <1>4, <3>1, <3>2
  <2> QED BY <1>4, <2>1, <2>2 DEF ContentRight
<1> QED BY <1>5, <1>6, <1>7 DEF IInv

(* A step that puts calls in the place of the running one.                 *)
LEMMA Continued ==
  ASSUME Going, ~ Stuck, NEW q, Reaches(q), NEW frames, Continue(q, frames),
         NEW f, NEW s, frames \o Tail(calls) = <<f>> \o s, Runs(f, s),
         q.errors = <<>> /\ Good(Top, Below) /\ AllGood(Below) =>
           /\ Good(f, s) /\ AllGood(s)
           /\ SomeMarked(f.kids) \/ MarkedIn(s) <=> SomeMarked(Top.kids) \/ MarkedIn(Below)
  PROVE  IInv'
<1>1. p' = q /\ calls' = <<f>> \o s /\ UNCHANGED <<source, outcome, tree>>
  BY DEF Continue
<1>2. TypeOK /\ outcome = "parsing"
  BY DEF Going, IInv
<1>3. Legal(p') /\ p'.items <= MaxItems + 2
  BY <1>1 DEF Reaches
<1>4. p.errors = <<>> => Quiet(p) /\ Content(p, Top, Below)
  BY Underway
<1>5. q.errors = <<>> => Quiet(q) /\ Content(q, f, s)
  <2>1. q.errors = <<>> => p.errors = <<>> /\ (Quiet(p) => Quiet(q)) /\ (Passed(q) <=> Passed(p))
    BY DEF Reaches
  <2> QED BY <1>4, <2>1 DEF Content
<1> QED BY <1>1, <1>2, <1>3, <1>5, Resumed

(* A step that returns a node to the caller.                               *)
LEMMA GivenBack ==
  ASSUME Going, Top.do # "p_parse", NEW q, Reaches(q), NEW term \in Cells, Return(q, term),
         q.errors = <<>> /\ Good(Top, Below) =>
           /\ Sound(term) /\ term[1].kind \in Room(Below[1], Tail(Below))
           /\ Marked(term) <=> SomeMarked(Top.kids)
  PROVE  IInv'
<1>1. /\ calls \in Seq(Frames) /\ Below \in Seq(Frames) /\ Below # <<>> /\ calls = <<Top>> \o Below
      /\ Runs(Top, Below) /\ Top \in Frames
  BY Underway
<1>2. PICK g, r : g = Below[1] /\ r = Tail(Below)
  OBVIOUS
<1>3. g \in Frames /\ r \in Seq(Frames) /\ Below = <<g>> \o r
  BY <1>1, <1>2, Unpile
<1>4. /\ Waits(Below) <=> WaitsAt(g, r) /\ Waits(r)
      /\ AllGood(Below) <=> Good(g, r) /\ AllGood(r)
      /\ MarkedIn(Below) <=> SomeMarked(g.kids) \/ MarkedIn(r)
  BY <1>3, Pile
<1>5. WaitsAt(g, r) /\ Waits(r)
  BY <1>1, <1>4 DEF Runs
<1>6. calls[2] = g
  <2>1. 1 \in 1..Len(Below)
    <3>1. Len(Below) \in Nat /\ Len(Below) # 0
      BY <1>1
    <3> QED BY <3>1
  <2>2. calls[2] = Below[1]
    <3> HIDE DEF Below, Top, Frames
    <3> QED BY <1>1, <2>1
  <2> QED BY <1>2, <2>2
<1>7. PICK kids : kids = Append(g.kids, term)
  OBVIOUS
<1>8. PICK f : f = [g EXCEPT !.kids = kids]
  OBVIOUS
<1>9. g.kids \in Seq(Cells)
  BY <1>3 DEF Frames, Cells
<1>a. /\ kids \in Seq(Cells) /\ Len(kids) = Len(g.kids) + 1 /\ Len(g.kids) \in Nat
      /\ \A i \in 1..Len(g.kids) : kids[i] = g.kids[i]
      /\ kids[Len(kids)] = term
      /\ \A i \in 1..Len(kids) : i \in 1..Len(g.kids) \/ i = Len(kids)
  BY ONLY <1>7, <1>9, term \in Cells
<1>b. f \in Frames /\ f.do = g.do /\ f.head = g.head /\ f.kids = kids
  <2>1. kids \in Seq(Seq(Cell))
    BY <1>a DEF Cells
  <2> HIDE DEF Cell, Kinds, Lexemes, T!NodeOps, T!Type, Params, Places
  <2> QED BY <1>3, <1>8, <2>1 DEF Frames
<1>c. calls' = <<f>> \o r /\ p' = q /\ UNCHANGED <<source, outcome, tree>>
  <2>1. calls' = <<[g EXCEPT !.kids = Append(@, term)]>> \o Tail(Below)
    BY <1>6 DEF Return, Below
  <2> QED BY <1>2, <1>7, <1>8, <2>1 DEF Return
<1>d. Runs(f, r)
  <2>1. HeadFits(f) /\ Fed(f, Len(f.kids)) /\ Sits(f, r)
    BY <1>5, <1>a, <1>b DEF WaitsAt, HeadFits, Fed, Sits
  <2> QED BY <1>5, <1>b, <2>1 DEF Runs
<1>e. SomeMarked(kids) <=> SomeMarked(g.kids) \/ Marked(term)
  <2>1. Len(kids) \in 1..Len(kids) /\ \A i \in 1..Len(g.kids) : i \in 1..Len(kids)
    BY <1>a
  <2> QED BY <1>a, <2>1 DEF SomeMarked
<1>f. p.errors = <<>> => Quiet(p) /\ Content(p, Top, Below)
  BY Underway
<1>g. q.errors = <<>> => Quiet(q) /\ Content(q, f, r)
  <2> SUFFICES ASSUME q.errors = <<>> PROVE Quiet(q) /\ Content(q, f, r)
    OBVIOUS
  <2>1. p.errors = <<>> /\ (Quiet(p) => Quiet(q)) /\ (Passed(q) <=> Passed(p))
    BY DEF Reaches
  <2>2. /\ Good(Top, Below) /\ AllGood(Below) /\ Quiet(q)
        /\ Passed(p) <=> SomeMarked(Top.kids) \/ MarkedIn(Below)
    BY <1>f, <2>1 DEF Content
  <2>3. /\ Sound(term) /\ term[1].kind \in Room(g, r)
        /\ Marked(term) <=> SomeMarked(Top.kids)
    BY <1>2, <2>2
  <2>4. Good(g, r) /\ AllGood(r)
    BY <1>4, <2>2
  <2>5. Room(f, r) = Room(g, r)
    BY <1>b DEF Room
  <2>6. \A i \in 1..Len(kids) : Sound(kids[i]) /\ kids[i][1].kind \in Room(f, r)
    <3>1. ASSUME NEW i \in 1..Len(kids)
          PROVE  Sound(kids[i]) /\ kids[i][1].kind \in Room(f, r)
      <4>1. CASE i \in 1..Len(g.kids)
        BY <1>a, <2>4, <2>5, <4>1 DEF Good
      <4>2. CASE i = Len(kids)
        BY <1>a, <2>3, <2>5, <4>2
      <4> QED BY <1>a, <4>1, <4>2
    <3> QED BY <3>1
  <2>7. Good(f, r)
    BY <1>b, <2>4, <2>6 DEF Good
  <2>8. Passed(q) <=> SomeMarked(f.kids) \/ MarkedIn(r)
    BY <1>4, <1>b, <1>e, <2>1, <2>2, <2>3
  <2> QED BY <2>2, <2>4, <2>7, <2>8 DEF Content
<1>h. TypeOK /\ outcome = "parsing"
  BY DEF Going, IInv
<1>i. Legal(p') /\ p'.items <= MaxItems + 2
  BY <1>c DEF Reaches
<1> QED BY <1>c, <1>d, <1>g, <1>h, <1>i, Resumed

-----------------------------------------------------------------------------
(* Where the lookahead gets, frames, and what a call leaves.               *)

(* A position reached by proper moves is one the parser may go on from.    *)
LEMMA ReachesBy ==
  ASSUME Going, NEW a, Legal(a), a.pos = p.pos, a.errors = p.errors, a.warnings = p.warnings,
         a.items <= p.items + 2, NEW q, Moves(a, q)
  PROVE  Reaches(q)
<1>1. Legal(p) /\ p.items \in 0..MaxItems /\ MaxItems \in Nat
  BY Underway
<1>2. Legal(q) /\ q.items = a.items /\ q.warnings = p.warnings /\ p.pos <= q.pos
      /\ (q.errors = <<>> => p.errors = <<>> /\ Unmarked(p.pos, q.pos))
  BY DEF Moves
<1>3. p.pos \in Nat /\ q.pos \in Nat /\ q.items \in Nat /\ p.items \in Nat
  BY <1>1, <1>2 DEF Legal
<1>4. q.items <= MaxItems + 2
  BY <1>1, <1>2, <1>3
<1>5. Quiet(p) => Quiet(q)
  BY <1>2 DEF Quiet
<1>6. Unmarked(p.pos, q.pos) => (Passed(q) <=> Passed(p))
  <2>1. \A k \in 1..(q.pos - 1) : k \in 1..(p.pos - 1) \/ k \in p.pos..(q.pos - 1)
    BY <1>2, <1>3
  <2>2. \A k \in 1..(p.pos - 1) : k \in 1..(q.pos - 1)
    BY <1>2, <1>3
  <2> QED BY <2>1, <2>2 DEF Passed, Unmarked
<1> QED BY <1>2, <1>4, <1>5, <1>6 DEF Reaches

(* The same without growableArrayPush.                                     *)
LEMMA ReachesFrom ==
  ASSUME Going, NEW q, Moves(p, q)
  PROVE  Reaches(q)
<1>1. Legal(p) /\ p.items \in 0..MaxItems /\ MaxItems \in Nat
  BY Underway
<1>2. p.items <= p.items + 2
  BY <1>1
<1> QED BY <1>1, <1>2, ReachesBy

(* The node of a call that has all its kids is sound.                      *)
LEMMA BuiltRight ==
  ASSUME NEW f \in Frames, HeadFits(f), Fed(f, Len(f.kids)), NEW s,
         f.do \in {"p_parse", "stmts", "build", "args", "ifTrue"},
         NEW t, t = Built(f)
  PROVE  /\ t \in Cells
         /\ Good(f, s) =>
              /\ Sound(t) /\ t[1].kind = f.head.kind
              /\ Marked(t) <=> SomeMarked(f.kids)
<1>1. /\ f.head.kind \in Kinds /\ f.head.name \in Lexemes /\ f.head.op \in T!NodeOps
      /\ f.head.type \in T!Type /\ f.head.params \in Params /\ f.kids \in Seq(Cells)
  <2> HIDE DEF Cell, Kinds, Lexemes, T!NodeOps, T!Type, Params, Places
  <2> QED BY DEF Frames, Cells
<1>2. t = Term(f.head.kind, f.head.name, f.head.op, 0, f.head.type, f.head.params, f.kids)
  BY DEF Built
<1>3. t \in Cells
  <2>1. 0 \in Nat
    OBVIOUS
  <2> QED BY <1>1, <1>2, <2>1, TermTyped
<1>4. ASSUME Good(f, s)
      PROVE  Sound(t) /\ t[1].kind = f.head.kind /\ (Marked(t) <=> SomeMarked(f.kids))
  <2>1. f.head.type \in T!WrittenType /\ f.head.params \in Seq(T!Param) /\ f.head.op # "["
    BY <1>4 DEF Good
  <2>2. PICK kind : kind = f.head.kind
    OBVIOUS
  <2>3. /\ f.do = "p_parse" => kind = "PROGRAM"
        /\ f.do = "stmts" => kind \in {"DECL_FUNC", "BLOCK"}
        /\ f.do = "build" => kind \in {"DECL_VAR", "UNOP", "EXIT", "BINOP", "IF"}
        /\ f.do = "args" => kind = "CALL"
        /\ f.do = "ifTrue" => kind = "IF"
    BY <2>2 DEF HeadFits
  <2>4. kind \in T!NodeKinds
    BY <2>3 DEF T!NodeKinds, T!ExprKinds
  <2>5. Counted(kind, Len(f.kids))
    BY <2>2, <2>3 DEF Fed, Counted
  <2>6. Room(f, s) \subseteq Takes(kind)
    <3>1. Room(f, s) = Accepts(f.do)
      BY DEF Room
    <3>2. CASE f.do = "p_parse"
      BY <2>3, <3>1, <3>2 DEF Accepts, Takes
    <3>3. CASE f.do = "stmts"
      BY <2>3, <3>1, <3>3 DEF Accepts, Takes
    <3>4. CASE f.do \in {"build", "args", "ifTrue"}
      <4>1. Room(f, s) = T!ExprKinds /\ kind \notin {"PROGRAM", "DECL_FUNC", "BLOCK"}
        BY <2>3, <3>1, <3>4 DEF Accepts
      <4> QED BY <4>1 DEF Takes
    <3> QED BY <3>2, <3>3, <3>4
  <2>7. KidsFit(kind, f.kids)
    <3>1. \A i \in 1..Len(f.kids) : Sound(f.kids[i]) /\ f.kids[i][1].kind \in Takes(kind)
      BY <1>4, <2>6 DEF Good
    <3> QED BY <2>5, <3>1 DEF KidsFit
  <2>8. t = Term(kind, f.head.name, f.head.op, 0, f.head.type, f.head.params, f.kids)
    BY <1>2, <2>2
  <2>9. 0 \in Nat
    OBVIOUS
  <2>a. Sound(t) /\ t[1].kind = kind
    BY ONLY <1>1, <2>1, <2>4, <2>7, <2>8, <2>9, TermSound
  <2>b. Marked(t) <=> f.head.op = "[" \/ SomeMarked(f.kids)
    BY ONLY <1>1, <2>1, <2>4, <2>7, <2>8, <2>9, TermSound
  <2> QED BY <2>1, <2>2, <2>a, <2>b
<1> QED BY <1>3, <1>4

(* A call that returns the node it was building.                           *)
LEMMA GivesBuilt ==
  ASSUME Going, Top.do \in {"stmts", "build", "args", "ifTrue"}, NEW q, Moves(p, q),
         Return(q, Built(Top))
  PROVE  IInv'
<1>1. Runs(Top, Below) /\ Top \in Frames /\ Top.do # "p_parse" /\ Below # <<>>
  BY Underway
<1>2. HeadFits(Top) /\ Fed(Top, Len(Top.kids)) /\ Sits(Top, Below)
  BY <1>1 DEF Runs
<1>3. PICK t : t = Built(Top)
  OBVIOUS
<1>4. /\ t \in Cells
      /\ Good(Top, Below) =>
           Sound(t) /\ t[1].kind = Top.head.kind /\ (Marked(t) <=> SomeMarked(Top.kids))
  BY <1>1, <1>2, <1>3, BuiltRight
<1>5. Top.head.kind \in Room(Below[1], Tail(Below))
  BY <1>1, <1>2 DEF Sits
<1>6. Reaches(q)
  BY ReachesFrom
<1>7. Return(q, t)
  BY <1>3
<1> QED BY <1>1, <1>4, <1>5, <1>6, <1>7, GivenBack

(* A call that has one kid.                                                *)
LEMMA OnlyKid ==
  ASSUME NEW f \in Frames, Len(f.kids) = 1
  PROVE  /\ f.kids[1] \in Cells /\ f.kids = <<f.kids[1]>>
         /\ SomeMarked(f.kids) <=> Marked(f.kids[1])
         /\ \A s : Good(f, s) => Sound(f.kids[1]) /\ f.kids[1][1].kind \in Room(f, s)
<1>1. f.kids \in Seq(Cells)
  <2> HIDE DEF Cell, Kinds, Lexemes, T!NodeOps, T!Type, Params, Places
  <2> QED BY DEF Frames, Cells
<1>2. PICK k : k = f.kids
  OBVIOUS
<1>3. k \in Seq(Cells) /\ Len(k) = 1
  BY <1>1, <1>2
<1>4. k[1] \in Cells /\ k = <<k[1]>> /\ 1 \in 1..Len(k) /\ \A i \in 1..Len(k) : i = 1
  BY ONLY <1>3
<1> QED BY <1>2, <1>4 DEF SomeMarked, Good

(* A call that returns what it was given.                                  *)
LEMMA GivesFirst ==
  ASSUME Going, Top.do \in {"semicolon", "paren", "infix"}, NEW q, Moves(p, q),
         Return(q, Top.kids[1])
  PROVE  IInv'
<1>1. Runs(Top, Below) /\ Top \in Frames /\ Top.do # "p_parse" /\ Below # <<>>
  BY Underway
<1>2. Len(Top.kids) = 1 /\ Sits(Top, Below)
  BY <1>1 DEF Runs, Fed
<1>3. /\ Top.kids[1] \in Cells
      /\ SomeMarked(Top.kids) <=> Marked(Top.kids[1])
      /\ Good(Top, Below) => Sound(Top.kids[1]) /\ Top.kids[1][1].kind \in Room(Top, Below)
  BY <1>1, <1>2, OnlyKid
<1>4. Room(Top, Below) \subseteq Room(Below[1], Tail(Below))
  <2>1. CASE Top.do = "semicolon"
    BY <1>1, <1>2, <2>1 DEF Sits, Room
  <2>2. CASE Top.do \in {"paren", "infix"}
    BY <1>1, <1>2, <2>2 DEF Sits, Room, Accepts
  <2> QED BY <2>1, <2>2
<1>5. Reaches(q)
  BY ReachesFrom
<1> QED BY <1>1, <1>3, <1>4, <1>5, GivenBack

-----------------------------------------------------------------------------
(* Frames.                                                                 *)

HeadSet == [kind : Kinds, name : Lexemes, op : T!NodeOps, type : T!Type, params : Params]

(* A frame, by its parts.                                                  *)
LEMMA FrameTyped ==
  ASSUME NEW do \in Places, NEW bp \in 0..17, NEW head \in HeadSet, NEW kids \in Seq(Cells),
         NEW f, f = Frame(do, bp, head, kids)
  PROVE  f \in Frames /\ f.do = do /\ f.bp = bp /\ f.head = head /\ f.kids = kids
<1> HIDE DEF Cell, Kinds, Lexemes, T!NodeOps, T!Type, Params, Places
<1> QED BY DEF Frame, Frames, HeadSet, Cells

(* The parts of a frame.                                                   *)
LEMMA FrameParts ==
  ASSUME NEW f \in Frames
  PROVE  f.do \in Places /\ f.bp \in 0..17 /\ f.head \in HeadSet /\ f.kids \in Seq(Cells)
<1> HIDE DEF Cell, Kinds, Lexemes, T!NodeOps, T!Type, Params, Places
<1> QED BY DEF Frames, HeadSet, Cells

(* A frame that goes on elsewhere.                                         *)
LEMMA DoSet ==
  ASSUME NEW f \in Frames, NEW do \in Places, NEW g, g = [f EXCEPT !.do = do]
  PROVE  g \in Frames /\ g.do = do /\ g.bp = f.bp /\ g.head = f.head /\ g.kids = f.kids
<1> HIDE DEF Cell, Kinds, Lexemes, T!NodeOps, T!Type, Params, Places
<1> QED BY DEF Frames

(* A frame with other kids.                                                *)
LEMMA KidsSet ==
  ASSUME NEW f \in Frames, NEW kids \in Seq(Cells), NEW g, g = [f EXCEPT !.kids = kids]
  PROVE  g \in Frames /\ g.do = f.do /\ g.bp = f.bp /\ g.head = f.head /\ g.kids = kids
<1> HIDE DEF Cell, Kinds, Lexemes, T!NodeOps, T!Type, Params, Places
<1> QED BY DEF Frames, Cells

(* A node that has no parameters yet.                                      *)
LEMMA HeadTyped ==
  ASSUME NEW kind \in Kinds, NEW name \in Lexemes, NEW op \in T!NodeOps, NEW type \in T!Type,
         NEW h, h = Head0(kind, name, op, type)
  PROVE  /\ h \in HeadSet /\ h.kind = kind /\ h.op = op /\ h.type = type
         /\ h.params \in Seq(T!Param)
<1>1. PICK e : e = <<>>
  OBVIOUS
<1>2. e \in Params /\ e \in Seq(T!Param)
  BY <1>1, EmptySeq DEF Params
<1>3. h = [kind |-> kind, name |-> name, op |-> op, type |-> type, params |-> e]
  BY <1>1 DEF Head0
<1> HIDE DEF Kinds, Lexemes, T!NodeOps, T!Type, Params
<1> QED BY <1>2, <1>3 DEF HeadSet

(* A node without a name.                                                  *)
LEMMA NodeTyped ==
  ASSUME NEW kind \in Kinds, NEW op \in T!NodeOps, NEW h, h = Node(kind, op)
  PROVE  /\ h \in HeadSet /\ h.kind = kind /\ h.op = op /\ h.type \in T!WrittenType
         /\ h.params \in Seq(T!Param)
<1>1. PICK e : e = ""
  OBVIOUS
<1>2. e \in Lexemes
  BY <1>1 DEF Lexemes
<1>3. none \in T!WrittenType /\ none \in T!Type
  BY DEF none, A!NoType, T!WrittenType, T!Type, Lexemes
<1>4. h = Head0(kind, e, op, none)
  BY <1>1 DEF Node
<1> QED BY <1>2, <1>3, <1>4, HeadTyped

(* The node of a call that builds none.                                    *)
LEMMA NoNodeTyped ==
  /\ NoNode \in HeadSet /\ NoNode.type \in T!WrittenType /\ NoNode.params \in Seq(T!Param)
  /\ NoNode.op # "["
<1>1. PICK e : e = ""
  OBVIOUS
<1>2. e \in Kinds /\ e \in T!NodeOps
  BY <1>1 DEF Kinds, T!NodeOps
<1>3. e # "["
  BY <1>1
<1>4. PICK h : h = Node(e, e)
  OBVIOUS
<1>5. /\ h \in HeadSet /\ h.kind = e /\ h.op = e /\ h.type \in T!WrittenType
      /\ h.params \in Seq(T!Param)
  BY <1>2, <1>4, NodeTyped
<1>6. NoNode = h
  BY <1>1, <1>4 DEF NoNode
<1> QED BY <1>3, <1>5, <1>6

None == <<>>

(* No kids,                                                                *)
LEMMA NoKids ==
  /\ None \in Seq(Cells) /\ Len(None) = 0 /\ 1..Len(None) = {} /\ ~ SomeMarked(None)
<1>1. PICK e : e = None
  OBVIOUS
<1>2. e = <<>> /\ e \in Seq(Cells)
  BY <1>1, EmptySeq DEF None
<1>3. Len(e) = 0 /\ 1..Len(e) = {}
  BY ONLY <1>2
<1> QED BY <1>1, <1>2, <1>3 DEF SomeMarked

(* and one.                                                                *)
LEMMA OneKid ==
  ASSUME NEW term \in Cells, NEW k, k = <<term>>
  PROVE  /\ k \in Seq(Cells) /\ Len(k) = 1 /\ k[1] = term /\ 1..Len(k) = {1}
         /\ SomeMarked(k) <=> Marked(term)
<1>1. k \in Seq(Cells) /\ Len(k) = 1 /\ k[1] = term /\ 1..Len(k) = {1}
  OBVIOUS
<1> QED BY <1>1 DEF SomeMarked

-----------------------------------------------------------------------------
(* The calls that a running call makes: f runs on g, which waits on s.     *)

SitsOn(f, g, s) ==
  /\ f.do # "p_parse"
  /\ f.do = "semicolon" => g.do \in {"p_parse", "stmts"}
  /\ f.do \in {"parseExprBP", "infix", "paren"} => T!ExprKinds \subseteq Room(g, s)
  /\ f.do \in {"params", "stmts", "build", "args", "comma", "ifCond", "ifTrue"} =>
       f.head.kind \in Room(g, s)

(* SitsOn, in terms of the stack.                                          *)
LEMMA SitsThere ==
  ASSUME NEW g \in Frames, NEW s \in Seq(Frames), NEW f, SitsOn(f, g, s)
  PROVE  Sits(f, <<g>> \o s)
<1>1. PICK t : t = <<g>> \o s
  OBVIOUS
<1>2. t # <<>> /\ t[1] = g /\ Tail(t) = s
  BY <1>1, Pile
<1> QED BY <1>1, <1>2 DEF Sits, SitsOn

(* One call goes on in the place of the running one.                       *)
LEMMA Replaced ==
  ASSUME Going, ~ Stuck, NEW q, Reaches(q), NEW f \in Frames, Continue(q, <<f>>),
         HeadFits(f), Fed(f, Len(f.kids)), Sits(f, Below),
         q.errors = <<>> /\ Good(Top, Below) =>
           Good(f, Below) /\ (SomeMarked(f.kids) <=> SomeMarked(Top.kids))
  PROVE  IInv'
<1>1. Below \in Seq(Frames) /\ Runs(Top, Below)
  BY Underway
<1>2. Runs(f, Below)
  BY <1>1 DEF Runs
<1>3. <<f>> \o Tail(calls) = <<f>> \o Below
  BY DEF Below
<1> QED BY <1>2, <1>3, Continued

(* Two, three and four calls are one in front of the others.               *)
LEMMA Cons2 == ASSUME NEW S, NEW f \in S, NEW g \in S PROVE <<f, g>> = <<f>> \o <<g>>
<1>1. PICK x : x = <<g>>
  OBVIOUS
<1>2. x \in Seq(S) /\ Len(x) = 1 /\ x[1] = g
  BY <1>1
<1>3. PICK y : y = <<f>> \o x
  OBVIOUS
<1>a. PICK u : u = <<f>>
  OBVIOUS
<1>b. u \in Seq(S) /\ Len(u) = 1 /\ u[1] = f /\ y = u \o x
  BY <1>3, <1>a
<1>c. /\ y \in Seq(S) /\ Len(y) = 1 + 1 /\ y[1] = u[1]
      /\ y[1 + 1] = x[1]
  <2>1. /\ y \in Seq(S) /\ Len(y) = Len(u) + Len(x)
        /\ \A k \in 1..Len(u) : y[k] = u[k]
        /\ \A k \in 1..Len(x) : y[Len(u) + k] = x[k]
    <3>1. x \in Seq(S) /\ u \in Seq(S) /\ y = u \o x
      BY <1>2, <1>b
    <3> QED BY ONLY <3>1
  <2>2. 1 \in 1..Len(u)
    BY <1>b
  <2>3. \A k \in 1..Len(x) : y[1 + k] = x[k]
    BY <1>b, <2>1
  <2> QED BY <1>2, <1>b, <2>1, <2>2, <2>3
<1>4. y \in Seq(S) /\ Len(y) = 2 /\ y[1] = f /\ y[2] = g
  BY ONLY <1>2, <1>b, <1>c
<1>5. PICK z : z = <<f, g>>
  OBVIOUS
<1>6. z \in Seq(S) /\ Len(z) = 2 /\ z[1] = f /\ z[2] = g
  BY <1>5
<1>7. \A i \in 1..2 : i = 1 \/ i = 2
  OBVIOUS
<1>8. y = z
  BY <1>4, <1>6, <1>7, SeqEqual
<1> QED BY <1>1, <1>3, <1>5, <1>8

LEMMA Cons3 == ASSUME NEW S, NEW f \in S, NEW g \in S, NEW h \in S PROVE <<f, g, h>> = <<f>> \o <<g, h>>
<1>1. PICK x : x = <<g, h>>
  OBVIOUS
<1>2. x \in Seq(S) /\ Len(x) = 2 /\ x[1] = g /\ x[2] = h
  BY <1>1
<1>3. PICK y : y = <<f>> \o x
  OBVIOUS
<1>a. PICK u : u = <<f>>
  OBVIOUS
<1>b. u \in Seq(S) /\ Len(u) = 1 /\ u[1] = f /\ y = u \o x
  BY <1>3, <1>a
<1>c. /\ y \in Seq(S) /\ Len(y) = 1 + 2 /\ y[1] = u[1]
      /\ y[1 + 1] = x[1] /\ y[1 + 2] = x[2]
  <2>1. /\ y \in Seq(S) /\ Len(y) = Len(u) + Len(x)
        /\ \A k \in 1..Len(u) : y[k] = u[k]
        /\ \A k \in 1..Len(x) : y[Len(u) + k] = x[k]
    <3>1. x \in Seq(S) /\ u \in Seq(S) /\ y = u \o x
      BY <1>2, <1>b
    <3> QED BY ONLY <3>1
  <2>2. 1 \in 1..Len(u)
    BY <1>b
  <2>3. \A k \in 1..Len(x) : y[1 + k] = x[k]
    BY <1>b, <2>1
  <2> QED BY <1>2, <1>b, <2>1, <2>2, <2>3
<1>4. y \in Seq(S) /\ Len(y) = 3 /\ y[1] = f /\ y[2] = g /\ y[3] = h
  BY ONLY <1>2, <1>b, <1>c
<1>5. PICK z : z = <<f, g, h>>
  OBVIOUS
<1>6. z \in Seq(S) /\ Len(z) = 3 /\ z[1] = f /\ z[2] = g /\ z[3] = h
  BY <1>5
<1>7. \A i \in 1..3 : i = 1 \/ i = 2 \/ i = 3
  OBVIOUS
<1>8. y = z
  BY <1>4, <1>6, <1>7, SeqEqual
<1> QED BY <1>1, <1>3, <1>5, <1>8

LEMMA Cons4 == ASSUME NEW S, NEW f \in S, NEW g \in S, NEW h \in S, NEW i \in S PROVE <<f, g, h, i>> = <<f>> \o <<g, h, i>>
<1>1. PICK x : x = <<g, h, i>>
  OBVIOUS
<1>2. x \in Seq(S) /\ Len(x) = 3 /\ x[1] = g /\ x[2] = h /\ x[3] = i
  BY <1>1
<1>3. PICK y : y = <<f>> \o x
  OBVIOUS
<1>a. PICK u : u = <<f>>
  OBVIOUS
<1>b. u \in Seq(S) /\ Len(u) = 1 /\ u[1] = f /\ y = u \o x
  BY <1>3, <1>a
<1>c. /\ y \in Seq(S) /\ Len(y) = 1 + 3 /\ y[1] = u[1]
      /\ y[1 + 1] = x[1] /\ y[1 + 2] = x[2] /\ y[1 + 3] = x[3]
  <2>1. /\ y \in Seq(S) /\ Len(y) = Len(u) + Len(x)
        /\ \A k \in 1..Len(u) : y[k] = u[k]
        /\ \A k \in 1..Len(x) : y[Len(u) + k] = x[k]
    <3>1. x \in Seq(S) /\ u \in Seq(S) /\ y = u \o x
      BY <1>2, <1>b
    <3> QED BY ONLY <3>1
  <2>2. 1 \in 1..Len(u)
    BY <1>b
  <2>3. \A k \in 1..Len(x) : y[1 + k] = x[k]
    BY <1>b, <2>1
  <2> QED BY <1>2, <1>b, <2>1, <2>2, <2>3
<1>4. y \in Seq(S) /\ Len(y) = 4 /\ y[1] = f /\ y[2] = g /\ y[3] = h /\ y[4] = i
  BY ONLY <1>2, <1>b, <1>c
<1>5. PICK z : z = <<f, g, h, i>>
  OBVIOUS
<1>6. z \in Seq(S) /\ Len(z) = 4 /\ z[1] = f /\ z[2] = g /\ z[3] = h /\ z[4] = i
  BY <1>5
<1>7. \A j \in 1..4 : j = 1 \/ j = 2 \/ j = 3 \/ j = 4
  OBVIOUS
<1>8. y = z
  BY <1>4, <1>6, <1>7, SeqEqual
<1> QED BY <1>1, <1>3, <1>5, <1>8

(* Stacks are put together from either end.                                *)
LEMMA Assoc ==
  ASSUME NEW S, NEW f \in S, NEW x \in Seq(S), NEW b \in Seq(S)
  PROVE  (<<f>> \o x) \o b = <<f>> \o (x \o b)
<1>1. <<f>> \in Seq(S)
  OBVIOUS
<1> QED BY <1>1, ConcatAssociative

(* Two and three calls in front of a stack.                                *)
LEMMA InFront2 ==
  ASSUME NEW S, NEW f \in S, NEW g \in S, NEW b \in Seq(S)
  PROVE  <<f, g>> \o b = <<f>> \o (<<g>> \o b)
<1>1. <<g>> \in Seq(S)
  OBVIOUS
<1> QED BY <1>1, Cons2, Assoc

LEMMA InFront3 ==
  ASSUME NEW S, NEW f \in S, NEW g \in S, NEW h \in S, NEW b \in Seq(S)
  PROVE  <<f, g, h>> \o b = <<f>> \o (<<g>> \o (<<h>> \o b))
<1>1. PICK x : x = <<g, h>>
  OBVIOUS
<1>2. x \in Seq(S) /\ x \o b = <<g>> \o (<<h>> \o b)
  BY <1>1, InFront2
<1>3. <<f, g, h>> = <<f>> \o x
  BY <1>1, Cons3
<1>4. (<<f>> \o x) \o b = <<f>> \o (x \o b)
  BY <1>2, Assoc
<1> QED BY <1>2, <1>3, <1>4

(* One call on another one,                                                *)
LEMMA Called ==
  ASSUME Going, ~ Stuck, NEW q, Reaches(q), NEW f \in Frames, NEW g \in Frames,
         Continue(q, <<f, g>>),
         HeadFits(f), Fed(f, Len(f.kids)), SitsOn(f, g, Below), WaitsAt(g, Below),
         q.errors = <<>> /\ Good(Top, Below) =>
           /\ \A s : Good(f, s)
           /\ Good(g, Below)
           /\ SomeMarked(f.kids) \/ SomeMarked(g.kids) <=> SomeMarked(Top.kids)
  PROVE  IInv'
<1>1. Below \in Seq(Frames) /\ Runs(Top, Below)
  BY Underway
<1>2. PICK s : s = <<g>> \o Below
  OBVIOUS
<1>3. /\ s \in Seq(Frames)
      /\ Waits(s) <=> WaitsAt(g, Below) /\ Waits(Below)
      /\ AllGood(s) <=> Good(g, Below) /\ AllGood(Below)
      /\ MarkedIn(s) <=> SomeMarked(g.kids) \/ MarkedIn(Below)
  BY <1>1, <1>2, Pile
<1>4. Sits(f, s)
  BY <1>1, <1>2, SitsThere
<1>5. Runs(f, s)
  BY <1>1, <1>3, <1>4 DEF Runs
<1>6. <<f, g>> \o Tail(calls) = <<f>> \o s
  <2>1. PICK b : b = Below
    OBVIOUS
  <2>2. b \in Seq(Frames)
    BY <1>1, <2>1
  <2>3. <<f, g>> \o b = <<f>> \o (<<g>> \o b)
    BY <2>2, InFront2
  <2> QED BY <1>2, <2>1, <2>3 DEF Below
<1>7. q.errors = <<>> /\ Good(Top, Below) /\ AllGood(Below) =>
        /\ Good(f, s) /\ AllGood(s)
        /\ SomeMarked(f.kids) \/ MarkedIn(s) <=> SomeMarked(Top.kids) \/ MarkedIn(Below)
  BY <1>3
<1> QED BY <1>5, <1>6, <1>7, Continued

(* on two,                                                                 *)
LEMMA CalledTwice ==
  ASSUME Going, ~ Stuck, NEW q, Reaches(q), NEW f \in Frames, NEW g \in Frames, NEW h \in Frames,
         Continue(q, <<f, g, h>>),
         HeadFits(f), Fed(f, Len(f.kids)),
         SitsOn(f, g, <<h>> \o Below),
         HeadFits(g), Fed(g, Len(g.kids) + 1), SitsOn(g, h, Below), WaitsAt(h, Below),
         q.errors = <<>> /\ Good(Top, Below) =>
           /\ \A s : Good(f, s)
           /\ Good(g, <<h>> \o Below)
           /\ Good(h, Below)
           /\ SomeMarked(f.kids) \/ SomeMarked(g.kids) \/ SomeMarked(h.kids) <=> SomeMarked(Top.kids)
  PROVE  IInv'
<1>1. Below \in Seq(Frames) /\ Runs(Top, Below)
  BY Underway
<1>2. PICK r : r = <<h>> \o Below
  OBVIOUS
<1>3. /\ r \in Seq(Frames)
      /\ Waits(r) <=> WaitsAt(h, Below) /\ Waits(Below)
      /\ AllGood(r) <=> Good(h, Below) /\ AllGood(Below)
      /\ MarkedIn(r) <=> SomeMarked(h.kids) \/ MarkedIn(Below)
  BY <1>1, <1>2, Pile
<1>4. PICK s : s = <<g>> \o r
  OBVIOUS
<1>5. /\ s \in Seq(Frames)
      /\ Waits(s) <=> WaitsAt(g, r) /\ Waits(r)
      /\ AllGood(s) <=> Good(g, r) /\ AllGood(r)
      /\ MarkedIn(s) <=> SomeMarked(g.kids) \/ MarkedIn(r)
  BY <1>3, <1>4, Pile
<1>6. Sits(g, r)
  BY <1>1, <1>2, SitsThere
<1>7. Sits(f, s)
  BY <1>2, <1>3, <1>4, SitsThere
<1>8. Waits(Below)
  BY <1>1 DEF Runs
<1>9. Runs(f, s)
  BY <1>3, <1>5, <1>6, <1>7, <1>8 DEF Runs, WaitsAt
<1>a. <<f, g, h>> \o Tail(calls) = <<f>> \o s
  <2>1. PICK b : b = Below
    OBVIOUS
  <2>2. b \in Seq(Frames)
    BY <1>1, <2>1
  <2>3. <<f, g, h>> \o b = <<f>> \o (<<g>> \o (<<h>> \o b))
    BY <2>2, InFront3
  <2> QED BY <1>2, <1>4, <2>1, <2>3 DEF Below
<1>b. q.errors = <<>> /\ Good(Top, Below) /\ AllGood(Below) =>
        /\ Good(f, s) /\ AllGood(s)
        /\ SomeMarked(f.kids) \/ MarkedIn(s) <=> SomeMarked(Top.kids) \/ MarkedIn(Below)
  BY <1>2, <1>3, <1>5
<1> QED BY <1>9, <1>a, <1>b, Continued

(* and on three.                                                           *)
LEMMA CalledThrice ==
  ASSUME Going, ~ Stuck, NEW q, Reaches(q), NEW f \in Frames, NEW g \in Frames, NEW h \in Frames,
         NEW i \in Frames, Continue(q, <<f, g, h, i>>),
         HeadFits(f), Fed(f, Len(f.kids)), SitsOn(f, g, <<h>> \o (<<i>> \o Below)),
         HeadFits(g), Fed(g, Len(g.kids) + 1), SitsOn(g, h, <<i>> \o Below),
         HeadFits(h), Fed(h, Len(h.kids) + 1), SitsOn(h, i, Below), WaitsAt(i, Below),
         q.errors = <<>> /\ Good(Top, Below) =>
           /\ \A s : Good(f, s)
           /\ Good(g, <<h>> \o (<<i>> \o Below))
           /\ Good(h, <<i>> \o Below)
           /\ Good(i, Below)
           /\ SomeMarked(f.kids) \/ SomeMarked(g.kids) \/ SomeMarked(h.kids) \/ SomeMarked(i.kids)
                <=> SomeMarked(Top.kids)
  PROVE  IInv'
<1>1. Below \in Seq(Frames) /\ Runs(Top, Below)
  BY Underway
<1>2. PICK r : r = <<i>> \o Below
  OBVIOUS
<1>3. /\ r \in Seq(Frames)
      /\ Waits(r) <=> WaitsAt(i, Below) /\ Waits(Below)
      /\ AllGood(r) <=> Good(i, Below) /\ AllGood(Below)
      /\ MarkedIn(r) <=> SomeMarked(i.kids) \/ MarkedIn(Below)
  BY <1>1, <1>2, Pile
<1>4. PICK s : s = <<h>> \o r
  OBVIOUS
<1>5. /\ s \in Seq(Frames)
      /\ Waits(s) <=> WaitsAt(h, r) /\ Waits(r)
      /\ AllGood(s) <=> Good(h, r) /\ AllGood(r)
      /\ MarkedIn(s) <=> SomeMarked(h.kids) \/ MarkedIn(r)
  BY <1>3, <1>4, Pile
<1>6. PICK t : t = <<g>> \o s
  OBVIOUS
<1>7. /\ t \in Seq(Frames)
      /\ Waits(t) <=> WaitsAt(g, s) /\ Waits(s)
      /\ AllGood(t) <=> Good(g, s) /\ AllGood(s)
      /\ MarkedIn(t) <=> SomeMarked(g.kids) \/ MarkedIn(s)
  BY <1>5, <1>6, Pile
<1>8. Sits(h, r)
  BY <1>1, <1>2, SitsThere
<1>9. Sits(g, s)
  BY <1>2, <1>3, <1>4, SitsThere
<1>a. Sits(f, t)
  BY <1>2, <1>4, <1>5, <1>6, SitsThere
<1>b. Waits(Below)
  BY <1>1 DEF Runs
<1>c. Runs(f, t)
  BY <1>3, <1>5, <1>7, <1>8, <1>9, <1>a, <1>b DEF Runs, WaitsAt
<1>d. <<f, g, h, i>> \o Tail(calls) = <<f>> \o t
  <2>1. PICK b : b = Below
    OBVIOUS
  <2>2. b \in Seq(Frames)
    BY <1>1, <2>1
  <2>3. <<f, g, h, i>> \o b = <<f>> \o (<<g>> \o (<<h>> \o (<<i>> \o b)))
    <3>1. PICK x : x = <<g, h, i>>
      OBVIOUS
    <3>2. x \in Seq(Frames) /\ x \o b = <<g>> \o (<<h>> \o (<<i>> \o b))
      BY <2>2, <3>1, InFront3
    <3>3. <<f, g, h, i>> = <<f>> \o x
      BY <3>1, Cons4
    <3>4. (<<f>> \o x) \o b = <<f>> \o (x \o b)
      BY <2>2, <3>2, Assoc
    <3> QED BY <3>2, <3>3, <3>4
  <2> QED BY <1>2, <1>4, <1>6, <2>1, <2>3 DEF Below
<1>e. q.errors = <<>> /\ Good(Top, Below) /\ AllGood(Below) =>
        /\ Good(f, t) /\ AllGood(t)
        /\ SomeMarked(f.kids) \/ MarkedIn(t) <=> SomeMarked(Top.kids) \/ MarkedIn(Below)
  BY <1>2, <1>3, <1>4, <1>5, <1>7
<1> QED BY <1>c, <1>d, <1>e, Continued

-----------------------------------------------------------------------------
(* An action that is taken is taken by a parser that goes on.              *)
LEMMA OnGoing ==
  ASSUME IInv, NEW do, On(do)
  PROVE  /\ Going /\ Top.do = do /\ source \in Seq(Delivered) /\ Legal(p)
         /\ do # "p_parse" => ~ Stuck
<1>1. Going /\ Top.do = do
  BY DEF On, Going
<1> QED BY <1>1, Underway

(* None of these is the token '['.                                         *)
LEMMA NotAnIndex == "{" # "[" /\ "}" # "[" /\ ";" # "[" /\ "" # "["
OBVIOUS

(* The actions that return a node, one by one.                             *)
LEMMA buildKeeps ==
  ASSUME IInv, build
  PROVE  IInv'
<1>1. On("build") /\ Return(p, Built(Top))
  BY DEF build
<1>2. Going /\ Top.do = "build" /\ source \in Seq(Delivered) /\ Legal(p)
  BY <1>1, OnGoing
<1> QED BY <1>1, <1>2, MovesSelf, GivesBuilt

LEMMA stmtsEndKeeps ==
  ASSUME IInv, stmtsEnd
  PROVE  IInv'
<1>1. On("stmts") /\ Kind(p) # "[" /\ Return(p_next(p), Built(Top))
  BY NotAnIndex DEF stmtsEnd
<1>2. Going /\ Top.do = "stmts" /\ source \in Seq(Delivered) /\ Legal(p)
  BY <1>1, OnGoing
<1> QED BY <1>1, <1>2, MovesNext, GivesBuilt

LEMMA semicolonKeeps ==
  ASSUME IInv, semicolon
  PROVE  IInv'
<1>0. PICK type : type = ";"
  OBVIOUS
<1>1. On("semicolon") /\ Return(p_consume(p, type), Top.kids[1]) /\ type # "["
  BY <1>0, NotAnIndex DEF semicolon
<1>2. Going /\ Top.do = "semicolon" /\ source \in Seq(Delivered) /\ Legal(p)
  BY <1>1, OnGoing
<1> QED BY <1>1, <1>2, MovesConsume, GivesFirst

LEMMA parenKeeps ==
  ASSUME IInv, paren
  PROVE  IInv'
<1>1. On("paren") /\ Return(p_consume(p, ")"), Top.kids[1])
  BY DEF paren
<1>2. Going /\ Top.do = "paren" /\ source \in Seq(Delivered) /\ Legal(p)
  BY <1>1, OnGoing
<1>3. Moves(p, p_consume(p, ")"))
  BY <1>2, MovesConsume
<1> QED BY <1>1, <1>2, <1>3, GivesFirst

LEMMA exprEndKeeps ==
  ASSUME IInv, exprEnd
  PROVE  IInv'
<1>1. On("infix") /\ Return(p, Top.kids[1])
  BY DEF exprEnd, lhs
<1>2. Going /\ Top.do = "infix" /\ source \in Seq(Delivered) /\ Legal(p)
  BY <1>1, OnGoing
<1> QED BY <1>1, <1>2, MovesSelf, GivesFirst

-----------------------------------------------------------------------------
(* Frames that are new.                                                    *)

(* parseExprBP, before it has read its operand.                            *)
LEMMA ExprFrame ==
  ASSUME NEW bp \in 0..17, NEW f, f = parseExprBP(bp)
  PROVE  /\ f \in Frames /\ f.do = "parseExprBP" /\ HeadFits(f) /\ Fed(f, Len(f.kids))
         /\ ~ SomeMarked(f.kids) /\ \A s : Good(f, s)
<1>1. "parseExprBP" \in Places
  BY DEF Places
<1>2. f = Frame("parseExprBP", bp, NoNode, None)
  BY DEF parseExprBP, None
<1>3. f \in Frames /\ f.do = "parseExprBP" /\ f.head = NoNode /\ f.kids = None
  <2>1. None \in Seq(Cells) /\ NoNode \in HeadSet
    BY NoKids, NoNodeTyped
  <2> QED BY ONLY <1>1, <1>2, <2>1, bp \in 0..17, FrameTyped
<1>4. HeadFits(f)
  BY <1>3 DEF HeadFits
<1>5. Fed(f, Len(f.kids))
  BY <1>3, NoKids DEF Fed
<1>6. ASSUME NEW s
      PROVE  Good(f, s)
  BY <1>3, NoKids, NoNodeTyped DEF Good
<1> QED BY <1>3, <1>4, <1>5, <1>6, NoKids

(* A call that is building a node and has no kids.                         *)
LEMMA EmptyFrame ==
  ASSUME NEW do \in Places, NEW head \in HeadSet, NEW f, f = At(do, head, <<>>)
  PROVE  /\ f \in Frames /\ f.do = do /\ f.head = head /\ f.kids = None /\ Len(f.kids) = 0
         /\ ~ SomeMarked(f.kids)
         /\ head.type \in T!WrittenType /\ head.params \in Seq(T!Param) /\ head.op # "[" =>
              \A s : Good(f, s)
<1>1. f = Frame(do, 0, head, None)
  BY DEF At, None
<1>2. 0 \in 0..17
  OBVIOUS
<1>3. f \in Frames /\ f.do = do /\ f.head = head /\ f.kids = None
  <2>1. None \in Seq(Cells)
    BY NoKids
  <2> QED BY ONLY <1>1, <1>2, <2>1, do \in Places, head \in HeadSet, FrameTyped
<1>4. ASSUME head.type \in T!WrittenType, head.params \in Seq(T!Param), head.op # "[", NEW s
      PROVE  Good(f, s)
  BY <1>3, <1>4, NoKids DEF Good
<1> QED BY <1>3, <1>4, NoKids

(* parseExprBP, when it goes on as a loop.                                 *)
LEMMA LoopFrame ==
  ASSUME Going, Top.do = "parseExprBP"
  PROVE  /\ Loop \in Frames /\ Loop.do = "infix" /\ Loop.head = Top.head /\ Sits(Loop, Below)
         /\ WaitsAt(Loop, Below) /\ ~ SomeMarked(Top.kids) /\ ~ SomeMarked(Loop.kids)
         /\ Good(Top, Below) => Good(Loop, Below)
<1>1. Runs(Top, Below) /\ Top \in Frames
  BY Underway
<1>2. HeadFits(Top) /\ Fed(Top, Len(Top.kids)) /\ Sits(Top, Below)
  BY <1>1 DEF Runs
<1>3. Len(Top.kids) = 0
  BY <1>2 DEF Fed
<1>4. "infix" \in Places
  BY DEF Places
<1>5. PICK f : f = Loop
  OBVIOUS
<1>6. f \in Frames /\ f.do = "infix" /\ f.head = Top.head /\ f.kids = Top.kids
  BY <1>1, <1>4, <1>5, DoSet DEF Loop
<1>7. HeadFits(f)
  BY <1>6 DEF HeadFits
<1>8. Fed(f, Len(f.kids) + 1)
  BY <1>3, <1>6 DEF Fed
<1>9. Sits(f, Below)
  BY <1>2, <1>6 DEF Sits
<1>a. 1..Len(Top.kids) = {}
  BY <1>3
<1>b. ~ SomeMarked(Top.kids)
  BY <1>a DEF SomeMarked
<1>c. Good(Top, Below) => Good(f, Below)
  BY <1>6, <1>a DEF Good
<1> QED BY <1>5, <1>6, <1>7, <1>8, <1>9, <1>b, <1>c DEF WaitsAt

(* An operand that needs an expression of its own.                         *)
LEMMA OperandCalls ==
  ASSUME Going, Top.do = "parseExprBP", NEW q, Reaches(q), NEW bp \in 0..17,
         NEW do \in {"build", "paren", "ifCond"}, NEW head \in HeadSet,
         do = "build" => head.kind \in {"UNOP", "EXIT"}, do = "ifCond" => head.kind = "IF",
         head.type \in T!WrittenType, head.params \in Seq(T!Param), head.op # "[",
         Continue(q, <<parseExprBP(bp), At(do, head, <<>>), Loop>>)
  PROVE  IInv'
<1>1. PICK f : f = parseExprBP(bp)
  OBVIOUS
<1>2. PICK g : g = At(do, head, <<>>)
  OBVIOUS
<1>3. PICK h : h = Loop
  OBVIOUS
<1>4. Continue(q, <<f, g, h>>)
  BY <1>1, <1>2, <1>3
<1>5. /\ f \in Frames /\ f.do = "parseExprBP" /\ HeadFits(f) /\ Fed(f, Len(f.kids))
      /\ ~ SomeMarked(f.kids) /\ \A s : Good(f, s)
  BY <1>1, ExprFrame
<1>6. do \in Places
  BY DEF Places
<1>7. /\ g \in Frames /\ g.do = do /\ g.head = head /\ Len(g.kids) = 0
      /\ ~ SomeMarked(g.kids) /\ \A s : Good(g, s)
  BY <1>2, <1>6, EmptyFrame
<1>8. /\ h \in Frames /\ h.do = "infix" /\ WaitsAt(h, Below)
      /\ ~ SomeMarked(Top.kids) /\ ~ SomeMarked(h.kids) /\ (Good(Top, Below) => Good(h, Below))
  BY <1>3, LoopFrame
<1>9. HeadFits(g)
  BY <1>7 DEF HeadFits
<1>a. Fed(g, Len(g.kids) + 1)
  BY <1>7 DEF Fed
<1>b. SitsOn(f, g, <<h>> \o Below)
  <2>1. Room(g, <<h>> \o Below) = T!ExprKinds
    BY <1>7 DEF Room, Accepts
  <2> QED BY <1>5, <2>1 DEF SitsOn
<1>c. SitsOn(g, h, Below)
  <2>1. Room(h, Below) = T!ExprKinds
    BY <1>8 DEF Room, Accepts
  <2>2. do # "paren" => head.kind \in T!ExprKinds
    BY DEF T!ExprKinds
  <2> QED BY <1>7, <2>1, <2>2 DEF SitsOn
<1>d. ~ Stuck
  BY Underway
<1> QED BY <1>4, <1>5, <1>7, <1>8, <1>9, <1>a, <1>b, <1>c, <1>d, CalledTwice

(* An operand that is there at once.                                       *)
LEMMA OperandRead ==
  ASSUME Going, Top.do = "parseExprBP", NEW q, Reaches(q), NEW term \in Cells,
         q.errors = <<>> => Sound(term) /\ term[1].kind \in T!ExprKinds /\ ~ Marked(term),
         Continue(q, LoopWith(term))
  PROVE  IInv'
<1>1. /\ Loop \in Frames /\ Loop.do = "infix" /\ Loop.head = Top.head /\ Sits(Loop, Below)
      /\ ~ SomeMarked(Top.kids) /\ (Good(Top, Below) => Good(Loop, Below))
  BY LoopFrame
<1>2. PICK kids : kids = <<term>>
  OBVIOUS
<1>3. /\ kids \in Seq(Cells) /\ Len(kids) = 1 /\ kids[1] = term /\ 1..Len(kids) = {1}
      /\ SomeMarked(kids) <=> Marked(term)
  BY <1>2, OneKid
<1>4. PICK f : f = [Loop EXCEPT !.kids = kids]
  OBVIOUS
<1>5. f \in Frames /\ f.do = "infix" /\ f.head = Top.head /\ f.kids = kids
  BY <1>1, <1>3, <1>4, KidsSet
<1>6. Continue(q, <<f>>)
  BY <1>2, <1>4 DEF LoopWith
<1>7. HeadFits(f) /\ Fed(f, Len(f.kids))
  BY <1>3, <1>5 DEF HeadFits, Fed
<1>8. Sits(f, Below)
  BY <1>1, <1>5 DEF Sits
<1>9. Room(f, Below) = T!ExprKinds
  BY <1>5 DEF Room, Accepts
<1>a. q.errors = <<>> /\ Good(Top, Below) =>
        Good(f, Below) /\ (SomeMarked(f.kids) <=> SomeMarked(Top.kids))
  BY <1>1, <1>3, <1>5, <1>9 DEF Good
<1>b. ~ Stuck
  BY Underway
<1> QED BY <1>5, <1>6, <1>7, <1>8, <1>a, <1>b, Replaced

-----------------------------------------------------------------------------
(* Operands.                                                               *)

(* The operators and keywords that nodes are made of.                      *)
LEMMA Operators ==
  \A op \in Prefix \cup Infix \cup {"return", "break"} : op \in T!NodeOps /\ op # "["
BY DEF Prefix, Infix, T!NodeOps

(* The kinds of node that the parser makes.                                *)
LEMMA KindsThere ==
  /\ "UNOP" \in Kinds /\ "EXIT" \in Kinds /\ "IF" \in Kinds /\ "BINOP" \in Kinds
  /\ "CALL" \in Kinds /\ "BLOCK" \in Kinds /\ "DECL_VAR" \in Kinds /\ "DECL_FUNC" \in Kinds
  /\ "GARBAGE" \in Kinds /\ "NULL" \in Kinds
  /\ "" \in T!NodeOps /\ "" \in Lexemes
BY DEF Kinds, T!NodeKinds, T!ExprKinds, T!NodeOps, Lexemes

(* The actions that read an operand, one by one.                           *)
LEMMA prefixKeeps ==
  ASSUME IInv, prefix
  PROVE  IInv'
<1>1. PICK op, bp, head : op = Kind(p) /\ bp = prefixBp /\ head = Node("UNOP", op)
  OBVIOUS
<1>2. /\ On("parseExprBP") /\ op \in Prefix
      /\ Continue(p_next(p), <<parseExprBP(bp), At("build", head, <<>>), Loop>>)
  BY <1>1 DEF prefix, Build
<1>3. Going /\ Top.do = "parseExprBP" /\ source \in Seq(Delivered) /\ Legal(p)
  BY <1>2, OnGoing
<1>4. op \in T!NodeOps /\ op # "["
  BY <1>2, Operators
<1>5. /\ head \in HeadSet /\ head.kind = "UNOP" /\ head.op = op /\ head.type \in T!WrittenType
      /\ head.params \in Seq(T!Param)
  BY <1>1, <1>4, KindsThere, NodeTyped
<1>6. Reaches(p_next(p))
  BY <1>1, <1>3, <1>4, MovesNext, ReachesFrom
<1>7. bp \in 0..17
  BY <1>1 DEF prefixBp
<1> QED BY <1>2, <1>3, <1>4, <1>5, <1>6, <1>7, OperandCalls

LEMMA primaryExitKeeps ==
  ASSUME IInv, primaryExit
  PROVE  IInv'
<1>1. PICK op, head : op = Kind(p) /\ head = Node("EXIT", op)
  OBVIOUS
<1>2. /\ On("parseExprBP") /\ op \in {"return", "break"}
      /\ Continue(p_next(p), <<parseExprBP(0), At("build", head, <<>>), Loop>>)
  BY <1>1 DEF primaryExit, Build, parseExpression
<1>3. Going /\ Top.do = "parseExprBP" /\ source \in Seq(Delivered) /\ Legal(p)
  BY <1>2, OnGoing
<1>4. op \in T!NodeOps /\ op # "["
  BY <1>2, Operators
<1>5. /\ head \in HeadSet /\ head.kind = "EXIT" /\ head.op = op /\ head.type \in T!WrittenType
      /\ head.params \in Seq(T!Param)
  BY <1>1, <1>4, KindsThere, NodeTyped
<1>6. Reaches(p_next(p))
  BY <1>1, <1>3, <1>4, MovesNext, ReachesFrom
<1>7. 0 \in 0..17
  OBVIOUS
<1> QED BY <1>2, <1>3, <1>4, <1>5, <1>6, <1>7, OperandCalls

LEMMA primaryIfKeeps ==
  ASSUME IInv, primaryIf
  PROVE  IInv'
<1>1. PICK op : op = ""
  OBVIOUS
<1>2. PICK head : head = Node("IF", op)
  OBVIOUS
<1>3. /\ On("parseExprBP") /\ Kind(p) = "if"
      /\ Continue(p_next(p), <<parseExprBP(0), At("ifCond", head, <<>>), Loop>>)
  BY <1>1, <1>2 DEF primaryIf, parseExpression
<1>4. Going /\ Top.do = "parseExprBP" /\ source \in Seq(Delivered) /\ Legal(p)
  BY <1>3, OnGoing
<1>5. op \in T!NodeOps /\ op # "["
  BY <1>1, KindsThere, NotAnIndex
<1>6. /\ head \in HeadSet /\ head.kind = "IF" /\ head.op = op /\ head.type \in T!WrittenType
      /\ head.params \in Seq(T!Param)
  BY <1>2, <1>5, KindsThere, NodeTyped
<1>7. Reaches(p_next(p))
  BY <1>3, <1>4, MovesNext, ReachesFrom
<1>8. 0 \in 0..17
  OBVIOUS
<1> QED BY <1>3, <1>4, <1>5, <1>6, <1>7, <1>8, OperandCalls

LEMMA primaryLeafKeeps ==
  ASSUME IInv, primaryLeaf
  PROVE  IInv'
<1>1. PICK e : e = ""
  OBVIOUS
<1>2. PICK term : term = LeafOf(p)
  OBVIOUS
<1>3. /\ On("parseExprBP") /\ Kind(p) \in {"IDENT", "INT", "true", "false"}
      /\ Continue(p_next(p), LoopWith(term))
  BY <1>2 DEF primaryLeaf
<1>4. Going /\ Top.do = "parseExprBP" /\ source \in Seq(Delivered) /\ Legal(p)
  BY <1>3, OnGoing
<1>5. e \in T!NodeOps /\ e # "[" /\ e \in Lexemes
  BY <1>1, KindsThere, NotAnIndex
<1>6. /\ Kind(p) = "IDENT" => term = Leaf("IDENT", Lexeme(p), e, 0)
      /\ Kind(p) = "INT" => term = Leaf("LITERAL", e, "INT", Value[Lexeme(p)])
      /\ Kind(p) = "true" => term = Leaf("LITERAL", e, "BOOL", 1)
      /\ Kind(p) = "false" => term = Leaf("LITERAL", e, "BOOL", 0)
  BY <1>1, <1>2 DEF LeafOf, id, int, true, false
<1>7. Lexeme(p) \in Lexemes /\ (Kind(p) = "INT" => Value[Lexeme(p)] \in Nat)
  BY <1>4, WhatIsThere
<1>8. PICK kind \in LeafKinds, name \in Lexemes, op \in T!NodeOps, val \in Nat :
        op # "[" /\ term = Leaf(kind, name, op, val)
  <2>1. "IDENT" \in LeafKinds /\ "LITERAL" \in LeafKinds
    BY DEF LeafKinds
  <2>2. "INT" \in T!NodeOps /\ "BOOL" \in T!NodeOps
    BY DEF T!NodeOps
  <2>3. 0 \in Nat /\ 1 \in Nat
    OBVIOUS
  <2> HIDE DEF LeafKinds
  <2>4. CASE Kind(p) = "IDENT"
    BY <1>5, <1>6, <1>7, <2>1, <2>3, <2>4
  <2>5. CASE Kind(p) = "INT"
    BY <1>5, <1>6, <1>7, <2>1, <2>2, <2>5
  <2>6. CASE Kind(p) = "true"
    BY <1>5, <1>6, <2>1, <2>2, <2>3, <2>6
  <2>7. CASE Kind(p) = "false"
    BY <1>5, <1>6, <2>1, <2>2, <2>3, <2>7
  <2> QED BY <1>3, <2>4, <2>5, <2>6, <2>7
<1>9. Sound(term) /\ term[1].kind = kind /\ kind \in T!ExprKinds /\ ~ Marked(term)
  BY <1>8, LeafSound
<1>a. term \in Cells
  BY <1>9 DEF Sound
<1>b. Reaches(p_next(p))
  BY <1>3, <1>4, MovesNext, ReachesFrom
<1> QED BY <1>3, <1>4, <1>9, <1>a, <1>b, OperandRead

LEMMA primaryParenKeeps ==
  ASSUME IInv, primaryParen
  PROVE  IInv'
<1>1. PICK q : q = p_next(p)
  OBVIOUS
<1>2. /\ On("parseExprBP") /\ Kind(p) = "("
      /\ \/ Continue(q, LoopWith(unit))
         \/ Continue(q, <<parseExprBP(0), At("paren", NoNode, <<>>), Loop>>)
  BY <1>1 DEF primaryParen, parseExpression
<1>3. Going /\ Top.do = "parseExprBP" /\ source \in Seq(Delivered) /\ Legal(p)
  BY <1>2, OnGoing
<1>4. Reaches(q)
  BY <1>1, <1>2, <1>3, MovesNext, ReachesFrom
<1>5. CASE Continue(q, LoopWith(unit))
  <2>1. PICK e : e = ""
    OBVIOUS
  <2>2. e \in T!NodeOps /\ e # "[" /\ e \in Lexemes
    BY <2>1, KindsThere, NotAnIndex
  <2>3. unit = Leaf("TUPLE", e, e, 0)
    BY <2>1 DEF unit
  <2>4. 0 \in Nat /\ "TUPLE" \in LeafKinds
    BY DEF LeafKinds
  <2>5. Sound(unit) /\ unit[1].kind = "TUPLE" /\ "TUPLE" \in T!ExprKinds /\ ~ Marked(unit)
    BY <2>2, <2>3, <2>4, LeafSound
  <2>6. unit \in Cells
    BY <2>5 DEF Sound
  <2> QED BY <1>3, <1>4, <1>5, <2>5, <2>6, OperandRead
<1>6. CASE Continue(q, <<parseExprBP(0), At("paren", NoNode, <<>>), Loop>>)
  <2>1. 0 \in 0..17
    OBVIOUS
  <2> QED BY <1>3, <1>4, <1>6, <2>1, NoNodeTyped, OperandCalls
<1> QED BY <1>2, <1>5, <1>6

(* A step that ends p_parse in a crash or for want of memory.              *)
LEMMA Ended ==
  ASSUME TypeOK, source' = source, outcome' \in {"crashed", "exhausted"}, calls' \in Seq(Frames),
         tree' = tree, outcome = "parsing", Legal(p'), p'.items <= MaxItems + 2,
         p'.errors = <<>> => outcome' # "crashed" /\ Quiet(p')
  PROVE  IInv'
<1>1. TypeOK'
  <2>1. source' \in Seq(Delivered) /\ outcome' \in Outcomes /\ (outcome' # "done" => tree' = <<>>)
    BY DEF TypeOK, Outcomes
  <2>2. p' \in [pos : 1..(Len(source) + 1), items : Nat, errors : Seq(Message), warnings : Seq(Message)]
        /\ Len(p'.errors) <= MaxErrors /\ Len(p'.warnings) <= MaxErrors
    BY DEF Legal
  <2>3. MaxItems \in Nat
    BY SourcesAssumption
  <2> HIDE DEF Message
  <2>4. p'.items \in 0..(MaxItems + 2)
    BY <2>2, <2>3
  <2>5. p' \in [pos : 1..(Len(source') + 1), items : 0..(MaxItems + 2),
                errors : Seq(Message), warnings : Seq(Message)]
    BY <2>2, <2>4
  <2> QED BY <2>1, <2>2, <2>5 DEF TypeOK
<1>2. StackRight' /\ ContentRight'
  BY DEF StackRight, ContentRight, Quiet
<1> QED BY <1>1, <1>2 DEF IInv

LEMMA primaryUnexpectedKeeps ==
  ASSUME IInv, primaryUnexpected
  PROVE  IInv'
<1>1. PICK m : m = Formatted("Unexpected ...")
  OBVIOUS
<1>2. m \in Message
  BY <1>1 DEF Formatted, Message, Texts, ParserTexts
<1>3. PICK r, q : r = Refuse(p, m) /\ q = p_next(r)
  OBVIOUS
<1>4. /\ On("parseExprBP")
      /\ \/ Continue(q, LoopWith(Garbage))
         \/ outcome' = "crashed" /\ calls' = <<>> /\ p' = q /\ UNCHANGED <<source, tree>>
  BY <1>1, <1>3 DEF primaryUnexpected
<1>5. /\ Going /\ Top.do = "parseExprBP" /\ source \in Seq(Delivered) /\ Legal(p)
      /\ p.items \in 0..MaxItems /\ MaxItems \in Nat
  BY <1>4, OnGoing, Underway
<1>6. Legal(r) /\ r.errors # <<>> /\ r.items = p.items
  BY <1>2, <1>3, <1>5, Refused
<1>7. Legal(q) /\ q.errors # <<>> /\ q.items = p.items
  BY <1>3, <1>5, <1>6, Read
<1>8. q.items <= MaxItems + 2
  BY <1>5, <1>7
<1>9. Reaches(q)
  BY <1>7, <1>8 DEF Reaches
<1>a. CASE Continue(q, LoopWith(Garbage))
  <2>1. PICK e : e = ""
    OBVIOUS
  <2>2. e \in T!NodeOps /\ e \in Lexemes
    BY <2>1, KindsThere
  <2>3. Garbage = Leaf("GARBAGE", e, e, 0)
    BY <2>1 DEF Garbage
  <2>4. 0 \in Nat
    OBVIOUS
  <2>5. Garbage \in Cells
    BY <2>2, <2>3, <2>4, KindsThere, LeafTyped
  <2> QED BY <1>5, <1>7, <1>9, <1>a, <2>5, OperandRead
<1>b. CASE outcome' = "crashed" /\ calls' = <<>> /\ p' = q /\ UNCHANGED <<source, tree>>
  <2>1. calls' \in Seq(Frames)
    BY <1>b, EmptySeq
  <2>2. TypeOK /\ outcome = "parsing"
    BY <1>5 DEF Going, IInv
  <2> QED BY <1>7, <1>8, <1>b, <2>1, <2>2, Ended
<1> QED BY <1>4, <1>a, <1>b

-----------------------------------------------------------------------------
(* Calls on the running frame, which goes on elsewhere.                    *)

(* The running call waits for an expression or a block.                    *)
LEMMA TopCalls ==
  ASSUME Going, NEW q, Reaches(q), NEW f \in Frames, f.do \in {"parseExprBP", "stmts"},
         f.do = "stmts" => f.head.kind = "BLOCK",
         HeadFits(f), Fed(f, Len(f.kids)), ~ SomeMarked(f.kids), \A s : Good(f, s),
         NEW do,
         \/ Top.do = "ifCond" /\ do = "ifTrue"
         \/ Top.do = "ifTrue" /\ do = "build"
         \/ Top.do = "args" /\ do = "comma",
         Continue(q, <<f, [Top EXCEPT !.do = do]>>)
  PROVE  IInv'
<1>1. Runs(Top, Below) /\ Top \in Frames /\ ~ Stuck
  BY Underway
<1>2. HeadFits(Top) /\ Fed(Top, Len(Top.kids)) /\ Sits(Top, Below)
  BY <1>1 DEF Runs
<1>3. do \in Places
  BY DEF Places
<1>4. PICK g : g = [Top EXCEPT !.do = do]
  OBVIOUS
<1>5. g \in Frames /\ g.do = do /\ g.head = Top.head /\ g.kids = Top.kids
  BY <1>1, <1>3, <1>4, DoSet
<1>6. Len(Top.kids) \in Nat
  <2>1. Top.kids \in Seq(Cells)
    BY <1>1, FrameParts
  <2> QED BY <2>1
<1>7. HeadFits(g)
  BY <1>2, <1>5 DEF HeadFits
<1>8. Fed(g, Len(g.kids) + 1)
  <2>1. PICK n \in Nat : n = Len(Top.kids)
    BY <1>6
  <2>2. /\ Top.do = "ifCond" => n = 1
        /\ Top.do = "ifTrue" => n = 2 /\ Top.head.kind = "IF"
    BY <1>2, <2>1 DEF Fed, HeadFits
  <2>3. Fed(g, n + 1)
    BY <1>5, <2>2 DEF Fed
  <2> QED BY <1>5, <2>1, <2>3
<1>9. Sits(g, Below)
  BY <1>2, <1>5 DEF Sits
<1>a. Room(g, Below) = T!ExprKinds /\ Room(Top, Below) = T!ExprKinds
  BY <1>5 DEF Room, Accepts
<1>b. SitsOn(f, g, Below)
  <2>1. "BLOCK" \in T!ExprKinds
    BY DEF T!ExprKinds
  <2> QED BY <1>a, <2>1 DEF SitsOn
<1>c. WaitsAt(g, Below)
  BY <1>7, <1>8, <1>9 DEF WaitsAt
<1>d. Good(Top, Below) => Good(g, Below)
  BY <1>5, <1>a DEF Good
<1>e. SomeMarked(f.kids) \/ SomeMarked(g.kids) <=> SomeMarked(Top.kids)
  BY <1>5
<1>f. Continue(q, <<f, g>>)
  BY <1>4
<1> QED BY <1>1, <1>5, <1>b, <1>c, <1>d, <1>e, <1>f, Called

(* parseBlock, before it has read a statement.                             *)
LEMMA BlockFrame ==
  ASSUME NEW f, f = At("stmts", Node("BLOCK", ""), <<>>)
  PROVE  /\ f \in Frames /\ f.do = "stmts" /\ f.head.kind = "BLOCK"
         /\ HeadFits(f) /\ Fed(f, Len(f.kids)) /\ ~ SomeMarked(f.kids) /\ \A s : Good(f, s)
<1>1. PICK e : e = ""
  OBVIOUS
<1>2. PICK head : head = Node("BLOCK", e)
  OBVIOUS
<1>3. e \in T!NodeOps /\ e # "["
  BY <1>1, KindsThere, NotAnIndex
<1>4. /\ head \in HeadSet /\ head.kind = "BLOCK" /\ head.op # "[" /\ head.type \in T!WrittenType
      /\ head.params \in Seq(T!Param)
  <2>1. "BLOCK" \in Kinds
    BY KindsThere
  <2> QED BY ONLY <1>2, <1>3, <2>1, NodeTyped
<1>5. "stmts" \in Places
  BY DEF Places
<1>6. f = At("stmts", head, <<>>)
  BY <1>1, <1>2
<1>7. /\ f \in Frames /\ f.do = "stmts" /\ f.head = head /\ Len(f.kids) = 0
      /\ ~ SomeMarked(f.kids) /\ \A s : Good(f, s)
  BY ONLY <1>4, <1>5, <1>6, EmptyFrame
<1>8. HeadFits(f)
  BY <1>4, <1>7 DEF HeadFits
<1>9. Fed(f, Len(f.kids))
  BY <1>7 DEF Fed
<1> QED BY <1>4, <1>7, <1>8, <1>9

(* A warning with a literal text may be on the way.                        *)
LEMMA ReachesWarned ==
  ASSUME Going, NEW a, Moves(p, a), NEW text \in Texts, NEW condition,
         NEW q, q = [a EXCEPT !.warnings = ReportIf(condition, @, text)]
  PROVE  Reaches(q)
<1>1. Reaches(a) /\ Legal(a)
  BY ReachesFrom DEF Reaches
<1>2. PICK m : m = Static(text)
  OBVIOUS
<1>3. m \in Message /\ m.owner = "static"
  BY <1>2 DEF Message, Static
<1>4. a.warnings \in Seq(Message) /\ Len(a.warnings) <= MaxErrors
  BY <1>1 DEF Legal
<1>5. PICK w : w = ReportIf(condition, a.warnings, text)
  OBVIOUS
<1>6. w = Report(a.warnings, m) \/ w = a.warnings
  BY <1>2, <1>5 DEF ReportIf
<1>7. /\ w \in Seq(Message) /\ Len(w) <= MaxErrors
      /\ \A i \in DOMAIN w : w[i] = m \/ (i \in DOMAIN a.warnings /\ w[i] = a.warnings[i])
  <2>1. CASE w = Report(a.warnings, m)
    BY <1>3, <1>4, <2>1, Reported
  <2>2. CASE w = a.warnings
    BY <1>4, <2>2
  <2> QED BY <1>6, <2>1, <2>2
<1>8. q = [a EXCEPT !.warnings = w]
  BY <1>5
<1>9. /\ Legal(q) /\ q.warnings = w /\ q.pos = a.pos /\ q.items = a.items /\ q.errors = a.errors
  <2> HIDE DEF Message
  <2> QED BY <1>1, <1>7, <1>8 DEF Legal
<1>a. Quiet(a) => Quiet(q)
  BY <1>3, <1>7, <1>9 DEF Quiet
<1>b. Passed(q) <=> Passed(a)
  BY <1>9 DEF Passed
<1> QED BY <1>1, <1>9, <1>a, <1>b DEF Reaches

(* Blocks, conditionals and argument lists.                                *)
LEMMA primaryBlockKeeps ==
  ASSUME IInv, primaryBlock
  PROVE  IInv'
<1>1. PICK type : type = "{"
  OBVIOUS
<1>2. PICK f : f = At("stmts", Node("BLOCK", ""), <<>>)
  OBVIOUS
<1>3. PICK q : q = p_consume(p, type)
  OBVIOUS
<1>4. On("parseExprBP") /\ Continue(q, <<f>> \o <<Loop>>)
  BY <1>1, <1>2, <1>3 DEF primaryBlock, parseBlock
<1>5. Going /\ Top.do = "parseExprBP" /\ source \in Seq(Delivered) /\ Legal(p) /\ ~ Stuck
  BY <1>4, OnGoing
<1>6. type # "["
  BY <1>1, NotAnIndex
<1>7. Reaches(q)
  BY <1>3, <1>5, <1>6, MovesConsume, ReachesFrom
<1>8. /\ f \in Frames /\ f.do = "stmts" /\ f.head.kind = "BLOCK"
      /\ HeadFits(f) /\ Fed(f, Len(f.kids)) /\ ~ SomeMarked(f.kids) /\ \A s : Good(f, s)
  BY <1>2, BlockFrame
<1>9. PICK g : g = Loop
  OBVIOUS
<1>a. /\ g \in Frames /\ g.do = "infix" /\ WaitsAt(g, Below)
      /\ ~ SomeMarked(Top.kids) /\ ~ SomeMarked(g.kids) /\ (Good(Top, Below) => Good(g, Below))
  BY <1>5, <1>9, LoopFrame
<1>b. SitsOn(f, g, Below)
  <2>1. Room(g, Below) = T!ExprKinds
    BY <1>a DEF Room, Accepts
  <2>2. "BLOCK" \in T!ExprKinds
    BY DEF T!ExprKinds
  <2> QED BY <1>8, <2>1, <2>2 DEF SitsOn
<1>c. <<f>> \o <<g>> = <<f, g>>
  BY <1>8, <1>a, Cons2
<1>d. Continue(q, <<f, g>>)
  BY <1>4, <1>9, <1>c
<1> QED BY <1>5, <1>7, <1>8, <1>a, <1>b, <1>d, Called

LEMMA ifCondKeeps ==
  ASSUME IInv, ifCond
  PROVE  IInv'
<1>1. PICK g : g = [Top EXCEPT !.do = "ifTrue"]
  OBVIOUS
<1>2. On("ifCond")
  BY DEF ifCond
<1>3. Going /\ Top.do = "ifCond" /\ source \in Seq(Delivered) /\ Legal(p)
  BY <1>2, OnGoing
<1>4. CASE Kind(p) = "then"
  <2>1. PICK condition : condition = (Kind(p_next(p)) = "{")
    OBVIOUS
  <2>2. PICK text : text = "Remove the 'then'"
    OBVIOUS
  <2>3. PICK q : q = [p_next(p) EXCEPT !.warnings = ReportIf(condition, @, text)]
    OBVIOUS
  <2>4. PICK f : f = parseExprBP(0)
    OBVIOUS
  <2>5. Continue(q, <<f, g>>)
    BY <1>1, <1>4, <2>1, <2>2, <2>3, <2>4 DEF ifCond, parseExpression
  <2>6. text \in Texts
    BY <2>2 DEF Texts, ParserTexts
  <2>7. Moves(p, p_next(p))
    BY <1>3, <1>4, MovesNext
  <2>8. Reaches(q)
    BY <1>3, <2>3, <2>6, <2>7, ReachesWarned
  <2>9. 0 \in 0..17
    OBVIOUS
  <2>a. /\ f \in Frames /\ f.do = "parseExprBP" /\ HeadFits(f) /\ Fed(f, Len(f.kids))
        /\ ~ SomeMarked(f.kids) /\ \A s : Good(f, s)
    BY <2>4, <2>9, ExprFrame
  <2>b. Continue(q, <<f, [Top EXCEPT !.do = "ifTrue"]>>)
    BY <1>1, <2>5
  <2> QED BY <1>3, <2>8, <2>a, <2>b, TopCalls
<1>5. CASE Kind(p) # "then"
  <2>1. PICK type : type = "{"
    OBVIOUS
  <2>2. PICK f : f = At("stmts", Node("BLOCK", ""), <<>>)
    OBVIOUS
  <2>3. PICK q : q = p_consume(p, type)
    OBVIOUS
  <2>4. Continue(q, <<f>> \o <<g>>)
    BY <1>1, <1>5, <2>1, <2>2, <2>3 DEF ifCond, parseBlock
  <2>5. type # "["
    BY <2>1, NotAnIndex
  <2>6. Reaches(q)
    BY <1>3, <2>3, <2>5, MovesConsume, ReachesFrom
  <2>7. /\ f \in Frames /\ f.do = "stmts" /\ f.head.kind = "BLOCK"
        /\ HeadFits(f) /\ Fed(f, Len(f.kids)) /\ ~ SomeMarked(f.kids) /\ \A s : Good(f, s)
    BY <2>2, BlockFrame
  <2>8. g \in Frames
    <3>1. Top \in Frames
      BY <1>3, Underway
    <3>2. "ifTrue" \in Places
      BY DEF Places
    <3> QED BY <1>1, <3>1, <3>2, DoSet
  <2>9. Continue(q, <<f, [Top EXCEPT !.do = "ifTrue"]>>)
    BY <1>1, <2>4, <2>7, <2>8, Cons2
  <2> QED BY <1>3, <2>6, <2>7, <2>9, TopCalls
<1> QED BY <1>4, <1>5

LEMMA ifTrueKeeps ==
  ASSUME IInv, ifTrue
  PROVE  IInv'
<1>1. On("ifTrue")
  BY DEF ifTrue
<1>2. Going /\ Top.do = "ifTrue" /\ source \in Seq(Delivered) /\ Legal(p)
  BY <1>1, OnGoing
<1>3. CASE Kind(p) # "else"
  <2>1. Return(p, Built(Top))
    BY <1>3 DEF ifTrue
  <2> QED BY <1>2, <2>1, MovesSelf, GivesBuilt
<1>4. CASE Kind(p) = "else"
  <2>1. PICK f : f = parseExprBP(0)
    OBVIOUS
  <2>2. Continue(p_next(p), <<f, [Top EXCEPT !.do = "build"]>>)
    BY <1>4, <2>1 DEF ifTrue, parseExpression
  <2>3. Reaches(p_next(p))
    BY <1>2, <1>4, MovesNext, ReachesFrom
  <2>4. 0 \in 0..17
    OBVIOUS
  <2>5. /\ f \in Frames /\ f.do = "parseExprBP" /\ HeadFits(f) /\ Fed(f, Len(f.kids))
        /\ ~ SomeMarked(f.kids) /\ \A s : Good(f, s)
    BY <2>1, <2>4, ExprFrame
  <2> QED BY <1>2, <2>2, <2>3, <2>5, TopCalls
<1> QED BY <1>3, <1>4

LEMMA argsKeeps ==
  ASSUME IInv, args
  PROVE  IInv'
<1>1. On("args")
  BY DEF args
<1>2. Going /\ Top.do = "args" /\ source \in Seq(Delivered) /\ Legal(p)
  BY <1>1, OnGoing
<1>3. CASE Kind(p) = ")"
  <2>1. Return(p_next(p), Built(Top))
    BY <1>3 DEF args
  <2>2. Moves(p, p_next(p))
    BY <1>2, <1>3, MovesNext
  <2> QED BY <1>2, <2>1, <2>2, GivesBuilt
<1>4. CASE Kind(p) # ")"
  <2>1. PICK f : f = parseExprBP(0)
    OBVIOUS
  <2>2. PICK q : q = growableArrayPush(p)
    OBVIOUS
  <2>3. Continue(q, <<f, [Top EXCEPT !.do = "comma"]>>)
    BY <1>4, <2>1, <2>2 DEF args, parseExpression
  <2>4. /\ Legal(q) /\ q.items = p.items + 1
        /\ q.pos = p.pos /\ q.errors = p.errors /\ q.warnings = p.warnings
    BY <1>2, <2>2, Pushed
  <2>5. q.items <= p.items + 2
    <3>1. p.items \in Nat
      BY <1>2 DEF Legal
    <3> QED BY <2>4, <3>1
  <2>6. Reaches(q)
    BY <1>2, <2>4, <2>5, MovesSelf, ReachesBy
  <2>7. 0 \in 0..17
    OBVIOUS
  <2>8. /\ f \in Frames /\ f.do = "parseExprBP" /\ HeadFits(f) /\ Fed(f, Len(f.kids))
        /\ ~ SomeMarked(f.kids) /\ \A s : Good(f, s)
    BY <2>1, <2>7, ExprFrame
  <2> QED BY <1>2, <2>3, <2>6, <2>8, TopCalls
<1> QED BY <1>3, <1>4

LEMMA commaKeeps ==
  ASSUME IInv, comma
  PROVE  IInv'
<1>1. PICK q : q = IF Kind(p) = ")" THEN p ELSE p_consume(p, ",")
  OBVIOUS
<1>2. PICK f : f = [Top EXCEPT !.do = "args"]
  OBVIOUS
<1>3. On("comma") /\ Continue(q, <<f>>)
  BY <1>1, <1>2 DEF comma
<1>4. Going /\ Top.do = "comma" /\ source \in Seq(Delivered) /\ Legal(p) /\ ~ Stuck
  BY <1>3, OnGoing
<1>5. Moves(p, q)
  <2>1. "," # "["
    OBVIOUS
  <2> QED BY <1>1, <1>4, <2>1, MovesSelf, MovesConsume
<1>6. Reaches(q)
  BY <1>4, <1>5, ReachesFrom
<1>7. Runs(Top, Below) /\ Top \in Frames
  BY <1>4, Underway
<1>8. "args" \in Places
  BY DEF Places
<1>9. f \in Frames /\ f.do = "args" /\ f.head = Top.head /\ f.kids = Top.kids
  BY <1>2, <1>7, <1>8, DoSet
<1>a. HeadFits(f) /\ Fed(f, Len(f.kids)) /\ Sits(f, Below)
  <2>1. HeadFits(Top) /\ Fed(Top, Len(Top.kids)) /\ Sits(Top, Below)
    BY <1>7 DEF Runs
  <2>2. HeadFits(f)
    BY <1>4, <1>9, <2>1 DEF HeadFits
  <2>3. Fed(f, Len(f.kids))
    BY <1>4, <1>9, <2>1 DEF Fed
  <2>4. Sits(f, Below)
    BY <1>4, <1>9, <2>1 DEF Sits
  <2> QED BY <2>2, <2>3, <2>4
<1>b. Room(f, Below) = Room(Top, Below)
  BY <1>4, <1>9 DEF Room, Accepts
<1>c. Good(Top, Below) => Good(f, Below)
  BY <1>9, <1>b DEF Good
<1> QED BY <1>3, <1>4, <1>6, <1>9, <1>a, <1>c, Replaced

-----------------------------------------------------------------------------
(* Operators.                                                              *)

(* The running frame gives its only child away and waits for another.      *)
LEMMA EmptiedFrame ==
  ASSUME Going, Top.do = "infix", NEW g, g = [Top EXCEPT !.kids = <<>>]
  PROVE  /\ g \in Frames /\ g.do = "infix" /\ WaitsAt(g, Below) /\ Room(g, Below) = T!ExprKinds
         /\ ~ SomeMarked(g.kids) /\ (Good(Top, Below) => Good(g, Below))
         /\ lhs \in Cells /\ (SomeMarked(Top.kids) <=> Marked(lhs))
         /\ Good(Top, Below) => Sound(lhs) /\ lhs[1].kind \in T!ExprKinds
<1>1. Runs(Top, Below) /\ Top \in Frames
  BY Underway
<1>2. HeadFits(Top) /\ Fed(Top, Len(Top.kids)) /\ Sits(Top, Below)
  BY <1>1 DEF Runs
<1>3. Len(Top.kids) = 1
  BY <1>2 DEF Fed
<1>4. g \in Frames /\ g.do = "infix" /\ g.head = Top.head /\ g.kids = None
  <2>1. g = [Top EXCEPT !.kids = None] /\ None \in Seq(Cells)
    BY NoKids DEF None
  <2> QED BY ONLY <1>1, <2>1, Top.do = "infix", KidsSet
<1>5. HeadFits(g) /\ Fed(g, Len(g.kids) + 1)
  BY <1>4, NoKids DEF HeadFits, Fed
<1>6. Sits(g, Below)
  BY <1>2, <1>4 DEF Sits
<1>7. Room(g, Below) = T!ExprKinds /\ Room(Top, Below) = T!ExprKinds
  BY <1>4 DEF Room, Accepts
<1>8. Good(Top, Below) => Good(g, Below)
  BY <1>4, NoKids DEF Good
<1>9. /\ lhs \in Cells /\ (SomeMarked(Top.kids) <=> Marked(lhs))
      /\ Good(Top, Below) => Sound(lhs) /\ lhs[1].kind \in T!ExprKinds
  BY <1>1, <1>3, <1>7, OnlyKid DEF lhs
<1> QED BY <1>4, <1>5, <1>6, <1>7, <1>8, <1>9, NoKids DEF WaitsAt

(* A node that starts with the operand that was read.                      *)
LEMMA OperandFrame ==
  ASSUME NEW do \in Places, NEW head \in HeadSet, NEW term \in Cells, NEW f,
         f = At(do, head, <<term>>)
  PROVE  /\ f \in Frames /\ f.do = do /\ f.head = head /\ Len(f.kids) = 1
         /\ SomeMarked(f.kids) <=> Marked(term)
         /\ head.type \in T!WrittenType /\ head.params \in Seq(T!Param) /\ head.op # "["
              /\ Sound(term) =>
              \A s : term[1].kind \in Room(f, s) => Good(f, s)
<1>1. PICK kids : kids = <<term>>
  OBVIOUS
<1>2. /\ kids \in Seq(Cells) /\ Len(kids) = 1 /\ kids[1] = term /\ 1..Len(kids) = {1}
      /\ SomeMarked(kids) <=> Marked(term)
  BY <1>1, OneKid
<1>3. f = Frame(do, 0, head, kids) /\ 0 \in 0..17
  BY <1>1 DEF At
<1>4. f \in Frames /\ f.do = do /\ f.head = head /\ f.kids = kids
  BY ONLY <1>2, <1>3, do \in Places, head \in HeadSet, FrameTyped
<1> QED BY <1>2, <1>4 DEF Good

(* Calls.                                                                  *)
LEMMA callExprKeeps ==
  ASSUME IInv, callExpr
  PROVE  IInv'
<1>1. PICK e : e = ""
  OBVIOUS
<1>2. PICK head : head = Node("CALL", e)
  OBVIOUS
<1>3. PICK f : f = At("args", head, <<lhs>>)
  OBVIOUS
<1>4. PICK g : g = [Top EXCEPT !.kids = <<>>]
  OBVIOUS
<1>5. On("infix") /\ Kind(p) = "(" /\ Continue(p_next(p), <<f, g>>)
  BY <1>1, <1>2, <1>3, <1>4 DEF callExpr
<1>6. Going /\ Top.do = "infix" /\ source \in Seq(Delivered) /\ Legal(p) /\ ~ Stuck
  BY <1>5, OnGoing
<1>7. e \in T!NodeOps /\ e # "["
  BY <1>1, KindsThere, NotAnIndex
<1>8. /\ head \in HeadSet /\ head.kind = "CALL" /\ head.op # "[" /\ head.type \in T!WrittenType
      /\ head.params \in Seq(T!Param)
  <2>1. "CALL" \in Kinds
    BY KindsThere
  <2> QED BY ONLY <1>2, <1>7, <2>1, NodeTyped
<1>9. /\ g \in Frames /\ g.do = "infix" /\ WaitsAt(g, Below) /\ Room(g, Below) = T!ExprKinds
      /\ ~ SomeMarked(g.kids) /\ (Good(Top, Below) => Good(g, Below))
      /\ lhs \in Cells /\ (SomeMarked(Top.kids) <=> Marked(lhs))
      /\ Good(Top, Below) => Sound(lhs) /\ lhs[1].kind \in T!ExprKinds
  BY <1>4, <1>6, EmptiedFrame
<1>a. /\ f \in Frames /\ f.do = "args" /\ f.head = head /\ Len(f.kids) = 1
      /\ SomeMarked(f.kids) <=> Marked(lhs)
      /\ Sound(lhs) => \A s : lhs[1].kind \in Room(f, s) => Good(f, s)
  <2>1. "args" \in Places
    BY DEF Places
  <2> QED BY ONLY <1>3, <1>8, <1>9, <2>1, OperandFrame
<1>b. \A s : Room(f, s) = T!ExprKinds
  BY <1>a DEF Room, Accepts
<1>c. HeadFits(f) /\ Fed(f, Len(f.kids))
  BY <1>8, <1>a DEF HeadFits, Fed
<1>d. SitsOn(f, g, Below)
  <2>1. "CALL" \in T!ExprKinds
    BY DEF T!ExprKinds
  <2> QED BY <1>8, <1>9, <1>a, <2>1 DEF SitsOn
<1>e. Reaches(p_next(p))
  BY <1>5, <1>6, MovesNext, ReachesFrom
<1>f. Good(Top, Below) => \A s : Good(f, s)
  BY <1>9, <1>a, <1>b
<1>g. SomeMarked(f.kids) \/ SomeMarked(g.kids) <=> SomeMarked(Top.kids)
  BY <1>9, <1>a
<1> QED BY <1>5, <1>6, <1>9, <1>a, <1>c, <1>d, <1>e, <1>f, <1>g, Called

(* Infix operators have a binding power that is below 18.                  *)
LEMMA BindingPowers ==
  ASSUME NEW op, isInfixOp(op)
  PROVE  op \in Infix /\ infixBp(op)[2] \in 0..17
<1>1. CASE op = "="
  BY <1>1 DEF infixBp, Infix
<1>2. CASE op \in {"<", "<=", ">", ">=", "=="}
  BY <1>2 DEF infixBp, Infix
<1>3. CASE op \in {"+", "-"}
  BY <1>3 DEF infixBp, Infix
<1>4. CASE op \in {"*", "/"}
  BY <1>4 DEF infixBp, Infix
<1>5. op = "=" \/ op \in {"<", "<=", ">", ">=", "=="} \/ op \in {"+", "-"} \/ op \in {"*", "/"}
  BY DEF infixBp, isInfixOp
<1> QED BY <1>1, <1>2, <1>3, <1>4, <1>5

(* Infix operators.                                                        *)
LEMMA binopKeeps ==
  ASSUME IInv, binop
  PROVE  IInv'
<1>1. PICK op, bp : op = Kind(p) /\ bp = infixBp(op)[2]
  OBVIOUS
<1>2. PICK head : head = Node("BINOP", op)
  OBVIOUS
<1>3. PICK f : f = parseExprBP(bp)
  OBVIOUS
<1>4. PICK g : g = At("build", head, <<lhs>>)
  OBVIOUS
<1>5. PICK h : h = [Top EXCEPT !.kids = <<>>]
  OBVIOUS
<1>6. On("infix") /\ isInfixOp(op) /\ Continue(p_next(p), <<f, g, h>>)
  BY <1>1, <1>2, <1>3, <1>4, <1>5 DEF binop, Infixed, Build
<1>7. Going /\ Top.do = "infix" /\ source \in Seq(Delivered) /\ Legal(p) /\ ~ Stuck
  BY <1>6, OnGoing
<1>8. op \in T!NodeOps /\ op # "[" /\ bp \in 0..17
  <2>1. op \in Infix /\ bp \in 0..17
    BY <1>1, <1>6, BindingPowers
  <2> QED BY <2>1, Operators
<1>9. /\ head \in HeadSet /\ head.kind = "BINOP" /\ head.op # "[" /\ head.type \in T!WrittenType
      /\ head.params \in Seq(T!Param)
  <2>1. "BINOP" \in Kinds
    BY KindsThere
  <2> QED BY ONLY <1>2, <1>8, <2>1, NodeTyped
<1>a. /\ h \in Frames /\ h.do = "infix" /\ WaitsAt(h, Below) /\ Room(h, Below) = T!ExprKinds
      /\ ~ SomeMarked(h.kids) /\ (Good(Top, Below) => Good(h, Below))
      /\ lhs \in Cells /\ (SomeMarked(Top.kids) <=> Marked(lhs))
      /\ Good(Top, Below) => Sound(lhs) /\ lhs[1].kind \in T!ExprKinds
  BY <1>5, <1>7, EmptiedFrame
<1>b. /\ g \in Frames /\ g.do = "build" /\ g.head = head /\ Len(g.kids) = 1
      /\ SomeMarked(g.kids) <=> Marked(lhs)
      /\ Sound(lhs) => \A s : lhs[1].kind \in Room(g, s) => Good(g, s)
  <2>1. "build" \in Places
    BY DEF Places
  <2> QED BY ONLY <1>4, <1>9, <1>a, <2>1, OperandFrame
<1>c. \A s : Room(g, s) = T!ExprKinds
  BY <1>b DEF Room, Accepts
<1>d. HeadFits(g)
  BY <1>9, <1>b DEF HeadFits
<1>e. Fed(g, Len(g.kids) + 1)
  BY <1>9, <1>b DEF Fed
<1>f. /\ f \in Frames /\ f.do = "parseExprBP" /\ HeadFits(f) /\ Fed(f, Len(f.kids))
      /\ ~ SomeMarked(f.kids) /\ \A s : Good(f, s)
  BY <1>3, <1>8, ExprFrame
<1>g. SitsOn(f, g, <<h>> \o Below)
  BY <1>c, <1>f DEF SitsOn
<1>h. SitsOn(g, h, Below)
  <2>1. "BINOP" \in T!ExprKinds
    BY DEF T!ExprKinds
  <2> QED BY <1>9, <1>a, <1>b, <2>1 DEF SitsOn
<1>i. Reaches(p_next(p))
  BY <1>1, <1>7, <1>8, MovesNext, ReachesFrom
<1>j. Good(Top, Below) => Good(g, <<h>> \o Below)
  BY <1>a, <1>b, <1>c
<1>k. SomeMarked(f.kids) \/ SomeMarked(g.kids) \/ SomeMarked(h.kids) <=> SomeMarked(Top.kids)
  BY <1>a, <1>b, <1>f
<1> QED BY <1>6, <1>7, <1>a, <1>b, <1>d, <1>e, <1>f, <1>g, <1>h, <1>i, <1>j, <1>k, CalledTwice

(* The operator '[' in a node that may be garbage.                         *)
LEMMA OverwrittenTyped ==
  ASSUME NEW t \in Cells
  PROVE  Overwritten(t) \in Cells
<1>1. PICK S : S = Cell
  OBVIOUS
<1>2. t \in Seq(S)
  BY <1>1 DEF Cells
<1>3. PICK c : c = [t[1] EXCEPT !.op = "["]
  OBVIOUS
<1>4. 1 \in DOMAIN t => c \in S
  <2>1. "[" \in T!NodeOps
    BY DEF T!NodeOps
  <2>2. 1 \in DOMAIN t => t[1] \in Cell
    BY <1>1, <1>2
  <2> HIDE DEF Kinds, Lexemes, T!NodeOps, T!Type, Params
  <2> QED BY <1>1, <1>3, <2>1, <2>2 DEF Cell
<1>5. PICK u : u = [t EXCEPT ![1] = c]
  OBVIOUS
<1>6. u \in Seq(S)
  <2>1. CASE 1 \in DOMAIN t
    BY ONLY <1>2, <1>4, <1>5, <2>1
  <2>2. CASE 1 \notin DOMAIN t
    <3>1. DOMAIN u = DOMAIN t /\ \A n \in DOMAIN t : u[n] = t[n]
      BY ONLY <1>5, <2>2
    <3>2. u = [n \in DOMAIN t |-> u[n]]
      BY ONLY <1>5
    <3>3. t = [n \in DOMAIN t |-> t[n]]
      BY ONLY <1>2
    <3>4. u = t
      BY ONLY <3>1, <3>2, <3>3
    <3> QED BY ONLY <1>2, <3>4
  <2> QED BY <2>1, <2>2
<1> QED BY <1>1, <1>3, <1>5, <1>6 DEF Overwritten, Cells

(* A node of one operand, without an operator.                             *)
LEMMA UnaryTerm ==
  ASSUME NEW e \in Cells, NEW t, t = un("", e)
  PROVE  /\ t \in Cells
         /\ Sound(e) /\ e[1].kind \in T!ExprKinds =>
              Sound(t) /\ t[1].kind = "UNOP" /\ (Marked(t) <=> Marked(e))
<1>1. PICK x : x = ""
  OBVIOUS
<1>2. x \in T!NodeOps /\ x # "[" /\ x \in Lexemes
  BY <1>1, KindsThere, NotAnIndex
<1>3. PICK kids : kids = <<e>>
  OBVIOUS
<1>4. /\ kids \in Seq(Cells) /\ Len(kids) = 1 /\ kids[1] = e /\ 1..Len(kids) = {1}
      /\ SomeMarked(kids) <=> Marked(e)
  BY ONLY <1>3, e \in Cells, OneKid
<1>5. PICK params : params = <<>>
  OBVIOUS
<1>6. params \in Params /\ params \in Seq(T!Param)
  BY <1>5, EmptySeq DEF Params
<1>7. t = Term("UNOP", x, x, 0, none, params, kids)
  BY <1>1, <1>3, <1>5 DEF un, Inner
<1>8. none \in T!WrittenType /\ none \in T!Type
  BY DEF none, A!NoType, T!WrittenType, T!Type, Lexemes
<1>9. "UNOP" \in T!NodeKinds /\ "UNOP" \in Kinds /\ 0 \in Nat
  BY DEF Kinds, T!NodeKinds, T!ExprKinds
<1>a. t \in Cells
  BY ONLY <1>2, <1>4, <1>6, <1>7, <1>8, <1>9, TermTyped
<1>b. ASSUME Sound(e), e[1].kind \in T!ExprKinds
      PROVE  Sound(t) /\ t[1].kind = "UNOP" /\ (Marked(t) <=> Marked(e))
  <2>1. Takes("UNOP") = T!ExprKinds
    BY DEF Takes
  <2>2. KidsFit("UNOP", kids)
    BY <1>4, <1>b, <2>1 DEF KidsFit, Counted
  <2>3. Sound(t) /\ t[1].kind = "UNOP" /\ (Marked(t) <=> x = "[" \/ SomeMarked(kids))
    BY ONLY <1>2, <1>4, <1>6, <1>7, <1>8, <1>9, <2>2, TermSound
  <2> QED BY <1>2, <1>4, <2>3
<1> QED BY <1>a, <1>b

(* The operator '['.                                                       *)
LEMMA indexExprKeeps ==
  ASSUME IInv, indexExpr
  PROVE  IInv'
<1>1. On("infix") /\ Kind(p) = "["
  BY DEF indexExpr
<1>2. Going /\ Top.do = "infix" /\ source \in Seq(Delivered) /\ Legal(p) /\ ~ Stuck
  BY <1>1, OnGoing
<1>3. /\ Runs(Top, Below) /\ Top \in Frames /\ Below \in Seq(Frames)
      /\ p.errors = <<>> => Quiet(p) /\ Content(p, Top, Below)
      /\ p.items \in 0..MaxItems /\ MaxItems \in Nat
  BY <1>2, Underway
<1>4. HeadFits(Top) /\ Fed(Top, Len(Top.kids)) /\ Sits(Top, Below) /\ Waits(Below)
  BY <1>3 DEF Runs
<1>5. Len(Top.kids) = 1
  BY <1>2, <1>4 DEF Fed
<1>6. Room(Top, Below) = T!ExprKinds
  BY <1>2 DEF Room, Accepts
<1>7. /\ lhs \in Cells
      /\ Good(Top, Below) => Sound(lhs) /\ lhs[1].kind \in T!ExprKinds
  BY <1>3, <1>5, <1>6, OnlyKid DEF lhs
<1>8. TypeOK /\ outcome = "parsing"
  BY <1>2 DEF Going, IInv
<1>9. CASE Continue(p_next(p), <<[Top EXCEPT !.kids = <<un("", Overwritten(lhs))>>]>>)
  <2>1. PICK e : e = Overwritten(lhs)
    OBVIOUS
  <2>2. PICK t : t = un("", e)
    OBVIOUS
  <2>3. e \in Cells
    BY <1>7, <2>1, OverwrittenTyped
  <2>4. /\ t \in Cells
        /\ Sound(e) /\ e[1].kind \in T!ExprKinds =>
             Sound(t) /\ t[1].kind = "UNOP" /\ (Marked(t) <=> Marked(e))
    BY <2>2, <2>3, UnaryTerm
  <2>5. Good(Top, Below) => Sound(t) /\ t[1].kind = "UNOP" /\ Marked(t)
    <3>1. Sound(lhs) => Sound(e) /\ e[1].kind = lhs[1].kind /\ Marked(e)
      BY <2>1, OverwrittenSound
    <3> QED BY <1>7, <2>4, <3>1
  <2>6. PICK kids : kids = <<t>>
    OBVIOUS
  <2>7. /\ kids \in Seq(Cells) /\ Len(kids) = 1 /\ kids[1] = t /\ 1..Len(kids) = {1}
        /\ SomeMarked(kids) <=> Marked(t)
    BY ONLY <2>4, <2>6, OneKid
  <2>8. PICK f : f = [Top EXCEPT !.kids = kids]
    OBVIOUS
  <2>9. f \in Frames /\ f.do = "infix" /\ f.head = Top.head /\ f.kids = kids
    BY ONLY <1>2, <1>3, <2>7, <2>8, KidsSet
  <2>a. PICK q : q = p_next(p)
    OBVIOUS
  <2>b. Continue(q, <<f>>)
    BY <1>9, <2>1, <2>2, <2>6, <2>8, <2>a
  <2>c. /\ Legal(q) /\ q.items = p.items /\ q.warnings = p.warnings /\ q.errors = p.errors
        /\ p.pos <= Len(source) => q.pos = p.pos + 1
    BY <1>2, <2>a, Read
  <2>d. p.pos <= Len(source) /\ source[p.pos] = "["
    BY <1>1, <1>2, WhatIsThere
  <2>e. Passed(q)
    <3>1. p.pos \in 1..(q.pos - 1)
      <4>1. p.pos \in Nat /\ p.pos >= 1
        BY <1>2 DEF Legal
      <4> QED BY <2>c, <2>d, <4>1
    <3> QED BY <2>d, <3>1 DEF Passed
  <2>f. HeadFits(f) /\ Fed(f, Len(f.kids))
    BY <2>7, <2>9 DEF HeadFits, Fed
  <2>g. Sits(f, Below)
    BY <1>2, <1>4, <2>9 DEF Sits
  <2>h. Runs(f, Below)
    BY <1>4, <2>9, <2>f, <2>g DEF Runs
  <2>i. Room(f, Below) = T!ExprKinds /\ "UNOP" \in T!ExprKinds
    BY <2>9 DEF Room, Accepts, T!ExprKinds
  <2>j. Good(Top, Below) => Good(f, Below)
    BY <2>5, <2>7, <2>9, <2>i DEF Good
  <2>k. q.errors = <<>> => Quiet(q) /\ Content(q, f, Below)
    BY <1>3, <2>5, <2>7, <2>9, <2>c, <2>e, <2>j DEF Content, Quiet
  <2>l. p' = q /\ calls' = <<f>> \o Below /\ UNCHANGED <<source, outcome, tree>>
    BY <2>b DEF Continue, Below
  <2>m. q.items <= MaxItems + 2
    BY <1>3, <2>c
  <2> QED BY <1>8, <2>c, <2>h, <2>k, <2>l, <2>m, Resumed
<1>a. CASE lhs[1].kind = "GARBAGE" /\ Crash
  <2>1. outcome' = "crashed" /\ calls' = <<>> /\ UNCHANGED <<source, p, tree>>
    BY <1>a DEF Crash, Stop
  <2>2. calls' \in Seq(Frames)
    BY <2>1, EmptySeq
  <2>3. "GARBAGE" \notin T!ExprKinds
    BY DEF T!ExprKinds
  <2>4. p'.errors # <<>>
    BY <1>3, <1>7, <1>a, <2>1, <2>3 DEF Content
  <2>5. p.items <= MaxItems + 2
    BY <1>3
  <2> QED BY <1>2, <1>8, <2>1, <2>2, <2>4, <2>5, Ended
<1> QED BY <1>9, <1>a DEF indexExpr

-----------------------------------------------------------------------------
(* Declarations.                                                           *)

(* parseVarDecl gets to an initial, which it puts into its node.           *)
LEMMA VarDeclReads ==
  ASSUME source \in Seq(Delivered), NEW q, Legal(q), Kind(q) \in {"let", "const"}, NEW rest,
         parseVarDecl(q, rest)
  PROVE  \E r : \E g \in Frames :
           /\ Moves(q, r) /\ Continue(r, <<parseExprBP(0), g>> \o rest)
           /\ g.do = "build" /\ g.head.kind = "DECL_VAR" /\ Len(g.kids) = 0
           /\ ~ SomeMarked(g.kids)
           /\ r.errors = <<>> => \A s : Good(g, s)
           /\ q.pos <= Len(source) => q.pos < r.pos
<1>1. PICK first : first = p_next(q)
  OBVIOUS
<1>2. PICK binder : binder = Binder(q)
  OBVIOUS
<1>3. PICK name : name = IF binder = "mut" THEN p_next(first) ELSE first
  OBVIOUS
<1>4. PICK colon : colon = p_consume(name, "IDENT")
  OBVIOUS
<1>5. PICK typed : typed = IF Kind(colon) = ":" THEN parseType(p_next(colon)) ELSE NoTypeGiven(colon)
  OBVIOUS
<1>6. PICK r : r = p_consume(typed.p, "=")
  OBVIOUS
<1>7. PICK head : head = Head0("DECL_VAR", Lexeme(name), binder, typed.type)
  OBVIOUS
<1>8. PICK g : g = At("build", head, <<>>)
  OBVIOUS
<1>9. Continue(r, <<parseExprBP(0), g>> \o rest)
  BY <1>1, <1>2, <1>3, <1>4, <1>5, <1>6, <1>7, <1>8 DEF parseVarDecl, Build, parseExpression
<1>a. binder \in {"const", "mut", "let"} /\ (binder = "mut" => Kind(first) = "mut")
  BY <1>1, <1>2 DEF Binder
<1>b. Moves(q, first) /\ Legal(first)
  BY <1>1, MovesNext DEF Moves
<1>c. Moves(q, name) /\ Legal(name)
  <2>1. CASE binder = "mut"
    <3>1. Moves(first, name)
      BY <1>3, <1>a, <1>b, <2>1, MovesNext
    <3> QED BY <1>b, <3>1, MovesOn DEF Moves
  <2>2. CASE binder # "mut"
    BY <1>3, <1>b, <2>2
  <2> QED BY <2>1, <2>2
<1>d. Moves(q, colon) /\ Legal(colon)
  <2>1. Moves(name, colon)
    BY <1>4, <1>c, MovesConsume
  <2> QED BY <1>c, <2>1, MovesOn DEF Moves
<1>e. none \in T!WrittenType /\ none \in T!Type
  BY DEF none, A!NoType, T!WrittenType, T!Type, Lexemes
<1>f. /\ Moves(q, typed.p) /\ Legal(typed.p) /\ typed.type \in T!Type
      /\ typed.p.errors = <<>> => typed.type \in T!WrittenType
  <2>1. CASE Kind(colon) = ":"
    <3>1. PICK there : there = p_next(colon)
      OBVIOUS
    <3>2. Moves(colon, there) /\ Legal(there)
      BY <1>d, <2>1, <3>1, MovesNext DEF Moves
    <3>3. typed = parseType(there)
      BY <1>5, <2>1, <3>1
    <3>4. /\ Moves(there, typed.p) /\ typed.type \in T!Type
          /\ typed.p.errors = <<>> => typed.type \in T!WrittenType
      BY <3>2, <3>3, MovesType
    <3>5. Moves(q, there)
      BY <1>d, <3>2, MovesOn
    <3>6. Moves(q, typed.p)
      BY <3>2, <3>4, <3>5, MovesOn
    <3> QED BY <3>4, <3>6 DEF Moves
  <2>2. CASE Kind(colon) # ":"
    <3>1. typed = [p |-> colon, type |-> none]
      BY <1>5, <2>2 DEF NoTypeGiven
    <3> QED BY <1>d, <1>e, <3>1
  <2> QED BY <2>1, <2>2
<1>g. Moves(typed.p, r)
  BY <1>6, <1>f, MovesConsume
<1>h. Moves(q, r) /\ (r.errors = <<>> => typed.type \in T!WrittenType)
  <2>1. r.errors = <<>> => typed.p.errors = <<>>
    BY <1>g DEF Moves
  <2> QED BY <1>f, <1>g, <2>1, MovesOn
<1>i. binder \in T!NodeOps /\ binder # "["
  BY <1>a DEF T!NodeOps
<1>j. /\ head \in HeadSet /\ head.kind = "DECL_VAR" /\ head.op = binder /\ head.type = typed.type
      /\ head.params \in Seq(T!Param)
  <2>1. "DECL_VAR" \in Kinds
    BY KindsThere
  <2>2. Lexeme(name) \in Lexemes
    BY <1>c, WhatIsThere
  <2> QED BY ONLY <1>7, <1>f, <1>i, <2>1, <2>2, HeadTyped
<1>k. /\ g \in Frames /\ g.do = "build" /\ g.head = head /\ Len(g.kids) = 0
      /\ ~ SomeMarked(g.kids)
      /\ head.type \in T!WrittenType /\ head.params \in Seq(T!Param) /\ head.op # "[" =>
           \A s : Good(g, s)
  <2>1. "build" \in Places
    BY DEF Places
  <2> QED BY ONLY <1>8, <1>j, <2>1, EmptyFrame
<1>l. q.pos <= Len(source) => q.pos < r.pos
  <2>0. \A x : Legal(x) => x.pos \in Nat
    BY DEF Legal
  <2>1. q.pos <= Len(source) => first.pos = q.pos + 1
    BY <1>1, Read
  <2>2. first.pos <= name.pos
    <3>1. PICK next : next = p_next(first)
      OBVIOUS
    <3>2. first.pos <= next.pos /\ first.pos <= first.pos
      <4>1. first.pos \in Nat
        BY <1>b DEF Legal
      <4> QED BY <1>b, <3>1, <4>1, Read
    <3> QED BY <1>3, <3>1, <3>2
  <2>3. name.pos <= colon.pos
    BY <1>4, <1>c, MovesConsume DEF Moves
  <2>4. colon.pos <= typed.p.pos
    <3>1. CASE Kind(colon) = ":"
      <4>1. PICK there : there = p_next(colon)
        OBVIOUS
      <4>2. Legal(there) /\ colon.pos <= there.pos
        BY <1>d, <4>1, Read
      <4>3. typed = parseType(there)
        BY <1>5, <3>1, <4>1
      <4>4. there.pos <= typed.p.pos
        BY <4>2, <4>3, MovesType DEF Moves
      <4>5. colon.pos \in Nat /\ there.pos \in Nat /\ typed.p.pos \in Nat
        BY <1>d, <1>f, <2>0, <4>2
      <4> QED BY <4>2, <4>4, <4>5
    <3>2. CASE Kind(colon) # ":"
      <4>1. typed = [p |-> colon, type |-> none]
        BY <1>5, <3>2 DEF NoTypeGiven
      <4>2. colon.pos \in Nat
        BY <1>d DEF Legal
      <4> QED BY <4>1, <4>2
    <3> QED BY <3>1, <3>2
  <2>5. typed.p.pos <= r.pos /\ Legal(r)
    BY <1>g DEF Moves
  <2>6. /\ q.pos \in Nat /\ first.pos \in Nat /\ name.pos \in Nat /\ colon.pos \in Nat
        /\ typed.p.pos \in Nat /\ r.pos \in Nat
    BY <1>b, <1>c, <1>d, <1>f, <2>0, <2>5
  <2> QED BY <2>1, <2>2, <2>3, <2>4, <2>5, <2>6
<1> QED BY <1>9, <1>h, <1>i, <1>j, <1>k, <1>l

(* The call that reads a list of declarations or statements waits.         *)
LEMMA ListWaits ==
  ASSUME Going, Top.do \in {"p_parse", "stmts"}
  PROVE  /\ Top \in Frames /\ WaitsAt(Top, Below) /\ Below \in Seq(Frames)
         /\ Top.do = "stmts" => Room(Top, Below) = T!ExprKinds \cup {"DECL_VAR"}
         /\ Top.do = "p_parse" => Room(Top, Below) = {"DECL_VAR", "DECL_FUNC"} /\ Below = <<>>
<1>1. Runs(Top, Below) /\ Top \in Frames /\ Below \in Seq(Frames)
  BY Underway
<1>2. HeadFits(Top) /\ Sits(Top, Below)
  BY <1>1 DEF Runs
<1>3. Fed(Top, Len(Top.kids) + 1)
  BY DEF Fed
<1>4. Top.do = "p_parse" => Below = <<>>
  BY <1>2 DEF Sits
<1> QED BY <1>1, <1>2, <1>3, <1>4 DEF WaitsAt, Room, Accepts

(* The call that reads the ';' waits on that of the list.                  *)
LEMMA SemicolonWaits ==
  ASSUME Going, Top.do \in {"p_parse", "stmts"}, NEW h, h = Semicolon
  PROVE  /\ h \in Frames /\ h.do = "semicolon" /\ ~ SomeMarked(h.kids)
         /\ HeadFits(h) /\ Fed(h, Len(h.kids) + 1) /\ SitsOn(h, Top, Below)
         /\ Room(h, <<Top>> \o Below) = Room(Top, Below)
         /\ \A s : Good(h, s)
<1>1. Top \in Frames /\ Below \in Seq(Frames)
  BY ListWaits
<1>2. PICK head : head = NoNode
  OBVIOUS
<1>3. h = At("semicolon", head, <<>>)
  BY <1>2 DEF Semicolon
<1>4. "semicolon" \in Places
  BY DEF Places
<1>5. /\ head \in HeadSet /\ head.type \in T!WrittenType /\ head.params \in Seq(T!Param)
      /\ head.op # "["
  BY <1>2, NoNodeTyped
<1>6. /\ h \in Frames /\ h.do = "semicolon" /\ Len(h.kids) = 0
      /\ ~ SomeMarked(h.kids) /\ \A s : Good(h, s)
  BY ONLY <1>3, <1>4, <1>5, EmptyFrame
<1>7. HeadFits(h)
  BY <1>6 DEF HeadFits
<1>8. Fed(h, Len(h.kids) + 1)
  BY <1>6 DEF Fed
<1>9. SitsOn(h, Top, Below)
  BY <1>6 DEF SitsOn
<1>a. Room(h, <<Top>> \o Below) = Room(Top, Below)
  <2>1. PICK t : t = <<Top>> \o Below
    OBVIOUS
  <2>2. t[1] = Top
    BY <1>1, <2>1, Pile
  <2> QED BY <1>6, <2>1, <2>2 DEF Room
<1> QED BY <1>6, <1>7, <1>8, <1>9, <1>a

(* A declaration of a variable, at the top or in a block,                  *)
LEMMA VarDeclKeeps ==
  ASSUME Going, ~ Stuck, source \in Seq(Delivered), Top.do \in {"p_parse", "stmts"},
         NEW a, Legal(a), a.pos = p.pos, a.errors = p.errors, a.warnings = p.warnings,
         a.items <= p.items + 2, NEW q, Moves(a, q), Kind(q) \in {"let", "const"},
         NEW rest \in {<<Top>>, <<Semicolon, Top>>}, parseVarDecl(q, rest)
  PROVE  IInv'
<1>1. Legal(q)
  BY DEF Moves
<1>2. PICK r : \E g \in Frames :
           /\ Moves(q, r) /\ Continue(r, <<parseExprBP(0), g>> \o rest)
           /\ g.do = "build" /\ g.head.kind = "DECL_VAR" /\ Len(g.kids) = 0
           /\ ~ SomeMarked(g.kids)
           /\ r.errors = <<>> => \A s : Good(g, s)
  BY <1>1, VarDeclReads
<1>3. PICK g \in Frames :
           /\ Moves(q, r) /\ Continue(r, <<parseExprBP(0), g>> \o rest)
           /\ g.do = "build" /\ g.head.kind = "DECL_VAR" /\ Len(g.kids) = 0
           /\ ~ SomeMarked(g.kids)
           /\ r.errors = <<>> => \A s : Good(g, s)
  BY <1>2
<1>4. Reaches(r)
  <2>1. Moves(a, r)
    BY <1>3, MovesOn
  <2> QED BY <2>1, ReachesBy
<1>5. PICK f : f = parseExprBP(0)
  OBVIOUS
<1>6. /\ f \in Frames /\ f.do = "parseExprBP" /\ HeadFits(f) /\ Fed(f, Len(f.kids))
      /\ ~ SomeMarked(f.kids) /\ \A s : Good(f, s)
  <2>1. 0 \in 0..17
    OBVIOUS
  <2> QED BY <1>5, <2>1, ExprFrame
<1>7. /\ Top \in Frames /\ WaitsAt(Top, Below) /\ Below \in Seq(Frames)
      /\ "DECL_VAR" \in Room(Top, Below)
  BY ListWaits
<1>8. HeadFits(g)
  BY <1>3 DEF HeadFits
<1>9. Fed(g, Len(g.kids) + 1)
  BY <1>3 DEF Fed
<1>a. \A s : SitsOn(f, g, s)
  BY <1>3, <1>6 DEF SitsOn, Room, Accepts
<1>b. PICK h : h = Top
  OBVIOUS
<1>c. CASE rest = <<Top>>
  <2>1. SitsOn(g, h, Below)
    BY <1>3, <1>7, <1>b DEF SitsOn
  <2>2. <<f, g>> \o <<h>> = <<f, g, h>>
    <3>1. h \in Frames
      BY <1>7, <1>b
    <3>2. PICK b : b = <<h>>
      OBVIOUS
    <3>3. b \in Seq(Frames)
      BY <3>1, <3>2
    <3>4. <<f, g>> \o b = <<f>> \o (<<g>> \o b)
      BY ONLY <1>3, <1>6, <3>3, InFront2
    <3>5. <<g>> \o <<h>> = <<g, h>>
      BY ONLY <1>3, <3>1, Cons2
    <3>6. <<f>> \o <<g, h>> = <<f, g, h>>
      BY ONLY <1>3, <1>6, <3>1, Cons3
    <3> QED BY ONLY <3>2, <3>4, <3>5, <3>6
  <2>3. Continue(r, <<f, g, h>>)
    BY <1>3, <1>5, <1>b, <1>c, <2>2
  <2>4. h \in Frames /\ WaitsAt(h, Below)
    BY <1>7, <1>b
  <2>5. r.errors = <<>> /\ Good(Top, Below) =>
           /\ \A s : Good(f, s)
           /\ Good(g, <<h>> \o Below)
           /\ Good(h, Below)
           /\ SomeMarked(f.kids) \/ SomeMarked(g.kids) \/ SomeMarked(h.kids) <=> SomeMarked(Top.kids)
    BY <1>3, <1>6, <1>b
  <2> QED BY <1>3, <1>4, <1>6, <1>8, <1>9, <1>a, <2>1, <2>3, <2>4, <2>5, CalledTwice
<1>d. CASE rest = <<Semicolon, Top>>
  <2>1. PICK i : i = Semicolon
    OBVIOUS
  <2>2. /\ i \in Frames /\ i.do = "semicolon" /\ ~ SomeMarked(i.kids)
        /\ HeadFits(i) /\ Fed(i, Len(i.kids) + 1) /\ SitsOn(i, h, Below)
        /\ Room(i, <<h>> \o Below) = Room(h, Below)
        /\ \A s : Good(i, s)
    BY <1>b, <2>1, SemicolonWaits
  <2>3. SitsOn(g, i, <<h>> \o Below)
    BY <1>3, <1>7, <1>b, <2>2 DEF SitsOn
  <2>4. h \in Frames /\ WaitsAt(h, Below)
    BY <1>7, <1>b
  <2>5. <<f, g>> \o <<i, h>> = <<f, g, i, h>>
    <3>2. PICK b : b = <<i, h>>
      OBVIOUS
    <3>3. b \in Seq(Frames)
      BY <2>2, <2>4, <3>2
    <3>4. <<f, g>> \o b = <<f>> \o (<<g>> \o b)
      BY ONLY <1>3, <1>6, <3>3, InFront2
    <3>5. <<g>> \o <<i, h>> = <<g, i, h>>
      BY ONLY <1>3, <2>2, <2>4, Cons3
    <3>6. <<f>> \o <<g, i, h>> = <<f, g, i, h>>
      BY ONLY <1>3, <1>6, <2>2, <2>4, Cons4
    <3> QED BY ONLY <3>2, <3>4, <3>5, <3>6
  <2>6. Continue(r, <<f, g, i, h>>)
    BY <1>3, <1>5, <1>b, <1>d, <2>1, <2>5
  <2>7. r.errors = <<>> /\ Good(Top, Below) =>
           /\ \A s : Good(f, s)
           /\ Good(g, <<i>> \o (<<h>> \o Below))
           /\ Good(i, <<h>> \o Below)
           /\ Good(h, Below)
           /\ SomeMarked(f.kids) \/ SomeMarked(g.kids) \/ SomeMarked(i.kids) \/ SomeMarked(h.kids)
                <=> SomeMarked(Top.kids)
    BY <1>3, <1>6, <1>b, <2>2
  <2> QED BY <1>3, <1>4, <1>6, <1>8, <1>9, <1>a, <2>2, <2>3, <2>4, <2>6, <2>7, CalledThrice
<1> QED BY <1>c, <1>d

(* and of a function.                                                      *)
LEMMA FuncDeclKeeps ==
  ASSUME Going, ~ Stuck, source \in Seq(Delivered), Top.do = "p_parse",
         NEW a, Legal(a), a.pos = p.pos, a.errors = p.errors, a.warnings = p.warnings,
         a.items <= p.items + 2, NEW q, Moves(a, q), Kind(q) = "func", parseFuncDecl(q)
  PROVE  IInv'
<1>1. PICK name, colon, r : /\ name = p_next(q) /\ colon = p_consume(name, "IDENT")
                            /\ r = p_consume(colon, "(")
  OBVIOUS
<1>2. PICK e : e = ""
  OBVIOUS
<1>3. PICK head : head = Head0("DECL_FUNC", Lexeme(name), e, none)
  OBVIOUS
<1>4. PICK f : f = At("params", head, <<>>)
  OBVIOUS
<1>5. Continue(r, <<f, Top>>)
  BY <1>1, <1>2, <1>3, <1>4 DEF parseFuncDecl
<1>6. Legal(q)
  BY DEF Moves
<1>7. Moves(q, name) /\ Legal(name)
  BY <1>1, <1>6, MovesNext DEF Moves
<1>8. Moves(name, colon) /\ Legal(colon)
  BY <1>1, <1>7, MovesConsume DEF Moves
<1>9. Moves(colon, r)
  BY <1>1, <1>8, MovesConsume
<1>a. Reaches(r)
  <2>1. Moves(a, name)
    BY <1>6, <1>7, MovesOn
  <2>2. Moves(a, colon)
    BY <1>7, <1>8, <2>1, MovesOn
  <2>3. Moves(a, r)
    BY <1>8, <1>9, <2>2, MovesOn
  <2> QED BY <2>3, ReachesBy
<1>b. e \in T!NodeOps /\ e # "["
  BY <1>2, KindsThere, NotAnIndex
<1>c. none \in T!WrittenType /\ none \in T!Type
  BY DEF none, A!NoType, T!WrittenType, T!Type, Lexemes
<1>d. /\ head \in HeadSet /\ head.kind = "DECL_FUNC" /\ head.op = e /\ head.type = none
      /\ head.params \in Seq(T!Param)
  <2>1. "DECL_FUNC" \in Kinds
    BY KindsThere
  <2>2. Lexeme(name) \in Lexemes
    BY <1>7, WhatIsThere
  <2> QED BY ONLY <1>3, <1>b, <1>c, <2>1, <2>2, HeadTyped
<1>e. /\ f \in Frames /\ f.do = "params" /\ f.head = head /\ Len(f.kids) = 0
      /\ ~ SomeMarked(f.kids)
      /\ head.type \in T!WrittenType /\ head.params \in Seq(T!Param) /\ head.op # "[" =>
           \A s : Good(f, s)
  <2>1. "params" \in Places
    BY DEF Places
  <2> QED BY ONLY <1>4, <1>d, <2>1, EmptyFrame
<1>f. HeadFits(f)
  BY <1>d, <1>e DEF HeadFits
<1>g. Fed(f, Len(f.kids))
  BY <1>e DEF Fed
<1>h. /\ Top \in Frames /\ WaitsAt(Top, Below)
      /\ "DECL_FUNC" \in Room(Top, Below)
  BY ListWaits
<1>i. SitsOn(f, Top, Below)
  BY <1>d, <1>e, <1>h DEF SitsOn
<1>j. \A s : Good(f, s)
  BY <1>b, <1>c, <1>d, <1>e
<1> QED BY <1>5, <1>a, <1>e, <1>f, <1>g, <1>h, <1>i, <1>j, Called

-----------------------------------------------------------------------------
(* Statements and declarations.                                            *)

(* A statement.                                                            *)
LEMMA parseStatementKeeps ==
  ASSUME IInv, parseStatement
  PROVE  IInv'
<1>1. PICK a : a = growableArrayPush(p)
  OBVIOUS
<1>2. On("stmts")
  BY DEF parseStatement
<1>3. Going /\ Top.do = "stmts" /\ source \in Seq(Delivered) /\ Legal(p) /\ ~ Stuck
  BY <1>2, OnGoing
<1>4. /\ Legal(a) /\ a.items = p.items + 1
      /\ a.pos = p.pos /\ a.errors = p.errors /\ a.warnings = p.warnings
      /\ Kind(a) = Kind(p)
  BY <1>1, <1>3, Pushed
<1>5. a.items <= p.items + 2
  <2>1. p.items \in Nat
    BY <1>3 DEF Legal
  <2> QED BY <1>4, <2>1
<1>6. Moves(a, a)
  BY <1>3, <1>4, MovesSelf
<1>7. CASE Kind(p) \in {"let", "const"}
  <2>1. parseVarDecl(a, <<Semicolon, Top>>)
    BY <1>1, <1>7 DEF parseStatement
  <2>2. Kind(a) \in {"let", "const"}
    BY <1>4, <1>7
  <2> QED BY <1>3, <1>4, <1>5, <1>6, <2>1, <2>2, VarDeclKeeps
<1>8. CASE Kind(p) \notin {"let", "const"}
  <2>1. PICK f : f = parseExprBP(0)
    OBVIOUS
  <2>2. PICK i : i = Semicolon
    OBVIOUS
  <2>3. PICK h : h = Top
    OBVIOUS
  <2>4. Continue(a, <<f, i, h>>)
    BY <1>1, <1>8, <2>1, <2>2, <2>3 DEF parseStatement, parseExpression
  <2>5. /\ f \in Frames /\ f.do = "parseExprBP" /\ HeadFits(f) /\ Fed(f, Len(f.kids))
        /\ ~ SomeMarked(f.kids) /\ \A s : Good(f, s)
    <3>1. 0 \in 0..17
      OBVIOUS
    <3> QED BY <2>1, <3>1, ExprFrame
  <2>6. /\ i \in Frames /\ i.do = "semicolon" /\ ~ SomeMarked(i.kids)
        /\ HeadFits(i) /\ Fed(i, Len(i.kids) + 1) /\ SitsOn(i, h, Below)
        /\ Room(i, <<h>> \o Below) = Room(h, Below)
        /\ \A s : Good(i, s)
    BY <1>3, <2>2, <2>3, SemicolonWaits
  <2>7. h \in Frames /\ WaitsAt(h, Below) /\ T!ExprKinds \subseteq Room(h, Below)
    BY <1>3, <2>3, ListWaits
  <2>8. SitsOn(f, i, <<h>> \o Below)
    BY <2>5, <2>6, <2>7 DEF SitsOn
  <2>9. Reaches(a)
    BY <1>3, <1>4, <1>5, <1>6, ReachesBy
  <2>a. a.errors = <<>> /\ Good(Top, Below) =>
           /\ \A s : Good(f, s)
           /\ Good(i, <<h>> \o Below)
           /\ Good(h, Below)
           /\ SomeMarked(f.kids) \/ SomeMarked(i.kids) \/ SomeMarked(h.kids) <=> SomeMarked(Top.kids)
    BY <2>3, <2>5, <2>6
  <2> QED BY <1>3, <2>4, <2>5, <2>6, <2>7, <2>8, <2>9, <2>a, CalledTwice
<1> QED BY <1>7, <1>8

(* NULL among the declarations.                                            *)
LEMMA NullPushed ==
  ASSUME Going, Top.do = "p_parse", NEW f, f = [Top EXCEPT !.kids = Append(@, NullDecl)]
  PROVE  f \in Frames /\ HeadFits(f) /\ Fed(f, Len(f.kids)) /\ Sits(f, Below)
<1>1. Runs(Top, Below) /\ Top \in Frames
  BY Underway
<1>2. HeadFits(Top) /\ Sits(Top, Below)
  BY <1>1 DEF Runs
<1>3. NullDecl \in Cells
  <2>1. PICK e : e = ""
    OBVIOUS
  <2>2. e \in T!NodeOps /\ e \in Lexemes
    BY <2>1, KindsThere
  <2>3. NullDecl = Leaf("NULL", e, e, 0)
    BY <2>1 DEF NullDecl
  <2>4. 0 \in Nat /\ "NULL" \in Kinds
    BY KindsThere
  <2> QED BY ONLY <2>2, <2>3, <2>4, LeafTyped
<1>4. PICK kids : kids = Append(Top.kids, NullDecl)
  OBVIOUS
<1>5. kids \in Seq(Cells)
  <2>1. Top.kids \in Seq(Cells)
    BY <1>1, FrameParts
  <2> QED BY ONLY <1>3, <1>4, <2>1
<1>6. f = [Top EXCEPT !.kids = kids]
  BY <1>4
<1>7. f \in Frames /\ f.do = "p_parse" /\ f.head = Top.head
  BY ONLY <1>1, <1>5, <1>6, Top.do = "p_parse", KidsSet
<1>8. HeadFits(f)
  BY <1>2, <1>7 DEF HeadFits
<1>9. Fed(f, Len(f.kids))
  BY <1>7 DEF Fed
<1>a. Sits(f, Below)
  BY <1>2, <1>7 DEF Sits
<1> QED BY <1>7, <1>8, <1>9, <1>a

(* A declaration.                                                          *)
LEMMA p_parseDeclKeeps ==
  ASSUME IInv, p_parseDecl
  PROVE  IInv'
<1>1. PICK a : a = growableArrayPush(p)
  OBVIOUS
<1>2. PICK public : public = p_next(a)
  OBVIOUS
<1>3. PICK f : f = [Top EXCEPT !.kids = Append(@, NullDecl)]
  OBVIOUS
<1>4. PICK m : m = Static("Expected ...")
  OBVIOUS
<1>5. /\ On("p_parse")
      /\ \/ Kind(p) \in {"let", "const"} /\ parseVarDecl(a, <<Semicolon, Top>>)
         \/ Kind(p) = "func" /\ parseFuncDecl(a)
         \/ Kind(p) = "pub" /\ Kind(public) = "func" /\ parseFuncDecl(public)
         \/ Kind(p) = "pub" /\ Kind(public) = "const" /\ parseVarDecl(public, <<Top>>)
         \/ Kind(p) = "pub" /\ Continue(p_next(Refuse(public, m)), <<f>>)
         \/ Kind(p) \notin {"let", "const", "func", "pub", "EOF"} /\ Continue(a, <<f>>)
  BY <1>1, <1>2, <1>3, <1>4 DEF p_parseDecl
<1>6. Going /\ Top.do = "p_parse" /\ source \in Seq(Delivered) /\ Legal(p)
  BY <1>5, OnGoing
<1>7. /\ Legal(a) /\ a.items = p.items + 1
      /\ a.pos = p.pos /\ a.errors = p.errors /\ a.warnings = p.warnings
      /\ Kind(a) = Kind(p)
  BY <1>1, <1>6, Pushed
<1>8. a.items <= p.items + 2
  <2>1. p.items \in Nat
    BY <1>6 DEF Legal
  <2> QED BY <1>7, <2>1
<1>9. Kind(p) \in {"let", "const", "func", "pub", "EOF"} => ~ Stuck
  BY DEF Stuck
<1>a. Moves(a, a)
  BY <1>6, <1>7, MovesSelf
<1>b. Kind(p) = "pub" => Moves(a, public)
  BY <1>2, <1>6, <1>7, MovesNext
<1>c. f \in Frames /\ HeadFits(f) /\ Fed(f, Len(f.kids)) /\ Sits(f, Below)
  BY <1>3, <1>6, NullPushed
<1>d. CASE Kind(p) \in {"let", "const"} /\ parseVarDecl(a, <<Semicolon, Top>>)
  <2>1. ~ Stuck /\ Kind(a) \in {"let", "const"}
    BY <1>7, <1>9, <1>d
  <2> QED BY <1>6, <1>7, <1>8, <1>a, <1>d, <2>1, VarDeclKeeps
<1>e. CASE Kind(p) = "func" /\ parseFuncDecl(a)
  <2>1. ~ Stuck /\ Kind(a) = "func"
    BY <1>7, <1>9, <1>e
  <2> QED BY <1>6, <1>7, <1>8, <1>a, <1>e, <2>1, FuncDeclKeeps
<1>f. CASE Kind(p) = "pub" /\ Kind(public) = "func" /\ parseFuncDecl(public)
  <2>1. ~ Stuck
    BY <1>9, <1>f
  <2> QED BY <1>6, <1>7, <1>8, <1>b, <1>f, <2>1, FuncDeclKeeps
<1>g. CASE Kind(p) = "pub" /\ Kind(public) = "const" /\ parseVarDecl(public, <<Top>>)
  <2>1. ~ Stuck
    BY <1>9, <1>g
  <2> QED BY <1>6, <1>7, <1>8, <1>b, <1>g, <2>1, VarDeclKeeps
<1>h. CASE Kind(p) = "pub" /\ Continue(p_next(Refuse(public, m)), <<f>>)
  <2>1. PICK r, q : r = Refuse(public, m) /\ q = p_next(r)
    OBVIOUS
  <2>2. m \in Message
    BY <1>4 DEF Static, Message, Texts, ParserTexts
  <2>3. Legal(public) /\ public.items = a.items
    BY <1>b, <1>h DEF Moves
  <2>4. Legal(r) /\ r.errors # <<>> /\ r.items = a.items
    BY <1>6, <2>1, <2>2, <2>3, Refused
  <2>5. Legal(q) /\ q.errors # <<>> /\ q.items = a.items
    BY <1>6, <2>1, <2>4, Read
  <2>6. Reaches(q)
    <3>1. p.items \in 0..MaxItems /\ MaxItems \in Nat
      BY <1>6, Underway
    <3>2. q.items <= MaxItems + 2
      BY <1>7, <2>5, <3>1
    <3> QED BY <2>5, <3>2 DEF Reaches
  <2>7. ~ Stuck
    BY <1>9, <1>h
  <2>8. Continue(q, <<f>>)
    BY <1>h, <2>1
  <2> QED BY <1>6, <1>c, <2>5, <2>6, <2>7, <2>8, Replaced
<1>i. CASE Kind(p) \notin {"let", "const", "func", "pub", "EOF"} /\ Continue(a, <<f>>)
  <2>1. /\ Below = <<>> /\ Runs(Top, Below) /\ (p.errors = <<>> => Quiet(p))
        /\ p.items \in 0..MaxItems /\ MaxItems \in Nat
    <3>1. Below = <<>>
      BY <1>6, ListWaits
    <3> QED BY <1>6, <3>1, Underway
  <2>2. p' = a /\ calls' = <<f>> \o Below /\ UNCHANGED <<source, outcome, tree>>
    BY <1>i DEF Continue, Below
  <2>3. Runs(f, Below)
    BY <1>c, <2>1 DEF Runs
  <2>4. Len(calls') = 1
    <3>1. PICK b : b = Below
      OBVIOUS
    <3>2. b \in Seq(Frames) /\ Len(b) = 0
      BY <2>1, <3>1, EmptySeq
    <3>3. Len(<<f>> \o b) = Len(b) + 1
      BY <1>c, <3>2, Pile
    <3> QED BY <2>2, <3>1, <3>2, <3>3
  <2>5. Lexeme(p)' = Lexeme(p)
    BY <1>7, <2>2 DEF Lexeme
  <2>6. Kind(p)' = Kind(p)
    BY <2>5 DEF Kind
  <2>7. Stuck'
    BY <1>i, <2>4, <2>6 DEF Stuck
  <2>8. p'.errors = <<>> => Quiet(p')
    BY <1>7, <2>1, <2>2 DEF Quiet
  <2>9. TypeOK /\ outcome = "parsing"
    BY <1>6 DEF Going, IInv
  <2>a. Legal(p') /\ p'.items <= MaxItems + 2
    BY <1>7, <2>1, <2>2
  <2> QED BY <2>2, <2>3, <2>7, <2>8, <2>9, <2>a, Resumed
<1> QED BY <1>5, <1>d, <1>e, <1>f, <1>g, <1>h, <1>i

-----------------------------------------------------------------------------
(* Functions.                                                              *)

(* A parameter,                                                            *)
LEMMA parseParamKeeps ==
  ASSUME IInv, parseParam
  PROVE  IInv'
<1>1. PICK b : b = growableArrayPush(p)
  OBVIOUS
<1>2. PICK a : a = growableArrayPush(b)
  OBVIOUS
<1>3. PICK name, colon : name = p_consume(a, "IDENT") /\ colon = p_consume(name, ":")
  OBVIOUS
<1>4. PICK typed : typed = parseType(colon)
  OBVIOUS
<1>5. PICK q : q = IF Kind(typed.p) = ")" THEN typed.p ELSE p_consume(typed.p, ",")
  OBVIOUS
<1>6. PICK one : one = param(Lexeme(p), typed.type)
  OBVIOUS
<1>7. PICK f : f = [Top EXCEPT !.head.params = Append(@, one)]
  OBVIOUS
<1>8. On("params") /\ Continue(q, <<f>>)
  BY <1>1, <1>2, <1>3, <1>4, <1>5, <1>6, <1>7 DEF parseParam
<1>9. Going /\ Top.do = "params" /\ source \in Seq(Delivered) /\ Legal(p) /\ ~ Stuck
  BY <1>8, OnGoing
<1>a. /\ Legal(b) /\ b.items = p.items + 1
      /\ b.pos = p.pos /\ b.errors = p.errors /\ b.warnings = p.warnings
  BY <1>1, <1>9, Pushed
<1>b. /\ Legal(a) /\ a.items = b.items + 1
      /\ a.pos = p.pos /\ a.errors = p.errors /\ a.warnings = p.warnings
  BY <1>2, <1>9, <1>a, Pushed
<1>c. a.items <= p.items + 2
  <2>1. p.items \in Nat
    BY <1>9 DEF Legal
  <2> QED BY <1>a, <1>b, <2>1
<1>d. Moves(a, name) /\ Legal(name)
  BY <1>3, <1>9, <1>b, MovesConsume DEF Moves
<1>e. Moves(name, colon) /\ Legal(colon)
  BY <1>3, <1>9, <1>d, MovesConsume DEF Moves
<1>f. /\ Moves(colon, typed.p) /\ Legal(typed.p) /\ typed.type \in T!Type
      /\ typed.p.errors = <<>> => typed.type \in T!WrittenType
  BY <1>4, <1>9, <1>e, MovesType DEF Moves
<1>g. Moves(typed.p, q)
  <2>1. "," # "["
    OBVIOUS
  <2> QED BY <1>5, <1>9, <1>f, <2>1, MovesSelf, MovesConsume
<1>h. Reaches(q)
  <2>1. Moves(a, colon)
    BY <1>9, <1>b, <1>d, <1>e, MovesOn
  <2>2. Moves(a, typed.p)
    BY <1>9, <1>b, <1>e, <1>f, <2>1, MovesOn
  <2>3. Moves(a, q)
    BY <1>9, <1>b, <1>f, <1>g, <2>2, MovesOn
  <2> QED BY <1>9, <1>b, <1>c, <2>3, ReachesBy
<1>i. q.errors = <<>> => typed.type \in T!WrittenType
  BY <1>f, <1>g DEF Moves
<1>j. Runs(Top, Below) /\ Top \in Frames
  BY <1>9, Underway
<1>k. HeadFits(Top) /\ Fed(Top, Len(Top.kids)) /\ Sits(Top, Below)
  BY <1>j DEF Runs
<1>l. PICK params : params = Append(Top.head.params, one)
  OBVIOUS
<1>m. Lexeme(p) \in Lexemes
  BY <1>9, WhatIsThere
<1>n. /\ params \in Params
      /\ typed.type \in T!WrittenType /\ Top.head.params \in Seq(T!Param) => params \in Seq(T!Param)
  <2>1. Top.head.params \in Params
    <3>1. Top.head \in HeadSet
      BY <1>j, FrameParts
    <3> HIDE DEF Kinds, Lexemes, T!NodeOps, T!Type, Params
    <3> QED BY <3>1 DEF HeadSet
  <2>2. one \in [name : Lexemes, type : T!Type]
    BY <1>6, <1>f, <1>m DEF param
  <2>3. typed.type \in T!WrittenType => one \in T!Param
    BY <1>6, <1>m DEF param, T!Param
  <2>4. params \in Params
    <3>1. PICK S : S = [name : Lexemes, type : T!Type]
      OBVIOUS
    <3>2. Top.head.params \in Seq(S) /\ one \in S
      BY <2>1, <2>2, <3>1 DEF Params
    <3>3. params \in Seq(S)
      BY ONLY <1>l, <3>2
    <3> QED BY <3>1, <3>3 DEF Params
  <2>5. ASSUME typed.type \in T!WrittenType, Top.head.params \in Seq(T!Param)
        PROVE  params \in Seq(T!Param)
    <3>1. PICK S : S = T!Param
      OBVIOUS
    <3>2. Top.head.params \in Seq(S) /\ one \in S
      BY <2>3, <2>5, <3>1
    <3>3. params \in Seq(S)
      BY ONLY <1>l, <3>2
    <3> QED BY <3>1, <3>3
  <2> QED BY <2>4, <2>5
<1>o. /\ f \in Frames /\ f.do = Top.do /\ f.kids = Top.kids
      /\ f.head.kind = Top.head.kind /\ f.head.op = Top.head.op /\ f.head.type = Top.head.type
      /\ f.head.params = params
  <2>1. f = [Top EXCEPT !.head = [Top.head EXCEPT !.params = params]]
    BY <1>7, <1>l
  <2>2. PICK head : head = [Top.head EXCEPT !.params = params]
    OBVIOUS
  <2>3. Top.head \in HeadSet
    BY <1>j, FrameParts
  <2> HIDE DEF Cell, Kinds, Lexemes, T!NodeOps, T!Type, Params, Places
  <2>4. /\ head \in HeadSet /\ head.kind = Top.head.kind /\ head.op = Top.head.op
        /\ head.type = Top.head.type /\ head.params = params
    BY <1>n, <2>2, <2>3 DEF HeadSet
  <2>5. f = [Top EXCEPT !.head = head]
    BY <2>1, <2>2
  <2>6. f \in Frames /\ f.do = Top.do /\ f.kids = Top.kids /\ f.head = head
    BY ONLY <1>j, <2>4, <2>5 DEF Frames, HeadSet
  <2> QED BY <2>4, <2>6
<1>p. HeadFits(f)
  BY <1>9, <1>k, <1>o DEF HeadFits
<1>q. Fed(f, Len(f.kids))
  BY <1>9, <1>k, <1>o DEF Fed
<1>r. Sits(f, Below)
  BY <1>9, <1>k, <1>o DEF Sits
<1>s. Room(f, Below) = Room(Top, Below)
  BY <1>9, <1>o DEF Room
<1>t. q.errors = <<>> /\ Good(Top, Below) => Good(f, Below)
  BY <1>i, <1>n, <1>o, <1>s DEF Good
<1> QED BY <1>8, <1>9, <1>h, <1>o, <1>p, <1>q, <1>r, <1>t, Replaced

(* and the end of the list.                                                *)
LEMMA paramsEndKeeps ==
  ASSUME IInv, paramsEnd
  PROVE  IInv'
<1>1. PICK mark : mark = "{"
  OBVIOUS
<1>2. PICK behind : behind = p_next(p)
  OBVIOUS
<1>3. PICK typed : typed = IF Kind(behind) = mark THEN NoTypeGiven(behind) ELSE parseType(behind)
  OBVIOUS
<1>4. PICK q : q = p_consume(typed.p, mark)
  OBVIOUS
<1>5. PICK f : f = [Top EXCEPT !.do = "stmts", !.head.type = typed.type]
  OBVIOUS
<1>6. On("params") /\ Kind(p) = ")" /\ Continue(q, <<f>>)
  BY <1>1, <1>2, <1>3, <1>4, <1>5 DEF paramsEnd
<1>7. Going /\ Top.do = "params" /\ source \in Seq(Delivered) /\ Legal(p) /\ ~ Stuck
  BY <1>6, OnGoing
<1>8. Moves(p, behind) /\ Legal(behind)
  BY <1>2, <1>6, <1>7, MovesNext DEF Moves
<1>9. none \in T!WrittenType /\ none \in T!Type
  BY DEF none, A!NoType, T!WrittenType, T!Type, Lexemes
<1>a. /\ Moves(behind, typed.p) /\ Legal(typed.p) /\ typed.type \in T!Type
      /\ typed.p.errors = <<>> => typed.type \in T!WrittenType
  <2>1. CASE Kind(behind) = mark
    <3>1. typed = [p |-> behind, type |-> none]
      BY <1>3, <2>1 DEF NoTypeGiven
    <3>2. Moves(behind, behind)
      BY <1>7, <1>8, MovesSelf
    <3> QED BY <1>8, <1>9, <3>1, <3>2
  <2>2. CASE Kind(behind) # mark
    <3>1. typed = parseType(behind)
      BY <1>3, <2>2
    <3> QED BY <1>7, <1>8, <3>1, MovesType DEF Moves
  <2> QED BY <2>1, <2>2
<1>b. Moves(typed.p, q)
  <2>1. mark # "["
    BY <1>1, NotAnIndex
  <2> QED BY <1>4, <1>7, <1>a, <2>1, MovesConsume
<1>c. Reaches(q)
  <2>1. Moves(p, typed.p)
    BY <1>7, <1>8, <1>a, MovesOn
  <2>2. Moves(p, q)
    BY <1>7, <1>a, <1>b, <2>1, MovesOn
  <2> QED BY <1>7, <2>2, ReachesFrom
<1>d. q.errors = <<>> => typed.type \in T!WrittenType
  BY <1>a, <1>b DEF Moves
<1>e. Runs(Top, Below) /\ Top \in Frames
  BY <1>7, Underway
<1>f. HeadFits(Top) /\ Fed(Top, Len(Top.kids)) /\ Sits(Top, Below)
  BY <1>e DEF Runs
<1>g. /\ f \in Frames /\ f.do = "stmts" /\ f.kids = Top.kids
      /\ f.head.kind = Top.head.kind /\ f.head.op = Top.head.op /\ f.head.type = typed.type
      /\ f.head.params = Top.head.params
  <2>1. "stmts" \in Places
    BY DEF Places
  <2>2. PICK head : head = [Top.head EXCEPT !.type = typed.type]
    OBVIOUS
  <2>3. Top.head \in HeadSet
    BY <1>e, FrameParts
  <2> HIDE DEF Cell, Kinds, Lexemes, T!NodeOps, T!Type, Params, Places
  <2>4. /\ head \in HeadSet /\ head.kind = Top.head.kind /\ head.op = Top.head.op
        /\ head.type = typed.type /\ head.params = Top.head.params
    BY <1>a, <2>2, <2>3 DEF HeadSet
  <2>5. f = [[Top EXCEPT !.do = "stmts"] EXCEPT !.head = head]
    BY <1>5, <1>e, <2>2 DEF Frames
  <2>6. f \in Frames /\ f.do = "stmts" /\ f.kids = Top.kids /\ f.head = head
    BY ONLY <1>e, <2>1, <2>4, <2>5 DEF Frames, HeadSet
  <2> QED BY <2>4, <2>6
<1>h. HeadFits(f)
  BY <1>7, <1>f, <1>g DEF HeadFits
<1>i. Fed(f, Len(f.kids))
  BY <1>g DEF Fed
<1>j. Sits(f, Below)
  BY <1>7, <1>f, <1>g DEF Sits
<1>k. Len(Top.kids) = 0
  BY <1>7, <1>f DEF Fed
<1>l. 1..Len(Top.kids) = {}
  BY <1>k
<1>m. q.errors = <<>> /\ Good(Top, Below) => Good(f, Below)
  BY <1>d, <1>g, <1>l DEF Good
<1> QED BY <1>6, <1>7, <1>c, <1>g, <1>h, <1>i, <1>j, <1>m, Replaced

-----------------------------------------------------------------------------
(* The end of p_parse, and the steps together.                             *)

(* The tree that p_parse returns.                                          *)
LEMMA p_parseKeeps ==
  ASSUME IInv, p_parse
  PROVE  IInv'
<1>1. PICK t : t = Built(Top)
  OBVIOUS
<1>2. /\ On("p_parse") /\ Kind(p) = "EOF"
      /\ outcome' = "done" /\ calls' = <<>> /\ UNCHANGED <<source, p>> /\ tree' = t
  BY <1>1 DEF p_parse, Stop
<1>3. Going /\ Top.do = "p_parse" /\ source \in Seq(Delivered) /\ Legal(p)
  BY <1>2, OnGoing
<1>4. /\ Runs(Top, Below) /\ Top \in Frames
      /\ p.errors = <<>> => Quiet(p)
      /\ p.errors = <<>> /\ ~ Stuck => Content(p, Top, Below)
  BY <1>3, Underway
<1>5. HeadFits(Top) /\ Fed(Top, Len(Top.kids))
  BY <1>4 DEF Runs
<1>6. Below = <<>>
  BY <1>3, ListWaits
<1>7. TypeOK'
  <2>1. TypeOK
    BY <1>3 DEF Going, IInv
  <2>2. calls' \in Seq(Frames)
    BY <1>2, EmptySeq
  <2> HIDE DEF Message, Frames
  <2> QED BY <1>2, <2>1, <2>2 DEF TypeOK, Outcomes
<1>8. p.errors = <<>> => Returned(t)
  <2> SUFFICES ASSUME p.errors = <<>> PROVE Returned(t)
    OBVIOUS
  <2>1. Content(p, Top, Below)
    <3>1. ~ Stuck
      BY <1>2 DEF Stuck
    <3> QED BY <1>4, <3>1
  <2>2. Good(Top, Below) /\ (Passed(p) <=> SomeMarked(Top.kids) \/ MarkedIn(Below))
    BY <2>1 DEF Content
  <2>3. /\ t \in Cells /\ Sound(t) /\ t[1].kind = Top.head.kind
        /\ Marked(t) <=> SomeMarked(Top.kids)
    BY <1>1, <1>3, <1>4, <1>5, <2>2, BuiltRight
  <2>4. t[1].kind = "PROGRAM"
    BY <1>3, <1>5, <2>3 DEF HeadFits
  <2>5. T!WellFormed(Table(t)) /\ (Marked(t) <=> \E n \in DOMAIN t : t[n].op = "[")
    BY <2>3, <2>4, SoundIsWellFormed
  <2>6. ~ MarkedIn(Below)
    <3>1. PICK b : b = Below
      OBVIOUS
    <3>2. 1..Len(b) = {}
      BY <1>6, <3>1
    <3> QED BY <3>1, <3>2 DEF MarkedIn
  <2>7. Passed(p) <=> \E i \in DOMAIN source : source[i] = "["
    <3>1. p.pos = Len(source) + 1
      BY <1>2, <1>3, WhatIsThere
    <3>2. Len(source) \in Nat /\ DOMAIN source = 1..Len(source)
      BY <1>3
    <3>3. p.pos - 1 = Len(source)
      BY <3>1, <3>2
    <3> QED BY <3>2, <3>3 DEF Passed
  <2> QED BY <2>2, <2>3, <2>5, <2>6, <2>7 DEF Returned
<1>9. ContentRight'
  <2>1. Returned(tree)' <=> Returned(t)
    BY <1>2 DEF Returned
  <2>2. Quiet(p)' <=> Quiet(p)
    BY <1>2 DEF Quiet
  <2> QED BY <1>2, <1>4, <1>8, <2>1, <2>2 DEF ContentRight
<1>a. StackRight'
  BY <1>2 DEF StackRight
<1> QED BY <1>7, <1>9, <1>a DEF IInv

(* The arena without memory.                                               *)
LEMMA exhaustKeeps ==
  ASSUME IInv, exhaust
  PROVE  IInv'
<1>1. outcome = "parsing" /\ outcome' = "exhausted" /\ UNCHANGED <<source, p, calls, tree>>
  BY DEF exhaust
<1>2. TypeOK /\ ContentRight
  BY DEF IInv
<1>3. MaxItems \in Nat
  BY SourcesAssumption
<1>4. Legal(p) /\ p.items <= MaxItems + 2
  <2>1. /\ p \in [pos : 1..(Len(source) + 1), items : 0..(MaxItems + 2),
                  errors : Seq(Message), warnings : Seq(Message)]
        /\ Len(p.errors) <= MaxErrors /\ Len(p.warnings) <= MaxErrors
    BY <1>2 DEF TypeOK
  <2>2. 0..(MaxItems + 2) \subseteq Nat
    BY <1>3
  <2> HIDE DEF Message
  <2>3. p.items \in 0..(MaxItems + 2)
    BY <2>1
  <2>4. p.items <= MaxItems + 2
    BY <1>3, <2>3
  <2> QED BY <2>1, <2>2, <2>4 DEF Legal
<1>5. calls' \in Seq(Frames)
  BY <1>1, <1>2 DEF TypeOK
<1>6. p'.errors = <<>> => Quiet(p')
  BY <1>1, <1>2 DEF ContentRight
<1>7. Legal(p') /\ p'.items <= MaxItems + 2
  BY <1>1, <1>4
<1> QED BY <1>1, <1>2, <1>5, <1>6, <1>7, Ended

(* Nothing happens.                                                        *)
LEMMA StutterKeeps ==
  ASSUME IInv, UNCHANGED vars
  PROVE  IInv'
<1>1. UNCHANGED <<source, p, calls, outcome, tree>>
  BY DEF vars
<1>2. TypeOK'
  <2> HIDE DEF Message, Frames
  <2> QED BY <1>1 DEF IInv, TypeOK
<1>3. StackRight'
  BY <1>1 DEF IInv, StackRight
<1>4. ContentRight'
  <2>1. Quiet(p)' <=> Quiet(p)
    BY <1>1 DEF Quiet
  <2>2. Returned(tree)' <=> Returned(tree)
    BY <1>1 DEF Returned
  <2>3. Content(p, Head(calls), Tail(calls))' <=> Content(p, Head(calls), Tail(calls))
    BY <1>1 DEF Content, Passed
  <2>4. Stuck' <=> Stuck
    BY <1>1 DEF Stuck, Kind, Lexeme
  <2> QED BY <1>1, <2>1, <2>2, <2>3, <2>4 DEF IInv, ContentRight
<1> QED BY <1>2, <1>3, <1>4 DEF IInv

(* p_parse begins with an empty program.                                   *)
LEMMA Start ==
  ASSUME Init
  PROVE  IInv
<1>0. PICK e : e = <<>>
  OBVIOUS
<1>1. PICK o : o = ""
  OBVIOUS
<1>2. PICK head : head = Node("PROGRAM", o)
  OBVIOUS
<1>3. PICK f : f = At("p_parse", head, <<>>)
  OBVIOUS
<1>4. /\ source \in Sources /\ p = [pos |-> 1, errors |-> e, warnings |-> e, items |-> 0]
      /\ calls = <<f>> /\ outcome = "parsing" /\ tree = <<>>
  BY <1>0, <1>1, <1>2, <1>3 DEF Init
<1>5. o \in T!NodeOps /\ o # "["
  BY <1>1, KindsThere, NotAnIndex
<1>6. /\ head \in HeadSet /\ head.kind = "PROGRAM" /\ head.op = o /\ head.type \in T!WrittenType
      /\ head.params \in Seq(T!Param)
  <2>1. "PROGRAM" \in Kinds
    BY DEF Kinds, T!NodeKinds
  <2> QED BY ONLY <1>2, <1>5, <2>1, NodeTyped
<1>7. /\ f \in Frames /\ f.do = "p_parse" /\ f.head = head /\ Len(f.kids) = 0
      /\ ~ SomeMarked(f.kids) /\ \A s : Good(f, s)
  <2>1. "p_parse" \in Places
    BY DEF Places
  <2> QED BY ONLY <1>3, <1>5, <1>6, <2>1, EmptyFrame
<1>8. source \in Seq(Delivered) /\ MaxItems \in Nat /\ MaxErrors \in Nat /\ MaxErrors # 0
  BY <1>4, SourcesAssumption, MaxErrorsAssumption
<1>9. e \in Seq(Message) /\ Len(e) = 0
  BY <1>0, EmptySeq
<1>a. PICK none_ : none_ = <<>> /\ none_ \in Seq(Frames)
  BY EmptySeq
<1>b. Head(calls) = f /\ Tail(calls) = none_ /\ calls \in Seq(Frames) /\ calls # <<>>
  <2>1. PICK S : S = Frames
    OBVIOUS
  <2>2. f \in S /\ calls = <<f>>
    BY <1>4, <1>7, <2>1
  <2>3. Head(calls) = f /\ Tail(calls) = <<>> /\ calls \in Seq(S) /\ calls # <<>>
    BY ONLY <2>2
  <2> QED BY <1>a, <2>1, <2>3
<1>c. 1..Len(none_) = {}
  BY <1>a
<1>d. TypeOK
  <2>1. p.pos \in 1..(Len(source) + 1) /\ p.items \in 0..(MaxItems + 2)
    <3>1. Len(source) \in Nat
      BY <1>8
    <3> QED BY <1>4, <1>8, <3>1
  <2>2. Len(p.errors) <= MaxErrors /\ Len(p.warnings) <= MaxErrors
    BY <1>4, <1>8, <1>9
  <2> HIDE DEF Message, Frames
  <2>3. p \in [pos : 1..(Len(source) + 1), items : 0..(MaxItems + 2),
               errors : Seq(Message), warnings : Seq(Message)]
    BY <1>4, <1>9, <2>1
  <2> QED BY <1>4, <1>8, <1>b, <2>2, <2>3 DEF TypeOK, Outcomes
<1>e. Runs(f, none_)
  <2>1. HeadFits(f)
    BY <1>6, <1>7 DEF HeadFits
  <2>2. Fed(f, Len(f.kids))
    BY <1>7 DEF Fed
  <2>3. Sits(f, none_)
    BY <1>7, <1>a DEF Sits
  <2>4. Waits(none_)
    BY <1>a, <1>c DEF Waits
  <2> QED BY <1>7, <2>1, <2>2, <2>3, <2>4 DEF Runs
<1>f. Content(p, f, none_)
  <2>1. AllGood(none_) /\ ~ MarkedIn(none_)
    BY <1>c DEF AllGood, MarkedIn
  <2>2. p.pos = 1
    BY <1>4
  <2>3. ~ Passed(p)
    BY <2>2 DEF Passed
  <2> QED BY <1>7, <2>1, <2>3 DEF Content
<1>g. Quiet(p)
  <2>1. p.warnings = e /\ DOMAIN e = {}
    BY <1>0, <1>4
  <2> QED BY <2>1 DEF Quiet
<1>h. StackRight
  BY <1>b, <1>e DEF StackRight
<1>i. ContentRight
  BY <1>4, <1>b, <1>f, <1>g DEF ContentRight
<1> QED BY <1>d, <1>h, <1>i DEF IInv

-----------------------------------------------------------------------------
(* Every step keeps the invariant.                                         *)
LEMMA Step ==
  ASSUME IInv, [Next]_vars
  PROVE  IInv'
<1>1. CASE p_parse
  BY <1>1, p_parseKeeps
<1>2. CASE p_parseDecl
  BY <1>2, p_parseDeclKeeps
<1>3. CASE parseParam
  BY <1>3, parseParamKeeps
<1>4. CASE paramsEnd
  BY <1>4, paramsEndKeeps
<1>5. CASE parseStatement
  BY <1>5, parseStatementKeeps
<1>6. CASE stmtsEnd
  BY <1>6, stmtsEndKeeps
<1>7. CASE semicolon
  BY <1>7, semicolonKeeps
<1>8. CASE build
  BY <1>8, buildKeeps
<1>9. CASE parseExpr
  <2>1. CASE prefix
    BY <2>1, prefixKeeps
  <2>2. CASE primaryLeaf
    BY <2>2, primaryLeafKeeps
  <2>3. CASE primaryParen
    BY <2>3, primaryParenKeeps
  <2>4. CASE paren
    BY <2>4, parenKeeps
  <2>5. CASE primaryBlock
    BY <2>5, primaryBlockKeeps
  <2>6. CASE primaryExit
    BY <2>6, primaryExitKeeps
  <2>7. CASE primaryIf
    BY <2>7, primaryIfKeeps
  <2>8. CASE ifCond
    BY <2>8, ifCondKeeps
  <2>9. CASE ifTrue
    BY <2>9, ifTrueKeeps
  <2>a. CASE primaryUnexpected
    BY <2>a, primaryUnexpectedKeeps
  <2>b. CASE exprEnd
    BY <2>b, exprEndKeeps
  <2>c. CASE callExpr
    BY <2>c, callExprKeeps
  <2>d. CASE indexExpr
    BY <2>d, indexExprKeeps
  <2>e. CASE binop
    BY <2>e, binopKeeps
  <2>f. CASE args
    BY <2>f, argsKeeps
  <2>g. CASE comma
    BY <2>g, commaKeeps
  <2> QED BY <1>9, <2>1, <2>2, <2>3, <2>4, <2>5, <2>6, <2>7, <2>8, <2>9, <2>a, <2>b, <2>c,
             <2>d, <2>e, <2>f, <2>g DEF parseExpr
<1>a. CASE exhaust
  BY <1>a, exhaustKeeps
<1>b. CASE UNCHANGED vars
  BY <1>b, StutterKeeps
<1> QED BY <1>1, <1>2, <1>3, <1>4, <1>5, <1>6, <1>7, <1>8, <1>9, <1>a, <1>b
        DEF Next, step, Finished

(* The invariant holds.                                                    *)
LEMMA Invariant == Spec => []IInv
<1>1. Init => IInv
  BY Start
<1>2. IInv /\ [Next]_vars => IInv'
  BY Step
<1> QED BY <1>1, <1>2, PTL DEF Spec

(* TypeOK: the lookahead stays within the file and one place behind it,    *)
(* the message buffers hold at most MAX_ERRORS, a growable array takes at  *)
(* most two items more than there is memory for, and every pending call is *)
(* a function of the parser with a node of a kind it may have.             *)
THEOREM TypeCorrect == Spec => []TypeOK
<1>1. IInv => TypeOK
  BY DEF IInv
<1> QED BY <1>1, Invariant, PTL

(* ReportedOrWellFormed: whatever the tokens are, a parser that has        *)
(* reported nothing has not crashed, has no message in the arena and       *)
(* returns a tree with the shape Compiler assumes of Programs. So the      *)
(* garbage of a primary that cannot start an expression, the NULL of       *)
(* p_parseDecl and a declaration in the wrong place never get into a tree  *)
(* without an error.                                                       *)
THEOREM AcceptedIsWellFormed == Spec => []ReportedOrWellFormed
<1>1. IInv => ReportedOrWellFormed
  BY DEF IInv, ContentRight, Quiet, Returned, ReportedOrWellFormed
<1> QED BY <1>1, Invariant, PTL

-----------------------------------------------------------------------------
(* Memory.  Each item pays for itself by a token that is read behind it.   *)

Lists == {"params", "stmts", "args", "comma"}
InList(s) == \E i \in DOMAIN s : s[i].do \in Lists

(* Behind the last token a list cannot end.                                *)
AtEnd == Kind(p) = "EOF" /\ InList(calls)

Paid == p.items <= 2 * (p.pos - 1)

(* An item of a list is allocated before its first token is read.          *)
Owing == Top.do = "parseExprBP" /\ InList(calls) /\ p.items <= 2 * (p.pos - 1) + 1

Spent ==
  /\ outcome \in {"parsing", "exhausted"} => Stuck \/ AtEnd \/ Paid \/ Owing
  /\ outcome = "exhausted" => p.items > MaxItems

(* A call in front of others: the lists are its own and theirs.            *)
LEMMA ListsInFront ==
  ASSUME NEW S, NEW a \in Seq(S), NEW b \in Seq(S)
  PROVE  InList(a \o b) <=> InList(a) \/ InList(b)
<1>1. PICK c : c = a \o b
  OBVIOUS
<1>2. /\ Len(a) \in Nat /\ Len(b) \in Nat /\ Len(c) = Len(a) + Len(b)
      /\ DOMAIN a = 1..Len(a) /\ DOMAIN b = 1..Len(b) /\ DOMAIN c = 1..Len(c)
  BY ONLY <1>1, a \in Seq(S), b \in Seq(S)
<1>3. \A i \in 1..Len(a) : i \in 1..Len(c) /\ c[i] = a[i]
  BY ONLY <1>1, <1>2, a \in Seq(S), b \in Seq(S)
<1>4. \A i \in 1..Len(b) : Len(a) + i \in 1..Len(c) /\ c[Len(a) + i] = b[i]
  BY ONLY <1>1, <1>2, a \in Seq(S), b \in Seq(S)
<1>5. \A i \in 1..Len(c) : i \in 1..Len(a) \/ \E j \in 1..Len(b) : i = Len(a) + j
  <2>1. ASSUME NEW i \in 1..Len(c), i \notin 1..Len(a)
        PROVE  \E j \in 1..Len(b) : i = Len(a) + j
    <3>1. i - Len(a) \in 1..Len(b) /\ i = Len(a) + (i - Len(a))
      BY <1>2, <2>1
    <3> QED BY <3>1
  <2> QED BY <2>1
<1>6. InList(c) <=> InList(a) \/ InList(b)
  <2>1. InList(a) => InList(c)
    BY <1>2, <1>3 DEF InList
  <2>2. InList(b) => InList(c)
    BY <1>2, <1>4 DEF InList
  <2>3. InList(c) => InList(a) \/ InList(b)
    <3>1. ASSUME NEW i \in 1..Len(c), c[i].do \in Lists
          PROVE  InList(a) \/ InList(b)
      <4>1. CASE i \in 1..Len(a)
        BY <1>2, <1>3, <3>1, <4>1 DEF InList
      <4>2. CASE i \notin 1..Len(a)
        <5>1. PICK j \in 1..Len(b) : i = Len(a) + j
          BY <1>5, <4>2
        <5>2. b[j].do \in Lists
          BY <1>4, <3>1, <5>1
        <5> QED BY <1>2, <5>2 DEF InList
      <4> QED BY <4>1, <4>2
    <3> QED BY <1>2, <3>1 DEF InList
  <2> QED BY <2>1, <2>2, <2>3
<1> QED BY <1>1, <1>6

(* A single call,                                                          *)
LEMMA ListOfOne ==
  ASSUME NEW S, NEW f \in S
  PROVE  <<f>> \in Seq(S) /\ (InList(<<f>>) <=> f.do \in Lists)
<1>1. PICK s : s = <<f>>
  OBVIOUS
<1>2. s \in Seq(S) /\ DOMAIN s = 1..1 /\ s[1] = f
  BY ONLY <1>1, f \in S
<1> QED BY <1>1, <1>2 DEF InList

(* and two.                                                                *)
LEMMA ListOfTwo ==
  ASSUME NEW S, NEW f \in S, NEW g \in S
  PROVE  <<f, g>> \in Seq(S) /\ (InList(<<f, g>>) <=> f.do \in Lists \/ g.do \in Lists)
<1>1. PICK s : s = <<f, g>>
  OBVIOUS
<1>2. s \in Seq(S) /\ DOMAIN s = 1..2 /\ s[1] = f /\ s[2] = g
  BY ONLY <1>1, f \in S, g \in S
<1>3. \A i \in 1..2 : i = 1 \/ i = 2
  OBVIOUS
<1> QED BY <1>1, <1>2, <1>3 DEF InList

(* Three calls.                                                            *)
LEMMA ListOfThree ==
  ASSUME NEW S, NEW f \in S, NEW g \in S, NEW h \in S
  PROVE  /\ <<f, g, h>> \in Seq(S)
         /\ InList(<<f, g, h>>) <=> f.do \in Lists \/ g.do \in Lists \/ h.do \in Lists
<1>1. PICK s : s = <<f, g, h>>
  OBVIOUS
<1>2. s \in Seq(S) /\ DOMAIN s = 1..3 /\ s[1] = f /\ s[2] = g /\ s[3] = h
  BY ONLY <1>1, f \in S, g \in S, h \in S
<1>3. \A i \in 1..3 : i = 1 \/ i = 2 \/ i = 3
  OBVIOUS
<1> QED BY <1>1, <1>2, <1>3 DEF InList

(* Only behind the last token there is TOK_EOF.                            *)
LEMMA EndIsEnd ==
  ASSUME source \in Seq(Delivered), NEW q, Legal(q)
  PROVE  /\ Kind(q) = "EOF" <=> q.pos = Len(source) + 1
         /\ Kind(q) # "EOF" <=> q.pos <= Len(source)
<1>1. q.pos \in 1..(Len(source) + 1) /\ Len(source) \in Nat
  BY DEF Legal
<1>2. q.pos = Len(source) + 1 => Kind(q) = "EOF"
  <2> SUFFICES ASSUME q.pos = Len(source) + 1 PROVE Kind(q) = "EOF"
    OBVIOUS
  <2>1. Lexeme(q) = "EOF"
    BY <1>1 DEF Lexeme
  <2>2. "EOF" \notin Idents /\ "EOF" \notin DOMAIN Value
    BY SourcesAssumption
  <2> QED BY <2>1, <2>2 DEF Kind
<1>3. Kind(q) = "EOF" <=> q.pos = Len(source) + 1
  BY <1>2, WhatIsThere
<1> QED BY <1>1, <1>3

-----------------------------------------------------------------------------
(* What the invariants say of a parser that goes on.                       *)
LEMMA Accounts ==
  ASSUME Going, Spent
  PROVE  /\ source \in Seq(Delivered) /\ Legal(p) /\ calls \in Seq(Frames) /\ calls = <<Top>> \o Below
         /\ Top \in Frames /\ Below \in Seq(Frames)
         /\ p.pos \in Nat /\ p.items \in Nat
         /\ InList(calls) <=> Top.do \in Lists \/ InList(Below)
         /\ Top.do # "p_parse" => Below # <<>> /\ (AtEnd \/ Paid \/ Owing)
         /\ Top.do \notin {"p_parse", "parseExprBP"} => AtEnd \/ Paid
<1>1. /\ source \in Seq(Delivered) /\ Legal(p) /\ calls \in Seq(Frames) /\ calls = <<Top>> \o Below
      /\ Top \in Frames /\ Below \in Seq(Frames)
      /\ Top.do # "p_parse" => Below # <<>> /\ ~ Stuck
  BY Underway
<1>2. p.pos \in Nat /\ p.items \in Nat
  BY <1>1 DEF Legal
<1>3. InList(calls) <=> Top.do \in Lists \/ InList(Below)
  BY <1>1, ListOfOne, ListsInFront
<1>4. Stuck \/ AtEnd \/ Paid \/ Owing
  BY DEF Going, Spent
<1> QED BY <1>1, <1>2, <1>3, <1>4 DEF Owing

(* A step that allocates nothing.                                          *)
LEMMA Onward ==
  ASSUME Going, Spent, Top.do # "p_parse", NEW q, Legal(q), q.items = p.items, p.pos <= q.pos,
         Top.do = "parseExprBP" => p.pos < q.pos \/ Kind(p) = "EOF",
         p' = q, UNCHANGED <<source, outcome>>,
         Kind(p) = "EOF" /\ InList(calls) => InList(calls')
  PROVE  Spent'
<1>1. /\ source \in Seq(Delivered) /\ Legal(p) /\ p.pos \in Nat /\ p.items \in Nat
      /\ AtEnd \/ Paid \/ Owing
  BY Accounts
<1>2. q.pos \in 1..(Len(source) + 1) /\ Len(source) \in Nat
  BY <1>1 DEF Legal
<1>3. Kind(p)' = Kind(q)
  <2>1. Lexeme(p)' = Lexeme(q)
    BY DEF Lexeme
  <2> QED BY <2>1 DEF Kind
<1>4. Kind(p) = "EOF" => Kind(q) = "EOF"
  <2>1. Kind(p) = "EOF" => p.pos = Len(source) + 1
    BY <1>1, EndIsEnd
  <2>2. q.pos = Len(source) + 1 => Kind(q) = "EOF"
    BY <1>1, EndIsEnd
  <2> QED BY <1>2, <2>1, <2>2
<1>5. Kind(p) = "EOF" /\ InList(calls) => AtEnd'
  BY <1>3, <1>4 DEF AtEnd
<1>6. Paid => Paid'
  BY <1>1, <1>2 DEF Paid
<1>7. Owing => AtEnd' \/ Paid'
  <2>1. CASE Kind(p) = "EOF"
    BY <1>5, <2>1 DEF Owing
  <2>2. CASE p.pos < q.pos
    BY <1>1, <1>2, <2>2 DEF Owing, Paid
  <2> QED BY <2>1, <2>2 DEF Owing
<1>8. outcome' = "parsing"
  BY DEF Going
<1> QED BY <1>1, <1>5, <1>6, <1>7, <1>8 DEF Spent, AtEnd

(* It puts calls in the place of the running one,                          *)
LEMMA OnwardAhead ==
  ASSUME Going, Spent, Top.do # "p_parse", NEW q, Legal(q), q.items = p.items, p.pos <= q.pos,
         Top.do = "parseExprBP" => p.pos < q.pos \/ Kind(p) = "EOF",
         NEW S, NEW frames \in Seq(S), Continue(q, frames),
         Top.do \in Lists /\ Kind(p) = "EOF" => InList(frames)
  PROVE  Spent'
<1>1. p' = q /\ calls' = frames \o Below /\ UNCHANGED <<source, outcome>>
  BY DEF Continue, Below
<1>2. Below \in Seq(Frames) /\ (InList(calls) <=> Top.do \in Lists \/ InList(Below))
  BY Accounts
<1>3. InList(frames \o Below) <=> InList(frames) \/ InList(Below)
  <2>1. PICK U : U = S \cup Frames
    OBVIOUS
  <2>2. S \subseteq U /\ Frames \subseteq U
    BY <2>1
  <2>3. PICK F : F = Frames
    OBVIOUS
  <2>4. frames \in Seq(U) /\ Below \in Seq(U)
    <3>1. PICK b : b = Below
      OBVIOUS
    <3>2. b \in Seq(F) /\ F \subseteq U
      BY <1>2, <2>2, <2>3, <3>1
    <3>3. frames \in Seq(U) /\ b \in Seq(U)
      BY ONLY <2>2, <3>2, frames \in Seq(S), S \subseteq U
    <3> QED BY <3>1, <3>3
  <2> QED BY <2>4, ListsInFront
<1>4. Kind(p) = "EOF" /\ InList(calls) => InList(calls')
  BY <1>1, <1>2, <1>3
<1> QED BY <1>1, <1>4, Onward

(* or returns.                                                             *)
LEMMA OnwardBack ==
  ASSUME Going, Spent, Top.do \notin {"p_parse", "parseExprBP"},
         NEW q, Legal(q), q.items = p.items, p.pos <= q.pos,
         NEW term, Return(q, term), Top.do \in Lists => Kind(p) # "EOF"
  PROVE  Spent'
<1>1. /\ calls \in Seq(Frames) /\ Below \in Seq(Frames) /\ Below # <<>> /\ calls = <<Top>> \o Below
      /\ Top \in Frames /\ (InList(calls) <=> Top.do \in Lists \/ InList(Below))
  BY Accounts
<1>2. PICK g, r : g = Below[1] /\ r = Tail(Below)
  OBVIOUS
<1>3. g \in Frames /\ r \in Seq(Frames) /\ Below = <<g>> \o r
  BY <1>1, <1>2, Unpile
<1>4. calls[2] = g
  <2>1. 1 \in 1..Len(Below)
    <3>1. Len(Below) \in Nat /\ Len(Below) # 0
      BY <1>1
    <3> QED BY <3>1
  <2>2. calls[2] = Below[1]
    <3> HIDE DEF Below, Top, Frames
    <3> QED BY <1>1, <2>1
  <2> QED BY <1>2, <2>2
<1>5. PICK kids : kids = Append(g.kids, term)
  OBVIOUS
<1>6. PICK f : f = [g EXCEPT !.kids = kids]
  OBVIOUS
<1>7. f.do = g.do
  <2> HIDE DEF Cell, Kinds, Lexemes, T!NodeOps, T!Type, Params, Places
  <2> QED BY <1>3, <1>6 DEF Frames
<1>8. calls' = <<f>> \o r /\ p' = q /\ UNCHANGED <<source, outcome>>
  <2>1. calls' = <<[g EXCEPT !.kids = Append(@, term)]>> \o Tail(Below)
    BY <1>4 DEF Return, Below
  <2> QED BY <1>2, <1>5, <1>6, <2>1 DEF Return
<1>9. InList(Below) <=> g.do \in Lists \/ InList(r)
  BY <1>3, ListOfOne, ListsInFront
<1>a. InList(<<f>> \o r) <=> f.do \in Lists \/ InList(r)
  <2>0. PICK F : F = Frames
    OBVIOUS
  <2>1. PICK U : U = F \cup {f}
    OBVIOUS
  <2>2. r \in Seq(F) /\ F \subseteq U /\ f \in U
    BY <1>3, <2>0, <2>1
  <2>3. r \in Seq(U)
    BY ONLY <2>2
  <2> QED BY <2>2, <2>3, ListOfOne, ListsInFront
<1>b. Kind(p) = "EOF" /\ InList(calls) => InList(calls')
  BY <1>1, <1>7, <1>8, <1>9, <1>a
<1> QED BY <1>8, <1>b, Onward

-----------------------------------------------------------------------------
(* One call, two or three in the place of the running one.                 *)
LEMMA OneAhead ==
  ASSUME Going, Spent, Top.do # "p_parse", NEW q, Legal(q), q.items = p.items, p.pos <= q.pos,
         Top.do = "parseExprBP" => p.pos < q.pos \/ Kind(p) = "EOF",
         NEW f, Continue(q, <<f>>), Top.do \in Lists /\ Kind(p) = "EOF" => f.do \in Lists
  PROVE  Spent'
<1>1. PICK S : S = {f}
  OBVIOUS
<1>2. f \in S
  BY <1>1
<1> QED BY <1>2, ListOfOne, OnwardAhead

(* two,                                                                    *)
LEMMA TwoAhead ==
  ASSUME Going, Spent, Top.do \notin {"p_parse"} \cup Lists, NEW q, Legal(q), q.items = p.items,
         p.pos <= q.pos, Top.do = "parseExprBP" => p.pos < q.pos \/ Kind(p) = "EOF",
         NEW f, NEW g, Continue(q, <<f, g>>)
  PROVE  Spent'
<1>1. PICK S : S = {f, g}
  OBVIOUS
<1>2. f \in S /\ g \in S
  BY <1>1
<1>3. <<f, g>> \in Seq(S)
  BY <1>2, ListOfTwo
<1> QED BY <1>3, OnwardAhead

(* and three.                                                              *)
LEMMA ThreeAhead ==
  ASSUME Going, Spent, Top.do \notin {"p_parse"} \cup Lists, NEW q, Legal(q), q.items = p.items,
         p.pos <= q.pos, Top.do = "parseExprBP" => p.pos < q.pos \/ Kind(p) = "EOF",
         NEW f, NEW g, NEW h, Continue(q, <<f, g, h>>)
  PROVE  Spent'
<1>1. PICK S : S = {f, g, h}
  OBVIOUS
<1>2. f \in S /\ g \in S /\ h \in S
  BY <1>1
<1>3. <<f, g, h>> \in Seq(S)
  BY <1>2, ListOfThree
<1> QED BY <1>3, OnwardAhead

(* A token is read unless there is none.                                   *)
LEMMA ReadsOn ==
  ASSUME source \in Seq(Delivered), Legal(p)
  PROVE  /\ Legal(p_next(p)) /\ p_next(p).items = p.items /\ p.pos <= p_next(p).pos
         /\ p.pos < p_next(p).pos \/ Kind(p) = "EOF"
<1>1. PICK q : q = p_next(p)
  OBVIOUS
<1>2. /\ Legal(q) /\ q.items = p.items /\ p.pos <= q.pos
      /\ p.pos <= Len(source) => q.pos = p.pos + 1
  BY <1>1, Read
<1>3. p.pos \in Nat /\ q.pos \in Nat
  BY <1>2 DEF Legal
<1>4. Kind(p) # "EOF" => p.pos <= Len(source)
  BY EndIsEnd
<1> QED BY <1>1, <1>2, <1>3, <1>4

(* p_consume allocates nothing.                                            *)
LEMMA ConsumesOn ==
  ASSUME source \in Seq(Delivered), NEW q, Legal(q), NEW type, type # "["
  PROVE  /\ Legal(p_consume(q, type)) /\ p_consume(q, type).items = q.items
         /\ q.pos <= p_consume(q, type).pos
BY MovesConsume DEF Moves

-----------------------------------------------------------------------------
(* The operands of parseExprBP.                                            *)
LEMMA prefixPays ==
  ASSUME IInv, Spent, prefix
  PROVE  Spent'
<1>1. PICK f, g : f = parseExprBP(prefixBp) /\ g = Build(Node("UNOP", Kind(p)), <<>>)
  OBVIOUS
<1>2. On("parseExprBP") /\ Continue(p_next(p), <<f, g, Loop>>)
  BY <1>1 DEF prefix
<1>3. Going /\ Top.do = "parseExprBP" /\ source \in Seq(Delivered) /\ Legal(p)
  BY <1>2, OnGoing
<1>4. Top.do \notin {"p_parse"} \cup Lists
  BY <1>3 DEF Lists
<1> QED BY <1>2, <1>3, <1>4, ReadsOn, ThreeAhead

LEMMA primaryExitPays ==
  ASSUME IInv, Spent, primaryExit
  PROVE  Spent'
<1>1. PICK f, g : f = parseExpression /\ g = Build(Node("EXIT", Kind(p)), <<>>)
  OBVIOUS
<1>2. On("parseExprBP") /\ Continue(p_next(p), <<f, g, Loop>>)
  BY <1>1 DEF primaryExit
<1>3. Going /\ Top.do = "parseExprBP" /\ source \in Seq(Delivered) /\ Legal(p)
  BY <1>2, OnGoing
<1>4. Top.do \notin {"p_parse"} \cup Lists
  BY <1>3 DEF Lists
<1> QED BY <1>2, <1>3, <1>4, ReadsOn, ThreeAhead

LEMMA primaryIfPays ==
  ASSUME IInv, Spent, primaryIf
  PROVE  Spent'
<1>1. PICK e : e = ""
  OBVIOUS
<1>2. PICK f, g : f = parseExpression /\ g = At("ifCond", Node("IF", e), <<>>)
  OBVIOUS
<1>3. On("parseExprBP") /\ Continue(p_next(p), <<f, g, Loop>>)
  BY <1>1, <1>2 DEF primaryIf
<1>4. Going /\ Top.do = "parseExprBP" /\ source \in Seq(Delivered) /\ Legal(p)
  BY <1>3, OnGoing
<1>5. Top.do \notin {"p_parse"} \cup Lists
  BY <1>4 DEF Lists
<1> QED BY <1>3, <1>4, <1>5, ReadsOn, ThreeAhead

LEMMA primaryLeafPays ==
  ASSUME IInv, Spent, primaryLeaf
  PROVE  Spent'
<1>1. PICK f : f = [Loop EXCEPT !.kids = <<LeafOf(p)>>]
  OBVIOUS
<1>2. On("parseExprBP") /\ Continue(p_next(p), <<f>>)
  BY <1>1 DEF primaryLeaf, LoopWith
<1>3. Going /\ Top.do = "parseExprBP" /\ source \in Seq(Delivered) /\ Legal(p)
  BY <1>2, OnGoing
<1>4. Top.do # "p_parse" /\ Top.do \notin Lists
  BY <1>3 DEF Lists
<1> QED BY <1>2, <1>3, <1>4, ReadsOn, OneAhead

LEMMA primaryParenPays ==
  ASSUME IInv, Spent, primaryParen
  PROVE  Spent'
<1>1. PICK f : f = [Loop EXCEPT !.kids = <<unit>>]
  OBVIOUS
<1>2. PICK g, h : g = parseExpression /\ h = At("paren", NoNode, <<>>)
  OBVIOUS
<1>3. /\ On("parseExprBP")
      /\ Continue(p_next(p), <<f>>) \/ Continue(p_next(p), <<g, h, Loop>>)
  BY <1>1, <1>2 DEF primaryParen, LoopWith
<1>4. Going /\ Top.do = "parseExprBP" /\ source \in Seq(Delivered) /\ Legal(p)
  BY <1>3, OnGoing
<1>5. Top.do # "p_parse" /\ Top.do \notin Lists /\ Top.do \notin {"p_parse"} \cup Lists
  BY <1>4 DEF Lists
<1>6. CASE Continue(p_next(p), <<f>>)
  BY <1>4, <1>5, <1>6, ReadsOn, OneAhead
<1>7. CASE Continue(p_next(p), <<g, h, Loop>>)
  BY <1>4, <1>5, <1>7, ReadsOn, ThreeAhead
<1> QED BY <1>3, <1>6, <1>7

LEMMA primaryBlockPays ==
  ASSUME IInv, Spent, primaryBlock
  PROVE  Spent'
<1>1. PICK type : type = "{"
  OBVIOUS
<1>2. PICK f : f = At("stmts", Node("BLOCK", ""), <<>>)
  OBVIOUS
<1>3. On("parseExprBP") /\ Kind(p) = type /\ Continue(p_consume(p, type), <<f>> \o <<Loop>>)
  BY <1>1, <1>2 DEF primaryBlock, parseBlock
<1>4. Going /\ Top.do = "parseExprBP" /\ source \in Seq(Delivered) /\ Legal(p)
  BY <1>3, OnGoing
<1>5. p_consume(p, type) = p_next(p)
  <2>1. PICK kind : kind = Kind(p)
    OBVIOUS
  <2>2. kind = type
    BY <1>3, <2>1
  <2>3. PICK m : m = Static("Expected ...")
    OBVIOUS
  <2>4. p_consume(p, type) = CASE kind = type -> p_next(p) [] kind = "UNKNOWN" -> p [] OTHER -> Refuse(p, m)
    BY ONLY <2>1, <2>3 DEF p_consume
  <2>5. type # "UNKNOWN"
    BY <1>1
  <2> QED BY ONLY <2>2, <2>4, <2>5
<1>6. Top.do \notin {"p_parse"} \cup Lists
  BY <1>4 DEF Lists
<1>7. <<f>> \o <<Loop>> = <<f, Loop>>
  <2>1. PICK g : g = Loop
    OBVIOUS
  <2>2. PICK S : S = {f, g}
    OBVIOUS
  <2>3. f \in S /\ g \in S
    BY <2>2
  <2> QED BY <2>1, <2>3, Cons2
<1>8. Continue(p_next(p), <<f, Loop>>)
  BY <1>3, <1>5, <1>7
<1> QED BY <1>4, <1>6, <1>8, ReadsOn, TwoAhead

LEMMA primaryUnexpectedPays ==
  ASSUME IInv, Spent, primaryUnexpected
  PROVE  Spent'
<1>1. PICK m : m = Formatted("Unexpected ...")
  OBVIOUS
<1>2. m \in Message
  BY <1>1 DEF Formatted, Message, Texts, ParserTexts
<1>3. PICK r : r = Refuse(p, m)
  OBVIOUS
<1>4. PICK q : q = p_next(r)
  OBVIOUS
<1>5. PICK f : f = [Loop EXCEPT !.kids = <<Garbage>>]
  OBVIOUS
<1>6. /\ On("parseExprBP")
      /\ Continue(q, <<f>>) \/ outcome' = "crashed"
  BY <1>1, <1>3, <1>4, <1>5 DEF primaryUnexpected, LoopWith
<1>7. Going /\ Top.do = "parseExprBP" /\ source \in Seq(Delivered) /\ Legal(p)
  BY <1>6, OnGoing
<1>8. Top.do # "p_parse" /\ Top.do \notin Lists
  BY <1>7 DEF Lists
<1>9. Legal(r) /\ r.pos = p.pos /\ r.items = p.items
  BY <1>2, <1>3, <1>7, Refused
<1>a. /\ Legal(q) /\ q.items = p.items /\ p.pos <= q.pos
      /\ p.pos <= Len(source) => q.pos = p.pos + 1
  BY <1>4, <1>7, <1>9, Read
<1>b. p.pos < q.pos \/ Kind(p) = "EOF"
  <2>1. p.pos \in Nat
    BY <1>7 DEF Legal
  <2>2. Kind(p) # "EOF" => p.pos <= Len(source)
    BY <1>7, EndIsEnd
  <2> QED BY <1>a, <2>1, <2>2
<1>c. CASE Continue(q, <<f>>)
  BY <1>7, <1>8, <1>a, <1>b, <1>c, OneAhead
<1>d. CASE outcome' = "crashed"
  BY <1>d DEF Spent
<1> QED BY <1>6, <1>c, <1>d

-----------------------------------------------------------------------------
(* The branches of a conditional.                                          *)
LEMMA ifCondPays ==
  ASSUME IInv, Spent, ifCond
  PROVE  Spent'
<1>1. PICK g : g = [Top EXCEPT !.do = "ifTrue"]
  OBVIOUS
<1>2. On("ifCond")
  BY DEF ifCond
<1>3. Going /\ Top.do = "ifCond" /\ source \in Seq(Delivered) /\ Legal(p)
  BY <1>2, OnGoing
<1>4. Top.do \notin {"p_parse"} \cup Lists /\ Top.do # "parseExprBP"
  BY <1>3 DEF Lists
<1>5. CASE Kind(p) = "then"
  <2>1. PICK condition : condition = (Kind(p_next(p)) = "{")
    OBVIOUS
  <2>2. PICK text : text = "Remove the 'then'"
    OBVIOUS
  <2>3. PICK q : q = [p_next(p) EXCEPT !.warnings = ReportIf(condition, @, text)]
    OBVIOUS
  <2>4. PICK f : f = parseExpression
    OBVIOUS
  <2>5. Continue(q, <<f, g>>)
    BY <1>1, <1>5, <2>1, <2>2, <2>3, <2>4 DEF ifCond
  <2>6. text \in Texts
    BY <2>2 DEF Texts, ParserTexts
  <2>7. Legal(q)
    <3>1. Moves(p, p_next(p))
      BY <1>3, <1>5, MovesNext
    <3> QED BY <1>3, <2>3, <2>6, <3>1, ReachesWarned DEF Reaches
  <2>8. PICK r, w : r = p_next(p) /\ w = ReportIf(condition, r.warnings, text)
    OBVIOUS
  <2>9. q = [r EXCEPT !.warnings = w] /\ Legal(r) /\ r.items = p.items /\ p.pos <= r.pos
    BY <1>3, <2>3, <2>8, ReadsOn
  <2>a. q.items = r.items /\ q.pos = r.pos
    <3> HIDE DEF Message
    <3> QED BY <2>9 DEF Legal
  <2> QED BY <1>3, <1>4, <2>5, <2>7, <2>9, <2>a, TwoAhead
<1>6. CASE Kind(p) # "then"
  <2>1. PICK type : type = "{"
    OBVIOUS
  <2>2. PICK f : f = At("stmts", Node("BLOCK", ""), <<>>)
    OBVIOUS
  <2>3. PICK q : q = p_consume(p, type)
    OBVIOUS
  <2>4. Continue(q, <<f>> \o <<g>>)
    BY <1>1, <1>6, <2>1, <2>2, <2>3 DEF ifCond, parseBlock
  <2>5. Legal(q) /\ q.items = p.items /\ p.pos <= q.pos
    BY <1>3, <2>1, <2>3, NotAnIndex, ConsumesOn
  <2>6. PICK S : S = {f, g}
    OBVIOUS
  <2>7. <<f>> \o <<g>> = <<f, g>>
    <3>1. f \in S /\ g \in S
      BY <2>6
    <3> QED BY <3>1, Cons2
  <2>8. Continue(q, <<f, g>>)
    BY <2>4, <2>7
  <2> QED BY <1>3, <1>4, <2>5, <2>8, TwoAhead
<1> QED BY <1>5, <1>6

LEMMA ifTruePays ==
  ASSUME IInv, Spent, ifTrue
  PROVE  Spent'
<1>1. On("ifTrue")
  BY DEF ifTrue
<1>2. Going /\ Top.do = "ifTrue" /\ source \in Seq(Delivered) /\ Legal(p) /\ p.pos <= p.pos
  <2>1. Going /\ Top.do = "ifTrue" /\ source \in Seq(Delivered) /\ Legal(p)
    BY <1>1, OnGoing
  <2>2. p.pos \in Nat
    BY <2>1 DEF Legal
  <2> QED BY <2>1, <2>2
<1>3. Top.do \notin {"p_parse", "parseExprBP"} /\ Top.do \notin {"p_parse"} \cup Lists
      /\ Top.do \notin Lists /\ Top.do # "parseExprBP"
  BY <1>2 DEF Lists
<1>4. PICK f, g : f = parseExpression /\ g = [Top EXCEPT !.do = "build"]
  OBVIOUS
<1>5. CASE Kind(p) # "else"
  <2>1. Return(p, Built(Top))
    BY <1>5 DEF ifTrue
  <2> QED BY <1>2, <1>3, <2>1, OnwardBack
<1>6. CASE Kind(p) = "else"
  <2>1. Continue(p_next(p), <<f, g>>)
    BY <1>4, <1>6 DEF ifTrue
  <2> QED BY <1>2, <1>3, <2>1, ReadsOn, TwoAhead
<1> QED BY <1>5, <1>6

-----------------------------------------------------------------------------
(* Calls that return, operators and lists.                                 *)

(* Calls that return what they were given or have built.                   *)
LEMMA stmtsEndPays ==
  ASSUME IInv, Spent, stmtsEnd
  PROVE  Spent'
<1>1. PICK mark : mark = "}"
  OBVIOUS
<1>2. On("stmts") /\ Kind(p) = mark /\ Return(p_next(p), Built(Top))
  BY <1>1 DEF stmtsEnd
<1>3. mark # "EOF"
  BY <1>1
<1>4. Going /\ Top.do = "stmts" /\ source \in Seq(Delivered) /\ Legal(p)
  BY <1>2, OnGoing
<1>5. Top.do \notin {"p_parse", "parseExprBP"}
  BY <1>4
<1>6. Kind(p) # "EOF"
  BY <1>2, <1>3
<1> QED BY <1>2, <1>4, <1>5, <1>6, ReadsOn, OnwardBack

LEMMA semicolonPays ==
  ASSUME IInv, Spent, semicolon
  PROVE  Spent'
<1>1. PICK type : type = ";"
  OBVIOUS
<1>2. On("semicolon") /\ Return(p_consume(p, type), Top.kids[1]) /\ type # "["
  BY <1>1, NotAnIndex DEF semicolon
<1>3. Going /\ Top.do = "semicolon" /\ source \in Seq(Delivered) /\ Legal(p)
  BY <1>2, OnGoing
<1>4. Top.do \notin {"p_parse", "parseExprBP"} /\ Top.do \notin Lists
  BY <1>3 DEF Lists
<1> QED BY <1>2, <1>3, <1>4, ConsumesOn, OnwardBack

LEMMA parenPays ==
  ASSUME IInv, Spent, paren
  PROVE  Spent'
<1>1. On("paren") /\ Return(p_consume(p, ")"), Top.kids[1])
  BY DEF paren
<1>2. Going /\ Top.do = "paren" /\ source \in Seq(Delivered) /\ Legal(p)
  BY <1>1, OnGoing
<1>3. Top.do \notin {"p_parse", "parseExprBP"} /\ Top.do \notin Lists
  BY <1>2 DEF Lists
<1>4. ")" # "["
  OBVIOUS
<1> QED BY <1>1, <1>2, <1>3, <1>4, ConsumesOn, OnwardBack

(* A call that returns without reading.                                    *)
LEMMA ReturnsPays ==
  ASSUME Going, Spent, Top.do \in {"build", "infix"}, NEW term, Return(p, term)
  PROVE  Spent'
<1>1. Legal(p) /\ p.pos \in Nat
  BY Accounts
<1>2. p.pos <= p.pos
  BY <1>1
<1>3. Top.do \notin {"p_parse", "parseExprBP"} /\ Top.do \notin Lists
  BY DEF Lists
<1> QED BY <1>1, <1>2, <1>3, OnwardBack

LEMMA buildPays ==
  ASSUME IInv, Spent, build
  PROVE  Spent'
<1>1. On("build") /\ Return(p, Built(Top))
  BY DEF build
<1>2. Going /\ Top.do = "build"
  BY <1>1, OnGoing
<1> QED BY <1>1, <1>2, ReturnsPays

LEMMA exprEndPays ==
  ASSUME IInv, Spent, exprEnd
  PROVE  Spent'
<1>1. On("infix") /\ Return(p, lhs)
  BY DEF exprEnd
<1>2. Going /\ Top.do = "infix"
  BY <1>1, OnGoing
<1> QED BY <1>1, <1>2, ReturnsPays

(* Operators.                                                              *)
LEMMA callExprPays ==
  ASSUME IInv, Spent, callExpr
  PROVE  Spent'
<1>1. PICK e : e = ""
  OBVIOUS
<1>2. PICK f, g : f = At("args", Node("CALL", e), <<lhs>>) /\ g = [Top EXCEPT !.kids = <<>>]
  OBVIOUS
<1>3. On("infix") /\ Continue(p_next(p), <<f, g>>)
  BY <1>1, <1>2 DEF callExpr
<1>4. Going /\ Top.do = "infix" /\ source \in Seq(Delivered) /\ Legal(p)
  BY <1>3, OnGoing
<1>5. Top.do \notin {"p_parse"} \cup Lists /\ Top.do # "parseExprBP"
  BY <1>4 DEF Lists
<1> QED BY <1>3, <1>4, <1>5, ReadsOn, TwoAhead

LEMMA binopPays ==
  ASSUME IInv, Spent, binop
  PROVE  Spent'
<1>1. PICK f : f = parseExprBP(infixBp(Kind(p))[2])
  OBVIOUS
<1>2. PICK g, h : g = Build(Node("BINOP", Kind(p)), <<lhs>>) /\ h = [Top EXCEPT !.kids = <<>>]
  OBVIOUS
<1>3. On("infix") /\ Continue(p_next(p), <<f, g, h>>)
  BY <1>1, <1>2 DEF binop
<1>4. Going /\ Top.do = "infix" /\ source \in Seq(Delivered) /\ Legal(p)
  BY <1>3, OnGoing
<1>5. Top.do \notin {"p_parse"} \cup Lists /\ Top.do # "parseExprBP"
  BY <1>4 DEF Lists
<1> QED BY <1>3, <1>4, <1>5, ReadsOn, ThreeAhead

LEMMA indexExprPays ==
  ASSUME IInv, Spent, indexExpr
  PROVE  Spent'
<1>1. PICK e : e = ""
  OBVIOUS
<1>2. PICK f : f = [Top EXCEPT !.kids = <<un(e, Overwritten(lhs))>>]
  OBVIOUS
<1>3. /\ On("infix")
      /\ Continue(p_next(p), <<f>>) \/ Crash
  BY <1>1, <1>2 DEF indexExpr
<1>4. Going /\ Top.do = "infix" /\ source \in Seq(Delivered) /\ Legal(p)
  BY <1>3, OnGoing
<1>5. Top.do # "p_parse" /\ Top.do # "parseExprBP" /\ Top.do \notin Lists
  BY <1>4 DEF Lists
<1>6. CASE Continue(p_next(p), <<f>>)
  BY <1>4, <1>5, <1>6, ReadsOn, OneAhead
<1>7. CASE Crash
  BY <1>7 DEF Crash, Stop, Spent
<1> QED BY <1>3, <1>6, <1>7

-----------------------------------------------------------------------------
(* The lists.                                                              *)

(* The first of several calls is the one that runs.                        *)
LEMMA FirstRuns ==
  ASSUME NEW S, NEW a \in Seq(S), a # <<>>, NEW b \in Seq(S)
  PROVE  Head(a \o b) = a[1]
<1>1. Len(a) \in Nat /\ Len(a) # 0 /\ Len(b) \in Nat
  BY ONLY a \in Seq(S), a # <<>>, b \in Seq(S)
<1>2. 1 \in 1..Len(a)
  BY <1>1
<1>3. (a \o b)[1] = a[1]
  BY ONLY <1>1, <1>2, a \in Seq(S), b \in Seq(S)
<1>4. PICK c : c = a \o b
  OBVIOUS
<1>5. c \in Seq(S) /\ Head(c) = c[1]
  <2>1. c \in Seq(S)
    BY ONLY <1>4, a \in Seq(S), b \in Seq(S)
  <2> QED BY ONLY <2>1
<1> QED BY ONLY <1>3, <1>4, <1>5

(* An item of a list, and then the call that reads its first token.        *)
LEMMA Borrowed ==
  ASSUME Going, Spent, Top.do \in Lists, NEW q, q = growableArrayPush(p),
         NEW frames \in Seq(Frames), frames # <<>>, frames[1].do = "parseExprBP",
         InList(frames), Continue(q, frames)
  PROVE  Spent'
<1>1. p' = q /\ calls' = frames \o Below /\ UNCHANGED <<source, outcome>>
  BY DEF Continue, Below
<1>2. /\ source \in Seq(Delivered) /\ Legal(p) /\ p.pos \in Nat /\ p.items \in Nat
      /\ Below \in Seq(Frames)
  BY Accounts
<1>3. AtEnd \/ Paid
  <2>1. Top.do \notin {"p_parse", "parseExprBP"}
    BY DEF Lists
  <2> QED BY <2>1, Accounts
<1>4. q.items = p.items + 1 /\ q.pos = p.pos /\ Kind(q) = Kind(p)
  BY <1>2, Pushed
<1>5. Kind(p)' = Kind(p)
  <2>1. Lexeme(p)' = Lexeme(q)
    BY <1>1 DEF Lexeme
  <2>2. Kind(p)' = Kind(q)
    BY <2>1 DEF Kind
  <2> QED BY <1>4, <2>2
<1>6. InList(frames \o Below) /\ Head(frames \o Below) = frames[1]
  BY <1>2, ListsInFront, FirstRuns
<1>7. AtEnd => AtEnd'
  BY <1>1, <1>5, <1>6 DEF AtEnd
<1>8. Paid => Owing'
  <2>1. Top'.do = "parseExprBP"
    BY <1>1, <1>6 DEF Top
  <2>2. Paid => q.items <= 2 * (q.pos - 1) + 1
    BY <1>2, <1>4 DEF Paid
  <2> QED BY <1>1, <1>6, <2>1, <2>2 DEF Owing
<1>9. outcome' = "parsing"
  BY <1>1 DEF Going
<1> QED BY <1>3, <1>7, <1>8, <1>9 DEF Spent

(* An item that is paid for at once.                                       *)
LEMMA Bought ==
  ASSUME Going, Spent, ~ Stuck, Top.do # "parseExprBP", Kind(p) # "EOF",
         NEW q, Legal(q), q.items = p.items + 1, p.pos < q.pos,
         p' = q, UNCHANGED <<source, outcome>>
  PROVE  Spent'
<1>1. outcome = "parsing" /\ outcome' = "parsing"
  BY DEF Going
<1>2. Paid
  BY <1>1 DEF Spent, AtEnd, Owing
<1>3. p.pos \in Nat /\ p.items \in Nat /\ q.pos \in Nat
  BY Accounts DEF Legal
<1>4. q.items <= 2 * (q.pos - 1)
  BY <1>2, <1>3 DEF Paid
<1>5. Paid'
  BY <1>4 DEF Paid
<1> QED BY <1>1, <1>5 DEF Spent

(* An argument,                                                            *)
LEMMA argsPays ==
  ASSUME IInv, Spent, args
  PROVE  Spent'
<1>1. On("args")
  BY DEF args
<1>2. Going /\ Top.do = "args" /\ source \in Seq(Delivered) /\ Legal(p)
  BY <1>1, OnGoing
<1>3. CASE Kind(p) = ")"
  <2>1. Return(p_next(p), Built(Top))
    BY <1>3 DEF args
  <2>2. Kind(p) # "EOF" /\ Top.do \notin {"p_parse", "parseExprBP"}
    BY <1>2, <1>3
  <2> QED BY <1>2, <2>1, <2>2, ReadsOn, OnwardBack
<1>4. CASE Kind(p) # ")"
  <2>1. PICK f, g : f = parseExprBP(0) /\ g = [Top EXCEPT !.do = "comma"]
    OBVIOUS
  <2>2. Continue(growableArrayPush(p), <<f, g>>)
    BY <1>4, <2>1 DEF args, parseExpression
  <2>3. f \in Frames /\ f.do = "parseExprBP"
    <3>1. 0 \in 0..17
      OBVIOUS
    <3> QED BY <2>1, <3>1, ExprFrame
  <2>4. g \in Frames /\ g.do = "comma"
    <3>1. Top \in Frames /\ "comma" \in Places
      BY <1>2, Accounts DEF Places
    <3> QED BY <2>1, <3>1, DoSet
  <2>5. <<f, g>> \in Seq(Frames) /\ InList(<<f, g>>)
    BY <2>3, <2>4, ListOfTwo DEF Lists
  <2>6. <<f, g>> # <<>> /\ <<f, g>>[1] = f
    OBVIOUS
  <2>7. Top.do \in Lists
    BY <1>2 DEF Lists
  <2> QED BY <1>2, <2>2, <2>3, <2>5, <2>6, <2>7, Borrowed
<1> QED BY <1>3, <1>4

(* and what is behind it.                                                  *)
LEMMA commaPays ==
  ASSUME IInv, Spent, comma
  PROVE  Spent'
<1>1. PICK q : q = IF Kind(p) = ")" THEN p ELSE p_consume(p, ",")
  OBVIOUS
<1>2. PICK f : f = [Top EXCEPT !.do = "args"]
  OBVIOUS
<1>3. On("comma") /\ Continue(q, <<f>>)
  BY <1>1, <1>2 DEF comma
<1>4. Going /\ Top.do = "comma" /\ source \in Seq(Delivered) /\ Legal(p)
  BY <1>3, OnGoing
<1>5. Legal(q) /\ q.items = p.items /\ p.pos <= q.pos
  <2>1. "," # "["
    OBVIOUS
  <2>2. Moves(p, q)
    BY <1>1, <1>4, <2>1, MovesSelf, MovesConsume
  <2> QED BY <2>2 DEF Moves
<1>6. f.do = "args"
  <2>1. Top \in Frames /\ "args" \in Places
    BY <1>4, Accounts DEF Places
  <2> QED BY <1>2, <2>1, DoSet
<1>7. Top.do # "p_parse" /\ Top.do # "parseExprBP" /\ f.do \in Lists
  BY <1>4, <1>6 DEF Lists
<1> QED BY <1>3, <1>4, <1>5, <1>7, OneAhead

(* A statement.                                                            *)
LEMMA parseStatementPays ==
  ASSUME IInv, Spent, parseStatement
  PROVE  Spent'
<1>1. PICK a : a = growableArrayPush(p)
  OBVIOUS
<1>2. On("stmts")
  BY DEF parseStatement
<1>3. Going /\ Top.do = "stmts" /\ source \in Seq(Delivered) /\ Legal(p) /\ ~ Stuck
  BY <1>2, OnGoing
<1>4. Legal(a) /\ a.items = p.items + 1 /\ a.pos = p.pos /\ Kind(a) = Kind(p)
  BY <1>1, <1>3, Pushed
<1>5. CASE Kind(p) \in {"let", "const"}
  <2>1. parseVarDecl(a, <<Semicolon, Top>>)
    BY <1>1, <1>5 DEF parseStatement
  <2>2. PICK r : \E g \in Frames :
           /\ Moves(a, r) /\ Continue(r, <<parseExprBP(0), g>> \o <<Semicolon, Top>>)
           /\ a.pos <= Len(source) => a.pos < r.pos
    BY <1>3, <1>4, <1>5, <2>1, VarDeclReads
  <2>3. Kind(p) # "EOF" /\ Top.do # "parseExprBP"
    BY <1>3, <1>5
  <2>4. a.pos <= Len(source)
    BY <1>3, <1>4, <2>3, EndIsEnd
  <2>5. p' = r /\ UNCHANGED <<source, outcome>>
    BY <2>2 DEF Continue
  <2>6. Legal(r) /\ r.items = p.items + 1 /\ p.pos < r.pos
    BY <1>4, <2>2, <2>4 DEF Moves
  <2> QED BY <1>3, <2>3, <2>5, <2>6, Bought
<1>6. CASE Kind(p) \notin {"let", "const"}
  <2>1. PICK f, i, h : f = parseExprBP(0) /\ i = Semicolon /\ h = Top
    OBVIOUS
  <2>2. Continue(a, <<f, i, h>>)
    BY <1>1, <1>6, <2>1 DEF parseStatement, parseExpression
  <2>3. f \in Frames /\ f.do = "parseExprBP"
    <3>1. 0 \in 0..17
      OBVIOUS
    <3> QED BY <2>1, <3>1, ExprFrame
  <2>4. i \in Frames
    BY <1>3, <2>1, SemicolonWaits
  <2>5. h \in Frames /\ h.do \in Lists /\ Top.do \in Lists
    BY <1>3, <2>1, Accounts DEF Lists
  <2>6. <<f, i, h>> \in Seq(Frames) /\ InList(<<f, i, h>>)
    BY <2>3, <2>4, <2>5, ListOfThree
  <2>7. <<f, i, h>> # <<>> /\ <<f, i, h>>[1] = f
    OBVIOUS
  <2> QED BY <1>1, <1>3, <2>2, <2>3, <2>5, <2>6, <2>7, Borrowed
<1> QED BY <1>5, <1>6

-----------------------------------------------------------------------------
(* Functions and declarations.                                             *)

(* A parameter is two items, and a token unless there is none.             *)
LEMMA parseParamPays ==
  ASSUME IInv, Spent, parseParam
  PROVE  Spent'
<1>1. PICK b : b = growableArrayPush(p)
  OBVIOUS
<1>2. PICK a : a = growableArrayPush(b)
  OBVIOUS
<1>3. PICK name, colon : name = p_consume(a, "IDENT") /\ colon = p_consume(name, ":")
  OBVIOUS
<1>4. PICK typed : typed = parseType(colon)
  OBVIOUS
<1>5. PICK q : q = IF Kind(typed.p) = ")" THEN typed.p ELSE p_consume(typed.p, ",")
  OBVIOUS
<1>6. PICK params : params = Append(Top.head.params, param(Lexeme(p), typed.type))
  OBVIOUS
<1>7. PICK f : f = [Top EXCEPT !.head.params = params]
  OBVIOUS
<1>8. On("params") /\ Continue(q, <<f>>)
  BY <1>1, <1>2, <1>3, <1>4, <1>5, <1>6, <1>7 DEF parseParam
<1>9. Going /\ Top.do = "params" /\ source \in Seq(Delivered) /\ Legal(p)
  BY <1>8, OnGoing
<1>a. Legal(b) /\ b.items = p.items + 1 /\ b.pos = p.pos
  BY <1>1, <1>9, Pushed
<1>b. Legal(a) /\ a.items = b.items + 1 /\ a.pos = p.pos
  BY <1>2, <1>9, <1>a, Pushed
<1>c. Legal(name) /\ name.items = a.items /\ a.pos <= name.pos
  BY <1>3, <1>9, <1>b, ConsumesOn
<1>d. Legal(colon) /\ colon.items = a.items /\ name.pos <= colon.pos
  BY <1>3, <1>9, <1>c, ConsumesOn
<1>e. /\ Legal(typed.p) /\ typed.p.items = a.items
      /\ colon.pos <= typed.p.pos /\ (colon.pos <= Len(source) => colon.pos < typed.p.pos)
  BY <1>4, <1>9, <1>d, MovesType DEF Moves
<1>f. Legal(q) /\ q.items = a.items /\ typed.p.pos <= q.pos
  <2>1. "," # "["
    OBVIOUS
  <2>2. Moves(typed.p, q)
    BY <1>5, <1>9, <1>e, <2>1, MovesSelf, MovesConsume
  <2> QED BY <1>e, <2>2 DEF Moves
<1>g. p.items \in Nat /\ q.items = p.items + 2
  BY <1>9, <1>a, <1>b, <1>f DEF Legal
<1>h. /\ q.pos \in 1..(Len(source) + 1) /\ Len(source) \in Nat
      /\ p.pos <= q.pos /\ (p.pos < q.pos \/ q.pos = Len(source) + 1)
  <2>1. \A x : Legal(x) => x.pos \in 1..(Len(source) + 1)
    BY DEF Legal
  <2>2. /\ p.pos \in 1..(Len(source) + 1) /\ name.pos \in 1..(Len(source) + 1)
        /\ colon.pos \in 1..(Len(source) + 1) /\ typed.p.pos \in 1..(Len(source) + 1)
        /\ q.pos \in 1..(Len(source) + 1)
    BY <1>9, <1>c, <1>d, <1>e, <1>f, <2>1
  <2>3. Len(source) \in Nat
    BY <1>9
  <2>4. p.pos <= colon.pos
    BY <1>b, <1>c, <1>d, <2>2, <2>3
  <2>5. p.pos <= q.pos /\ (colon.pos <= Len(source) => p.pos < q.pos)
    BY <1>e, <1>f, <2>2, <2>3, <2>4
  <2>6. ~ (colon.pos <= Len(source)) => q.pos = Len(source) + 1
    BY <1>e, <1>f, <2>2, <2>3
  <2> QED BY <2>2, <2>3, <2>5, <2>6
<1>i. f.do = "params"
  <2>1. Top \in Frames
    BY <1>9, Accounts
  <2> HIDE DEF Cell, Kinds, Lexemes, T!NodeOps, T!Type, Params, Places
  <2> QED BY <1>7, <1>9, <2>1 DEF Frames
<1>j. p' = q /\ calls' = <<f>> \o Below /\ UNCHANGED <<source, outcome>>
  BY <1>8 DEF Continue, Below
<1>k. InList(calls')
  <2>1. PICK F : F = Frames
    OBVIOUS
  <2>2. PICK U : U = F \cup {f}
    OBVIOUS
  <2>3. PICK s : s = Below
    OBVIOUS
  <2>4. s \in Seq(F) /\ F \subseteq U /\ f \in U
    BY <1>9, <2>1, <2>2, <2>3, Accounts
  <2>5. s \in Seq(U)
    BY ONLY <2>4
  <2>6. InList(<<f>>) /\ <<f>> \in Seq(U)
    BY <1>i, <2>4, ListOfOne DEF Lists
  <2> QED BY <1>j, <2>3, <2>5, <2>6, ListsInFront
<1>l. Kind(p)' = Kind(q)
  <2>1. Lexeme(p)' = Lexeme(q)
    BY <1>j DEF Lexeme
  <2> QED BY <2>1 DEF Kind
<1>m. outcome' = "parsing"
  BY <1>9, <1>j DEF Going
<1>n. CASE q.pos = Len(source) + 1
  <2>1. Kind(q) = "EOF"
    BY <1>9, <1>f, <1>n, EndIsEnd
  <2>2. AtEnd'
    BY <1>k, <1>l, <2>1 DEF AtEnd
  <2> QED BY <1>m, <2>2 DEF Spent
<1>o. CASE q.pos # Len(source) + 1
  <2>1. AtEnd \/ Paid
    BY <1>9, Accounts
  <2>2. p.pos \in Nat
    BY <1>9 DEF Legal
  <2>3. ~ AtEnd
    <3>1. p.pos # Len(source) + 1
      BY <1>h, <1>o, <2>2
    <3> QED BY <1>9, <3>1, EndIsEnd DEF AtEnd
  <2>4. p.pos < q.pos /\ p.items <= 2 * (p.pos - 1)
    BY <1>h, <1>o, <2>1, <2>3 DEF Paid
  <2>5. q.items <= 2 * (q.pos - 1)
    BY <1>g, <1>h, <2>2, <2>4
  <2>6. Paid'
    BY <1>j, <2>5 DEF Paid
  <2> QED BY <1>m, <2>6 DEF Spent
<1> QED BY <1>n, <1>o

(* The end of the parameters.                                              *)
LEMMA paramsEndPays ==
  ASSUME IInv, Spent, paramsEnd
  PROVE  Spent'
<1>1. PICK mark : mark = "{"
  OBVIOUS
<1>2. PICK behind : behind = p_next(p)
  OBVIOUS
<1>3. PICK typed : typed = IF Kind(behind) = mark THEN NoTypeGiven(behind) ELSE parseType(behind)
  OBVIOUS
<1>4. PICK q : q = p_consume(typed.p, mark)
  OBVIOUS
<1>5. PICK f : f = [Top EXCEPT !.do = "stmts", !.head.type = typed.type]
  OBVIOUS
<1>6. On("params") /\ Kind(p) = ")" /\ Continue(q, <<f>>)
  BY <1>1, <1>2, <1>3, <1>4, <1>5 DEF paramsEnd
<1>7. Going /\ Top.do = "params" /\ source \in Seq(Delivered) /\ Legal(p)
  BY <1>6, OnGoing
<1>8. Legal(behind) /\ behind.items = p.items /\ p.pos <= behind.pos
  BY <1>2, <1>7, ReadsOn
<1>9. Legal(typed.p) /\ typed.p.items = p.items /\ behind.pos <= typed.p.pos
  <2>1. CASE Kind(behind) = mark
    <3>1. typed = [p |-> behind, type |-> none]
      BY <1>3, <2>1 DEF NoTypeGiven
    <3>2. behind.pos \in Nat
      BY <1>8 DEF Legal
    <3> QED BY <1>8, <3>1, <3>2
  <2>2. CASE Kind(behind) # mark
    <3>1. typed = parseType(behind)
      BY <1>3, <2>2
    <3> QED BY <1>7, <1>8, <3>1, MovesType DEF Moves
  <2> QED BY <2>1, <2>2
<1>a. Legal(q) /\ q.items = p.items /\ typed.p.pos <= q.pos
  <2>1. mark # "["
    BY <1>1, NotAnIndex
  <2> QED BY <1>4, <1>7, <1>9, <2>1, ConsumesOn
<1>b. p.pos <= q.pos
  <2>1. \A x : Legal(x) => x.pos \in Nat
    BY DEF Legal
  <2>2. p.pos \in Nat /\ behind.pos \in Nat /\ typed.p.pos \in Nat /\ q.pos \in Nat
    BY <1>7, <1>8, <1>9, <1>a, <2>1
  <2> QED BY <1>8, <1>9, <1>a, <2>2
<1>c. Top.do # "p_parse" /\ Top.do # "parseExprBP" /\ Kind(p) # "EOF"
  BY <1>6, <1>7
<1> QED BY <1>6, <1>7, <1>a, <1>b, <1>c, OneAhead

(* A declaration of a function has its keyword.                            *)
LEMMA FuncDeclPays ==
  ASSUME Going, Spent, ~ Stuck, Top.do = "p_parse", Kind(p) # "EOF",
         NEW q, Legal(q), q.items = p.items + 1, p.pos <= q.pos, q.pos <= Len(source),
         parseFuncDecl(q)
  PROVE  Spent'
<1>1. PICK name, colon : name = p_next(q) /\ colon = p_consume(name, "IDENT")
  OBVIOUS
<1>2. PICK r : r = p_consume(colon, "(")
  OBVIOUS
<1>3. p' = r /\ UNCHANGED <<source, outcome>>
  BY <1>1, <1>2 DEF parseFuncDecl, Continue
<1>4. source \in Seq(Delivered) /\ Legal(p)
  BY Accounts
<1>5. Legal(name) /\ name.items = q.items /\ name.pos = q.pos + 1
  BY <1>1, <1>4, Read
<1>6. Legal(colon) /\ colon.items = q.items /\ name.pos <= colon.pos
  BY <1>1, <1>4, <1>5, ConsumesOn
<1>7. Legal(r) /\ r.items = q.items /\ colon.pos <= r.pos
  BY <1>2, <1>4, <1>6, ConsumesOn
<1>8. p.pos < r.pos
  <2>1. \A x : Legal(x) => x.pos \in Nat
    BY DEF Legal
  <2>2. p.pos \in Nat /\ q.pos \in Nat /\ name.pos \in Nat /\ colon.pos \in Nat /\ r.pos \in Nat
    BY <1>4, <1>5, <1>6, <1>7, <2>1
  <2> QED BY <1>5, <1>6, <1>7, <2>2
<1>9. Top.do # "parseExprBP"
  OBVIOUS
<1> QED BY <1>3, <1>7, <1>8, <1>9, Bought

(* and so does one of a variable.                                          *)
LEMMA VarDeclPays ==
  ASSUME Going, Spent, ~ Stuck, Top.do = "p_parse", Kind(p) # "EOF",
         NEW q, Legal(q), q.items = p.items + 1, p.pos <= q.pos, q.pos <= Len(source),
         Kind(q) \in {"let", "const"}, NEW rest, parseVarDecl(q, rest)
  PROVE  Spent'
<1>1. source \in Seq(Delivered) /\ Legal(p)
  BY Accounts
<1>2. PICK r : \E g \in Frames :
         /\ Moves(q, r) /\ Continue(r, <<parseExprBP(0), g>> \o rest)
         /\ q.pos <= Len(source) => q.pos < r.pos
  BY <1>1, VarDeclReads
<1>3. p' = r /\ UNCHANGED <<source, outcome>>
  BY <1>2 DEF Continue
<1>4. Legal(r) /\ r.items = p.items + 1 /\ q.pos < r.pos
  BY <1>2 DEF Moves
<1>5. p.pos < r.pos
  <2>1. p.pos \in Nat /\ q.pos \in Nat /\ r.pos \in Nat
    BY <1>1, <1>4 DEF Legal
  <2> QED BY <1>4, <2>1
<1>6. Top.do # "parseExprBP"
  OBVIOUS
<1> QED BY <1>3, <1>4, <1>5, <1>6, Bought

(* A declaration, or NULL, before a token that p_parse does not get past.  *)
LEMMA p_parseDeclPays ==
  ASSUME IInv, IInv', Spent, p_parseDecl
  PROVE  Spent'
<1>1. PICK a : a = growableArrayPush(p)
  OBVIOUS
<1>2. PICK public : public = p_next(a)
  OBVIOUS
<1>3. PICK f : f = [Top EXCEPT !.kids = Append(@, NullDecl)]
  OBVIOUS
<1>4. PICK m : m = Static("Expected ...")
  OBVIOUS
<1>5. /\ On("p_parse") /\ Kind(p) # "EOF"
      /\ \/ Kind(p) \in {"let", "const"} /\ parseVarDecl(a, <<Semicolon, Top>>)
         \/ Kind(p) = "func" /\ parseFuncDecl(a)
         \/ Kind(p) = "pub" /\ Kind(public) = "func" /\ parseFuncDecl(public)
         \/ Kind(p) = "pub" /\ Kind(public) = "const" /\ parseVarDecl(public, <<Top>>)
         \/ Kind(p) = "pub" /\ Continue(p_next(Refuse(public, m)), <<f>>)
         \/ Kind(p) \notin {"let", "const", "func", "pub", "EOF"} /\ Continue(a, <<f>>)
  BY <1>1, <1>2, <1>3, <1>4 DEF p_parseDecl
<1>6. Going /\ Top.do = "p_parse" /\ source \in Seq(Delivered) /\ Legal(p)
  BY <1>5, OnGoing
<1>7. Legal(a) /\ a.items = p.items + 1 /\ a.pos = p.pos /\ Kind(a) = Kind(p)
  BY <1>1, <1>6, Pushed
<1>8. Kind(p) \in {"let", "const", "func", "pub", "EOF"} => ~ Stuck
  BY DEF Stuck
<1>9. a.pos <= Len(source) /\ p.pos <= a.pos /\ p.pos \in Nat /\ Len(source) \in Nat
  <2>1. p.pos <= Len(source)
    BY <1>5, <1>6, EndIsEnd
  <2>2. p.pos \in Nat /\ Len(source) \in Nat
    BY <1>6 DEF Legal
  <2> QED BY <1>7, <2>1, <2>2
<1>a. Legal(public) /\ public.items = p.items + 1 /\ public.pos = p.pos + 1
  BY <1>2, <1>6, <1>7, <1>9, Read
<1>b. CASE Kind(p) \in {"let", "const"} /\ parseVarDecl(a, <<Semicolon, Top>>)
  BY <1>5, <1>6, <1>7, <1>8, <1>9, <1>b, VarDeclPays
<1>c. CASE Kind(p) = "func" /\ parseFuncDecl(a)
  BY <1>5, <1>6, <1>7, <1>8, <1>9, <1>c, FuncDeclPays
<1>d. Kind(public) # "EOF" => p.pos <= public.pos /\ public.pos <= Len(source)
  BY <1>6, <1>9, <1>a, EndIsEnd
<1>e. CASE Kind(p) = "pub" /\ Kind(public) = "func" /\ parseFuncDecl(public)
  BY <1>5, <1>6, <1>8, <1>a, <1>d, <1>e, FuncDeclPays
<1>f. CASE Kind(p) = "pub" /\ Kind(public) = "const" /\ parseVarDecl(public, <<Top>>)
  BY <1>5, <1>6, <1>8, <1>a, <1>d, <1>f, VarDeclPays
<1>g. CASE Kind(p) = "pub" /\ Continue(p_next(Refuse(public, m)), <<f>>)
  <2>1. PICK r : r = Refuse(public, m)
    OBVIOUS
  <2>2. PICK q : q = p_next(r)
    OBVIOUS
  <2>3. m \in Message
    BY <1>4 DEF Static, Message, Texts, ParserTexts
  <2>4. Legal(r) /\ r.pos = p.pos + 1 /\ r.items = p.items + 1
    BY <1>6, <1>a, <2>1, <2>3, Refused
  <2>5. Legal(q) /\ r.pos <= q.pos /\ q.items = p.items + 1
    BY <1>6, <2>2, <2>4, Read
  <2>6. p.pos < q.pos
    <3>1. q.pos \in Nat
      BY <2>5 DEF Legal
    <3> QED BY <1>9, <2>4, <2>5, <3>1
  <2>7. p' = q /\ UNCHANGED <<source, outcome>>
    BY <1>g, <2>1, <2>2 DEF Continue
  <2>8. Top.do # "parseExprBP"
    BY <1>6
  <2> QED BY <1>5, <1>6, <1>8, <1>g, <2>5, <2>6, <2>7, <2>8, Bought
<1>h. CASE Kind(p) \notin {"let", "const", "func", "pub", "EOF"} /\ Continue(a, <<f>>)
  <2>1. p' = a /\ calls' = <<f>> \o Below /\ UNCHANGED <<source, outcome, tree>>
    BY <1>h DEF Continue, Below
  <2>2. Len(calls') = 1
    <3>1. PICK b : b = Below
      OBVIOUS
    <3>2. b \in Seq(Frames) /\ Len(b) = 0
      BY <1>6, <3>1, ListWaits, EmptySeq
    <3>3. f \in Frames
      BY <1>3, <1>6, NullPushed
    <3>4. Len(<<f>> \o b) = Len(b) + 1
      BY <3>2, <3>3, Pile
    <3> QED BY <2>1, <3>1, <3>2, <3>4
  <2>3. Lexeme(p)' = Lexeme(p)
    BY <1>7, <2>1 DEF Lexeme
  <2>4. Kind(p)' = Kind(p)
    BY <2>3 DEF Kind
  <2>5. Stuck'
    BY <1>h, <2>2, <2>4 DEF Stuck
  <2>6. outcome' = "parsing"
    BY <1>6, <2>1 DEF Going
  <2> QED BY <2>5, <2>6 DEF Spent
<1> QED BY <1>5, <1>b, <1>c, <1>e, <1>f, <1>g, <1>h

-----------------------------------------------------------------------------
(* The arena without memory, and steps in which nothing happens.           *)
LEMMA StutterPays ==
  ASSUME Spent, UNCHANGED <<source, p, calls>>, outcome' = outcome \/ exhaust
  PROVE  Spent'
<1>1. Lexeme(p)' = Lexeme(p)
  BY DEF Lexeme
<1>2. Kind(p)' = Kind(p)
  BY <1>1 DEF Kind
<1>3. (Stuck' <=> Stuck) /\ (AtEnd' <=> AtEnd) /\ (Paid' <=> Paid) /\ (Owing' <=> Owing)
  BY <1>2 DEF Stuck, AtEnd, Paid, Owing, Top
<1> QED BY <1>3 DEF Spent, exhaust

(* Every step keeps the accounts.                                          *)
LEMMA StepPays ==
  ASSUME IInv, Spent, [Next]_vars
  PROVE  Spent'
<1>1. CASE p_parse
  BY <1>1 DEF p_parse, Stop, Spent
<1>2. CASE p_parseDecl
  BY <1>2, Step, p_parseDeclPays
<1>3. CASE parseParam
  BY <1>3, parseParamPays
<1>4. CASE paramsEnd
  BY <1>4, paramsEndPays
<1>5. CASE parseStatement
  BY <1>5, parseStatementPays
<1>6. CASE stmtsEnd
  BY <1>6, stmtsEndPays
<1>7. CASE semicolon
  BY <1>7, semicolonPays
<1>8. CASE build
  BY <1>8, buildPays
<1>9. CASE parseExpr
  <2>1. CASE prefix
    BY <2>1, prefixPays
  <2>2. CASE primaryLeaf
    BY <2>2, primaryLeafPays
  <2>3. CASE primaryParen
    BY <2>3, primaryParenPays
  <2>4. CASE paren
    BY <2>4, parenPays
  <2>5. CASE primaryBlock
    BY <2>5, primaryBlockPays
  <2>6. CASE primaryExit
    BY <2>6, primaryExitPays
  <2>7. CASE primaryIf
    BY <2>7, primaryIfPays
  <2>8. CASE ifCond
    BY <2>8, ifCondPays
  <2>9. CASE ifTrue
    BY <2>9, ifTruePays
  <2>a. CASE primaryUnexpected
    BY <2>a, primaryUnexpectedPays
  <2>b. CASE exprEnd
    BY <2>b, exprEndPays
  <2>c. CASE callExpr
    BY <2>c, callExprPays
  <2>d. CASE indexExpr
    BY <2>d, indexExprPays
  <2>e. CASE binop
    BY <2>e, binopPays
  <2>f. CASE args
    BY <2>f, argsPays
  <2>g. CASE comma
    BY <2>g, commaPays
  <2> QED BY <1>9, <2>1, <2>2, <2>3, <2>4, <2>5, <2>6, <2>7, <2>8, <2>9, <2>a, <2>b, <2>c,
             <2>d, <2>e, <2>f, <2>g DEF parseExpr
<1>a. CASE exhaust
  BY <1>a, StutterPays DEF exhaust
<1>b. CASE UNCHANGED vars
  BY <1>b, StutterPays DEF vars
<1> QED BY <1>1, <1>2, <1>3, <1>4, <1>5, <1>6, <1>7, <1>8, <1>9, <1>a, <1>b
        DEF Next, step, Finished

(* The parser has nothing to pay for in the beginning.                     *)
LEMMA StartPays ==
  ASSUME Init
  PROVE  Spent
<1>1. p.items = 0 /\ p.pos = 1 /\ outcome = "parsing"
  BY DEF Init
<1> QED BY <1>1 DEF Spent, Paid

(* Memory for two items for each token, and one.                           *)
EnoughMemory == 2 * Len(source) + 1 <= MaxItems

(* SpinsOnlyWhenStuck, where there is memory for two items for each token  *)
(* and one: only behind the last token inside a list, and in front of a    *)
(* token that starts no declaration, does the parser allocate more.        *)
(* Everywhere else it reads a token for every two calls of                 *)
(* growableArrayPush.                                                      *)
THEOREM MemorySuffices == Spec => [](EnoughMemory => SpinsOnlyWhenStuck)
<1>1. Init => IInv /\ Spent
  BY Start, StartPays
<1>2. IInv /\ Spent /\ [Next]_vars => (IInv /\ Spent)'
  BY Step, StepPays
<1>3. IInv /\ Spent => (EnoughMemory => SpinsOnlyWhenStuck)
  <2> SUFFICES ASSUME IInv, Spent, EnoughMemory, outcome = "exhausted"
               PROVE  SpinsOnlyWhenStuck
    BY DEF SpinsOnlyWhenStuck
  <2>1. p.items > MaxItems /\ (Stuck \/ AtEnd \/ Paid \/ Owing)
    BY DEF Spent
  <2>2. ~ Paid /\ ~ Owing
    <3>1. MaxItems \in Nat /\ Len(source) \in Nat /\ p.pos \in 1..(Len(source) + 1) /\ p.items \in Nat
      <4>1. TypeOK /\ MaxItems \in Nat
        BY SourcesAssumption DEF IInv
      <4>2. source \in Seq(Delivered)
        BY <4>1 DEF TypeOK
      <4>3. p.pos \in 1..(Len(source) + 1) /\ p.items \in 0..(MaxItems + 2)
        <5> HIDE DEF Message
        <5> QED BY <4>1 DEF TypeOK
      <4>4. Len(source) \in Nat
        BY <4>2
      <4> QED BY <4>1, <4>3, <4>4
    <3> QED BY <2>1, <3>1 DEF Paid, Owing, EnoughMemory
  <2>3. CASE Stuck
    BY <2>3 DEF Stuck, SpinsOnlyWhenStuck
  <2>4. CASE AtEnd
    BY <2>4 DEF AtEnd, InList, Lists, SpinsOnlyWhenStuck
  <2> QED BY <2>1, <2>2, <2>3, <2>4
<1> QED BY <1>1, <1>2, <1>3, PTL DEF Spec
==============================================================================
