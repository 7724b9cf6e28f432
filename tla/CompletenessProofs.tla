-------------------------- MODULE CompletenessProofs --------------------------
(***************************************************************************)
(* Proofs about the walks over the tree, for every set of programs: a      *)
(* program that is accepted was compiled completely, nothing twice, every  *)
(* jump leads where its construct says, and a name reads the local that    *)
(* the checker bound it to.                                                *)
(***************************************************************************)
EXTENDS GeneratedCodeProofs, ScopeProofs

-----------------------------------------------------------------------------
(* The tree.                                                               *)

Kids(n) == Range(ast[n].kids)

LEMMA KidsInTree ==
  ASSUME WellFormed(ast), NEW n \in DOMAIN ast
  PROVE  /\ \A m \in Kids(n) : m \in DOMAIN ast /\ n < m
         /\ \A i \in 1..Len(ast[n].kids) : Kid(n, i) \in Kids(n)
         /\ \A m \in Kids(n) : \E i \in 1..Len(ast[n].kids) : m = Kid(n, i)
         /\ Len(ast[n].kids) \in Nat /\ n \in Nat
         /\ Kids(n) \subseteq DOMAIN ast
<1>1. ast[n].kids \in Seq((n + 1)..Len(ast)) /\ ast \in Seq(Node)
  BY DEF WellFormed
<1>2. n \in Nat /\ DOMAIN ast = 1..Len(ast) /\ Len(ast) \in Nat
  BY <1>1
<1> DEFINE kids == ast[n].kids
<1>3. /\ DOMAIN kids = 1..Len(kids) /\ Len(kids) \in Nat
      /\ \A i \in DOMAIN kids : kids[i] \in (n + 1)..Len(ast)
  BY <1>1
<1>4. Kids(n) = {kids[i] : i \in DOMAIN kids}
  BY DEF Kids, Range
<1>5. \A i \in DOMAIN kids : kids[i] \in DOMAIN ast /\ n < kids[i]
  BY <1>2, <1>3
<1>6. \A i \in DOMAIN kids : Kid(n, i) = kids[i]
  BY DEF Kid
<1> HIDE DEF kids
<1>7. /\ \A m \in Kids(n) : m \in DOMAIN ast /\ n < m
      /\ \A i \in 1..Len(kids) : Kid(n, i) \in Kids(n)
      /\ \A m \in Kids(n) : \E i \in 1..Len(kids) : m = Kid(n, i)
  BY <1>3, <1>4, <1>5, <1>6
<1> QED BY <1>2, <1>3, <1>7 DEF kids

(* A node has one parent, and one place in it.                             *)
LEMMA OnlyParent ==
  ASSUME WellFormed(ast), NEW n \in DOMAIN ast, NEW p \in DOMAIN ast,
         NEW i \in 1..Len(ast[n].kids), NEW j \in 1..Len(ast[p].kids),
         Kid(n, i) = Kid(p, j)
  PROVE  n = p /\ i = j
<1> DEFINE m == Kid(n, i)
<1>1. m \in DOMAIN ast /\ n < m /\ n \in Nat
  BY KidsInTree
<1>2. m \in 2..Len(ast) /\ DOMAIN ast = 1..Len(ast)
  <2>1. ast \in Seq(Node)
    BY DEF WellFormed
  <2> HIDE DEF m
  <2>2. DOMAIN ast = 1..Len(ast) /\ Len(ast) \in Nat
    BY <2>1
  <2> QED BY <1>1, <2>2
<1>3. i \in DOMAIN ast[n].kids /\ j \in DOMAIN ast[p].kids
  <2>1. ASSUME NEW q \in DOMAIN ast
        PROVE  DOMAIN ast[q].kids = 1..Len(ast[q].kids)
    <3>1. ast[q].kids \in Seq(DOMAIN ast)
      BY TreeNodes
    <3> QED BY <3>1
  <2> QED BY <2>1
<1>4. ast[n].kids[i] = m /\ ast[p].kids[j] = m
  BY DEF Kid
<1> HIDE DEF m
<1>5. SingleParents(ast)
  BY DEF WellFormed
<1> QED BY <1>2, <1>3, <1>4, <1>5 DEF SingleParents

LEMMA SingleParent ==
  ASSUME WellFormed(ast), NEW n \in DOMAIN ast, NEW p \in DOMAIN ast,
         NEW m \in Kids(n), m \in Kids(p)
  PROVE  n = p
<1>1. PICK i \in 1..Len(ast[n].kids) : m = Kid(n, i)
  BY KidsInTree
<1>2. PICK j \in 1..Len(ast[p].kids) : m = Kid(p, j)
  BY KidsInTree
<1> QED BY <1>1, <1>2, OnlyParent

LEMMA HasParent ==
  ASSUME WellFormed(ast), NEW m \in DOMAIN ast, m # 1
  PROVE  \E n \in DOMAIN ast : m \in Kids(n)
<1>1. ast \in Seq(Node) /\ SingleParents(ast)
  BY DEF WellFormed
<1>2. m \in 2..Len(ast)
  BY <1>1
<1>3. PICK n \in DOMAIN ast : \E i \in DOMAIN ast[n].kids : ast[n].kids[i] = m
  BY <1>1, <1>2 DEF SingleParents
<1> QED BY <1>3 DEF Kids, Range

(* Induction from the leaves to the root.                                  *)
LEMMA UpTheTree ==
  ASSUME WellFormed(ast), NEW S, \A n \in DOMAIN ast : Kids(n) \subseteq S => n \in S
  PROVE  DOMAIN ast \subseteq S
<1> DEFINE T == {n \in DOMAIN ast : n \notin S}
<1> SUFFICES ASSUME T # {} PROVE FALSE
  OBVIOUS
<1>1. DOMAIN ast = 1..Len(ast) /\ Len(ast) \in Nat
  BY DEF WellFormed
<1>2. T \subseteq 0..Len(ast)
  BY <1>1
<1>3. PICK n \in T : \A m \in T : m <= n
  <2> HIDE DEF T
  <2> QED BY <1>1, <1>2, GreatestNatural
<1>4. ASSUME NEW m \in Kids(n)
      PROVE  m \in S
  <2>1. m \in DOMAIN ast /\ n < m /\ n \in Nat
    BY KidsInTree
  <2>2. ~ (m <= n)
    BY <1>1, <2>1
  <2> QED BY <1>3, <2>1, <2>2
<1> QED BY <1>4

(* Induction from the root to the leaves.                                  *)
LEMMA DownTheTree ==
  ASSUME WellFormed(ast), NEW S, 1 \in S,
         \A n \in DOMAIN ast : n \in S => Kids(n) \subseteq S
  PROVE  DOMAIN ast \subseteq S
<1> DEFINE T == {n \in DOMAIN ast : n \notin S}
<1> SUFFICES ASSUME T # {} PROVE FALSE
  OBVIOUS
<1>1. T \subseteq Nat
  BY TreeNodes
<1>2. PICK m \in T : \A n \in T : m <= n
  <2> HIDE DEF T
  <2> QED BY <1>1, LeastNatural
<1>3. m \in DOMAIN ast /\ m # 1
  OBVIOUS
<1>4. PICK n \in DOMAIN ast : m \in Kids(n)
  BY <1>3, HasParent
<1>5. n < m /\ n \in Nat /\ m \in Nat
  <2>1. n < m /\ n \in Nat
    BY <1>4, KidsInTree
  <2>2. m \in Nat
    BY <1>1
  <2> QED BY <2>1, <2>2
<1>6. n \notin S
  BY <1>3, <1>4
<1>7. m <= n
  BY <1>2, <1>6
<1> QED BY <1>5, <1>7

(* Subtree is well defined: the nodes below n are those in every set that  *)
(* holds n and the kids of its members.                                    *)
LEMMA SubtreeDefined ==
  ASSUME WellFormed(ast)
  PROVE  Subtree = [n \in DOMAIN ast |->
                      {n} \cup UNION {Subtree[m] : m \in Range(ast[n].kids)}]
<1> DEFINE Closed(S) == \A x \in S : Kids(x) \subseteq S
           Below(n) == {x \in DOMAIN ast :
                          \A S \in SUBSET DOMAIN ast : n \in S /\ Closed(S) => x \in S}
           sub == [n \in DOMAIN ast |-> Below(n)]
<1>1. ASSUME NEW n \in DOMAIN ast
      PROVE  Kids(n) \subseteq DOMAIN ast
  BY KidsInTree
<1>2. ASSUME NEW n \in DOMAIN ast
      PROVE  Below(n) = {n} \cup UNION {Below(m) : m \in Kids(n)}
  <2> DEFINE R == {n} \cup UNION {Below(m) : m \in Kids(n)}
  <2>1. ASSUME NEW m \in Kids(n), NEW x \in Below(m)
        PROVE  x \in Below(n)
    BY <2>1
  <2>2. n \in Below(n)
    OBVIOUS
  <2>3. R \subseteq Below(n)
    <3> HIDE DEF Below
    <3> QED BY <2>1, <2>2
  <2>4. R \in SUBSET DOMAIN ast /\ n \in R
    OBVIOUS
  <2>5. Closed(R)
    <3> SUFFICES ASSUME NEW x \in R, NEW y \in Kids(x) PROVE y \in R
      OBVIOUS
    <3>1. CASE x = n
      <4>1. y \in Below(y)
        BY <1>1, <3>1
      <4> HIDE DEF Below
      <4> QED BY <3>1, <4>1
    <3>2. CASE x # n
      <4>1. PICK m \in Kids(n) : x \in Below(m)
        BY <3>2
      <4>2. x \in DOMAIN ast
        BY <4>1
      <4>3. y \in Below(m)
        BY <1>1, <4>1, <4>2
      <4> HIDE DEF Below
      <4> QED BY <4>1, <4>3
    <3> QED BY <3>1, <3>2
  <2>6. Below(n) \subseteq R
    <3> HIDE DEF R, Closed
    <3> QED BY <2>4, <2>5
  <2> HIDE DEF Below
  <2> QED BY <2>3, <2>6
<1>3. sub = [n \in DOMAIN ast |-> {n} \cup UNION {sub[m] : m \in Range(ast[n].kids)}]
  <2>1. ASSUME NEW n \in DOMAIN ast
        PROVE  Below(n) = {n} \cup UNION {sub[m] : m \in Range(ast[n].kids)}
    <3>1. \A m \in Kids(n) : sub[m] = Below(m)
      <4> HIDE DEF Below
      <4> QED BY <1>1
    <3> HIDE DEF Below, sub
    <3> QED BY <1>2, <3>1 DEF Kids
  <2> HIDE DEF Below
  <2> QED BY <2>1
<1> HIDE DEF sub
<1> QED BY <1>3 DEF Subtree

LEMMA SubtreeOf ==
  ASSUME WellFormed(ast), NEW n \in DOMAIN ast
  PROVE  /\ n \in Subtree[n]
         /\ \A m \in Kids(n) : Subtree[m] \subseteq Subtree[n]
         /\ \A x \in Subtree[n] : x = n \/ \E m \in Kids(n) : x \in Subtree[m]
<1>1. Subtree[n] = {n} \cup UNION {Subtree[m] : m \in Kids(n)}
  BY SubtreeDefined DEF Kids
<1> QED BY <1>1

(* A subtree has its root as its first node.                               *)
LEMMA SubtreeInTree ==
  ASSUME WellFormed(ast), NEW n \in DOMAIN ast
  PROVE  \A x \in Subtree[n] : x \in DOMAIN ast /\ n <= x
<1> DEFINE S == {p \in DOMAIN ast : \A x \in Subtree[p] : x \in DOMAIN ast /\ p <= x}
<1>1. ASSUME NEW p \in DOMAIN ast, Kids(p) \subseteq S
      PROVE  p \in S
  <2>1. ASSUME NEW x \in Subtree[p]
        PROVE  x \in DOMAIN ast /\ p <= x
    <3>1. p \in Nat
      BY KidsInTree
    <3>2. CASE x = p
      BY <3>1, <3>2
    <3>3. CASE x # p
      <4>1. PICK m \in Kids(p) : x \in Subtree[m]
        BY <3>3, SubtreeOf
      <4>2. m \in DOMAIN ast /\ p < m /\ m <= x /\ x \in DOMAIN ast
        BY <1>1, <4>1, KidsInTree
      <4>3. m \in Nat /\ x \in Nat
        BY <4>2, TreeNodes
      <4> QED BY <3>1, <4>2, <4>3
    <3> QED BY <3>2, <3>3
  <2> QED BY <2>1
<1>2. DOMAIN ast \subseteq S
  <2> HIDE DEF S
  <2> QED BY <1>1, UpTheTree
<1> QED BY <1>2

LEMMA SubtreeNested ==
  ASSUME WellFormed(ast), NEW n \in DOMAIN ast, NEW m \in Subtree[n]
  PROVE  Subtree[m] \subseteq Subtree[n]
<1> DEFINE S == {p \in DOMAIN ast : \A x \in Subtree[p] : Subtree[x] \subseteq Subtree[p]}
<1>1. ASSUME NEW p \in DOMAIN ast, Kids(p) \subseteq S
      PROVE  p \in S
  BY <1>1, SubtreeOf
<1>2. DOMAIN ast \subseteq S
  <2> HIDE DEF S
  <2> QED BY <1>1, UpTheTree
<1> QED BY <1>2

(* With a node a subtree holds its parent, except that of the root.        *)
LEMMA ParentInSubtree ==
  ASSUME WellFormed(ast), NEW n \in DOMAIN ast, NEW p \in DOMAIN ast, NEW m \in Kids(p),
         m \in Subtree[n], m # n
  PROVE  p \in Subtree[n]
<1> DEFINE S == {q \in DOMAIN ast : m \in Subtree[q] /\ m # q => p \in Subtree[q]}
<1>1. ASSUME NEW q \in DOMAIN ast, Kids(q) \subseteq S
      PROVE  q \in S
  <2> SUFFICES ASSUME m \in Subtree[q], m # q PROVE p \in Subtree[q]
    OBVIOUS
  <2>1. PICK k \in Kids(q) : m \in Subtree[k]
    BY SubtreeOf
  <2>2. CASE m = k
    <3>1. q = p
      BY <2>2, SingleParent
    <3> QED BY <3>1, SubtreeOf
  <2>3. CASE m # k
    BY <1>1, <2>1, <2>3, SubtreeOf
  <2> QED BY <2>2, <2>3
<1>2. DOMAIN ast \subseteq S
  <2> HIDE DEF S
  <2> QED BY <1>1, UpTheTree
<1> QED BY <1>2

(* The subtrees of two kids have nothing in common with each other's root, *)
(* nor with their parent.                                                  *)
LEMMA KidsApart ==
  ASSUME WellFormed(ast), NEW n \in DOMAIN ast, NEW m \in Kids(n)
  PROVE  /\ m \in DOMAIN ast /\ m # n /\ m \in Subtree[n] /\ n \notin Subtree[m]
         /\ \A k \in Kids(n) : k # m => k \notin Subtree[m]
<1>1. m \in DOMAIN ast /\ n < m /\ n \in Nat /\ m \in Nat
  BY KidsInTree, TreeNodes
<1>2. m \in Subtree[n]
  BY <1>1, SubtreeOf
<1>3. n \notin Subtree[m]
  BY <1>1, SubtreeInTree
<1>4. ASSUME NEW k \in Kids(n), k # m
      PROVE  k \notin Subtree[m]
  BY <1>1, <1>3, <1>4, ParentInSubtree
<1> QED BY <1>1, <1>2, <1>3, <1>4

LEMMA WholeTree ==
  ASSUME WellFormed(ast)
  PROVE  DOMAIN ast \subseteq Subtree[1]
<1>1. 1 \in DOMAIN ast
  BY TreeNodes
<1>2. ASSUME NEW n \in DOMAIN ast, n \in Subtree[1]
      PROVE  Kids(n) \subseteq Subtree[1]
  <2>1. Subtree[n] \subseteq Subtree[1]
    BY <1>1, <1>2, SubtreeNested
  <2> QED BY <2>1, KidsApart
<1>3. 1 \in Subtree[1]
  BY <1>1, SubtreeOf
<1> QED BY <1>2, <1>3, DownTheTree

-----------------------------------------------------------------------------
(* The walk.  A pending call has nodes ahead of it that nobody has begun.  *)

GenTasks == {"genStmt", "genExpression"}
RestTasks == {"endScope", "emitReturn", "operator", "elseJump", "outJump", "patchOut"}

KidsFrom(n, first) == {Kid(n, i) : i \in {j \in 1..Len(ast[n].kids) : first <= j}}

Ahead(t) ==
  IF t.do \in GenTasks THEN {t.n}
  ELSE IF t.do = "elseJump" THEN KidsFrom(t.n, 2)
  ELSE IF t.do = "outJump" THEN KidsFrom(t.n, 3)
  ELSE {}

(* A call on each of the nodes of K, in whatever order, ...                *)
KidCalls(first, K) ==
  /\ first \in Seq(Tasks)
  /\ \A k \in DOMAIN first : first[k].do \in GenTasks /\ first[k].n \in K
  /\ \A k, l \in DOMAIN first : first[k].n = first[l].n => k = l
  /\ \A m \in K : \E k \in DOMAIN first : first[k].n = m

(* ... and the rest of the call at the top, which has the nodes of R ahead *)
(* of it.                                                                  *)
OwnCalls(own, R) ==
  /\ own \in Seq(Tasks)
  /\ \A k \in DOMAIN own : own[k].n = Top.n /\ own[k].do \in RestTasks
  /\ \A k, l \in DOMAIN own : k < l => own[k].do = "endScope" /\ own[l].do = "emitReturn"
  /\ \A k \in DOMAIN own : Ahead(own[k]) \subseteq R
  /\ \A m \in R : \E k \in DOMAIN own : m \in Ahead(own[k])

(* What the call at the top is replaced by hands on the nodes of M, each   *)
(* once.                                                                   *)
Ordered(tasks) ==
  /\ tasks \in Seq(Tasks)
  /\ \A k \in DOMAIN tasks :
       \/ tasks[k].do \in GenTasks /\ tasks[k].n \in Kids(Top.n)
       \/ tasks[k].do \in RestTasks /\ tasks[k].n = Top.n
  /\ \A k, l \in DOMAIN tasks :
       k < l /\ tasks[k].do \in RestTasks =>
         tasks[k].do = "endScope" /\ tasks[l].do = "emitReturn"

Shares(tasks, M) ==
  /\ \A k, l \in DOMAIN tasks : k # l => Ahead(tasks[k]) \cap Ahead(tasks[l]) = {}
  /\ \A m \in M : \E k \in DOMAIN tasks : m \in Ahead(tasks[k])
  /\ \A k \in DOMAIN tasks : Ahead(tasks[k]) \subseteq M
  /\ M \subseteq Kids(Top.n)

LEMMA Apart == /\ \A do \in GenTasks : do \notin RestTasks
               /\ "popUnused" \notin GenTasks /\ "popUnused" \notin RestTasks
               /\ "patchEntry" \notin GenTasks /\ "patchEntry" \notin RestTasks
BY DEF GenTasks, RestTasks

LEMMA AheadOf ==
  ASSUME NEW t
  PROVE  /\ t.do \in GenTasks => Ahead(t) = {t.n}
         /\ t.do = "elseJump" => Ahead(t) = KidsFrom(t.n, 2)
         /\ t.do = "outJump" => Ahead(t) = KidsFrom(t.n, 3)
         /\ t.do \notin GenTasks \cup {"elseJump", "outJump"} => Ahead(t) = {}
BY DEF Ahead, GenTasks

LEMMA Spread ==
  ASSUME NEW first, NEW own, NEW K, NEW R, KidCalls(first, K), OwnCalls(own, R),
         K \subseteq Kids(Top.n), R \subseteq Kids(Top.n), K \cap R = {}
  PROVE  Ordered(first \o own) /\ Shares(first \o own, K \cup R)
<1> DEFINE all == first \o own
           a == Len(first)
           b == Len(own)
<1>1. /\ all \in Seq(Tasks) /\ DOMAIN all = 1..(a + b)
      /\ DOMAIN first = 1..a /\ DOMAIN own = 1..b /\ a \in Nat /\ b \in Nat
      /\ \A k \in 1..a : all[k] = first[k]
      /\ \A k \in 1..b : all[a + k] = own[k]
  <2>1. first \in Seq(Tasks) /\ own \in Seq(Tasks)
    BY DEF KidCalls, OwnCalls
  <2> QED BY ONLY <2>1
<1> HIDE DEF all, a, b
<1>2. ASSUME NEW k \in DOMAIN all
      PROVE  \/ /\ k \in DOMAIN first /\ all[k] = first[k]
                /\ all[k].do \in GenTasks /\ all[k].n \in K /\ Ahead(all[k]) = {all[k].n}
             \/ /\ k - a \in DOMAIN own /\ all[k] = own[k - a] /\ k > a
                /\ all[k].do \in RestTasks /\ all[k].n = Top.n /\ Ahead(all[k]) \subseteq R
  <2>1. CASE k \in 1..a
    <3>1. all[k] = first[k] /\ k \in DOMAIN first
      BY <1>1, <2>1
    <3> QED BY <3>1, AheadOf DEF KidCalls
  <2>2. CASE k \notin 1..a
    <3>1. k - a \in 1..b /\ k > a /\ a + (k - a) = k
      BY <1>1, <2>2
    <3>2. all[k] = own[k - a] /\ k - a \in DOMAIN own
      BY <1>1, <3>1
    <3> QED BY <3>1, <3>2 DEF OwnCalls
  <2> QED BY <2>1, <2>2
<1>3. ASSUME NEW k \in DOMAIN all, NEW l \in DOMAIN all, k < l, all[k].do \in RestTasks
      PROVE  all[k].do = "endScope" /\ all[l].do = "emitReturn"
  <2>1. k - a \in DOMAIN own /\ all[k] = own[k - a] /\ k > a
    BY <1>2, <1>3, Apart
  <2>2. l \notin DOMAIN first
    BY <1>1, <1>3, <2>1
  <2>3. l - a \in DOMAIN own /\ all[l] = own[l - a]
    BY <1>2, <2>2
  <2>4. k - a < l - a
    BY <1>1, <1>3
  <2> QED BY <2>1, <2>3, <2>4 DEF OwnCalls
<1>4. Ordered(all)
  BY <1>1, <1>2, <1>3 DEF Ordered
<1>5. ASSUME NEW k \in DOMAIN all, NEW l \in DOMAIN all, k < l
      PROVE  Ahead(all[k]) \cap Ahead(all[l]) = {}
  <2>1. CASE all[k].do \in RestTasks
    <3>1. all[k].do = "endScope"
      BY <1>3, <1>5, <2>1
    <3>2. Ahead(all[k]) = {}
      BY <3>1, AheadOf DEF GenTasks
    <3> QED BY <3>2
  <2>2. CASE all[k].do \notin RestTasks /\ all[l].do \notin RestTasks
    <3>1. /\ k \in DOMAIN first /\ l \in DOMAIN first
          /\ all[k] = first[k] /\ all[l] = first[l]
          /\ Ahead(all[k]) = {all[k].n} /\ Ahead(all[l]) = {all[l].n}
      BY <1>2, <2>2
    <3>2. k # l
      BY <1>1, <1>5
    <3>3. first[k].n # first[l].n
      BY <3>1, <3>2 DEF KidCalls
    <3> QED BY <3>1, <3>3
  <2>3. CASE all[k].do \notin RestTasks /\ all[l].do \in RestTasks
    <3>1. all[k].n \in K /\ Ahead(all[k]) = {all[k].n} /\ Ahead(all[l]) \subseteq R
      BY <1>2, <2>3, Apart
    <3> QED BY <3>1
  <2> QED BY <2>1, <2>2, <2>3
<1>6. ASSUME NEW m \in K \cup R
      PROVE  \E k \in DOMAIN all : m \in Ahead(all[k])
  <2>1. CASE m \in K
    <3>1. PICK k \in DOMAIN first : first[k].n = m
      BY <2>1 DEF KidCalls
    <3>2. k \in DOMAIN all /\ all[k] = first[k]
      BY <1>1
    <3> QED BY <3>1, <3>2, AheadOf DEF KidCalls
  <2>2. CASE m \in R
    <3>1. PICK k \in DOMAIN own : m \in Ahead(own[k])
      BY <2>2 DEF OwnCalls
    <3>2. a + k \in DOMAIN all /\ all[a + k] = own[k]
      BY <1>1
    <3> QED BY <3>1, <3>2
  <2> QED BY <2>1, <2>2
<1>7. Shares(all, K \cup R)
  <2>1. ASSUME NEW k \in DOMAIN all, NEW l \in DOMAIN all, k # l
        PROVE  Ahead(all[k]) \cap Ahead(all[l]) = {}
    <3>1. k < l \/ l < k
      BY <1>1, <2>1
    <3> QED BY <1>5, <3>1
  <2>2. \A k \in DOMAIN all : Ahead(all[k]) \subseteq K \cup R
    BY <1>2
  <2> QED BY <1>6, <2>1, <2>2 DEF Shares
<1> QED BY <1>4, <1>7 DEF all

(* The nodes a node has from the first kid on, the second, the third.      *)
LEMMA KidsFromFirst ==
  ASSUME WellFormed(ast), NEW n \in DOMAIN ast
  PROVE  /\ KidsFrom(n, 1) = Kids(n)
         /\ KidsFrom(n, 2) \subseteq Kids(n) /\ KidsFrom(n, 3) \subseteq Kids(n)
         /\ \A i \in 1..Len(ast[n].kids) : Kid(n, i) \in Kids(n)
         /\ Len(ast[n].kids) = 1 => Kids(n) = {Kid(n, 1)}
         /\ Len(ast[n].kids) = 2 => Kids(n) = {Kid(n, 1), Kid(n, 2)}
         /\ Len(ast[n].kids) >= 2 =>
              /\ Kids(n) = {Kid(n, 1)} \cup KidsFrom(n, 2)
              /\ KidsFrom(n, 2) = {Kid(n, 2)} \cup KidsFrom(n, 3)
              /\ {Kid(n, 1)} \cap KidsFrom(n, 2) = {}
              /\ {Kid(n, 2)} \cap KidsFrom(n, 3) = {}
              /\ Kid(n, 1) # Kid(n, 2)
         /\ Len(ast[n].kids) = 2 => KidsFrom(n, 3) = {}
         /\ Len(ast[n].kids) = 3 => KidsFrom(n, 3) = {Kid(n, 3)}
<1> DEFINE count == Len(ast[n].kids)
           K(i) == Kid(n, i)
           From(first) == {j \in 1..count : first <= j}
<1>1. /\ count \in Nat /\ Kids(n) = {K(i) : i \in 1..count}
      /\ \A i, j \in 1..count : K(i) = K(j) => i = j
  <2>1. count \in Nat /\ Kids(n) = {K(i) : i \in 1..count}
    <3>1. count \in Nat /\ \A i \in 1..count : K(i) \in Kids(n)
      BY KidsInTree
    <3>2. \A m \in Kids(n) : \E i \in 1..count : m = K(i)
      BY KidsInTree
    <3> HIDE DEF count, K
    <3> QED BY <3>1, <3>2
  <2>2. ASSUME NEW i \in 1..count, NEW j \in 1..count, K(i) = K(j)
        PROVE  i = j
    BY <2>2, OnlyParent
  <2> QED BY <2>1, <2>2
<1>2. \A first : KidsFrom(n, first) = {K(i) : i \in From(first)}
  BY DEF KidsFrom
<1> HIDE DEF count, K
<1>3. From(1) = 1..count
  BY <1>1
<1>4. From(2) = 2..count /\ From(3) = 3..count /\ 2..count \subseteq 1..count
      /\ 3..count \subseteq 1..count
  BY <1>1
<1>5. count >= 2 => 1..count = {1} \cup 2..count /\ 2..count = {2} \cup 3..count
  BY <1>1
<1>6. count = 1 => 1..count = {1}
  OBVIOUS
<1>7. count = 2 => 3..count = {} /\ 1..count = {1, 2}
  OBVIOUS
<1>8. count = 3 => 3..count = {3}
  OBVIOUS
<1> HIDE DEF From
<1>9. count >= 2 =>
        /\ {K(1)} \cap KidsFrom(n, 2) = {} /\ {K(2)} \cap KidsFrom(n, 3) = {} /\ K(1) # K(2)
  <2> SUFFICES ASSUME count >= 2
               PROVE  /\ {K(1)} \cap KidsFrom(n, 2) = {}
                      /\ {K(2)} \cap KidsFrom(n, 3) = {} /\ K(1) # K(2)
    OBVIOUS
  <2>1. 1 \in 1..count /\ 2 \in 1..count
    BY <1>1
  <2>2. \A i \in 2..count : i # 1 /\ i \in 1..count
    BY <1>1
  <2>3. \A i \in 3..count : i # 2 /\ i \in 1..count
    BY <1>1
  <2>4. KidsFrom(n, 2) = {K(i) : i \in 2..count} /\ KidsFrom(n, 3) = {K(i) : i \in 3..count}
    BY <1>2, <1>4
  <2> QED BY <1>1, <2>1, <2>2, <2>3, <2>4
<1>10. KidsFrom(n, 1) = Kids(n) /\ KidsFrom(n, 2) \subseteq Kids(n)
       /\ KidsFrom(n, 3) \subseteq Kids(n) /\ \A i \in 1..count : K(i) \in Kids(n)
  BY <1>1, <1>2, <1>3, <1>4
<1>11. /\ count = 1 => Kids(n) = {K(1)}
       /\ count = 2 => Kids(n) = {K(1), K(2)} /\ KidsFrom(n, 3) = {}
       /\ count = 3 => KidsFrom(n, 3) = {K(3)}
  BY <1>1, <1>2, <1>4, <1>6, <1>7, <1>8
<1>12. count >= 2 => /\ Kids(n) = {K(1)} \cup KidsFrom(n, 2)
                     /\ KidsFrom(n, 2) = {K(2)} \cup KidsFrom(n, 3)
  BY <1>1, <1>2, <1>4, <1>5
<1> QED BY <1>9, <1>10, <1>11, <1>12 DEF count, K

LEMMA NoCalls == KidCalls(<<>>, {}) /\ OwnCalls(<<>>, {})
BY DEF KidCalls, OwnCalls

LEMMA CallOne ==
  ASSUME NEW t \in Tasks, t.do \in GenTasks
  PROVE  KidCalls(<<t>>, {t.n})
BY DEF KidCalls

LEMMA CallTwo ==
  ASSUME NEW t \in Tasks, t.do \in GenTasks, NEW u \in Tasks, u.do \in GenTasks, t.n # u.n
  PROVE  KidCalls(<<t, u>>, {t.n, u.n})
<1> DEFINE all == <<t, u>>
<1>1. /\ all \in Seq(Tasks) /\ DOMAIN all = {1, 2} /\ all[1] = t /\ all[2] = u
  OBVIOUS
<1> HIDE DEF all
<1>2. KidCalls(all, {t.n, u.n})
  BY <1>1 DEF KidCalls
<1> QED BY <1>2 DEF all

LEMMA CallEach ==
  ASSUME WellFormed(ast), NEW n \in DOMAIN ast, NEW do \in GenTasks, NEW s \in Nat
  PROVE  KidCalls(ForEach(do, ast[n].kids, s), Kids(n))
<1> DEFINE kids == ast[n].kids
           calls == ForEach(do, kids, s)
           count == Len(kids)
<1>1. /\ count \in Nat /\ DOMAIN kids = 1..count
      /\ \A i \in 1..count : kids[i] \in Nat /\ kids[i] \in Kids(n) /\ Kid(n, i) = kids[i]
  <2>1. kids \in Seq(DOMAIN ast) /\ DOMAIN ast \subseteq Nat
    BY TreeNodes
  <2>2. count \in Nat /\ DOMAIN kids = 1..count /\ \A i \in 1..count : kids[i] \in DOMAIN ast
    BY <2>1
  <2>3. \A i \in 1..count : Kid(n, i) \in Kids(n) /\ Kid(n, i) = kids[i]
    BY KidsInTree DEF Kid
  <2> QED BY <2>1, <2>2, <2>3
<1>2. calls = [i \in 1..count |-> Task(do, kids[i], s)]
  BY <1>1 DEF ForEach
<1>3. ASSUME NEW i \in 1..count
      PROVE  /\ Task(do, kids[i], s) \in Tasks /\ Task(do, kids[i], s).do = do
             /\ Task(do, kids[i], s).n = kids[i]
  BY <1>1 DEF Task, Tasks, GenTasks, CodegenTasks
<1>4. \A i, j \in 1..count : kids[i] = kids[j] => i = j
  <2>1. ASSUME NEW i \in 1..count, NEW j \in 1..count, kids[i] = kids[j]
        PROVE  i = j
    <3>1. Kid(n, i) = Kid(n, j)
      BY <2>1 DEF Kid
    <3> QED BY <3>1, OnlyParent
  <2> QED BY <2>1
<1>5. \A m \in Kids(n) : \E i \in 1..count : m = kids[i]
  <2>1. \A m \in Kids(n) : \E i \in 1..count : m = Kid(n, i)
    BY KidsInTree
  <2> QED BY <1>1, <2>1
<1> HIDE DEF kids, calls, count
<1>6. calls \in Seq(Tasks) /\ DOMAIN calls = 1..count
  BY <1>1, <1>2, <1>3
<1>7. \A i \in DOMAIN calls : calls[i].do = do /\ calls[i].n = kids[i]
  BY <1>2, <1>3, <1>6
<1>8. KidCalls(calls, Kids(n))
  BY <1>1, <1>4, <1>5, <1>6, <1>7 DEF KidCalls
<1> QED BY <1>8 DEF calls, kids

LEMMA RestOne ==
  ASSUME NEW t \in Tasks, t.n = Top.n, t.do \in RestTasks
  PROVE  OwnCalls(<<t>>, Ahead(t))
<1> DEFINE all == <<t>>
<1>1. all \in Seq(Tasks) /\ DOMAIN all = {1} /\ all[1] = t
  OBVIOUS
<1> HIDE DEF all
<1>2. OwnCalls(all, Ahead(t))
  BY <1>1 DEF OwnCalls
<1> QED BY <1>2 DEF all

LEMMA RestTwo ==
  ASSUME NEW t \in Tasks, t.n = Top.n, t.do = "endScope",
         NEW u \in Tasks, u.n = Top.n, u.do = "emitReturn"
  PROVE  OwnCalls(<<t, u>>, {})
<1> DEFINE all == <<t, u>>
<1>1. all \in Seq(Tasks) /\ DOMAIN all = {1, 2} /\ all[1] = t /\ all[2] = u
  OBVIOUS
<1>2. Ahead(t) = {} /\ Ahead(u) = {}
  BY AheadOf DEF GenTasks
<1>3. \A k, l \in DOMAIN all : k < l => k = 1 /\ l = 2
  BY <1>1
<1> HIDE DEF all
<1>4. OwnCalls(all, {})
  BY <1>1, <1>2, <1>3 DEF OwnCalls, RestTasks
<1> QED BY <1>4 DEF all

-----------------------------------------------------------------------------
(* The steps of the walk.                                                  *)

(* The rest of a call that writes the one instruction its node stands for. *)
Finishes(t, n) ==
  /\ t.n = n
  /\ \/ t.do = "operator" /\ ast[n].kind = "BINOP"
     \/ t.do = "elseJump" /\ ast[n].kind = "IF"
     \/ t.do = "emitReturn" /\ ast[n].kind = "EXIT"

IsMain(n) == ast[n].kind = "DECL_FUNC" /\ ast[n].name = "main"

(* A statement that is an expression: it stays to be begun.                *)
Turns(tasks, entries) ==
  /\ Top.do = "genStmt" /\ ast[Top.n].kind \in ExprKinds
  /\ entries = <<>> /\ mainLocation' = mainLocation
  /\ tasks \in Seq(Tasks) /\ DOMAIN tasks = {1, 2}
  /\ tasks[1].do = "genExpression" /\ tasks[1].n = Top.n
  /\ tasks[2].do = "popUnused" /\ tasks[2].n = Top.n

(* A node is begun: it writes its instruction now, or leaves one call that *)
(* will.                                                                   *)
Begins(tasks, entries) ==
  /\ Top.do \in GenTasks
  /\ Ordered(tasks) /\ Shares(tasks, Kids(Top.n))
  /\ ast[Top.n].kind \notin {"UNOP", "CALL", "TUPLE"}
  /\ \A k \in DOMAIN tasks : tasks[k].do \notin {"outJump", "patchOut"}
  /\ \/ /\ tasks = <<>> /\ DOMAIN entries = {1} /\ entries[1].n = Top.n
        /\ entries[1].op \in {"CONSTANT", "GET_LOCAL"} /\ entries[1].op \in Compiled(Top.n)
     \/ /\ entries = <<>>
        /\ Compiled(Top.n) # {} =>
             \E k \in DOMAIN tasks :
               /\ Finishes(tasks[k], Top.n)
               /\ \A l \in DOMAIN tasks : Finishes(tasks[l], Top.n) => l = k
  /\ ast[Top.n].kind = "DECL_FUNC" =>
       /\ entries = <<>>
       /\ \E k \in DOMAIN tasks : tasks[k].do = "emitReturn" /\ tasks[k].n = Top.n
  /\ mainLocation' = IF IsMain(Top.n) THEN Len(code) ELSE mainLocation

(* A node is left out, a break or one that is reported.                    *)
Drops(tasks, entries) ==
  /\ Top.do = "genExpression" /\ ast[Top.n].kind \in ExprKinds
  /\ tasks = <<>> /\ entries = <<>> /\ mainLocation' = mainLocation
  /\ errors' # <<>> \/ ast[Top.n].op = "break"

(* The rest of a call.                                                     *)
Continues(tasks, entries) ==
  /\ Top.do \notin GenTasks
  /\ Ordered(tasks) /\ Shares(tasks, Ahead(Top))
  /\ Top.do \notin {"elseJump", "outJump"} => tasks = <<>>
  /\ \A k \in DOMAIN tasks : tasks[k].do \in RestTasks => tasks[k].do \in {"outJump", "patchOut"}
  /\ mainLocation' = mainLocation
  /\ \A i \in DOMAIN entries :
       /\ entries[i].n = Top.n /\ entries[i].op # "CALL"
       /\ entries[i].op = "JUMP" => Top.do = "outJump" /\ DOMAIN entries = {1}
  /\ Finishes(Top, Top.n) =>
       errors' # <<>> \/ (DOMAIN entries = {1} /\ entries[1].op \in Compiled(Top.n))
  /\ ~ Finishes(Top, Top.n) => \A i \in DOMAIN entries : entries[i].op \notin Compiled(Top.n)
  /\ Top.do = "popUnused" => \A i \in DOMAIN entries : entries[i].op = "POP"
  /\ Top.do = "emitReturn" => entries # <<>>
  /\ Top.do \in {"patchOut", "patchEntry"} =>
       /\ entries = <<>> /\ code' = patchJump(code, Top.at, IF Top.do = "patchOut"
                                                           THEN Len(code) ELSE mainLocation)

(* What is in front of or behind a sequence is known by the whole.         *)
LEMMA SameFront ==
  ASSUME NEW S, NEW a \in Seq(S), NEW b \in Seq(S), NEW c \in Seq(S), a \o c = b \o c
  PROVE  a = b
<1>1. /\ Len(a) \in Nat /\ Len(b) \in Nat /\ Len(c) \in Nat
      /\ Len(a \o c) = Len(a) + Len(c) /\ Len(b \o c) = Len(b) + Len(c)
      /\ \A i \in 1..Len(a) : (a \o c)[i] = a[i]
      /\ \A i \in 1..Len(b) : (b \o c)[i] = b[i]
  OBVIOUS
<1>2. Len(a) = Len(b)
  BY <1>1
<1>3. \A i \in 1..Len(a) : a[i] = b[i]
  BY <1>1, <1>2
<1> QED BY <1>2, <1>3

LEMMA SameBack ==
  ASSUME NEW S, NEW a \in Seq(S), NEW b \in Seq(S), NEW c \in Seq(S), c \o a = c \o b
  PROVE  a = b
<1>1. /\ Len(a) \in Nat /\ Len(b) \in Nat /\ Len(c) \in Nat
      /\ Len(c \o a) = Len(c) + Len(a) /\ Len(c \o b) = Len(c) + Len(b)
      /\ \A i \in 1..Len(a) : (c \o a)[Len(c) + i] = a[i]
      /\ \A i \in 1..Len(b) : (c \o b)[Len(c) + i] = b[i]
  OBVIOUS
<1>2. Len(a) = Len(b)
  BY <1>1
<1>3. \A i \in 1..Len(a) : a[i] = b[i]
  BY <1>1, <1>2
<1> QED BY <1>2, <1>3

LEMMA TasksAre ==
  ASSUME NEW tasks, NEW entries, Writing(tasks, entries), NEW calls \in Seq(Tasks),
         stack' = calls \o Tail(stack)
  PROVE  tasks = calls
<1>1. stack \in Seq(Tasks) /\ stack # <<>>
  BY DEF Writing
<1>2. Tail(stack) \in Seq(Tasks)
  BY ONLY <1>1
<1>3. tasks \in Seq(Tasks) /\ tasks \o Tail(stack) = calls \o Tail(stack)
  BY DEF Writing, Writes
<1> QED BY <1>2, <1>3, SameFront

LEMMA NoTasks ==
  ASSUME NEW tasks, NEW entries, Writing(tasks, entries), Return
  PROVE  tasks = <<>>
<1>1. <<>> \in Seq(Tasks) /\ stack' = <<>> \o Tail(stack)
  <2>1. stack \in Seq(Tasks) /\ stack # <<>>
    BY DEF Writing
  <2>2. Tail(stack) \in Seq(Tasks)
    BY ONLY <2>1
  <2> QED BY <2>2 DEF Return
<1> QED BY <1>1, TasksAre

LEMMA EntriesAre ==
  ASSUME NEW tasks, NEW entries, Writing(tasks, entries), NEW written \in Seq(Instruction),
         log' = log \o written
  PROVE  entries = written
<1>1. /\ log \in Seq(Instruction) /\ entries \in Seq(Instruction)
      /\ log \o entries = log \o written
  BY DEF Writing, Writes, CodeOK
<1> QED BY <1>1, SameBack

LEMMA NoEntries ==
  ASSUME NEW tasks, NEW entries, Writing(tasks, entries), log' = log
  PROVE  entries = <<>>
<1>1. <<>> \in Seq(Instruction) /\ log' = log \o <<>>
  BY DEF Writing, CodeOK
<1> QED BY <1>1, EntriesAre

LEMMA OneEntry ==
  ASSUME NEW tasks, NEW entries, Writing(tasks, entries), NEW op \in DOMAIN Opcode,
         NEW n \in Nat, log' = Append(log, Logged(Len(code), op, n))
  PROVE  DOMAIN entries = {1} /\ entries[1].op = op /\ entries[1].n = n /\ entries # <<>>
<1> DEFINE entry == Logged(Len(code), op, n)
<1>1. entry \in Instruction /\ entry.op = op /\ entry.n = n
  BY DEF Writing, CodeOK, Code, Logged, Instruction
<1>2. log \in Seq(Instruction)
  BY DEF Writing, CodeOK
<1> HIDE DEF entry
<1>3. <<entry>> \in Seq(Instruction) /\ log' = log \o <<entry>>
  BY <1>1, <1>2 DEF entry
<1>4. entries = <<entry>>
  BY <1>3, EntriesAre
<1> QED BY <1>1, <1>4

LEMMA CompiledOf ==
  ASSUME NEW n
  PROVE  /\ ast[n].kind = "LITERAL" => Compiled(n) = {"CONSTANT"}
         /\ ast[n].kind = "IDENT" => Compiled(n) = {"GET_LOCAL"}
         /\ ast[n].kind = "IF" => Compiled(n) = {"JUMP_IF_ZERO"}
         /\ ast[n].kind = "EXIT" => Compiled(n) = {"RETURN"}
         /\ ast[n].kind = "BINOP" =>
              Compiled(n) = DOMAIN Opcode \ {"CONSTANT", "GET_LOCAL", "POP", "RETURN"}
         /\ ast[n].kind \notin {"LITERAL", "IDENT", "IF", "EXIT", "BINOP"} => Compiled(n) = {}
         /\ "POP" \notin Compiled(n)
         /\ "RETURN" \in Compiled(n) => ast[n].kind = "EXIT"
<1> DEFINE kind == ast[n].kind
           C == Compiled(n)
<1> HIDE DEF kind
<1>1. /\ kind = "LITERAL" => C = {"CONSTANT"}
      /\ kind = "IDENT" => C = {"GET_LOCAL"}
      /\ kind = "IF" => C = {"JUMP_IF_ZERO"}
      /\ kind = "EXIT" => C = {"RETURN"}
      /\ kind = "BINOP" => C = DOMAIN Opcode \ {"CONSTANT", "GET_LOCAL", "POP", "RETURN"}
      /\ kind \notin {"LITERAL", "IDENT", "IF", "EXIT", "BINOP"} => C = {}
  BY DEF Compiled, kind
<1> HIDE DEF C
<1>2. "POP" \notin C /\ ("RETURN" \in C => kind = "EXIT")
  BY <1>1
<1> QED BY <1>1, <1>2 DEF kind, C

Walking(tasks, entries) ==
  WellFormed(ast) /\ PassOK /\ Top.n \in DOMAIN ast /\ Writing(tasks, entries)

LEMMA WalkTop ==
  ASSUME NEW tasks, NEW entries, Walking(tasks, entries)
  PROVE  /\ stack # <<>> /\ Fits(Top, Len(scopes)) /\ Top.n \in Nat /\ Top.s \in Nat
         /\ Top.n \in DOMAIN ast /\ WellFormed(ast) /\ Len(code) \in Nat
         /\ Len(code) + 1 \in Nat /\ Writing(tasks, entries)
         /\ scopeOf[Top.n] \in Nat
<1>1. stack # <<>> /\ PassOK
  BY DEF Walking, Writing
<1>2. Fits(Top, Len(scopes)) /\ Len(scopes) \in Nat /\ NotesOK
  BY <1>1, TopFits DEF PassOK, ScopesOK, FineScopes
<1>3. Top.n \in DOMAIN ast /\ Top \in Tasks /\ scopeOf[Top.n] \in 0..Len(scopes)
  BY <1>2 DEF Fits, NotesOK
<1>4. Len(code) \in Nat
  BY DEF Walking, Writing, CodeOK, Code
<1> QED BY <1>1, <1>2, <1>3, <1>4 DEF Tasks, Walking

LEMMA GenTask ==
  ASSUME NEW do \in GenTasks \cup RestTasks, NEW n \in Nat, NEW s \in Nat, NEW at \in Nat
  PROVE  /\ Task(do, n, s) \in Tasks /\ Task(do, n, s).do = do /\ Task(do, n, s).n = n
         /\ TaskAt(do, n, s, at) \in Tasks /\ TaskAt(do, n, s, at).do = do
         /\ TaskAt(do, n, s, at).n = n
BY DEF Task, TaskAt, Tasks, GenTasks, RestTasks, CodegenTasks

(* The leaves.                                                             *)
LEMMA LeafWalks ==
  ASSUME NEW tasks, NEW entries, Walking(tasks, entries),
         genLiteral \/ (genIdent /\ phase' # "crashed")
  PROVE  Begins(tasks, entries)
<1> DEFINE n == Top.n
           op == IF ast[n].kind = "LITERAL" THEN "CONSTANT" ELSE "GET_LOCAL"
<1>1. n \in DOMAIN ast /\ n \in Nat /\ WellFormed(ast) /\ Writing(tasks, entries)
  BY WalkTop
<1>2. /\ ast[n].kind \in {"LITERAL", "IDENT"} /\ Top.do = "genExpression" /\ Return
      /\ mainLocation' = mainLocation /\ log' = Append(log, Logged(Len(code), op, n))
  <2>1. CASE genLiteral
    BY <2>1 DEF genLiteral, Gen, RunningOn, Running, emitConstant, emit
  <2>2. CASE genIdent /\ phase' # "crashed"
    BY <2>2 DEF genIdent, Gen, RunningOn, Running, emit, Crash
  <2> QED BY <2>1, <2>2
<1>3. op \in DOMAIN Opcode
  BY DEF Opcode
<1>4. tasks = <<>>
  BY <1>1, <1>2, NoTasks
<1>5. DOMAIN entries = {1} /\ entries[1].op = op /\ entries[1].n = n
  <2> HIDE DEF op, n
  <2> QED BY <1>1, <1>2, <1>3, OneEntry
<1>6. op \in Compiled(n) /\ op \in {"CONSTANT", "GET_LOCAL"}
  BY <1>2, CompiledOf
<1>7. Kids(n) = {}
  <2>1. Shape(ast, n)
    BY <1>1 DEF WellFormed
  <2>2. ast[n].kids = <<>>
    BY <1>2, <2>1 DEF Shape
  <2> QED BY <2>2 DEF Kids, Range
<1>8. Ordered(tasks) /\ Shares(tasks, Kids(n))
  <2>1. DOMAIN tasks = {} /\ tasks \in Seq(Tasks)
    BY <1>4
  <2> QED BY <1>7, <2>1 DEF Ordered, Shares
<1>9. Top.do \in GenTasks /\ ast[n].kind # "DECL_FUNC" /\ ~ IsMain(n)
      /\ ast[n].kind \notin {"UNOP", "CALL", "TUPLE"}
  BY <1>2 DEF GenTasks, IsMain
<1>10. \A k \in DOMAIN tasks : tasks[k].do \notin {"outJump", "patchOut"}
  BY <1>4
<1> HIDE DEF op
<1> QED BY <1>2, <1>4, <1>5, <1>6, <1>8, <1>9, <1>10 DEF Begins

LEMMA Reported ==
  ASSUME MaxErrors \in Nat \ {0}, NEW list \in Seq(Message), NEW message \in Message
  PROVE  Report(list, message) # <<>> /\ (list # <<>> => Report(list, message) # <<>>)
<1>1. CASE Len(list) >= MaxErrors
  <2>1. Len(list) # 0 /\ Report(list, message) = list
    BY <1>1 DEF Report
  <2> QED BY <2>1
<1>2. CASE ~ (Len(list) >= MaxErrors)
  <2>1. Report(list, message) = Append(list, message)
    BY <1>2 DEF Report
  <2> QED BY <2>1
<1> QED BY <1>1, <1>2

LEMMA DropWalks ==
  ASSUME NEW tasks, NEW entries, Walking(tasks, entries), MaxErrors \in Nat \ {0},
         errors \in Seq(Message),
         genDefault \/ (genExit /\ ast[Top.n].op = "break")
  PROVE  Drops(tasks, entries)
<1>1. Writing(tasks, entries)
  BY WalkTop
<1>2. /\ Top.do = "genExpression" /\ ast[Top.n].kind \in ExprKinds /\ Return
      /\ mainLocation' = mainLocation /\ log' = log
  BY DEF genDefault, genExit, Gen, RunningOn, Running, ExprKinds, codegenVars
<1>3. errors' # <<>> \/ ast[Top.n].op = "break"
  <2>1. CASE genDefault
    <3> DEFINE message == Static("Cannot codegen this construct")
    <3>1. errors' = Report(errors, message)
      BY <2>1 DEF genDefault
    <3>2. message \in Message
      BY DEF Static, Message, Texts, GeneratorTexts
    <3> HIDE DEF message
    <3> QED BY <3>1, <3>2, Reported
  <2>2. CASE genExit /\ ast[Top.n].op = "break"
    BY <2>2
  <2> QED BY <2>1, <2>2
<1>4. tasks = <<>> /\ entries = <<>>
  BY <1>1, <1>2, NoTasks, NoEntries
<1> QED BY <1>2, <1>3, <1>4 DEF Drops

LEMMA TurnWalks ==
  ASSUME NEW tasks, NEW entries, Walking(tasks, entries), genExprStmt
  PROVE  Turns(tasks, entries)
<1> DEFINE first == Task("genExpression", Top.n, Top.s)
           second == Task("popUnused", Top.n, 0)
           calls == <<first, second>>
<1>1. Writing(tasks, entries) /\ Top.n \in Nat /\ Top.s \in Nat
  BY WalkTop
<1>2. /\ Top.do = "genStmt" /\ ast[Top.n].kind \in ExprKinds
      /\ mainLocation' = mainLocation /\ log' = log /\ stack' = calls \o Tail(stack)
  BY DEF genExprStmt, Running, Expand, Call, codegenVars
<1>3. /\ first \in Tasks /\ second \in Tasks
      /\ first.do = "genExpression" /\ first.n = Top.n
      /\ second.do = "popUnused" /\ second.n = Top.n
  BY <1>1 DEF Task, Tasks, CodegenTasks
<1> HIDE DEF first, second
<1>4. calls \in Seq(Tasks) /\ DOMAIN calls = {1, 2} /\ calls[1] = first /\ calls[2] = second
  BY <1>3
<1> HIDE DEF calls
<1>5. tasks = calls /\ entries = <<>>
  BY <1>1, <1>2, <1>4, TasksAre, NoEntries
<1> QED BY <1>2, <1>3, <1>4, <1>5 DEF Turns

(* The nodes that are begun with calls on their kids.                      *)
LEMMA OpenWalks ==
  ASSUME NEW tasks, NEW entries, Walking(tasks, entries), Top.do \in GenTasks,
         ast[Top.n].kind \notin {"UNOP", "CALL", "TUPLE"}, log' = log,
         NEW first, NEW own, NEW K, NEW R, KidCalls(first, K), OwnCalls(own, R),
         K \cup R = Kids(Top.n), K \cap R = {}, stack' = first \o own \o Tail(stack),
         \A k \in DOMAIN own : own[k].do \notin {"outJump", "patchOut"},
         Compiled(Top.n) # {} => DOMAIN own = {1} /\ Finishes(own[1], Top.n),
         ast[Top.n].kind = "DECL_FUNC" => \E k \in DOMAIN own : own[k].do = "emitReturn",
         mainLocation' = IF IsMain(Top.n) THEN Len(code) ELSE mainLocation
  PROVE  Begins(tasks, entries)
<1> DEFINE n == Top.n
           a == Len(first)
<1>1. Writing(tasks, entries)
  BY WalkTop
<1>2. first \in Seq(Tasks) /\ own \in Seq(Tasks)
  BY DEF KidCalls, OwnCalls
<1>3. first \o own \in Seq(Tasks)
  BY ONLY <1>2
<1>4. tasks = first \o own
  BY <1>1, <1>3, TasksAre
<1>5. Ordered(tasks) /\ Shares(tasks, Kids(n))
  <2>1. K \subseteq Kids(Top.n) /\ R \subseteq Kids(Top.n)
    OBVIOUS
  <2>2. Ordered(first \o own) /\ Shares(first \o own, K \cup R)
    BY <2>1, Spread
  <2> QED BY <1>4, <2>2
<1>6. entries = <<>>
  BY <1>1, NoEntries
<1>7. /\ DOMAIN tasks = 1..(a + Len(own)) /\ a \in Nat /\ Len(own) \in Nat
      /\ DOMAIN first = 1..a /\ DOMAIN own = 1..Len(own)
      /\ \A k \in 1..a : tasks[k] = first[k]
      /\ \A k \in 1..Len(own) : tasks[a + k] = own[k]
  BY ONLY <1>2, <1>4
<1> HIDE DEF a
<1>8. ASSUME NEW k \in DOMAIN own
      PROVE  a + k \in DOMAIN tasks /\ tasks[a + k] = own[k] /\ own[k].n = n
  <2>1. own[k].n = n
    BY DEF OwnCalls
  <2> QED BY <1>7, <2>1
<1>9. ASSUME NEW k \in DOMAIN tasks
      PROVE  \/ tasks[k].do \in GenTasks /\ tasks[k].n # n
             \/ k - a \in DOMAIN own /\ k = a + (k - a) /\ tasks[k] = own[k - a]
  <2>1. CASE k \in 1..a
    <3>1. tasks[k].do \in GenTasks /\ tasks[k].n \in K
      BY <1>7, <2>1 DEF KidCalls
    <3>2. tasks[k].n \in Kids(n) /\ n \in DOMAIN ast /\ WellFormed(ast)
      BY <3>1, WalkTop
    <3> QED BY <3>1, <3>2, KidsApart
  <2>2. CASE k \notin 1..a
    <3>1. k - a \in 1..Len(own) /\ k = a + (k - a)
      BY <1>7, <2>2
    <3> QED BY <1>7, <3>1
  <2> QED BY <2>1, <2>2
<1>10. \A k \in DOMAIN tasks : tasks[k].do \notin {"outJump", "patchOut"}
  BY <1>9 DEF GenTasks
<1>11. ASSUME Compiled(n) # {}
       PROVE  \E k \in DOMAIN tasks :
                /\ Finishes(tasks[k], n)
                /\ \A l \in DOMAIN tasks : Finishes(tasks[l], n) => l = k
  <2>1. DOMAIN own = {1} /\ Finishes(own[1], n)
    BY <1>11
  <2>2. a + 1 \in DOMAIN tasks /\ Finishes(tasks[a + 1], n)
    BY <1>8, <2>1
  <2>3. ASSUME NEW l \in DOMAIN tasks, Finishes(tasks[l], n)
        PROVE  l = a + 1
    <3>1. tasks[l].n = n
      BY <2>3 DEF Finishes
    <3>2. l - a \in DOMAIN own /\ l = a + (l - a)
      BY <1>9, <3>1
    <3>3. l - a = 1
      BY <2>1, <3>2
    <3> QED BY <3>2, <3>3
  <2> QED BY <2>2, <2>3
<1>12. ast[n].kind = "DECL_FUNC" =>
         \E k \in DOMAIN tasks : tasks[k].do = "emitReturn" /\ tasks[k].n = n
  BY <1>8
<1> QED BY <1>5, <1>6, <1>10, <1>11, <1>12 DEF Begins

LEMMA BothBehind ==
  ASSUME NEW S, NEW a \in Seq(S), NEW x \in S, NEW y \in S
  PROVE  a \o <<x>> \o <<y>> = a \o <<x, y>>
<1> DEFINE b == a \o <<x>>
           l == b \o <<y>>
           r == a \o <<x, y>>
<1>1. /\ Len(a) \in Nat /\ b \in Seq(S) /\ Len(b) = Len(a) + 1 /\ b[Len(a) + 1] = x
      /\ \A i \in 1..Len(a) : b[i] = a[i]
  OBVIOUS
<1>2. /\ r \in Seq(S) /\ Len(r) = Len(a) + 2 /\ r[Len(a) + 1] = x /\ r[Len(a) + 2] = y
      /\ \A i \in 1..Len(a) : r[i] = a[i]
  OBVIOUS
<1> HIDE DEF b
<1>3. /\ l \in Seq(S) /\ Len(l) = Len(b) + 1 /\ l[Len(b) + 1] = y
      /\ \A i \in 1..Len(b) : l[i] = b[i]
  BY <1>1
<1> HIDE DEF l, r
<1>4. Len(l) = Len(r)
  BY <1>1, <1>2, <1>3
<1>5. ASSUME NEW i \in 1..Len(r)
      PROVE  l[i] = r[i]
  <2>1. i \in 1..Len(a) \/ i = Len(a) + 1 \/ i = Len(a) + 2
    BY <1>1, <1>2
  <2>2. CASE i \in 1..Len(a)
    BY <1>1, <1>2, <1>3, <2>2
  <2>3. CASE i = Len(a) + 1
    BY <1>1, <1>2, <1>3, <2>3
  <2>4. CASE i = Len(a) + 2
    BY <1>1, <1>2, <1>3, <2>4
  <2> QED BY <2>1, <2>2, <2>3, <2>4
<1>6. l = r
  BY <1>2, <1>3, <1>4, <1>5
<1> QED BY <1>6 DEF l, r, b

LEMMA FuncWalks ==
  ASSUME NEW tasks, NEW entries, Walking(tasks, entries), genFunc \/ genBlock
  PROVE  Begins(tasks, entries)
<1> DEFINE n == Top.n
           s == scopeOf[n]
           scoped == Task("endScope", n, s)
           return == Task("emitReturn", n, 0)
           own == IF genFunc THEN <<scoped, return>> ELSE <<scoped>>
           first == ForEach("genStmt", ast[n].kids, s)
<1>1. /\ Writing(tasks, entries) /\ n \in Nat /\ s \in Nat /\ n \in DOMAIN ast
      /\ WellFormed(ast)
  BY WalkTop
<1>2. /\ scoped \in Tasks /\ scoped.do = "endScope" /\ scoped.n = n
      /\ return \in Tasks /\ return.do = "emitReturn" /\ return.n = n
  <2> HIDE DEF n, s
  <2>1. "endScope" \in GenTasks \cup RestTasks /\ "emitReturn" \in GenTasks \cup RestTasks
        /\ 0 \in Nat
    BY DEF RestTasks
  <2>2. scoped \in Tasks /\ scoped.do = "endScope" /\ scoped.n = n
    BY <1>1, <2>1, GenTask
  <2>3. return \in Tasks /\ return.do = "emitReturn" /\ return.n = n
    BY <1>1, <2>1, GenTask
  <2> QED BY <2>2, <2>3
<1>3. /\ log' = log /\ Top.do \in GenTasks
      /\ ast[n].kind = IF genFunc THEN "DECL_FUNC" ELSE "BLOCK"
  BY DEF genFunc, genBlock, Gen, RunningOn, Running, GenTasks, Expand, codegenVars
<1>4. KidCalls(first, Kids(n))
  BY <1>1, CallEach DEF GenTasks
<1>5. first \in Seq(Tasks) /\ Tail(stack) \in Seq(Tasks)
  <2>1. stack \in Seq(Tasks) /\ stack # <<>>
    BY <1>1 DEF Writing
  <2>2. Tail(stack) \in Seq(Tasks)
    BY ONLY <2>1
  <2> QED BY <1>4, <2>2 DEF KidCalls
<1>6. Ahead(scoped) = {}
  BY <1>2, AheadOf DEF GenTasks
<1>7. genStmts(n) = first \o <<scoped>>
  BY DEF genStmts
<1> HIDE DEF first, scoped, return
<1>8. CASE genFunc
  <2>1. stack' = genStmts(n) \o <<return>> \o Tail(stack)
    BY <1>8 DEF genFunc, Call, return
  <2>2. first \o <<scoped>> \o <<return>> = first \o <<scoped, return>>
    BY <1>2, <1>5, BothBehind
  <2>3. stack' = first \o own \o Tail(stack)
    BY <1>7, <1>8, <2>1, <2>2
  <2>4. own = <<scoped, return>> /\ OwnCalls(own, {})
    BY <1>2, <1>8, RestTwo
  <2>5. mainLocation' = IF IsMain(n) THEN Len(code) ELSE mainLocation
    BY <1>8 DEF genFunc, RunningOn, IsMain
  <2>6. ast[n].kind = "DECL_FUNC"
    BY <1>3, <1>8
  <2>7. \A k \in DOMAIN own : own[k].do \notin {"outJump", "patchOut"}
    BY <1>2, <2>4
  <2>8. \E k \in DOMAIN own : own[k].do = "emitReturn"
    <3>1. 2 \in DOMAIN own /\ own[2] = return
      BY <2>4
    <3> QED BY <1>2, <3>1
  <2>9. Compiled(n) = {}
    BY <2>6, CompiledOf
  <2> HIDE DEF n, own
  <2>10. Kids(n) \cup {} = Kids(n) /\ Kids(n) \cap {} = {}
    OBVIOUS
  <2> QED BY <1>3, <1>4, <2>3, <2>4, <2>5, <2>6, <2>7, <2>8, <2>9, <2>10, OpenWalks DEF n
<1>9. CASE ~ genFunc
  <2>1. genBlock
    BY <1>9
  <2>2. stack' = first \o own \o Tail(stack) /\ mainLocation' = mainLocation
    BY <1>7, <1>9, <2>1 DEF genBlock, Expand, Call, codegenVars
  <2>3. own = <<scoped>> /\ OwnCalls(own, {})
    <3>1. OwnCalls(<<scoped>>, Ahead(scoped))
      BY <1>2, RestOne DEF RestTasks
    <3> QED BY <1>6, <1>9, <3>1
  <2>4. ast[n].kind = "BLOCK" /\ ~ IsMain(n)
    BY <1>3, <1>9 DEF IsMain
  <2>5. \A k \in DOMAIN own : own[k].do \notin {"outJump", "patchOut"}
    BY <1>2, <2>3
  <2>6. Compiled(n) = {}
    BY <2>4, CompiledOf
  <2> HIDE DEF n, own
  <2>7. Kids(n) \cup {} = Kids(n) /\ Kids(n) \cap {} = {}
    OBVIOUS
  <2> QED BY <1>3, <1>4, <2>2, <2>3, <2>4, <2>5, <2>6, <2>7, OpenWalks DEF n
<1> QED BY <1>8, <1>9

(* The nodes that are begun with calls on one kid or two.                  *)
LEMMA BranchWalks ==
  ASSUME NEW tasks, NEW entries, Walking(tasks, entries),
         \/ genVar \/ genBinop \/ genIf
         \/ genExit /\ ast[Top.n].op # "break"
  PROVE  Begins(tasks, entries)
<1> DEFINE n == Top.n
           s == Top.s
           count == Len(ast[n].kids)
           G(i) == Task("genExpression", Kid(n, i), s)
<1>1. /\ Writing(tasks, entries) /\ n \in Nat /\ s \in Nat /\ n \in DOMAIN ast
      /\ WellFormed(ast)
  BY WalkTop
<1>2. ASSUME NEW i \in 1..count
      PROVE  /\ G(i) \in Tasks /\ G(i).do \in GenTasks /\ G(i).n = Kid(n, i)
  <2>1. PICK m : m = Kid(n, i)
    OBVIOUS
  <2>2. m \in Nat /\ G(i) = Task("genExpression", m, s)
    BY <1>1, <2>1, KidOfTree, TreeNodes
  <2> HIDE DEF G, s, n
  <2>3. /\ Task("genExpression", m, s) \in Tasks /\ Task("genExpression", m, s).n = m
        /\ Task("genExpression", m, s).do = "genExpression"
    BY <1>1, <2>2, GenTask DEF GenTasks
  <2> QED BY <2>1, <2>2, <2>3 DEF GenTasks
<1>3. ASSUME NEW do \in RestTasks, NEW where \in Nat
      PROVE  /\ Task(do, n, where) \in Tasks /\ Task(do, n, where).do = do
             /\ Task(do, n, where).n = n
  BY <1>1, GenTask
<1>4. /\ log' = log /\ mainLocation' = mainLocation /\ Top.do \in GenTasks
      /\ ast[n].kind \in {"DECL_VAR", "BINOP", "IF", "EXIT"}
  BY DEF genVar, genBinop, genIf, genExit, Gen, RunningOn, Running, GenTasks, Expand,
         codegenVars
<1>5. ~ IsMain(n) /\ ast[n].kind # "DECL_FUNC"
      /\ ast[n].kind \notin {"UNOP", "CALL", "TUPLE"}
  BY <1>4 DEF IsMain
<1>6. ASSUME NEW first, NEW own, NEW K, NEW R, KidCalls(first, K), OwnCalls(own, R),
             K \cup R = Kids(n), K \cap R = {}, stack' = first \o own \o Tail(stack),
             \A k \in DOMAIN own : own[k].do \notin {"outJump", "patchOut"},
             Compiled(n) # {} => DOMAIN own = {1} /\ Finishes(own[1], n)
      PROVE  Begins(tasks, entries)
  BY <1>4, <1>5, <1>6, OpenWalks
<1>7. ASSUME NEW do \in RestTasks \ {"outJump", "patchOut"}, NEW where \in Nat
      PROVE  LET own == <<Task(do, n, where)>>
             IN  /\ OwnCalls(own, Ahead(own[1])) /\ DOMAIN own = {1}
                 /\ own[1].do = do /\ own[1].n = n
                 /\ \A k \in DOMAIN own : own[k].do \notin {"outJump", "patchOut"}
  <2> DEFINE t == Task(do, n, where)
  <2>1. t \in Tasks /\ t.do = do /\ t.n = n
    BY <1>3
  <2> HIDE DEF t
  <2>2. OwnCalls(<<t>>, Ahead(t))
    BY <2>1, RestOne
  <2> QED BY <2>1, <2>2 DEF t
<1>8. Tail(stack) \in Seq(Tasks)
  <2>1. stack \in Seq(Tasks) /\ stack # <<>>
    BY <1>1 DEF Writing
  <2> QED BY ONLY <2>1
<1>9. CASE genVar
  <2>1. /\ stack' = <<G(1)>> \o Tail(stack) /\ ast[n].kind = "DECL_VAR"
    BY <1>9 DEF genVar, Call, RunningOn
  <2> HIDE DEF n, s
  <2>2. count = 1
    BY <1>1, <2>1, KidsCount
  <2>3. KidCalls(<<G(1)>>, Kids(n))
    <3>1. 1 \in 1..count
      BY <2>2
    <3>2. KidCalls(<<G(1)>>, {G(1).n})
      BY <1>2, <3>1, CallOne
    <3> QED BY <1>1, <1>2, <2>2, <3>1, <3>2, KidsFromFirst
  <2>4. Compiled(n) = {}
    BY <2>1, CompiledOf
  <2>5. G(1) \in Tasks
    BY <1>2, <2>2
  <2> HIDE DEF G
  <2>6. stack' = <<G(1)>> \o <<>> \o Tail(stack)
    <3>1. <<G(1)>> \o <<>> = <<G(1)>>
      BY ONLY <2>5
    <3> QED BY <2>1, <3>1
  <2>7. DOMAIN <<>> = {} /\ Kids(n) \cup {} = Kids(n) /\ Kids(n) \cap {} = {}
    OBVIOUS
  <2> QED BY <1>6, <2>3, <2>4, <2>6, <2>7, NoCalls
<1>10. CASE genBinop
  <2> DEFINE own == <<Task("operator", n, 0)>>
  <2>1. /\ stack' = <<G(2), G(1), Task("operator", n, 0)>> \o Tail(stack)
        /\ ast[n].kind = "BINOP"
    BY <1>10 DEF genBinop, Expand, Call, Gen, RunningOn
  <2> HIDE DEF n, s
  <2>2. count = 2 /\ 1 \in 1..count /\ 2 \in 1..count
    <3>1. count = 2
      BY <1>1, <2>1, KidsCount
    <3> QED BY <3>1
  <2>3. Kid(n, 1) # Kid(n, 2) /\ Kids(n) = {Kid(n, 2), Kid(n, 1)}
    BY <1>1, <2>2, KidsFromFirst
  <2>4. KidCalls(<<G(2), G(1)>>, Kids(n))
    <3>1. KidCalls(<<G(2), G(1)>>, {G(2).n, G(1).n})
      BY <1>2, <2>2, <2>3, CallTwo
    <3> QED BY <1>2, <2>2, <2>3, <3>1
  <2>5. /\ OwnCalls(own, Ahead(own[1])) /\ DOMAIN own = {1}
        /\ own[1].do = "operator" /\ own[1].n = n
        /\ \A k \in DOMAIN own : own[k].do \notin {"outJump", "patchOut"}
    BY <1>7 DEF RestTasks
  <2>6. Ahead(own[1]) = {}
    BY <2>5, AheadOf DEF GenTasks
  <2>7. Finishes(own[1], n)
    BY <2>1, <2>5 DEF Finishes
  <2>8. G(1) \in Tasks /\ G(2) \in Tasks /\ Task("operator", n, 0) \in Tasks
    BY <1>2, <1>3, <2>2 DEF RestTasks
  <2> HIDE DEF G
  <2>9. stack' = <<G(2), G(1)>> \o own \o Tail(stack)
    <3>1. <<G(2), G(1), Task("operator", n, 0)>> = <<G(2), G(1)>> \o <<Task("operator", n, 0)>>
      BY ONLY <2>8
    <3> QED BY <2>1, <3>1
  <2>10. Kids(n) \cup {} = Kids(n) /\ Kids(n) \cap {} = {}
    OBVIOUS
  <2> HIDE DEF own
  <2> QED BY <1>6, <2>4, <2>5, <2>6, <2>7, <2>9, <2>10
<1>11. CASE genIf
  <2> DEFINE own == <<Task("elseJump", n, s)>>
  <2>1. /\ stack' = <<G(1), Task("elseJump", n, s)>> \o Tail(stack) /\ ast[n].kind = "IF"
    BY <1>11 DEF genIf, Expand, Call, Gen, RunningOn
  <2> HIDE DEF n, s
  <2>2. count >= 2 /\ 1 \in 1..count
    <3>1. count \in {2, 3}
      BY <1>1, <2>1, KidsCount
    <3> QED BY <3>1
  <2>3. Kids(n) = {Kid(n, 1)} \cup KidsFrom(n, 2) /\ {Kid(n, 1)} \cap KidsFrom(n, 2) = {}
    BY <1>1, <2>2, KidsFromFirst
  <2>4. KidCalls(<<G(1)>>, {Kid(n, 1)})
    BY <1>2, <2>2, CallOne
  <2>5. /\ OwnCalls(own, Ahead(own[1])) /\ DOMAIN own = {1}
        /\ own[1].do = "elseJump" /\ own[1].n = n
        /\ \A k \in DOMAIN own : own[k].do \notin {"outJump", "patchOut"}
    BY <1>1, <1>7 DEF RestTasks
  <2>6. Ahead(own[1]) = KidsFrom(n, 2)
    BY <2>5, AheadOf
  <2>7. Finishes(own[1], n)
    BY <2>1, <2>5 DEF Finishes
  <2>8. G(1) \in Tasks /\ Task("elseJump", n, s) \in Tasks
    BY <1>1, <1>2, <1>3, <2>2 DEF RestTasks
  <2> HIDE DEF G
  <2>9. stack' = <<G(1)>> \o own \o Tail(stack)
    <3>1. <<G(1), Task("elseJump", n, s)>> = <<G(1)>> \o <<Task("elseJump", n, s)>>
      BY ONLY <2>8
    <3> QED BY <2>1, <3>1
  <2> HIDE DEF own
  <2> QED BY <1>6, <2>3, <2>4, <2>5, <2>6, <2>7, <2>9
<1>12. CASE genExit /\ ast[Top.n].op # "break"
  <2> DEFINE own == <<Task("emitReturn", n, 0)>>
  <2>1. /\ stack' = <<G(1), Task("emitReturn", n, 0)>> \o Tail(stack) /\ ast[n].kind = "EXIT"
    BY <1>12 DEF genExit, Call, Gen, RunningOn
  <2> HIDE DEF n, s
  <2>2. count = 1 /\ 1 \in 1..count
    <3>1. count = 1
      BY <1>1, <2>1, KidsCount
    <3> QED BY <3>1
  <2>3. KidCalls(<<G(1)>>, Kids(n))
    <3>1. KidCalls(<<G(1)>>, {G(1).n})
      BY <1>2, <2>2, CallOne
    <3> QED BY <1>1, <1>2, <2>2, <3>1, KidsFromFirst
  <2>5. /\ OwnCalls(own, Ahead(own[1])) /\ DOMAIN own = {1}
        /\ own[1].do = "emitReturn" /\ own[1].n = n
        /\ \A k \in DOMAIN own : own[k].do \notin {"outJump", "patchOut"}
    BY <1>1, <1>7 DEF RestTasks
  <2>6. Ahead(own[1]) = {}
    BY <2>5, AheadOf DEF GenTasks
  <2>7. Finishes(own[1], n)
    BY <2>1, <2>5 DEF Finishes
  <2>8. G(1) \in Tasks /\ Task("emitReturn", n, 0) \in Tasks
    BY <1>1, <1>2, <1>3, <2>2 DEF RestTasks
  <2> HIDE DEF G
  <2>9. stack' = <<G(1)>> \o own \o Tail(stack)
    <3>1. <<G(1), Task("emitReturn", n, 0)>> = <<G(1)>> \o <<Task("emitReturn", n, 0)>>
      BY ONLY <2>8
    <3> QED BY <2>1, <3>1
  <2>10. Kids(n) \cup {} = Kids(n) /\ Kids(n) \cap {} = {}
    OBVIOUS
  <2> HIDE DEF own
  <2> QED BY <1>6, <2>3, <2>5, <2>6, <2>7, <2>9, <2>10
<1> QED BY <1>9, <1>10, <1>11, <1>12

(* The rest of a call that makes no further calls.                         *)
LEMMA FinalWalks ==
  ASSUME NEW tasks, NEW entries, Walking(tasks, entries),
         Top.do \in {"popUnused", "emitReturn", "endScope", "operator", "patchOut", "patchEntry"},
         Return, mainLocation' = mainLocation, errors \in Seq(Message),
         \A i \in DOMAIN entries :
           entries[i].n = Top.n /\ entries[i].op \notin {"CALL", "JUMP"},
         Finishes(Top, Top.n) =>
           errors' # <<>> \/ (DOMAIN entries = {1} /\ entries[1].op \in Compiled(Top.n)),
         ~ Finishes(Top, Top.n) => \A i \in DOMAIN entries : entries[i].op \notin Compiled(Top.n),
         Top.do = "popUnused" => \A i \in DOMAIN entries : entries[i].op = "POP",
         Top.do = "emitReturn" => entries # <<>>,
         Top.do \in {"patchOut", "patchEntry"} =>
           /\ entries = <<>>
           /\ code' = patchJump(code, Top.at, IF Top.do = "patchOut" THEN Len(code)
                                                                     ELSE mainLocation)
  PROVE  Continues(tasks, entries)
<1>1. tasks = <<>>
  BY WalkTop, NoTasks
<1>2. tasks \in Seq(Tasks) /\ DOMAIN tasks = {}
  BY <1>1
<1>3. Ahead(Top) = {} /\ Top.do \notin GenTasks
  BY AheadOf DEF GenTasks
<1>4. Ordered(tasks) /\ Shares(tasks, Ahead(Top))
  BY <1>2, <1>3 DEF Ordered, Shares
<1> QED BY <1>1, <1>2, <1>3, <1>4 DEF Continues

LEMMA PopWalks ==
  ASSUME NEW tasks, NEW entries, Walking(tasks, entries), errors \in Seq(Message),
         popUnused \/ (endScope /\ phase' # "crashed")
  PROVE  Continues(tasks, entries)
<1> DEFINE n == Top.n
<1>1. Writing(tasks, entries) /\ n \in Nat /\ Len(code) \in Nat
  BY WalkTop
<1>2. /\ Top.do \in {"popUnused", "endScope"} /\ Return /\ mainLocation' = mainLocation
  BY DEF popUnused, endScope, Running, Written, Crash
<1>3. \A i \in DOMAIN entries : entries[i].n = n /\ entries[i].op = "POP"
  <2>1. CASE popUnused
    <3>1. log' = Append(log, Logged(Len(code), "POP", n)) \/ log' = log
      BY <2>1 DEF popUnused, emitByte, emit
    <3>2. "POP" \in DOMAIN Opcode
      BY DEF Opcode
    <3> HIDE DEF n
    <3>3. CASE log' = Append(log, Logged(Len(code), "POP", n))
      <4>1. DOMAIN entries = {1} /\ entries[1].op = "POP" /\ entries[1].n = n
        BY <1>1, <3>2, <3>3, OneEntry
      <4> QED BY <4>1
    <3>4. CASE log' = log
      <4>1. entries = <<>>
        BY <1>1, <3>4, NoEntries
      <4> QED BY <4>1
    <3> QED BY <3>1, <3>3, <3>4
  <2>2. CASE endScope /\ phase' # "crashed"
    <3> DEFINE pops == Len(scopes[Top.s].symbols)
               written == [i \in 1..pops |-> Logged(Len(code) + i - 1, "POP", n)]
    <3>1. Top.s # 0 /\ log' = log \o written
      BY <2>2 DEF endScope, Crash
    <3>2. pops \in Nat
      <4>1. Fits(Top, Len(scopes)) /\ FineScopes(scopes)
        BY WalkTop DEF Walking, PassOK, ScopesOK
      <4>2. Top.s \in DOMAIN scopes
        BY <3>1, <4>1 DEF Fits, FineScopes
      <4>3. scopes[Top.s].symbols \in Seq(Symbol)
        BY <4>1, <4>2 DEF FineScopes, FineScope, Scope
      <4> QED BY <4>3
    <3> HIDE DEF pops, n
    <3>3. written \in Seq(Instruction)
      BY <1>1, <3>2, LaidPops
    <3>4. \A i \in DOMAIN written : written[i].n = n /\ written[i].op = "POP"
      BY DEF Logged
    <3> HIDE DEF written
    <3>5. entries = written
      BY <1>1, <3>1, <3>3, EntriesAre
    <3> QED BY <3>4, <3>5
  <2> QED BY <2>1, <2>2
<1>4. ~ Finishes(Top, n)
  BY <1>2 DEF Finishes
<1>5. \A i \in DOMAIN entries :
        entries[i].op \notin {"CALL", "JUMP"} /\ entries[i].op \notin Compiled(n)
  BY <1>3, CompiledOf
<1> QED BY <1>2, <1>3, <1>4, <1>5, FinalWalks

LEMMA ReturnWalks ==
  ASSUME NEW tasks, NEW entries, Walking(tasks, entries), errors \in Seq(Message), emitReturn
  PROVE  Continues(tasks, entries)
<1> DEFINE n == Top.n
<1>1. Writing(tasks, entries) /\ n \in Nat /\ Len(code) \in Nat
  BY WalkTop
<1>2. /\ Top.do = "emitReturn" /\ Return /\ mainLocation' = mainLocation
      /\ log' = Append(log, Logged(Len(code), "RETURN", n))
  BY DEF emitReturn, Running, Written, emitByte, emit
<1>3. "RETURN" \in DOMAIN Opcode
  BY DEF Opcode
<1>4. DOMAIN entries = {1} /\ entries[1].op = "RETURN" /\ entries[1].n = n /\ entries # <<>>
  <2> HIDE DEF n
  <2> QED BY <1>1, <1>2, <1>3, OneEntry
<1>5. Finishes(Top, n) <=> ast[n].kind = "EXIT"
  BY <1>2 DEF Finishes
<1>6. "RETURN" \in Compiled(n) <=> ast[n].kind = "EXIT"
  BY CompiledOf
<1> QED BY <1>2, <1>4, <1>5, <1>6, FinalWalks

LEMMA OperatorWalks ==
  ASSUME NEW tasks, NEW entries, Walking(tasks, entries), errors \in Seq(Message),
         MaxErrors \in Nat \ {0}, operator
  PROVE  Continues(tasks, entries)
<1> DEFINE n == Top.n
           op == OperatorOp(ast[n].op)
           message == Static("this operator is not yet supported")
<1>1. Writing(tasks, entries) /\ n \in Nat /\ Len(code) \in Nat /\ n \in DOMAIN ast
  BY WalkTop
<1>2. /\ Top.do = "operator" /\ Return /\ mainLocation' = mainLocation
      /\ \/ ast[n].op \in operators /\ log' = Append(log, Logged(Len(code), op, n))
         \/ errors' = Report(errors, message) /\ log' = log
  BY DEF operator, Running, Written, emitByte, emit
<1>3. Finishes(Top, n) <=> ast[n].kind = "BINOP"
  BY <1>2 DEF Finishes
<1>5. CASE ast[n].op \in operators /\ log' = Append(log, Logged(Len(code), op, n))
  <2>1. op \in {"ADD", "SUBTRACT", "EQUAL", "LESS", "LESS_EQ", "GREATER", "GREATER_EQ"}
    BY <1>5 DEF OperatorOp, operators
  <2>2. op \in DOMAIN Opcode /\ op \notin {"CONSTANT", "GET_LOCAL", "POP", "RETURN", "CALL", "JUMP"}
    BY <2>1 DEF Opcode
  <2>3. op \in Compiled(n) <=> ast[n].kind = "BINOP"
    BY <2>1, <2>2, CompiledOf
  <2> HIDE DEF op, n
  <2>4. DOMAIN entries = {1} /\ entries[1].op = op /\ entries[1].n = n
    BY <1>1, <1>5, <2>2, OneEntry
  <2> QED BY <1>2, <1>3, <2>2, <2>3, <2>4, FinalWalks DEF n
<1>6. CASE errors' = Report(errors, message) /\ log' = log
  <2>1. message \in Message
    BY DEF Static, Message, Texts, GeneratorTexts
  <2>2. errors' # <<>>
    <3> HIDE DEF message
    <3> QED BY <1>6, <2>1, Reported
  <2>3. entries = <<>>
    BY <1>1, <1>6, NoEntries
  <2>4. \A i \in DOMAIN entries : FALSE
    BY <2>3
  <2>5. /\ Top.do \in {"popUnused", "emitReturn", "endScope", "operator", "patchOut", "patchEntry"}
        /\ Top.do # "emitReturn" /\ Top.do \notin {"patchOut", "patchEntry"}
        /\ Return /\ mainLocation' = mainLocation
    BY <1>2
  <2>6. \A i \in DOMAIN entries : entries[i].n = Top.n /\ entries[i].op \notin {"CALL", "JUMP"}
    BY <2>4
  <2>7. \A i \in DOMAIN entries : entries[i].op \notin Compiled(Top.n)
    BY <2>4
  <2>8. Finishes(Top, Top.n) =>
          errors' # <<>> \/ (DOMAIN entries = {1} /\ entries[1].op \in Compiled(Top.n))
    BY <2>2
  <2>9. ~ Finishes(Top, Top.n) => \A i \in DOMAIN entries : entries[i].op \notin Compiled(Top.n)
    BY <2>7
  <2>10. Top.do \in {"patchOut", "patchEntry"} =>
           /\ entries = <<>>
           /\ code' = patchJump(code, Top.at, IF Top.do = "patchOut" THEN Len(code)
                                                                     ELSE mainLocation)
    BY <2>5
  <2>11. Top.do = "popUnused" => \A i \in DOMAIN entries : entries[i].op = "POP"
    BY <2>4
  <2> QED BY <2>5, <2>6, <2>8, <2>9, <2>10, <2>11, FinalWalks
<1> QED BY <1>2, <1>5, <1>6

LEMMA PatchWalks ==
  ASSUME NEW tasks, NEW entries, Walking(tasks, entries), errors \in Seq(Message),
         patchOut \/ patchEntry
  PROVE  Continues(tasks, entries)
<1>1. Writing(tasks, entries)
  BY WalkTop
<1>2. /\ Top.do \in {"patchOut", "patchEntry"} /\ Return /\ mainLocation' = mainLocation
      /\ log' = log
      /\ code' = patchJump(code, Top.at, IF Top.do = "patchOut" THEN Len(code)
                                                                ELSE mainLocation)
  BY DEF patchOut, patchEntry, Running
<1>3. entries = <<>>
  BY <1>1, <1>2, NoEntries
<1>4. ~ Finishes(Top, Top.n)
  BY <1>2 DEF Finishes
<1> QED BY <1>2, <1>3, <1>4, FinalWalks
(* The rest of an if, which calls its branches.                            *)
LEMMA JumpWalks ==
  ASSUME NEW tasks, NEW entries, Walking(tasks, entries), NEW first, NEW t \in Tasks,
         NEW K, NEW op \in DOMAIN Opcode,
         Top.do \in {"elseJump", "outJump"}, t.do \in {"outJump", "patchOut"}, t.n = Top.n,
         KidCalls(first, K), K \cup Ahead(t) = Ahead(Top), K \cap Ahead(t) = {},
         stack' = first \o <<t>> \o Tail(stack),
         log' = Append(log, Logged(Len(code), op, Top.n)), mainLocation' = mainLocation,
         op = IF Top.do = "elseJump" THEN "JUMP_IF_ZERO" ELSE "JUMP"
  PROVE  Continues(tasks, entries)
<1> DEFINE n == Top.n
           own == <<t>>
<1>1. Writing(tasks, entries) /\ n \in Nat /\ n \in DOMAIN ast /\ WellFormed(ast)
  BY WalkTop
<1>2. ast[n].kind = "IF"
  <2>1. Fits(Top, Len(scopes))
    BY WalkTop
  <2> QED BY <2>1 DEF Fits
<1>3. Ahead(Top) \subseteq Kids(n)
  BY <1>1, AheadOf, KidsFromFirst
<1>4. first \in Seq(Tasks) /\ own \in Seq(Tasks) /\ OwnCalls(own, Ahead(t))
  BY RestOne DEF KidCalls, RestTasks
<1>5. first \o own \in Seq(Tasks)
  <2> HIDE DEF own
  <2> QED BY <1>4
<1>6. tasks = first \o own
  BY <1>1, <1>5, TasksAre
<1>7. Ordered(tasks) /\ Shares(tasks, Ahead(Top))
  <2> HIDE DEF own
  <2>1. K \subseteq Kids(Top.n) /\ Ahead(t) \subseteq Kids(Top.n)
    BY <1>3
  <2>2. Ordered(first \o own) /\ Shares(first \o own, K \cup Ahead(t))
    BY <1>4, <2>1, Spread
  <2> QED BY <1>6, <2>2
<1>8. ASSUME NEW k \in DOMAIN tasks, tasks[k].do \in RestTasks
      PROVE  tasks[k].do \in {"outJump", "patchOut"}
  <2> DEFINE a == Len(first)
  <2>1. /\ DOMAIN tasks = 1..(a + 1) /\ a \in Nat /\ DOMAIN first = 1..a
        /\ \A i \in 1..a : tasks[i] = first[i]
        /\ tasks[a + 1] = t
    <3>1. Len(own) = 1 /\ own[1] = t
      OBVIOUS
    <3> HIDE DEF own
    <3>2. /\ DOMAIN tasks = 1..(a + Len(own)) /\ a \in Nat /\ DOMAIN first = 1..a
          /\ \A i \in 1..a : tasks[i] = first[i]
          /\ \A i \in 1..Len(own) : tasks[a + i] = own[i]
      BY ONLY <1>4, <1>6
    <3> QED BY <3>1, <3>2
  <2> HIDE DEF a
  <2>2. k \notin 1..a
    BY <1>8, <2>1, Apart DEF KidCalls
  <2>3. k = a + 1
    BY <2>1, <2>2
  <2> QED BY <2>1, <2>3
<1>9. DOMAIN entries = {1} /\ entries[1].op = op /\ entries[1].n = n
  <2> HIDE DEF n
  <2> QED BY <1>1, OneEntry DEF n
<1>10. /\ Finishes(Top, n) <=> Top.do = "elseJump"
       /\ op \in Compiled(n) <=> Top.do = "elseJump"
  BY <1>2, CompiledOf DEF Finishes
<1>11. /\ \A i \in DOMAIN entries :
            /\ entries[i].n = n /\ entries[i].op # "CALL"
            /\ entries[i].op = "JUMP" => Top.do = "outJump" /\ DOMAIN entries = {1}
       /\ Finishes(Top, n) =>
            errors' # <<>> \/ (DOMAIN entries = {1} /\ entries[1].op \in Compiled(n))
       /\ ~ Finishes(Top, n) => \A i \in DOMAIN entries : entries[i].op \notin Compiled(n)
  BY <1>9, <1>10
<1>12. Top.do \notin GenTasks
  BY DEF GenTasks
<1> QED BY <1>7, <1>8, <1>11, <1>12 DEF Continues

LEMMA PairJoined ==
  ASSUME NEW S, NEW x \in S, NEW y \in S
  PROVE  <<x, y>> = <<x>> \o <<y>>
<1> DEFINE a == <<x>>
           b == <<y>>
           both == <<x, y>>
<1>1. /\ a \in Seq(S) /\ Len(a) = 1 /\ a[1] = x
      /\ b \in Seq(S) /\ Len(b) = 1 /\ b[1] = y
      /\ both \in Seq(S) /\ Len(both) = 2 /\ both[1] = x /\ both[2] = y
  OBVIOUS
<1> HIDE DEF a, b, both
<1>2. a \o b \in Seq(S) /\ Len(a \o b) = 2 /\ (a \o b)[1] = x /\ (a \o b)[2] = y
  <2>1. /\ a \o b \in Seq(S) /\ Len(a \o b) = Len(a) + Len(b)
        /\ \A i \in 1..Len(a) : (a \o b)[i] = a[i]
        /\ \A i \in 1..Len(b) : (a \o b)[Len(a) + i] = b[i]
    <3>1. a \in Seq(S) /\ b \in Seq(S)
      BY <1>1
    <3> QED BY ONLY <3>1
  <2>2. 1 \in 1..1 /\ 1 + 1 = 2
    OBVIOUS
  <2> QED BY <1>1, <2>1, <2>2
<1>3. \A i \in 1..2 : both[i] = (a \o b)[i]
  <2>1. \A i \in 1..2 : i = 1 \/ i = 2
    OBVIOUS
  <2> QED BY <1>1, <1>2, <2>1
<1>4. both = a \o b
  BY <1>1, <1>2, <1>3
<1> QED BY <1>4 DEF a, b, both

LEMMA IfWalks ==
  ASSUME NEW tasks, NEW entries, Walking(tasks, entries), elseJump \/ outJump
  PROVE  Continues(tasks, entries)
<1> DEFINE n == Top.n
           s == Top.s
           at == JumpOffset
<1>1. /\ n \in Nat /\ s \in Nat /\ n \in DOMAIN ast /\ WellFormed(ast)
      /\ at \in Nat /\ Fits(Top, Len(scopes))
  BY WalkTop DEF JumpOffset
<1>2. "JUMP_IF_ZERO" \in DOMAIN Opcode /\ "JUMP" \in DOMAIN Opcode
  BY DEF Opcode
<1>3. Top.do \in {"elseJump", "outJump"}
  BY DEF elseJump, outJump, Running
<1>4. ast[n].kind = "IF"
  BY <1>1, <1>3 DEF Fits
<1>5. Len(ast[n].kids) \in {2, 3}
  BY <1>1, <1>4, KidsCount
<1>6. CASE elseJump
  <2> DEFINE call == Task("genExpression", Kid(n, 2), s)
             t == TaskAt("outJump", n, s, at)
  <2>1. /\ stack' = <<call, t>> \o Tail(stack) /\ Top.do = "elseJump"
        /\ log' = Append(log, Logged(Len(code), "JUMP_IF_ZERO", n))
        /\ mainLocation' = mainLocation
    BY <1>6 DEF elseJump, Running, emitJump, emit, Call
  <2> HIDE DEF n, s, at
  <2>2. /\ Len(ast[n].kids) >= 2 /\ 2 \in 1..Len(ast[n].kids)
    BY <1>5
  <2>3. Kid(n, 2) \in Nat
    BY <1>1, <2>2, KidOfTree, TreeNodes
  <2>4. call \in Tasks /\ call.do \in GenTasks /\ call.n = Kid(n, 2)
    BY <1>1, <2>3, GenTask DEF GenTasks
  <2>5. t \in Tasks /\ t.do = "outJump" /\ t.n = n
    <3>1. "outJump" \in GenTasks \cup RestTasks
      BY DEF RestTasks
    <3> QED BY <1>1, <3>1, GenTask
  <2> HIDE DEF call, t
  <2>6. KidCalls(<<call>>, {Kid(n, 2)})
    BY <2>4, CallOne
  <2>7. Ahead(t) = KidsFrom(n, 3) /\ Ahead(Top) = KidsFrom(n, 2)
    BY <2>1, <2>5, AheadOf DEF n
  <2>8. {Kid(n, 2)} \cup Ahead(t) = Ahead(Top) /\ {Kid(n, 2)} \cap Ahead(t) = {}
    BY <1>1, <2>2, <2>7, KidsFromFirst
  <2>9. stack' = <<call>> \o <<t>> \o Tail(stack)
    <3>1. call \in Tasks /\ t \in Tasks
      BY <2>4, <2>5
    <3>2. <<call, t>> = <<call>> \o <<t>>
      BY <3>1, PairJoined
    <3> QED BY <2>1, <3>2
  <2> QED BY <1>2, <1>3, <2>1, <2>5, <2>6, <2>8, <2>9, JumpWalks DEF n
<1>7. CASE outJump
  <2> DEFINE calls == ForEach("genExpression", FalseBranch(n), s)
             t == TaskAt("patchOut", n, 0, at)
  <2>1. /\ stack' = calls \o <<t>> \o Tail(stack) /\ Top.do = "outJump"
        /\ log' = Append(log, Logged(Len(code), "JUMP", n))
        /\ mainLocation' = mainLocation
    BY <1>7 DEF outJump, Running, Call
  <2> HIDE DEF n, s, at
  <2>2. t \in Tasks /\ t.do = "patchOut" /\ t.n = n
    BY <1>1, GenTask DEF RestTasks
  <2>3. Ahead(t) = {} /\ Ahead(Top) = KidsFrom(n, 3)
    BY <2>1, <2>2, AheadOf DEF n, GenTasks
  <2>4. KidCalls(calls, KidsFrom(n, 3))
    <3>1. ast[n].kids \in Seq(DOMAIN ast)
      BY <1>1, TreeNodes
    <3>2. CASE Len(ast[n].kids) = 2
      <4>1. FalseBranch(n) = <<>>
        BY <3>1, <3>2 DEF FalseBranch
      <4>2. calls = <<>>
        BY <4>1 DEF ForEach
      <4>3. KidsFrom(n, 3) = {}
        BY <1>1, <3>2, KidsFromFirst
      <4> QED BY <4>2, <4>3, NoCalls
    <3>3. CASE Len(ast[n].kids) = 3
      <4> DEFINE call == Task("genExpression", Kid(n, 3), s)
      <4>1. /\ DOMAIN FalseBranch(n) = {1} /\ FalseBranch(n)[1] = Kid(n, 3)
        BY <3>1, <3>3 DEF FalseBranch, Kid
      <4>2. calls = [i \in {1} |-> call]
        BY <4>1 DEF ForEach
      <4>3. calls = <<call>>
        <5> HIDE DEF call, calls
        <5> QED BY <4>2
      <4>4. 3 \in 1..Len(ast[n].kids)
        BY <3>3
      <4>5. Kid(n, 3) \in Nat
        BY <1>1, <4>4, KidOfTree, TreeNodes
      <4>6. call \in Tasks /\ call.do \in GenTasks /\ call.n = Kid(n, 3)
        BY <1>1, <4>5, GenTask DEF GenTasks
      <4>7. KidsFrom(n, 3) = {Kid(n, 3)}
        BY <1>1, <3>3, KidsFromFirst
      <4> HIDE DEF call, calls
      <4> QED BY <4>3, <4>6, <4>7, CallOne
    <3> QED BY <1>5, <3>2, <3>3
  <2> HIDE DEF calls, t
  <2>5. KidsFrom(n, 3) \cup Ahead(t) = Ahead(Top) /\ KidsFrom(n, 3) \cap Ahead(t) = {}
    BY <2>3
  <2> QED BY <1>2, <1>3, <2>1, <2>2, <2>4, <2>5, JumpWalks DEF n
<1> QED BY <1>6, <1>7

(* Every step of the generator is one of the four.                         *)
LEMMA WalkStep ==
  ASSUME StateInv, CodeInv, errors \in Seq(Message), Generate, phase' # "crashed"
  PROVE  \E tasks, entries :
           /\ Walking(tasks, entries)
           /\ \/ Turns(tasks, entries) \/ Begins(tasks, entries)
              \/ Drops(tasks, entries) \/ Continues(tasks, entries)
<1>1. PICK tasks, entries : Writing(tasks, entries)
  BY GenerateWrites DEF Crashes
<1>2. WellFormed(ast) /\ PassOK /\ stack # <<>> /\ CodegenStep
  <2>1. WellFormed(ast)
    BY TreeWellFormed DEF StateInv
  <2>2. PassOK
    BY DEF StateInv, PassOK, PhaseOK, Generate
  <2>3. stack # <<>> /\ CodegenStep
    BY <1>1 DEF Writing, Generate
  <2> QED BY <2>1, <2>2, <2>3
<1>3. Top.n \in DOMAIN ast
  BY <1>2, TopFits DEF PassOK, Fits
<1>4. Walking(tasks, entries)
  BY <1>1, <1>2, <1>3 DEF Walking
<1>5. MaxErrors \in Nat \ {0}
  BY MaxErrorsAssumption
<1> DEFINE Goal == \/ Turns(tasks, entries) \/ Begins(tasks, entries)
                   \/ Drops(tasks, entries) \/ Continues(tasks, entries)
<1> SUFFICES Goal
  BY <1>4
<1>6. \/ genFunc \/ genVar \/ genExprStmt \/ popUnused \/ emitReturn \/ endScope
      \/ genLiteral \/ genIdent \/ genBinop \/ operator \/ genBlock
      \/ genIf \/ elseJump \/ outJump \/ patchOut \/ genExit \/ genDefault \/ patchEntry
  BY <1>2 DEF CodegenStep, genStmt, genExpression
<1>7. CASE genFunc \/ genBlock
  BY <1>4, <1>7, FuncWalks
<1>8. CASE genVar \/ genBinop \/ genIf \/ (genExit /\ ast[Top.n].op # "break")
  BY <1>4, <1>8, BranchWalks
<1>9. CASE genLiteral \/ genIdent
  BY <1>4, <1>9, LeafWalks
<1>10. CASE genDefault \/ (genExit /\ ast[Top.n].op = "break")
  BY <1>2, <1>4, <1>5, <1>10, DropWalks
<1>11. CASE genExprStmt
  BY <1>4, <1>11, TurnWalks
<1>12. CASE popUnused \/ endScope
  BY <1>2, <1>4, <1>12, PopWalks
<1>13. CASE emitReturn
  BY <1>2, <1>4, <1>13, ReturnWalks
<1>14. CASE operator
  BY <1>2, <1>4, <1>5, <1>14, OperatorWalks
<1>15. CASE elseJump \/ outJump
  BY <1>4, <1>15, IfWalks
<1>16. CASE patchOut \/ patchEntry
  BY <1>2, <1>4, <1>16, PatchWalks
<1> HIDE DEF Goal
<1> QED BY <1>6, <1>7, <1>8, <1>9, <1>10, <1>11, <1>12, <1>13, <1>14, <1>15, <1>16
-----------------------------------------------------------------------------
(* The nodes that are still to be begun: those the pending calls have      *)
(* ahead of them and all below these, and the ones below a break.          *)
Frontier(F) ==
  /\ F \subseteq DOMAIN ast
  /\ \A m \in F : Kids(m) \subseteq F
  /\ \A k \in DOMAIN stack : Ahead(stack[k]) \subseteq F
  /\ \A k, l \in DOMAIN stack : k # l => Ahead(stack[k]) \cap Ahead(stack[l]) = {}
  /\ \A k \in DOMAIN stack : \A m \in Ahead(stack[k]) : \A p \in F : m \notin Kids(p)
  /\ \A k \in DOMAIN stack : stack[k].do \notin GenTasks \cup {"popUnused"} => stack[k].n \notin F
  /\ \A k \in DOMAIN stack :
       stack[k].do = "popUnused" /\ stack[k].n \in F =>
         k > 1 /\ stack[k - 1].do = "genExpression" /\ stack[k - 1].n = stack[k].n
  /\ \A i \in DOMAIN log : log[i].n \in DOMAIN ast /\ log[i].n \notin F
  /\ \A m \in F : ast[m].kind = "DECL_FUNC" =>
       \E k \in DOMAIN stack : stack[k].do = "genStmt" /\ stack[k].n = m

(* The frontier after a step: what is begun or left out leaves it.         *)
NextFrontier(F, tasks, entries) ==
  IF Begins(tasks, entries) \/ Drops(tasks, entries) THEN F \ {Top.n} ELSE F

(* The calls and instructions of a step, as far as all four kinds agree.   *)
Advances(F, G, tasks, entries) ==
  /\ \A m \in G : Kids(m) \subseteq G
  /\ G \subseteq F /\ F \ {Top.n} \subseteq G
  /\ \A l \in DOMAIN stack : l # 1 => Ahead(stack[l]) \subseteq G
  /\ \A k \in DOMAIN tasks : Ahead(tasks[k]) \subseteq G
  /\ \A k, l \in DOMAIN tasks : k # l => Ahead(tasks[k]) \cap Ahead(tasks[l]) = {}
  /\ \A k \in DOMAIN tasks : \A l \in DOMAIN stack :
       l # 1 => Ahead(tasks[k]) \cap Ahead(stack[l]) = {}
  /\ \A k \in DOMAIN tasks : \A m \in Ahead(tasks[k]) : \A p \in G : m \notin Kids(p)
  /\ \A k \in DOMAIN tasks :
       /\ tasks[k].do \notin GenTasks \cup {"popUnused"} => tasks[k].n \notin G
       /\ tasks[k].do = "popUnused" =>
            k > 1 /\ tasks[k - 1].do = "genExpression" /\ tasks[k - 1].n = tasks[k].n
  /\ \A i \in DOMAIN entries : entries[i].n = Top.n
  /\ entries # <<>> => Top.n \notin G
  /\ Top.n \in G => Top.do \notin {"genExpression"} /\ ast[Top.n].kind # "DECL_FUNC"

LEMMA FrontierAdvances ==
  ASSUME NEW tasks, NEW entries, Walking(tasks, entries), NEW F, Frontier(F), NEW G,
         Advances(F, G, tasks, entries)
  PROVE  Frontier(G)'
<1>1. Writing(tasks, entries) /\ ast' = ast
  BY DEF Walking, Writing
<1> DEFINE old(l) == l - 1 + Len(tasks)
<1>2. /\ Len(tasks) \in Nat /\ DOMAIN tasks = 1..Len(tasks)
      /\ DOMAIN stack \subseteq Nat
      /\ 1 \in DOMAIN stack /\ stack[1] = Top
      /\ \A l \in DOMAIN stack : l # 1 => old(l) \in DOMAIN stack' /\ stack'[old(l)] = stack[l]
      /\ \A l \in DOMAIN tasks : l \in DOMAIN stack' /\ stack'[l] = tasks[l]
      /\ \A k \in DOMAIN stack' :
           \/ k \in DOMAIN tasks
           \/ \E l \in DOMAIN stack : l # 1 /\ k = old(l)
  <2>1. DOMAIN stack \subseteq Nat
    BY <1>1 DEF Writing
  <2> QED BY <1>1, <2>1, WrittenStack
<1> HIDE DEF old
<1>3. \A t : Ahead(t)' = Ahead(t)
  BY <1>1 DEF Ahead, KidsFrom, Kid
<1>4. \A m : Kids(m)' = Kids(m)
  BY <1>1 DEF Kids
<1>5. ASSUME NEW k \in DOMAIN stack'
      PROVE  \/ k \in DOMAIN tasks /\ stack'[k] = tasks[k]
             \/ \E l \in DOMAIN stack : l # 1 /\ k = old(l) /\ stack'[k] = stack[l]
  BY <1>2
<1>6. ASSUME NEW k \in DOMAIN stack'
      PROVE  Ahead(stack'[k]) \subseteq G /\ \A m \in Ahead(stack'[k]) : \A p \in G : m \notin Kids(p)
  <2>1. CASE k \in DOMAIN tasks /\ stack'[k] = tasks[k]
    BY <2>1 DEF Advances
  <2>2. CASE \E l \in DOMAIN stack : l # 1 /\ k = old(l) /\ stack'[k] = stack[l]
    BY <2>2 DEF Advances, Frontier
  <2> QED BY <1>5, <2>1, <2>2
<1>7. ASSUME NEW k \in DOMAIN stack', NEW l \in DOMAIN stack', k # l
      PROVE  Ahead(stack'[k]) \cap Ahead(stack'[l]) = {}
  <2>1. CASE k \in DOMAIN tasks /\ stack'[k] = tasks[k]
    <3>1. CASE l \in DOMAIN tasks /\ stack'[l] = tasks[l]
      BY <1>7, <2>1, <3>1 DEF Advances
    <3>2. CASE \E h \in DOMAIN stack : h # 1 /\ l = old(h) /\ stack'[l] = stack[h]
      BY <2>1, <3>2 DEF Advances
    <3> QED BY <1>5, <3>1, <3>2
  <2>2. CASE \E h \in DOMAIN stack : h # 1 /\ k = old(h) /\ stack'[k] = stack[h]
    <3>1. CASE l \in DOMAIN tasks /\ stack'[l] = tasks[l]
      BY <2>2, <3>1 DEF Advances
    <3>2. CASE \E h \in DOMAIN stack : h # 1 /\ l = old(h) /\ stack'[l] = stack[h]
      BY <1>7, <2>2, <3>2 DEF Frontier
    <3> QED BY <1>5, <3>1, <3>2
  <2> QED BY <1>5, <2>1, <2>2
<1>8. ASSUME NEW k \in DOMAIN stack'
      PROVE  /\ stack'[k].do \notin GenTasks \cup {"popUnused"} => stack'[k].n \notin G
             /\ stack'[k].do = "popUnused" /\ stack'[k].n \in G =>
                  k > 1 /\ stack'[k - 1].do = "genExpression" /\ stack'[k - 1].n = stack'[k].n
  <2>1. CASE k \in DOMAIN tasks /\ stack'[k] = tasks[k]
    <3>1. stack'[k].do \notin GenTasks \cup {"popUnused"} => stack'[k].n \notin G
      BY <2>1 DEF Advances
    <3>2. ASSUME stack'[k].do = "popUnused"
          PROVE  k > 1 /\ stack'[k - 1].do = "genExpression" /\ stack'[k - 1].n = stack'[k].n
      <4>1. k > 1 /\ tasks[k - 1].do = "genExpression" /\ tasks[k - 1].n = tasks[k].n
        BY <2>1, <3>2 DEF Advances
      <4>2. k - 1 \in DOMAIN tasks
        BY <1>2, <2>1, <4>1
      <4>3. stack'[k - 1] = tasks[k - 1]
        BY <1>2, <4>2
      <4> QED BY <2>1, <4>1, <4>3
    <3> QED BY <3>1, <3>2
  <2>2. ASSUME NEW l \in DOMAIN stack, l # 1, k = old(l), stack'[k] = stack[l]
        PROVE  /\ stack'[k].do \notin GenTasks \cup {"popUnused"} => stack'[k].n \notin G
               /\ stack'[k].do = "popUnused" /\ stack'[k].n \in G =>
                  k > 1 /\ stack'[k - 1].do = "genExpression" /\ stack'[k - 1].n = stack'[k].n
    <3>1. stack'[k].do \notin GenTasks \cup {"popUnused"} => stack'[k].n \notin G
      BY <2>2 DEF Frontier, Advances
    <3>2. ASSUME stack'[k].do = "popUnused", stack'[k].n \in G
          PROVE  k > 1 /\ stack'[k - 1].do = "genExpression" /\ stack'[k - 1].n = stack'[k].n
      <4>1. stack[l].n \in F
        BY <2>2, <3>2 DEF Advances
      <4>2. l > 1 /\ stack[l - 1].do = "genExpression" /\ stack[l - 1].n = stack[l].n
        BY <2>2, <3>2, <4>1 DEF Frontier
      <4>3. l - 1 # 1
        BY <1>2, <2>2, <3>2, <4>2 DEF Advances
      <4>4. l - 1 \in DOMAIN stack
        <5>1. DOMAIN stack = 1..Len(stack) /\ Len(stack) \in Nat
          BY <1>1 DEF Writing
        <5> QED BY <4>2, <5>1
      <4>5. stack'[old(l - 1)] = stack[l - 1]
        BY <1>2, <4>3, <4>4
      <4>6. old(l - 1) = k - 1 /\ k > 1
        BY <1>2, <2>2, <4>2, <4>3 DEF old
      <4> QED BY <2>2, <4>2, <4>5, <4>6
    <3> QED BY <3>1, <3>2
  <2> QED BY <1>5, <2>1, <2>2
<1>9. ASSUME NEW i \in DOMAIN log'
      PROVE  log'[i].n \in DOMAIN ast /\ log'[i].n \notin G
  <2>1. CASE i \in DOMAIN log
    <3>1. log'[i] = log[i]
      BY <1>1, <2>1, WrittenLog
    <3> QED BY <2>1, <3>1 DEF Frontier, Advances
  <2>2. CASE i \notin DOMAIN log
    <3>1. PICK j \in DOMAIN entries : i = Len(log) + j
      BY <1>1, <2>2, WrittenLog
    <3>2. log'[i] = entries[j]
      BY <1>1, <3>1, WrittenLog
    <3>3. entries # <<>>
      BY <3>1
    <3>4. Top.n \in DOMAIN ast
      BY WalkTop
    <3> QED BY <3>2, <3>3, <3>4 DEF Advances
  <2> QED BY <2>1, <2>2
<1>10. ASSUME NEW m \in G, ast[m].kind = "DECL_FUNC"
       PROVE  \E k \in DOMAIN stack' : stack'[k].do = "genStmt" /\ stack'[k].n = m
  <2>1. PICK l \in DOMAIN stack : stack[l].do = "genStmt" /\ stack[l].n = m
    BY <1>10 DEF Frontier, Advances
  <2>2. l # 1
    BY <1>2, <1>10, <2>1 DEF Advances
  <2> QED BY <1>2, <2>1, <2>2
<1>11. G \subseteq DOMAIN ast /\ \A m \in G : Kids(m) \subseteq G
  BY DEF Frontier, Advances
<1> QED BY <1>1, <1>3, <1>4, <1>6, <1>7, <1>8, <1>9, <1>10, <1>11 DEF Frontier
(* The calls of a step that begins a node, or goes on with one.            *)
LEMMA OrderedTasks ==
  ASSUME NEW tasks, Ordered(tasks), NEW k \in DOMAIN tasks
  PROVE  /\ tasks[k].do # "popUnused" /\ tasks[k].do # "patchEntry"
         /\ tasks[k].do \notin GenTasks => tasks[k].n = Top.n
         /\ tasks[k].do \in GenTasks => tasks[k].n \in Kids(Top.n) /\ tasks[k].n \in Ahead(tasks[k])
         /\ tasks[k].n = Top.n \/ tasks[k].n \in Kids(Top.n)
<1>1. \/ tasks[k].do \in GenTasks /\ tasks[k].n \in Kids(Top.n)
      \/ tasks[k].do \in RestTasks /\ tasks[k].n = Top.n
  BY DEF Ordered
<1> QED BY <1>1, Apart, AheadOf

LEMMA FrontierStep ==
  ASSUME NEW tasks, NEW entries, Walking(tasks, entries), NEW F, Frontier(F),
         NEW G, G = NextFrontier(F, tasks, entries),
         \/ Turns(tasks, entries) \/ Begins(tasks, entries)
         \/ Drops(tasks, entries) \/ Continues(tasks, entries)
  PROVE  Frontier(G)'
<1> DEFINE n == Top.n
<1>1. WellFormed(ast) /\ n \in DOMAIN ast /\ Writing(tasks, entries)
  BY WalkTop
<1>2. 1 \in DOMAIN stack /\ stack[1] = Top /\ DOMAIN stack \subseteq Nat
  <2>1. DOMAIN stack \subseteq Nat
    BY <1>1 DEF Writing
  <2> QED BY <1>1, <2>1, WrittenStack
<1>3. \A l \in DOMAIN stack : l # 1 => Ahead(Top) \cap Ahead(stack[l]) = {}
  BY <1>2 DEF Frontier
<1>4. \A l \in DOMAIN stack : Ahead(stack[l]) \subseteq F
  BY DEF Frontier
<1>5. CASE Begins(tasks, entries) \/ Drops(tasks, entries)
  <2>1. G = F \ {n} /\ Top.do \in GenTasks /\ Ahead(Top) = {n} /\ n \in F
    <3>1. Top.do \in GenTasks
      BY <1>5 DEF Begins, Drops, GenTasks
    <3>2. Ahead(Top) = {n}
      BY <3>1, AheadOf
    <3> QED BY <1>2, <1>4, <1>5, <3>1, <3>2 DEF NextFrontier
  <2>2. \A m \in G : n \notin Kids(m)
    BY <1>2, <2>1 DEF Frontier
  <2>3. \A m \in G : Kids(m) \subseteq G
    BY <2>1, <2>2 DEF Frontier
  <2>4. \A l \in DOMAIN stack : l # 1 => Ahead(stack[l]) \subseteq G
    BY <1>3, <1>4, <2>1
  <2>5. (Ordered(tasks) /\ Shares(tasks, Kids(n))) \/ tasks = <<>>
    BY <1>5 DEF Begins, Drops
  <2>6. \A k \in DOMAIN tasks : Ahead(tasks[k]) \subseteq Kids(n)
    BY <2>5 DEF Shares
  <2>7. Kids(n) \subseteq G
    <3>1. Kids(n) \subseteq F
      BY <2>1 DEF Frontier
    <3>2. n \notin Kids(n)
      BY <1>1, KidsApart
    <3> QED BY <2>1, <3>1, <3>2
  <2>8. \A k, l \in DOMAIN tasks : k # l => Ahead(tasks[k]) \cap Ahead(tasks[l]) = {}
    BY <2>5 DEF Shares
  <2>9. \A l \in DOMAIN stack : Kids(n) \cap Ahead(stack[l]) = {}
    BY <2>1 DEF Frontier
  <2>10. ASSUME NEW m \in Kids(n), NEW p \in G
         PROVE  m \notin Kids(p)
    <3>1. p \in DOMAIN ast /\ p # n
      BY <2>1 DEF Frontier
    <3> QED BY <1>1, <2>10, <3>1, SingleParent
  <2>11. ASSUME NEW k \in DOMAIN tasks
         PROVE  /\ tasks[k].do \notin GenTasks \cup {"popUnused"} => tasks[k].n \notin G
                /\ tasks[k].do # "popUnused"
    <3>1. Ordered(tasks)
      BY <2>5
    <3> QED BY <2>1, <3>1, OrderedTasks
  <2>12. \A i \in DOMAIN entries : entries[i].n = n
    BY <1>5 DEF Begins, Drops
  <2>13. \A k \in DOMAIN tasks : Ahead(tasks[k]) \subseteq G
    BY <2>6, <2>7
  <2>14. \A k \in DOMAIN tasks : \A l \in DOMAIN stack :
           l # 1 => Ahead(tasks[k]) \cap Ahead(stack[l]) = {}
    BY <2>6, <2>9
  <2>15. \A k \in DOMAIN tasks : \A m \in Ahead(tasks[k]) : \A p \in G : m \notin Kids(p)
    BY <2>6, <2>10
  <2>16. G \subseteq F /\ F \ {n} \subseteq G /\ n \notin G
    BY <2>1
  <2> HIDE DEF n
  <2>17. Advances(F, G, tasks, entries)
    BY <2>3, <2>4, <2>8, <2>11, <2>12, <2>13, <2>14, <2>15, <2>16 DEF Advances, n
  <2> QED BY <2>17, FrontierAdvances
<1>6. CASE Turns(tasks, entries) /\ ~ (Begins(tasks, entries) \/ Drops(tasks, entries))
  <2>1. G = F
    BY <1>6 DEF NextFrontier
  <2>2. /\ Top.do = "genStmt" /\ ast[n].kind # "DECL_FUNC" /\ entries = <<>>
        /\ DOMAIN tasks = {1, 2}
        /\ tasks[1].do = "genExpression" /\ tasks[1].n = n
        /\ tasks[2].do = "popUnused" /\ tasks[2].n = n
    BY <1>6 DEF Turns, ExprKinds
  <2>3. Ahead(Top) = {n} /\ Ahead(tasks[1]) = {n} /\ Ahead(tasks[2]) = {}
    BY <2>2, AheadOf DEF GenTasks
  <2>4. /\ \A k \in DOMAIN tasks : Ahead(tasks[k]) \subseteq Ahead(Top)
        /\ \A k, l \in DOMAIN tasks : k # l => Ahead(tasks[k]) \cap Ahead(tasks[l]) = {}
    BY <2>2, <2>3
  <2>5. \A k \in DOMAIN tasks :
          /\ tasks[k].do \in GenTasks \cup {"popUnused"}
          /\ tasks[k].do = "popUnused" =>
               k > 1 /\ tasks[k - 1].do = "genExpression" /\ tasks[k - 1].n = tasks[k].n
    BY <2>2 DEF GenTasks
  <2>6. /\ \A m \in F : Kids(m) \subseteq F
        /\ \A m \in Ahead(Top) : \A p \in F : m \notin Kids(p)
        /\ Ahead(Top) \subseteq F
    BY <1>2 DEF Frontier
  <2>7. Advances(F, F, tasks, entries)
    BY <1>3, <1>4, <2>2, <2>4, <2>5, <2>6 DEF Advances
  <2> QED BY <2>1, <2>7, FrontierAdvances
<1>7. CASE Continues(tasks, entries) /\ ~ (Begins(tasks, entries) \/ Drops(tasks, entries))
  <2>1. G = F
    BY <1>7 DEF NextFrontier
  <2>2. /\ Top.do \notin GenTasks /\ Ordered(tasks) /\ Shares(tasks, Ahead(Top))
        /\ \A i \in DOMAIN entries : entries[i].n = n
    BY <1>7 DEF Continues
  <2>3. n \notin F
    BY <1>2, <2>2 DEF Frontier
  <2>4. /\ \A m \in F : Kids(m) \subseteq F
        /\ \A m \in Ahead(Top) : \A p \in F : m \notin Kids(p)
        /\ Ahead(Top) \subseteq F
    BY <1>2 DEF Frontier
  <2>5. \A k \in DOMAIN tasks :
          /\ tasks[k].do \notin GenTasks \cup {"popUnused"} => tasks[k].n \notin F
          /\ tasks[k].do # "popUnused"
    BY <2>2, <2>3, OrderedTasks
  <2>6. /\ \A k \in DOMAIN tasks : Ahead(tasks[k]) \subseteq Ahead(Top)
        /\ \A k, l \in DOMAIN tasks : k # l => Ahead(tasks[k]) \cap Ahead(tasks[l]) = {}
    BY <2>2 DEF Shares
  <2>7. Advances(F, F, tasks, entries)
    BY <1>3, <1>4, <2>2, <2>3, <2>4, <2>5, <2>6 DEF Advances
  <2> QED BY <2>1, <2>7, FrontierAdvances
<1> QED BY <1>5, <1>6, <1>7
-----------------------------------------------------------------------------
(* What is compiled.  A node that is begun has written its instruction, or *)
(* one pending call will.                                                  *)
Emitted(i, n) == log[i].n = n /\ log[i].op \in Compiled(n)

Done(n) ==
  \/ ast[n].op = "break"
  \/ /\ ast[n].kind \notin {"UNOP", "CALL", "TUPLE"}
     /\ Compiled(n) # {} =>
          \/ /\ \E i \in DOMAIN log :
                  Emitted(i, n) /\ \A j \in DOMAIN log : Emitted(j, n) => j = i
             /\ \A k \in DOMAIN stack : ~ Finishes(stack[k], n)
          \/ /\ \A i \in DOMAIN log : ~ Emitted(i, n)
             /\ \E k \in DOMAIN stack :
                  Finishes(stack[k], n) /\ \A l \in DOMAIN stack : Finishes(stack[l], n) => l = k

(* As long as nothing is reported, the frontier is ahead of the pending    *)
(* calls or below a break, and the rest is settled.                        *)
Accounted(F) ==
  errors = <<>> =>
    /\ \A m \in F : \/ \E k \in DOMAIN stack : m \in Ahead(stack[k])
                    \/ \E p \in DOMAIN ast : m \in Kids(p) /\ (p \in F \/ ast[p].op = "break")
    /\ \A n \in DOMAIN ast : n \notin F => Done(n)

(* A step's part in the settling of a node.                                *)
LEMMA EmittedNext ==
  ASSUME NEW tasks, NEW entries, Walking(tasks, entries), NEW x
  PROVE  /\ \A i \in DOMAIN log : i \in DOMAIN log' /\ (Emitted(i, x)' <=> Emitted(i, x))
         /\ \A j \in DOMAIN entries :
              Len(log) + j \in DOMAIN log' /\ Len(log) + j \notin DOMAIN log
         /\ \A i \in DOMAIN log' : \A j \in DOMAIN entries : i = Len(log) + j =>
              (Emitted(i, x)' <=> (entries[j].n = x /\ entries[j].op \in Compiled(x)))
         /\ \A i \in DOMAIN log' :
              i \in DOMAIN log \/ \E j \in DOMAIN entries : i = Len(log) + j
         /\ Compiled(x)' = Compiled(x)
<1>1. Writing(tasks, entries) /\ ast' = ast
  BY DEF Walking, Writing
<1>2. Compiled(x)' = Compiled(x)
  BY <1>1 DEF Compiled
<1>3. /\ DOMAIN log = 1..Len(log) /\ Len(log) \in Nat
      /\ DOMAIN entries = 1..Len(entries) /\ Len(entries) \in Nat
      /\ \A i \in DOMAIN log : i \in DOMAIN log' /\ log'[i] = log[i]
      /\ \A i \in DOMAIN entries :
           Len(log) + i \in DOMAIN log' /\ log'[Len(log) + i] = entries[i]
      /\ \A i \in DOMAIN log' :
           i \in DOMAIN log \/ \E j \in DOMAIN entries : i = Len(log) + j
  BY <1>1, WrittenLog
<1>4. \A i : Emitted(i, x)' <=> (log'[i].n = x /\ log'[i].op \in Compiled(x))
  BY <1>2 DEF Emitted
<1>5. \A j \in DOMAIN entries : Len(log) + j \notin DOMAIN log
  BY <1>3
<1>6. \A i : Emitted(i, x) <=> (log[i].n = x /\ log[i].op \in Compiled(x))
  BY DEF Emitted
<1> QED BY <1>2, <1>3, <1>4, <1>5, <1>6

LEMMA FinishesNext ==
  ASSUME NEW tasks, NEW entries, Walking(tasks, entries), NEW x
  PROVE  /\ \A t : Finishes(t, x)' <=> Finishes(t, x)
         /\ \A l \in DOMAIN stack : l # 1 =>
              /\ l - 1 + Len(tasks) \in DOMAIN stack'
              /\ stack'[l - 1 + Len(tasks)] = stack[l]
         /\ \A k \in DOMAIN tasks : k \in DOMAIN stack' /\ stack'[k] = tasks[k]
         /\ \A k \in DOMAIN stack' :
              \/ k \in DOMAIN tasks /\ stack'[k] = tasks[k]
              \/ \E l \in DOMAIN stack : /\ l # 1 /\ k = l - 1 + Len(tasks)
                                         /\ stack'[k] = stack[l]
         /\ 1 \in DOMAIN stack /\ stack[1] = Top /\ DOMAIN stack \subseteq Nat
         /\ Len(tasks) \in Nat /\ DOMAIN tasks = 1..Len(tasks)
<1>1. Writing(tasks, entries) /\ ast' = ast
  BY DEF Walking, Writing
<1>2. \A t : Finishes(t, x)' <=> Finishes(t, x)
  BY <1>1 DEF Finishes
<1>3. DOMAIN stack \subseteq Nat
  BY <1>1 DEF Writing
<1> QED BY <1>1, <1>2, <1>3, WrittenStack
(* A node the step has no part in.                                         *)
LEMMA DoneStays ==
  ASSUME NEW tasks, NEW entries, Walking(tasks, entries), NEW x, Done(x),
         \A j \in DOMAIN entries : ~ (entries[j].n = x /\ entries[j].op \in Compiled(x)),
         \A k \in DOMAIN tasks : ~ Finishes(tasks[k], x), ~ Finishes(Top, x)
  PROVE  Done(x)'
<1>1. ast' = ast
  BY DEF Walking, Writing
<1>2. Compiled(x)' = Compiled(x)
  BY EmittedNext
<1>3. CASE ast[x].op = "break"
  BY <1>1, <1>3 DEF Done
<1>4. CASE Compiled(x) = {} /\ ast[x].op # "break"
  BY <1>1, <1>2, <1>4 DEF Done
<1>5. CASE Compiled(x) # {} /\ ast[x].op # "break"
  <2>1. ast[x].kind \notin {"UNOP", "CALL", "TUPLE"}
    BY <1>5 DEF Done
  <2>2. ASSUME NEW i \in DOMAIN log'
        PROVE  Emitted(i, x)' <=> (i \in DOMAIN log /\ Emitted(i, x))
    <3>1. CASE i \in DOMAIN log
      BY <3>1, EmittedNext
    <3>2. CASE i \notin DOMAIN log
      <4>1. PICK j \in DOMAIN entries : i = Len(log) + j
        BY <3>2, EmittedNext
      <4>2. Emitted(i, x)' <=> (entries[j].n = x /\ entries[j].op \in Compiled(x))
        BY <4>1, EmittedNext
      <4> QED BY <3>2, <4>2
    <3> QED BY <3>1, <3>2
  <2> DEFINE old(l) == l - 1 + Len(tasks)
  <2>3. ASSUME NEW k \in DOMAIN stack', Finishes(stack'[k], x)
        PROVE  \E l \in DOMAIN stack : /\ l # 1 /\ k = old(l) /\ stack'[k] = stack[l]
                                       /\ Finishes(stack[l], x)
    BY <2>3, FinishesNext
  <2>4. ASSUME NEW l \in DOMAIN stack, Finishes(stack[l], x)
        PROVE  old(l) \in DOMAIN stack' /\ Finishes(stack'[old(l)], x)
    <3>1. l # 1
      BY <2>4, FinishesNext
    <3> QED BY <2>4, <3>1, FinishesNext
  <2>5. \A i \in DOMAIN log : i \in DOMAIN log'
    BY EmittedNext
  <2>6. \A t : Finishes(t, x)' <=> Finishes(t, x)
    BY FinishesNext
  <2>7. \A k : (Finishes(stack[k], x))' <=> Finishes(stack'[k], x)
    BY <1>1 DEF Finishes
  <2>8. CASE /\ \E i \in DOMAIN log :
                  Emitted(i, x) /\ \A j \in DOMAIN log : Emitted(j, x) => j = i
             /\ \A k \in DOMAIN stack : ~ Finishes(stack[k], x)
    <3>1. PICK i \in DOMAIN log : Emitted(i, x) /\ \A j \in DOMAIN log : Emitted(j, x) => j = i
      BY <2>8
    <3>2. i \in DOMAIN log' /\ Emitted(i, x)' /\ \A j \in DOMAIN log' : Emitted(j, x)' => j = i
      BY <2>2, <2>5, <3>1
    <3>3. \A k \in DOMAIN stack' : ~ (Finishes(stack[k], x))'
      BY <2>3, <2>7, <2>8
    <3> QED BY <1>1, <1>2, <2>1, <3>2, <3>3 DEF Done
  <2>9. CASE /\ \A i \in DOMAIN log : ~ Emitted(i, x)
             /\ \E k \in DOMAIN stack :
                  /\ Finishes(stack[k], x)
                  /\ \A l \in DOMAIN stack : Finishes(stack[l], x) => l = k
    <3>1. PICK k \in DOMAIN stack :
            Finishes(stack[k], x) /\ \A l \in DOMAIN stack : Finishes(stack[l], x) => l = k
      BY <2>9
    <3>2. \A i \in DOMAIN log' : ~ Emitted(i, x)'
      BY <2>2, <2>9
    <3>3. old(k) \in DOMAIN stack' /\ Finishes(stack'[old(k)], x)
      BY <2>4, <3>1
    <3>4. \A l \in DOMAIN stack' : Finishes(stack'[l], x) => l = old(k)
      BY <2>3, <3>1
    <3>5. \E h \in DOMAIN stack' :
            (Finishes(stack[h], x))' /\ \A l \in DOMAIN stack' : (Finishes(stack[l], x))' => l = h
      <4>1. PICK h \in DOMAIN stack' : h = old(k)
        BY <3>3
      <4> HIDE DEF old
      <4> QED BY <2>7, <3>3, <3>4, <4>1
    <3> QED BY <1>1, <1>2, <2>1, <3>2, <3>5 DEF Done
  <2> QED BY <1>5, <2>8, <2>9 DEF Done
<1> QED BY <1>3, <1>4, <1>5
(* The node a step begins.                                                 *)
LEMMA DoneBegun ==
  ASSUME NEW tasks, NEW entries, Walking(tasks, entries), NEW F, Frontier(F),
         Begins(tasks, entries), NEW x, x = Top.n
  PROVE  Done(x)'
<1>1. ast' = ast
  BY DEF Walking, Writing
<1>2. Compiled(x)' = Compiled(x)
  BY EmittedNext
<1>3. ast[x].kind \notin {"UNOP", "CALL", "TUPLE"}
  BY DEF Begins
<1>4. x \in F
  <2>1. Ahead(Top) = {x}
    BY AheadOf DEF Begins
  <2>2. 1 \in DOMAIN stack /\ stack[1] = Top
    BY FinishesNext
  <2> QED BY <2>1, <2>2 DEF Frontier
<1>5. \A i \in DOMAIN log : ~ Emitted(i, x)
  BY <1>4 DEF Frontier, Emitted
<1>6. \A l \in DOMAIN stack : ~ Finishes(stack[l], x)
  BY <1>4 DEF Frontier, Finishes, GenTasks
<1>7. \A k : (Finishes(stack[k], x))' <=> Finishes(stack'[k], x)
  BY <1>1 DEF Finishes
<1>8. ASSUME NEW k \in DOMAIN stack', Finishes(stack'[k], x)
      PROVE  k \in DOMAIN tasks /\ stack'[k] = tasks[k]
  BY <1>6, <1>8, FinishesNext
<1>9. CASE Compiled(x) = {}
  BY <1>1, <1>2, <1>3, <1>9 DEF Done
<1>10. CASE /\ tasks = <<>> /\ DOMAIN entries = {1} /\ entries[1].n = x
            /\ entries[1].op \in Compiled(x)
  <2>1. PICK i \in DOMAIN log' : i = Len(log) + 1
    BY <1>10, EmittedNext
  <2>2. Emitted(i, x)'
    BY <1>10, <2>1, EmittedNext
  <2>3. ASSUME NEW j \in DOMAIN log', Emitted(j, x)'
        PROVE  j = i
    <3>1. j \notin DOMAIN log
      BY <1>5, <2>3, EmittedNext
    <3> QED BY <1>10, <2>1, <3>1, EmittedNext
  <2>4. \A k \in DOMAIN stack' : ~ (Finishes(stack[k], x))'
    BY <1>7, <1>8, <1>10
  <2> QED BY <1>1, <1>3, <2>2, <2>3, <2>4 DEF Done
<1>11. CASE /\ entries = <<>> /\ Compiled(x) # {}
            /\ \E k \in DOMAIN tasks :
                 Finishes(tasks[k], x) /\ \A l \in DOMAIN tasks : Finishes(tasks[l], x) => l = k
  <2>1. \A i \in DOMAIN log' : ~ Emitted(i, x)'
    BY <1>5, <1>11, EmittedNext
  <2>2. PICK k \in DOMAIN tasks :
          Finishes(tasks[k], x) /\ \A l \in DOMAIN tasks : Finishes(tasks[l], x) => l = k
    BY <1>11
  <2>3. k \in DOMAIN stack' /\ stack'[k] = tasks[k]
    BY FinishesNext
  <2>4. \A l \in DOMAIN stack' : Finishes(stack'[l], x) => l = k
    BY <1>8, <2>2
  <2>5. \E h \in DOMAIN stack' :
          (Finishes(stack[h], x))' /\ \A l \in DOMAIN stack' : (Finishes(stack[l], x))' => l = h
    BY <1>7, <2>2, <2>3, <2>4
  <2> QED BY <1>1, <1>3, <2>1, <2>5 DEF Done
<1> QED BY <1>9, <1>10, <1>11 DEF Begins

(* The node whose instruction a step writes.                               *)
LEMMA DoneFinished ==
  ASSUME NEW tasks, NEW entries, Walking(tasks, entries), errors' = <<>>,
         Continues(tasks, entries), NEW x, x = Top.n, Finishes(Top, x), Done(x)
  PROVE  Done(x)'
<1>1. ast' = ast
  BY DEF Walking, Writing
<1>2. Compiled(x)' = Compiled(x)
  BY EmittedNext
<1>3. /\ DOMAIN entries = {1} /\ entries[1].op \in Compiled(x) /\ entries[1].n = x
  BY DEF Continues
<1>4. CASE ast[x].op = "break"
  BY <1>1, <1>4 DEF Done
<1>5. CASE ast[x].op # "break"
  <2>1. 1 \in DOMAIN stack /\ stack[1] = Top
    BY FinishesNext
  <2>2. /\ ast[x].kind \notin {"UNOP", "CALL", "TUPLE"}
        /\ \A i \in DOMAIN log : ~ Emitted(i, x)
        /\ \A l \in DOMAIN stack : Finishes(stack[l], x) => l = 1
    BY <1>3, <1>5, <2>1 DEF Done
  <2>3. PICK i \in DOMAIN log' : i = Len(log) + 1
    BY <1>3, EmittedNext
  <2>4. Emitted(i, x)'
    BY <1>3, <2>3, EmittedNext
  <2>5. ASSUME NEW j \in DOMAIN log', Emitted(j, x)'
        PROVE  j = i
    <3>1. j \notin DOMAIN log
      BY <2>2, <2>5, EmittedNext
    <3> QED BY <1>3, <2>3, <3>1, EmittedNext
  <2>6. ASSUME NEW k \in DOMAIN tasks
        PROVE  ~ Finishes(tasks[k], x)
    <3>1. tasks[k].do \in GenTasks \/ tasks[k].do \in {"outJump", "patchOut"}
      BY DEF Continues, Ordered
    <3> QED BY <3>1 DEF Finishes, GenTasks
  <2>7. \A k \in DOMAIN stack' : ~ Finishes(stack'[k], x)
    BY <2>2, <2>6, FinishesNext
  <2>8. \A k \in DOMAIN stack' : ~ (Finishes(stack[k], x))'
    BY <1>1, <2>7 DEF Finishes
  <2> QED BY <1>1, <2>2, <2>4, <2>5, <2>8 DEF Done
<1> QED BY <1>4, <1>5

LEMMA AccountedStep ==
  ASSUME NEW tasks, NEW entries, Walking(tasks, entries), NEW F, Frontier(F), Accounted(F),
         errors # <<>> => errors' # <<>>,
         NEW G, G = NextFrontier(F, tasks, entries),
         \/ Turns(tasks, entries) \/ Begins(tasks, entries)
         \/ Drops(tasks, entries) \/ Continues(tasks, entries)
  PROVE  Accounted(G)'
<1> SUFFICES ASSUME errors' = <<>> 
             PROVE  /\ \A m \in G : \/ \E k \in DOMAIN stack' : m \in Ahead(stack'[k])
                                    \/ \E p \in DOMAIN ast :
                                         m \in Kids(p) /\ (p \in G \/ ast[p].op = "break")
                    /\ \A x \in DOMAIN ast : x \notin G => Done(x)'
  <2>1. ast' = ast
    BY DEF Walking, Writing
  <2>2. \A m : Kids(m)' = Kids(m)
    BY <2>1 DEF Kids
  <2>3. \A k : Ahead(stack[k])' = Ahead(stack'[k])
    BY <2>1 DEF Ahead, KidsFrom, Kid
  <2> QED BY <2>1, <2>2, <2>3 DEF Accounted
<1> DEFINE n == Top.n
<1>1. WellFormed(ast) /\ n \in DOMAIN ast
  BY WalkTop
<1>2. /\ \A m \in F : \/ \E k \in DOMAIN stack : m \in Ahead(stack[k])
                      \/ \E p \in DOMAIN ast : m \in Kids(p) /\ (p \in F \/ ast[p].op = "break")
      /\ \A x \in DOMAIN ast : x \notin F => Done(x)
  BY DEF Accounted
<1>3. G \subseteq F /\ F \ {n} \subseteq G /\ (n \in F /\ n \notin G => Begins(tasks, entries) \/ Drops(tasks, entries))
  BY DEF NextFrontier
<1>4. Drops(tasks, entries) => ast[n].op = "break"
  BY DEF Drops
<1>5. ASSUME NEW k \in DOMAIN tasks
      PROVE  k \in DOMAIN stack' /\ stack'[k] = tasks[k]
  BY FinishesNext
<1>6. ASSUME NEW l \in DOMAIN stack, l # 1
      PROVE  \E k \in DOMAIN stack' : stack'[k] = stack[l]
  BY <1>6, FinishesNext
<1>7. ASSUME NEW m \in G
      PROVE  \/ \E k \in DOMAIN stack' : m \in Ahead(stack'[k])
             \/ \E p \in DOMAIN ast : m \in Kids(p) /\ (p \in G \/ ast[p].op = "break")
  <2>1. CASE \E l \in DOMAIN stack : m \in Ahead(stack[l])
    <3>1. PICK l \in DOMAIN stack : m \in Ahead(stack[l])
      BY <2>1
    <3>2. CASE l # 1
      BY <1>6, <3>1, <3>2
    <3>3. CASE l = 1
      <4>1. m \in Ahead(Top)
        BY <3>1, <3>3, FinishesNext
      <4>2. CASE Turns(tasks, entries)
        <5>1. 1 \in DOMAIN tasks /\ m \in Ahead(tasks[1])
          BY <4>1, <4>2, AheadOf DEF Turns, GenTasks
        <5> QED BY <1>5, <5>1
      <4>3. CASE Begins(tasks, entries) \/ Drops(tasks, entries)
        <5>1. m = n
          BY <4>1, <4>3, AheadOf DEF Begins, Drops, GenTasks
        <5>2. n \notin G
          BY <4>3 DEF NextFrontier
        <5> QED BY <5>1, <5>2
      <4>4. CASE Continues(tasks, entries)
        <5>1. \E k \in DOMAIN tasks : m \in Ahead(tasks[k])
          BY <4>1, <4>4 DEF Continues, Shares
        <5> QED BY <1>5, <5>1
      <4> QED BY <4>2, <4>3, <4>4
    <3> QED BY <3>2, <3>3
  <2>2. CASE \E p \in DOMAIN ast : m \in Kids(p) /\ (p \in F \/ ast[p].op = "break")
    <3>1. PICK p \in DOMAIN ast : m \in Kids(p) /\ (p \in F \/ ast[p].op = "break")
      BY <2>2
    <3>2. CASE p \in G \/ ast[p].op = "break"
      BY <3>1, <3>2
    <3>3. CASE p \notin G /\ ast[p].op # "break"
      <4>1. p = n /\ p \in F /\ Begins(tasks, entries)
        BY <1>3, <1>4, <3>1, <3>3
      <4>2. \E k \in DOMAIN tasks : m \in Ahead(tasks[k])
        BY <3>1, <4>1 DEF Begins, Shares
      <4> QED BY <1>5, <4>2
    <3> QED BY <3>2, <3>3
  <2> QED BY <1>2, <1>3, <2>1, <2>2
<1>8. ASSUME NEW x \in DOMAIN ast, x \notin G
      PROVE  Done(x)'
  <2>1. CASE x \in F
    <3>1. x = n /\ (Begins(tasks, entries) \/ Drops(tasks, entries))
      BY <1>3, <1>8, <2>1
    <3>2. CASE Begins(tasks, entries)
      BY <3>1, <3>2, DoneBegun
    <3>3. CASE Drops(tasks, entries)
      <4>1. ast'[x].op = "break"
        BY <1>4, <3>1, <3>3 DEF Walking, Writing
      <4> QED BY <4>1 DEF Done
    <3> QED BY <3>1, <3>2, <3>3
  <2>2. CASE x \notin F
    <3>1. Done(x)
      BY <1>2, <2>2
    <3>2. CASE Turns(tasks, entries)
      <4>1. /\ \A k \in DOMAIN tasks : ~ Finishes(tasks[k], x)
            /\ ~ Finishes(Top, x) /\ \A j \in DOMAIN entries : FALSE
        BY <3>2 DEF Turns, Finishes
      <4> QED BY <3>1, <4>1, DoneStays
    <3>3. CASE Begins(tasks, entries)
      <4>1. n \in F /\ Kids(n) \subseteq F
        <5>1. Ahead(Top) = {n}
          BY <3>3, AheadOf DEF Begins
        <5> QED BY <5>1, FinishesNext DEF Frontier
      <4>2. \A k \in DOMAIN tasks : tasks[k].n = n \/ tasks[k].n \in Kids(n)
        BY <3>3, OrderedTasks DEF Begins
      <4>3. \A k \in DOMAIN tasks : ~ Finishes(tasks[k], x)
        BY <2>2, <4>1, <4>2 DEF Finishes
      <4>4. ~ Finishes(Top, x)
        BY <2>2, <4>1 DEF Finishes
      <4>5. \A j \in DOMAIN entries : entries[j].n # x
        BY <2>2, <3>3, <4>1 DEF Begins
      <4> QED BY <3>1, <4>3, <4>4, <4>5, DoneStays
    <3>4. CASE Drops(tasks, entries)
      <4>1. /\ \A k \in DOMAIN tasks : FALSE
            /\ ~ Finishes(Top, x) /\ \A j \in DOMAIN entries : FALSE
        BY <3>4 DEF Drops, Finishes
      <4> QED BY <3>1, <4>1, DoneStays
    <3>5. CASE Continues(tasks, entries)
      <4>1. CASE Finishes(Top, x)
        <5>1. x = n
          BY <4>1 DEF Finishes
        <5> QED BY <3>1, <3>5, <4>1, <5>1, DoneFinished
      <4>2. CASE ~ Finishes(Top, x)
        <5>1. \A k \in DOMAIN tasks : ~ Finishes(tasks[k], x)
          <6>1. ASSUME NEW k \in DOMAIN tasks
                PROVE  tasks[k].do \in GenTasks \/ tasks[k].do \in {"outJump", "patchOut"}
            BY <3>5 DEF Continues, Ordered
          <6> QED BY <6>1 DEF Finishes, GenTasks
        <5>2. \A j \in DOMAIN entries : ~ (entries[j].n = x /\ entries[j].op \in Compiled(x))
          BY <3>5, <4>2 DEF Continues
        <5> QED BY <3>1, <4>2, <5>1, <5>2, DoneStays
      <4> QED BY <4>1, <4>2
    <3> QED BY <3>2, <3>3, <3>4, <3>5
  <2> QED BY <2>1, <2>2
<1> QED BY <1>7, <1>8
-----------------------------------------------------------------------------
(* Where the pending calls stand.  A later call is outside the construct   *)
(* of an earlier one, but for the rest of the same call and the OP_POP     *)
(* behind it; the rest of a call is around all that comes before it.       *)
InOrder(t, u) ==
  /\ u.n \in Subtree[t.n] =>
       u.n = t.n /\ (t.do # "endScope" => u.do = "popUnused")
  /\ u.do \notin GenTasks =>
       t.n \in Subtree[u.n] /\ (u.do = "patchOut" => t.n # u.n)

Stands ==
  /\ \A k, l \in DOMAIN stack : k < l => InOrder(stack[k], stack[l])
  /\ \A k \in DOMAIN stack : stack[k].do = "patchEntry" => k = Len(stack)

LEMMA SubtreeSame ==
  ASSUME ast' = ast
  PROVE  Subtree' = Subtree
BY DEF Subtree

(* A step hands over nodes of Top's construct.                             *)
LEMMA StepTasks ==
  ASSUME NEW tasks, NEW entries, Walking(tasks, entries),
         \/ Turns(tasks, entries) \/ Begins(tasks, entries)
         \/ Drops(tasks, entries) \/ Continues(tasks, entries)
  PROVE  /\ \A k \in DOMAIN tasks :
              /\ tasks[k].n = Top.n \/ tasks[k].n \in Kids(Top.n)
              /\ tasks[k].do # "patchEntry"
              /\ Top.do \notin {"endScope", "popUnused"}
         /\ \A k, l \in DOMAIN tasks : k < l => InOrder(tasks[k], tasks[l])
<1>1. WellFormed(ast) /\ Top.n \in DOMAIN ast
  BY WalkTop
<1>2. Top.n \in Subtree[Top.n]
  BY <1>1, SubtreeOf
<1>3. CASE Turns(tasks, entries)
  <2>1. \A k, l \in DOMAIN tasks : k < l => k = 1 /\ l = 2
    BY <1>3 DEF Turns
  <2>2. InOrder(tasks[1], tasks[2])
    BY <1>2, <1>3 DEF Turns, InOrder
  <2> QED BY <1>3, <2>1, <2>2 DEF Turns
<1>4. CASE tasks = <<>>
  BY <1>4
<1>5. CASE /\ Ordered(tasks) /\ Top.do \notin {"endScope", "popUnused"}
           /\ \E M : Shares(tasks, M)
  <2>1. ASSUME NEW k \in DOMAIN tasks
        PROVE  /\ tasks[k].n = Top.n \/ tasks[k].n \in Kids(Top.n)
               /\ tasks[k].do # "patchEntry"
    BY <1>5, OrderedTasks
  <2>2. ASSUME NEW k \in DOMAIN tasks, NEW l \in DOMAIN tasks, k < l
        PROVE  InOrder(tasks[k], tasks[l])
    <3>1. CASE tasks[k].do \in RestTasks
      <4>1. tasks[k].do = "endScope" /\ tasks[l].do = "emitReturn"
        BY <1>5, <2>2, <3>1 DEF Ordered
      <4>2. tasks[k].n = Top.n /\ tasks[l].n = Top.n
        BY <1>5, <4>1, OrderedTasks DEF GenTasks
      <4> QED BY <1>2, <4>1, <4>2 DEF InOrder
    <3>2. CASE tasks[k].do \notin RestTasks
      <4>1. tasks[k].do \in GenTasks /\ tasks[k].n \in Kids(Top.n)
        BY <1>5, <3>2 DEF Ordered
      <4>2. tasks[k].n # Top.n /\ tasks[k].n \in Subtree[Top.n] /\ Top.n \notin Subtree[tasks[k].n]
        BY <1>1, <4>1, KidsApart
      <4>3. CASE tasks[l].do \in GenTasks
        <5>1. tasks[l].n \in Kids(Top.n)
          BY <1>5, <4>3, OrderedTasks
        <5>2. tasks[k].n # tasks[l].n
          <6>1. Ahead(tasks[k]) = {tasks[k].n} /\ Ahead(tasks[l]) = {tasks[l].n}
            BY <4>1, <4>3, AheadOf
          <6>2. k # l
            <7>1. tasks \in Seq(Tasks)
              BY <1>5 DEF Ordered
            <7>2. k \in Nat /\ l \in Nat
              BY <7>1
            <7> QED BY <2>2, <7>2
          <6>3. Ahead(tasks[k]) \cap Ahead(tasks[l]) = {}
            BY <1>5, <6>2 DEF Shares
          <6> QED BY <6>1, <6>3
        <5>3. tasks[l].n \notin Subtree[tasks[k].n]
          BY <1>1, <4>1, <5>1, <5>2, KidsApart
        <5> QED BY <4>3, <5>3 DEF InOrder
      <4>4. CASE tasks[l].do \notin GenTasks
        <5>1. tasks[l].n = Top.n
          BY <1>5, <4>4, OrderedTasks
        <5> QED BY <4>2, <5>1 DEF InOrder
      <4> QED BY <4>3, <4>4
    <3> QED BY <3>1, <3>2
  <2> QED BY <1>5, <2>1, <2>2
<1>6. CASE Begins(tasks, entries)
  <2>1. Ordered(tasks) /\ Shares(tasks, Kids(Top.n)) /\ Top.do \in GenTasks
    BY <1>6 DEF Begins
  <2> QED BY <1>5, <2>1 DEF GenTasks
<1>7. CASE Drops(tasks, entries)
  BY <1>4, <1>7 DEF Drops
<1>8. CASE Continues(tasks, entries)
  <2>1. Ordered(tasks) /\ Shares(tasks, Ahead(Top))
        /\ (Top.do \in {"elseJump", "outJump"} \/ tasks = <<>>)
    BY <1>8 DEF Continues
  <2> QED BY <1>4, <1>5, <2>1
<1> QED BY <1>3, <1>6, <1>7, <1>8

LEMMA StandsStep ==
  ASSUME NEW tasks, NEW entries, Walking(tasks, entries), Stands,
         \/ Turns(tasks, entries) \/ Begins(tasks, entries)
         \/ Drops(tasks, entries) \/ Continues(tasks, entries)
  PROVE  Stands'
<1>1. WellFormed(ast) /\ Top.n \in DOMAIN ast
  BY WalkTop
<1>2. ast' = ast /\ Writing(tasks, entries)
  BY DEF Walking, Writing
<1> DEFINE old(l) == l - 1 + Len(tasks)
<1>3. /\ \A l \in DOMAIN stack : l # 1 => old(l) \in DOMAIN stack' /\ stack'[old(l)] = stack[l]
      /\ \A k \in DOMAIN stack' :
           \/ k \in DOMAIN tasks /\ stack'[k] = tasks[k]
           \/ \E l \in DOMAIN stack : l # 1 /\ k = old(l) /\ stack'[k] = stack[l]
      /\ 1 \in DOMAIN stack /\ stack[1] = Top /\ DOMAIN stack \subseteq Nat
      /\ Len(tasks) \in Nat /\ DOMAIN tasks = 1..Len(tasks)
  BY FinishesNext
<1>4. /\ stack \in Seq(Tasks) /\ DOMAIN stack = 1..Len(stack) /\ Len(stack) \in Nat
      /\ Len(stack') = Len(tasks) + Len(stack) - 1
  <2>1. /\ stack \in Seq(Tasks) /\ stack # <<>> /\ tasks \in Seq(Tasks)
        /\ stack' = tasks \o Tail(stack)
    BY <1>2 DEF Writing, Writes
  <2> QED BY ONLY <2>1
<1>5. \A t, u : InOrder(t, u)' <=> InOrder(t, u)
  BY <1>2, SubtreeSame DEF InOrder
<1>6. ASSUME NEW k \in DOMAIN tasks, NEW l \in DOMAIN stack, l # 1
      PROVE  InOrder(tasks[k], stack[l])
  <2>1. InOrder(Top, stack[l])
    BY <1>3, <1>4, <1>6 DEF Stands
  <2>2. /\ tasks[k].n = Top.n \/ tasks[k].n \in Kids(Top.n)
        /\ Top.do \notin {"endScope", "popUnused"}
    BY StepTasks
  <2>3. stack[l].n \in DOMAIN ast
    <3>1. StackOK
      BY DEF Walking, PassOK
    <3> QED BY <3>1 DEF StackOK, Fits
  <2>4. tasks[k].n \in Subtree[Top.n] /\ Subtree[tasks[k].n] \subseteq Subtree[Top.n]
    <3>1. tasks[k].n \in Subtree[Top.n]
      BY <1>1, <2>2, SubtreeOf, KidsApart
    <3> QED BY <1>1, <3>1, SubtreeNested
  <2>5. tasks[k].n # Top.n =>
          tasks[k].n \in Kids(Top.n) /\ Top.n \notin Subtree[tasks[k].n]
    BY <1>1, <2>2, KidsApart
  <2>6. ASSUME stack[l].n \in Subtree[tasks[k].n]
        PROVE  stack[l].n = tasks[k].n /\ stack[l].do = "popUnused"
    <3>1. stack[l].n = Top.n /\ stack[l].do = "popUnused"
      BY <2>1, <2>2, <2>4, <2>6 DEF InOrder
    <3> QED BY <2>5, <2>6, <3>1
  <2>7. ASSUME stack[l].do \notin GenTasks
        PROVE  /\ tasks[k].n \in Subtree[stack[l].n]
               /\ stack[l].do = "patchOut" => tasks[k].n # stack[l].n
    <3>1. /\ Top.n \in Subtree[stack[l].n]
          /\ stack[l].do = "patchOut" => Top.n # stack[l].n
      BY <2>1, <2>7 DEF InOrder
    <3>2. Subtree[Top.n] \subseteq Subtree[stack[l].n]
      BY <1>1, <2>3, <3>1, SubtreeNested
    <3> QED BY <2>4, <2>5, <3>1, <3>2
  <2> QED BY <2>6, <2>7 DEF InOrder
<1>7. ASSUME NEW k \in DOMAIN stack', NEW l \in DOMAIN stack', k < l
      PROVE  InOrder(stack'[k], stack'[l])
  <2>1. CASE k \in DOMAIN tasks /\ stack'[k] = tasks[k]
    <3>1. CASE l \in DOMAIN tasks /\ stack'[l] = tasks[l]
      BY <1>7, <2>1, <3>1, StepTasks
    <3>2. CASE \E h \in DOMAIN stack : h # 1 /\ l = old(h) /\ stack'[l] = stack[h]
      BY <1>6, <2>1, <3>2
    <3> QED BY <1>3, <3>1, <3>2
  <2>2. ASSUME NEW g \in DOMAIN stack, g # 1, k = old(g), stack'[k] = stack[g]
        PROVE  InOrder(stack'[k], stack'[l])
    <3>1. l \notin DOMAIN tasks
      BY <1>3, <1>4, <1>7, <2>2
    <3>2. PICK h \in DOMAIN stack : h # 1 /\ l = old(h) /\ stack'[l] = stack[h]
      BY <1>3, <3>1
    <3>3. g < h
      BY <1>3, <1>4, <1>7, <2>2, <3>2
    <3> QED BY <2>2, <3>2, <3>3 DEF Stands
  <2> QED BY <1>3, <2>1, <2>2
<1>8. ASSUME NEW k \in DOMAIN stack', stack'[k].do = "patchEntry"
      PROVE  k = Len(stack')
  <2>1. k \notin DOMAIN tasks \/ stack'[k] # tasks[k]
    BY <1>8, StepTasks
  <2>2. PICK l \in DOMAIN stack : l # 1 /\ k = old(l) /\ stack'[k] = stack[l]
    BY <1>3, <2>1
  <2>3. l = Len(stack)
    BY <1>8, <2>2 DEF Stands
  <2> QED BY <1>4, <1>3, <2>2, <2>3
<1>9. \A k, l \in DOMAIN stack' : k < l => InOrder(stack[k], stack[l])'
  <2>1. ASSUME NEW k \in DOMAIN stack', NEW l \in DOMAIN stack', k < l
        PROVE  InOrder(stack[k], stack[l])'
    <3>1. InOrder(stack'[k], stack'[l])
      BY <1>7, <2>1
    <3> QED BY <1>2, <3>1, SubtreeSame DEF InOrder
  <2> QED BY <2>1
<1> QED BY <1>8, <1>9 DEF Stands
-----------------------------------------------------------------------------
(* The jumps over the false branches.                                      *)

(* The instructions of a construct but for the OP_POP behind it.           *)
Own(entries, j, n) ==
  entries[j].n \in Subtree[n] /\ (entries[j].op # "POP" \/ entries[j].n # n)

(* While the jump is open, what follows belongs to the false branch.       *)
OpenOut(calls, entries, i) ==
  /\ \E k \in DOMAIN calls : Pairs(calls[k], entries[i])
  /\ \A j \in DOMAIN entries :
       j > i => entries[j].n \in Subtree[entries[i].n] /\ entries[j].n # entries[i].n

(* When it is patched it leads behind the last instruction of the if, and  *)
(* only the OP_POP of the result may still come.                           *)
ClosedOut(bytes, calls, entries, i) ==
  /\ \E j \in DOMAIN entries :
       /\ i <= j /\ Own(entries, j, entries[i].n)
       /\ \A h \in DOMAIN entries : Own(entries, h, entries[i].n) => h <= j
       /\ Landed(bytes, entries[i], entries[j].at + Width(entries[j]))
  /\ \A k \in DOMAIN calls :
       calls[k].n \in Subtree[entries[i].n] =>
         calls[k].do = "popUnused" /\ calls[k].n = entries[i].n

JumpOuts ==
  phase # "crashed" =>
    \A i \in DOMAIN log :
      log[i].op = "JUMP" => OpenOut(stack, log, i) \/ ClosedOut(code, stack, log, i)

LEMMA JumpOutsNext ==
  ASSUME ast' = ast,
         \A i \in DOMAIN log' :
           log'[i].op = "JUMP" => OpenOut(stack', log', i) \/ ClosedOut(code', stack', log', i)
  PROVE  JumpOuts'
<1>1. Subtree' = Subtree
  BY SubtreeSame
<1>2. \A i : OpenOut(stack, log, i)' <=> OpenOut(stack', log', i)
  BY <1>1 DEF OpenOut, Pairs
<1>3. \A i : ClosedOut(code, stack, log, i)' <=> ClosedOut(code', stack', log', i)
  BY <1>1 DEF ClosedOut, Own, Landed, Width
<1> QED BY <1>2, <1>3 DEF JumpOuts

(* Where the entries of the log are when a step has been taken.            *)
LEMMA StepEntries ==
  ASSUME NEW tasks, NEW entries, Walking(tasks, entries),
         \/ Turns(tasks, entries) \/ Begins(tasks, entries)
         \/ Drops(tasks, entries) \/ Continues(tasks, entries)
  PROVE  /\ \A i \in DOMAIN log : i \in DOMAIN log' /\ log'[i] = log[i]
         /\ \A i \in DOMAIN log' : i \notin DOMAIN log =>
              \E j \in DOMAIN entries :
                /\ i = Len(log) + j /\ log'[i] = entries[j] /\ entries[j].n = Top.n
                /\ entries[j].op # "CALL"
                /\ Top.do = "popUnused" => entries[j].op = "POP"
                /\ entries[j].op = "JUMP" =>
                     Continues(tasks, entries) /\ i = Len(log) + 1 /\ Len(log') = Len(log) + 1
         /\ DOMAIN log = 1..Len(log) /\ Len(log) \in Nat
         /\ DOMAIN log' = 1..Len(log') /\ Len(log') \in Nat /\ Len(log) <= Len(log')
<1>1. Writing(tasks, entries)
  BY WalkTop
<1>2. /\ DOMAIN log = 1..Len(log) /\ Len(log) \in Nat /\ Len(log') = Len(log) + Len(entries)
      /\ DOMAIN entries = 1..Len(entries) /\ Len(entries) \in Nat
      /\ \A i \in DOMAIN log : i \in DOMAIN log' /\ log'[i] = log[i]
      /\ \A i \in DOMAIN entries :
           Len(log) + i \in DOMAIN log' /\ log'[Len(log) + i] = entries[i]
      /\ \A i \in DOMAIN log' :
           i \in DOMAIN log \/ \E j \in DOMAIN entries : i = Len(log) + j
  BY <1>1, WrittenLog
<1>3. log' \in Seq(Instruction)
  BY <1>1 DEF Writing, CodeOK
<1>4. DOMAIN log' = 1..Len(log') /\ Len(log') \in Nat /\ Len(log) <= Len(log')
  BY <1>2, <1>3
<1>5. ASSUME NEW j \in DOMAIN entries
      PROVE  /\ entries[j].n = Top.n /\ entries[j].op # "CALL"
             /\ Top.do = "popUnused" => entries[j].op = "POP"
             /\ entries[j].op = "JUMP" =>
                  Continues(tasks, entries) /\ j = 1 /\ Len(entries) = 1
  <2>1. CASE Turns(tasks, entries) \/ Drops(tasks, entries)
    BY <2>1 DEF Turns, Drops
  <2>2. CASE Begins(tasks, entries)
    BY <2>2 DEF Begins, GenTasks
  <2>3. CASE Continues(tasks, entries)
    <3>1. /\ entries[j].n = Top.n /\ entries[j].op # "CALL"
          /\ Top.do = "popUnused" => entries[j].op = "POP"
          /\ entries[j].op = "JUMP" => DOMAIN entries = {1}
      BY <2>3 DEF Continues
    <3>2. DOMAIN entries = {1} => j = 1 /\ Len(entries) = 1
      <4>1. ASSUME DOMAIN entries = {1}
            PROVE  Len(entries) = 1
        <5>1. Len(entries) \in DOMAIN entries
          BY <1>2, <4>1
        <5> QED BY <4>1, <5>1
      <4> QED BY <4>1
    <3> QED BY <2>3, <3>1, <3>2
  <2> QED BY <2>1, <2>2, <2>3
<1>6. ASSUME NEW i \in DOMAIN log', i \notin DOMAIN log
      PROVE  \E j \in DOMAIN entries :
                /\ i = Len(log) + j /\ log'[i] = entries[j] /\ entries[j].n = Top.n
                /\ entries[j].op # "CALL"
                /\ Top.do = "popUnused" => entries[j].op = "POP"
                /\ entries[j].op = "JUMP" =>
                     Continues(tasks, entries) /\ i = Len(log) + 1 /\ Len(log') = Len(log) + 1
  <2>1. PICK j \in DOMAIN entries : i = Len(log) + j
    BY <1>2, <1>6
  <2>2. log'[i] = entries[j]
    BY <1>2, <2>1
  <2>3. entries[j].op = "JUMP" =>
          Continues(tasks, entries) /\ i = Len(log) + 1 /\ Len(log') = Len(log) + 1
    BY <1>2, <1>5, <2>1
  <2>4. /\ entries[j].n = Top.n /\ entries[j].op # "CALL"
        /\ Top.do = "popUnused" => entries[j].op = "POP"
    BY <1>5
  <2> QED BY <2>1, <2>2, <2>3, <2>4
<1> QED BY <1>2, <1>4, <1>6

(* The jump is written.                                                    *)
LEMMA JumpOpens ==
  ASSUME NEW tasks, NEW entries, Walking(tasks, entries),
         \/ Turns(tasks, entries) \/ Begins(tasks, entries)
         \/ Drops(tasks, entries) \/ Continues(tasks, entries),
         NEW i \in DOMAIN log', i \notin DOMAIN log, log'[i].op = "JUMP"
  PROVE  OpenOut(stack', log', i)
<1>1. PICK j \in DOMAIN entries :
        /\ i = Len(log) + j /\ log'[i] = entries[j]
        /\ i = Len(log) + 1 /\ Len(log') = Len(log) + 1
  BY StepEntries
<1>2. \A h \in DOMAIN log' : ~ (h > i)
  BY <1>1, StepEntries
<1>3. \E k \in DOMAIN tasks : Pairs(tasks[k], entries[j])
  <2>1. Writes(tasks, entries) /\ entries[j].op \in Jumps
    BY <1>1 DEF Walking, Writing, Jumps
  <2> QED BY <2>1 DEF Writes
<1>4. \E k \in DOMAIN stack' : Pairs(stack'[k], log'[i])
  BY <1>1, <1>3, FinishesNext
<1> QED BY <1>2, <1>4 DEF OpenOut

(* It stays open while the false branch is compiled.                       *)
LEMMA JumpWaits ==
  ASSUME NEW tasks, NEW entries, Walking(tasks, entries), Stands,
         \/ Turns(tasks, entries) \/ Begins(tasks, entries)
         \/ Drops(tasks, entries) \/ Continues(tasks, entries),
         NEW i \in DOMAIN log, log[i].op = "JUMP", OpenOut(stack, log, i),
         NEW k \in DOMAIN stack, k # 1, Pairs(stack[k], log[i])
  PROVE  OpenOut(stack', log', i)
<1>1. stack[k].do = "patchOut" /\ stack[k].n = log[i].n
  BY DEF Pairs
<1>2. Top.n \in Subtree[log[i].n] /\ Top.n # log[i].n
  <2>1. 1 \in DOMAIN stack /\ stack[1] = Top /\ 1 < k
    <3>1. DOMAIN stack = 1..Len(stack)
      BY DEF Walking, Writing
    <3> QED BY <3>1, FinishesNext
  <2>2. InOrder(Top, stack[k])
    BY <2>1 DEF Stands
  <2> QED BY <1>1, <2>2 DEF InOrder, GenTasks
<1>3. log'[i] = log[i] /\ i \in DOMAIN log'
  BY StepEntries
<1>4. ASSUME NEW j \in DOMAIN log', j > i
      PROVE  log'[j].n \in Subtree[log'[i].n] /\ log'[j].n # log'[i].n
  <2>1. CASE j \in DOMAIN log
    <3>1. log'[j] = log[j]
      BY <2>1, StepEntries
    <3> QED BY <1>3, <1>4, <2>1, <3>1 DEF OpenOut
  <2>2. CASE j \notin DOMAIN log
    <3>1. log'[j].n = Top.n
      BY <2>2, StepEntries
    <3> QED BY <1>2, <1>3, <3>1
  <2> QED BY <2>1, <2>2
<1>5. \E l \in DOMAIN stack' : Pairs(stack'[l], log'[i])
  BY <1>3, FinishesNext
<1> QED BY <1>4, <1>5 DEF OpenOut

(* It is patched.                                                          *)
LEMMA JumpCloses ==
  ASSUME NEW tasks, NEW entries, Walking(tasks, entries), Stands,
         \/ Turns(tasks, entries) \/ Begins(tasks, entries)
         \/ Drops(tasks, entries) \/ Continues(tasks, entries),
         NEW i \in DOMAIN log, log[i].op = "JUMP", OpenOut(stack, log, i),
         Pairs(Top, log[i])
  PROVE  ClosedOut(code', stack', log', i)
<1> DEFINE n == log[i].n
           j == Len(log)
<1>1. Top.do = "patchOut" /\ Top.n = n /\ Top.at = log[i].at + 1
  BY DEF Pairs
<1>2. /\ tasks = <<>> /\ entries = <<>> /\ code' = patchJump(code, Top.at, Len(code))
  BY <1>1 DEF Turns, Begins, Drops, Continues, GenTasks
<1>3. /\ CodeOK /\ LayoutOK /\ WellFormed(ast) /\ n \in DOMAIN ast
      /\ log' = log /\ code \in Seq(Byte) /\ Len(code) \in Nat
  <2>1. CodeOK /\ LayoutOK /\ WellFormed(ast) /\ n \in DOMAIN ast
    BY <1>1, WalkTop DEF Writing
  <2>2. log' = log \o <<>> /\ log \in Seq(Instruction)
    BY <1>2, <2>1 DEF Walking, Writing, Writes, CodeOK
  <2>3. log' = log
    BY ONLY <2>2
  <2> QED BY <2>1, <2>3 DEF CodeOK, Code
<1>4. /\ log[i].at \in Nat /\ log[i].at + 3 <= Len(code)
  <2>1. Width(log[i]) = 3 /\ log[i].at \in Nat /\ log[i].at + Width(log[i]) <= Len(code)
    BY <1>3, LogTyped DEF Jumps
  <2> QED BY <2>1
<1>5. Landed(code', log[i], Len(code))
  BY <1>1, <1>2, <1>3, <1>4, PatchLands
<1>6. /\ DOMAIN log = 1..j /\ j \in Nat /\ j \in DOMAIN log /\ i <= j
  BY StepEntries
<1>7. log[j].at + Width(log[j]) = Len(code)
  BY <1>3, <1>6 DEF LayoutOK, Laid
<1>8. Own(log, j, n)
  <2>1. CASE i = j
    BY <1>3, <2>1, SubtreeOf DEF Own
  <2>2. CASE i # j
    <3>1. j > i
      BY <1>6, <2>2
    <3> QED BY <1>6, <3>1 DEF Own, OpenOut
  <2> QED BY <2>1, <2>2
<1>9. \A h \in DOMAIN log : h <= j
  BY <1>6
<1>10. ASSUME NEW k \in DOMAIN stack', stack'[k].n \in Subtree[n]
       PROVE  stack'[k].do = "popUnused" /\ stack'[k].n = n
  <2>1. PICK l \in DOMAIN stack : l # 1 /\ stack'[k] = stack[l]
    BY <1>2, FinishesNext
  <2>2. 1 \in DOMAIN stack /\ stack[1] = Top /\ 1 < l
    <3>1. DOMAIN stack = 1..Len(stack)
      BY DEF Walking, Writing
    <3> QED BY <2>1, <3>1, FinishesNext
  <2>3. InOrder(Top, stack[l])
    BY <2>2 DEF Stands
  <2> QED BY <1>1, <1>10, <2>1, <2>3 DEF InOrder
<1> HIDE DEF j
<1> QED BY <1>3, <1>5, <1>6, <1>7, <1>8, <1>9, <1>10 DEF ClosedOut

(* A node that a step hands on is still to be begun.                       *)
LEMMA HandedOn ==
  ASSUME NEW tasks, NEW entries, Walking(tasks, entries), NEW F, Frontier(F),
         \/ Turns(tasks, entries) \/ Begins(tasks, entries)
         \/ Drops(tasks, entries) \/ Continues(tasks, entries),
         NEW k \in DOMAIN tasks, tasks[k].n # Top.n
  PROVE  tasks[k].n \in F
<1>1. 1 \in DOMAIN stack /\ stack[1] = Top
  BY FinishesNext
<1>2. Ahead(Top) \subseteq F /\ \A m \in F : Kids(m) \subseteq F
  BY <1>1 DEF Frontier
<1>3. CASE Turns(tasks, entries) \/ Drops(tasks, entries)
  BY <1>3 DEF Turns, Drops
<1>4. CASE Begins(tasks, entries)
  <2>1. Ordered(tasks) /\ Shares(tasks, Kids(Top.n)) /\ Top.do \in GenTasks
    BY <1>4 DEF Begins
  <2>2. tasks[k].n \in Ahead(tasks[k])
    BY <2>1, OrderedTasks
  <2>3. tasks[k].n \in Kids(Top.n)
    BY <2>1, <2>2 DEF Shares
  <2>4. Ahead(Top) = {Top.n}
    BY <2>1, AheadOf
  <2> QED BY <1>2, <2>3, <2>4
<1>5. CASE Continues(tasks, entries)
  <2>1. Ordered(tasks) /\ Shares(tasks, Ahead(Top))
    BY <1>5 DEF Continues
  <2>2. tasks[k].n \in Ahead(tasks[k])
    BY <2>1, OrderedTasks
  <2> QED BY <1>2, <2>1, <2>2 DEF Shares
<1> QED BY <1>3, <1>4, <1>5

(* It stays as it is: nothing of the if is written any more.               *)
LEMMA JumpStays ==
  ASSUME NEW tasks, NEW entries, Walking(tasks, entries), NEW F, Frontier(F),
         \/ Turns(tasks, entries) \/ Begins(tasks, entries)
         \/ Drops(tasks, entries) \/ Continues(tasks, entries),
         NEW i \in DOMAIN log, log[i].op = "JUMP", ClosedOut(code, stack, log, i)
  PROVE  ClosedOut(code', stack', log', i)
<1> DEFINE n == log[i].n
<1>1. /\ WellFormed(ast) /\ Top.n \in DOMAIN ast /\ Writing(tasks, entries)
  BY WalkTop
<1>2. 1 \in DOMAIN stack /\ stack[1] = Top
  BY FinishesNext
<1>3. Top.n \in Subtree[n] => Top.do = "popUnused" /\ Top.n = n
  BY <1>2 DEF ClosedOut
<1>4. PICK j \in DOMAIN log :
        /\ i <= j /\ Own(log, j, n)
        /\ \A h \in DOMAIN log : Own(log, h, n) => h <= j
        /\ Landed(code, log[i], log[j].at + Width(log[j]))
  BY DEF ClosedOut
<1>5. /\ log'[i] = log[i] /\ i \in DOMAIN log' /\ log'[j] = log[j] /\ j \in DOMAIN log'
  BY StepEntries
<1>6. Own(log', j, n)
  BY <1>4, <1>5 DEF Own
<1>7. ASSUME NEW h \in DOMAIN log', Own(log', h, n)
      PROVE  h <= j
  <2>1. CASE h \in DOMAIN log
    <3>1. log'[h] = log[h]
      BY <2>1, StepEntries
    <3> QED BY <1>4, <1>7, <2>1, <3>1 DEF Own
  <2>2. CASE h \notin DOMAIN log
    <3>1. log'[h].n = Top.n /\ (Top.do = "popUnused" => log'[h].op = "POP")
      BY <2>2, StepEntries
    <3> QED BY <1>3, <1>7, <3>1 DEF Own
  <2> QED BY <2>1, <2>2
<1>8. Landed(code', log'[i], log'[j].at + Width(log'[j]))
  <2>1. CodeOK /\ LayoutOK
    BY <1>1 DEF Writing
  <2>2. log[i].at \in Nat /\ Width(log[i]) = 3
    BY <2>1, LogTyped DEF Jumps
  <2>3. ~ Pairs(Top, log[i])
    <3>1. Pairs(Top, log[i]) => Top.do = "patchOut" /\ Top.n = n
      BY DEF Pairs
    <3>2. Pairs(Top, log[i]) => n \in DOMAIN ast /\ n \in Subtree[n]
      BY <1>1, <3>1, SubtreeOf
    <3> QED BY <1>3, <3>1, <3>2
  <2>4. ASSUME NEW o \in Nat, log[i].at < o, o <= log[i].at + Width(log[i])
        PROVE  code'[o] = code[o]
    BY <1>1, <2>3, <2>4, Untouched
  <2>5. code'[log[i].at + 2] = code[log[i].at + 2] /\ code'[log[i].at + 3] = code[log[i].at + 3]
    BY <2>2, <2>4
  <2> QED BY <1>4, <1>5, <2>5 DEF Landed
<1>9. ASSUME NEW k \in DOMAIN stack', stack'[k].n \in Subtree[n]
      PROVE  stack'[k].do = "popUnused" /\ stack'[k].n = n
  <2>1. CASE k \in DOMAIN tasks /\ stack'[k] = tasks[k]
    <3>1. /\ tasks[k].n = Top.n \/ tasks[k].n \in Kids(Top.n)
          /\ Top.do \notin {"endScope", "popUnused"}
      BY <2>1, StepTasks
    <3>2. Top.n \notin Subtree[n]
      BY <1>3, <3>1
    <3>3. tasks[k].n \in Kids(Top.n) /\ tasks[k].n \in Subtree[n]
      BY <1>9, <2>1, <3>1, <3>2
    <3>4. n \in DOMAIN ast /\ n \notin F
      BY DEF Frontier
    <3>5. tasks[k].n = n
      BY <1>1, <3>2, <3>3, <3>4, ParentInSubtree
    <3>6. n \in F
      <4>1. tasks[k].n # Top.n
        BY <1>1, <3>3, KidsApart
      <4>2. k \in DOMAIN tasks
        BY <2>1
      <4>3. tasks[k].n \in F
        BY <4>1, <4>2, HandedOn
      <4> QED BY <3>5, <4>3
    <3> QED BY <3>4, <3>6
  <2>2. CASE \E l \in DOMAIN stack : stack'[k] = stack[l]
    BY <1>9, <2>2 DEF ClosedOut
  <2> QED BY <2>1, <2>2, FinishesNext
<1> QED BY <1>4, <1>5, <1>6, <1>7, <1>8, <1>9 DEF ClosedOut
(* Every step keeps them so.                                               *)
LEMMA JumpOutsStep ==
  ASSUME NEW tasks, NEW entries, Walking(tasks, entries), NEW F, Frontier(F), Stands, JumpOuts,
         phase # "crashed",
         \/ Turns(tasks, entries) \/ Begins(tasks, entries)
         \/ Drops(tasks, entries) \/ Continues(tasks, entries)
  PROVE  JumpOuts'
<1>1. ast' = ast
  BY DEF Walking, Writing
<1>2. ASSUME NEW i \in DOMAIN log', log'[i].op = "JUMP"
      PROVE  OpenOut(stack', log', i) \/ ClosedOut(code', stack', log', i)
  <2>1. CASE i \notin DOMAIN log
    BY <1>2, <2>1, JumpOpens
  <2>2. CASE i \in DOMAIN log
    <3>1. log[i].op = "JUMP"
      <4>1. log'[i] = log[i]
        BY <2>2, StepEntries
      <4> QED BY <1>2, <4>1
    <3>2. CASE ClosedOut(code, stack, log, i)
      BY <2>2, <3>1, <3>2, JumpStays
    <3>3. CASE OpenOut(stack, log, i)
      <4>1. PICK k \in DOMAIN stack : Pairs(stack[k], log[i])
        BY <3>3 DEF OpenOut
      <4>2. CASE k = 1
        <5>1. Pairs(Top, log[i])
          BY <4>1, <4>2, FinishesNext
        <5> QED BY <2>2, <3>1, <3>3, <5>1, JumpCloses
      <4>3. CASE k # 1
        BY <2>2, <3>1, <3>3, <4>1, <4>3, JumpWaits
      <4> QED BY <4>2, <4>3
    <3> QED BY <2>2, <3>1, <3>2, <3>3 DEF JumpOuts
  <2> QED BY <2>1, <2>2
<1> QED BY <1>1, <1>2, JumpOutsNext

-----------------------------------------------------------------------------
(* Where the walk begins: at the declarations of the program.              *)

(* A function is declared at the top only.                                 *)
LEMMA FunctionsAtTop ==
  ASSUME WellFormed(ast), NEW p \in DOMAIN ast, NEW m \in Kids(p)
  PROVE  /\ ast[m].kind # "PROGRAM"
         /\ ast[m].kind = "DECL_FUNC" => ast[p].kind = "PROGRAM"
<1>1. Shape(ast, p) /\ ast[p] \in Node /\ ast[p].kids \in Seq(DOMAIN ast)
  BY TreeNodes DEF WellFormed
<1>2. PICK i \in DOMAIN ast[p].kids : m = ast[p].kids[i]
  BY DEF Kids, Range
<1>3. ast[p].kind \in NodeKinds
  BY <1>1 DEF Node
<1>4. ast[p].kind \notin {"LITERAL", "IDENT", "TUPLE"}
  <2>1. ast[p].kids # <<>>
    BY <1>2
  <2> QED BY <1>1, <2>1 DEF Shape
<1>5. CASE ast[p].kind = "PROGRAM"
  <2>1. ast[m].kind \in {"DECL_VAR", "DECL_FUNC"}
    BY <1>1, <1>2, <1>5 DEF Shape
  <2> QED BY <1>5, <2>1
<1>6. CASE ast[p].kind \in {"DECL_FUNC", "BLOCK"}
  <2>1. ast[m].kind \in ExprKinds \cup {"DECL_VAR"}
    BY <1>1, <1>2, <1>6 DEF Shape
  <2> QED BY <2>1 DEF ExprKinds
<1>7. CASE ast[p].kind \in {"DECL_VAR", "UNOP", "EXIT", "BINOP", "IF", "CALL"}
  <2>1. ast[m].kind \in ExprKinds
    BY <1>1, <1>2, <1>7 DEF Shape
  <2> QED BY <2>1 DEF ExprKinds
<1> QED BY <1>3, <1>4, <1>5, <1>6, <1>7 DEF NodeKinds, ExprKinds

LEMMA FunctionsInProgram ==
  ASSUME WellFormed(ast), NEW m \in DOMAIN ast, ast[m].kind = "DECL_FUNC"
  PROVE  m \in Kids(1) /\ m # 1
<1>1. m # 1
  BY DEF WellFormed
<1>2. PICK p \in DOMAIN ast : m \in Kids(p)
  BY <1>1, HasParent
<1>3. ast[p].kind = "PROGRAM"
  BY <1>2, FunctionsAtTop
<1>4. p = 1
  <2>1. ASSUME p # 1
        PROVE  FALSE
    <3>1. PICK q \in DOMAIN ast : p \in Kids(q)
      BY <2>1, HasParent
    <3> QED BY <1>3, <3>1, FunctionsAtTop
  <2> QED BY <2>1
<1> QED BY <1>1, <1>2, <1>4

(* The calls that generateBytecode makes.                                  *)
LEMMA FirstCalls ==
  ASSUME StateInv, CodeInv, BeginCodegen
  PROVE  /\ WellFormed(ast) /\ ast' = ast /\ errors' = errors /\ errors = <<>>
         /\ phase' = "generate" /\ mainLocation' = 0
         /\ DOMAIN log' = {1} /\ log'[1].n = 1 /\ log'[1].op = "CALL" /\ log'[1].at = 0
         /\ \E first :
              /\ KidCalls(first, Kids(1)) /\ Len(stack') = Len(first) + 1
              /\ \A k \in DOMAIN first : k \in DOMAIN stack' /\ stack'[k] = first[k]
              /\ DOMAIN first = 1..Len(first) /\ Len(first) \in Nat
              /\ \A k \in DOMAIN first : first[k].do = "genStmt"
              /\ \A k \in DOMAIN stack' :
                   k \in DOMAIN first \/ (k = Len(stack') /\ k = Len(first) + 1)
              /\ Len(stack') \in DOMAIN stack'
              /\ stack'[Len(stack')].do = "patchEntry" /\ stack'[Len(stack')].n = 1
              /\ stack'[Len(stack')].at = 1
<1> DEFINE entry == Logged(0, "CALL", 1)
           first == ForEach("genStmt", ast[1].kids, 1)
           last == TaskAt("patchEntry", 1, 0, 1)
<1>1. /\ log' = <<entry>> /\ phase' = "generate" /\ mainLocation' = 0
      /\ stack' = first \o <<last>> /\ ast' = ast /\ errors' = errors /\ errors = <<>>
  BY DEF BeginCodegen, beginCode, diagnostics
<1>2. WellFormed(ast) /\ 1 \in DOMAIN ast
  <2>1. WellFormed(ast)
    BY TreeWellFormed DEF StateInv
  <2> QED BY <2>1, TreeNodes
<1>3. KidCalls(first, Kids(1)) /\ \A k \in DOMAIN first : first[k].do = "genStmt"
  <2>1. KidCalls(first, Kids(1))
    <3>1. "genStmt" \in GenTasks /\ 1 \in Nat
      BY DEF GenTasks
    <3> QED BY <1>2, <3>1, CallEach
  <2>2. \A k \in DOMAIN first : first[k].do = "genStmt"
    BY DEF ForEach, Task
  <2> QED BY <2>1, <2>2
<1>4. last.do = "patchEntry" /\ last.at = 1 /\ last.n = 1 /\ last \in Tasks
  BY DEF TaskAt, Tasks, CodegenTasks
<1>5. entry.n = 1 /\ entry.op = "CALL" /\ entry.at = 0
  BY DEF Logged
<1> HIDE DEF entry, first, last
<1>6. first \in Seq(Tasks)
  BY <1>3 DEF KidCalls
<1>7. /\ Len(first) \in Nat /\ stack'[Len(first) + 1] = last /\ Len(stack') = Len(first) + 1
      /\ DOMAIN stack' = 1..(Len(first) + 1) /\ DOMAIN first = 1..Len(first)
      /\ \A k \in 1..Len(first) : stack'[k] = first[k]
  <2>1. stack' = first \o <<last>> /\ first \in Seq(Tasks) /\ last \in Tasks
    BY <1>1, <1>4, <1>6
  <2> QED BY ONLY <2>1
<1>8. /\ \A k \in DOMAIN first : k \in DOMAIN stack' /\ stack'[k] = first[k]
      /\ \A k \in DOMAIN stack' :
           k \in DOMAIN first \/ (k = Len(stack') /\ k = Len(first) + 1)
      /\ Len(stack') \in DOMAIN stack'
  BY <1>7
<1>9. DOMAIN log' = {1} /\ log'[1] = entry
  BY <1>1
<1> QED BY <1>1, <1>2, <1>3, <1>4, <1>5, <1>7, <1>8, <1>9
LEMMA FirstFrontier ==
  ASSUME StateInv, CodeInv, BeginCodegen, NEW F, F = DOMAIN ast \ {1}
  PROVE  Frontier(F)' /\ Accounted(F)'
<1>1. /\ WellFormed(ast) /\ ast' = ast /\ errors' = <<>>
      /\ DOMAIN log' = {1} /\ log'[1].n = 1
  BY FirstCalls
<1>2. PICK first :
        /\ KidCalls(first, Kids(1)) /\ Len(stack') = Len(first) + 1
        /\ \A k \in DOMAIN first : k \in DOMAIN stack' /\ stack'[k] = first[k]
        /\ DOMAIN first = 1..Len(first) /\ Len(first) \in Nat
        /\ \A k \in DOMAIN first : first[k].do = "genStmt"
        /\ \A k \in DOMAIN stack' :
             k \in DOMAIN first \/ (k = Len(stack') /\ k = Len(first) + 1)
        /\ Len(stack') \in DOMAIN stack'
        /\ stack'[Len(stack')].do = "patchEntry" /\ stack'[Len(stack')].n = 1
        /\ stack'[Len(stack')].at = 1
  BY FirstCalls
<1>3. \A t : Ahead(t)' = Ahead(t)
  BY <1>1 DEF Ahead, KidsFrom, Kid
<1>4. \A m : Kids(m)' = Kids(m)
  BY <1>1 DEF Kids
<1>5. 1 \in DOMAIN ast /\ ast[1].kind = "PROGRAM"
  BY <1>1, TreeNodes DEF WellFormed
<1>6. ASSUME NEW p \in DOMAIN ast
      PROVE  Kids(p) \subseteq F
  <2>1. ASSUME NEW m \in Kids(p)
        PROVE  m \in DOMAIN ast /\ m # 1
    <3>1. m \in DOMAIN ast /\ ast[m].kind # "PROGRAM"
      BY <1>1, KidsInTree, FunctionsAtTop
    <3> QED BY <1>5, <3>1
  <2> QED BY <2>1
<1>7. ASSUME NEW k \in DOMAIN stack'
      PROVE  \/ /\ k \in DOMAIN first /\ stack'[k] = first[k] /\ stack'[k].do = "genStmt"
                /\ stack'[k].n \in Kids(1) /\ Ahead(stack'[k]) = {stack'[k].n}
             \/ /\ k \notin DOMAIN first /\ k = Len(first) + 1
                /\ stack'[k].do = "patchEntry" /\ stack'[k].n = 1 /\ Ahead(stack'[k]) = {}
  <2>1. CASE k \in DOMAIN first
    <3>1. stack'[k] = first[k] /\ first[k].do = "genStmt" /\ first[k].n \in Kids(1)
      BY <1>2, <2>1 DEF KidCalls
    <3>2. Ahead(stack'[k]) = {stack'[k].n}
      BY <3>1, AheadOf DEF GenTasks
    <3> QED BY <2>1, <3>1, <3>2
  <2>2. CASE k \notin DOMAIN first
    <3>1. stack'[k].do = "patchEntry" /\ stack'[k].n = 1 /\ k = Len(first) + 1
      BY <1>2, <2>2
    <3>2. Ahead(stack'[k]) = {}
      BY <3>1, AheadOf DEF GenTasks
    <3> QED BY <2>2, <3>1, <3>2
  <2> QED BY <2>1, <2>2
<1>8. ASSUME NEW m \in Kids(1)
      PROVE  \E k \in DOMAIN stack' :
               stack'[k].do = "genStmt" /\ stack'[k].n = m /\ m \in Ahead(stack'[k])
  <2>1. PICK k \in DOMAIN first : first[k].n = m
    BY <1>2 DEF KidCalls
  <2>2. k \in DOMAIN stack'
    BY <1>2, <2>1
  <2> QED BY <1>2, <1>7, <2>1, <2>2
<1>9. F \subseteq DOMAIN ast /\ 1 \notin F
  OBVIOUS
<1>10. ASSUME NEW k \in DOMAIN stack', NEW l \in DOMAIN stack', k # l
       PROVE  Ahead(stack'[k]) \cap Ahead(stack'[l]) = {}
  <2>1. CASE k \in DOMAIN first /\ l \in DOMAIN first
    <3>1. stack'[k].n # stack'[l].n
      BY <1>2, <1>10, <2>1 DEF KidCalls
    <3> QED BY <1>7, <2>1, <3>1
  <2>2. CASE ~ (k \in DOMAIN first /\ l \in DOMAIN first)
    BY <1>7, <2>2
  <2> QED BY <2>1, <2>2
<1>11. ASSUME NEW k \in DOMAIN stack', NEW m \in Ahead(stack'[k]), NEW p \in F
       PROVE  m \notin Kids(p)
  <2>1. m \in Kids(1)
    BY <1>7
  <2>2. p \in DOMAIN ast /\ p # 1
    BY <1>9
  <2> QED BY <1>1, <1>5, <2>1, <2>2, SingleParent
<1>12. \A k \in DOMAIN stack' :
         /\ Ahead(stack'[k]) \subseteq F
         /\ stack'[k].do \notin GenTasks \cup {"popUnused"} => stack'[k].n \notin F
         /\ stack'[k].do # "popUnused"
  <2>1. Kids(1) \subseteq F
    BY <1>5, <1>6
  <2>2. "genStmt" \in GenTasks
    BY DEF GenTasks
  <2> HIDE DEF GenTasks
  <2> QED BY <1>7, <1>9, <2>1, <2>2
<1>13. ASSUME NEW m \in F, ast[m].kind = "DECL_FUNC"
       PROVE  \E k \in DOMAIN stack' : stack'[k].do = "genStmt" /\ stack'[k].n = m
  <2>1. m \in Kids(1)
    BY <1>1, <1>9, <1>13, FunctionsInProgram
  <2> QED BY <1>8, <2>1
<1>14. Frontier(F)'
  BY <1>1, <1>3, <1>4, <1>5, <1>6, <1>9, <1>10, <1>11, <1>12, <1>13 DEF Frontier
<1>15. ASSUME NEW m \in F
       PROVE  \/ \E k \in DOMAIN stack' : m \in Ahead(stack'[k])
              \/ \E p \in DOMAIN ast : m \in Kids(p) /\ (p \in F \/ ast[p].op = "break")
  <2>1. PICK p \in DOMAIN ast : m \in Kids(p)
    BY <1>1, HasParent
  <2>2. CASE p = 1
    BY <1>8, <2>1, <2>2
  <2>3. CASE p # 1
    BY <2>1, <2>3
  <2> QED BY <2>2, <2>3
<1>16. Done(1)'
  <2>1. Compiled(1)' = Compiled(1) /\ Compiled(1) = {}
    BY <1>1, <1>5, CompiledOf DEF Compiled
  <2> QED BY <1>1, <1>5, <2>1 DEF Done
<1>17. Accounted(F)'
  <2>1. \A x \in DOMAIN ast : x \notin F => x = 1
    OBVIOUS
  <2>2. \A x \in DOMAIN ast : x \notin F => Done(x)'
    BY <1>16, <2>1
  <2>3. \A k : Ahead(stack[k])' = Ahead(stack'[k])
    BY <1>1 DEF Ahead, KidsFrom, Kid
  <2> HIDE DEF Done
  <2> QED BY <1>1, <1>4, <1>15, <2>2, <2>3 DEF Accounted
<1> QED BY <1>14, <1>17

LEMMA FirstStands ==
  ASSUME StateInv, CodeInv, BeginCodegen
  PROVE  Stands' /\ JumpOuts'
<1>1. /\ WellFormed(ast) /\ ast' = ast /\ DOMAIN log' = {1} /\ log'[1].op = "CALL"
  BY FirstCalls
<1>2. PICK first :
        /\ KidCalls(first, Kids(1)) /\ Len(stack') = Len(first) + 1
        /\ \A k \in DOMAIN first : k \in DOMAIN stack' /\ stack'[k] = first[k]
        /\ DOMAIN first = 1..Len(first) /\ Len(first) \in Nat
        /\ \A k \in DOMAIN first : first[k].do = "genStmt"
        /\ \A k \in DOMAIN stack' :
             k \in DOMAIN first \/ (k = Len(stack') /\ k = Len(first) + 1)
        /\ Len(stack') \in DOMAIN stack'
        /\ stack'[Len(stack')].do = "patchEntry" /\ stack'[Len(stack')].n = 1
        /\ stack'[Len(stack')].at = 1
  BY FirstCalls
<1>3. 1 \in DOMAIN ast
  BY <1>1, TreeNodes
<1>4. ASSUME NEW k \in DOMAIN stack', NEW l \in DOMAIN stack', k < l
      PROVE  InOrder(stack'[k], stack'[l])
  <2>1. k \in DOMAIN first
    <3>1. k \notin DOMAIN first => l \notin DOMAIN first
      BY <1>2, <1>4
    <3> QED BY <1>2, <1>4, <3>1
  <2>2. stack'[k] = first[k] /\ first[k].n \in Kids(1)
    BY <1>2, <2>1 DEF KidCalls
  <2>3. /\ first[k].n \in Subtree[1] /\ 1 \notin Subtree[first[k].n] /\ first[k].n # 1
        /\ \A m \in Kids(1) : m # first[k].n => m \notin Subtree[first[k].n]
    BY <1>1, <1>3, <2>2, KidsApart
  <2>4. CASE l \in DOMAIN first
    <3>1. stack'[l] = first[l] /\ first[l].n \in Kids(1) /\ first[l].do = "genStmt"
      BY <1>2, <2>4 DEF KidCalls
    <3>2. first[l].n # first[k].n
      <4>1. k # l
        BY <1>2, <1>4, <2>1, <2>4
      <4> QED BY <1>2, <2>1, <2>4, <4>1 DEF KidCalls
    <3> QED BY <2>2, <2>3, <3>1, <3>2 DEF InOrder, GenTasks
  <2>5. CASE l \notin DOMAIN first
    <3>1. stack'[l].do = "patchEntry" /\ stack'[l].n = 1
      BY <1>2, <2>5
    <3> QED BY <2>2, <2>3, <3>1 DEF InOrder
  <2> QED BY <2>4, <2>5
<1>5. ASSUME NEW k \in DOMAIN stack', stack'[k].do = "patchEntry"
      PROVE  k = Len(stack')
  <2>1. k \notin DOMAIN first
    BY <1>2, <1>5
  <2> QED BY <1>2, <2>1
<1>6. \A t, u : InOrder(t, u)' <=> InOrder(t, u)
  BY <1>1, SubtreeSame DEF InOrder
<1>7. \A k, l \in DOMAIN stack' : k < l => InOrder(stack[k], stack[l])'
  <2>1. ASSUME NEW k \in DOMAIN stack', NEW l \in DOMAIN stack', k < l
        PROVE  InOrder(stack[k], stack[l])'
    <3>1. InOrder(stack'[k], stack'[l])
      BY <1>4, <2>1
    <3> QED BY <1>1, <3>1, SubtreeSame DEF InOrder
  <2> QED BY <2>1
<1>8. JumpOuts'
  BY <1>1 DEF JumpOuts
<1> QED BY <1>5, <1>7, <1>8 DEF Stands

-----------------------------------------------------------------------------
(* Nothing left out.                                                       *)

Complete ==
  \A n \in DOMAIN ast : ~ Unreached(n) /\ ast[n].op # "break" =>
    /\ ast[n].kind \notin {"UNOP", "CALL", "TUPLE"}
    /\ Compiled(n) # {} =>
         Cardinality({i \in DOMAIN log : log[i].n = n /\ log[i].op \in Compiled(n)}) = 1

(* At the end of the walk only what is below a break has not been begun.   *)
LEMMA AllBegun ==
  ASSUME WellFormed(ast), NEW F, Frontier(F), Accounted(F), errors = <<>>, stack = <<>>,
         NEW n \in DOMAIN ast, ~ Unreached(n)
  PROVE  n \notin F
<1> DEFINE S == {m \in DOMAIN ast : m \notin F \/ Unreached(m)}
<1>1. \A m \in F : \E p \in DOMAIN ast : m \in Kids(p) /\ (p \in F \/ ast[p].op = "break")
  <2>1. DOMAIN stack = {}
    OBVIOUS
  <2> QED BY <2>1 DEF Accounted
<1>2. 1 \in S
  <2>1. 1 \in DOMAIN ast /\ ast[1].kind = "PROGRAM"
    BY TreeNodes DEF WellFormed
  <2>2. \A p \in DOMAIN ast : 1 \notin Kids(p)
    BY <2>1, FunctionsAtTop
  <2> QED BY <1>1, <2>1, <2>2
<1>3. ASSUME NEW p \in DOMAIN ast, p \in S, NEW m \in Kids(p)
      PROVE  m \in S
  <2>1. m \in DOMAIN ast /\ m # p /\ m \in Subtree[p] /\ p \notin Subtree[m]
    BY KidsApart
  <2>2. SUFFICES ASSUME m \in F PROVE Unreached(m)
    BY <2>1
  <2>3. p \in F \/ ast[p].op = "break"
    <3>1. PICK q \in DOMAIN ast : m \in Kids(q) /\ (q \in F \/ ast[q].op = "break")
      BY <1>1, <2>2
    <3> QED BY <3>1, SingleParent
  <2>4. CASE ast[p].op = "break"
    BY <2>1, <2>4 DEF Unreached, Under
  <2>5. CASE p \in F
    <3>1. Unreached(p)
      BY <1>3, <2>5
    <3>2. PICK b \in DOMAIN ast : ast[b].op = "break" /\ b # p /\ p \in Subtree[b]
      BY <3>1 DEF Unreached, Under
    <3>3. m \in Subtree[b] /\ b # m
      BY <2>1, <3>2, SubtreeNested
    <3> QED BY <3>2, <3>3 DEF Unreached, Under
  <2> QED BY <2>3, <2>4, <2>5
<1>4. DOMAIN ast \subseteq S
  <2> HIDE DEF S
  <2> QED BY <1>2, <1>3, DownTheTree
<1> QED BY <1>4

LEMMA WalkCompletes ==
  ASSUME WellFormed(ast), NEW F, Frontier(F), Accounted(F), errors = <<>>, stack = <<>>
  PROVE  Complete
<1> SUFFICES ASSUME NEW n \in DOMAIN ast, ~ Unreached(n), ast[n].op # "break"
             PROVE  /\ ast[n].kind \notin {"UNOP", "CALL", "TUPLE"}
                    /\ Compiled(n) # {} =>
                         Cardinality({i \in DOMAIN log :
                                        log[i].n = n /\ log[i].op \in Compiled(n)}) = 1
  BY DEF Complete
<1>1. Done(n)
  BY AllBegun DEF Accounted
<1>2. ast[n].kind \notin {"UNOP", "CALL", "TUPLE"}
  BY <1>1 DEF Done
<1>3. ASSUME Compiled(n) # {}
      PROVE  Cardinality({i \in DOMAIN log : log[i].n = n /\ log[i].op \in Compiled(n)}) = 1
  <2>1. DOMAIN stack = {}
    OBVIOUS
  <2>2. PICK i \in DOMAIN log : Emitted(i, n) /\ \A j \in DOMAIN log : Emitted(j, n) => j = i
    BY <1>1, <1>3, <2>1 DEF Done
  <2>3. {j \in DOMAIN log : log[j].n = n /\ log[j].op \in Compiled(n)} = {i}
    BY <2>2 DEF Emitted
  <2> QED BY <2>3, FS_Singleton
<1> QED BY <1>2, <1>3
-----------------------------------------------------------------------------
(* The entry call.                                                         *)

OneMain == \A m, n \in Mains : m = n

(* Once main is begun, mainLocation is where its first instruction is, or  *)
(* will be.                                                                *)
MainEntered(F) ==
  \A m \in Mains : m \notin F =>
    /\ 3 <= mainLocation
    /\ \A j \in DOMAIN log : log[j].n \in Subtree[m] => mainLocation <= log[j].at
    /\ \/ \E j \in DOMAIN log : log[j].n \in Subtree[m] /\ log[j].at = mainLocation
       \/ /\ mainLocation = Len(code)
          /\ \E k \in DOMAIN stack : stack[k].do = "emitReturn" /\ stack[k].n = m

(* The first instruction is the entry call, and its patch comes last.      *)
EntryWaits ==
  /\ 3 <= Len(code)
  /\ \A i \in DOMAIN log : log[i].op = "CALL" =>
       /\ log[i].at = 0
       /\ \/ \E k \in DOMAIN stack : Pairs(stack[k], log[i])
          \/ stack = <<>> /\ Landed(code, log[i], mainLocation)

(* What is below a node that is still to be begun is so too.               *)
LEMMA FrontierBelow ==
  ASSUME WellFormed(ast), NEW F, Frontier(F), NEW n \in F
  PROVE  Subtree[n] \subseteq F
<1> DEFINE S == {m \in DOMAIN ast : m \in F => Subtree[m] \subseteq F}
<1>1. ASSUME NEW m \in DOMAIN ast, Kids(m) \subseteq S
      PROVE  m \in S
  <2> SUFFICES ASSUME m \in F PROVE Subtree[m] \subseteq F
    BY <1>1
  <2>1. Kids(m) \subseteq F
    BY DEF Frontier
  <2>2. ASSUME NEW x \in Subtree[m], x # m
        PROVE  x \in F
    <3>1. PICK k \in Kids(m) : x \in Subtree[k]
      BY <2>2, SubtreeOf
    <3> QED BY <1>1, <2>1, <3>1
  <2> QED BY <2>2
<1>2. DOMAIN ast \subseteq S
  <2> HIDE DEF S
  <2> QED BY <1>1, UpTheTree
<1> QED BY <1>2 DEF Frontier

(* Only the step that begins main moves mainLocation.                      *)
LEMMA MainMoves ==
  ASSUME NEW tasks, NEW entries, Walking(tasks, entries),
         \/ Turns(tasks, entries) \/ Begins(tasks, entries)
         \/ Drops(tasks, entries) \/ Continues(tasks, entries)
  PROVE  \/ mainLocation' = mainLocation
         \/ /\ Begins(tasks, entries) /\ Top.n \in Mains /\ entries = <<>>
            /\ mainLocation' = Len(code)
            /\ \E k \in DOMAIN tasks : tasks[k].do = "emitReturn" /\ tasks[k].n = Top.n
<1>1. Top.n \in DOMAIN ast
  BY WalkTop
<1>2. CASE Turns(tasks, entries) \/ Drops(tasks, entries) \/ Continues(tasks, entries)
  BY <1>2 DEF Turns, Drops, Continues
<1>3. CASE Begins(tasks, entries) /\ IsMain(Top.n)
  BY <1>1, <1>3 DEF Begins, IsMain, Mains
<1>4. CASE Begins(tasks, entries) /\ ~ IsMain(Top.n)
  BY <1>4 DEF Begins
<1> QED BY <1>2, <1>3, <1>4

(* What a step appends begins where the code ended.                        *)
LEMMA AppendedAt ==
  ASSUME NEW tasks, NEW entries, Walking(tasks, entries)
  PROVE  /\ entries = <<>> => Len(code') = Len(code)
         /\ entries # <<>> => /\ 1 \in DOMAIN entries /\ Len(log) + 1 \in DOMAIN log'
                              /\ log'[Len(log) + 1] = entries[1] /\ entries[1].at = Len(code)
         /\ \A i \in DOMAIN log' : i \notin DOMAIN log => Len(code) <= log'[i].at
<1>1. Writing(tasks, entries)
  BY WalkTop
<1>2. Laid(entries, Len(code), Len(code')) /\ entries \in Seq(Instruction)
  BY <1>1 DEF Writing, Writes
<1>3. entries # <<>> => 1 \in DOMAIN entries
  BY ONLY <1>2
<1>4. /\ \A j \in DOMAIN entries : Len(log) + j \in DOMAIN log' /\ log'[Len(log) + j] = entries[j]
      /\ \A i \in DOMAIN log' : i \in DOMAIN log \/ \E j \in DOMAIN entries : i = Len(log) + j
  BY <1>1, WrittenLog
<1> QED BY <1>2, <1>3, <1>4 DEF Laid

LEMMA MainEnteredStep ==
  ASSUME NEW tasks, NEW entries, Walking(tasks, entries), NEW F, Frontier(F), Stands, OneMain,
         EntryWaits, MainOK, MainEntered(F), NEW G, G = NextFrontier(F, tasks, entries),
         \/ Turns(tasks, entries) \/ Begins(tasks, entries)
         \/ Drops(tasks, entries) \/ Continues(tasks, entries)
  PROVE  MainEntered(G)'
<1>1. /\ WellFormed(ast) /\ Top.n \in DOMAIN ast /\ Writing(tasks, entries) /\ ast' = ast
  BY WalkTop DEF Walking, Writing
<1>2. Subtree' = Subtree /\ Mains' = Mains
  BY <1>1, SubtreeSame DEF Mains
<1>3. mainLocation \in 0..Len(code)
  <2>1. LayoutOK /\ CodeOK
    BY <1>1 DEF Writing
  <2> QED BY <2>1, BoundaryInCode DEF MainOK
<1>4. Len(code) \in Nat /\ Len(code') \in Nat /\ Len(code) <= Len(code') /\ 3 <= Len(code)
  BY <1>1, WrittenLog DEF EntryWaits
<1>5. 1 \in DOMAIN stack /\ stack[1] = Top
  BY FinishesNext
<1>6. ASSUME NEW m \in Mains, m \notin G
      PROVE  /\ 3 <= mainLocation'
             /\ \A j \in DOMAIN log' : log'[j].n \in Subtree[m] => mainLocation' <= log'[j].at
             /\ \/ \E j \in DOMAIN log' : log'[j].n \in Subtree[m] /\ log'[j].at = mainLocation'
                \/ /\ mainLocation' = Len(code')
                   /\ \E k \in DOMAIN stack' : stack'[k].do = "emitReturn" /\ stack'[k].n = m
  <2>1. m \in DOMAIN ast /\ ast[m].kind = "DECL_FUNC"
    BY DEF Mains
  <2>2. CASE /\ Begins(tasks, entries) /\ Top.n \in Mains /\ entries = <<>>
             /\ mainLocation' = Len(code)
             /\ \E k \in DOMAIN tasks : tasks[k].do = "emitReturn" /\ tasks[k].n = Top.n
    <3>1. m = Top.n
      BY <2>2 DEF OneMain
    <3>2. m \in F
      <4>1. Top.do \in GenTasks
        BY <2>2 DEF Begins
      <4>2. Ahead(Top) = {Top.n} /\ Ahead(Top) \subseteq F
        BY <1>5, <4>1, AheadOf DEF Frontier
      <4> QED BY <3>1, <4>2
    <3>3. Subtree[m] \subseteq F
      BY <1>1, <3>2, FrontierBelow
    <3>4. ASSUME NEW j \in DOMAIN log'
          PROVE  log'[j].n \notin Subtree[m]
      <4>1. j \in DOMAIN log
        <5>1. DOMAIN entries = {}
          BY <2>2
        <5> QED BY <5>1, StepEntries
      <4>2. log'[j] = log[j]
        BY <4>1, StepEntries
      <4>3. log[j].n \notin F
        BY <4>1 DEF Frontier
      <4> QED BY <3>3, <4>2, <4>3
    <3>5. Len(code') = Len(code)
      BY <2>2, AppendedAt
    <3>6. \E k \in DOMAIN stack' : stack'[k].do = "emitReturn" /\ stack'[k].n = m
      BY <2>2, <3>1, FinishesNext
    <3> QED BY <1>4, <2>2, <3>4, <3>5, <3>6
  <2>3. CASE mainLocation' = mainLocation /\ m \notin F
    <3>1. /\ 3 <= mainLocation
          /\ \A j \in DOMAIN log : log[j].n \in Subtree[m] => mainLocation <= log[j].at
          /\ \/ \E j \in DOMAIN log : log[j].n \in Subtree[m] /\ log[j].at = mainLocation
             \/ /\ mainLocation = Len(code)
                /\ \E k \in DOMAIN stack : stack[k].do = "emitReturn" /\ stack[k].n = m
      BY <2>3 DEF MainEntered
    <3>2. ASSUME NEW j \in DOMAIN log', log'[j].n \in Subtree[m]
          PROVE  mainLocation' <= log'[j].at
      <4>1. CASE j \in DOMAIN log
        <5>1. log'[j] = log[j]
          BY <4>1, StepEntries
        <5> QED BY <2>3, <3>1, <3>2, <4>1, <5>1
      <4>2. CASE j \notin DOMAIN log
        <5>1. Len(code) <= log'[j].at
          BY <4>2, AppendedAt
        <5>2. log'[j].at \in Nat
          <6>1. log' \in Seq(Instruction)
            BY <1>1 DEF Writing, CodeOK
          <6>2. log'[j] \in Instruction
            BY <6>1
          <6> QED BY <6>2 DEF Instruction
        <5> QED BY <1>3, <1>4, <2>3, <5>1, <5>2
      <4> QED BY <4>1, <4>2
    <3>3. CASE \E j \in DOMAIN log : log[j].n \in Subtree[m] /\ log[j].at = mainLocation
      <4>1. PICK j \in DOMAIN log : log[j].n \in Subtree[m] /\ log[j].at = mainLocation
        BY <3>3
      <4>2. j \in DOMAIN log' /\ log'[j] = log[j]
        BY StepEntries
      <4> QED BY <2>3, <3>1, <3>2, <4>1, <4>2
    <3>4. ASSUME mainLocation = Len(code), NEW k \in DOMAIN stack,
                 stack[k].do = "emitReturn", stack[k].n = m
          PROVE  \/ \E j \in DOMAIN log' : log'[j].n \in Subtree[m] /\ log'[j].at = mainLocation'
                 \/ /\ mainLocation' = Len(code')
                    /\ \E l \in DOMAIN stack' : stack'[l].do = "emitReturn" /\ stack'[l].n = m
      <4>1. CASE entries = <<>>
        <5>1. k # 1
          <6>1. Top.do = "emitReturn" => entries # <<>>
            BY DEF Turns, Begins, Drops, Continues, GenTasks
          <6> QED BY <1>5, <3>4, <4>1, <6>1
        <5>2. \E l \in DOMAIN stack' : stack'[l] = stack[k]
          BY <5>1, FinishesNext
        <5>3. Len(code') = Len(code)
          BY <4>1, AppendedAt
        <5> QED BY <2>3, <3>4, <5>2, <5>3
      <4>2. CASE entries # <<>>
        <5>1. /\ 1 \in DOMAIN entries /\ Len(log) + 1 \in DOMAIN log'
              /\ log'[Len(log) + 1] = entries[1] /\ entries[1].at = Len(code)
          BY <4>2, AppendedAt
        <5>2. entries[1].n = Top.n
          <6>1. Len(log) + 1 \notin DOMAIN log
            BY StepEntries
          <6>2. log'[Len(log) + 1].n = Top.n
            BY <5>1, <6>1, StepEntries
          <6> QED BY <5>1, <6>2
        <5>3. Top.n \in Subtree[m]
          <6>1. CASE k = 1
            BY <1>1, <1>5, <3>4, <6>1, SubtreeOf
          <6>2. CASE k # 1
            <7>1. 1 < k
              <8>1. DOMAIN stack = 1..Len(stack)
                BY <1>1 DEF Writing
              <8> QED BY <6>2, <8>1
            <7>2. InOrder(Top, stack[k])
              BY <1>5, <7>1 DEF Stands
            <7> QED BY <3>4, <7>2 DEF InOrder, GenTasks
          <6> QED BY <6>1, <6>2
        <5> QED BY <2>3, <3>4, <5>1, <5>2, <5>3
      <4> QED BY <4>1, <4>2
    <3> QED BY <2>3, <3>1, <3>2, <3>3, <3>4
  <2>4. CASE mainLocation' = mainLocation /\ m \in F
    <3>1. m = Top.n /\ (Begins(tasks, entries) \/ Drops(tasks, entries))
      BY <1>6, <2>4 DEF NextFrontier
    <3>2. Begins(tasks, entries)
      BY <2>1, <3>1 DEF Drops, ExprKinds
    <3>3. mainLocation' = Len(code) /\ entries = <<>>
          /\ \E k \in DOMAIN tasks : tasks[k].do = "emitReturn" /\ tasks[k].n = Top.n
      <4>1. IsMain(Top.n) /\ ast[Top.n].kind = "DECL_FUNC"
        BY <3>1 DEF Mains, IsMain
      <4> QED BY <3>2, <4>1 DEF Begins
    <3> QED BY <2>2, <3>1, <3>2, <3>3
  <2> QED BY <2>2, <2>3, <2>4, MainMoves
<1> QED BY <1>2, <1>6 DEF MainEntered

LEMMA EntryWaitsStep ==
  ASSUME NEW tasks, NEW entries, Walking(tasks, entries), Stands, EntryWaits, MainOK,
         \/ Turns(tasks, entries) \/ Begins(tasks, entries)
         \/ Drops(tasks, entries) \/ Continues(tasks, entries)
  PROVE  EntryWaits'
<1>1. Writing(tasks, entries) /\ stack # <<>> /\ CodeOK /\ LayoutOK
  BY WalkTop DEF Writing
<1>2. 3 <= Len(code')
  <2>1. Len(code) \in Nat /\ Len(code') \in Nat /\ Len(code) <= Len(code') /\ 3 <= Len(code)
    BY <1>1, WrittenLog DEF EntryWaits
  <2> QED BY <2>1
<1>3. ASSUME NEW i \in DOMAIN log', log'[i].op = "CALL"
      PROVE  /\ log'[i].at = 0
             /\ \/ \E k \in DOMAIN stack' : Pairs(stack'[k], log'[i])
                \/ stack' = <<>> /\ Landed(code', log'[i], mainLocation')
  <2>1. i \in DOMAIN log
    BY <1>3, StepEntries
  <2>2. log'[i] = log[i] /\ log[i].op = "CALL"
    <3>1. log'[i] = log[i]
      BY <2>1, StepEntries
    <3> QED BY <1>3, <3>1
  <2>3. log[i].at = 0 /\ \E k \in DOMAIN stack : Pairs(stack[k], log[i])
    BY <1>1, <2>1, <2>2 DEF EntryWaits
  <2>4. PICK k \in DOMAIN stack : Pairs(stack[k], log[i])
    BY <2>3
  <2>5. stack[k].do = "patchEntry" /\ stack[k].at = log[i].at + 1
    BY <2>2, <2>4 DEF Pairs
  <2>6. CASE k # 1
    <3>1. \E l \in DOMAIN stack' : stack'[l] = stack[k]
      BY <2>6, FinishesNext
    <3> QED BY <2>2, <2>3, <2>4, <3>1
  <2>7. CASE k = 1
    <3>1. Top.do = "patchEntry" /\ Top.at = log[i].at + 1
      BY <2>5, <2>7, FinishesNext
    <3>2. Len(stack) = 1
      BY <2>5, <2>7 DEF Stands
    <3>3. /\ tasks = <<>> /\ mainLocation' = mainLocation
          /\ code' = patchJump(code, Top.at, mainLocation)
      BY <3>1 DEF Turns, Begins, Drops, Continues, GenTasks
    <3>4. stack' = <<>>
      <4>1. stack \in Seq(Tasks) /\ stack # <<>> /\ stack' = <<>> \o Tail(stack)
        BY <1>1, <3>3 DEF Writing, Writes
      <4> QED BY ONLY <3>2, <4>1
    <3>5. /\ code \in Seq(Byte) /\ log[i].at \in Nat /\ log[i].at + 3 <= Len(code)
          /\ mainLocation \in Nat
      <4>1. Width(log[i]) = 3 /\ log[i].at \in Nat /\ log[i].at + Width(log[i]) <= Len(code)
        BY <1>1, <2>1, <2>2, LogTyped DEF Jumps
      <4>2. mainLocation \in 0..Len(code) /\ code \in Seq(Byte)
        BY <1>1, BoundaryInCode DEF MainOK, CodeOK, Code
      <4> QED BY <4>1, <4>2
    <3>6. Landed(code', log[i], mainLocation)
      BY <3>1, <3>3, <3>5, PatchLands
    <3> QED BY <2>2, <2>3, <3>3, <3>4, <3>6
  <2> QED BY <2>6, <2>7
<1>4. \A i : Landed(code, log[i], mainLocation)' <=> Landed(code', log'[i], mainLocation')
  BY DEF Landed
<1>5. \A i, k : Pairs(stack[k], log[i])' <=> Pairs(stack'[k], log'[i])
  BY DEF Pairs
<1> QED BY <1>2, <1>3, <1>4, <1>5 DEF EntryWaits
(* At the start no function is begun, and the patch of the call waits.     *)
LEMMA FirstEntry ==
  ASSUME StateInv, CodeInv, BeginCodegen, NEW F, F = DOMAIN ast \ {1}
  PROVE  MainEntered(F)' /\ EntryWaits'
<1>1. /\ WellFormed(ast) /\ ast' = ast
      /\ DOMAIN log' = {1} /\ log'[1].n = 1 /\ log'[1].op = "CALL" /\ log'[1].at = 0
      /\ \E k \in DOMAIN stack' :
           stack'[k].do = "patchEntry" /\ stack'[k].n = 1 /\ stack'[k].at = 1
  BY FirstCalls
<1>2. MainEntered(F)'
  <2>1. \A m \in Mains : m \in DOMAIN ast /\ m # 1
    BY <1>1, FunctionsInProgram DEF Mains
  <2>2. Mains' = Mains
    BY <1>1 DEF Mains
  <2> QED BY <2>1, <2>2 DEF MainEntered
<1>3. Len(code') = 3
  <2>1. code' = <<Opcode.CALL, Unpatched, Unpatched>>
    BY DEF BeginCodegen, beginCode
  <2> QED BY ONLY <2>1
<1>4. ASSUME NEW i \in DOMAIN log'
      PROVE  log'[i].at = 0 /\ \E k \in DOMAIN stack' : Pairs(stack'[k], log'[i])
  BY <1>1, <1>4 DEF Pairs
<1>5. \A i, k : Pairs(stack[k], log[i])' <=> Pairs(stack'[k], log'[i])
  BY DEF Pairs
<1> QED BY <1>2, <1>3, <1>4, <1>5 DEF EntryWaits

(* What is reported stays reported.                                        *)
LEMMA ErrorsStay ==
  ASSUME errors \in Seq(Message), CodegenStep, errors # <<>>
  PROVE  errors' # <<>>
<1>1. MaxErrors \in Nat \ {0}
  BY MaxErrorsAssumption
<1>2. \/ errors' = errors
      \/ errors' = Report(errors, Static("this operator is not yet supported"))
      \/ errors' = Report(errors, Static("Cannot codegen this construct"))
  <2> USE DEF diagnostics, Expand, Written
  <2>1. CASE genStmt
    BY <2>1 DEF genStmt, genFunc, genVar, genExprStmt, popUnused, emitReturn, endScope
  <2>2. CASE genExpression
    BY <2>2 DEF genExpression, genLiteral, genIdent, genBinop, operator, genBlock, genIf,
                elseJump, outJump, patchOut, genExit, genDefault
  <2>3. CASE patchEntry
    BY <2>3 DEF patchEntry
  <2> QED BY <2>1, <2>2, <2>3 DEF CodegenStep
<1>3. /\ Static("this operator is not yet supported") \in Message
      /\ Static("Cannot codegen this construct") \in Message
  BY DEF Static, Message, Texts, GeneratorTexts
<1> QED BY <1>1, <1>2, <1>3, Reported
-----------------------------------------------------------------------------
(* The inductive invariant of the walk, and of what it leaves behind.      *)
Walked(F) == Frontier(F) /\ Accounted(F) /\ (OneMain => MainEntered(F))

WalkInv ==
  /\ JumpOuts
  /\ phase = "generate" => Stands /\ EntryWaits /\ \E F : Walked(F)
  /\ phase = "print" /\ errors = <<>> => Complete
  /\ Accepted => phase \in {"returned", "disassemble", "done"} /\ Complete
  /\ Generated => EntryWaits /\ (OneMain => MainEntered({}))

LEMMA SameWalk ==
  ASSUME UNCHANGED <<ast, stack, errors, code, log, mainLocation>>, NEW F
  PROVE  /\ Walked(F)' <=> Walked(F)
         /\ OneMain' <=> OneMain
         /\ MainEntered(F)' <=> MainEntered(F)
         /\ EntryWaits' <=> EntryWaits
         /\ Stands' <=> Stands
         /\ Complete' <=> Complete
<1>1. Subtree' = Subtree /\ Mains' = Mains
  BY SubtreeSame DEF Mains
<1>2. /\ \A m : Kids(m)' = Kids(m)
      /\ \A t : Ahead(t)' = Ahead(t)
  BY DEF Kids, Ahead, KidsFrom, Kid
<1>3. \A n : Compiled(n)' = Compiled(n)
  BY DEF Compiled
<1>4. Frontier(F)' <=> Frontier(F)
  BY <1>2 DEF Frontier
<1>5. \A n \in DOMAIN ast : Done(n)' <=> Done(n)
  BY <1>3 DEF Done, Emitted, Finishes
<1>6. Accounted(F)' <=> Accounted(F)
  BY <1>2, <1>5 DEF Accounted
<1>7. OneMain' <=> OneMain
  BY <1>1 DEF OneMain
<1>8. MainEntered(F)' <=> MainEntered(F)
  BY <1>1 DEF MainEntered
<1>9. EntryWaits' <=> EntryWaits
  BY DEF EntryWaits, Pairs, Landed
<1>10. Stands' <=> Stands
  BY <1>1 DEF Stands, InOrder
<1>11. Complete' <=> Complete
  BY <1>1, <1>3 DEF Complete, Unreached, Under
<1> QED BY <1>4, <1>6, <1>7, <1>8, <1>9, <1>10, <1>11 DEF Walked

LEMMA WalkInit == Init => WalkInv
BY DEF Init, WalkInv, JumpOuts, Accepted, Generated

LEMMA BeginWalk ==
  ASSUME StateInv, CodeInv, WalkInv, BeginCodegen
  PROVE  WalkInv'
<1> DEFINE all == DOMAIN ast \ {1}
<1>0. PICK F : F = all
  OBVIOUS
<1>1. Frontier(F)' /\ Accounted(F)' /\ MainEntered(F)' /\ EntryWaits' /\ Stands' /\ JumpOuts'
  <2>1. Frontier(F)' /\ Accounted(F)'
    BY <1>0, FirstFrontier
  <2>2. MainEntered(F)' /\ EntryWaits'
    BY <1>0, FirstEntry
  <2> QED BY <2>1, <2>2, FirstStands
<1> HIDE DEF all
<1>2. ~ Accepted' /\ phase' = "generate"
  BY DEF BeginCodegen, driverVars, WalkInv, Accepted
<1>3. \E G : Walked(G)'
  <2>1. Walked(F)'
    BY <1>1 DEF Walked
  <2> QED BY <2>1
<1> QED BY <1>1, <1>2, <1>3 DEF WalkInv, Generated

LEMMA StepWalk ==
  ASSUME StateInv, CodeInv, MessageInv, WalkInv, Generate
  PROVE  WalkInv'
<1>1. /\ phase = "generate" /\ status' = status /\ ast' = ast /\ ~ Accepted /\ ~ Accepted'
  BY DEF Generate, CodegenStep, driverVars, WalkInv, Accepted
<1>2. CASE phase' = "crashed"
  BY <1>1, <1>2 DEF WalkInv, JumpOuts, Generated
<1>3. CASE phase' # "crashed"
  <2>1. errors \in Seq(Message)
    BY DEF MessageInv, BuffersBounded, Bounded
  <2>2. PICK tasks, entries :
          /\ Walking(tasks, entries)
          /\ \/ Turns(tasks, entries) \/ Begins(tasks, entries)
             \/ Drops(tasks, entries) \/ Continues(tasks, entries)
    BY <1>3, <2>1, WalkStep
  <2>3. phase' = "generate"
    BY <2>2 DEF Walking, Writing, Writes
  <2>4. errors # <<>> => errors' # <<>>
    BY <2>1, ErrorsStay DEF Generate
  <2>5. MainOK
    BY DEF CodeInv
  <2>6. Stands /\ EntryWaits /\ JumpOuts
    BY <1>1 DEF WalkInv
  <2>7. PICK F : Walked(F)
    BY <1>1 DEF WalkInv
  <2> DEFINE G == NextFrontier(F, tasks, entries)
  <2>8. Frontier(F) /\ Accounted(F) /\ (OneMain => MainEntered(F)) /\ OneMain' = OneMain
    BY <1>1, <2>7 DEF Walked, OneMain, Mains
  <2>9. PICK H : H = G
    OBVIOUS
  <2> HIDE DEF G
  <2>10. H = NextFrontier(F, tasks, entries)
    BY <2>9 DEF G
  <2>11. Frontier(H)'
    BY <2>2, <2>8, <2>10, FrontierStep
  <2>12. Accounted(H)'
    BY <2>2, <2>4, <2>8, <2>10, AccountedStep
  <2>13. ASSUME OneMain PROVE MainEntered(H)'
    <3>1. MainEntered(F)
      BY <2>8, <2>13
    <3> QED BY <2>2, <2>5, <2>6, <2>8, <2>10, <2>13, <3>1, MainEnteredStep
  <2>14. Stands'
    BY <2>2, <2>6, StandsStep
  <2>15. EntryWaits'
    BY <2>2, <2>5, <2>6, EntryWaitsStep
  <2>16. JumpOuts'
    BY <1>1, <2>2, <2>6, <2>8, JumpOutsStep
  <2>17. \E I : Walked(I)'
    <3>1. Walked(H)'
      BY <2>8, <2>11, <2>12, <2>13 DEF Walked
    <3> QED BY <3>1
  <2> QED BY <1>1, <2>3, <2>14, <2>15, <2>16, <2>17 DEF WalkInv, Generated
<1> QED BY <1>2, <1>3

(* When nothing is pending any more, no function is left to be begun.      *)
LEMMA EndWalk ==
  ASSUME StateInv, CodeInv, WalkInv, DestroyArena
  PROVE  WalkInv'
<1>1. /\ phase = "generate" /\ stack = <<>> /\ phase' = "print"
      /\ UNCHANGED <<ast, stack, errors, code, log, mainLocation, status, annotations, scopes>>
  BY DEF DestroyArena, diagnostics, codegenVars, chunk
<1>2. PICK F : Walked(F)
  BY <1>1 DEF WalkInv
<1>3. WellFormed(ast) /\ DOMAIN stack = {}
  BY <1>1, TreeWellFormed DEF StateInv
<1>4. errors = <<>> => Complete
  BY <1>1, <1>2, <1>3, WalkCompletes DEF Walked
<1>5. OneMain => MainEntered({})
  <2>1. \A m \in Mains : m \notin F
    BY <1>2, <1>3 DEF Walked, Frontier, Mains
  <2> QED BY <1>2, <2>1 DEF Walked, MainEntered
<1>6. Complete' <=> Complete
  BY <1>1, SameWalk
<1>7. EntryWaits'
  BY <1>1, SameWalk DEF WalkInv
<1>8. (OneMain => MainEntered({}))'
  BY <1>1, <1>5, SameWalk
<1>9. JumpOuts'
  BY <1>1, JumpOutsNext DEF WalkInv, JumpOuts
<1>10. ~ Accepted'
  BY <1>1 DEF WalkInv, Accepted
<1> QED BY <1>1, <1>4, <1>5, <1>6, <1>7, <1>8, <1>9, <1>10 DEF WalkInv

(* The steps that neither walk nor write.                                  *)
LEMMA QuietWalk ==
  ASSUME StateInv, CodeInv, WalkInv,
         \/ Parse \/ RejectSyntax \/ BeginAnalysis \/ Analyse \/ RejectSemantics
         \/ PrintAndReturn \/ buildMain \/ Finished \/ UNCHANGED vars
  PROVE  WalkInv'
<1> USE DEF Reject, buildMain, codegenVars, chunk, driverVars, diagnostics
<1>1. UNCHANGED <<ast, code, log, mainLocation>>
  BY DEF Parse, RejectSyntax, BeginAnalysis, Analyse, AnalysisStep, RejectSemantics,
         PrintAndReturn, ExitWithError, BeginDisassembly, disassembleInstruction,
         EndDisassembly, Finished, vars
<1>2. Complete' = Complete
  BY <1>1 DEF Complete, Unreached, Under, Subtree, Compiled
<1>4. CASE BeginAnalysis \/ Analyse
  <2>1. phase \in {"parsed", "analyse"}
    BY <1>4 DEF BeginAnalysis, Analyse
  <2>2. phase' \in {"analyse", "crashed"} /\ status' = status
    <3>1. CASE BeginAnalysis
      BY <3>1 DEF BeginAnalysis
    <3>2. CASE Analyse
      <4>1. WellFormed(ast) /\ PassOK /\ AnalysisStep /\ phase = "analyse"
        BY <3>2, TreeWellFormed DEF StateInv, PassOK, Analyse
      <4>2. GoesOn
        BY <4>1, AnalysisStepKeeps
      <4> QED BY <3>2, <4>1, <4>2 DEF GoesOn, Analyse
    <3> QED BY <1>4, <3>1, <3>2
  <2>3. log' = <<>>
    BY <1>1, <2>1 DEF CodeInv, UnstartedOK
  <2>4. ~ Accepted'
    BY <2>1, <2>2 DEF WalkInv, Accepted
  <2>5. DOMAIN log' = {}
    BY <2>3
  <2>6. JumpOuts'
    BY <2>5 DEF JumpOuts
  <2> QED BY <2>2, <2>3, <2>4, <2>6 DEF WalkInv, Generated
<1>5. CASE ~ (BeginAnalysis \/ Analyse)
  <2>1. stack' = stack
    BY <1>5 DEF Parse, RejectSyntax, RejectSemantics, PrintAndReturn, ExitWithError,
                BeginDisassembly, disassembleInstruction, EndDisassembly, Finished, vars
  <2>2. /\ phase' = "crashed" <=> phase = "crashed"
        /\ phase' = "generate" => UNCHANGED vars
        /\ phase' = "print" => UNCHANGED vars
    BY <1>5 DEF Parse, RejectSyntax, RejectSemantics, PrintAndReturn, ExitWithError,
                BeginDisassembly, disassembleInstruction, EndDisassembly, Finished, vars
  <2>3. JumpOuts'
    BY <1>1, <2>1, <2>2, JumpOutsNext DEF WalkInv, JumpOuts
  <2>4. (phase = "generate" => Stands /\ EntryWaits /\ \E F : Walked(F))'
    <3>1. SUFFICES ASSUME phase' = "generate"
                   PROVE  (Stands /\ EntryWaits /\ \E F : Walked(F))'
      OBVIOUS
    <3>2. UNCHANGED vars
      BY <2>2, <3>1
    <3>3. /\ phase' = phase /\ ast' = ast /\ stack' = stack /\ errors' = errors
          /\ scopes' = scopes /\ code' = code /\ log' = log /\ mainLocation' = mainLocation
      BY <3>2 DEF vars
    <3>4. Stands /\ EntryWaits /\ \E F : Walked(F)
      BY <3>1, <3>3 DEF WalkInv
    <3>5. PICK F : Walked(F)
      BY <3>4
    <3>6. Stands' /\ EntryWaits' /\ Walked(F)'
      BY <3>3, <3>4, <3>5, SameWalk
    <3> QED BY <3>6
  <2>5. (phase = "print" /\ errors = <<>> => Complete)'
    BY <1>2, <2>2 DEF WalkInv, vars
  <2>6. (Accepted => phase \in {"returned", "disassemble", "done"} /\ Complete)'
    <3>1. CASE PrintAndReturn
      BY <1>2, <3>1 DEF PrintAndReturn, WalkInv, Accepted
    <3>2. CASE ~ PrintAndReturn
      <4>1. Accepted' => Accepted
        BY <1>5, <3>2 DEF Parse, RejectSyntax, RejectSemantics, ExitWithError, BeginDisassembly,
                          disassembleInstruction, EndDisassembly, Finished, vars, Accepted
      <4>2. phase \in {"returned", "disassemble", "done"} /\ Accepted' =>
              phase' \in {"returned", "disassemble", "done"}
        BY <1>5, <3>2 DEF Parse, RejectSyntax, RejectSemantics, ExitWithError, BeginDisassembly,
                          disassembleInstruction, EndDisassembly, Finished, vars, Accepted
      <4> QED BY <1>2, <4>1, <4>2 DEF WalkInv
    <3> QED BY <3>1, <3>2
  <2>7. (Generated => EntryWaits /\ (OneMain => MainEntered({})))'
    <3>1. Generated' => Generated
      <4>1. phase \in {"parse", "parsed", "analyse"} => log = <<>>
        BY DEF CodeInv, UnstartedOK
      <4>2. phase' \in {"print", "returned", "disassemble", "done"} =>
              phase \in {"parse", "parsed", "analyse", "print", "returned", "disassemble", "done"}
        BY <1>5 DEF Parse, RejectSyntax, RejectSemantics, PrintAndReturn, ExitWithError,
                    BeginDisassembly, disassembleInstruction, EndDisassembly, Finished, vars
      <4> QED BY <1>1, <4>1, <4>2 DEF Generated
    <3>2. CASE errors' = errors
      <4>1. /\ EntryWaits' <=> EntryWaits
            /\ (OneMain => MainEntered({}))' <=> (OneMain => MainEntered({}))
        BY <1>1, <2>1, <3>2, SameWalk
      <4> QED BY <3>1, <4>1 DEF WalkInv
    <3>3. CASE errors' # errors
      <4>1. phase' = "parsed"
        BY <1>5, <3>3 DEF Parse, RejectSyntax, RejectSemantics, PrintAndReturn, ExitWithError,
                    BeginDisassembly, disassembleInstruction, EndDisassembly, Finished, vars
      <4> QED BY <4>1 DEF Generated
    <3> QED BY <3>2, <3>3
  <2> QED BY <2>3, <2>4, <2>5, <2>6, <2>7 DEF WalkInv
<1> QED BY <1>4, <1>5

LEMMA WalkingStep == StateInv /\ CodeInv /\ MessageInv /\ WalkInv /\ [Next]_vars => WalkInv'
BY BeginWalk, StepWalk, EndWalk, QuietWalk DEF Next, compile

THEOREM WalkCorrect == Spec => []WalkInv
<1>1. StateInv /\ CodeInv /\ MessageInv /\ WalkInv /\ [Next]_vars => WalkInv'
  BY WalkingStep
<1>2. Spec => []StateInv /\ []CodeInv
  BY PassesFitTogether, CodeCorrect
<1>3. Spec => []MessageInv
  BY MessageInit, MessageStep, PTL DEF Spec
<1> QED BY <1>1, <1>2, <1>3, WalkInit, PTL DEF Spec

(* Exit status 0 means that nothing was left out: what is not below a      *)
(* break was compiled, once, and nothing the generator does not know is    *)
(* there (generateBytecode, errorsCount).                                  *)
THEOREM NothingLeftOut == Spec => []AcceptedIsComplete
<1>1. WalkInv => AcceptedIsComplete
  BY DEF WalkInv, AcceptedIsComplete, Complete
<1> QED BY WalkCorrect, <1>1, PTL
-----------------------------------------------------------------------------
(* Where the jumps lead.                                                   *)

LEMMA Largest ==
  ASSUME NEW S \in SUBSET Nat, NEW w \in S, \A x \in S : x <= w
  PROVE  Max(S) = w
<1>1. \E x \in S : \A y \in S : x >= y
  <2>1. \A y \in S : w >= y
    OBVIOUS
  <2> QED BY <2>1
<1>2. Max(S) \in S /\ \A y \in S : Max(S) >= y
  BY <1>1 DEF Max
<1>3. Max(S) \in Nat /\ w \in Nat /\ Max(S) >= w /\ Max(S) <= w
  BY <1>2
<1> QED BY <1>3

LEMMA Smallest ==
  ASSUME NEW S \in SUBSET Nat, NEW w \in S, \A x \in S : w <= x
  PROVE  Min(S) = w
<1>1. \E x \in S : \A y \in S : x <= y
  OBVIOUS
<1>2. Min(S) \in S /\ \A y \in S : Min(S) <= y
  BY <1>1 DEF Min
<1>3. Min(S) \in Nat /\ w \in Nat /\ Min(S) >= w /\ Min(S) <= w
  BY <1>2
<1> QED BY <1>3

(* When nothing is pending, the jump over a false branch leads behind the  *)
(* last instruction of its if.                                             *)
LEMMA OutReaches ==
  ASSUME StateInv, CodeInv, WalkInv, Generated, ShortEnough,
         NEW i \in DOMAIN log, log[i].op = "JUMP"
  PROVE  Target(i) = EndOf(log[i].n)
<1> DEFINE n == log[i].n
           own == {h \in DOMAIN log : Own(log, h, n)}
           ends == {log[h].at + Width(log[h]) : h \in own}
<1>1. phase # "crashed" /\ DOMAIN stack = {}
  <2>1. stack = <<>> /\ phase # "crashed"
    BY DEF Generated, StateInv, PhaseOK
  <2> QED BY <2>1
<1>2. ClosedOut(code, stack, log, i)
  BY <1>1 DEF WalkInv, JumpOuts, OpenOut
<1>3. PICK j \in DOMAIN log :
        /\ i <= j /\ Own(log, j, n)
        /\ \A h \in DOMAIN log : Own(log, h, n) => h <= j
        /\ Landed(code, log[i], log[j].at + Width(log[j]))
  BY <1>2 DEF ClosedOut
<1>4. CodeOK /\ LayoutOK /\ DOMAIN log \subseteq Nat
  BY DEF StateInv, CodeInv, CodeOK
<1>5. /\ \A h \in DOMAIN log : /\ log[h].at \in Nat /\ Width(log[h]) \in Nat
                               /\ log[h].at + Width(log[h]) <= Len(code)
                               /\ Width(log[h]) > 0
      /\ Width(log[i]) = 3
  BY <1>4, LogTyped, Widths DEF LayoutOK, Laid, Jumps
<1>6. \A h, g \in DOMAIN log : h < g => log[h].at + Width(log[h]) <= log[g].at
  BY <1>4 DEF LayoutOK, Laid
<1> DEFINE w == log[j].at + Width(log[j])
<1>7. w \in Nat /\ w <= Len(code) /\ log[i].at + 3 <= w
  <2>1. w \in Nat /\ w <= Len(code)
    BY <1>5
  <2>2. CASE i = j
    BY <1>5, <2>2
  <2>3. CASE i # j
    <3>1. i < j
      BY <1>3, <1>4, <2>3
    <3>2. log[i].at + Width(log[i]) <= log[j].at
      BY <1>6, <3>1
    <3> QED BY <1>5, <3>2
  <2> QED BY <2>1, <2>2, <2>3
<1>8. \A h \in own : log[h].at + Width(log[h]) <= w
  <2> SUFFICES ASSUME NEW h \in own PROVE log[h].at + Width(log[h]) <= w
    OBVIOUS
  <2>1. h \in DOMAIN log /\ h <= j
    BY <1>3
  <2>2. CASE h = j
    BY <1>5, <2>2
  <2>3. CASE h # j
    <3>1. h < j
      BY <1>4, <2>1, <2>3
    <3>2. log[h].at + Width(log[h]) <= log[j].at
      BY <1>6, <2>1, <3>1
    <3> QED BY <1>5, <2>1, <3>2
  <2> QED BY <2>2, <2>3
<1>9. ends \in SUBSET Nat /\ w \in ends /\ \A x \in ends : x <= w
  BY <1>3, <1>5, <1>8
<1>10. Landed(code, log[i], w)
  BY <1>3
<1>11. EndOf(n) = Max(ends)
  <2>1. {h \in InstructionsOf(n) : log[h].op # "POP" \/ log[h].n # n} = own
    BY DEF InstructionsOf, Own
  <2> QED BY <2>1 DEF EndOf, Width
<1> HIDE DEF w, ends
<1>12. Target(i) = w
  BY <1>4, <1>5, <1>7, <1>10, LandedTarget
<1>13. Max(ends) = w
  BY <1>9, Largest
<1> QED BY <1>11, <1>12, <1>13
(* The call at the start leads to the first instruction of the only main.  *)
LEMMA EntryReaches ==
  ASSUME StateInv, CodeInv, WalkInv, Generated, ShortEnough, OneMain,
         NEW i \in DOMAIN log, log[i].op = "CALL", NEW m \in Mains
  PROVE  Target(i) = StartOf(m)
<1>1. CodeOK /\ LayoutOK /\ MainOK
  BY DEF StateInv, CodeInv
<1>2. stack = <<>>
  BY DEF Generated, StateInv, PhaseOK
<1>3. log[i].at = 0 /\ Landed(code, log[i], mainLocation)
  <2>1. DOMAIN stack = {}
    BY <1>2
  <2> QED BY <2>1 DEF WalkInv, EntryWaits
<1>4. /\ 3 <= mainLocation
      /\ \A j \in DOMAIN log : log[j].n \in Subtree[m] => mainLocation <= log[j].at
      /\ \E j \in DOMAIN log : log[j].n \in Subtree[m] /\ log[j].at = mainLocation
  <2>1. DOMAIN stack = {} /\ m \notin {}
    BY <1>2
  <2> QED BY <2>1 DEF WalkInv, MainEntered
<1>5. mainLocation \in Nat /\ mainLocation <= Len(code)
  BY <1>1, BoundaryInCode DEF MainOK, CodeOK, Code
<1>6. Target(i) = mainLocation
  <2>1. log[i].at \in Nat /\ log[i].at + 3 <= mainLocation
    BY <1>3, <1>4, <1>5
  <2> QED BY <1>1, <1>3, <1>5, <2>1, LandedTarget
<1> DEFINE starts == {log[j].at : j \in InstructionsOf(m)}
<1>7. starts \in SUBSET Nat /\ mainLocation \in starts /\ \A x \in starts : mainLocation <= x
  BY <1>1, <1>4, LogTyped DEF InstructionsOf
<1>8. StartOf(m) = Min(starts)
  BY DEF StartOf
<1> HIDE DEF starts
<1> QED BY <1>6, <1>7, <1>8, Smallest
-----------------------------------------------------------------------------
(* A program that gets to the generator declares no function twice: the    *)
(* names are resolved one after the other, and the second of two functions *)
(* of one name finds the first in topScope.                                *)

Funcs == {n \in DOMAIN ast : ast[n].kind = "DECL_FUNC"}

Distinct == \A m, n \in Funcs : ast[m].name = ast[n].name => m = n

Awaits(m) == \E t \in CallsOf(stack) : t.do = "resolveNode" /\ t.n = m

Entered(m) == \E i \in DOMAIN scopes[1].symbols : scopes[1].symbols[i].name = ast[m].name

Resolving ==
  /\ \A m \in Funcs : Awaits(m) \/ Entered(m)
  /\ \A m, n \in Funcs : ast[m].name = ast[n].name => m = n \/ Awaits(m) \/ Awaits(n)

NamesInv ==
  /\ phase = "analyse" /\ errors = <<>> => Resolving
  /\ phase = "generate" \/ Generated => Distinct

(* What is common to the steps of the checker.                             *)
LEMMA CheckerCalls ==
  ASSUME StateInv, phase = "analyse", AnalysisStep, phase' # "crashed"
  PROVE  /\ stack # <<>> /\ stack \in Seq(Tasks) /\ Fits(Top, Len(scopes))
         /\ Later(scopes, scopes') /\ FineScopes(scopes)
         /\ 1 \in DOMAIN scopes
         /\ CallsOf(stack) = {Top} \cup CallsOf(Tail(stack))
         /\ CallsOf(Tail(stack)) \subseteq CallsOf(stack')
<1>1. WellFormed(ast) /\ PassOK /\ stack \in Seq(Tasks)
  BY TreeWellFormed DEF StateInv, PassOK, StackOK
<1>2. \E do \in SemanticTasks : Running(do)
  BY DEF AnalysisStep, resolveNode, resolveLet, resolveConst, addConst, resolveFunc,
         typecheckStmt, typecheckLocal, typecheckConst, addLocal, typecheckFuncDec,
         typecheckExprStmt, stmtEnd, typecheckExpr, typecheckLiteral, typecheckIdent,
         typecheckBinop, binopEnd, typecheckUnop, unopEnd, typecheckIf, ifTrue, ifFalse,
         ifEnd, typecheckBlock, typecheckCall, refusedCall, argument, callEnd,
         typecheckExit, typecheckDefault, Expr, RunningOn, SemanticTasks
<1>3. stack # <<>> /\ Top.n \in DOMAIN ast /\ Top.s \in DOMAIN scopes /\ Fits(Top, Len(scopes))
  BY <1>1, <1>2, CheckerTop
<1>4. StepForm
  BY <1>1, ResolveNodeForm, TypecheckStmtForm, TypecheckExprForm DEF AnalysisStep
<1>5. Later(scopes, scopes')
  BY <1>1, <1>3, <1>4, OnlyLater
<1>6. FineScopes(scopes) /\ scopes # <<>>
  BY DEF StateInv, ScopesOK, PhaseOK
<1>7. 1 \in DOMAIN scopes
  <2>1. scopes \in Seq(Scope)
    BY <1>6 DEF FineScopes
  <2> QED BY ONLY <2>1, <1>6
<1>8. CallsOf(stack) = {Top} \cup CallsOf(Tail(stack)) /\ Tail(stack) \in Seq(Tasks)
  BY <1>1, <1>3, TopAndRest
<1>9. CallsOf(Tail(stack)) \subseteq CallsOf(stack')
  <2>1. CASE Return
    BY <2>1 DEF Return
  <2>2. CASE ~ Return
    <3>1. PICK tasks \in Seq(Tasks) : Call(tasks)
      BY <1>4, <2>2 DEF StepForm, CallsHere, Declares, TakesSlot, Enters, OneScope
    <3>2. stack' = tasks \o Tail(stack)
      BY <3>1 DEF Call
    <3> QED BY <1>8, <3>1, <3>2, CallsTogether
  <2> QED BY <2>1, <2>2
<1> QED BY <1>1, <1>3, <1>5, <1>6, <1>7, <1>8, <1>9

LEMMA ResolvingStep ==
  ASSUME StateInv, phase = "analyse", Clean(errors), Resolving, AnalysisStep,
         errors' = <<>>, phase' # "crashed"
  PROVE  Resolving'
<1>1. /\ Later(scopes, scopes') /\ FineScopes(scopes) /\ 1 \in DOMAIN scopes
      /\ CallsOf(stack) = {Top} \cup CallsOf(Tail(stack))
      /\ CallsOf(Tail(stack)) \subseteq CallsOf(stack')
      /\ stack # <<>> /\ Fits(Top, Len(scopes)) /\ ast' = ast
  BY CheckerCalls DEF AnalysisStep
<1>2. Funcs' = Funcs
  BY <1>1 DEF Funcs
<1>3. ASSUME NEW m \in Funcs, Entered(m)
      PROVE  Entered(m)'
  BY <1>1, <1>3 DEF Entered, Later
<1>4. ASSUME NEW m \in Funcs, Awaits(m)
      PROVE  Awaits(m)' \/ (Running("resolveNode") /\ Top.n = m)
  BY <1>1, <1>4 DEF Awaits, Running
<1>5. CASE ~ resolveFunc
  <2>1. ASSUME NEW m \in Funcs
        PROVE  ~ (Running("resolveNode") /\ Top.n = m)
    BY <1>5, <2>1
       DEF Funcs, AnalysisStep, resolveNode, resolveLet, resolveConst, addConst,
         typecheckStmt, typecheckLocal, typecheckConst, addLocal, typecheckFuncDec,
         typecheckExprStmt, stmtEnd, typecheckExpr, typecheckLiteral, typecheckIdent,
         typecheckBinop, binopEnd, typecheckUnop, unopEnd, typecheckIf, ifTrue, ifFalse,
         ifEnd, typecheckBlock, typecheckCall, refusedCall, argument, callEnd,
         typecheckExit, typecheckDefault, Expr, RunningOn, Running
  <2>2. \A m \in Funcs : Awaits(m) => Awaits(m)'
    BY <1>4, <2>1
  <2>3. \A m \in Funcs : Awaits(m)' \/ Entered(m)'
    BY <1>3, <2>2 DEF Resolving
  <2>4. \A m, n \in Funcs : ast[m].name = ast[n].name => m = n \/ Awaits(m)' \/ Awaits(n)'
    BY <2>2 DEF Resolving
  <2> QED BY <1>1, <1>2, <2>3, <2>4 DEF Resolving
<1>6. CASE resolveFunc
  <2>1. Running("resolveNode") /\ Top.s = 1
    BY <1>1, <1>6 DEF resolveFunc, RunningOn, Running, Fits
  <2>2. PICK f : f = Top.n
    OBVIOUS
  <2>3. errors' = ReportIf(Declared(1, ast[f].name), errors, "Redefinition of symbol")
    BY <1>6, <2>1, <2>2 DEF resolveFunc
  <2>4. ~ Declared(1, ast[f].name)
    BY <2>3, LoudIf DEF Texts, CheckerTexts
  <2>5. PICK garbage \in Garbage :
          scopes' = scopeAddSymbol(scopes, 1,
                      NewSymbol(ast[f].name, FuncType(f), garbage, "global", f))
    BY <1>6, <2>1, <2>2 DEF resolveFunc
  <2>6. PICK symbol : symbol = NewSymbol(ast[f].name, FuncType(f), garbage, "global", f)
    OBVIOUS
  <2>7. symbol.name = ast[f].name /\ scopes' = scopeAddSymbol(scopes, 1, symbol)
    BY <2>5, <2>6 DEF NewSymbol
  <2>8. scopes'[1].symbols = Append(scopes[1].symbols, symbol)
    <3>1. FineScopes(scopes) /\ 1 \in DOMAIN scopes
      BY <1>1
    <3>2. scopes'[1].symbols = IF scopeLookupCurrent(scopes, 1, symbol.name) # {}
                               THEN scopes[1].symbols ELSE Append(scopes[1].symbols, symbol)
      BY ONLY <2>7, <3>1, AddedSymbol
    <3>3. scopeLookupCurrent(scopes, 1, symbol.name) = {}
      BY <2>4, <2>7 DEF Declared
    <3> QED BY <3>2, <3>3
  <2>9. scopes[1].symbols \in Seq(Symbol)
    BY <1>1 DEF FineScopes, FineScope, Scope
  <2>10. \E i \in DOMAIN scopes'[1].symbols : scopes'[1].symbols[i].name = ast[f].name
    BY <2>7, <2>8, <2>9, AppendedSymbol
  <2>11. Entered(f)'
    BY <1>1, <2>10 DEF Entered
  <2>12. ASSUME NEW m \in Funcs, ast[m].name = ast[f].name
         PROVE  Awaits(m)
    <3>1. ~ Entered(m)
      BY <2>4, <2>12 DEF Declared, scopeLookupCurrent, Entered
    <3> QED BY <3>1 DEF Resolving
  <2>13. \A m \in Funcs : m # f /\ Awaits(m) => Awaits(m)'
    BY <1>4, <2>2
  <2>14. \A m \in Funcs : Awaits(m)' \/ Entered(m)'
    BY <1>3, <2>11, <2>13 DEF Resolving
  <2>15. \A m, n \in Funcs : ast[m].name = ast[n].name => m = n \/ Awaits(m)' \/ Awaits(n)'
    BY <2>12, <2>13 DEF Resolving
  <2> QED BY <1>1, <1>2, <2>14, <2>15 DEF Resolving
<1> QED BY <1>5, <1>6

LEMMA ResolvingStart ==
  ASSUME StateInv, BeginAnalysis
  PROVE  Resolving'
<1> DEFINE kids == ast[1].kids
           first == ForEach("resolveNode", kids, 1)
           second == ForEach("typecheckStmt", kids, 1)
<1>1. stack' = first \o second /\ ast' = ast
  BY DEF BeginAnalysis
<1>2. WellFormed(ast)
  BY TreeWellFormed DEF StateInv
<1>3. kids \in Seq(Nat)
  <2>1. 1 \in DOMAIN ast /\ kids \in Seq(DOMAIN ast) /\ DOMAIN ast \subseteq Nat
    BY <1>2, TreeNodes
  <2> HIDE DEF kids
  <2> QED BY <2>1
<1>4. \A m \in Funcs : \E i \in DOMAIN kids : kids[i] = m
  <2>1. \A m \in Funcs : m \in Kids(1)
    BY <1>2, FunctionsInProgram DEF Funcs
  <2> QED BY <2>1 DEF Kids, Range
<1> HIDE DEF kids
<1>5. first \in Seq(Tasks) /\ second \in Seq(Tasks)
  BY <1>3, EachCall DEF OneScope, SemanticTasks
<1>6. CallsOf(first) \subseteq CallsOf(stack')
  BY <1>1, <1>5, CallsTogether
<1>7. ASSUME NEW m \in Funcs
      PROVE  Awaits(m)'
  <2>1. PICK i \in DOMAIN kids : kids[i] = m
    BY <1>4
  <2>2. Task("resolveNode", kids[i], 1) \in CallsOf(first)
    BY CallsOfEach
  <2>3. Task("resolveNode", m, 1) \in CallsOf(stack')
    BY <1>6, <2>1, <2>2
  <2> QED BY <2>3 DEF Awaits, Task
<1>8. Funcs' = Funcs
  BY <1>1 DEF Funcs
<1> QED BY <1>1, <1>7, <1>8 DEF Resolving

LEMMA ResolvingEnd ==
  ASSUME Resolving, stack = <<>>
  PROVE  Distinct
<1>1. \A m : ~ Awaits(m)
  BY DEF Awaits, CallsOf
<1> QED BY <1>1 DEF Resolving, Distinct

LEMMA NamesInit == Init => NamesInv
BY DEF Init, NamesInv, Generated

LEMMA NamesStep ==
  StateInv /\ CodeInv /\ MessageInv /\ NamesInv /\ [Next]_vars => NamesInv'
<1> SUFFICES ASSUME StateInv, CodeInv, MessageInv, NamesInv, [Next]_vars
             PROVE  NamesInv'
  OBVIOUS
<1> USE DEF Reject, codegenVars, chunk, driverVars, diagnostics
<1>1. phase \in {"parse", "parsed", "analyse"} => log = <<>>
  BY DEF CodeInv, UnstartedOK
<1>2. ast' = ast => (Distinct' <=> Distinct)
  BY DEF Distinct, Funcs
<1>3. CASE BeginAnalysis
  BY <1>1, <1>3, ResolvingStart DEF BeginAnalysis, NamesInv, Generated
<1>4. CASE Analyse
  <2>1. phase = "analyse" /\ AnalysisStep /\ log' = <<>> /\ ast' = ast
    BY <1>1, <1>4 DEF Analyse, AnalysisStep
  <2>2. phase' \in {"analyse", "crashed"}
    <3>1. WellFormed(ast) /\ PassOK
      BY TreeWellFormed DEF StateInv, PassOK
    <3>2. GoesOn
      BY <2>1, <3>1, AnalysisStepKeeps
    <3> QED BY <2>1, <3>2 DEF GoesOn
  <2>3. ASSUME phase' = "analyse", errors' = <<>>
        PROVE  Resolving'
    <3>1. Clean(errors)
      BY <2>1 DEF MessageInv, ErrorsStatic
    <3>2. errors = <<>>
      BY <2>1, <2>3, <3>1, StillQuiet
    <3>3. Resolving
      BY <2>1, <3>2 DEF NamesInv
    <3> QED BY <2>1, <2>3, <3>1, <3>3, ResolvingStep
  <2> QED BY <2>1, <2>2, <2>3 DEF NamesInv, Generated
<1>5. CASE BeginCodegen
  <2>1. Distinct
    BY <1>5, ResolvingEnd DEF BeginCodegen, NamesInv
  <2> QED BY <1>2, <1>5, <2>1 DEF BeginCodegen, NamesInv
<1>6. CASE Generate
  <2>1. WellFormed(ast) /\ PassOK /\ CodeOK /\ CodegenStep /\ phase = "generate"
    BY <1>6, TreeWellFormed DEF StateInv, PassOK, Generate
  <2>2. phase' \in {"generate", "crashed"}
    BY <2>1, CodegenStepKeeps DEF GoesOn
  <2>3. Distinct'
    BY <1>2, <2>1 DEF CodegenStep, NamesInv
  <2> QED BY <2>2, <2>3 DEF NamesInv
<1>7. CASE DestroyArena
  BY <1>2, <1>7 DEF DestroyArena, NamesInv
<1>8. CASE Parse \/ RejectSyntax \/ RejectSemantics
  <2>1. log' = <<>> /\ phase' \in {"parsed", "returned"}
    BY <1>1, <1>8 DEF Parse, RejectSyntax, RejectSemantics
  <2> QED BY <2>1 DEF NamesInv, Generated
<1>9. CASE PrintAndReturn \/ buildMain \/ Finished
  BY <1>2, <1>9
     DEF PrintAndReturn, buildMain, ExitWithError, BeginDisassembly, disassembleInstruction,
         EndDisassembly, Finished, vars, NamesInv, Generated
<1>10. CASE UNCHANGED vars
  <2>1. Resolving' <=> Resolving
    BY <1>10 DEF vars, Resolving, Funcs, Awaits, Entered
  <2> QED BY <1>2, <1>10, <2>1 DEF vars, NamesInv, Generated
<1> QED BY <1>3, <1>4, <1>5, <1>6, <1>7, <1>8, <1>9, <1>10 DEF Next, compile

LEMMA NamesOnce == Spec => []NamesInv
<1>1. Spec => []MessageInv
  BY MessageInit, MessageStep, PTL DEF Spec
<1>2. Spec => []StateInv /\ []CodeInv
  BY PassesFitTogether, CodeCorrect
<1> QED BY NamesInit, NamesStep, <1>1, <1>2, PTL DEF Spec

(* Every jump of a compiled program leads where its construct says: past   *)
(* the true branch, past the whole if, and to the first instruction of     *)
(* main, of which there is only one.  The operand has two bytes, so the    *)
(* code must not be longer than they can tell (emitJump, patchJump).       *)
THEOREM JumpsLeadWhereTheyShould == Spec => [](ShortEnough => JumpsLand)
<1>1. StateInv /\ CodeInv /\ WalkInv /\ NamesInv /\ ConditionsLand => (ShortEnough => JumpsLand)
  <2> SUFFICES ASSUME StateInv, CodeInv, WalkInv, NamesInv, ConditionsLand, ShortEnough,
                      Generated, NEW i \in DOMAIN log
               PROVE  LET n == log[i].n
                      IN  CASE log[i].op = "JUMP_IF_ZERO" ->
                                 \E j \in DOMAIN log : /\ log[j].op = "JUMP" /\ log[j].n = n
                                                       /\ Target(i) = log[j].at + 3
                            [] log[i].op = "JUMP" -> Target(i) = EndOf(n)
                            [] log[i].op = "CALL" -> \A m \in Mains : Target(i) = StartOf(m)
                            [] OTHER -> TRUE
    BY DEF JumpsLand
  <2>1. CASE log[i].op = "JUMP_IF_ZERO"
    BY <2>1 DEF ConditionsLand
  <2>2. CASE log[i].op = "JUMP"
    BY <2>2, OutReaches
  <2>3. CASE log[i].op = "CALL"
    <3>1. OneMain
      BY DEF NamesInv, Distinct, Funcs, Mains, OneMain
    <3> QED BY <2>3, <3>1, EntryReaches
  <2>4. CASE log[i].op \notin {"JUMP_IF_ZERO", "JUMP", "CALL"}
    BY <2>4
  <2> QED BY <2>1, <2>2, <2>3, <2>4
<1>2. Spec => []StateInv /\ []CodeInv /\ []WalkInv /\ []NamesInv
  BY PassesFitTogether, CodeCorrect, WalkCorrect, NamesOnce
<1>3. Spec => []ConditionsLand
  BY FalseConditionsSkipTheBranch
<1> QED BY <1>1, <1>2, <1>3, PTL

-----------------------------------------------------------------------------
(* The scope of a name.  The checker and the generator walk through the    *)
(* same functions and blocks, each of which opens a scope.                 *)

Opens(p) == ast[p].kind \in {"BLOCK", "DECL_FUNC"}

(* A const that the checker comes to as a statement is not looked into.    *)
Refused(n) == ast[n].kind = "DECL_VAR" /\ ast[n].op = "const"

(* The innermost function or block around a node.                          *)
Innermost(p, n) ==
  /\ p \in DOMAIN ast /\ Opens(p) /\ p # n /\ n \in Subtree[p]
  /\ \A q \in DOMAIN ast : Opens(q) /\ q # n /\ n \in Subtree[q] => p \in Subtree[q]

(* The scope both passes have to be in when they get to a node, for the    *)
(* scopes "so" of functions and blocks.                                    *)
Home(so, n, s) ==
  \/ s = 1 /\ \A q \in DOMAIN ast : Opens(q) /\ n \in Subtree[q] => q = n
  \/ \E p \in DOMAIN ast : Innermost(p, n) /\ s = so[p]

(* What can be found from the scope belongs to what is around the node.    *)
Around(ss, so, n, s) ==
  \A c \in ss[s].chain : c # 1 =>
    \E p \in DOMAIN ast : Opens(p) /\ n \in Subtree[p] /\ so[p] = c

(* The subtrees of two kids have nothing in common.                        *)
LEMMA SubtreesApart ==
  ASSUME WellFormed(ast), NEW n \in DOMAIN ast, NEW i \in 1..Len(ast[n].kids),
         NEW j \in 1..Len(ast[n].kids), i # j
  PROVE  Subtree[Kid(n, i)] \cap Subtree[Kid(n, j)] = {}
<1> DEFINE a == Kid(n, i)
           b == Kid(n, j)
           S == {x \in DOMAIN ast : ~ (x \in Subtree[a] /\ x \in Subtree[b])}
<1>1. a \in Kids(n) /\ b \in Kids(n) /\ a \in DOMAIN ast /\ b \in DOMAIN ast /\ n < a
      /\ n \in Nat /\ 1 <= n
  <2>1. a \in Kids(n) /\ b \in Kids(n) /\ n \in Nat
    BY KidsInTree
  <2>2. a \in DOMAIN ast /\ b \in DOMAIN ast /\ n < a
    BY <2>1, KidsInTree
  <2>3. DOMAIN ast = 1..Len(ast)
    BY DEF WellFormed
  <2> QED BY <2>1, <2>2, <2>3
<1>2. a # b
  BY OnlyParent
<1>3. a \notin Subtree[b] /\ b \notin Subtree[a]
  BY <1>1, <1>2, KidsApart
<1>4. 1 \in S
  <2>1. 1 \in DOMAIN ast
    BY TreeNodes
  <2>2. ASSUME 1 \in Subtree[a]
        PROVE  FALSE
    <3>1. a <= 1 /\ a \in Nat
      BY <1>1, <2>2, SubtreeInTree, TreeNodes
    <3> QED BY <1>1, <3>1
  <2> QED BY <2>1, <2>2
<1>5. ASSUME NEW x \in DOMAIN ast, x \in S
      PROVE  Kids(x) \subseteq S
  <2> SUFFICES ASSUME NEW k \in Kids(x), k \notin S PROVE FALSE
    OBVIOUS
  <2>1. k \in DOMAIN ast
    BY KidsInTree
  <2>2. k \in Subtree[a] /\ k \in Subtree[b]
    BY <2>1
  <2>3. k # a /\ k # b
    BY <1>3, <2>2
  <2>4. x \in Subtree[a] /\ x \in Subtree[b]
    BY <1>1, <2>2, <2>3, ParentInSubtree
  <2> QED BY <1>5, <2>4
<1>6. DOMAIN ast \subseteq S
  <2> HIDE DEF S
  <2> QED BY <1>4, <1>5, DownTheTree
<1>7. \A x \in Subtree[a] : x \in DOMAIN ast
  BY <1>1, SubtreeInTree
<1> QED BY <1>6, <1>7

LEMMA HomeUnique ==
  ASSUME WellFormed(ast), NEW so, NEW n \in DOMAIN ast, NEW s, NEW u,
         Home(so, n, s), Home(so, n, u)
  PROVE  s = u
<1>1. ASSUME NEW p, Innermost(p, n), NEW q, Innermost(q, n)
      PROVE  p = q
  <2>1. p \in DOMAIN ast /\ q \in DOMAIN ast /\ p \in Subtree[q] /\ q \in Subtree[p]
    BY <1>1 DEF Innermost
  <2>2. p <= q /\ q <= p /\ p \in Nat /\ q \in Nat
    BY <2>1, SubtreeInTree, TreeNodes
  <2> QED BY <2>2
<1> QED BY <1>1 DEF Home, Innermost

LEMMA KidHome ==
  ASSUME WellFormed(ast), NEW so, NEW n \in DOMAIN ast, NEW k \in Kids(n)
  PROVE  /\ Opens(n) => Home(so, k, so[n])
         /\ \A s : ~ Opens(n) /\ Home(so, n, s) => Home(so, k, s)
<1>1. k \in DOMAIN ast /\ n < k /\ n \in Nat /\ k \in Nat /\ k # n /\ k \in Subtree[n]
  BY KidsInTree, KidsApart, TreeNodes
<1>2. ASSUME NEW q \in DOMAIN ast, q # k, k \in Subtree[q]
      PROVE  n \in Subtree[q]
  BY <1>2, ParentInSubtree
<1>3. Opens(n) => Innermost(n, k)
  BY <1>1, <1>2 DEF Innermost
<1>4. ASSUME ~ Opens(n), NEW s, Home(so, n, s)
      PROVE  Home(so, k, s)
  <2>1. CASE s = 1 /\ \A q \in DOMAIN ast : Opens(q) /\ n \in Subtree[q] => q = n
    <3>1. \A q \in DOMAIN ast : Opens(q) /\ k \in Subtree[q] => q = k
      BY <1>2, <1>4, <2>1
    <3> QED BY <2>1, <3>1 DEF Home
  <2>2. CASE \E p \in DOMAIN ast : Innermost(p, n) /\ s = so[p]
    <3>1. PICK p \in DOMAIN ast : Innermost(p, n) /\ s = so[p]
      BY <2>2
    <3>2. p <= n /\ p \in Nat
      BY <3>1, SubtreeInTree, TreeNodes DEF Innermost
    <3>3. p # k
      BY <1>1, <3>2
    <3>4. k \in Subtree[p]
      BY <1>1, <3>1, SubtreeNested DEF Innermost
    <3>5. Innermost(p, k)
      BY <1>2, <1>4, <3>1, <3>3, <3>4 DEF Innermost
    <3> QED BY <3>1, <3>5 DEF Home
  <2> QED BY <1>4, <2>1, <2>2 DEF Home
<1> QED BY <1>3, <1>4 DEF Home

(* What was around a node is around its kids.                              *)
LEMMA KidAround ==
  ASSUME WellFormed(ast), NEW ss, NEW so, NEW n \in DOMAIN ast, NEW k \in Kids(n), NEW s,
         Around(ss, so, n, s)
  PROVE  Around(ss, so, k, s)
<1>1. k \in Subtree[n]
  BY KidsApart
<1>2. \A p \in DOMAIN ast : n \in Subtree[p] => k \in Subtree[p]
  BY <1>1, SubtreeNested
<1> QED BY <1>2 DEF Around

-----------------------------------------------------------------------------
(* The walk of the checker.  A pending call lays claim to the subtrees     *)
(* that it will look into, ...                                             *)

SubtreesFrom(n, first) == UNION {Subtree[m] : m \in KidsFrom(n, first)}

Claim(t) ==
  IF t.do = "typecheckExpr" \/ (t.do = "typecheckStmt" /\ ~ Refused(t.n)) THEN Subtree[t.n]
  ELSE IF t.do = "resolveNode" /\ Refused(t.n) THEN SubtreesFrom(t.n, 1)
  ELSE IF t.do = "ifTrue" THEN SubtreesFrom(t.n, 2)
  ELSE IF t.do = "ifFalse" THEN SubtreesFrom(t.n, 3)
  ELSE IF t.do = "argument" THEN SubtreesFrom(t.n, t.at + 1)
  ELSE {}

(* ... and that of a statement comes before the statements that follow it  *)
(* in a function or a block.                                               *)
Follows(t) ==
  IF t.do \notin {"typecheckStmt", "addLocal"} THEN {}
  ELSE {x \in DOMAIN ast :
          \E p \in DOMAIN ast : \E i, j \in 1..Len(ast[p].kids) :
            Opens(p) /\ i < j /\ Kid(p, i) = t.n /\ x \in Subtree[Kid(p, j)]}

Claims(st) ==
  \A k, l \in DOMAIN st :
    k < l => /\ Claim(st[k]) \cap Claim(st[l]) = {}
             /\ Claim(st[k]) \cap Follows(st[l]) = {}

(* What the call at the top is replaced by claims nothing more.            *)
Hands(tasks) ==
  /\ tasks \in Seq(Tasks)
  /\ Claims(tasks)
  /\ \A t \in CallsOf(tasks) :
       Claim(t) \subseteq Claim(Top) /\ Follows(t) \subseteq Claim(Top) \cup Follows(Top)

LEMMA ClaimOf ==
  ASSUME NEW t
  PROVE  /\ t.do = "typecheckExpr" => Claim(t) = Subtree[t.n]
         /\ t.do = "typecheckStmt" =>
              Claim(t) \in {{}, Subtree[t.n]} /\ (~ Refused(t.n) => Claim(t) = Subtree[t.n])
         /\ t.do = "resolveNode" =>
              /\ Claim(t) \in {{}, SubtreesFrom(t.n, 1)}
              /\ Refused(t.n) => Claim(t) = SubtreesFrom(t.n, 1)
         /\ t.do = "ifTrue" => Claim(t) = SubtreesFrom(t.n, 2)
         /\ t.do = "ifFalse" => Claim(t) = SubtreesFrom(t.n, 3)
         /\ t.do = "argument" => Claim(t) = SubtreesFrom(t.n, t.at + 1)
         /\ t.do \notin {"typecheckExpr", "typecheckStmt", "resolveNode", "ifTrue", "ifFalse",
                         "argument"} => Claim(t) = {}
         /\ t.do \notin {"typecheckStmt", "addLocal"} => Follows(t) = {}
BY DEF Claim, Follows

LEMMA FromSubtrees ==
  ASSUME WellFormed(ast), NEW n \in DOMAIN ast, NEW first
  PROVE  /\ \A x \in SubtreesFrom(n, first) :
              \E j \in 1..Len(ast[n].kids) : first <= j /\ x \in Subtree[Kid(n, j)]
         /\ \A j \in 1..Len(ast[n].kids) :
              first <= j => Subtree[Kid(n, j)] \subseteq SubtreesFrom(n, first)
         /\ SubtreesFrom(n, first) \subseteq Subtree[n]
         /\ n \notin SubtreesFrom(n, first)
<1>1. ASSUME NEW x \in SubtreesFrom(n, first)
      PROVE  \E j \in 1..Len(ast[n].kids) : first <= j /\ x \in Subtree[Kid(n, j)]
  BY <1>1 DEF SubtreesFrom, KidsFrom
<1>2. ASSUME NEW j \in 1..Len(ast[n].kids), first <= j
      PROVE  Subtree[Kid(n, j)] \subseteq SubtreesFrom(n, first)
  BY <1>2 DEF SubtreesFrom, KidsFrom
<1>3. ASSUME NEW x \in SubtreesFrom(n, first)
      PROVE  x \in Subtree[n] /\ x # n
  <2>1. PICK j \in 1..Len(ast[n].kids) : x \in Subtree[Kid(n, j)]
    BY <1>1
  <2>2. Kid(n, j) \in Kids(n)
    BY KidsInTree
  <2>3. Subtree[Kid(n, j)] \subseteq Subtree[n]
    BY <2>2, SubtreeOf
  <2>4. n \notin Subtree[Kid(n, j)]
    BY <2>2, KidsApart
  <2> QED BY <2>1, <2>3, <2>4
<1> QED BY <1>1, <1>2, <1>3

(* What follows a statement is no part of it.                              *)
LEMMA FollowsApart ==
  ASSUME WellFormed(ast), NEW t, t.n \in DOMAIN ast
  PROVE  Subtree[t.n] \cap Follows(t) = {}
<1> SUFFICES ASSUME NEW x \in Subtree[t.n], x \in Follows(t) PROVE FALSE
  OBVIOUS
<1>1. PICK p \in DOMAIN ast : \E i, j \in 1..Len(ast[p].kids) :
         Opens(p) /\ i < j /\ Kid(p, i) = t.n /\ x \in Subtree[Kid(p, j)]
  BY DEF Follows
<1>2. PICK i \in 1..Len(ast[p].kids), j \in 1..Len(ast[p].kids) :
         i < j /\ Kid(p, i) = t.n /\ x \in Subtree[Kid(p, j)]
  BY <1>1
<1>3. i # j
  <2>1. i \in Int /\ j \in Int
    OBVIOUS
  <2> QED BY <1>2, <2>1
<1> QED BY <1>2, <1>3, SubtreesApart

(* The statements of a node follow one another.                            *)
LEMMA FollowsKid ==
  ASSUME WellFormed(ast), NEW n \in DOMAIN ast, NEW i \in 1..Len(ast[n].kids), NEW t,
         t.n = Kid(n, i), NEW x \in Follows(t)
  PROVE  \E j \in 1..Len(ast[n].kids) : i < j /\ x \in Subtree[Kid(n, j)]
<1>1. PICK p \in DOMAIN ast : \E k, j \in 1..Len(ast[p].kids) :
         Opens(p) /\ k < j /\ Kid(p, k) = t.n /\ x \in Subtree[Kid(p, j)]
  BY DEF Follows
<1>2. PICK k \in 1..Len(ast[p].kids), j \in 1..Len(ast[p].kids) :
         k < j /\ Kid(p, k) = t.n /\ x \in Subtree[Kid(p, j)]
  BY <1>1
<1>3. p = n /\ k = i
  BY <1>2, OnlyParent
<1> QED BY <1>2, <1>3

-----------------------------------------------------------------------------
(* The calls that hand the claim on.                                       *)

LEMMA HandsNothing == Hands(<<>>)
BY CallsOfFew DEF Hands, Claims

LEMMA HandsOne ==
  ASSUME NEW t \in Tasks, Claim(t) \subseteq Claim(Top),
         Follows(t) \subseteq Claim(Top) \cup Follows(Top)
  PROVE  Hands(<<t>>)
<1> DEFINE all == <<t>>
<1>1. all \in Seq(Tasks) /\ DOMAIN all = {1} /\ CallsOf(all) = {t}
  BY CallsOfFew
<1> HIDE DEF all
<1>2. Claims(all)
  BY <1>1 DEF Claims
<1>3. Hands(all)
  BY <1>1, <1>2 DEF Hands
<1> QED BY <1>3 DEF all

LEMMA HandsMore ==
  ASSUME NEW b, Hands(b), NEW c, Hands(c),
         \A t \in CallsOf(b), u \in CallsOf(c) :
           Claim(t) \cap Claim(u) = {} /\ Claim(t) \cap Follows(u) = {}
  PROVE  Hands(b \o c)
<1> DEFINE all == b \o c
<1>1. b \in Seq(Tasks) /\ c \in Seq(Tasks)
  BY DEF Hands
<1>2. all \in Seq(Tasks) /\ CallsOf(all) = CallsOf(b) \cup CallsOf(c)
  BY <1>1, CallsTogether
<1>3. /\ DOMAIN all = 1..(Len(b) + Len(c)) /\ Len(b) \in Nat /\ Len(c) \in Nat
      /\ DOMAIN b = 1..Len(b) /\ DOMAIN c = 1..Len(c)
      /\ \A i \in 1..Len(b) : all[i] = b[i]
      /\ \A i \in DOMAIN all :
           i \in 1..Len(b) \/ (i > Len(b) /\ i - Len(b) \in 1..Len(c) /\ all[i] = c[i - Len(b)])
  BY <1>1, Joined
<1> HIDE DEF all
<1>4. ASSUME NEW k \in DOMAIN all, NEW l \in DOMAIN all, k < l
      PROVE  Claim(all[k]) \cap Claim(all[l]) = {} /\ Claim(all[k]) \cap Follows(all[l]) = {}
  <2>1. CASE l \in 1..Len(b)
    <3>1. k \in 1..Len(b)
      BY <1>3, <1>4, <2>1
    <3> QED BY <1>3, <1>4, <2>1, <3>1 DEF Hands, Claims
  <2>2. CASE l \notin 1..Len(b)
    <3>1. l - Len(b) \in DOMAIN c /\ all[l] = c[l - Len(b)]
      BY <1>3, <2>2
    <3>2. CASE k \in 1..Len(b)
      <4>1. all[k] \in CallsOf(b) /\ all[l] \in CallsOf(c)
        BY <1>3, <3>1, <3>2 DEF CallsOf
      <4> QED BY <4>1
    <3>3. CASE k \notin 1..Len(b)
      <4>1. k - Len(b) \in DOMAIN c /\ all[k] = c[k - Len(b)]
        BY <1>3, <3>3
      <4>2. k - Len(b) < l - Len(b)
        BY <1>3, <1>4
      <4> QED BY <3>1, <4>1, <4>2 DEF Hands, Claims
    <3> QED BY <3>2, <3>3
  <2> QED BY <2>1, <2>2
<1>5. Hands(all)
  BY <1>2, <1>4 DEF Hands, Claims
<1> QED BY <1>5 DEF all

(* The claims of the pending calls stay apart.                             *)
LEMMA ClaimsNext ==
  ASSUME stack \in Seq(Tasks), stack # <<>>, Claims(stack), NEW tasks, Hands(tasks), Call(tasks)
  PROVE  /\ stack' \in Seq(Tasks) /\ Claims(stack')
         /\ CallsOf(stack') = CallsOf(tasks) \cup CallsOf(Tail(stack))
         /\ \A t \in CallsOf(Tail(stack)) :
              /\ Claim(Top) \cap Claim(t) = {} /\ Claim(Top) \cap Follows(t) = {}
<1> DEFINE rest == Tail(stack)
<1>1. /\ rest \in Seq(Tasks) /\ Len(stack) \in Nat /\ 1 \in DOMAIN stack /\ stack[1] = Top
      /\ DOMAIN stack \subseteq Nat /\ DOMAIN rest = 1..(Len(stack) - 1)
      /\ \A l \in DOMAIN rest : l + 1 \in DOMAIN stack /\ rest[l] = stack[l + 1] /\ l \in Nat
  <2>1. stack \in Seq(Tasks) /\ stack # <<>>
    OBVIOUS
  <2>2. /\ rest \in Seq(Tasks) /\ Len(stack) \in Nat /\ 1 \in DOMAIN stack
        /\ stack[1] = Head(stack)
        /\ DOMAIN stack \subseteq Nat /\ DOMAIN rest = 1..(Len(stack) - 1)
        /\ \A l \in DOMAIN rest : l + 1 \in DOMAIN stack /\ rest[l] = stack[l + 1] /\ l \in Nat
    BY ONLY <2>1
  <2> QED BY <2>2 DEF Top
<1>2. tasks \in Seq(Tasks) /\ Claims(tasks) /\ stack' = tasks \o rest
  BY DEF Hands, Call
<1>3. CallsOf(stack') = CallsOf(tasks) \cup CallsOf(rest)
  BY <1>1, <1>2, CallsTogether
<1>4. ASSUME NEW t \in CallsOf(rest)
      PROVE  Claim(Top) \cap Claim(t) = {} /\ Claim(Top) \cap Follows(t) = {}
  <2>1. PICK l \in DOMAIN rest : t = rest[l]
    BY DEF CallsOf
  <2>2. l + 1 \in DOMAIN stack /\ t = stack[l + 1] /\ 1 < l + 1
    <3>1. l >= 1
      BY <1>1
    <3> HIDE DEF rest
    <3> QED BY <1>1, <2>1, <3>1
  <2> QED BY <1>1, <2>2 DEF Claims
<1>5. /\ DOMAIN stack' = 1..(Len(tasks) + Len(rest)) /\ Len(tasks) \in Nat
      /\ stack' \in Seq(Tasks)
      /\ DOMAIN tasks = 1..Len(tasks) /\ DOMAIN rest = 1..Len(rest)
      /\ \A i \in 1..Len(tasks) : stack'[i] = tasks[i]
      /\ \A i \in DOMAIN stack' :
           i \in 1..Len(tasks) \/ (i > Len(tasks) /\ i - Len(tasks) \in 1..Len(rest)
                                     /\ stack'[i] = rest[i - Len(tasks)])
  <2> HIDE DEF rest
  <2> QED BY <1>1, <1>2, Joined
<1> HIDE DEF rest
<1>6. ASSUME NEW k \in DOMAIN stack', NEW l \in DOMAIN stack', k < l
      PROVE  /\ Claim(stack'[k]) \cap Claim(stack'[l]) = {}
             /\ Claim(stack'[k]) \cap Follows(stack'[l]) = {}
  <2>1. CASE l \in 1..Len(tasks)
    <3>1. k \in 1..Len(tasks)
      BY <1>5, <1>6, <2>1
    <3> QED BY <1>2, <1>5, <1>6, <2>1, <3>1 DEF Claims
  <2>2. CASE l \notin 1..Len(tasks)
    <3> DEFINE m == l - Len(tasks)
    <3>1. m \in DOMAIN rest /\ stack'[l] = rest[m]
      BY <1>5, <2>2
    <3>2. CASE k \in 1..Len(tasks)
      <4>1. stack'[k] \in CallsOf(tasks) /\ stack'[l] \in CallsOf(rest)
        BY <1>5, <3>1, <3>2 DEF CallsOf
      <4> QED BY <1>4, <4>1 DEF Hands
    <3>3. CASE k \notin 1..Len(tasks)
      <4> DEFINE i == k - Len(tasks)
      <4>1. i \in DOMAIN rest /\ stack'[k] = rest[i] /\ i < m
        BY <1>5, <1>6, <3>3
      <4> HIDE DEF i, m
      <4>2. i + 1 \in DOMAIN stack /\ m + 1 \in DOMAIN stack /\ i + 1 < m + 1
            /\ stack'[k] = stack[i + 1] /\ stack'[l] = stack[m + 1]
        BY <1>1, <3>1, <4>1
      <4> QED BY <4>2 DEF Claims
    <3> QED BY <3>2, <3>3
  <2> QED BY <2>1, <2>2
<1> QED BY <1>3, <1>4, <1>5, <1>6 DEF rest, Claims

-----------------------------------------------------------------------------
(* What holds of every pending call, for the scopes "ss", the scopes "so"  *)
(* of functions and blocks and the symbols "b" that names are bound to.    *)

(* It is in the scope of its node; what declares a local in a scope is a   *)
(* statement of the function or block that the scope belongs to.           *)
Placed(ss, so, t) ==
  /\ t.n \in DOMAIN ast /\ t.s \in DOMAIN ss
  /\ Home(so, t.n, t.s) /\ Around(ss, so, t.n, t.s)
  /\ t.do \in {"typecheckStmt", "addLocal"} =>
       t.s = 1 \/ \E p \in DOMAIN ast : Opens(p) /\ t.n \in Kids(p) /\ so[p] = t.s
  /\ t.do = "addLocal" => ~ Refused(t.n)
  /\ t.do = "addConst" => t.s = 1

(* It finds what it will look into as it was, and the names in what        *)
(* follows unbound.                                                        *)
Fresh(so, b, t) ==
  /\ \A x \in Claim(t) : so[x] = 0 /\ b[x] = NullSymbol
  /\ \A x \in Follows(t) : b[x] = NullSymbol

(* No two functions or blocks share a scope, and none has topScope.        *)
OwnScopes(so) ==
  \A p \in DOMAIN ast :
    so[p] # 1 /\ \A q \in DOMAIN ast : so[p] = so[q] /\ so[p] # 0 => p = q

Holds(ss, c, name) == scopeLookupCurrent(ss, c, name) # {}

(* A name was bound from scope s to a symbol that would still be found     *)
(* there, except for declarations that follow it.                          *)
BoundFrom(ss, so, b, n, s) ==
  /\ ast[n].kind = "IDENT"
  /\ s \in DOMAIN ss /\ Home(so, n, s) /\ Around(ss, so, n, s)
  /\ b[n].scope \in ss[s].chain
  /\ b[n].index \in scopeLookupCurrent(ss, b[n].scope, ast[n].name)
  /\ \A i \in scopeLookupCurrent(ss, b[n].scope, ast[n].name) : b[n].index <= i
  /\ \A c \in ss[s].chain :
       b[n].scope < c /\ Holds(ss, c, ast[n].name) => DeclaredLater(n)

AllBound(ss, so, b) ==
  \A n \in DOMAIN ast : b[n] # NullSymbol => \E s \in DOMAIN ss : BoundFrom(ss, so, b, n, s)

Sound(ss, so, b, P) ==
  /\ OwnScopes(so)
  /\ \A t \in P : Placed(ss, so, t) /\ Fresh(so, b, t)
  /\ AllBound(ss, so, b)

Checking == Claims(stack) /\ Sound(scopes, scopeOf, bound, CallsOf(stack))

-----------------------------------------------------------------------------
(* Scopes only grow.                                                       *)

LEMMA HomeLater ==
  ASSUME NEW so, NEW sp, \A p \in DOMAIN ast : so[p] # 0 => sp[p] = so[p],
         NEW m, NEW s, s # 0, Home(so, m, s)
  PROVE  Home(sp, m, s)
BY DEF Home, Innermost

LEMMA AroundLater ==
  ASSUME NEW so, NEW sp, \A p \in DOMAIN ast : so[p] # 0 => sp[p] = so[p],
         NEW ss, NEW tt, NEW m, NEW s, tt[s].chain = ss[s].chain, 0 \notin ss[s].chain,
         Around(ss, so, m, s)
  PROVE  Around(tt, sp, m, s)
BY DEF Around

LEMMA ChainsOf ==
  ASSUME NEW ss, FineScopes(ss), NEW s \in DOMAIN ss
  PROVE  /\ 0 \notin ss[s].chain /\ s # 0 /\ ss[s].chain \subseteq DOMAIN ss
         /\ ss[s].chain \subseteq Nat /\ s \in Nat
         /\ \A c \in DOMAIN ss : ss[c].symbols \in Seq(Symbol)
<1>1. /\ ss \in Seq(Scope) /\ ss[s].chain \subseteq 1..s
      /\ \A c \in DOMAIN ss : ss[c] \in Scope
  BY DEF FineScopes, FineScope
<1>2. DOMAIN ss = 1..Len(ss) /\ Len(ss) \in Nat
  BY <1>1
<1> QED BY <1>1, <1>2 DEF Scope

(* The symbol that was found first stays the first of its name.            *)
LEMMA FirstStays ==
  ASSUME NEW ss, FineScopes(ss), NEW tt, FineScopes(tt), Later(ss, tt), NEW c \in DOMAIN ss,
         NEW name, NEW k \in scopeLookupCurrent(ss, c, name),
         \A i \in scopeLookupCurrent(ss, c, name) : k <= i
  PROVE  /\ k \in scopeLookupCurrent(tt, c, name)
         /\ \A i \in scopeLookupCurrent(tt, c, name) : k <= i
<1> DEFINE old == ss[c].symbols
           new == tt[c].symbols
<1>1. c \in DOMAIN tt /\ old \in Seq(Symbol) /\ new \in Seq(Symbol)
  BY ChainsOf DEF Later
<1>2. \A i \in DOMAIN old : i \in DOMAIN new /\ new[i].name = old[i].name
  BY DEF Later
<1>3. k \in DOMAIN old /\ old[k].name = name
  BY DEF scopeLookupCurrent
<1>4. ASSUME NEW i \in DOMAIN new, new[i].name = name
      PROVE  k <= i
  <2>1. CASE i \in DOMAIN old
    BY <1>2, <1>4, <2>1 DEF scopeLookupCurrent
  <2>2. CASE i \notin DOMAIN old
    BY <1>1, <1>3, <2>2
  <2> QED BY <2>1, <2>2
<1>5. k \in DOMAIN new /\ new[k].name = name
  BY <1>2, <1>3
<1> QED BY <1>4, <1>5 DEF scopeLookupCurrent

(* So do the names that were bound, when what is new shadows only uses     *)
(* that it follows.                                                        *)
LEMMA BoundLater ==
  ASSUME NEW ss, FineScopes(ss), NEW tt, FineScopes(tt), Later(ss, tt),
         NEW so, NEW sp, \A p \in DOMAIN ast : so[p] # 0 => sp[p] = so[p],
         NEW b, NEW n, NEW s, BoundFrom(ss, so, b, n, s),
         \A c \in ss[s].chain :
           b[n].scope < c /\ Holds(tt, c, ast[n].name) /\ ~ Holds(ss, c, ast[n].name) =>
             DeclaredLater(n)
  PROVE  BoundFrom(tt, sp, b, n, s)
<1>1. s \in DOMAIN ss /\ s \in DOMAIN tt /\ tt[s].chain = ss[s].chain
  BY DEF BoundFrom, Later
<1>2. 0 \notin ss[s].chain /\ s # 0 /\ ss[s].chain \subseteq DOMAIN ss
  BY <1>1, ChainsOf
<1>3. Home(sp, n, s)
  BY <1>2, HomeLater DEF BoundFrom
<1>4. Around(tt, sp, n, s)
  BY <1>1, <1>2, AroundLater DEF BoundFrom
<1> DEFINE c == b[n].scope
           k == b[n].index
<1>5. /\ c \in DOMAIN ss /\ k \in scopeLookupCurrent(ss, c, ast[n].name)
      /\ \A i \in scopeLookupCurrent(ss, c, ast[n].name) : k <= i
  BY <1>2 DEF BoundFrom
<1>6. /\ k \in scopeLookupCurrent(tt, c, ast[n].name)
      /\ \A i \in scopeLookupCurrent(tt, c, ast[n].name) : k <= i
  BY <1>5, FirstStays
<1>7. \A d \in tt[s].chain : b[n].scope < d /\ Holds(tt, d, ast[n].name) => DeclaredLater(n)
  BY <1>1 DEF BoundFrom
<1> QED BY <1>1, <1>3, <1>4, <1>6, <1>7 DEF BoundFrom

(* All of this is about the tree, which no step changes.                   *)
LEMMA TreeAlone ==
  ASSUME ast' = ast
  PROVE  /\ \A n : (DeclaredLater(n))' <=> DeclaredLater(n)
         /\ \A so, n, s : (Home(so, n, s))' <=> Home(so, n, s)
         /\ \A ss, so, n, s : (Around(ss, so, n, s))' <=> Around(ss, so, n, s)
         /\ \A ss, so, b, n, s : (BoundFrom(ss, so, b, n, s))' <=> BoundFrom(ss, so, b, n, s)
<1>1. Subtree' = Subtree
  BY SubtreeSame
<1>2. \A so, n, s : (Home(so, n, s))' <=> Home(so, n, s)
  BY <1>1 DEF Home, Innermost, Opens
<1>3. \A ss, so, n, s : (Around(ss, so, n, s))' <=> Around(ss, so, n, s)
  BY <1>1 DEF Around, Opens
<1>4. \A n : (DeclaredLater(n))' <=> DeclaredLater(n)
  BY <1>1 DEF DeclaredLater, Under, Kid
<1>5. \A ss, so, b, n, s : (BoundFrom(ss, so, b, n, s))' <=> BoundFrom(ss, so, b, n, s)
  BY <1>2, <1>3, <1>4 DEF BoundFrom
<1> QED BY <1>2, <1>3, <1>4, <1>5

LEMMA TreeKept ==
  ASSUME ast' = ast, Claims(stack'), Sound(scopes', scopeOf', bound', CallsOf(stack'))
  PROVE  Checking'
<1>1. Subtree' = Subtree
  BY SubtreeSame
<1>2. \A t : (Claim(t))' = Claim(t) /\ (Follows(t))' = Follows(t)
  BY <1>1 DEF Claim, Follows, SubtreesFrom, KidsFrom, Opens, Refused, Kid
<1>3. /\ \A so, n, s : (Home(so, n, s))' <=> Home(so, n, s)
      /\ \A ss, so, n, s : (Around(ss, so, n, s))' <=> Around(ss, so, n, s)
      /\ \A ss, so, b, n, s : (BoundFrom(ss, so, b, n, s))' <=> BoundFrom(ss, so, b, n, s)
  BY TreeAlone
<1>4. \A ss, so, t : (Placed(ss, so, t))' <=> Placed(ss, so, t)
  BY <1>3 DEF Placed, Opens, Refused, Kids
<1>5. \A so, b, t : (Fresh(so, b, t))' <=> Fresh(so, b, t)
  BY <1>2 DEF Fresh
<1>6. Claims(stack)'
  BY <1>2 DEF Claims
<1>7. Sound(scopes, scopeOf, bound, CallsOf(stack))'
  BY <1>3, <1>4, <1>5 DEF Sound, OwnScopes, AllBound, CallsOf
<1> QED BY <1>6, <1>7 DEF Checking

LEMMA ClaimInTree ==
  ASSUME WellFormed(ast), NEW t, t.n \in DOMAIN ast
  PROVE  Claim(t) \cup Follows(t) \subseteq DOMAIN ast
<1>1. Subtree[t.n] \subseteq DOMAIN ast
  BY SubtreeInTree
<1>2. \A first : SubtreesFrom(t.n, first) \subseteq DOMAIN ast
  BY <1>1, FromSubtrees
<1> QED BY <1>1, <1>2 DEF Claim, Follows

LEMMA PlacedLater ==
  ASSUME NEW so, NEW sp, \A p \in DOMAIN ast : so[p] # 0 => sp[p] = so[p],
         NEW ss, FineScopes(ss), NEW tt, Later(ss, tt), NEW t, Placed(ss, so, t)
  PROVE  Placed(tt, sp, t)
<1> DEFINE n == t.n
           s == t.s
<1>1. n \in DOMAIN ast /\ s \in DOMAIN ss /\ Home(so, n, s) /\ Around(ss, so, n, s)
  BY DEF Placed
<1>2. 0 \notin ss[s].chain /\ s # 0 /\ s \in DOMAIN tt /\ tt[s].chain = ss[s].chain
  BY <1>1, ChainsOf DEF Later
<1>3. Home(sp, n, s) /\ Around(tt, sp, n, s)
  <2> HIDE DEF n, s
  <2> QED BY <1>1, <1>2, HomeLater, AroundLater
<1>4. t.do \in {"typecheckStmt", "addLocal"} =>
        s = 1 \/ \E p \in DOMAIN ast : Opens(p) /\ n \in Kids(p) /\ sp[p] = s
  BY <1>2 DEF Placed
<1>5. (t.do = "addLocal" => ~ Refused(n)) /\ (t.do = "addConst" => s = 1)
  BY DEF Placed
<1> QED BY <1>1, <1>2, <1>3, <1>4, <1>5 DEF Placed

(* What has to be shown of a step of the checker.                          *)
LEMMA CheckingNext ==
  ASSUME WellFormed(ast), stack \in Seq(Tasks), stack # <<>>, ast' = ast, Checking,
         FineScopes(scopes), Later(scopes, scopes'),
         NEW tasks, Hands(tasks), Call(tasks),
         \A m \in DOMAIN ast : scopeOf[m] # 0 => scopeOf'[m] = scopeOf[m],
         \A m \in DOMAIN ast :
           \/ scopeOf'[m] = scopeOf[m] /\ bound'[m] = bound[m]
           \/ m \in Claim(Top) /\ \A t \in CallsOf(tasks) : m \notin Claim(t) \cup Follows(t),
         OwnScopes(scopeOf'),
         \A t \in CallsOf(tasks) : Placed(scopes', scopeOf', t),
         AllBound(scopes', scopeOf', bound')
  PROVE  Checking'
<1>1. /\ Claims(stack) /\ OwnScopes(scopeOf) /\ AllBound(scopes, scopeOf, bound)
      /\ \A t \in CallsOf(stack) : Placed(scopes, scopeOf, t) /\ Fresh(scopeOf, bound, t)
  BY DEF Checking, Sound
<1>2. CallsOf(stack) = {Top} \cup CallsOf(Tail(stack))
  BY TopAndRest
<1>3. /\ Claims(stack')
      /\ CallsOf(stack') = CallsOf(tasks) \cup CallsOf(Tail(stack))
      /\ \A t \in CallsOf(Tail(stack)) :
           /\ Claim(Top) \cap Claim(t) = {} /\ Claim(Top) \cap Follows(t) = {}
  BY <1>1, ClaimsNext
<1>4. ASSUME NEW t \in CallsOf(Tail(stack))
      PROVE  Placed(scopes', scopeOf', t) /\ Fresh(scopeOf', bound', t)
  <2>1. Placed(scopes, scopeOf, t) /\ Fresh(scopeOf, bound, t)
    BY <1>1, <1>2
  <2>2. Placed(scopes', scopeOf', t)
    BY <2>1, PlacedLater
  <2>3. Claim(t) \cup Follows(t) \subseteq DOMAIN ast
    BY <2>1, ClaimInTree DEF Placed
  <2>4. \A x \in Claim(t) \cup Follows(t) : scopeOf'[x] = scopeOf[x] /\ bound'[x] = bound[x]
    BY <1>3, <2>3
  <2> QED BY <2>1, <2>2, <2>4 DEF Fresh
<1>5. ASSUME NEW t \in CallsOf(tasks)
      PROVE  Fresh(scopeOf', bound', t)
  <2>1. Fresh(scopeOf, bound, Top)
    BY <1>1, <1>2
  <2>2. Claim(t) \subseteq Claim(Top) /\ Follows(t) \subseteq Claim(Top) \cup Follows(Top)
    BY DEF Hands
  <2>3. \A x \in Claim(t) \cup Follows(t) : scopeOf'[x] = scopeOf[x] /\ bound'[x] = bound[x]
    <3>1. Claim(t) \cup Follows(t) \subseteq DOMAIN ast
      BY ClaimInTree DEF Placed
    <3> QED BY <3>1
  <2> QED BY <2>1, <2>2, <2>3 DEF Fresh
<1>6. Sound(scopes', scopeOf', bound', CallsOf(stack'))
  BY <1>3, <1>4, <1>5 DEF Sound
<1> QED BY <1>3, <1>6, TreeKept

(* What a step of the checker starts from.                                 *)
AtWork == WellFormed(ast) /\ PassOK /\ stack # <<>> /\ ast' = ast /\ Checking

LEMMA WorkAt ==
  ASSUME AtWork
  PROVE  /\ WellFormed(ast) /\ stack \in Seq(Tasks) /\ stack # <<>> /\ ast' = ast /\ Checking
         /\ FineScopes(scopes) /\ OwnScopes(scopeOf) /\ AllBound(scopes, scopeOf, bound)
         /\ Claims(stack) /\ Placed(scopes, scopeOf, Top) /\ Fresh(scopeOf, bound, Top)
         /\ Top.n \in DOMAIN ast /\ Top.s \in DOMAIN scopes
         /\ \A t \in CallsOf(Tail(stack)) :
              Placed(scopes, scopeOf, t) /\ Fresh(scopeOf, bound, t)
         /\ scopeOf \in [DOMAIN ast -> 0..Len(scopes)]
         /\ bound \in [DOMAIN ast -> [scope : Nat, index : Nat]]
<1>1. stack \in Seq(Tasks) /\ stack # <<>> /\ FineScopes(scopes)
  BY DEF AtWork, PassOK, StackOK, ScopesOK
<1>2. CallsOf(stack) = {Top} \cup CallsOf(Tail(stack))
  BY <1>1, TopAndRest
<1>3. Placed(scopes, scopeOf, Top)
  BY <1>2 DEF AtWork, Checking, Sound
<1> QED BY <1>1, <1>2, <1>3 DEF AtWork, Checking, Sound, Placed, PassOK, NotesOK

(* A step that only hands the work on.                                     *)
LEMMA QuietSound ==
  ASSUME AtWork, UNCHANGED <<scopes, scopeOf, bound>>,
         NEW tasks, Hands(tasks), Call(tasks),
         \A t \in CallsOf(tasks) : Placed(scopes, scopeOf, t)
  PROVE  Checking'
<1>1. scopes' = scopes /\ scopeOf' = scopeOf /\ bound' = bound
  OBVIOUS
<1>2. Later(scopes, scopes')
  BY <1>1, NoLater
<1>3. /\ OwnScopes(scopeOf') /\ AllBound(scopes', scopeOf', bound')
      /\ \A t \in CallsOf(tasks) : Placed(scopes', scopeOf', t)
  BY <1>1, WorkAt
<1> QED BY <1>1, <1>2, <1>3, WorkAt, CheckingNext

LEMMA QuietReturn ==
  ASSUME AtWork, UNCHANGED <<scopes, scopeOf, bound>>, Return
  PROVE  Checking'
<1>1. Call(<<>>)
  BY ReturnCalls DEF AtWork
<1>2. CallsOf(<<>>) = {}
  BY CallsOfFew
<1> QED BY <1>1, <1>2, HandsNothing, QuietSound

(* A step that adds a symbol, which may shadow names that were bound, but  *)
(* only where it follows them.                                             *)
LEMMA DeclareSound ==
  ASSUME AtWork, UNCHANGED <<scopeOf, bound>>, Return,
         Later(scopes, scopes'), FineScopes(scopes'), DOMAIN scopes \subseteq DOMAIN scopes',
         \A n \in DOMAIN ast, s \in DOMAIN scopes, c \in DOMAIN scopes :
           /\ bound[n] # NullSymbol /\ BoundFrom(scopes, scopeOf, bound, n, s)
           /\ c \in scopes[s].chain /\ bound[n].scope < c
           /\ Holds(scopes', c, ast[n].name) /\ ~ Holds(scopes, c, ast[n].name)
           => DeclaredLater(n)
  PROVE  Checking'
<1>1. scopeOf' = scopeOf /\ bound' = bound
  OBVIOUS
<1>2. Call(<<>>)
  BY ReturnCalls DEF AtWork
<1>3. CallsOf(<<>>) = {}
  BY CallsOfFew
<1>4. ASSUME NEW n \in DOMAIN ast, bound[n] # NullSymbol
      PROVE  \E s \in DOMAIN scopes' : BoundFrom(scopes', scopeOf, bound, n, s)
  <2>1. PICK s \in DOMAIN scopes : BoundFrom(scopes, scopeOf, bound, n, s)
    BY <1>4, WorkAt DEF AllBound
  <2>2. scopes[s].chain \subseteq DOMAIN scopes /\ FineScopes(scopes)
    BY WorkAt, ChainsOf
  <2>3. \A c \in scopes[s].chain :
          bound[n].scope < c /\ Holds(scopes', c, ast[n].name) /\ ~ Holds(scopes, c, ast[n].name)
            => DeclaredLater(n)
    BY <1>4, <2>1, <2>2
  <2>4. BoundFrom(scopes', scopeOf, bound, n, s)
    BY <2>1, <2>2, <2>3, BoundLater
  <2> QED BY <2>4
<1>5. AllBound(scopes', scopeOf', bound')
  BY <1>1, <1>4 DEF AllBound
<1>6. OwnScopes(scopeOf')
  BY <1>1, WorkAt
<1> QED BY <1>1, <1>2, <1>3, <1>5, <1>6, HandsNothing, WorkAt, CheckingNext

(* The innermost scope that has the name, and its first symbol there.      *)
LEMMA FoundInnermost ==
  ASSUME NEW ss, FineScopes(ss), NEW s \in DOMAIN ss, NEW name,
         NEW symbol, symbol = scopeLookup(ss, s, name), symbol # NullSymbol
  PROVE  /\ symbol.scope \in ss[s].chain
         /\ symbol.index \in scopeLookupCurrent(ss, symbol.scope, name)
         /\ \A i \in scopeLookupCurrent(ss, symbol.scope, name) : symbol.index <= i
         /\ \A c \in ss[s].chain : Holds(ss, c, name) => c <= symbol.scope
         /\ symbol \in [scope : Nat, index : Nat]
<1> DEFINE owners == {c \in ss[s].chain : scopeLookupCurrent(ss, c, name) # {}}
           c == CHOOSE c \in owners : \A d \in owners : d <= c
           found == scopeLookupCurrent(ss, c, name)
           index == CHOOSE i \in found : \A j \in found : i <= j
<1>1. ss[s].chain \subseteq 1..s /\ s \in Nat /\ s # 0
  BY ChainsOf DEF FineScopes
<1>2. symbol = IF owners = {} THEN NullSymbol ELSE [scope |-> c, index |-> index]
  BY <1>1 DEF scopeLookup
<1>3. owners # {} /\ symbol = [scope |-> c, index |-> index]
  <2> HIDE DEF owners, c, index
  <2> QED BY <1>2
<1>4. c \in owners /\ \A d \in owners : d <= c
  <2>1. owners \subseteq 0..s
    BY <1>1
  <2>2. \E x \in owners : \A y \in owners : y <= x
    <3> HIDE DEF owners
    <3> QED BY <1>1, <1>3, <2>1, GreatestNatural
  <2> HIDE DEF owners
  <2> QED BY <2>2
<1>5. c \in ss[s].chain /\ found # {} /\ c \in DOMAIN ss /\ c \in Nat
  <2>1. ss[s].chain \subseteq DOMAIN ss /\ ss[s].chain \subseteq Nat
    BY ChainsOf
  <2>2. c \in ss[s].chain /\ found # {}
    BY <1>4
  <2> HIDE DEF c, found
  <2> QED BY <2>1, <2>2
<1> HIDE DEF c
<1>6. found \subseteq Nat
  <2>1. ss[c].symbols \in Seq(Symbol)
    BY <1>5, ChainsOf
  <2> QED BY <2>1 DEF scopeLookupCurrent
<1>7. index \in found /\ index \in Nat /\ \A j \in found : index <= j
  <2> HIDE DEF found
  <2>1. \E x \in found : \A y \in found : x <= y
    BY <1>5, <1>6, LeastNatural
  <2> QED BY <1>6, <2>1
<1> HIDE DEF index
<1>8. symbol.scope = c /\ symbol.index = index /\ symbol \in [scope : Nat, index : Nat]
  BY <1>3, <1>5, <1>7
<1>9. \A d \in ss[s].chain : Holds(ss, d, name) => d <= c
  BY <1>4 DEF Holds
<1> QED BY <1>5, <1>7, <1>8, <1>9

(* A name is bound.                                                        *)
LEMMA BindSound ==
  ASSUME AtWork, UNCHANGED <<scopes, scopeOf>>, Return, Top.do = "typecheckExpr",
         ast[Top.n].kind = "IDENT", NEW symbol, symbol # NullSymbol,
         symbol = scopeLookup(scopes, Top.s, ast[Top.n].name),
         bound' = [bound EXCEPT ![Top.n] = symbol]
  PROVE  Checking'
<1> DEFINE n == Top.n
           s == Top.s
<1>1. scopes' = scopes /\ scopeOf' = scopeOf /\ n \in DOMAIN ast /\ s \in DOMAIN scopes
  BY WorkAt
<1>2. bound'[n] = symbol /\ \A m \in DOMAIN ast : m # n => bound'[m] = bound[m]
  BY <1>1, WorkAt
<1>3. n \in Claim(Top)
  BY <1>1, WorkAt, SubtreeOf DEF Claim
<1>4. Call(<<>>)
  BY ReturnCalls DEF AtWork
<1>5. CallsOf(<<>>) = {}
  BY CallsOfFew
<1>6. BoundFrom(scopes, scopeOf, bound', n, s)
  <2>1. /\ symbol.scope \in scopes[s].chain
        /\ symbol.index \in scopeLookupCurrent(scopes, symbol.scope, ast[n].name)
        /\ \A i \in scopeLookupCurrent(scopes, symbol.scope, ast[n].name) : symbol.index <= i
        /\ \A c \in scopes[s].chain : Holds(scopes, c, ast[n].name) => c <= symbol.scope
        /\ symbol.scope \in Nat
    <3> HIDE DEF n, s
    <3>1. symbol = scopeLookup(scopes, s, ast[n].name)
      BY DEF n, s
    <3>2. FineScopes(scopes)
      BY WorkAt
    <3> QED BY <1>1, <3>1, <3>2, FoundInnermost
  <2>2. scopes[s].chain \subseteq Nat
    BY <1>1, WorkAt, ChainsOf
  <2>3. Home(scopeOf, n, s) /\ Around(scopes, scopeOf, n, s)
    BY WorkAt DEF Placed
  <2> HIDE DEF n, s
  <2>4. ast[n].kind = "IDENT"
    BY DEF n
  <2> QED BY <1>1, <1>2, <2>1, <2>2, <2>3, <2>4 DEF BoundFrom
<1>7. ASSUME NEW m \in DOMAIN ast, bound'[m] # NullSymbol
      PROVE  \E u \in DOMAIN scopes : BoundFrom(scopes, scopeOf, bound', m, u)
  <2>1. CASE m = n
    BY <1>1, <1>6, <2>1
  <2>2. CASE m # n
    <3>1. PICK u \in DOMAIN scopes : BoundFrom(scopes, scopeOf, bound, m, u)
      BY <1>2, <1>7, <2>2, WorkAt DEF AllBound
    <3>2. bound'[m] = bound[m]
      BY <1>2, <2>2
    <3> QED BY <3>1, <3>2 DEF BoundFrom
  <2> QED BY <2>1, <2>2
<1>8. AllBound(scopes', scopeOf', bound') /\ OwnScopes(scopeOf') /\ Later(scopes, scopes')
  BY <1>1, <1>7, WorkAt, NoLater DEF AllBound
<1>9. \A m \in DOMAIN ast : (scopeOf'[m] = scopeOf[m] /\ bound'[m] = bound[m]) \/ m \in Claim(Top)
  BY <1>1, <1>2, <1>3
<1> QED BY <1>1, <1>4, <1>5, <1>8, <1>9, HandsNothing, WorkAt, CheckingNext

(* The kids of a node are handed on, one by one.                           *)
LEMMA HandsEach ==
  ASSUME WellFormed(ast), NEW n \in DOMAIN ast, NEW do \in {"typecheckStmt", "typecheckExpr"},
         NEW s \in Nat, Claim(Top) = Subtree[n]
  PROVE  Hands(ForEach(do, ast[n].kids, s))
<1> DEFINE calls == ForEach(do, ast[n].kids, s)
<1>1. /\ ast[n].kids \in Seq(DOMAIN ast) /\ ast[n].kids \in Seq(Nat)
      /\ DOMAIN ast[n].kids = 1..Len(ast[n].kids)
  <2>1. ast[n].kids \in Seq(DOMAIN ast) /\ DOMAIN ast \subseteq Nat
    BY TreeNodes
  <2> QED BY <2>1
<1>2. calls \in Seq(Tasks)
  BY <1>1, EachCall DEF OneScope, SemanticTasks
<1>3. /\ DOMAIN calls = 1..Len(ast[n].kids)
      /\ \A i \in 1..Len(ast[n].kids) : calls[i].do = do /\ calls[i].n = Kid(n, i)
  BY <1>1 DEF ForEach, Task, Kid
<1> HIDE DEF calls
<1>4. ASSUME NEW i \in 1..Len(ast[n].kids)
      PROVE  /\ Claim(calls[i]) \subseteq Subtree[Kid(n, i)]
             /\ \A x \in Follows(calls[i]) :
                  \E j \in 1..Len(ast[n].kids) : i < j /\ x \in Subtree[Kid(n, j)]
             /\ Subtree[Kid(n, i)] \subseteq Subtree[n]
  <2>1. Claim(calls[i]) \subseteq Subtree[Kid(n, i)]
    BY <1>3 DEF Claim
  <2>2. \A x \in Follows(calls[i]) :
          \E j \in 1..Len(ast[n].kids) : i < j /\ x \in Subtree[Kid(n, j)]
    BY <1>3, FollowsKid
  <2>3. Kid(n, i) \in Kids(n)
    BY KidsInTree
  <2> QED BY <2>1, <2>2, <2>3, SubtreeOf
<1>5. Claims(calls)
  <2> SUFFICES ASSUME NEW k \in 1..Len(ast[n].kids), NEW l \in 1..Len(ast[n].kids), k < l
               PROVE  /\ Claim(calls[k]) \cap Claim(calls[l]) = {}
                      /\ Claim(calls[k]) \cap Follows(calls[l]) = {}
    BY <1>3 DEF Claims
  <2>1. k \in Nat /\ l \in Nat
    BY KidsInTree
  <2>2. Subtree[Kid(n, k)] \cap Subtree[Kid(n, l)] = {}
    BY <2>1, SubtreesApart
  <2>3. \A j \in 1..Len(ast[n].kids) : l < j => Subtree[Kid(n, k)] \cap Subtree[Kid(n, j)] = {}
    <3> SUFFICES ASSUME NEW j \in 1..Len(ast[n].kids), l < j
                 PROVE  Subtree[Kid(n, k)] \cap Subtree[Kid(n, j)] = {}
      OBVIOUS
    <3>1. k # j
      BY <2>1
    <3> QED BY <3>1, SubtreesApart
  <2> QED BY <1>4, <2>2, <2>3
<1>6. ASSUME NEW t \in CallsOf(calls)
      PROVE  Claim(t) \subseteq Claim(Top) /\ Follows(t) \subseteq Claim(Top) \cup Follows(Top)
  <2>1. PICK i \in 1..Len(ast[n].kids) : t = calls[i]
    BY <1>3 DEF CallsOf
  <2> QED BY <1>4, <2>1
<1>7. Hands(calls)
  BY <1>2, <1>5, <1>6 DEF Hands
<1> QED BY <1>7 DEF calls

(* A function or a block is entered.                                       *)
LEMMA EnterSound ==
  ASSUME AtWork, UNCHANGED bound, Opens(Top.n), Claim(Top) = Subtree[Top.n],
         NEW u, u = Len(scopes) + 1, NEW scope, scopes' = Append(scopes, scope),
         FineScopes(scopes'), scope.chain = {u} \cup scopes[Top.s].chain,
         scopeOf' = [scopeOf EXCEPT ![Top.n] = u],
         Call(ForEach("typecheckStmt", ast[Top.n].kids, u))
  PROVE  Checking'
<1> DEFINE n == Top.n
           s == Top.s
           tasks == ForEach("typecheckStmt", ast[n].kids, u)
<1>1. /\ WellFormed(ast) /\ n \in DOMAIN ast /\ s \in DOMAIN scopes /\ bound' = bound
      /\ FineScopes(scopes) /\ scopes \in Seq(Scope)
      /\ scopeOf \in [DOMAIN ast -> 0..Len(scopes)]
  BY WorkAt DEF FineScopes
<1>2. /\ u \in Nat /\ u # 0 /\ u # 1 /\ u \notin DOMAIN scopes /\ Len(scopes) \in Nat
      /\ DOMAIN scopes = 1..Len(scopes)
  BY <1>1
<1>3. DOMAIN scopes \subseteq DOMAIN scopes' /\ u \in DOMAIN scopes' /\ scopes'[u] = scope
      /\ \A c \in DOMAIN scopes : scopes'[c] = scopes[c]
  <2> DEFINE S == Scope \cup {scope}
  <2>1. scopes \in Seq(S) /\ scope \in S
    BY <1>1
  <2> HIDE DEF S
  <2>2. scopes' = Append(scopes, scope) /\ u = Len(scopes) + 1
    OBVIOUS
  <2> QED BY ONLY <2>1, <2>2
<1>4. Later(scopes, scopes')
  BY <1>3 DEF Later
<1>5. scopeOf'[n] = u /\ \A m \in DOMAIN ast : m # n => scopeOf'[m] = scopeOf[m]
  BY <1>1
<1>6. n \in Claim(Top) /\ scopeOf[n] = 0
  <2>1. n \in Claim(Top)
    BY <1>1, SubtreeOf
  <2> QED BY <2>1, WorkAt DEF Fresh
<1>7. \A m \in DOMAIN ast : scopeOf[m] # 0 => scopeOf'[m] = scopeOf[m]
  BY <1>5, <1>6
<1>8. OwnScopes(scopeOf')
  <2>1. \A m \in DOMAIN ast : scopeOf[m] # u
    BY <1>1, <1>2
  <2> QED BY <1>2, <1>5, <2>1, WorkAt DEF OwnScopes
<1>9. Hands(tasks)
  BY <1>1, <1>2, HandsEach
<1>10. DOMAIN ast[n].kids = 1..Len(ast[n].kids)
  BY <1>1, TreeNodes
<1>11. ASSUME NEW t \in CallsOf(tasks)
       PROVE  t.do = "typecheckStmt" /\ t.s = u /\ t.n \in Kids(n) /\ t.n \in DOMAIN ast
  <2>1. PICK i \in 1..Len(ast[n].kids) : t = Task("typecheckStmt", ast[n].kids[i], u)
    BY <1>10, CallsOfEach
  <2>2. t.do = "typecheckStmt" /\ t.s = u /\ t.n = Kid(n, i)
    BY <2>1 DEF Task, Kid
  <2> QED BY <1>1, <2>2, KidsInTree
<1> HIDE DEF tasks, n, s
<1>12. Opens(n) /\ Claim(Top) = Subtree[n] /\ Call(tasks) /\ scope.chain = {u} \cup scopes[s].chain
       /\ Placed(scopes, scopeOf, Top)
  BY WorkAt DEF n, s, tasks
<1>13. Around(scopes, scopeOf, n, s) /\ 0 \notin scopes[s].chain
  BY <1>1, <1>12, ChainsOf DEF Placed, n, s
<1>14. ASSUME NEW t \in CallsOf(tasks)
       PROVE  Placed(scopes', scopeOf', t)
  <2>1. t.do = "typecheckStmt" /\ t.s = u /\ t.n \in Kids(n) /\ t.n \in DOMAIN ast
    BY <1>11
  <2>2. Home(scopeOf', t.n, u)
    BY <1>1, <1>5, <1>12, <2>1, KidHome
  <2>3. Around(scopes', scopeOf', t.n, u)
    <3> SUFFICES ASSUME NEW c \in {u} \cup scopes[s].chain, c # 1
                 PROVE  \E p \in DOMAIN ast : Opens(p) /\ t.n \in Subtree[p] /\ scopeOf'[p] = c
      BY <1>3, <1>12 DEF Around
    <3>1. CASE c = u
      <4>1. t.n \in Subtree[n]
        BY <1>1, <2>1, KidsApart
      <4> QED BY <1>1, <1>5, <1>12, <3>1, <4>1
    <3>2. CASE c \in scopes[s].chain
      <4>1. Around(scopes, scopeOf, t.n, s)
        BY <1>1, <1>13, <2>1, KidAround
      <4>2. PICK p \in DOMAIN ast : Opens(p) /\ t.n \in Subtree[p] /\ scopeOf[p] = c
        BY <3>2, <4>1 DEF Around
      <4>3. scopeOf'[p] = c
        BY <1>7, <1>13, <3>2, <4>2
      <4> QED BY <4>2, <4>3
    <3> QED BY <3>1, <3>2
  <2> QED BY <1>1, <1>3, <1>5, <1>12, <2>1, <2>2, <2>3 DEF Placed, Refused
<1>15. ASSUME NEW t \in CallsOf(tasks)
       PROVE  n \notin Claim(t) \cup Follows(t)
  <2>1. t.do = "typecheckStmt" /\ t.s = u /\ t.n \in Kids(n) /\ t.n \in DOMAIN ast
    BY <1>11
  <2>2. Claim(t) \subseteq Subtree[t.n]
    BY <2>1 DEF Claim
  <2>3. n \notin Claim(t)
    BY <1>1, <2>1, <2>2, KidsApart
  <2>4. n \notin Follows(t)
    <3>1. PICK i \in 1..Len(ast[n].kids) : t.n = Kid(n, i)
      BY <1>1, <2>1, KidsInTree
    <3> SUFFICES ASSUME n \in Follows(t)
                 PROVE  FALSE
      OBVIOUS
    <3>2. PICK j \in 1..Len(ast[n].kids) : n \in Subtree[Kid(n, j)]
      BY <1>1, <3>1, FollowsKid
    <3>3. Kid(n, j) \in Kids(n)
      BY <1>1, KidsInTree
    <3> QED BY <1>1, <3>2, <3>3, KidsApart
  <2> QED BY <2>3, <2>4
<1>16. AllBound(scopes', scopeOf', bound')
  <2> SUFFICES ASSUME NEW m \in DOMAIN ast, bound[m] # NullSymbol
               PROVE  \E v \in DOMAIN scopes' : BoundFrom(scopes', scopeOf', bound, m, v)
    BY <1>1 DEF AllBound
  <2>1. PICK v \in DOMAIN scopes : BoundFrom(scopes, scopeOf, bound, m, v)
    BY WorkAt DEF AllBound
  <2>2. scopes[v].chain \subseteq DOMAIN scopes
    BY <1>1, ChainsOf
  <2>3. \A c \in scopes[v].chain : Holds(scopes', c, ast[m].name) => Holds(scopes, c, ast[m].name)
    BY <1>3, <2>2 DEF scopeLookupCurrent, Holds
  <2>4. PICK so, sp, tt : so = scopeOf /\ sp = scopeOf' /\ tt = scopes'
    OBVIOUS
  <2>5. /\ \A p \in DOMAIN ast : so[p] # 0 => sp[p] = so[p]
        /\ FineScopes(tt) /\ Later(scopes, tt) /\ BoundFrom(scopes, so, bound, m, v)
    BY <1>4, <1>7, <2>1, <2>4
  <2>6. BoundFrom(tt, sp, bound, m, v)
    <3>1. FineScopes(scopes)
      BY <1>1
    <3>2. \A c \in scopes[v].chain :
            bound[m].scope < c /\ Holds(tt, c, ast[m].name) /\ ~ Holds(scopes, c, ast[m].name) =>
              DeclaredLater(m)
      BY <2>3, <2>4
    <3> QED BY ONLY <2>5, <3>1, <3>2, BoundLater
  <2>7. v \in DOMAIN scopes'
    BY <1>3
  <2> QED BY <2>4, <2>6, <2>7
<1>17. \A m \in DOMAIN ast :
         \/ scopeOf'[m] = scopeOf[m] /\ bound'[m] = bound[m]
         \/ m \in Claim(Top) /\ \A t \in CallsOf(tasks) : m \notin Claim(t) \cup Follows(t)
  BY <1>1, <1>5, <1>6, <1>15
<1> QED BY <1>4, <1>7, <1>8, <1>9, <1>12, <1>14, <1>16, <1>17, WorkAt, CheckingNext

(* What is declared in topScope shadows nothing.                           *)
LEMMA GlobalSound ==
  ASSUME AtWork, UNCHANGED <<scopeOf, bound>>, Return,
         Later(scopes, scopes'), FineScopes(scopes'),
         \A c \in DOMAIN scopes : c # 1 => scopes'[c] = scopes[c]
  PROVE  Checking'
<1>1. \A c \in DOMAIN scopes : c # 1 => \A name : Holds(scopes', c, name) <=> Holds(scopes, c, name)
  BY DEF Holds, scopeLookupCurrent
<1>2. ASSUME NEW n \in DOMAIN ast, NEW s \in DOMAIN scopes, NEW c \in DOMAIN scopes,
             BoundFrom(scopes, scopeOf, bound, n, s), bound[n].scope < c,
             Holds(scopes', c, ast[n].name), ~ Holds(scopes, c, ast[n].name)
      PROVE  DeclaredLater(n)
  <2>1. c = 1
    BY <1>1, <1>2
  <2>2. bound[n].scope \in scopes[s].chain
    BY <1>2 DEF BoundFrom
  <2>3. bound[n].scope \in Nat /\ bound[n].scope # 0
    BY <2>2, WorkAt, ChainsOf
  <2> QED BY <1>2, <2>1, <2>3
<1>3. DOMAIN scopes \subseteq DOMAIN scopes'
  BY DEF Later
<1> QED BY <1>2, <1>3, DeclareSound

(* A local shadows only what it follows, or what is part of it.            *)
LEMMA LocalSound ==
  ASSUME AtWork, UNCHANGED <<scopeOf, bound>>, Return, Top.do = "addLocal",
         ast[Top.n].kind = "DECL_VAR",
         Later(scopes, scopes'), FineScopes(scopes'),
         \A c \in DOMAIN scopes : c # Top.s => scopes'[c] = scopes[c],
         \A name : Holds(scopes', Top.s, name) =>
                     name = ast[Top.n].name \/ Holds(scopes, Top.s, name)
  PROVE  Checking'
<1> DEFINE d == Top.n
           u == Top.s
<1>1. \A c \in DOMAIN scopes : c # u => \A name : Holds(scopes', c, name) <=> Holds(scopes, c, name)
  BY DEF Holds, scopeLookupCurrent
<1>2. /\ WellFormed(ast) /\ OwnScopes(scopeOf) /\ FineScopes(scopes) /\ u \in DOMAIN scopes
      /\ Fresh(scopeOf, bound, Top) /\ Placed(scopes, scopeOf, Top) /\ d \in DOMAIN ast
  BY WorkAt
<1>3. ~ Refused(d) /\ (u = 1 \/ \E p \in DOMAIN ast : Opens(p) /\ d \in Kids(p) /\ scopeOf[p] = u)
  BY <1>2 DEF Placed
<1>4. ASSUME NEW n \in DOMAIN ast, NEW s \in DOMAIN scopes, NEW c \in DOMAIN scopes,
             bound[n] # NullSymbol,
             BoundFrom(scopes, scopeOf, bound, n, s), c \in scopes[s].chain, bound[n].scope < c,
             Holds(scopes', c, ast[n].name), ~ Holds(scopes, c, ast[n].name)
      PROVE  DeclaredLater(n)
  <2>1. c = u /\ ast[n].name = ast[d].name
    BY <1>1, <1>4
  <2>2. bound[n].scope \in scopes[s].chain /\ ast[n].kind = "IDENT" /\ Around(scopes, scopeOf, n, s)
    BY <1>4 DEF BoundFrom
  <2>3. u # 1 /\ u # 0
    <3>1. bound[n].scope \in Nat /\ bound[n].scope # 0
      BY <1>2, <2>2, ChainsOf
    <3> QED BY <1>4, <2>1, <3>1
  <2>4. PICK p \in DOMAIN ast : Opens(p) /\ n \in Subtree[p] /\ scopeOf[p] = u
    BY <1>4, <2>1, <2>2, <2>3 DEF Around
  <2>5. d \in Kids(p)
    <3>1. PICK q \in DOMAIN ast : Opens(q) /\ d \in Kids(q) /\ scopeOf[q] = u
      BY <1>3, <2>3
    <3>2. p = q
      BY <1>2, <2>3, <2>4, <3>1 DEF OwnScopes
    <3> QED BY <3>1, <3>2
  <2>6. PICK j \in 1..Len(ast[p].kids) : d = Kid(p, j)
    BY <1>2, <2>5, KidsInTree
  <2>7. PICK i \in 1..Len(ast[p].kids) : n \in Subtree[Kid(p, i)]
    <3>1. n # p
      BY <2>2, <2>4 DEF Opens
    <3>2. PICK m \in Kids(p) : n \in Subtree[m]
      BY <1>2, <2>4, <3>1, SubtreeOf
    <3> QED BY <1>2, <3>2, KidsInTree
  <2>8. i <= j
    <3>1. i \in Nat /\ j \in Nat
      BY <1>2, KidsInTree
    <3> SUFFICES ASSUME j < i
                 PROVE  FALSE
      BY <3>1
    <3>2. n \in Follows(Top)
      BY <2>4, <2>6, <2>7 DEF Follows
    <3> QED BY <1>2, <1>4, <3>2 DEF Fresh
  <2>9. ast[d].kind = "DECL_VAR" /\ ast[d].op # "const"
    BY <1>3 DEF Refused
  <2>10. DOMAIN ast[p].kids = 1..Len(ast[p].kids)
    BY <1>2, TreeNodes
  <2> HIDE DEF d, u
  <2> QED BY <2>1, <2>4, <2>6, <2>7, <2>8, <2>9, <2>10 DEF DeclaredLater, Under, Opens
<1>5. DOMAIN scopes \subseteq DOMAIN scopes'
  BY DEF Later
<1> QED BY <1>4, <1>5, DeclareSound

(* Where the kids of a node are.                                           *)
LEMMA KidPlaced ==
  ASSUME AtWork, NEW n, n = Top.n, NEW s, s = Top.s, ~ Opens(n), NEW i \in 1..Len(ast[n].kids),
         NEW t, t = Task("typecheckExpr", Kid(n, i), s)
  PROVE  /\ Placed(scopes, scopeOf, t) /\ t \in Tasks
         /\ Claim(t) = Subtree[Kid(n, i)] /\ Follows(t) = {}
<1>1. /\ WellFormed(ast) /\ n \in DOMAIN ast /\ s \in DOMAIN scopes /\ Placed(scopes, scopeOf, Top)
      /\ FineScopes(scopes)
  BY WorkAt
<1>2. Home(scopeOf, n, s) /\ Around(scopes, scopeOf, n, s) /\ s \in Nat
  BY <1>1, ChainsOf DEF Placed
<1>3. Kid(n, i) \in Kids(n) /\ Kid(n, i) \in DOMAIN ast /\ Kid(n, i) \in Nat
  BY <1>1, KidsInTree, TreeNodes
<1> DEFINE k == Kid(n, i)
<1>4. k \in Kids(n) /\ k \in DOMAIN ast /\ k \in Nat
  BY <1>3
<1> HIDE DEF k
<1>5. t.do = "typecheckExpr" /\ t.n = k /\ t.s = s /\ t \in Tasks
  BY <1>2, <1>4 DEF Task, Tasks, SemanticTasks, k
<1>6. Home(scopeOf, k, s) /\ Around(scopes, scopeOf, k, s)
  BY <1>1, <1>2, <1>4, KidHome, KidAround
<1>7. Placed(scopes, scopeOf, t)
  BY <1>1, <1>4, <1>5, <1>6 DEF Placed
<1> QED BY <1>5, <1>7, ClaimOf DEF k

(* A kid is looked into first, then the call goes on.                      *)
LEMMA KidSound ==
  ASSUME AtWork, UNCHANGED <<scopes, scopeOf, bound>>,
         NEW n, n = Top.n, NEW s, s = Top.s, ~ Opens(n), NEW i \in 1..Len(ast[n].kids),
         NEW rest \in Tasks, rest.n = n, rest.s = s,
         Call(<<Task("typecheckExpr", Kid(n, i), s), rest>>),
         Subtree[Kid(n, i)] \subseteq Claim(Top),
         Claim(rest) \subseteq Claim(Top), Follows(rest) \subseteq Follows(Top),
         Subtree[Kid(n, i)] \cap Claim(rest) = {}, Subtree[Kid(n, i)] \cap Follows(rest) = {},
         rest.do # "typecheckStmt",
         rest.do = "addLocal" => Top.do = "typecheckStmt" /\ ~ Refused(n),
         rest.do = "addConst" => s = 1
  PROVE  Checking'
<1> DEFINE first == Task("typecheckExpr", Kid(n, i), s)
<1>1. /\ Placed(scopes, scopeOf, first) /\ first \in Tasks
      /\ Claim(first) = Subtree[Kid(n, i)] /\ Follows(first) = {}
  BY KidPlaced
<1>2. Placed(scopes, scopeOf, rest)
  BY WorkAt DEF Placed
<1> HIDE DEF first
<1>3. Hands(<<first>>) /\ Hands(<<rest>>)
  BY <1>1, HandsOne
<1>4. Hands(<<first>> \o <<rest>>)
  <2>1. CallsOf(<<first>>) = {first} /\ CallsOf(<<rest>>) = {rest}
    BY CallsOfFew
  <2> QED BY <1>1, <1>3, <2>1, HandsMore
<1>5. <<first>> \o <<rest>> = <<first, rest>>
  BY <1>1, PairJoined
<1>6. Hands(<<first, rest>>) /\ CallsOf(<<first, rest>>) = {first, rest} /\ Call(<<first, rest>>)
  BY <1>4, <1>5, CallsOfFew DEF first
<1> QED BY <1>1, <1>2, <1>6, QuietSound

(* What comes later in a call at a node.                                   *)
LEMMA LaterKids ==
  ASSUME WellFormed(ast), NEW n \in DOMAIN ast, NEW i \in 1..Len(ast[n].kids),
         NEW first \in Nat, first <= i
  PROVE  /\ Subtree[Kid(n, i)] \subseteq SubtreesFrom(n, first)
         /\ SubtreesFrom(n, i + 1) \subseteq SubtreesFrom(n, first)
         /\ Subtree[Kid(n, i)] \cap SubtreesFrom(n, i + 1) = {}
         /\ Subtree[Kid(n, i)] \subseteq Subtree[n] /\ SubtreesFrom(n, i + 1) \subseteq Subtree[n]
<1>1. i \in Nat /\ \A j \in 1..Len(ast[n].kids) : j \in Nat
  BY KidsInTree
<1>2. Subtree[Kid(n, i)] \subseteq SubtreesFrom(n, first)
  BY <1>1, FromSubtrees
<1>3. ASSUME NEW x \in SubtreesFrom(n, i + 1)
      PROVE  x \in SubtreesFrom(n, first) /\ x \notin Subtree[Kid(n, i)]
  <2>1. PICK j \in 1..Len(ast[n].kids) : i + 1 <= j /\ x \in Subtree[Kid(n, j)]
    BY <1>3, FromSubtrees
  <2>2. first <= j /\ i # j
    BY <1>1, <2>1
  <2>3. x \in SubtreesFrom(n, first)
    BY <2>1, <2>2, FromSubtrees
  <2>4. Subtree[Kid(n, i)] \cap Subtree[Kid(n, j)] = {}
    BY <2>2, SubtreesApart
  <2> QED BY <2>1, <2>3, <2>4
<1>4. Subtree[Kid(n, i)] \subseteq Subtree[n]
  BY KidsInTree, SubtreeOf
<1> QED BY <1>2, <1>3, <1>4, FromSubtrees

-----------------------------------------------------------------------------
(* The steps of the checker.                                               *)

LEMMA ReturnSteps ==
  ASSUME AtWork,
         \/ resolveLet \/ typecheckConst \/ stmtEnd \/ typecheckLiteral \/ binopEnd \/ unopEnd
         \/ ifEnd \/ refusedCall \/ callEnd
  PROVE  Checking'
<1>1. Return /\ UNCHANGED <<scopes, scopeOf, bound>>
  BY DEF resolveLet, typecheckConst, stmtEnd, typecheckLiteral, binopEnd, unopEnd, ifEnd,
         refusedCall, callEnd, Checked, annotations
<1> QED BY <1>1, QuietReturn

LEMMA IdentStep ==
  ASSUME AtWork, typecheckIdent
  PROVE  Checking'
<1> DEFINE symbol == scopeLookup(scopes, Top.s, ast[Top.n].name)
<1>1. /\ Return /\ UNCHANGED <<scopes, scopeOf>> /\ Top.do = "typecheckExpr"
      /\ ast[Top.n].kind = "IDENT"
  BY DEF typecheckIdent, Checked, Expr, RunningOn, Running
<1>2. CASE symbol = NullSymbol
  <2>1. UNCHANGED bound
    BY <1>2 DEF typecheckIdent
  <2> QED BY <1>1, <2>1, QuietReturn
<1>3. CASE symbol # NullSymbol
  <2>1. bound' = [bound EXCEPT ![Top.n] = symbol]
    BY <1>3 DEF typecheckIdent
  <2> QED BY <1>1, <1>3, <2>1, BindSound
<1> QED BY <1>2, <1>3

LEMMA DefaultStep ==
  ASSUME AtWork, typecheckDefault, phase' # "crashed"
  PROVE  Checking'
<1>1. Return /\ UNCHANGED <<scopes, scopeOf, bound>>
  BY DEF typecheckDefault, Crash
<1> QED BY <1>1, QuietReturn

LEMMA GlobalSteps ==
  ASSUME AtWork, addConst \/ resolveFunc, Later(scopes, scopes'), FineScopes(scopes')
  PROVE  Checking'
<1>1. Return /\ UNCHANGED <<scopeOf, bound>>
  BY DEF addConst, resolveFunc, annotations
<1>2. Top.s = 1
  <2>1. CASE addConst
    BY <2>1, WorkAt DEF addConst, Running, Placed
  <2>2. CASE resolveFunc
    BY <2>2, CheckerTop DEF resolveFunc, RunningOn, Running, AtWork, Fits, SemanticTasks
  <2> QED BY <2>1, <2>2
<1>3. PICK symbol : scopes' = scopeAddSymbol(scopes, Top.s, symbol)
  BY DEF addConst, resolveFunc
<1> DEFINE tt == scopes'
<1>4. FineScopes(scopes) /\ Top.s \in DOMAIN scopes /\ tt = scopeAddSymbol(scopes, Top.s, symbol)
  BY <1>3, WorkAt
<1> HIDE DEF tt
<1>5. \A c \in DOMAIN scopes : c # Top.s => tt[c] = scopes[c]
  BY <1>4, AddedSymbol
<1>6. \A c \in DOMAIN scopes : c # 1 => scopes'[c] = scopes[c]
  BY <1>2, <1>5 DEF tt
<1> QED BY <1>1, <1>6, GlobalSound

LEMMA LocalStep ==
  ASSUME AtWork, addLocal, Later(scopes, scopes'), FineScopes(scopes')
  PROVE  Checking'
<1> DEFINE n == Top.n
           s == Top.s
<1>1. Return /\ UNCHANGED <<scopeOf, bound>> /\ Top.do = "addLocal"
  BY DEF addLocal, annotations, Running
<1>2. ast[n].kind = "DECL_VAR"
  BY CheckerTop DEF addLocal, Running, AtWork, Fits, SemanticTasks
<1>3. CASE Declared(s, ast[n].name)
  <2>1. UNCHANGED scopes
    BY <1>3 DEF addLocal
  <2> QED BY <1>1, <2>1, QuietReturn
<1>4. CASE ~ Declared(s, ast[n].name)
  <2> DEFINE tt == scopes'
  <2>1. tt = TakeSlot(n, s) /\ FineScopes(scopes) /\ s \in DOMAIN scopes
    BY <1>4, WorkAt DEF addLocal
  <2> HIDE DEF tt, n, s
  <2>2. \A c \in DOMAIN scopes : c # s => tt[c] = scopes[c]
    BY <1>4, <2>1, SlotTaken
  <2>3. PICK symbol : symbol.name = ast[n].name /\ tt[s].symbols = Append(scopes[s].symbols, symbol)
    BY <1>4, <2>1, SlotTaken
  <2>4. scopes[s].symbols \in Seq(Symbol)
    BY <2>1, ChainsOf
  <2>5. \A name : Holds(tt, s, name) => name = ast[n].name \/ Holds(scopes, s, name)
    BY <2>3, <2>4, AppendedSymbol DEF Holds, scopeLookupCurrent
  <2> QED BY <1>1, <1>2, <2>2, <2>5, LocalSound DEF tt, n, s
<1> QED BY <1>3, <1>4

LEMMA EnterSteps ==
  ASSUME AtWork, typecheckFuncDec \/ typecheckBlock, FineScopes(scopes')
  PROVE  Checking'
<1> DEFINE n == Top.n
           s == Top.s
<1>1. n \in DOMAIN ast /\ s \in DOMAIN scopes /\ FineScopes(scopes) /\ s # 0
  BY WorkAt, ChainsOf
<1>2. CASE typecheckFuncDec
  <2>1. ast[n].kind = "DECL_FUNC" /\ Top.do = "typecheckStmt" /\ UNCHANGED bound
    BY <1>2 DEF typecheckFuncDec, RunningOn, Running
  <2>2. CASE scopes[s].isFuncScope
    <3>1. Return /\ UNCHANGED <<scopes, scopeOf, bound>>
      BY <1>2, <2>2 DEF typecheckFuncDec
    <3> QED BY <3>1, QuietReturn
  <2>3. CASE ~ scopes[s].isFuncScope
    <3>1. PICK garbage \in Garbage :
            scopes' = Append(scopes, ParameterScope(n, initScope(scopes, s), garbage))
      BY <1>2, <2>3 DEF typecheckFuncDec
    <3> DEFINE scope == ParameterScope(n, initScope(scopes, s), garbage)
    <3>2. FineScope(initScope(scopes, s))
      BY <1>1, InitScopeFine
    <3>3. WellFormed(ast)
      BY WorkAt
    <3>4. scope.chain = initScope(scopes, s).chain
      BY <1>1, <3>2, <3>3, ParameterScopeFine
    <3>5. initScope(scopes, s).chain = {Len(scopes) + 1} \cup scopes[s].chain
      BY <1>1 DEF initScope
    <3>6. /\ scopeOf' = [scopeOf EXCEPT ![n] = Len(scopes) + 1]
          /\ Call(ForEach("typecheckStmt", ast[n].kids, Len(scopes) + 1))
      BY <1>2, <2>3 DEF typecheckFuncDec
    <3>7. Opens(n) /\ Claim(Top) = Subtree[n]
      BY <2>1, ClaimOf DEF Opens, Refused
    <3> HIDE DEF scope
    <3> QED BY <2>1, <3>1, <3>4, <3>5, <3>6, <3>7, EnterSound DEF scope
  <2> QED BY <2>2, <2>3
<1>3. CASE typecheckBlock
  <2> DEFINE scope == initScope(scopes, s)
  <2>1. /\ ast[n].kind = "BLOCK" /\ Top.do = "typecheckExpr" /\ UNCHANGED bound
        /\ scopes' = Append(scopes, scope)
        /\ scopeOf' = [scopeOf EXCEPT ![n] = Len(scopes) + 1]
        /\ Call(ForEach("typecheckStmt", ast[n].kids, Len(scopes) + 1))
    BY <1>3 DEF typecheckBlock, Expr, RunningOn, Running
  <2>2. scope.chain = {Len(scopes) + 1} \cup scopes[s].chain
    BY <1>1 DEF initScope
  <2>3. Opens(n) /\ Claim(Top) = Subtree[n]
    BY <2>1, ClaimOf DEF Opens
  <2> HIDE DEF scope
  <2> QED BY <2>1, <2>2, <2>3, EnterSound
<1> QED BY <1>2, <1>3

-----------------------------------------------------------------------------
(* The first kid is looked into, then the declaration takes effect.        *)
LEMMA DeclarationStep ==
  ASSUME AtWork, resolveConst \/ typecheckLocal
  PROVE  Checking'
<1> DEFINE n == Top.n
           s == Top.s
<1>1. /\ WellFormed(ast) /\ n \in DOMAIN ast /\ s \in DOMAIN scopes /\ n \in Nat /\ s \in Nat
      /\ ast[n].kind = "DECL_VAR" /\ ~ Opens(n)
  <2>1. ast[n].kind = "DECL_VAR" /\ WellFormed(ast)
    BY WorkAt DEF resolveConst, typecheckLocal, RunningOn
  <2>2. n \in DOMAIN ast /\ s \in DOMAIN scopes /\ n \in Nat /\ s \in Nat
    BY <2>1, CheckerTop DEF resolveConst, typecheckLocal, RunningOn, AtWork, SemanticTasks
  <2> QED BY <2>1, <2>2 DEF Opens
<1>2. 1 \in 1..Len(ast[n].kids)
  BY <1>1, OnlyKid
<1>3. /\ Subtree[Kid(n, 1)] \subseteq SubtreesFrom(n, 1) /\ Subtree[Kid(n, 1)] \subseteq Subtree[n]
  BY <1>1, <1>2, LaterKids
<1>4. UNCHANGED <<scopes, scopeOf, bound>>
  BY DEF resolveConst, typecheckLocal, Visit, annotations
<1>5. CASE resolveConst
  <2> DEFINE rest == Task("addConst", n, s)
  <2>1. /\ Top.do = "resolveNode" /\ Refused(n)
        /\ Call(<<Task("typecheckExpr", Kid(n, 1), s), rest>>)
    BY <1>5 DEF resolveConst, RunningOn, Running, Visit, Refused
  <2>2. s = 1
    BY <1>5, CheckerTop DEF resolveConst, RunningOn, Running, AtWork, Fits, SemanticTasks
  <2>3. rest \in Tasks /\ rest.do = "addConst" /\ rest.n = n /\ rest.s = s
    BY <1>1 DEF Tasks, Task, SemanticTasks
  <2> HIDE DEF rest
  <2>4. Claim(Top) = SubtreesFrom(n, 1) /\ Claim(rest) = {} /\ Follows(rest) = {}
    BY <2>1, <2>3, ClaimOf
  <2> QED BY <1>1, <1>2, <1>3, <1>4, <2>1, <2>2, <2>3, <2>4, KidSound
<1>6. CASE typecheckLocal
  <2> DEFINE rest == Task("addLocal", n, s)
  <2>1. /\ Top.do = "typecheckStmt" /\ ~ Refused(n)
        /\ Call(<<Task("typecheckExpr", Kid(n, 1), s), rest>>)
    BY <1>6 DEF typecheckLocal, RunningOn, Running, Visit, Refused
  <2>2. rest \in Tasks /\ rest.do = "addLocal" /\ rest.n = n /\ rest.s = s
    BY <1>1 DEF Tasks, Task, SemanticTasks
  <2> HIDE DEF rest
  <2>3. Claim(Top) = Subtree[n] /\ Claim(rest) = {}
    BY <2>1, <2>2, ClaimOf
  <2>4. Follows(rest) = Follows(Top)
    BY <2>1, <2>2 DEF Follows
  <2>5. Subtree[n] \cap Follows(rest) = {}
    BY <1>1, <2>2, FollowsApart
  <2> QED BY <1>1, <1>2, <1>3, <1>4, <2>1, <2>2, <2>3, <2>4, <2>5, KidSound
<1> QED BY <1>5, <1>6

(* The operand, the condition or the callee is looked into first.          *)
LEMMA FirstKidStep ==
  ASSUME AtWork, typecheckUnop \/ typecheckIf \/ typecheckCall
  PROVE  Checking'
<1> DEFINE n == Top.n
           s == Top.s
<1>1. /\ ast[n].kind \in {"UNOP", "IF", "CALL"} /\ WellFormed(ast) /\ Top.do = "typecheckExpr"
      /\ UNCHANGED <<scopes, scopeOf, bound>>
  BY WorkAt
     DEF typecheckUnop, typecheckIf, typecheckCall, Expr, RunningOn, Running, Visit, annotations
<1>2. n \in DOMAIN ast /\ s \in DOMAIN scopes /\ n \in Nat /\ s \in Nat
  BY <1>1, CheckerTop
     DEF typecheckUnop, typecheckIf, typecheckCall, Expr, RunningOn, AtWork, SemanticTasks
<1>3. 1 \in 1..Len(ast[n].kids) /\ ~ Opens(n)
  BY <1>1, <1>2, OnlyKid DEF Opens
<1>4. /\ Subtree[Kid(n, 1)] \subseteq Subtree[n]
      /\ SubtreesFrom(n, 2) \subseteq Subtree[n]
      /\ Subtree[Kid(n, 1)] \cap SubtreesFrom(n, 2) = {}
  <2>1. 1 + 1 = 2
    OBVIOUS
  <2> QED BY <1>1, <1>2, <1>3, <2>1, LaterKids
<1>5. PICK rest \in {Task("unopEnd", n, s), Task("ifTrue", n, s),
                       TaskAt("argument", n, s, 1)} :
        Call(<<Task("typecheckExpr", Kid(n, 1), s), rest>>)
  BY DEF typecheckUnop, typecheckIf, typecheckCall, Visit
<1>6. /\ rest \in Tasks /\ rest.n = n /\ rest.s = s /\ rest.do \in {"unopEnd", "ifTrue", "argument"}
      /\ rest.do = "argument" => rest.at = 1
  BY <1>2, <1>5 DEF Tasks, Task, TaskAt, SemanticTasks
<1>7. Claim(Top) = Subtree[n] /\ Claim(rest) \in {{}, SubtreesFrom(n, 2)} /\ Follows(rest) = {}
  <2>1. 1 + 1 = 2
    OBVIOUS
  <2> QED BY <1>1, <1>6, <2>1, ClaimOf
<1> QED BY <1>1, <1>2, <1>3, <1>4, <1>5, <1>6, <1>7, KidSound

(* Then the next kid is.                                                   *)
LEMMA NextKidStep ==
  ASSUME AtWork, ifTrue \/ ifFalse \/ argument
  PROVE  Checking'
<1> DEFINE n == Top.n
           s == Top.s
<1>1. /\ WellFormed(ast) /\ Top.do \in {"ifTrue", "ifFalse", "argument"}
      /\ UNCHANGED <<scopes, scopeOf, bound>>
  BY WorkAt DEF ifTrue, ifFalse, argument, Running, annotations
<1>2. /\ n \in DOMAIN ast /\ s \in DOMAIN scopes /\ n \in Nat /\ s \in Nat /\ Top.at \in Nat
      /\ Fits(Top, Len(scopes))
  BY <1>1, CheckerTop DEF ifTrue, ifFalse, argument, AtWork, SemanticTasks
<1>3. ~ Opens(n) /\ ast[n].kind = IF Top.do = "argument" THEN "CALL" ELSE "IF"
  BY <1>1, <1>2 DEF Fits, Opens
<1>4. CASE ifFalse /\ Len(ast[n].kids) = 2
  <2>1. Return
    BY <1>4 DEF ifFalse
  <2> QED BY <1>1, <2>1, QuietReturn
<1>5. CASE ~ (ifFalse /\ Len(ast[n].kids) = 2)
  <2> DEFINE rests(i) ==
               {Task("ifFalse", n, s), Task("ifEnd", n, s), TaskAt("argument", n, s, i)}
             goesOn(i, rest) == /\ Call(<<Task("typecheckExpr", Kid(n, i), s), rest>>)
                                /\ Claim(Top) = SubtreesFrom(n, i)
                                /\ Claim(rest) \in {{}, SubtreesFrom(n, i + 1)}
  <2>1. \E i \in 1..Len(ast[n].kids) : \E rest \in rests(i) : goesOn(i, rest)
    <3> DEFINE count == Len(ast[n].kids)
    <3>1. count \in Nat /\ (ast[n].kind = "IF" => count \in {2, 3})
      BY <1>1, <1>2, KidsCount
    <3>2. CASE ifTrue
      <4>1. Top.do = "ifTrue"
        BY <3>2 DEF ifTrue, Running
      <4>2. 2 \in 1..count
        <5>1. count \in {2, 3}
          BY <1>3, <3>1, <4>1
        <5> HIDE DEF count
        <5> QED BY <5>1
      <4> DEFINE rest == Task("ifFalse", n, s)
      <4>3. rest.do = "ifFalse" /\ rest.n = n
        BY DEF Task
      <4>4. rest \in rests(2)
        OBVIOUS
      <4>5. Call(<<Task("typecheckExpr", Kid(n, 2), s), rest>>)
        BY <3>2 DEF ifTrue
      <4> HIDE DEF rest
      <4>6. Claim(Top) = SubtreesFrom(n, 2) /\ Claim(rest) = SubtreesFrom(n, 3) /\ 2 + 1 = 3
        BY <4>1, <4>3, ClaimOf
      <4>7. goesOn(2, rest)
        BY <4>5, <4>6
      <4> HIDE DEF goesOn, rests
      <4> QED BY <4>2, <4>4, <4>7
    <3>3. CASE ifFalse
      <4>1. Top.do = "ifFalse"
        BY <3>3 DEF ifFalse, Running
      <4>2. 3 \in 1..count /\ count # 2
        <5>1. count \in {2, 3} /\ count # 2
          BY <1>3, <1>5, <3>1, <3>3, <4>1
        <5> HIDE DEF count
        <5> QED BY <5>1
      <4> DEFINE rest == Task("ifEnd", n, s)
      <4>3. rest.do = "ifEnd" /\ rest.n = n
        BY DEF Task
      <4>4. rest \in rests(3)
        OBVIOUS
      <4>5. Call(<<Task("typecheckExpr", Kid(n, 3), s), rest>>)
        BY <3>3, <4>2 DEF ifFalse
      <4> HIDE DEF rest
      <4>6. Claim(Top) = SubtreesFrom(n, 3) /\ Claim(rest) = {}
        BY <4>1, <4>3, ClaimOf
      <4>7. goesOn(3, rest)
        BY <4>5, <4>6
      <4> HIDE DEF goesOn, rests
      <4> QED BY <4>2, <4>4, <4>7
    <3>4. CASE argument
      <4> DEFINE i == Top.at + 1
      <4>1. Top.do = "argument" /\ Top.at <= count - 1 /\ Top.at # 0
        BY <1>2, <3>4 DEF argument, Running, ArgsCount, Fits
      <4>2. i \in 1..count
        BY <1>2, <3>1, <4>1
      <4> DEFINE rest == TaskAt("argument", n, s, i)
      <4>3. rest.do = "argument" /\ rest.n = n /\ rest.at = i
        BY DEF TaskAt
      <4>4. rest \in rests(i)
        OBVIOUS
      <4>5. Call(<<Task("typecheckExpr", Kid(n, i), s), rest>>)
        BY <3>4 DEF argument
      <4> HIDE DEF rest
      <4>6. Claim(Top) = SubtreesFrom(n, i) /\ Claim(rest) = SubtreesFrom(n, i + 1)
        BY <4>1, <4>3, ClaimOf
      <4>7. goesOn(i, rest)
        BY <4>5, <4>6
      <4> HIDE DEF goesOn, rests, i
      <4> QED BY <4>2, <4>4, <4>7
    <3> QED BY <3>2, <3>3, <3>4
  <2>2. PICK i \in 1..Len(ast[n].kids) : \E rest \in rests(i) : goesOn(i, rest)
    BY <2>1
  <2>3. PICK rest \in rests(i) : goesOn(i, rest)
    BY <2>2
  <2>4. /\ rest \in Tasks /\ rest.n = n /\ rest.s = s
        /\ rest.do \in {"ifFalse", "ifEnd", "argument"}
    <3>1. i \in Nat
      BY <1>1, <1>2, KidsInTree
    <3> QED BY <1>2, <2>3, <3>1 DEF Tasks, Task, TaskAt, SemanticTasks
  <2>5. Follows(rest) = {}
    BY <2>4, ClaimOf
  <2>6. /\ Subtree[Kid(n, i)] \subseteq SubtreesFrom(n, i)
        /\ SubtreesFrom(n, i + 1) \subseteq SubtreesFrom(n, i)
        /\ Subtree[Kid(n, i)] \cap SubtreesFrom(n, i + 1) = {}
    <3>1. i \in Nat /\ i <= i
      BY <1>1, <1>2, KidsInTree
    <3> QED BY <1>1, <1>2, <3>1, LaterKids
  <2> QED BY <1>1, <1>2, <1>3, <2>3, <2>4, <2>5, <2>6, KidSound
<1> QED BY <1>4, <1>5

(* The other calls hand their claim on as it is.                           *)
LEMMA HandSteps ==
  ASSUME AtWork, typecheckExit \/ typecheckExprStmt \/ typecheckBinop
  PROVE  Checking'
<1> DEFINE n == Top.n
           s == Top.s
<1>1. /\ WellFormed(ast) /\ UNCHANGED <<scopes, scopeOf, bound>> /\ Placed(scopes, scopeOf, Top)
  BY WorkAt DEF typecheckExit, typecheckExprStmt, typecheckBinop, Visit, annotations
<1>2. n \in DOMAIN ast /\ s \in DOMAIN scopes /\ n \in Nat /\ s \in Nat
  BY <1>1, CheckerTop DEF typecheckExit, typecheckExprStmt, typecheckBinop, Expr, RunningOn,
                          AtWork, SemanticTasks
<1>3. CASE typecheckExit
  <2>1. /\ ast[n].kind = "EXIT" /\ Top.do = "typecheckExpr"
        /\ Call(<<Task("typecheckExpr", Kid(n, 1), s)>>)
    BY <1>3 DEF typecheckExit, Expr, RunningOn, Running, Visit
  <2>2. 1 \in 1..Len(ast[n].kids) /\ ~ Opens(n)
    BY <1>1, <1>2, <2>1, OnlyKid DEF Opens
  <2> DEFINE t == Task("typecheckExpr", Kid(n, 1), s)
  <2>3. Placed(scopes, scopeOf, t) /\ t \in Tasks
        /\ Claim(t) = Subtree[Kid(n, 1)] /\ Follows(t) = {}
    BY <2>2, KidPlaced
  <2>4. Claim(Top) = Subtree[n] /\ Subtree[Kid(n, 1)] \subseteq Subtree[n]
    BY <1>1, <1>2, <2>1, <2>2, LaterKids, ClaimOf
  <2>5. Call(<<t>>)
    BY <2>1
  <2> HIDE DEF t
  <2>6. Hands(<<t>>) /\ CallsOf(<<t>>) = {t}
    BY <2>3, <2>4, HandsOne, CallsOfFew
  <2> QED BY <1>1, <2>3, <2>5, <2>6, QuietSound
<1>4. CASE typecheckExprStmt
  <2> DEFINE t == Task("typecheckExpr", n, s)
             rest == Task("stmtEnd", n, s)
  <2>1. Top.do = "typecheckStmt" /\ ast[n].kind \in ExprKinds /\ Call(<<t, rest>>)
    BY <1>4 DEF typecheckExprStmt, Running, Visit
  <2>2. ~ Refused(n)
    BY <2>1 DEF Refused, ExprKinds
  <2>3. /\ t \in Tasks /\ t.do = "typecheckExpr" /\ t.n = n /\ t.s = s
        /\ rest \in Tasks /\ rest.do = "stmtEnd" /\ rest.n = n /\ rest.s = s
    BY <1>2 DEF Tasks, Task, SemanticTasks
  <2> HIDE DEF t, rest
  <2>4. /\ Claim(Top) = Subtree[n] /\ Claim(t) = Subtree[n] /\ Follows(t) = {}
        /\ Claim(rest) = {} /\ Follows(rest) = {}
    BY <2>1, <2>2, <2>3, ClaimOf
  <2>5. Hands(<<t>>) /\ Hands(<<rest>>) /\ CallsOf(<<t>>) = {t} /\ CallsOf(<<rest>>) = {rest}
    BY <2>3, <2>4, HandsOne, CallsOfFew
  <2>6. Hands(<<t>> \o <<rest>>)
    BY <2>4, <2>5, HandsMore
  <2>7. <<t, rest>> = <<t>> \o <<rest>> /\ CallsOf(<<t, rest>>) = {t, rest}
    BY <2>3, PairJoined, CallsOfFew
  <2>8. Placed(scopes, scopeOf, t) /\ Placed(scopes, scopeOf, rest)
    BY <1>1, <2>3 DEF Placed
  <2> QED BY <1>1, <2>1, <2>6, <2>7, <2>8, QuietSound
<1>5. CASE typecheckBinop
  <2> DEFINE each == ForEach("typecheckExpr", ast[n].kids, s)
             rest == Task("binopEnd", n, s)
  <2>1. ast[n].kind = "BINOP" /\ Top.do = "typecheckExpr" /\ Call(each \o <<rest>>)
    BY <1>5 DEF typecheckBinop, Expr, RunningOn, Running, Visit
  <2>2. rest \in Tasks /\ rest.do = "binopEnd" /\ rest.n = n /\ rest.s = s
    BY <1>2 DEF Tasks, Task, SemanticTasks
  <2>3. ~ Opens(n) /\ Claim(Top) = Subtree[n]
    BY <2>1, ClaimOf DEF Opens
  <2>4. ASSUME NEW t \in CallsOf(each)
        PROVE  Placed(scopes, scopeOf, t)
    <3>1. DOMAIN ast[n].kids = 1..Len(ast[n].kids)
      BY <1>1, <1>2, TreeNodes
    <3>2. PICK i \in 1..Len(ast[n].kids) : t = Task("typecheckExpr", Kid(n, i), s)
      BY <3>1 DEF CallsOf, ForEach, Kid
    <3> QED BY <2>3, <3>2, KidPlaced
  <2>5. Hands(each)
    BY <1>1, <1>2, <2>3, HandsEach
  <2> HIDE DEF each, rest
  <2>6. Claim(rest) = {} /\ Follows(rest) = {}
    BY <2>2, ClaimOf
  <2>7. Hands(<<rest>>) /\ CallsOf(<<rest>>) = {rest}
    BY <2>2, <2>6, HandsOne, CallsOfFew
  <2>8. Hands(each \o <<rest>>)
    BY <2>5, <2>6, <2>7, HandsMore
  <2>9. CallsOf(each \o <<rest>>) = CallsOf(each) \cup {rest}
    <3>1. each \in Seq(Tasks) /\ <<rest>> \in Seq(Tasks)
      BY <2>5, <2>7 DEF Hands
    <3> QED BY <2>7, <3>1, CallsTogether
  <2>10. Placed(scopes, scopeOf, rest)
    BY <1>1, <2>2 DEF Placed
  <2> QED BY <1>1, <2>1, <2>4, <2>8, <2>9, <2>10, QuietSound
<1> QED BY <1>3, <1>4, <1>5

(* The checker keeps what it relies on.                                    *)
LEMMA CheckerKeeps ==
  ASSUME AtWork, AnalysisStep, phase' # "crashed", Later(scopes, scopes'), FineScopes(scopes')
  PROVE  Checking'
BY ReturnSteps, IdentStep, DefaultStep, GlobalSteps, LocalStep, EnterSteps, DeclarationStep,
   FirstKidStep, NextKidStep, HandSteps
   DEF AnalysisStep, resolveNode, typecheckStmt, typecheckExpr

-----------------------------------------------------------------------------
(* The calls that the analysis starts with: every declaration is resolved, *)
(* then every declaration is checked.                                      *)

LEMMA StartClaims ==
  ASSUME WellFormed(ast), NEW first, first = ForEach("resolveNode", ast[1].kids, 1),
         NEW second, second = ForEach("typecheckStmt", ast[1].kids, 1)
  PROVE  Claims(first \o second) /\ CallsOf(first \o second) = CallsOf(first) \cup CallsOf(second)
<1> DEFINE count == Len(ast[1].kids)
           all == first \o second
<1>1. /\ 1 \in DOMAIN ast /\ ~ Opens(1) /\ count \in Nat
      /\ DOMAIN ast[1].kids = 1..count /\ ast[1].kids \in Seq(Nat)
  <2>1. 1 \in DOMAIN ast /\ ast[1].kids \in Seq(DOMAIN ast) /\ DOMAIN ast \subseteq Nat
    BY TreeNodes
  <2>2. ast[1].kind = "PROGRAM"
    BY DEF WellFormed
  <2>3. ast[1].kids \in Seq(Nat)
    BY <2>1
  <2> QED BY <2>1, <2>2, <2>3 DEF Opens
<1>2. /\ first \in Seq(Tasks) /\ second \in Seq(Tasks)
      /\ Len(first) = count /\ Len(second) = count
      /\ \A i \in 1..count : /\ first[i].do = "resolveNode" /\ first[i].n = Kid(1, i)
                             /\ second[i].do = "typecheckStmt" /\ second[i].n = Kid(1, i)
  <2>1. first \in Seq(Tasks) /\ second \in Seq(Tasks)
    BY <1>1, EachCall DEF OneScope, SemanticTasks
  <2>2. DOMAIN first = 1..count /\ DOMAIN second = 1..count
    BY <1>1 DEF ForEach
  <2>3. Len(first) = count /\ Len(second) = count
    <3> HIDE DEF count
    <3> QED BY <1>1, <2>1, <2>2
  <2>4. \A i \in 1..count : /\ first[i].do = "resolveNode" /\ first[i].n = Kid(1, i)
                            /\ second[i].do = "typecheckStmt" /\ second[i].n = Kid(1, i)
    BY <1>1 DEF ForEach, Task, Kid
  <2> QED BY <2>1, <2>3, <2>4
<1>3. ASSUME NEW i \in 1..count
      PROVE  /\ Kid(1, i) \in DOMAIN ast
             /\ Claim(first[i]) \subseteq Subtree[Kid(1, i)]
             /\ Claim(second[i]) \subseteq Subtree[Kid(1, i)]
             /\ Claim(first[i]) = {} \/ Claim(second[i]) = {}
             /\ Follows(first[i]) = {} /\ Follows(second[i]) = {}
  <2>1. Kid(1, i) \in DOMAIN ast
    BY <1>1, KidsInTree
  <2>2. SubtreesFrom(Kid(1, i), 1) \subseteq Subtree[Kid(1, i)]
    BY <2>1, FromSubtrees
  <2>3. /\ Claim(first[i]) = IF Refused(Kid(1, i)) THEN SubtreesFrom(Kid(1, i), 1) ELSE {}
        /\ Claim(second[i]) = IF Refused(Kid(1, i)) THEN {} ELSE Subtree[Kid(1, i)]
    BY <1>2 DEF Claim
  <2>4. Follows(first[i]) = {}
    BY <1>2 DEF Follows
  <2>5. Follows(second[i]) = {}
    <3> SUFFICES ASSUME NEW x \in Follows(second[i]) PROVE FALSE
      OBVIOUS
    <3>1. PICK p \in DOMAIN ast : \E k, j \in 1..Len(ast[p].kids) :
             Opens(p) /\ k < j /\ Kid(p, k) = Kid(1, i) /\ x \in Subtree[Kid(p, j)]
      BY <1>2 DEF Follows
    <3>2. p = 1
      BY <1>1, <3>1, OnlyParent
    <3> QED BY <1>1, <3>1, <3>2
  <2> QED BY <2>1, <2>2, <2>3, <2>4, <2>5
<1>4. ASSUME NEW i \in 1..count, NEW j \in 1..count, i # j
      PROVE  Subtree[Kid(1, i)] \cap Subtree[Kid(1, j)] = {}
  BY <1>1, <1>4, SubtreesApart
<1>5. CallsOf(all) = CallsOf(first) \cup CallsOf(second)
  BY <1>2, CallsTogether
<1>6. /\ DOMAIN all = 1..(count + count)
      /\ \A k \in DOMAIN all :
           \/ k \in 1..count /\ all[k] = first[k]
           \/ k > count /\ k - count \in 1..count /\ all[k] = second[k - count]
  <2> HIDE DEF count
  <2>1. DOMAIN all = 1..(Len(first) + Len(second))
    BY <1>2, Joined
  <2>2. \A k \in 1..Len(first) : all[k] = first[k]
    BY <1>2, Joined
  <2>3. \A k \in DOMAIN all :
          k \in 1..Len(first) \/ (k > Len(first) /\ k - Len(first) \in 1..Len(second)
                                     /\ all[k] = second[k - Len(first)])
    BY <1>2, Joined
  <2> HIDE DEF all
  <2> QED BY <1>2, <2>1, <2>2, <2>3
<1> HIDE DEF all, count
<1>7. ASSUME NEW k \in DOMAIN all, NEW l \in DOMAIN all, k < l
      PROVE  Claim(all[k]) \cap Claim(all[l]) = {} /\ Claim(all[k]) \cap Follows(all[l]) = {}
  <2>1. PICK i \in 1..count : \/ i = k /\ all[k] = first[i]
                              \/ i = k - count /\ k > count /\ all[k] = second[i]
    BY <1>6
  <2>2. PICK j \in 1..count : \/ j = l /\ all[l] = first[j]
                              \/ j = l - count /\ l > count /\ all[l] = second[j]
    BY <1>6
  <2>3. Follows(all[l]) = {}
    BY <1>3, <2>2
  <2>4. /\ Claim(all[k]) \subseteq Subtree[Kid(1, i)]
        /\ Claim(all[l]) \subseteq Subtree[Kid(1, j)]
    BY <1>3, <2>1, <2>2
  <2>5. CASE i # j
    BY <1>4, <2>3, <2>4, <2>5
  <2>6. CASE i = j
    <3>1. k = i /\ l # i
      BY <1>1, <1>6, <1>7, <2>1, <2>2, <2>6
    <3>2. all[k] = first[i] /\ all[l] = second[i]
      BY <1>1, <2>1, <2>2, <2>6, <3>1
    <3> QED BY <1>3, <2>3, <3>2
  <2> QED BY <2>5, <2>6
<1> QED BY <1>5, <1>7 DEF Claims, all

Unmarked == \A n \in DOMAIN ast : scopeOf[n] = 0 /\ bound[n] = NullSymbol

LEMMA CheckingStart ==
  ASSUME WellFormed(ast), Unmarked, BeginAnalysis
  PROVE  Checking'
<1> DEFINE first == ForEach("resolveNode", ast[1].kids, 1)
           second == ForEach("typecheckStmt", ast[1].kids, 1)
           so == scopeOf
           ss == scopes'
<1>1. /\ stack' = first \o second /\ ast' = ast /\ scopeOf' = scopeOf /\ bound' = bound
      /\ scopes' = <<initScope(<<>>, 0)>>
  BY DEF BeginAnalysis, annotations
<1>2. 1 \in DOMAIN ast /\ ~ Opens(1) /\ DOMAIN ast[1].kids = 1..Len(ast[1].kids)
  <2>1. ast[1].kind = "PROGRAM"
    BY DEF WellFormed
  <2> QED BY <2>1, TreeNodes DEF Opens
<1>3. /\ Claims(first \o second)
      /\ CallsOf(first \o second) = CallsOf(first) \cup CallsOf(second)
  BY StartClaims
<1>4. 1 \in DOMAIN ss /\ ss[1].chain = {1}
  <2> DEFINE none == <<>>
             scope == initScope(none, 0)
  <2>1. Len(none) = 0
    OBVIOUS
  <2>2. scope.chain = {1}
    <3> HIDE DEF none
    <3> QED BY <2>1 DEF initScope
  <2>3. ss = <<scope>>
    BY <1>1
  <2> HIDE DEF scope, ss
  <2>4. 1 \in DOMAIN ss /\ ss[1] = scope
    BY <2>3
  <2> QED BY <2>2, <2>4
<1>5. OwnScopes(so)
  BY DEF OwnScopes, Unmarked
<1>6. AllBound(ss, so, bound)
  BY DEF AllBound, Unmarked
<1>7. ASSUME NEW t \in CallsOf(first) \cup CallsOf(second)
      PROVE  Placed(ss, so, t) /\ Fresh(so, bound, t)
  <2>1. PICK i \in 1..Len(ast[1].kids) :
           t = Task("resolveNode", Kid(1, i), 1) \/ t = Task("typecheckStmt", Kid(1, i), 1)
    BY <1>2, CallsOfEach DEF Kid
  <2> DEFINE k == Kid(1, i)
  <2>2. k \in Kids(1) /\ k \in DOMAIN ast /\ 1 # k
    BY <1>2, KidsInTree, KidsApart
  <2>3. t.n = k /\ t.s = 1 /\ t.do \in {"resolveNode", "typecheckStmt"}
    BY <2>1 DEF Task
  <2> HIDE DEF k, so, ss
  <2>4. Home(so, k, 1)
    <3>1. \A q \in DOMAIN ast : q # 1 /\ k \in Subtree[q] => k = q
      <4> SUFFICES ASSUME NEW q \in DOMAIN ast, q # 1, k \in Subtree[q], k # q PROVE FALSE
        OBVIOUS
      <4>1. 1 \in Subtree[q]
        BY <1>2, <2>2, ParentInSubtree
      <4>2. q <= 1 /\ q \in Nat /\ q >= 1
        <5>1. q <= 1 /\ q \in Nat
          BY <4>1, SubtreeInTree, TreeNodes
        <5>2. DOMAIN ast = 1..Len(ast)
          BY DEF WellFormed
        <5> QED BY <5>1, <5>2
      <4> QED BY <4>2
    <3> QED BY <1>2, <3>1 DEF Home
  <2>5. Around(ss, so, k, 1)
    BY <1>4 DEF Around
  <2>6. Placed(ss, so, t)
    BY <1>4, <2>2, <2>3, <2>4, <2>5 DEF Placed
  <2>7. Claim(t) \cup Follows(t) \subseteq DOMAIN ast
    BY <2>2, <2>3, ClaimInTree
  <2>8. Fresh(so, bound, t)
    BY <2>7 DEF Fresh, Unmarked, so
  <2> QED BY <2>6, <2>8
<1>8. Sound(ss, so, bound, CallsOf(stack'))
  BY <1>1, <1>3, <1>5, <1>6, <1>7 DEF Sound
<1> QED BY <1>1, <1>3, <1>8, TreeKept

-----------------------------------------------------------------------------
(* The generator gets to every node in the scope that the checker was in.  *)

Sited(so, t) ==
  /\ t \in Tasks
  /\ t.do \in {"genStmt", "genExpression", "elseJump", "outJump"} => Home(so, t.n, t.s)

AllSited(so, tasks) == tasks \in Seq(Tasks) /\ \A t \in CallsOf(tasks) : Sited(so, t)

LEMMA SitedTogether ==
  ASSUME NEW so, NEW b, AllSited(so, b), NEW c, AllSited(so, c)
  PROVE  AllSited(so, b \o c)
<1>1. b \in Seq(Tasks) /\ c \in Seq(Tasks)
  BY DEF AllSited
<1>2. b \o c \in Seq(Tasks)
  BY ONLY <1>1
<1>3. CallsOf(b \o c) = CallsOf(b) \cup CallsOf(c)
  BY ONLY <1>1, CallsTogether
<1> QED BY <1>2, <1>3 DEF AllSited

LEMMA SitedNext ==
  ASSUME NEW so, AllSited(so, stack), stack # <<>>,
         Return \/ \E tasks : AllSited(so, tasks) /\ Call(tasks)
  PROVE  AllSited(so, stack')
<1>1. stack \in Seq(Tasks)
  BY DEF AllSited
<1>2. CallsOf(stack) = {Top} \cup CallsOf(Tail(stack)) /\ Tail(stack) \in Seq(Tasks)
  BY <1>1, TopAndRest
<1>3. AllSited(so, Tail(stack))
  BY <1>2 DEF AllSited
<1>4. CASE Return
  BY <1>3, <1>4 DEF Return
<1>5. CASE \E tasks : AllSited(so, tasks) /\ Call(tasks)
  <2>1. PICK tasks : AllSited(so, tasks) /\ Call(tasks)
    BY <1>5
  <2>2. AllSited(so, tasks \o Tail(stack))
    BY <1>3, <2>1, SitedTogether
  <2> QED BY <2>1, <2>2 DEF Call
<1> QED BY <1>4, <1>5

LEMMA SitedCall ==
  ASSUME NEW so, NEW do \in CodegenTasks, NEW n \in Nat, NEW s \in Nat, NEW at \in Nat,
         do \in {"genStmt", "genExpression", "elseJump", "outJump"} => Home(so, n, s)
  PROVE  Sited(so, TaskAt(do, n, s, at)) /\ Sited(so, Task(do, n, s))
<1>1. TaskAt(do, n, s, at) \in Tasks /\ Task(do, n, s) \in Tasks
  BY DEF Task, TaskAt, Tasks
<1>2. /\ TaskAt(do, n, s, at).do = do /\ TaskAt(do, n, s, at).n = n /\ TaskAt(do, n, s, at).s = s
      /\ Task(do, n, s).do = do /\ Task(do, n, s).n = n /\ Task(do, n, s).s = s
  BY DEF Task, TaskAt
<1> HIDE DEF Task, TaskAt
<1> QED BY <1>1, <1>2 DEF Sited

LEMMA SitedFew ==
  ASSUME NEW so, NEW t, Sited(so, t)
  PROVE  /\ AllSited(so, <<t>>)
         /\ \A u : Sited(so, u) => AllSited(so, <<t, u>>)
         /\ \A u, v : Sited(so, u) /\ Sited(so, v) => AllSited(so, <<t, u, v>>)
<1>0. t \in Tasks
  BY DEF Sited
<1>1. AllSited(so, <<t>>)
  BY <1>0, CallsOfFew DEF AllSited
<1>2. ASSUME NEW u, Sited(so, u)
      PROVE  AllSited(so, <<t, u>>)
  <2>1. u \in Tasks
    BY <1>2 DEF Sited
  <2>2. CallsOf(<<t, u>>) = {t, u} /\ <<t, u>> \in Seq(Tasks)
    BY <1>0, <2>1, CallsOfFew
  <2> QED BY <1>2, <2>2 DEF AllSited
<1>3. ASSUME NEW u, NEW v, Sited(so, u), Sited(so, v)
      PROVE  AllSited(so, <<t, u, v>>)
  <2>1. u \in Tasks /\ v \in Tasks
    BY <1>3 DEF Sited
  <2>2. CallsOf(<<t, u, v>>) = {t, u, v} /\ <<t, u, v>> \in Seq(Tasks)
    BY <1>0, <2>1, CallsOfFew
  <2> QED BY <1>3, <2>2 DEF AllSited
<1> QED BY <1>1, <1>2, <1>3

LEMMA SitedEach ==
  ASSUME NEW so, NEW do \in {"genStmt", "genExpression"}, NEW nodes \in Seq(Nat), NEW s \in Nat,
         \A i \in DOMAIN nodes : Home(so, nodes[i], s)
  PROVE  AllSited(so, ForEach(do, nodes, s))
<1> DEFINE tasks == ForEach(do, nodes, s)
<1>1. DOMAIN nodes = 1..Len(nodes) /\ Len(nodes) \in Nat
  OBVIOUS
<1>2. ASSUME NEW i \in 1..Len(nodes)
      PROVE  Sited(so, Task(do, nodes[i], s))
  <2>1. nodes[i] \in Nat /\ Home(so, nodes[i], s) /\ do \in CodegenTasks
    BY <1>1 DEF CodegenTasks
  <2> QED BY <2>1, SitedCall
<1>3. tasks = [i \in 1..Len(nodes) |-> Task(do, nodes[i], s)]
  BY <1>1 DEF ForEach
<1>4. tasks \in Seq(Tasks)
  BY <1>1, <1>2, <1>3 DEF Sited
<1>5. CallsOf(tasks) = {Task(do, nodes[i], s) : i \in DOMAIN nodes}
  BY CallsOfEach
<1> HIDE DEF tasks
<1> QED BY <1>1, <1>2, <1>4, <1>5 DEF AllSited, tasks

(* The statements of a function or a block are in its scope.               *)
LEMMA SitedStmts ==
  ASSUME WellFormed(ast), NEW n \in DOMAIN ast, Opens(n), scopeOf[n] \in Nat
  PROVE  AllSited(scopeOf, genStmts(n))
<1> DEFINE s == scopeOf[n]
           kids == ast[n].kids
           first == ForEach("genStmt", kids, s)
           last == Task("endScope", n, s)
<1>1. n \in Nat /\ s \in Nat /\ kids \in Seq(Nat) /\ DOMAIN kids = 1..Len(kids)
  <2>1. n \in Nat /\ kids \in Seq(DOMAIN ast) /\ DOMAIN ast \subseteq Nat
    BY TreeNodes
  <2> HIDE DEF kids, s
  <2> QED BY <2>1 DEF s
<1>2. \A i \in DOMAIN kids : Home(scopeOf, kids[i], s)
  <2>1. \A i \in 1..Len(kids) : kids[i] \in Kids(n)
    BY KidsInTree DEF Kid
  <2> QED BY <1>1, <2>1, KidHome
<1> HIDE DEF kids, s
<1>3. AllSited(scopeOf, first)
  BY <1>1, <1>2, SitedEach
<1>4. Sited(scopeOf, last)
  BY <1>1, SitedCall DEF CodegenTasks
<1> HIDE DEF first, last
<1>5. AllSited(scopeOf, <<last>>)
  BY <1>4, SitedFew
<1>6. AllSited(scopeOf, first \o <<last>>)
  BY <1>3, <1>5, SitedTogether
<1> QED BY <1>6 DEF genStmts, first, last, kids, s

(* The kids of the others are in the scope of the node itself.             *)
LEMMA SitedKid ==
  ASSUME WellFormed(ast), NEW n \in DOMAIN ast, ~ Opens(n), NEW s \in Nat, Home(scopeOf, n, s),
         NEW i \in 1..Len(ast[n].kids)
  PROVE  Sited(scopeOf, Task("genExpression", Kid(n, i), s)) /\ Home(scopeOf, Kid(n, i), s)
<1>1. Kid(n, i) \in Kids(n) /\ Kid(n, i) \in Nat
  BY KidsInTree, TreeNodes
<1>2. Home(scopeOf, Kid(n, i), s)
  BY <1>1, KidHome
<1> DEFINE k == Kid(n, i)
<1>3. k \in Nat /\ Home(scopeOf, k, s)
  BY <1>1, <1>2
<1> HIDE DEF k
<1>4. Sited(scopeOf, Task("genExpression", k, s))
  BY <1>3, SitedCall DEF CodegenTasks
<1> QED BY <1>2, <1>4 DEF k

LEMMA SitedTop ==
  ASSUME WellFormed(ast), PassOK, AllSited(scopeOf, stack), NEW do \in CodegenTasks, Running(do)
  PROVE  /\ stack # <<>> /\ Top.do = do /\ Fits(Top, Len(scopes))
         /\ Top.n \in DOMAIN ast /\ Top.n \in Nat /\ Top.s \in Nat /\ Top.at \in Nat
         /\ ast[Top.n].kids \in Seq(Nat) /\ scopeOf[Top.n] \in Nat
         /\ do \in {"genStmt", "genExpression", "elseJump", "outJump"} =>
              Home(scopeOf, Top.n, Top.s)
<1>1. /\ stack # <<>> /\ Top.do = do /\ Top.n \in DOMAIN ast /\ Top.n \in Nat /\ Top.at \in Nat
      /\ Top.s \in 0..Len(scopes) /\ Len(scopes) \in Nat /\ NotesOK /\ Fits(Top, Len(scopes))
  BY CodegenTop
<1>2. stack \in Seq(Tasks)
  BY DEF AllSited
<1>3. Sited(scopeOf, Top)
  BY <1>1, <1>2, TopAndRest DEF AllSited
<1>4. Top.s \in Nat /\ scopeOf[Top.n] \in Nat
  BY <1>1 DEF NotesOK
<1>5. ast[Top.n].kids \in Seq(Nat)
  <2>1. ast[Top.n].kids \in Seq(DOMAIN ast) /\ DOMAIN ast \subseteq Nat
    BY <1>1, TreeNodes
  <2> QED BY <2>1
<1> QED BY <1>1, <1>3, <1>4, <1>5 DEF Sited

LEMMA GenStmtSited ==
  ASSUME WellFormed(ast), PassOK, AllSited(scopeOf, stack), genStmt, phase' # "crashed"
  PROVE  AllSited(scopeOf, stack')
<1> DEFINE n == Top.n
           s == Top.s
<1> USE DEF CodegenTasks, RunningOn
<1>1. CASE genFunc
  <2>1. stack # <<>> /\ n \in DOMAIN ast /\ n \in Nat /\ Opens(n) /\ scopeOf[n] \in Nat
    BY <1>1, SitedTop DEF genFunc, Opens
  <2> DEFINE last == Task("emitReturn", n, 0)
  <2>2. Call(genStmts(n) \o <<last>>)
    BY <1>1 DEF genFunc
  <2>3. AllSited(scopeOf, genStmts(n))
    BY <2>1, SitedStmts
  <2>4. Sited(scopeOf, last)
    <3> HIDE DEF n
    <3> QED BY <2>1, SitedCall
  <2> HIDE DEF last
  <2>5. AllSited(scopeOf, genStmts(n) \o <<last>>)
    BY <2>3, <2>4, SitedFew, SitedTogether
  <2> QED BY <2>1, <2>2, <2>5, SitedNext
<1>2. CASE genVar
  <2>1. /\ stack # <<>> /\ n \in DOMAIN ast /\ s \in Nat /\ Home(scopeOf, n, s)
        /\ ast[n].kind = "DECL_VAR" /\ ~ Opens(n)
    BY <1>2, SitedTop DEF genVar, Opens
  <2> DEFINE first == Task("genExpression", Kid(n, 1), s)
  <2>2. Call(<<first>>)
    BY <1>2 DEF genVar
  <2>3. 1 \in 1..Len(ast[n].kids)
    BY <2>1, OnlyKid
  <2> HIDE DEF n, s
  <2>4. Sited(scopeOf, first)
    BY <2>1, <2>3, SitedKid
  <2> HIDE DEF first
  <2> QED BY <2>1, <2>2, <2>4, SitedFew, SitedNext
<1>3. CASE genExprStmt
  <2>1. stack # <<>> /\ n \in Nat /\ s \in Nat /\ Home(scopeOf, n, s)
    BY <1>3, SitedTop DEF genExprStmt
  <2> DEFINE first == Task("genExpression", n, s)
             last == Task("popUnused", n, 0)
  <2>2. Call(<<first, last>>)
    BY <1>3 DEF genExprStmt, Expand
  <2> HIDE DEF n, s
  <2>3. Sited(scopeOf, first) /\ Sited(scopeOf, last)
    BY <2>1, SitedCall
  <2> HIDE DEF first, last
  <2> QED BY <2>1, <2>2, <2>3, SitedFew, SitedNext
<1>4. CASE popUnused \/ emitReturn
  <2>1. stack # <<>> /\ Return
    BY <1>4 DEF popUnused, emitReturn, Written, Running
  <2> QED BY <2>1, SitedNext
<1>5. CASE endScope
  <2>1. stack # <<>> /\ Return
    BY <1>5 DEF endScope, Written, Running, Crash
  <2> QED BY <2>1, SitedNext
<1> QED BY <1>1, <1>2, <1>3, <1>4, <1>5 DEF genStmt

LEMMA GenExpressionSited ==
  ASSUME WellFormed(ast), PassOK, CodeOK, AllSited(scopeOf, stack),
         genExpression \/ patchEntry, phase' # "crashed"
  PROVE  AllSited(scopeOf, stack')
<1> DEFINE n == Top.n
           s == Top.s
<1> USE DEF CodegenTasks, RunningOn, Gen
<1>0. JumpOffset \in Nat
  BY DEF CodeOK, Code, JumpOffset
<1>1. CASE genLiteral \/ operator \/ patchOut \/ genDefault \/ patchEntry \/ genIdent
  <2>1. stack # <<>> /\ Return
    BY <1>1 DEF genLiteral, operator, patchOut, genDefault, patchEntry, genIdent, Written,
                Running, Crash
  <2> QED BY <2>1, SitedNext
<1>2. CASE genBinop
  <2>1. /\ stack # <<>> /\ n \in DOMAIN ast /\ n \in Nat /\ s \in Nat /\ Home(scopeOf, n, s)
        /\ ast[n].kind = "BINOP" /\ ~ Opens(n)
    BY <1>2, SitedTop DEF genBinop, Opens
  <2> DEFINE right == Task("genExpression", Kid(n, 2), s)
             left == Task("genExpression", Kid(n, 1), s)
             last == Task("operator", n, 0)
  <2>2. Call(<<right, left, last>>)
    BY <1>2 DEF genBinop, Expand
  <2> HIDE DEF n, s
  <2>3. 1 \in 1..Len(ast[n].kids) /\ 2 \in 1..Len(ast[n].kids)
    <3>1. Len(ast[n].kids) = 2
      BY <2>1, KidsCount
    <3> QED BY <3>1
  <2>4. Sited(scopeOf, right) /\ Sited(scopeOf, left)
    BY <2>1, <2>3, SitedKid
  <2>5. Sited(scopeOf, last)
    BY <2>1, SitedCall
  <2> HIDE DEF right, left, last
  <2>6. AllSited(scopeOf, <<right, left, last>>)
    BY <2>4, <2>5, SitedFew
  <2> QED BY <2>1, <2>2, <2>6, SitedNext
<1>3. CASE genBlock
  <2>1. stack # <<>> /\ n \in DOMAIN ast /\ Opens(n) /\ scopeOf[n] \in Nat
    BY <1>3, SitedTop DEF genBlock, Opens
  <2>2. Call(genStmts(n))
    BY <1>3 DEF genBlock, Expand
  <2>3. AllSited(scopeOf, genStmts(n))
    BY <2>1, SitedStmts
  <2> QED BY <2>1, <2>2, <2>3, SitedNext
<1>4. CASE genIf
  <2>1. /\ stack # <<>> /\ n \in DOMAIN ast /\ n \in Nat /\ s \in Nat /\ Home(scopeOf, n, s)
        /\ ast[n].kind = "IF" /\ ~ Opens(n)
    BY <1>4, SitedTop DEF genIf, Opens
  <2> DEFINE first == Task("genExpression", Kid(n, 1), s)
             last == Task("elseJump", n, s)
  <2>2. Call(<<first, last>>)
    BY <1>4 DEF genIf, Expand
  <2>3. 1 \in 1..Len(ast[n].kids)
    BY <2>1, OnlyKid
  <2> HIDE DEF n, s
  <2>4. Sited(scopeOf, first)
    BY <2>1, <2>3, SitedKid
  <2>5. Sited(scopeOf, last)
    BY <2>1, SitedCall
  <2> HIDE DEF first, last
  <2> QED BY <2>1, <2>2, <2>4, <2>5, SitedFew, SitedNext
<1>5. CASE elseJump
  <2>1. /\ stack # <<>> /\ n \in DOMAIN ast /\ n \in Nat /\ s \in Nat /\ Home(scopeOf, n, s)
        /\ ast[n].kind = "IF" /\ ~ Opens(n)
    BY <1>5, SitedTop DEF elseJump, Fits, Opens
  <2> DEFINE offset == JumpOffset
             first == Task("genExpression", Kid(n, 2), s)
             last == TaskAt("outJump", n, s, offset)
  <2>2. Call(<<first, last>>) /\ offset \in Nat
    BY <1>0, <1>5 DEF elseJump
  <2> HIDE DEF n, s, offset
  <2>3. 2 \in 1..Len(ast[n].kids)
    <3> DEFINE count == Len(ast[n].kids)
    <3>1. count \in {2, 3}
      BY <2>1, KidsCount
    <3>2. 2 \in 1..count
      <4> HIDE DEF count
      <4> QED BY <3>1
    <3> QED BY <3>2
  <2>4. Sited(scopeOf, first)
    BY <2>1, <2>3, SitedKid
  <2>5. Sited(scopeOf, last)
    BY <2>1, <2>2, SitedCall
  <2> HIDE DEF first, last
  <2> QED BY <2>1, <2>2, <2>4, <2>5, SitedFew, SitedNext
<1>6. CASE outJump
  <2>1. /\ stack # <<>> /\ n \in DOMAIN ast /\ n \in Nat /\ s \in Nat /\ Home(scopeOf, n, s)
        /\ ast[n].kind = "IF" /\ ~ Opens(n) /\ ast[n].kids \in Seq(Nat)
    BY <1>6, SitedTop DEF outJump, Fits, Opens
  <2> DEFINE offset == JumpOffset
             kids == ast[n].kids
             branch == FalseBranch(n)
             first == ForEach("genExpression", branch, s)
             last == TaskAt("patchOut", n, 0, offset)
  <2>2. Call(first \o <<last>>) /\ offset \in Nat
    BY <1>0, <1>6 DEF outJump
  <2>3. Len(kids) \in {2, 3}
    <3> HIDE DEF n
    <3> QED BY <2>1, KidsCount
  <2>4. Len(kids) = 3 => Home(scopeOf, kids[3], s)
    <3> SUFFICES ASSUME Len(kids) = 3 PROVE Home(scopeOf, kids[3], s)
      OBVIOUS
    <3>1. 3 \in 1..Len(ast[n].kids)
      OBVIOUS
    <3> QED BY <2>1, <3>1, SitedKid DEF Kid
  <2>5. branch = SubSeq(kids, 3, Len(kids))
    BY DEF FalseBranch
  <2>6. kids \in Seq(Nat)
    BY <2>1
  <2> HIDE DEF n, s, kids, branch, offset
  <2>7. branch \in Seq(Nat) /\ \A i \in DOMAIN branch : Len(kids) = 3 /\ branch[i] = kids[3]
    BY ONLY <2>3, <2>5, <2>6
  <2>8. AllSited(scopeOf, first)
    BY <2>1, <2>4, <2>7, SitedEach
  <2>9. Sited(scopeOf, last)
    BY <2>1, <2>2, SitedCall
  <2> HIDE DEF first, last
  <2>10. AllSited(scopeOf, first \o <<last>>)
    BY <2>8, <2>9, SitedFew, SitedTogether
  <2> QED BY <2>1, <2>2, <2>10, SitedNext
<1>7. CASE genExit
  <2>1. /\ stack # <<>> /\ n \in DOMAIN ast /\ n \in Nat /\ s \in Nat /\ Home(scopeOf, n, s)
        /\ ast[n].kind = "EXIT" /\ ~ Opens(n)
    BY <1>7, SitedTop DEF genExit, Opens
  <2> DEFINE first == Task("genExpression", Kid(n, 1), s)
             last == Task("emitReturn", n, 0)
  <2>2. Return \/ Call(<<first, last>>)
    BY <1>7 DEF genExit
  <2>3. 1 \in 1..Len(ast[n].kids)
    BY <2>1, OnlyKid
  <2> HIDE DEF n, s
  <2>4. Sited(scopeOf, first)
    BY <2>1, <2>3, SitedKid
  <2>5. Sited(scopeOf, last)
    BY <2>1, SitedCall
  <2> HIDE DEF first, last
  <2>6. AllSited(scopeOf, <<first, last>>)
    BY <2>4, <2>5, SitedFew
  <2> QED BY <2>1, <2>2, <2>6, SitedNext
<1> QED BY <1>1, <1>2, <1>3, <1>4, <1>5, <1>6, <1>7 DEF genExpression

LEMMA SitedStart ==
  ASSUME WellFormed(ast), BeginCodegen
  PROVE  AllSited(scopeOf, stack')
<1> DEFINE kids == ast[1].kids
           first == ForEach("genStmt", kids, 1)
           last == TaskAt("patchEntry", 1, 0, 1)
<1>1. stack' = first \o <<last>>
  BY DEF BeginCodegen, beginCode
<1>2. kids \in Seq(Nat) /\ DOMAIN kids = 1..Len(kids)
  <2>1. kids \in Seq(DOMAIN ast) /\ DOMAIN ast \subseteq Nat
    BY TreeNodes
  <2> HIDE DEF kids
  <2> QED BY <2>1
<1>3. \A i \in DOMAIN kids : Home(scopeOf, kids[i], 1)
  <2>1. 1 \in DOMAIN ast /\ ~ Opens(1)
    <3>1. ast[1].kind = "PROGRAM"
      BY DEF WellFormed
    <3> QED BY <3>1, TreeNodes DEF Opens
  <2>2. Home(scopeOf, 1, 1)
    <3>1. \A q \in DOMAIN ast : 1 \in Subtree[q] => q = 1
      <4> SUFFICES ASSUME NEW q \in DOMAIN ast, 1 \in Subtree[q] PROVE q = 1
        OBVIOUS
      <4>1. q <= 1 /\ q \in Nat
        BY SubtreeInTree, TreeNodes
      <4>2. DOMAIN ast = 1..Len(ast)
        BY DEF WellFormed
      <4> QED BY <4>1, <4>2
    <3> QED BY <2>1, <3>1 DEF Home
  <2>3. \A i \in 1..Len(kids) : kids[i] \in Kids(1)
    BY <2>1, KidsInTree DEF Kid
  <2> QED BY <1>2, <2>1, <2>2, <2>3, KidHome
<1> HIDE DEF kids
<1>4. AllSited(scopeOf, first)
  BY <1>2, <1>3, SitedEach
<1>5. Sited(scopeOf, last)
  BY SitedCall DEF CodegenTasks
<1> HIDE DEF first, last
<1>6. AllSited(scopeOf, <<last>>)
  BY <1>5, SitedFew
<1> QED BY <1>1, <1>4, <1>6, SitedTogether

-----------------------------------------------------------------------------
(* What the generator writes for a name.                                   *)

(* A name is found again where it was bound, unless it is declared again.  *)
LEMMA FoundAgain ==
  ASSUME WellFormed(ast), FineScopes(scopes),
         bound \in [DOMAIN ast -> [scope : Nat, index : Nat]],
         AllBound(scopes, scopeOf, bound),
         NEW n \in DOMAIN ast, NEW s, Home(scopeOf, n, s), bound[n] # NullSymbol,
         NEW symbol, symbol = scopeLookup(scopes, s, ast[n].name), symbol # NullSymbol
  PROVE  symbol = bound[n] \/ DeclaredLater(n)
<1> DEFINE b == bound[n]
           name == ast[n].name
<1>1. PICK u \in DOMAIN scopes : BoundFrom(scopes, scopeOf, bound, n, u)
  BY DEF AllBound
<1>2. u = s /\ s \in DOMAIN scopes
  BY <1>1, HomeUnique DEF BoundFrom
<1>3. /\ symbol.scope \in scopes[s].chain
      /\ symbol.index \in scopeLookupCurrent(scopes, symbol.scope, name)
      /\ \A i \in scopeLookupCurrent(scopes, symbol.scope, name) : symbol.index <= i
      /\ \A c \in scopes[s].chain : Holds(scopes, c, name) => c <= symbol.scope
      /\ symbol \in [scope : Nat, index : Nat]
  BY <1>2, FoundInnermost
<1>4. /\ b.scope \in scopes[s].chain
      /\ b.index \in scopeLookupCurrent(scopes, b.scope, name)
      /\ \A i \in scopeLookupCurrent(scopes, b.scope, name) : b.index <= i
      /\ \A c \in scopes[s].chain : b.scope < c /\ Holds(scopes, c, name) => DeclaredLater(n)
  BY <1>1, <1>2 DEF BoundFrom
<1>5. b \in [scope : Nat, index : Nat]
  OBVIOUS
<1> HIDE DEF b, name
<1>6. Holds(scopes, symbol.scope, name) /\ b.scope <= symbol.scope
  BY <1>3, <1>4 DEF Holds
<1>7. CASE b.scope < symbol.scope
  BY <1>3, <1>4, <1>6, <1>7
<1>8. CASE b.scope = symbol.scope
  <2>1. b.index <= symbol.index /\ symbol.index <= b.index
    BY <1>3, <1>4, <1>8
  <2>2. b.index = symbol.index
    BY <1>3, <1>5, <2>1
  <2>3. symbol = b
    BY <1>3, <1>5, <1>8, <2>2
  <2> QED BY <2>3 DEF b
<1>9. b.scope \in Nat /\ symbol.scope \in Nat
  BY <1>3, <1>5
<1> QED BY <1>6, <1>7, <1>8, <1>9

LEMMA OneAppended ==
  ASSUME NEW S, NEW a \in Seq(S), NEW e, NEW i \in DOMAIN Append(a, e), i \notin DOMAIN a
  PROVE  Append(a, e)[i] = e /\ i = Len(a) + 1
<1> DEFINE T == S \cup {e}
<1>1. a \in Seq(T) /\ e \in T
  OBVIOUS
<1> HIDE DEF T
<1>2. /\ DOMAIN Append(a, e) = 1..(Len(a) + 1) /\ DOMAIN a = 1..Len(a) /\ Len(a) \in Nat
      /\ Append(a, e)[Len(a) + 1] = e
  BY ONLY <1>1
<1> QED BY <1>2

(* Only names are written as GET_LOCAL.                                    *)
Nameless == \A i \in DOMAIN log' : i \in DOMAIN log \/ log'[i].op # "GET_LOCAL"

LEMMA NamelessByte ==
  ASSUME CodeOK, NEW op, op # "GET_LOCAL", NEW at, NEW n,
         log' = Append(log, Logged(at, op, n))
  PROVE  Nameless
<1> DEFINE entry == Logged(at, op, n)
<1>1. entry.op # "GET_LOCAL"
  BY DEF Logged
<1>2. log' = Append(log, entry) /\ log \in Seq(Instruction)
  BY DEF CodeOK
<1> HIDE DEF entry
<1> QED BY <1>1, <1>2, OneAppended DEF Nameless

LEMMA NamelessPops ==
  ASSUME CodeOK, NEW pops \in Nat, NEW n,
         log' = log \o [i \in 1..pops |-> Logged(Len(code) + i - 1, "POP", n)]
  PROVE  Nameless
<1> DEFINE entries == [i \in 1..pops |-> Logged(Len(code) + i - 1, "POP", n)]
           T == {Logged(Len(code) + i - 1, "POP", n) : i \in 1..pops} \cup Instruction
<1>1. DOMAIN entries = 1..pops /\ \A i \in 1..pops : entries[i].op = "POP"
  BY DEF Logged
<1>2. log \in Seq(T) /\ entries \in Seq(T) /\ Len(entries) = pops
  <2>1. log \in Seq(Instruction)
    BY DEF CodeOK
  <2>2. entries \in [1..pops -> T]
    OBVIOUS
  <2>3. Instruction \subseteq T
    OBVIOUS
  <2> HIDE DEF T, entries
  <2> QED BY <2>1, <2>2, <2>3
<1>3. log' = log \o entries
  OBVIOUS
<1> HIDE DEF T, entries
<1>4. \A i \in DOMAIN log' :
        \/ i \in DOMAIN log
        \/ i - Len(log) \in 1..pops /\ log'[i] = entries[i - Len(log)]
  <2>1. DOMAIN log = 1..Len(log)
    BY <1>2, Joined
  <2>2. \A i \in DOMAIN (log \o entries) :
          i \in 1..Len(log) \/ (i > Len(log) /\ i - Len(log) \in 1..Len(entries)
                                   /\ (log \o entries)[i] = entries[i - Len(log)])
    BY <1>2, Joined
  <2> QED BY <1>2, <1>3, <2>1, <2>2
<1> QED BY <1>1, <1>4 DEF Nameless

LEMMA NamelessStep ==
  ASSUME WellFormed(ast), PassOK, CodeOK, phase' # "crashed", CodegenStep, ~ genIdent
  PROVE  Nameless
<1> USE DEF codegenVars, chunk, Expand
<1>1. ASSUME log' = log
      PROVE  Nameless
  BY <1>1 DEF Nameless
<1>2. CASE genFunc \/ genVar \/ genExprStmt \/ genBinop \/ genBlock \/ genIf \/ genExit
           \/ genDefault \/ patchOut \/ patchEntry
  BY <1>1, <1>2
     DEF genFunc, genVar, genExprStmt, genBinop, genBlock, genIf, genExit, genDefault, patchOut,
         patchEntry
<1>3. CASE popUnused \/ emitReturn
  BY <1>1, <1>3, NamelessByte DEF popUnused, emitReturn, emitByte, emit
<1>4. CASE endScope
  <2> DEFINE pops == Len(scopes[Top.s].symbols)
             n == Top.n
  <2>1. Top.s # 0 /\ Top.s \in 0..Len(scopes) /\ FineScopes(scopes)
    <3>1. Top.s # 0
      BY <1>4 DEF endScope, Crash
    <3> QED BY <1>4, <3>1, CodegenTop DEF endScope, CodegenTasks
  <2>2. log' = log \o [i \in 1..pops |-> Logged(Len(code) + i - 1, "POP", n)]
    BY <1>4, <2>1 DEF endScope
  <2>3. pops \in Nat
    <3>1. scopes[Top.s] \in Scope
      BY <2>1 DEF FineScopes, FineScope
    <3> QED BY <3>1 DEF Scope
  <2> HIDE DEF pops, n
  <2> QED BY <2>2, <2>3, NamelessPops
<1>5. CASE genLiteral
  BY <1>5, NamelessByte DEF genLiteral, emitConstant, emit
<1>6. CASE operator
  <2>1. log' = log \/ (ast[Top.n].op \in operators /\ emitByte(OperatorOp(ast[Top.n].op), Top.n))
    BY <1>6 DEF operator
  <2>2. CASE log' = log
    BY <1>1, <2>2
  <2>3. CASE ast[Top.n].op \in operators /\ emitByte(OperatorOp(ast[Top.n].op), Top.n)
    <3> DEFINE op == ast[Top.n].op
    <3>1. op \in operators /\ emitByte(OperatorOp(op), Top.n)
      BY <2>3
    <3> HIDE DEF op
    <3>2. OperatorOp(op) # "GET_LOCAL"
      BY <3>1 DEF operators, OperatorOp
    <3> QED BY <3>1, <3>2, NamelessByte DEF emitByte, emit
  <2> QED BY <2>1, <2>2, <2>3
<1>7. CASE elseJump
  BY <1>7, NamelessByte DEF elseJump, emitJump, emit
<1>8. CASE outJump
  BY <1>8, NamelessByte DEF outJump
<1> QED BY <1>2, <1>3, <1>4, <1>5, <1>6, <1>7, <1>8 DEF CodegenStep, genStmt, genExpression

-----------------------------------------------------------------------------
(* The byte that is written for a name, and the ones before it.            *)

Reads(bytes, entry) == bytes[entry.at + 2] = uint8(SymbolAt(scopes, bound[entry.n]).funcIndex)

NamesRead(bytes, entries) ==
  \A i \in DOMAIN entries :
    entries[i].op = "GET_LOCAL" /\ bound[entries[i].n] # NullSymbol =>
      Reads(bytes, entries[i]) \/ DeclaredLater(entries[i].n)

LEMMA NameWritten ==
  ASSUME WellFormed(ast), PassOK, CodeOK, phase' # "crashed", genIdent,
         AllBound(scopes, scopeOf, bound), AllSited(scopeOf, stack),
         NEW i \in DOMAIN log', i \notin DOMAIN log, bound[log'[i].n] # NullSymbol
  PROVE  Reads(code', log'[i]) \/ DeclaredLater(log'[i].n)
<1> DEFINE n == Top.n
           s == Top.s
           symbol == scopeLookup(scopes, s, ast[n].name)
           byte == uint8(SymbolAt(scopes, symbol).funcIndex)
           entry == Logged(Len(code), "GET_LOCAL", n)
<1> USE DEF RunningOn, Gen
<1>1. symbol # NullSymbol /\ emit("GET_LOCAL", <<byte>>, n)
  BY DEF genIdent, Crash
<1>2. Running("genExpression") /\ "genExpression" \in CodegenTasks
  BY DEF genIdent, CodegenTasks
<1>3. /\ stack # <<>> /\ Top.do = "genExpression" /\ n \in DOMAIN ast /\ s \in 0..Len(scopes)
      /\ FineScopes(scopes) /\ NotesOK
  BY <1>2, CodegenTop
<1>4. Home(scopeOf, n, s)
  <2>1. stack \in Seq(Tasks)
    BY DEF AllSited
  <2>2. Top \in CallsOf(stack)
    BY <1>3, <2>1, TopAndRest
  <2> QED BY <1>3, <2>2 DEF AllSited, Sited
<1>5. log'[i] = entry
  <2>1. log' = Append(log, entry) /\ log \in Seq(Instruction)
    BY <1>1 DEF emit, CodeOK
  <2> HIDE DEF entry
  <2> QED BY <2>1, OneAppended
<1>6. entry.at = Len(code) /\ entry.n = n
  BY DEF Logged
<1>7. symbol = bound[n] \/ DeclaredLater(n)
  <2>1. bound \in [DOMAIN ast -> [scope : Nat, index : Nat]]
    BY <1>3 DEF NotesOK
  <2>2. bound[n] # NullSymbol
    <3> HIDE DEF entry
    <3> QED BY <1>5, <1>6
  <2>3. symbol = scopeLookup(scopes, s, ast[n].name)
    OBVIOUS
  <2> HIDE DEF symbol, n, s
  <2> QED BY <1>1, <1>3, <1>4, <2>1, <2>2, <2>3, FoundAgain
<1>8. code'[Len(code) + 2] = byte
  <2>1. code' = code \o <<Opcode["GET_LOCAL"]>> \o <<byte>>
    BY <1>1 DEF emit
  <2> DEFINE opcode == Opcode["GET_LOCAL"]
             T == Byte \cup {opcode, byte}
  <2>2. code \in Seq(Byte) /\ Len(code) \in Nat /\ Byte \subseteq T
    BY DEF CodeOK, Code
  <2>3. opcode \in T /\ byte \in T /\ code' = code \o <<opcode>> \o <<byte>>
    BY <2>1
  <2> HIDE DEF opcode, T, byte
  <2>4. code \in Seq(T) /\ <<byte>> \in Seq(T)
    BY <2>2, <2>3
  <2> DEFINE operands == <<byte>>
  <2>5. Len(operands) = 1 /\ operands[1] = byte
    OBVIOUS
  <2> HIDE DEF operands
  <2>6. \A k \in 1..Len(operands) :
          (code \o <<opcode>> \o operands)[Len(code) + 1 + k] = operands[k]
    BY <2>3, <2>4, JoinedThree DEF operands
  <2>7. 1 \in 1..Len(operands)
    BY <2>5
  <2>8. (code \o <<opcode>> \o operands)[Len(code) + 1 + 1] = byte
    BY <2>5, <2>6, <2>7
  <2>9. Len(code) + 1 + 1 = Len(code) + 2
    BY <2>2
  <2> QED BY <2>3, <2>8, <2>9 DEF operands
<1>9. CASE symbol = bound[n]
  <2>1. byte = uint8(SymbolAt(scopes, bound[n]).funcIndex)
    BY <1>9
  <2> HIDE DEF byte, entry, n
  <2> QED BY <1>5, <1>6, <1>8, <2>1 DEF Reads
<1> HIDE DEF entry, n, symbol
<1> QED BY <1>5, <1>6, <1>7, <1>9

LEMMA NamesStay ==
  ASSUME NEW tasks, NEW entries, Writing(tasks, entries), NamesRead(code, log),
         NEW i \in DOMAIN log, log[i].op = "GET_LOCAL", bound[log[i].n] # NullSymbol
  PROVE  log'[i] = log[i] /\ (Reads(code', log[i]) \/ DeclaredLater(log[i].n))
<1> DEFINE entry == log[i]
<1>1. log'[i] = entry
  BY WrittenLog
<1>2. CodeOK /\ LayoutOK
  BY DEF Writing
<1>3. entry.at \in Nat /\ Width(entry) = 2
  BY <1>2, LogTyped
<1>4. ~ Pairs(Top, entry)
  BY DEF Pairs
<1>5. code'[entry.at + 2] = code[entry.at + 2]
  <2>1. entry.at + 2 \in Nat /\ entry.at < entry.at + 2 /\ entry.at + 2 <= entry.at + Width(entry)
    BY <1>3
  <2> QED BY <1>4, <2>1, Untouched
<1> QED BY <1>1, <1>5 DEF NamesRead, Reads

LEMMA NamesStayRead ==
  ASSUME StateInv, CodeInv, Generate, phase' # "crashed", NamesRead(code, log),
         AllBound(scopes, scopeOf, bound), AllSited(scopeOf, stack)
  PROVE  NamesRead(code', log')
<1>1. /\ WellFormed(ast) /\ PassOK /\ CodeOK /\ CodegenStep
  BY TreeWellFormed DEF StateInv, PassOK, Generate
<1>2. PICK tasks, entries : Writing(tasks, entries)
  BY GenerateWrites DEF Crashes
<1>3. ASSUME NEW i \in DOMAIN log', log'[i].op = "GET_LOCAL", bound[log'[i].n] # NullSymbol
      PROVE  Reads(code', log'[i]) \/ DeclaredLater(log'[i].n)
  <2>1. CASE i \in DOMAIN log
    <3>1. log'[i] = log[i]
      BY <1>2, <2>1, WrittenLog
    <3>2. log[i].op = "GET_LOCAL" /\ bound[log[i].n] # NullSymbol
      BY <1>3, <3>1
    <3> QED BY <1>2, <2>1, <3>1, <3>2, NamesStay
  <2>2. CASE i \notin DOMAIN log /\ genIdent
    BY <1>1, <1>3, <2>2, NameWritten
  <2>3. CASE i \notin DOMAIN log /\ ~ genIdent
    BY <1>1, <1>3, <2>3, NamelessStep DEF Nameless
  <2> QED BY <2>1, <2>2, <2>3
<1> QED BY <1>3 DEF NamesRead

-----------------------------------------------------------------------------
(* The invariant: the walks of the checker and the generator side by side. *)

BindInv ==
  /\ phase \in {"parse", "parsed"} => Unmarked
  /\ phase = "analyse" => Checking
  /\ phase = "generate" => AllBound(scopes, scopeOf, bound) /\ AllSited(scopeOf, stack)
  /\ NamesRead(code, log)

LEMMA BindInit == Init => BindInv
<1> SUFFICES ASSUME Init PROVE BindInv
  OBVIOUS
<1>1. log = <<>> /\ phase = "parse"
  BY DEF Init
<1>2. NamesRead(code, log)
  BY <1>1 DEF NamesRead
<1>3. Unmarked
  BY DEF Init, Unmarked
<1> QED BY <1>1, <1>2, <1>3 DEF BindInv

LEMMA SitedAlone ==
  ASSUME UNCHANGED <<ast, scopeOf>>, NEW tasks, AllSited(scopeOf, tasks), stack' = tasks
  PROVE  AllSited(scopeOf, stack)'
<1>1. \A so, n, s : (Home(so, n, s))' <=> Home(so, n, s)
  BY TreeAlone
<1>2. \A so, t : (Sited(so, t))' <=> Sited(so, t)
  BY <1>1 DEF Sited
<1> QED BY <1>2 DEF AllSited, CallsOf

LEMMA BoundAlone ==
  ASSUME UNCHANGED <<ast, scopes, scopeOf, bound>>, AllBound(scopes, scopeOf, bound)
  PROVE  AllBound(scopes, scopeOf, bound)'
<1>1. \A ss, so, b, n, s : (BoundFrom(ss, so, b, n, s))' <=> BoundFrom(ss, so, b, n, s)
  BY TreeAlone
<1> QED BY <1>1 DEF AllBound

LEMMA ReadAlone ==
  ASSUME UNCHANGED <<ast, scopes, bound>>, NamesRead(code', log')
  PROVE  NamesRead(code, log)'
<1>1. \A n : (DeclaredLater(n))' <=> DeclaredLater(n)
  BY TreeAlone
<1>2. \A bytes, entry : (Reads(bytes, entry))' <=> Reads(bytes, entry)
  BY DEF Reads
<1> QED BY <1>1, <1>2 DEF NamesRead

LEMMA BindStep == StateInv /\ CodeInv /\ BindInv /\ [Next]_vars => BindInv'
<1> SUFFICES ASSUME StateInv, CodeInv, BindInv, [Next]_vars
             PROVE  BindInv'
  OBVIOUS
<1> USE DEF Reject, codegenVars, chunk, driverVars, diagnostics, annotations
<1>1. phase \in {"parse", "parsed", "analyse"} => log = <<>>
  BY DEF CodeInv, UnstartedOK
<1>2. WellFormed(ast) /\ PassOK /\ CodeOK
  BY TreeWellFormed DEF StateInv, PassOK
<1>3. log' = <<>> => NamesRead(code, log)'
  BY DEF NamesRead
<1>4. UNCHANGED <<ast, scopes, bound, code, log>> => NamesRead(code, log)'
  BY ReadAlone DEF BindInv
<1>5. CASE Parse
  <2>1. phase = "parse" /\ phase' = "parsed" /\ log' = <<>>
        /\ UNCHANGED <<ast, scopeOf, bound>>
    BY <1>1, <1>5 DEF Parse
  <2>2. Unmarked'
    BY <2>1 DEF BindInv, Unmarked
  <2> QED BY <1>3, <2>1, <2>2 DEF BindInv
<1>6. CASE BeginAnalysis
  <2>1. phase = "parsed" /\ phase' = "analyse" /\ log' = <<>>
    BY <1>1, <1>6 DEF BeginAnalysis
  <2>2. Checking'
    BY <1>2, <1>6, <2>1, CheckingStart DEF BindInv
  <2> QED BY <1>3, <2>1, <2>2 DEF BindInv
<1>7. CASE Analyse
  <2>1. phase = "analyse" /\ AnalysisStep /\ log' = <<>> /\ ast' = ast
    BY <1>1, <1>7 DEF Analyse, AnalysisStep
  <2>2. phase' \in {"analyse", "crashed"}
    BY <1>2, <2>1, AnalysisStepKeeps DEF GoesOn
  <2>3. ASSUME phase' # "crashed"
        PROVE  Checking'
    <3>1. stack # <<>> /\ Later(scopes, scopes')
      BY <2>1, <2>3, CheckerCalls
    <3>2. FineScopes(scopes')
      <4>1. PassOK'
        BY <1>2, <2>1, AnalysisStepKeeps
      <4>2. FineScopes(scopes)'
        BY <4>1 DEF PassOK, ScopesOK
      <4> QED BY <2>1, <4>2 DEF FineScopes, FineScope, Fine
    <3>3. AtWork
      BY <1>2, <2>1, <3>1 DEF AtWork, BindInv
    <3> QED BY <2>1, <2>3, <3>1, <3>2, <3>3, CheckerKeeps
  <2> QED BY <1>3, <2>1, <2>2, <2>3 DEF BindInv
<1>8. CASE BeginCodegen
  <2>1. phase = "analyse" /\ phase' = "generate" /\ UNCHANGED <<ast, scopes, scopeOf, bound>>
        /\ log' = <<Logged(0, "CALL", 1)>>
    BY <1>8 DEF BeginCodegen, beginCode
  <2>2. AllBound(scopes, scopeOf, bound)'
    BY <2>1, BoundAlone DEF BindInv, Checking, Sound
  <2>3. AllSited(scopeOf, stack)'
    BY <1>2, <1>8, <2>1, SitedStart, SitedAlone
  <2>4. NamesRead(code', log')
    <3> DEFINE entry == Logged(0, "CALL", 1)
    <3>1. entry.op # "GET_LOCAL"
      BY DEF Logged
    <3> HIDE DEF entry
    <3>2. \A i \in DOMAIN log' : log'[i] = entry
      BY <2>1 DEF entry
    <3> QED BY <3>1, <3>2 DEF NamesRead
  <2> QED BY <2>1, <2>2, <2>3, <2>4, ReadAlone DEF BindInv
<1>9. CASE Generate
  <2>1. phase = "generate" /\ CodegenStep /\ UNCHANGED <<ast, scopes, scopeOf, bound>>
    BY <1>9 DEF Generate, CodegenStep
  <2>2. AllBound(scopes, scopeOf, bound) /\ AllSited(scopeOf, stack) /\ NamesRead(code, log)
    BY <2>1 DEF BindInv
  <2>3. phase' \in {"generate", "crashed"}
    BY <1>2, <2>1, CodegenStepKeeps DEF GoesOn
  <2>4. CASE phase' = "crashed"
    <3>1. code' = code /\ log' = log
      <4>1. Crashes \/ \E tasks, entries : Writing(tasks, entries)
        BY <1>9, GenerateWrites
      <4>2. ASSUME NEW tasks, NEW entries, Writing(tasks, entries)
            PROVE  FALSE
        BY <2>1, <2>4, <4>2 DEF Writing, Writes
      <4> QED BY <4>1, <4>2 DEF Crashes
    <3> QED BY <1>4, <2>1, <2>4, <3>1 DEF BindInv
  <2>5. CASE phase' = "generate"
    <3>1. phase' # "crashed"
      BY <2>5
    <3>2. AllSited(scopeOf, stack')
      BY <1>2, <2>1, <2>2, <3>1, GenStmtSited, GenExpressionSited DEF CodegenStep
    <3>3. NamesRead(code', log')
      BY <1>9, <2>2, <3>1, NamesStayRead
    <3>4. AllBound(scopes, scopeOf, bound)' /\ NamesRead(code, log)'
      BY <2>1, <2>2, <3>3, BoundAlone, ReadAlone
    <3>5. AllSited(scopeOf, stack)'
      BY <2>1, <3>2, SitedAlone
    <3> QED BY <2>5, <3>4, <3>5 DEF BindInv
  <2> QED BY <2>3, <2>4, <2>5
<1>10. CASE RejectSyntax \/ RejectSemantics \/ DestroyArena \/ PrintAndReturn \/ buildMain
  <2>1. /\ phase' \in {"returned", "print", "disassemble", "done"}
        /\ UNCHANGED <<ast, scopes, bound, code, log>>
    BY <1>10
       DEF RejectSyntax, RejectSemantics, DestroyArena, PrintAndReturn, buildMain, ExitWithError,
           BeginDisassembly, disassembleInstruction, EndDisassembly
  <2> QED BY <1>4, <2>1 DEF BindInv
<1>11. CASE UNCHANGED vars
  <2>1. UNCHANGED <<phase, ast, scopes, scopeOf, bound, stack, code, log>>
    BY <1>11 DEF vars
  <2>2. Unmarked' <=> Unmarked
    BY <2>1 DEF Unmarked
  <2>3. Checking => Checking'
    BY <2>1, TreeKept DEF Checking
  <2>4. AllBound(scopes, scopeOf, bound) => AllBound(scopes, scopeOf, bound)'
    BY <2>1, BoundAlone
  <2>5. AllSited(scopeOf, stack) => AllSited(scopeOf, stack)'
    BY <2>1, SitedAlone
  <2> QED BY <1>4, <2>1, <2>2, <2>3, <2>4, <2>5 DEF BindInv
<1> QED BY <1>5, <1>6, <1>7, <1>8, <1>9, <1>10, <1>11 DEF Next, compile, Finished

(* A local is read from the slot of the symbol that the checker bound its  *)
(* name to, although genIdent looks the name up again in scopes that have  *)
(* grown since: only a later declaration of the name, in a block around    *)
(* the use, can come in between (typecheckExpr, genExpression).            *)
THEOREM NamesMeanTheSame == Spec => []BindingsAgree
<1>1. BindInv => BindingsAgree
  BY DEF BindInv, NamesRead, Reads, BindingsAgree
<1>2. Spec => []StateInv /\ []CodeInv
  BY PassesFitTogether, CodeCorrect
<1> QED BY BindInit, BindStep, <1>1, <1>2, PTL DEF Spec
=============================================================================
