----------------------------- MODULE ScopeProofs -----------------------------
(***************************************************************************)
(* Proofs about what the checker leaves for the generator, for every set   *)
(* of programs: the slots of the locals, and the scopes and names without  *)
(* which the generator would dereference NULL.                             *)
(***************************************************************************)
EXTENDS CompilerProofs

-----------------------------------------------------------------------------
(* The locals that are visible in a scope, and their slots.                *)

LetsIn(ss, s) ==
  {ref \in UNION {{[scope |-> c, index |-> i] : i \in DOMAIN ss[c].symbols} :
                    c \in ss[s].chain} :
     SymbolAt(ss, ref).origin = "let"}

Dense(ss, s) ==
  /\ IsFiniteSet(LetsIn(ss, s))
  /\ Cardinality(LetsIn(ss, s)) = ss[s].funcIndex
  /\ {SymbolAt(ss, ref).funcIndex : ref \in LetsIn(ss, s)} = 0..(ss[s].funcIndex - 1)

(* What is visible in a scope's parents is visible in the scope.           *)
Chains(ss) ==
  \A s \in DOMAIN ss : s \in ss[s].chain /\ \A c \in ss[s].chain : ss[c].chain \subseteq ss[s].chain

(* A pending call works in the scope of the calls above it or further out. *)
Nested(ss, st) ==
  /\ \A k \in DOMAIN st : st[k].do \in SemanticTasks /\ Dense(ss, st[k].s)
  /\ \A k, l \in DOMAIN st : k <= l => st[l].s \in ss[st[k].s].chain

SlotInv == Chains(scopes) /\ (phase = "analyse" => Nested(scopes, stack))

-----------------------------------------------------------------------------
(* Locals that stay, and one that is added.                                *)

LetsOf(ss, c) == {i \in DOMAIN ss[c].symbols : ss[c].symbols[i].origin = "let"}

SameLets(ss, tt, c) ==
  LetsOf(tt, c) = LetsOf(ss, c) /\ \A i \in LetsOf(ss, c) : tt[c].symbols[i] = ss[c].symbols[i]

LEMMA LetsMember ==
  ASSUME NEW ss, NEW s
  PROVE  /\ \A ref \in LetsIn(ss, s) :
              /\ ref = [scope |-> ref.scope, index |-> ref.index]
              /\ ref.scope \in ss[s].chain /\ ref.index \in LetsOf(ss, ref.scope)
         /\ \A c \in ss[s].chain : \A i \in LetsOf(ss, c) :
              /\ [scope |-> c, index |-> i] \in LetsIn(ss, s)
              /\ SymbolAt(ss, [scope |-> c, index |-> i]) = ss[c].symbols[i]
<1>1. ASSUME NEW ref \in LetsIn(ss, s)
      PROVE  /\ ref = [scope |-> ref.scope, index |-> ref.index]
             /\ ref.scope \in ss[s].chain /\ ref.index \in LetsOf(ss, ref.scope)
  <2>1. PICK c \in ss[s].chain : \E i \in DOMAIN ss[c].symbols :
                                   ref = [scope |-> c, index |-> i]
    BY DEF LetsIn
  <2>2. PICK i \in DOMAIN ss[c].symbols : ref = [scope |-> c, index |-> i]
    BY <2>1
  <2>3. ss[c].symbols[i].origin = "let"
    BY <2>2 DEF LetsIn, SymbolAt
  <2> QED BY <2>2, <2>3 DEF LetsOf
<1>2. ASSUME NEW c \in ss[s].chain, NEW i \in LetsOf(ss, c)
      PROVE  /\ [scope |-> c, index |-> i] \in LetsIn(ss, s)
             /\ SymbolAt(ss, [scope |-> c, index |-> i]) = ss[c].symbols[i]
  BY DEF LetsIn, LetsOf, SymbolAt
<1> QED BY <1>1, <1>2

LEMMA DenseStays ==
  ASSUME NEW ss, NEW s, Dense(ss, s), NEW tt, NEW u,
         tt[u].funcIndex = ss[s].funcIndex,
         \A c \in ss[s].chain : c \in tt[u].chain /\ SameLets(ss, tt, c),
         \A c \in tt[u].chain : c \in ss[s].chain \/ LetsOf(tt, c) = {}
  PROVE  Dense(tt, u)
<1>1. ASSUME NEW ref \in LetsIn(ss, s)
      PROVE  ref \in LetsIn(tt, u) /\ SymbolAt(tt, ref) = SymbolAt(ss, ref)
  <2>1. /\ ref = [scope |-> ref.scope, index |-> ref.index]
        /\ ref.scope \in ss[s].chain /\ ref.index \in LetsOf(ss, ref.scope)
    BY LetsMember
  <2>2. ref.scope \in tt[u].chain /\ ref.index \in LetsOf(tt, ref.scope)
        /\ tt[ref.scope].symbols[ref.index] = ss[ref.scope].symbols[ref.index]
    BY <2>1 DEF SameLets
  <2> QED BY <2>1, <2>2, LetsMember DEF SymbolAt
<1>2. ASSUME NEW ref \in LetsIn(tt, u)
      PROVE  ref \in LetsIn(ss, s)
  <2>1. /\ ref = [scope |-> ref.scope, index |-> ref.index]
        /\ ref.scope \in tt[u].chain /\ ref.index \in LetsOf(tt, ref.scope)
    BY LetsMember
  <2>2. ref.scope \in ss[s].chain /\ ref.index \in LetsOf(ss, ref.scope)
    BY <2>1 DEF SameLets
  <2> QED BY <2>1, <2>2, LetsMember
<1>3. LetsIn(tt, u) = LetsIn(ss, s)
  BY <1>1, <1>2
<1>4. {SymbolAt(tt, ref).funcIndex : ref \in LetsIn(tt, u)}
        = {SymbolAt(ss, ref).funcIndex : ref \in LetsIn(ss, s)}
  BY <1>1, <1>3
<1> QED BY <1>3, <1>4 DEF Dense

LEMMA DenseTaken ==
  ASSUME NEW ss, NEW s, Dense(ss, s), ss[s].funcIndex \in Nat, NEW tt,
         s \in ss[s].chain, tt[s].chain = ss[s].chain,
         tt[s].funcIndex = ss[s].funcIndex + 1,
         \A c \in ss[s].chain : c # s => SameLets(ss, tt, c),
         NEW k, k \notin DOMAIN ss[s].symbols,
         LetsOf(tt, s) = LetsOf(ss, s) \cup {k},
         \A i \in LetsOf(ss, s) : tt[s].symbols[i] = ss[s].symbols[i],
         tt[s].symbols[k].funcIndex = ss[s].funcIndex
  PROVE  Dense(tt, s)
<1> DEFINE new == [scope |-> s, index |-> k]
           old == LetsIn(ss, s)
           all == LetsIn(tt, s)
           slot == ss[s].funcIndex
<1>1. new \notin old
  BY LetsMember DEF LetsOf
<1>2. new \in all /\ SymbolAt(tt, new).funcIndex = slot
  BY LetsMember
<1>3. ASSUME NEW ref \in old
      PROVE  ref \in all /\ SymbolAt(tt, ref) = SymbolAt(ss, ref)
  <2>1. /\ ref = [scope |-> ref.scope, index |-> ref.index]
        /\ ref.scope \in ss[s].chain /\ ref.index \in LetsOf(ss, ref.scope)
    BY LetsMember
  <2>2. ref.scope \in tt[s].chain /\ ref.index \in LetsOf(tt, ref.scope)
        /\ tt[ref.scope].symbols[ref.index] = ss[ref.scope].symbols[ref.index]
    BY <2>1 DEF SameLets
  <2> QED BY <2>1, <2>2, LetsMember DEF SymbolAt
<1>4. ASSUME NEW ref \in all, ref # new
      PROVE  ref \in old
  <2>1. /\ ref = [scope |-> ref.scope, index |-> ref.index]
        /\ ref.scope \in ss[s].chain /\ ref.index \in LetsOf(tt, ref.scope)
    BY LetsMember
  <2>2. ref.index \in LetsOf(ss, ref.scope)
    BY <1>4, <2>1 DEF SameLets
  <2> QED BY <2>1, <2>2, LetsMember
<1>5. all = old \cup {new}
  BY <1>2, <1>3, <1>4
<1>6. IsFiniteSet(old) /\ Cardinality(old) = slot
      /\ {SymbolAt(ss, ref).funcIndex : ref \in old} = 0..(slot - 1)
  BY DEF Dense
<1>7. \A ref \in old : SymbolAt(tt, ref).funcIndex = SymbolAt(ss, ref).funcIndex
  BY <1>3
<1> HIDE DEF new, old, all, slot
<1>8. IsFiniteSet(all) /\ Cardinality(all) = slot + 1
  BY <1>1, <1>5, <1>6, FS_AddElement
<1>9. {SymbolAt(tt, ref).funcIndex : ref \in all} = 0..slot
  <2>1. {SymbolAt(tt, ref).funcIndex : ref \in all}
          = {SymbolAt(ss, ref).funcIndex : ref \in old} \cup {slot}
    BY <1>2, <1>5, <1>7
  <2>2. slot \in Nat
    BY DEF slot
  <2>3. 0..slot = 0..(slot - 1) \cup {slot}
    BY <2>2
  <2> QED BY <1>6, <2>1, <2>3
<1>10. (slot + 1) - 1 = slot /\ tt[s].funcIndex = slot + 1
  BY DEF slot
<1> QED BY <1>8, <1>9, <1>10 DEF Dense, all

-----------------------------------------------------------------------------
(* The steps of the checker.                                               *)

OneScope(tasks, u) ==
  tasks \in Seq(Tasks) /\ \A k \in DOMAIN tasks : tasks[k].do \in SemanticTasks /\ tasks[k].s = u

LEMMA NestedCalls ==
  ASSUME stack \in Seq(Tasks), stack # <<>>, Nested(scopes, stack),
         NEW u, NEW tasks, OneScope(tasks, u), NEW ss,
         tasks # <<>> => /\ u \in ss[u].chain /\ Dense(ss, u)
                         /\ scopes[Top.s].chain \subseteq ss[u].chain,
         \A c \in scopes[Top.s].chain :
           (Dense(scopes, c) => Dense(ss, c)) /\ ss[c].chain = scopes[c].chain
  PROVE  Nested(ss, tasks \o Tail(stack))
<1> DEFINE st == tasks \o Tail(stack)
           m == Len(tasks)
<1>1. /\ m \in Nat /\ DOMAIN tasks = 1..m
      /\ 1 \in DOMAIN stack /\ stack[1] = Top /\ DOMAIN stack \subseteq Nat
      /\ \A l \in DOMAIN stack : 1 <= l
      /\ \A k \in DOMAIN st : \/ k \in 1..m /\ st[k] = tasks[k]
                              \/ k > m /\ k - m + 1 \in DOMAIN stack /\ st[k] = stack[k - m + 1]
      /\ DOMAIN st \subseteq Nat
  <2>1. tasks \in Seq(Tasks) /\ stack \in Seq(Tasks) /\ stack # <<>>
    BY DEF OneScope
  <2>2. stack[1] = Top
    BY <2>1 DEF Top
  <2>3. Tail(stack) \in Seq(Tasks) /\ Len(Tail(stack)) = Len(stack) - 1 /\ Len(stack) \in Nat
        /\ Len(stack) >= 1 /\ DOMAIN stack = 1..Len(stack)
        /\ \A i \in 1..(Len(stack) - 1) : Tail(stack)[i] = stack[i + 1]
    BY ONLY <2>1
  <2> DEFINE rest == Tail(stack)
  <2>4. /\ m \in Nat /\ DOMAIN tasks = 1..m /\ DOMAIN st = 1..(m + Len(rest))
        /\ \A k \in 1..m : st[k] = tasks[k]
        /\ \A k \in DOMAIN st :
             k \in 1..m \/ (k > m /\ k - m \in 1..Len(rest) /\ st[k] = rest[k - m])
    <3> HIDE DEF rest
    <3>1. tasks \in Seq(Tasks) /\ rest \in Seq(Tasks)
      BY <2>1, <2>3 DEF rest
    <3> QED BY <3>1, Joined DEF rest
  <2> HIDE DEF rest, st, m
  <2>5. ASSUME NEW k \in DOMAIN st
        PROVE  \/ (k \in 1..m /\ st[k] = tasks[k])
               \/ (k > m /\ k - m + 1 \in DOMAIN stack /\ st[k] = stack[k - m + 1])
    <3>1. CASE k > m /\ k - m \in 1..Len(rest) /\ st[k] = rest[k - m]
      <4>1. k - m \in 1..(Len(stack) - 1) /\ k - m + 1 \in 1..Len(stack)
        BY <2>3, <2>4, <3>1 DEF rest
      <4> QED BY <2>3, <3>1, <4>1 DEF rest
    <3> QED BY <2>4, <3>1
  <2>6. 1 \in DOMAIN stack /\ DOMAIN stack \subseteq Nat /\ \A l \in DOMAIN stack : 1 <= l
    BY <2>3
  <2>7. DOMAIN st \subseteq Nat
    BY <2>3, <2>4 DEF rest
  <2> QED BY <2>2, <2>4, <2>5, <2>6, <2>7
<1>2. ASSUME NEW l \in DOMAIN stack
      PROVE  /\ stack[l].do \in SemanticTasks /\ stack[l].s \in scopes[Top.s].chain
             /\ Dense(ss, stack[l].s) /\ ss[stack[l].s].chain = scopes[stack[l].s].chain
  BY <1>1 DEF Nested
<1> HIDE DEF st, m
<1>3. ASSUME NEW k \in DOMAIN st
      PROVE  st[k].do \in SemanticTasks /\ Dense(ss, st[k].s)
  <2>1. CASE k \in 1..m /\ st[k] = tasks[k]
    <3>1. tasks # <<>>
      BY <1>1, <2>1
    <3> QED BY <1>1, <2>1, <3>1 DEF OneScope
  <2> QED BY <1>1, <1>2, <2>1
<1>4. ASSUME NEW k \in DOMAIN st, NEW l \in DOMAIN st, k <= l
      PROVE  st[l].s \in ss[st[k].s].chain
  <2>1. CASE k \in 1..m /\ st[k] = tasks[k]
    <3>1. tasks # <<>> /\ st[k].s = u
      BY <1>1, <2>1 DEF OneScope
    <3>2. CASE l \in 1..m /\ st[l] = tasks[l]
      BY <1>1, <3>1, <3>2 DEF OneScope
    <3>3. CASE l > m /\ l - m + 1 \in DOMAIN stack /\ st[l] = stack[l - m + 1]
      BY <1>2, <3>1, <3>3
    <3> QED BY <1>1, <3>2, <3>3
  <2>2. CASE k > m /\ k - m + 1 \in DOMAIN stack /\ st[k] = stack[k - m + 1]
    <3>1. l > m /\ l - m + 1 \in DOMAIN stack /\ st[l] = stack[l - m + 1]
      BY <1>1, <1>4, <2>2
    <3>2. k - m + 1 <= l - m + 1
      BY <1>1, <1>4
    <3>3. st[l].s \in scopes[st[k].s].chain
      BY <2>2, <3>1, <3>2 DEF Nested
    <3> QED BY <1>2, <2>2, <3>3
  <2> QED BY <1>1, <2>1, <2>2
<1> QED BY <1>3, <1>4 DEF Nested, st

-----------------------------------------------------------------------------
(* The calls a step makes all work in one scope.                           *)

LEMMA OneScopeTogether ==
  ASSUME NEW u, NEW a, OneScope(a, u), NEW b, OneScope(b, u)
  PROVE  OneScope(a \o b, u)
<1>1. a \in Seq(Tasks) /\ b \in Seq(Tasks)
  BY DEF OneScope
<1>2. /\ a \o b \in Seq(Tasks)
      /\ DOMAIN a = 1..Len(a) /\ DOMAIN b = 1..Len(b)
      /\ \A k \in 1..Len(a) : (a \o b)[k] = a[k]
      /\ \A k \in DOMAIN (a \o b) :
           k \in 1..Len(a) \/ (k > Len(a) /\ k - Len(a) \in 1..Len(b)
                                 /\ (a \o b)[k] = b[k - Len(a)])
  BY <1>1, Joined
<1>3. ASSUME NEW k \in DOMAIN (a \o b)
      PROVE  (a \o b)[k].do \in SemanticTasks /\ (a \o b)[k].s = u
  <2>1. CASE k \in 1..Len(a)
    BY <1>2, <2>1 DEF OneScope
  <2>2. CASE k - Len(a) \in 1..Len(b) /\ (a \o b)[k] = b[k - Len(a)]
    BY <1>2, <2>2 DEF OneScope
  <2> QED BY <1>2, <2>1, <2>2
<1> QED BY <1>2, <1>3 DEF OneScope

LEMMA OneCall ==
  ASSUME NEW do \in SemanticTasks, NEW n \in Nat, NEW s \in Nat, NEW at \in Nat
  PROVE  OneScope(<<TaskAt(do, n, s, at)>>, s) /\ OneScope(<<Task(do, n, s)>>, s)
<1>1. /\ TaskAt(do, n, s, at) \in Tasks /\ TaskAt(do, n, s, at).do = do
      /\ TaskAt(do, n, s, at).s = s
  BY DEF TaskAt, Tasks
<1>2. Task(do, n, s) \in Tasks /\ Task(do, n, s).do = do /\ Task(do, n, s).s = s
  BY DEF Task, Tasks
<1>3. ASSUME NEW t \in Tasks, t.do = do, t.s = s
      PROVE  OneScope(<<t>>, s)
  <2>1. <<t>> \in Seq(Tasks) /\ DOMAIN <<t>> = {1} /\ <<t>>[1] = t
    OBVIOUS
  <2> QED BY <1>3, <2>1 DEF OneScope
<1> QED BY <1>1, <1>2, <1>3

LEMMA NoCall ==
  ASSUME NEW u
  PROVE  OneScope(<<>>, u)
BY DEF OneScope

LEMMA TwoCalls ==
  ASSUME NEW t, NEW v, NEW u, OneScope(<<t>>, u), OneScope(<<v>>, u)
  PROVE  OneScope(<<t, v>>, u)
<1>1. ASSUME NEW w, OneScope(<<w>>, u)
      PROVE  w \in Tasks /\ w.do \in SemanticTasks /\ w.s = u
  <2>1. <<w>> \in Seq(Tasks) /\ 1 \in DOMAIN <<w>> /\ <<w>>[1] = w
    BY <1>1 DEF OneScope
  <2>2. <<w>>[1] \in Tasks
    BY ONLY <2>1
  <2> QED BY <1>1, <2>1, <2>2 DEF OneScope
<1>2. t \in Tasks /\ v \in Tasks /\ \A w \in {t, v} : w.do \in SemanticTasks /\ w.s = u
  BY <1>1
<1>3. /\ <<t, v>> \in Seq(Tasks) /\ DOMAIN <<t, v>> = 1..2
      /\ <<t, v>>[1] = t /\ <<t, v>>[2] = v
  BY <1>2
<1> QED BY <1>2, <1>3 DEF OneScope

LEMMA EachCall ==
  ASSUME NEW do \in SemanticTasks, NEW nodes \in Seq(Nat), NEW s \in Nat
  PROVE  OneScope(ForEach(do, nodes, s), s)
<1> DEFINE calls == ForEach(do, nodes, s)
<1>1. DOMAIN nodes = 1..Len(nodes) /\ Len(nodes) \in Nat
  OBVIOUS
<1>2. ASSUME NEW i \in 1..Len(nodes)
      PROVE  /\ Task(do, nodes[i], s) \in Tasks
             /\ Task(do, nodes[i], s).do = do /\ Task(do, nodes[i], s).s = s
  BY <1>1 DEF Task, Tasks
<1>3. calls = [i \in 1..Len(nodes) |-> Task(do, nodes[i], s)]
  BY <1>1 DEF ForEach
<1>4. calls \in Seq(Tasks) /\ DOMAIN calls = 1..Len(nodes)
  BY <1>1, <1>2, <1>3
<1> QED BY <1>2, <1>3, <1>4 DEF OneScope

(* The forms a step of the checker has, as far as scopes and pending calls *)
(* go.                                                                     *)

CallsHere == UNCHANGED scopes /\ \E tasks : OneScope(tasks, Top.s) /\ Call(tasks)

Declares ==
  /\ Return
  /\ \E symbol : symbol.origin = "global" /\ scopes' = scopeAddSymbol(scopes, Top.s, symbol)

TakesSlot ==
  /\ Return
  /\ ~ Declared(Top.s, ast[Top.n].name)
  /\ scopes' = TakeSlot(Top.n, Top.s)

Enters ==
  /\ \E tasks : OneScope(tasks, Len(scopes) + 1) /\ Call(tasks)
  /\ \E scope \in Scope :
       /\ scopes' = Append(scopes, scope)
       /\ scope.chain = {Len(scopes) + 1} \cup scopes[Top.s].chain
       /\ scope.funcIndex = scopes[Top.s].funcIndex
       /\ \A i \in DOMAIN scope.symbols : scope.symbols[i].origin # "let"

StepForm == (phase' = "crashed" /\ UNCHANGED scopes) \/ CallsHere \/ Declares \/ TakesSlot \/ Enters

LEMMA ReturnsHere ==
  ASSUME PassOK, stack # <<>>, Return, UNCHANGED scopes
  PROVE  CallsHere
<1>1. stack \in Seq(Tasks)
  BY DEF PassOK, StackOK
<1>2. Tail(stack) = <<>> \o Tail(stack)
  <2>1. Tail(stack) \in Seq(Tasks)
    BY <1>1
  <2> QED BY ONLY <2>1
<1>3. Call(<<>>)
  BY <1>2 DEF Return, Call
<1> QED BY <1>3, NoCall DEF CallsHere

LEMMA VisitsHere ==
  ASSUME NEW tasks, Visit(tasks), OneScope(tasks, Top.s)
  PROVE  CallsHere
BY DEF Visit, CallsHere

LEMMA EntersScope ==
  ASSUME WellFormed(ast), PassOK, NEW n \in DOMAIN ast, NEW s \in DOMAIN scopes, s = Top.s,
         Call(ForEach("typecheckStmt", ast[n].kids, Len(scopes) + 1)),
         NEW scope, scopes' = Append(scopes, scope), FineScope(scope),
         scope.chain = initScope(scopes, s).chain,
         scope.funcIndex = initScope(scopes, s).funcIndex,
         \A i \in DOMAIN scope.symbols : scope.symbols[i].origin # "let"
  PROVE  Enters
<1>1. Len(scopes) \in Nat /\ s # 0 /\ scope \in Scope
  BY DEF PassOK, ScopesOK, FineScopes, FineScope
<1>2. ast[n].kids \in Seq(Nat)
  <2>1. ast[n].kids \in Seq(DOMAIN ast) /\ DOMAIN ast \subseteq Nat
    BY TreeNodes
  <2> QED BY <2>1
<1>3. OneScope(ForEach("typecheckStmt", ast[n].kids, Len(scopes) + 1), Len(scopes) + 1)
  BY <1>1, <1>2, EachCall DEF SemanticTasks
<1>4. /\ scope.chain = {Len(scopes) + 1} \cup scopes[Top.s].chain
      /\ scope.funcIndex = scopes[Top.s].funcIndex
  BY <1>1 DEF initScope
<1> QED BY <1>1, <1>3, <1>4 DEF Enters

(* Where a step of the checker is, and the scope it works in.              *)
LEMMA CheckerTop ==
  ASSUME WellFormed(ast), PassOK, NEW do \in SemanticTasks, Running(do)
  PROVE  /\ stack # <<>> /\ Top.do = do /\ Fits(Top, Len(scopes))
         /\ Top.n \in DOMAIN ast /\ Top.n \in Nat
         /\ Top.s \in DOMAIN scopes /\ Top.s \in Nat /\ Top.at \in Nat
         /\ \A i \in 1..Len(ast[Top.n].kids) : Kid(Top.n, i) \in Nat
         /\ ast[Top.n].kids \in Seq(Nat)
<1>1. /\ stack # <<>> /\ Top.do = do /\ Fits(Top, Len(scopes))
      /\ Top.n \in DOMAIN ast /\ Top.s \in DOMAIN scopes /\ Top.s \in 0..Len(scopes)
  BY SemanticTop
<1>2. DOMAIN ast \subseteq Nat /\ ast[Top.n].kids \in Seq(DOMAIN ast)
  BY <1>1, TreeNodes
<1>3. ast[Top.n].kids \in Seq(Nat)
  BY <1>2
<1>4. Top.at \in Nat
  BY <1>1 DEF Fits, Tasks
<1> QED BY <1>1, <1>2, <1>3, <1>4 DEF Kid

LEMMA KidThen ==
  ASSUME WellFormed(ast), NEW n \in DOMAIN ast, NEW i \in 1..Len(ast[n].kids),
         NEW do \in SemanticTasks, NEW s \in Nat, NEW at \in Nat
  PROVE  /\ OneScope(<<Task("typecheckExpr", Kid(n, i), s), TaskAt(do, n, s, at)>>, s)
         /\ OneScope(<<Task("typecheckExpr", Kid(n, i), s), Task(do, n, s)>>, s)
         /\ OneScope(<<Task("typecheckExpr", Kid(n, i), s)>>, s)
<1> DEFINE kid == Kid(n, i)
<1>1. kid \in Nat /\ n \in Nat
  BY KidOfTree, TreeNodes
<1> HIDE DEF kid
<1>2. OneScope(<<Task("typecheckExpr", kid, s)>>, s)
  BY <1>1, OneCall DEF SemanticTasks
<1>3. OneScope(<<TaskAt(do, n, s, at)>>, s) /\ OneScope(<<Task(do, n, s)>>, s)
  BY <1>1, OneCall
<1> QED BY <1>2, <1>3, TwoCalls DEF kid

LEMMA ResolveNodeForm ==
  ASSUME WellFormed(ast), PassOK, resolveNode
  PROVE  StepForm
<1> USE DEF SemanticTasks, RunningOn
<1>1. CASE resolveLet
  BY <1>1, CheckerTop, ReturnsHere DEF resolveLet, StepForm
<1>2. CASE resolveConst
  <2>1. /\ Top.n \in DOMAIN ast /\ Top.s \in Nat /\ ast[Top.n].kind = "DECL_VAR"
    BY <1>2, CheckerTop DEF resolveConst
  <2>2. 1 \in 1..Len(ast[Top.n].kids)
    BY <2>1, OnlyKid
  <2>3. OneScope(<<Task("typecheckExpr", Kid(Top.n, 1), Top.s),
                   Task("addConst", Top.n, Top.s)>>, Top.s)
    BY <2>1, <2>2, KidThen
  <2> QED BY <1>2, <2>3, VisitsHere DEF resolveConst, StepForm
<1>3. CASE addConst
  <2>1. PICK garbage \in Garbage :
          scopes' = scopeAddSymbol(scopes, Top.s,
                NewSymbol(ast[Top.n].name, ast[Top.n].type, garbage, "global", Top.n))
    BY <1>3 DEF addConst
  <2>2. NewSymbol(ast[Top.n].name, ast[Top.n].type, garbage, "global", Top.n).origin = "global"
    BY DEF NewSymbol
  <2> QED BY <1>3, <2>1, <2>2 DEF addConst, Declares, StepForm
<1>4. CASE resolveFunc
  <2>1. PICK garbage \in Garbage :
          scopes' = scopeAddSymbol(scopes, Top.s,
                NewSymbol(ast[Top.n].name, FuncType(Top.n), garbage, "global", Top.n))
    BY <1>4 DEF resolveFunc
  <2>2. NewSymbol(ast[Top.n].name, FuncType(Top.n), garbage, "global", Top.n).origin = "global"
    BY DEF NewSymbol
  <2> QED BY <1>4, <2>1, <2>2 DEF resolveFunc, Declares, StepForm
<1> QED BY <1>1, <1>2, <1>3, <1>4 DEF resolveNode

LEMMA ParameterScopeForm ==
  ASSUME NEW n, NEW funcScope \in Scope, NEW garbage
  PROVE  LET scope == ParameterScope(n, funcScope, garbage)
         IN  /\ scope.funcIndex = funcScope.funcIndex
             /\ \A i \in DOMAIN scope.symbols : scope.symbols[i].origin = "param"
<1> DEFINE params == ast[n].params
           fresh == {i \in DOMAIN params :
                       \A j \in 1..(i - 1) : params[j].name # params[i].name}
           kth(k) == params[CHOOSE i \in fresh : Cardinality({j \in fresh : j <= i}) = k]
           symbols == [k \in 1..Cardinality(fresh) |->
                         NewSymbol(kth(k).name, kth(k).type, garbage, "param", n)]
<1>1. ParameterScope(n, funcScope, garbage)
        = [funcScope EXCEPT !.isFuncScope = TRUE, !.symbols = symbols]
  BY DEF ParameterScope
<1>2. \A i \in DOMAIN symbols : symbols[i].origin = "param"
  <2> HIDE DEF kth, fresh
  <2> QED BY DEF NewSymbol
<1> HIDE DEF symbols
<1> QED BY <1>1, <1>2 DEF Scope

LEMMA TypecheckStmtForm ==
  ASSUME WellFormed(ast), PassOK, typecheckStmt
  PROVE  StepForm
<1> USE DEF SemanticTasks, RunningOn
<1>1. CASE typecheckLocal
  <2>1. /\ Top.n \in DOMAIN ast /\ Top.s \in Nat /\ ast[Top.n].kind = "DECL_VAR"
    BY <1>1, CheckerTop DEF typecheckLocal
  <2>2. 1 \in 1..Len(ast[Top.n].kids)
    BY <2>1, OnlyKid
  <2>3. OneScope(<<Task("typecheckExpr", Kid(Top.n, 1), Top.s),
                   Task("addLocal", Top.n, Top.s)>>, Top.s)
    BY <2>1, <2>2, KidThen
  <2> QED BY <1>1, <2>3, VisitsHere DEF typecheckLocal, StepForm
<1>2. CASE typecheckConst
  BY <1>2, CheckerTop, ReturnsHere DEF typecheckConst, StepForm
<1>3. CASE addLocal
  <2>1. stack # <<>> /\ Return
    BY <1>3, CheckerTop DEF addLocal
  <2>2. CASE Declared(Top.s, ast[Top.n].name)
    BY <1>3, <2>1, <2>2, ReturnsHere DEF addLocal, StepForm
  <2>3. CASE ~ Declared(Top.s, ast[Top.n].name)
    BY <1>3, <2>1, <2>3 DEF addLocal, TakesSlot, StepForm
  <2> QED BY <2>2, <2>3
<1>4. CASE typecheckFuncDec
  <2>1. /\ stack # <<>> /\ Top.n \in DOMAIN ast /\ Top.s \in 0..Len(scopes)
        /\ Top.s \in DOMAIN scopes /\ FineScopes(scopes)
    BY <1>4, SemanticTop DEF typecheckFuncDec
  <2>2. CASE scopes[Top.s].isFuncScope
    BY <1>4, <2>1, <2>2, ReturnsHere DEF typecheckFuncDec, StepForm
  <2>3. CASE ~ scopes[Top.s].isFuncScope
    <3>1. Call(ForEach("typecheckStmt", ast[Top.n].kids, Len(scopes) + 1))
      BY <1>4, <2>3 DEF typecheckFuncDec
    <3>2. PICK garbage \in Garbage :
            scopes' = Append(scopes, ParameterScope(Top.n, initScope(scopes, Top.s), garbage))
      BY <1>4, <2>3 DEF typecheckFuncDec
    <3> DEFINE scope == ParameterScope(Top.n, initScope(scopes, Top.s), garbage)
    <3>3. FineScope(initScope(scopes, Top.s)) /\ initScope(scopes, Top.s) \in Scope
      BY <2>1, InitScopeFine DEF FineScope
    <3>4. FineScope(scope) /\ scope.chain = initScope(scopes, Top.s).chain
      BY <2>1, <3>3, ParameterScopeFine
    <3>5. /\ scope.funcIndex = initScope(scopes, Top.s).funcIndex
          /\ \A i \in DOMAIN scope.symbols : scope.symbols[i].origin # "let"
      BY <3>3, ParameterScopeForm
    <3>6. scopes' = Append(scopes, scope)
      BY <3>2
    <3> HIDE DEF scope
    <3> QED BY <2>1, <3>1, <3>4, <3>5, <3>6, EntersScope DEF StepForm
  <2> QED BY <2>2, <2>3
<1>5. CASE typecheckExprStmt
  <2>1. Top.n \in Nat /\ Top.s \in Nat
    BY <1>5, CheckerTop DEF typecheckExprStmt
  <2>2. /\ OneScope(<<Task("typecheckExpr", Top.n, Top.s)>>, Top.s)
        /\ OneScope(<<Task("stmtEnd", Top.n, Top.s)>>, Top.s)
    BY <2>1, OneCall
  <2>3. OneScope(<<Task("typecheckExpr", Top.n, Top.s), Task("stmtEnd", Top.n, Top.s)>>, Top.s)
    BY <2>2, TwoCalls
  <2> QED BY <1>5, <2>3, VisitsHere DEF typecheckExprStmt, StepForm
<1>6. CASE stmtEnd
  BY <1>6, CheckerTop, ReturnsHere DEF stmtEnd, StepForm
<1> QED BY <1>1, <1>2, <1>3, <1>4, <1>5, <1>6 DEF typecheckStmt

LEMMA TypecheckExprForm ==
  ASSUME WellFormed(ast), PassOK, typecheckExpr
  PROVE  StepForm
<1> DEFINE n == Top.n
           s == Top.s
<1> USE DEF SemanticTasks, RunningOn
<1>1. CASE typecheckLiteral \/ typecheckIdent \/ binopEnd \/ unopEnd \/ ifEnd \/ refusedCall
             \/ callEnd
  <2>1. PICK do \in SemanticTasks : Running(do)
    BY <1>1 DEF typecheckLiteral, typecheckIdent, binopEnd, unopEnd, ifEnd, refusedCall,
                callEnd, Expr
  <2>2. Return /\ UNCHANGED scopes
    BY <1>1 DEF typecheckLiteral, typecheckIdent, binopEnd, unopEnd, ifEnd, refusedCall,
                callEnd, Checked
  <2>3. stack # <<>>
    BY <2>1 DEF Running
  <2> QED BY <2>2, <2>3, ReturnsHere DEF StepForm
<1>2. CASE typecheckBinop \/ typecheckUnop \/ typecheckIf \/ typecheckCall \/ typecheckExit
  <2>1. /\ Running("typecheckExpr") /\ ast[n].kind \in {"BINOP", "UNOP", "IF", "CALL", "EXIT"}
    BY <1>2 DEF typecheckBinop, typecheckUnop, typecheckIf, typecheckCall, typecheckExit, Expr
  <2>2. n \in DOMAIN ast /\ n \in Nat /\ s \in Nat /\ ast[n].kids \in Seq(Nat)
    BY <2>1, CheckerTop
  <2> DEFINE first == Task("typecheckExpr", Kid(n, 1), s)
             all == ForEach("typecheckExpr", ast[n].kids, s)
  <2>3. /\ OneScope(<<first, Task("unopEnd", n, s)>>, s)
        /\ OneScope(<<first, Task("ifTrue", n, s)>>, s)
        /\ OneScope(<<first, TaskAt("argument", n, s, 1)>>, s)
        /\ OneScope(<<first>>, s)
    <3> HIDE DEF n, s
    <3>1. 1 \in 1..Len(ast[n].kids)
      BY <2>1, <2>2, OnlyKid
    <3> QED BY <2>2, <3>1, KidThen
  <2>4. OneScope(all \o <<Task("binopEnd", n, s)>>, s)
    <3> HIDE DEF n, s
    <3>1. OneScope(all, s) /\ OneScope(<<Task("binopEnd", n, s)>>, s)
      BY <2>2, EachCall, OneCall
    <3> QED BY <3>1, OneScopeTogether
  <2>5. \E tasks : Visit(tasks) /\ OneScope(tasks, Top.s)
    BY <1>2, <2>3, <2>4
       DEF typecheckBinop, typecheckUnop, typecheckIf, typecheckCall, typecheckExit
  <2> QED BY <2>5, VisitsHere DEF StepForm
<1>3. CASE ifTrue \/ argument
  <2>1. PICK do \in SemanticTasks : Running(do) /\ do \in {"ifTrue", "argument"}
    BY <1>3 DEF ifTrue, argument
  <2>2. /\ n \in DOMAIN ast /\ s \in Nat /\ Top.at \in Nat /\ Fits(Top, Len(scopes))
        /\ Top.do = do
    BY <2>1, CheckerTop
  <2>3. CASE ifTrue
    <3>1. ast[n].kind = "IF"
      BY <2>2, <2>3 DEF ifTrue, Running, Fits
    <3>2. /\ Call(<<Task("typecheckExpr", Kid(n, 2), s), Task("ifFalse", n, s)>>)
          /\ UNCHANGED scopes
      BY <2>3 DEF ifTrue
    <3>3. OneScope(<<Task("typecheckExpr", Kid(n, 2), s), Task("ifFalse", n, s)>>, s)
      <4> HIDE DEF n, s
      <4>1. Len(ast[n].kids) \in {2, 3}
        BY <2>2, <3>1, KidsCount
      <4>2. 2 \in 1..Len(ast[n].kids)
        BY <4>1
      <4> QED BY <2>2, <4>2, KidThen
    <3> QED BY <3>2, <3>3 DEF CallsHere, StepForm
  <2>4. CASE argument
    <3> DEFINE at == Top.at
    <3>1. /\ Call(<<Task("typecheckExpr", Kid(n, at + 1), s), TaskAt("argument", n, s, at + 1)>>)
          /\ UNCHANGED scopes /\ at <= ArgsCount(n)
      BY <2>4 DEF argument
    <3>2. OneScope(<<Task("typecheckExpr", Kid(n, at + 1), s), TaskAt("argument", n, s, at + 1)>>, s)
      <4>1. at \in Nat
        BY <2>2
      <4> HIDE DEF n, s, at
      <4>2. Len(ast[n].kids) \in Nat
        BY <2>2, KidsCount
      <4>3. at + 1 \in 1..Len(ast[n].kids) /\ at + 1 \in Nat
        BY <3>1, <4>1, <4>2 DEF ArgsCount
      <4> QED BY <2>2, <4>3, KidThen
    <3> QED BY <3>1, <3>2 DEF CallsHere, StepForm
  <2> QED BY <1>3, <2>3, <2>4
<1>4. CASE ifFalse
  <2>1. /\ n \in DOMAIN ast /\ s \in Nat /\ stack # <<>> /\ UNCHANGED scopes
    BY <1>4, CheckerTop DEF ifFalse
  <2>2. ast[n].kind = "IF"
    <3>1. Fits(Top, Len(scopes)) /\ Top.do = "ifFalse"
      BY <1>4, CheckerTop DEF ifFalse
    <3> QED BY <3>1 DEF Fits
  <2>3. CASE Len(ast[n].kids) = 2
    <3>1. Return
      BY <1>4, <2>3 DEF ifFalse
    <3> QED BY <2>1, <3>1, ReturnsHere DEF StepForm
  <2>4. CASE Len(ast[n].kids) # 2
    <3>1. Call(<<Task("typecheckExpr", Kid(n, 3), s), Task("ifEnd", n, s)>>)
      BY <1>4, <2>4 DEF ifFalse
    <3>2. OneScope(<<Task("typecheckExpr", Kid(n, 3), s), Task("ifEnd", n, s)>>, s)
      <4> HIDE DEF n, s
      <4>1. Len(ast[n].kids) \in {2, 3}
        BY <2>1, <2>2, KidsCount
      <4>2. 3 \in 1..Len(ast[n].kids)
        BY <2>4, <4>1
      <4> QED BY <2>1, <4>2, KidThen
    <3> QED BY <2>1, <3>1, <3>2 DEF CallsHere, StepForm
  <2> QED BY <2>3, <2>4
<1>5. CASE typecheckBlock
  <2> DEFINE scope == initScope(scopes, s)
  <2>1. /\ n \in DOMAIN ast /\ s \in DOMAIN scopes /\ s \in 0..Len(scopes)
        /\ FineScopes(scopes)
    BY <1>5, SemanticTop DEF typecheckBlock, Expr
  <2>2. /\ scopes' = Append(scopes, scope)
        /\ Call(ForEach("typecheckStmt", ast[n].kids, Len(scopes) + 1))
    BY <1>5 DEF typecheckBlock
  <2>3. FineScope(scope)
    BY <2>1, InitScopeFine
  <2>4. DOMAIN scope.symbols = {}
    BY DEF initScope
  <2> HIDE DEF scope
  <2>5. scope.chain = initScope(scopes, s).chain /\ scope.funcIndex = initScope(scopes, s).funcIndex
    BY DEF scope
  <2> QED BY <2>1, <2>2, <2>3, <2>4, <2>5, EntersScope DEF StepForm
<1>6. CASE typecheckDefault
  <2>1. CASE Return
    BY <1>6, <2>1, CheckerTop, ReturnsHere DEF typecheckDefault, Expr, StepForm
  <2>2. CASE Crash
    BY <1>6, <2>2 DEF typecheckDefault, Crash, StepForm
  <2> QED BY <1>6, <2>1, <2>2 DEF typecheckDefault
<1> QED BY <1>1, <1>2, <1>3, <1>4, <1>5, <1>6 DEF typecheckExpr

-----------------------------------------------------------------------------
(* Each form keeps the slots dense.                                        *)

LEMMA AddedSymbol ==
  ASSUME NEW ss, FineScopes(ss), NEW s \in DOMAIN ss, NEW symbol,
         NEW tt, tt = scopeAddSymbol(ss, s, symbol)
  PROVE  /\ DOMAIN tt = DOMAIN ss
         /\ \A c \in DOMAIN ss : c # s => tt[c] = ss[c]
         /\ tt[s].chain = ss[s].chain /\ tt[s].funcIndex = ss[s].funcIndex
         /\ tt[s].isFuncScope = ss[s].isFuncScope
         /\ tt[s].symbols = IF scopeLookupCurrent(ss, s, symbol.name) # {}
                            THEN ss[s].symbols ELSE Append(ss[s].symbols, symbol)
<1> DEFINE scope == [ss[s] EXCEPT !.symbols = Append(@, symbol)]
           declared == scopeLookupCurrent(ss, s, symbol.name) # {}
<1>1. ss \in Seq(Scope) /\ \A c \in DOMAIN ss : ss[c] \in Scope
  BY DEF FineScopes, FineScope
<1>2. /\ scope.chain = ss[s].chain /\ scope.funcIndex = ss[s].funcIndex
      /\ scope.isFuncScope = ss[s].isFuncScope
      /\ scope.symbols = Append(ss[s].symbols, symbol)
  BY <1>1 DEF Scope
<1>3. [ss EXCEPT ![s].symbols = Append(@, symbol)] = [ss EXCEPT ![s] = scope]
  OBVIOUS
<1>4. tt = IF declared THEN ss ELSE [ss EXCEPT ![s] = scope]
  BY <1>3 DEF scopeAddSymbol
<1> HIDE DEF scope, declared
<1>5. CASE declared
  BY <1>4, <1>5 DEF declared
<1>6. CASE ~ declared
  <2>1. tt = [ss EXCEPT ![s] = scope]
    BY <1>4, <1>6
  <2>2. DOMAIN tt = DOMAIN ss /\ tt[s] = scope /\ \A c \in DOMAIN ss : c # s => tt[c] = ss[c]
    BY <1>1, <2>1
  <2> QED BY <1>2, <1>6, <2>2 DEF declared
<1> QED BY <1>5, <1>6

(* A local gets the next slot of its scope.                                *)
LEMMA SlotTaken ==
  ASSUME FineScopes(scopes), NEW s \in DOMAIN scopes, NEW n, ~ Declared(s, ast[n].name),
         NEW tt, tt = TakeSlot(n, s)
  PROVE  /\ DOMAIN tt = DOMAIN scopes
         /\ \A c \in DOMAIN scopes : c # s => tt[c] = scopes[c]
         /\ tt[s].chain = scopes[s].chain /\ tt[s].funcIndex = scopes[s].funcIndex + 1
         /\ tt[s].isFuncScope = scopes[s].isFuncScope
         /\ \E symbol : /\ symbol.origin = "let" /\ symbol.funcIndex = scopes[s].funcIndex
                        /\ symbol.name = ast[n].name
                        /\ tt[s].symbols = Append(scopes[s].symbols, symbol)
<1> DEFINE slot == scopes[s].funcIndex
           symbol == NewSymbol(ast[n].name, typeOf[Kid(n, 1)], slot, "let", n)
           added == [scopes EXCEPT ![s].symbols = Append(@, symbol)]
           scope == [scopes[s] EXCEPT !.symbols = Append(@, symbol), !.funcIndex = slot + 1]
<1>1. scopes \in Seq(Scope) /\ scopes[s] \in Scope
  BY DEF FineScopes, FineScope
<1>2. symbol.name = ast[n].name /\ symbol.origin = "let" /\ symbol.funcIndex = slot
  BY DEF NewSymbol
<1>3. scopeAddSymbol(scopes, s, symbol) = added
  BY <1>2 DEF scopeAddSymbol, Declared
<1>4. tt = [added EXCEPT ![s].funcIndex = slot + 1]
  BY <1>3 DEF TakeSlot
<1> HIDE DEF symbol, slot
<1>5. tt = [scopes EXCEPT ![s] = scope]
  BY <1>1, <1>4 DEF Scope
<1>6. /\ scope.chain = scopes[s].chain /\ scope.funcIndex = slot + 1
      /\ scope.isFuncScope = scopes[s].isFuncScope
      /\ scope.symbols = Append(scopes[s].symbols, symbol)
  BY <1>1 DEF Scope
<1> HIDE DEF scope
<1>7. DOMAIN tt = DOMAIN scopes /\ tt[s] = scope /\ \A c \in DOMAIN scopes : c # s => tt[c] = scopes[c]
  BY <1>1, <1>5
<1> QED BY <1>2, <1>6, <1>7 DEF slot

LEMMA AppendedSymbol ==
  ASSUME NEW symbols \in Seq(Symbol), NEW symbol
  PROVE  /\ DOMAIN Append(symbols, symbol) = DOMAIN symbols \cup {Len(symbols) + 1}
         /\ Len(symbols) + 1 \notin DOMAIN symbols
         /\ Append(symbols, symbol)[Len(symbols) + 1] = symbol
         /\ \A i \in DOMAIN symbols : Append(symbols, symbol)[i] = symbols[i]
<1> DEFINE S == Symbol \cup {symbol}
<1>1. symbols \in Seq(S) /\ symbol \in S
  OBVIOUS
<1> HIDE DEF S
<1> QED BY ONLY <1>1

(* The calls that stay in their scopes, which keep their locals.           *)
LEMMA SameChains ==
  ASSUME FineScopes(scopes), Chains(scopes), NEW ss, DOMAIN ss = DOMAIN scopes,
         \A c \in DOMAIN scopes : ss[c].chain = scopes[c].chain
  PROVE  Chains(ss)
<1>1. ASSUME NEW s \in DOMAIN ss
      PROVE  s \in ss[s].chain /\ \A c \in ss[s].chain : ss[c].chain \subseteq ss[s].chain
  <2>1. s \in DOMAIN scopes /\ s \in 1..Len(scopes) /\ Len(scopes) \in Nat
        /\ scopes[s].chain \subseteq 1..s /\ DOMAIN scopes = 1..Len(scopes)
    BY <1>1 DEF FineScopes
  <2>2. scopes[s].chain \subseteq DOMAIN scopes
    BY <2>1
  <2> QED BY <2>1, <2>2 DEF Chains
<1> QED BY <1>1 DEF Chains

LEMMA TopOfNested ==
  ASSUME WellFormed(ast), PassOK, stack # <<>>, Chains(scopes), Nested(scopes, stack)
  PROVE  /\ stack \in Seq(Tasks) /\ FineScopes(scopes)
         /\ Top.s \in DOMAIN scopes /\ Top.s \in scopes[Top.s].chain /\ Dense(scopes, Top.s)
         /\ scopes[Top.s].chain \subseteq DOMAIN scopes /\ scopes[Top.s].chain \subseteq 1..Top.s
         /\ Top.s \in Nat /\ scopes[Top.s].funcIndex \in Nat
         /\ scopes[Top.s].symbols \in Seq(Symbol)
<1>1. stack \in Seq(Tasks) /\ FineScopes(scopes)
  BY DEF PassOK, StackOK, ScopesOK
<1>2. 1 \in DOMAIN stack /\ stack[1] = Top
  <2>1. 1 \in DOMAIN stack /\ stack[1] = Head(stack)
    <3>1. stack \in Seq(Tasks) /\ stack # <<>>
      BY <1>1
    <3> QED BY ONLY <3>1
  <2> QED BY <2>1 DEF Top
<1>3. Top.do \in SemanticTasks /\ Dense(scopes, Top.s)
  BY <1>2 DEF Nested
<1>4. Top.s \in DOMAIN scopes
  BY <1>3, SemanticTop DEF Running
<1>5. /\ Top.s \in 1..Len(scopes) /\ Len(scopes) \in Nat /\ DOMAIN scopes = 1..Len(scopes)
      /\ scopes[Top.s].chain \subseteq 1..Top.s /\ scopes[Top.s] \in Scope
  BY <1>1, <1>4 DEF FineScopes, FineScope
<1>6. scopes[Top.s].chain \subseteq DOMAIN scopes /\ Top.s \in Nat
  BY <1>5
<1> QED BY <1>1, <1>3, <1>4, <1>5, <1>6 DEF Chains, Scope

LEMMA FormKeepsSlots ==
  ASSUME WellFormed(ast), PassOK, stack # <<>>, Chains(scopes), Nested(scopes, stack), StepForm
  PROVE  Chains(scopes') /\ (phase' # "crashed" => Nested(scopes', stack'))
<1> DEFINE u == Top.s
<1>1. /\ stack \in Seq(Tasks) /\ FineScopes(scopes)
      /\ u \in DOMAIN scopes /\ u \in scopes[u].chain /\ Dense(scopes, u)
      /\ scopes[u].chain \subseteq DOMAIN scopes /\ scopes[u].chain \subseteq 1..u
      /\ u \in Nat /\ scopes[u].funcIndex \in Nat /\ scopes[u].symbols \in Seq(Symbol)
  BY TopOfNested
<1>2. CASE phase' = "crashed" /\ UNCHANGED scopes
  BY <1>2
<1>3. CASE CallsHere
  <2>1. PICK tasks : OneScope(tasks, u) /\ Call(tasks) /\ UNCHANGED scopes
    BY <1>3 DEF CallsHere
  <2>2. Nested(scopes, tasks \o Tail(stack))
    BY <1>1, <2>1, NestedCalls
  <2> QED BY <2>1, <2>2 DEF Call
<1>4. ASSUME Return, NEW ss, DOMAIN ss = DOMAIN scopes,
             \A c \in DOMAIN scopes : ss[c].chain = scopes[c].chain,
             \A c \in scopes[u].chain : Dense(scopes, c) => Dense(ss, c)
      PROVE  Chains(ss) /\ Nested(ss, stack')
  <2>1. Nested(ss, <<>> \o Tail(stack))
    BY <1>1, <1>4, NoCall, NestedCalls
  <2>2. <<>> \o Tail(stack) = Tail(stack)
    <3>1. stack \in Seq(Tasks) /\ stack # <<>>
      BY <1>1
    <3>2. Tail(stack) \in Seq(Tasks)
      BY ONLY <3>1
    <3> QED BY ONLY <3>2
  <2> QED BY <1>1, <1>4, <2>1, <2>2, SameChains DEF Return
<1>5. ASSUME NEW c \in scopes[u].chain
      PROVE  /\ c \in DOMAIN scopes /\ scopes[c].chain \subseteq DOMAIN scopes
             /\ c # u => u \notin scopes[c].chain
  <2>1. c \in DOMAIN scopes /\ c \in 1..u /\ scopes[c].chain \subseteq 1..c
    BY <1>1 DEF FineScopes
  <2> QED BY <1>1, <2>1 DEF Chains
<1>6. CASE Declares
  <2>1. PICK symbol : symbol.origin = "global" /\ scopes' = scopeAddSymbol(scopes, u, symbol)
    BY <1>6 DEF Declares
  <2> DEFINE ss == scopes'
  <2> HIDE DEF ss, u
  <2>2. /\ DOMAIN ss = DOMAIN scopes
        /\ \A c \in DOMAIN scopes : c # u => ss[c] = scopes[c]
        /\ ss[u].chain = scopes[u].chain /\ ss[u].funcIndex = scopes[u].funcIndex
        /\ ss[u].symbols = IF scopeLookupCurrent(scopes, u, symbol.name) # {}
                           THEN scopes[u].symbols ELSE Append(scopes[u].symbols, symbol)
    <3>1. ss = scopeAddSymbol(scopes, u, symbol)
      BY <2>1 DEF ss
    <3>2. FineScopes(scopes) /\ u \in DOMAIN scopes
      BY <1>1
    <3> QED BY ONLY <3>1, <3>2, AddedSymbol
  <2>3. SameLets(scopes, ss, u)
    <3> DEFINE old == scopes[u].symbols
               all == Append(old, symbol)
    <3>1. CASE ss[u].symbols = old
      BY <3>1 DEF SameLets, LetsOf
    <3>2. CASE ss[u].symbols = all
      <4>1. /\ DOMAIN all = DOMAIN old \cup {Len(old) + 1} /\ all[Len(old) + 1] = symbol
            /\ \A i \in DOMAIN old : all[i] = old[i]
        <5>1. old \in Seq(Symbol)
          BY <1>1
        <5> HIDE DEF old
        <5> QED BY <5>1, AppendedSymbol
      <4> HIDE DEF all
      <4> QED BY <2>1, <3>2, <4>1 DEF SameLets, LetsOf
    <3> QED BY <2>2, <3>1, <3>2
  <2>4. \A c \in DOMAIN scopes : SameLets(scopes, ss, c)
    BY <2>2, <2>3 DEF SameLets, LetsOf
  <2>5. ASSUME NEW c \in scopes[u].chain, Dense(scopes, c)
        PROVE  Dense(ss, c)
    BY <1>5, <2>2, <2>4, <2>5, DenseStays
  <2>6. Return
    BY <1>6 DEF Declares
  <2>7. Chains(ss) /\ Nested(ss, stack')
    BY <1>4, <2>2, <2>5, <2>6
  <2> QED BY <2>7 DEF ss
<1>7. CASE TakesSlot
  <2> DEFINE ss == scopes'
             k == Len(scopes[u].symbols) + 1
  <2> HIDE DEF ss
  <2>1. ss = TakeSlot(Top.n, u) /\ ~ Declared(u, ast[Top.n].name) /\ Return
    BY <1>7 DEF TakesSlot, ss
  <2> HIDE DEF u
  <2>2. /\ DOMAIN ss = DOMAIN scopes
        /\ \A c \in DOMAIN scopes : c # u => ss[c] = scopes[c]
        /\ ss[u].chain = scopes[u].chain /\ ss[u].funcIndex = scopes[u].funcIndex + 1
        /\ \E symbol : /\ symbol.origin = "let" /\ symbol.funcIndex = scopes[u].funcIndex
                       /\ ss[u].symbols = Append(scopes[u].symbols, symbol)
    BY <1>1, <2>1, SlotTaken
  <2>3. PICK symbol : /\ symbol.origin = "let" /\ symbol.funcIndex = scopes[u].funcIndex
                      /\ ss[u].symbols = Append(scopes[u].symbols, symbol)
    BY <2>2
  <2>4. /\ k \notin DOMAIN scopes[u].symbols
        /\ DOMAIN ss[u].symbols = DOMAIN scopes[u].symbols \cup {k}
        /\ ss[u].symbols[k] = symbol
        /\ \A i \in DOMAIN scopes[u].symbols : ss[u].symbols[i] = scopes[u].symbols[i]
    <3>1. scopes[u].symbols \in Seq(Symbol)
      BY <1>1
    <3> QED BY <2>3, <3>1, AppendedSymbol
  <2> HIDE DEF k
  <2>5. /\ LetsOf(ss, u) = LetsOf(scopes, u) \cup {k}
        /\ \A i \in LetsOf(scopes, u) : ss[u].symbols[i] = scopes[u].symbols[i]
    BY <2>3, <2>4 DEF LetsOf
  <2>6. \A c \in DOMAIN scopes : c # u => SameLets(scopes, ss, c)
    BY <2>2 DEF SameLets, LetsOf
  <2>7. Dense(ss, u)
    BY <1>1, <2>2, <2>3, <2>4, <2>5, <2>6, DenseTaken
  <2>8. ASSUME NEW c \in scopes[u].chain, Dense(scopes, c), c # u
        PROVE  Dense(ss, c)
    <3>1. \A d \in scopes[c].chain : d \in DOMAIN scopes /\ d # u
      BY <1>5, <2>8
    <3>2. ss[c] = scopes[c] /\ c \in DOMAIN scopes
      BY <1>5, <2>2, <2>8
    <3>3. \A d \in scopes[c].chain : SameLets(scopes, ss, d)
      BY <2>6, <3>1
    <3> QED BY <2>8, <3>2, <3>3, DenseStays
  <2>9. \A c \in DOMAIN scopes : ss[c].chain = scopes[c].chain
    BY <2>2
  <2>10. Chains(ss) /\ Nested(ss, stack')
    BY <1>4, <2>1, <2>2, <2>7, <2>8, <2>9
  <2> QED BY <2>10 DEF ss
<1>8. CASE Enters
  <2>1. PICK tasks : OneScope(tasks, Len(scopes) + 1) /\ Call(tasks)
    BY <1>8 DEF Enters
  <2>2. PICK scope \in Scope :
          /\ scopes' = Append(scopes, scope)
          /\ scope.chain = {Len(scopes) + 1} \cup scopes[u].chain
          /\ scope.funcIndex = scopes[u].funcIndex
          /\ \A i \in DOMAIN scope.symbols : scope.symbols[i].origin # "let"
    BY <1>8 DEF Enters
  <2> DEFINE ss == Append(scopes, scope)
             new == Len(scopes) + 1
  <2>3. /\ \A c \in DOMAIN scopes : ss[c] = scopes[c]
        /\ ss[new] = scope /\ DOMAIN ss = DOMAIN scopes \cup {new} /\ new \notin DOMAIN scopes
    <3>1. scopes \in Seq(Scope) /\ scope \in Scope
      BY <1>1 DEF FineScopes
    <3> QED BY ONLY <3>1
  <2>4. scopes' = ss
    BY <2>2
  <2> HIDE DEF ss, u
  <2>5. new \in ss[new].chain /\ scopes[u].chain \subseteq ss[new].chain
        /\ ss[new].chain = {new} \cup scopes[u].chain
    BY <2>2, <2>3
  <2>6. \A c \in DOMAIN scopes : SameLets(scopes, ss, c)
    BY <2>3 DEF SameLets, LetsOf
  <2>7. Dense(ss, new)
    <3>1. LetsOf(ss, new) = {}
      BY <2>2, <2>3 DEF LetsOf
    <3> HIDE DEF new
    <3> QED BY <1>1, <2>2, <2>3, <2>5, <2>6, <3>1, DenseStays
  <2>8. ASSUME NEW c \in scopes[u].chain, Dense(scopes, c)
        PROVE  Dense(ss, c)
    BY <1>5, <2>3, <2>6, <2>8, DenseStays
  <2>9. \A c \in scopes[u].chain : ss[c].chain = scopes[c].chain
    BY <1>5, <2>3
  <2>10. Nested(ss, tasks \o Tail(stack))
    <3> HIDE DEF new
    <3>1. OneScope(tasks, new)
      BY <2>1 DEF new
    <3> QED BY <1>1, <2>5, <2>7, <2>8, <2>9, <3>1, NestedCalls DEF u
  <2>11. Chains(ss)
    <3>1. ASSUME NEW s \in DOMAIN ss
          PROVE  s \in ss[s].chain /\ \A c \in ss[s].chain : ss[c].chain \subseteq ss[s].chain
      <4>1. CASE s = new
        <5>1. ASSUME NEW c \in ss[new].chain
              PROVE  ss[c].chain \subseteq ss[new].chain
          BY <1>1, <1>5, <2>5, <2>9 DEF Chains
        <5> QED BY <2>5, <4>1, <5>1
      <4>2. CASE s \in DOMAIN scopes
        <5>1. scopes[s].chain \subseteq DOMAIN scopes
          <6>1. /\ s \in 1..Len(scopes) /\ Len(scopes) \in Nat /\ DOMAIN scopes = 1..Len(scopes)
                /\ scopes[s].chain \subseteq 1..s
            BY <1>1, <4>2 DEF FineScopes
          <6> QED BY <6>1
        <5> QED BY <2>3, <4>2, <5>1 DEF Chains
      <4> QED BY <2>3, <4>1, <4>2
    <3> QED BY <3>1 DEF Chains
  <2> QED BY <2>1, <2>4, <2>10, <2>11 DEF Call
<1> QED BY <1>2, <1>3, <1>6, <1>7, <1>8 DEF StepForm

-----------------------------------------------------------------------------
(* The slots, from the first step to the last.                             *)

LEMMA SlotsStart ==
  ASSUME StateInv, BeginAnalysis
  PROVE  Chains(scopes') /\ Nested(scopes', stack')
<1> DEFINE top == initScope(<<>>, 0)
           ss == <<top>>
           kids == ast[1].kids
           first == ForEach("resolveNode", kids, 1)
           second == ForEach("typecheckStmt", kids, 1)
<1>1. scopes' = ss /\ stack' = first \o second
  BY DEF BeginAnalysis
<1>2. top.chain = {1} /\ top.funcIndex = 0 /\ top.symbols = <<>>
  BY DEF initScope
<1>3. DOMAIN ss = {1} /\ ss[1] = top
  OBVIOUS
<1>4. kids \in Seq(Nat)
  <2>1. WellFormed(ast)
    BY TreeWellFormed DEF StateInv
  <2>2. kids \in Seq(DOMAIN ast) /\ DOMAIN ast \subseteq Nat
    BY <2>1, TreeNodes
  <2> HIDE DEF kids
  <2> QED BY <2>2
<1> HIDE DEF top, ss, kids
<1>5. OneScope(first, 1) /\ OneScope(second, 1)
  BY <1>4, EachCall DEF SemanticTasks
<1> HIDE DEF first, second
<1>6. OneScope(first \o second, 1)
  BY <1>5, OneScopeTogether
<1>7. Chains(ss)
  BY <1>2, <1>3 DEF Chains
<1>8. Dense(ss, 1)
  <2>1. LetsIn(ss, 1) = {}
    BY <1>2, <1>3 DEF LetsIn
  <2>2. 0..(0 - 1) = {} /\ IsFiniteSet({}) /\ Cardinality({}) = 0
    BY FS_EmptySet
  <2> QED BY <1>2, <1>3, <2>1, <2>2 DEF Dense
<1>9. Nested(ss, first \o second)
  BY <1>2, <1>3, <1>6, <1>8 DEF Nested, OneScope
<1> QED BY <1>1, <1>7, <1>9

LEMMA SlotInit == Init => SlotInv
BY DEF Init, SlotInv, Chains

LEMMA SlotStep == StateInv /\ SlotInv /\ [Next]_vars => SlotInv'
<1> SUFFICES ASSUME StateInv, SlotInv, [Next]_vars PROVE SlotInv'
  OBVIOUS
<1>1. CASE BeginAnalysis
  BY <1>1, SlotsStart DEF SlotInv
<1>2. CASE Analyse
  <2>1. WellFormed(ast) /\ PassOK /\ AnalysisStep /\ phase = "analyse"
    BY <1>2, TreeWellFormed DEF StateInv, PassOK, Analyse
  <2>2. StepForm /\ GoesOn
    BY <2>1, ResolveNodeForm, TypecheckStmtForm, TypecheckExprForm, AnalysisStepKeeps
       DEF AnalysisStep
  <2>3. stack # <<>>
    BY <2>1
       DEF AnalysisStep, resolveNode, resolveLet, resolveConst, addConst, resolveFunc,
           typecheckStmt, typecheckLocal, typecheckConst, addLocal, typecheckFuncDec,
           typecheckExprStmt, stmtEnd, typecheckExpr, typecheckLiteral, typecheckIdent,
           typecheckBinop, binopEnd, typecheckUnop, unopEnd, typecheckIf, ifTrue, ifFalse,
           ifEnd, typecheckBlock, typecheckCall, refusedCall, argument, callEnd,
           typecheckExit, typecheckDefault, Expr, RunningOn, Running
  <2>4. Chains(scopes') /\ (phase' # "crashed" => Nested(scopes', stack'))
    BY <2>1, <2>2, <2>3, FormKeepsSlots DEF SlotInv
  <2> QED BY <2>1, <2>4 DEF SlotInv
<1>3. CASE UNCHANGED <<scopes, stack>> /\ (phase' = "analyse" => phase = "analyse")
  BY <1>3 DEF SlotInv
<1>4. CASE UNCHANGED scopes /\ phase' # "analyse"
  BY <1>4 DEF SlotInv
<1>5. CASE \/ Parse \/ RejectSyntax \/ RejectSemantics \/ DestroyArena \/ PrintAndReturn
           \/ buildMain \/ Finished \/ UNCHANGED vars
  BY <1>3, <1>5
     DEF Parse, RejectSyntax, RejectSemantics, Reject, DestroyArena, PrintAndReturn,
         buildMain, ExitWithError, BeginDisassembly, disassembleInstruction, EndDisassembly,
         Finished, vars
<1>6. CASE BeginCodegen
  BY <1>4, <1>6 DEF BeginCodegen
<1>7. CASE Generate
  <2>1. WellFormed(ast) /\ PassOK /\ CodeOK /\ CodegenStep /\ phase = "generate"
    BY <1>7, TreeWellFormed DEF StateInv, PassOK, Generate
  <2>2. GoesOn /\ UNCHANGED scopes
    BY <2>1, CodegenStepKeeps DEF CodegenStep
  <2> QED BY <1>4, <2>1, <2>2 DEF GoesOn
<1> QED BY <1>1, <1>2, <1>5, <1>6, <1>7 DEF Next, compile

(* The slots of the locals that are visible from the scope being checked   *)
(* are 0, 1, ... up to the next one to give away, each taken once          *)
(* (initScope, typecheckVarDec).                                           *)
THEOREM SlotsStayDense == Spec => []SlotsDense
<1>1. StateInv /\ SlotInv => SlotsDense
  <2> SUFFICES ASSUME StateInv, SlotInv, phase = "analyse", stack # <<>>
               PROVE  LET lets == VisibleLets(Top.s)
                          next == scopes[Top.s].funcIndex
                      IN  /\ {SymbolAt(scopes, ref).funcIndex : ref \in lets} = 0..(next - 1)
                          /\ Cardinality(lets) = next
    BY DEF SlotsDense
  <2>1. WellFormed(ast) /\ PassOK
    BY TreeWellFormed DEF StateInv, PassOK
  <2>2. Dense(scopes, Top.s)
    BY <2>1, TopOfNested DEF SlotInv
  <2>3. VisibleLets(Top.s) = LetsIn(scopes, Top.s)
    BY DEF VisibleLets, LetsIn
  <2> QED BY <2>2, <2>3 DEF Dense
<1> QED BY StateInit, StateStep, SlotInit, SlotStep, <1>1, PTL DEF Spec

-----------------------------------------------------------------------------
(* What the checker has seen.  "V" is a set of visits, each a node and the *)
(* scope it was checked in; "P" is the set of the pending calls.           *)

CallsOf(st) == {st[k] : k \in DOMAIN st}

Pending(P, do, n, s) == \E t \in P : t.do = do /\ t.n = n /\ t.s = s

(* A node was checked in a scope, or is going to be.                       *)
Covered(V, P, n, s) ==
  \/ <<n, s>> \in V
  \/ Pending(P, "typecheckStmt", n, s)
  \/ Pending(P, "typecheckExpr", n, s)

(* The name can be found from the scope.                                   *)
Known(ss, s, name) ==
  \E c \in ss[s].chain : \E i \in DOMAIN ss[c].symbols : ss[c].symbols[i].name = name

(* What a visit to a node left behind, for the tree "a", the scopes "ss"   *)
(* and the scopes "so" of functions and blocks.                            *)
NodeSeen(a, V, ss, so, P, n, s) ==
  /\ a[n].kind = "IDENT" => Known(ss, s, a[n].name)
  /\ a[n].kind \in {"BLOCK", "DECL_FUNC"} =>
       so[n] # 0 /\ \A i \in DOMAIN a[n].kids : Covered(V, P, a[n].kids[i], so[n])
  /\ a[n].kind = "DECL_VAR" =>
       Covered(V, P, a[n].kids[1], s) \/ Pending(P, "resolveNode", n, s)
  /\ a[n].kind = "EXIT" => Covered(V, P, a[n].kids[1], s)
  /\ a[n].kind = "BINOP" => Covered(V, P, a[n].kids[1], s) /\ Covered(V, P, a[n].kids[2], s)
  /\ a[n].kind = "IF" =>
       /\ Covered(V, P, a[n].kids[1], s)
       /\ Covered(V, P, a[n].kids[2], s) \/ Pending(P, "ifTrue", n, s)
       /\ Len(a[n].kids) = 3 => \/ Covered(V, P, a[n].kids[3], s)
                                \/ Pending(P, "ifTrue", n, s)
                                \/ Pending(P, "ifFalse", n, s)

(* The checker does not look into a const whose turn as a statement comes: *)
(* it is refused there, or resolveNames looks into it.                     *)
ConstSeen(a, V, ss, P, t) ==
  t.do = "typecheckStmt" /\ a[t.n].kind = "DECL_VAR" /\ a[t.n].op = "const" =>
    \/ ss[t.s].isFuncScope
    \/ Covered(V, P, a[t.n].kids[1], t.s)
    \/ Pending(P, "resolveNode", t.n, t.s)

Seen(a, V, ss, so, P) ==
  /\ \A n, s : <<n, s>> \in V => n \in DOMAIN a /\ s \in DOMAIN ss
  /\ \A i \in DOMAIN a[1].kids : Covered(V, P, a[1].kids[i], 1)
  /\ \A n \in DOMAIN a, s \in DOMAIN ss : <<n, s>> \in V => NodeSeen(a, V, ss, so, P, n, s)
  /\ \A t \in P : ConstSeen(a, V, ss, P, t)

(* What a call has to leave behind when it is done.                        *)
Settled(a, V, P, t) ==
  /\ t.do \in {"typecheckStmt", "typecheckExpr"} => Covered(V, P, t.n, t.s)
  /\ t.do = "resolveNode" /\ a[t.n].kind = "DECL_VAR" => Covered(V, P, a[t.n].kids[1], t.s)
  /\ t.do = "ifTrue" => Covered(V, P, a[t.n].kids[2], t.s) /\ Pending(P, "ifFalse", t.n, t.s)
  /\ t.do = "ifFalse" /\ Len(a[t.n].kids) = 3 => Covered(V, P, a[t.n].kids[3], t.s)

(* Scopes and symbols are only added.                                      *)
Later(ss, tt) ==
  /\ DOMAIN ss \subseteq DOMAIN tt
  /\ \A c \in DOMAIN ss :
       /\ tt[c].chain = ss[c].chain /\ tt[c].isFuncScope = ss[c].isFuncScope
       /\ \A i \in DOMAIN ss[c].symbols :
            i \in DOMAIN tt[c].symbols /\ tt[c].symbols[i].name = ss[c].symbols[i].name

-----------------------------------------------------------------------------
(* A call is replaced by others that see to what it had to do.             *)

LEMMA PendingKept ==
  ASSUME NEW P, NEW Q, NEW top, P \subseteq Q \cup {top}, NEW do, NEW n, NEW s,
         Pending(P, do, n, s)
  PROVE  Pending(Q, do, n, s) \/ (top.do = do /\ top.n = n /\ top.s = s)
BY DEF Pending

LEMMA CoveredKept ==
  ASSUME NEW a, NEW P, NEW Q, NEW top, P \subseteq Q \cup {top}, NEW V, NEW W, V \subseteq W,
         Settled(a, W, Q, top), NEW n, NEW s, Covered(V, P, n, s)
  PROVE  Covered(W, Q, n, s)
<1>1. CASE <<n, s>> \in V
  BY <1>1 DEF Covered
<1>2. ASSUME NEW do \in {"typecheckStmt", "typecheckExpr"}, Pending(P, do, n, s)
      PROVE  Covered(W, Q, n, s)
  <2>1. Pending(Q, do, n, s) \/ (top.do = do /\ top.n = n /\ top.s = s)
    BY <1>2, PendingKept
  <2> QED BY <1>2, <2>1 DEF Covered, Settled
<1> QED BY <1>1, <1>2 DEF Covered

LEMMA ResolveKept ==
  ASSUME NEW a, NEW P, NEW Q, NEW top, P \subseteq Q \cup {top}, NEW V, NEW W, V \subseteq W,
         Settled(a, W, Q, top), NEW n, NEW s, a[n].kind = "DECL_VAR",
         Covered(V, P, a[n].kids[1], s) \/ Pending(P, "resolveNode", n, s)
  PROVE  Covered(W, Q, a[n].kids[1], s) \/ Pending(Q, "resolveNode", n, s)
<1>1. CASE Covered(V, P, a[n].kids[1], s)
  BY <1>1, CoveredKept
<1>2. CASE Pending(P, "resolveNode", n, s)
  <2>1. Pending(Q, "resolveNode", n, s) \/ (top.do = "resolveNode" /\ top.n = n /\ top.s = s)
    BY <1>2, PendingKept
  <2> QED BY <2>1 DEF Settled
<1> QED BY <1>1, <1>2

LEMMA KnownLater ==
  ASSUME NEW ss, NEW tt, Later(ss, tt), NEW s \in DOMAIN ss, ss[s].chain \subseteq DOMAIN ss,
         NEW name, Known(ss, s, name)
  PROVE  Known(tt, s, name)
<1>1. PICK c \in ss[s].chain : \E i \in DOMAIN ss[c].symbols : ss[c].symbols[i].name = name
  BY DEF Known
<1>2. PICK i \in DOMAIN ss[c].symbols : ss[c].symbols[i].name = name
  BY <1>1
<1>3. c \in tt[s].chain /\ i \in DOMAIN tt[c].symbols /\ tt[c].symbols[i].name = name
  BY <1>2 DEF Later
<1> QED BY <1>3 DEF Known

LEMMA NodeKept ==
  ASSUME NEW a, NEW P, NEW Q, NEW top, P \subseteq Q \cup {top}, NEW V, NEW W, V \subseteq W,
         Settled(a, W, Q, top),
         NEW ss, NEW tt, Later(ss, tt), NEW so, NEW sp, NEW n, NEW s \in DOMAIN ss,
         ss[s].chain \subseteq DOMAIN ss,
         sp[n] = so[n] \/ (sp[n] # 0 /\ \A i \in DOMAIN a[n].kids : Covered(W, Q, a[n].kids[i], sp[n])),
         NodeSeen(a, V, ss, so, P, n, s)
  PROVE  NodeSeen(a, W, tt, sp, Q, n, s)
<1>1. \A m, u : Covered(V, P, m, u) => Covered(W, Q, m, u)
  BY CoveredKept
<1>2. a[n].kind = "IDENT" => Known(tt, s, a[n].name)
  BY KnownLater DEF NodeSeen
<1>3. a[n].kind \in {"BLOCK", "DECL_FUNC"} =>
        sp[n] # 0 /\ \A i \in DOMAIN a[n].kids : Covered(W, Q, a[n].kids[i], sp[n])
  BY <1>1 DEF NodeSeen
<1>4. a[n].kind = "DECL_VAR" =>
        Covered(W, Q, a[n].kids[1], s) \/ Pending(Q, "resolveNode", n, s)
  BY ResolveKept DEF NodeSeen
<1>5. a[n].kind = "EXIT" => Covered(W, Q, a[n].kids[1], s)
  BY <1>1 DEF NodeSeen
<1>6. a[n].kind = "BINOP" => Covered(W, Q, a[n].kids[1], s) /\ Covered(W, Q, a[n].kids[2], s)
  BY <1>1 DEF NodeSeen
<1>7. ASSUME a[n].kind = "IF"
      PROVE  /\ Covered(W, Q, a[n].kids[1], s)
             /\ Covered(W, Q, a[n].kids[2], s) \/ Pending(Q, "ifTrue", n, s)
             /\ Len(a[n].kids) = 3 => \/ Covered(W, Q, a[n].kids[3], s)
                                      \/ Pending(Q, "ifTrue", n, s)
                                      \/ Pending(Q, "ifFalse", n, s)
  <2>1. Covered(W, Q, a[n].kids[1], s)
    BY <1>1, <1>7 DEF NodeSeen
  <2>2. Pending(P, "ifTrue", n, s) =>
          \/ Pending(Q, "ifTrue", n, s)
          \/ Covered(W, Q, a[n].kids[2], s) /\ Pending(Q, "ifFalse", n, s)
    <3>1. ASSUME Pending(P, "ifTrue", n, s)
          PROVE  Pending(Q, "ifTrue", n, s) \/ (top.do = "ifTrue" /\ top.n = n /\ top.s = s)
      BY <3>1, PendingKept
    <3> QED BY <3>1 DEF Settled
  <2>3. Pending(P, "ifFalse", n, s) /\ Len(a[n].kids) = 3 =>
          Pending(Q, "ifFalse", n, s) \/ Covered(W, Q, a[n].kids[3], s)
    <3>1. ASSUME Pending(P, "ifFalse", n, s)
          PROVE  Pending(Q, "ifFalse", n, s) \/ (top.do = "ifFalse" /\ top.n = n /\ top.s = s)
      BY <3>1, PendingKept
    <3> QED BY <3>1 DEF Settled
  <2>4. Covered(W, Q, a[n].kids[2], s) \/ Pending(Q, "ifTrue", n, s)
    BY <1>1, <1>7, <2>2 DEF NodeSeen
  <2>5. Len(a[n].kids) = 3 => \/ Covered(W, Q, a[n].kids[3], s)
                              \/ Pending(Q, "ifTrue", n, s)
                              \/ Pending(Q, "ifFalse", n, s)
    BY <1>1, <1>7, <2>2, <2>3 DEF NodeSeen
  <2> QED BY <2>1, <2>4, <2>5
<1> QED BY <1>2, <1>3, <1>4, <1>5, <1>6, <1>7 DEF NodeSeen

LEMMA ConstKept ==
  ASSUME NEW a, NEW P, NEW Q, NEW top, P \subseteq Q \cup {top}, NEW V, NEW W, V \subseteq W,
         Settled(a, W, Q, top),
         NEW ss, NEW tt, Later(ss, tt), NEW t, t.s \in DOMAIN ss, ConstSeen(a, V, ss, P, t)
  PROVE  ConstSeen(a, W, tt, Q, t)
<1> SUFFICES ASSUME t.do = "typecheckStmt", a[t.n].kind = "DECL_VAR", a[t.n].op = "const"
             PROVE  \/ tt[t.s].isFuncScope
                    \/ Covered(W, Q, a[t.n].kids[1], t.s)
                    \/ Pending(Q, "resolveNode", t.n, t.s)
  BY DEF ConstSeen
<1>1. CASE ss[t.s].isFuncScope
  BY <1>1 DEF Later
<1>2. CASE Covered(V, P, a[t.n].kids[1], t.s) \/ Pending(P, "resolveNode", t.n, t.s)
  BY <1>2, ResolveKept
<1> QED BY <1>1, <1>2 DEF ConstSeen

-----------------------------------------------------------------------------
(* The calls of a stack.                                                   *)

LEMMA CallsTogether ==
  ASSUME NEW b \in Seq(Tasks), NEW c \in Seq(Tasks)
  PROVE  CallsOf(b \o c) = CallsOf(b) \cup CallsOf(c)
<1> DEFINE all == b \o c
<1>1. /\ DOMAIN all = 1..(Len(b) + Len(c)) /\ Len(b) \in Nat /\ Len(c) \in Nat
      /\ DOMAIN b = 1..Len(b) /\ DOMAIN c = 1..Len(c)
      /\ \A i \in 1..Len(b) : all[i] = b[i]
      /\ \A i \in 1..Len(c) : all[Len(b) + i] = c[i]
      /\ \A i \in DOMAIN all :
           i \in 1..Len(b) \/ (i > Len(b) /\ i - Len(b) \in 1..Len(c) /\ all[i] = c[i - Len(b)])
  BY Joined
<1> HIDE DEF all
<1>2. ASSUME NEW t \in CallsOf(all)
      PROVE  t \in CallsOf(b) \cup CallsOf(c)
  BY <1>1 DEF CallsOf
<1>3. ASSUME NEW t \in CallsOf(b)
      PROVE  t \in CallsOf(all)
  <2>1. PICK i \in 1..Len(b) : t = b[i]
    BY <1>1 DEF CallsOf
  <2>2. i \in DOMAIN all /\ all[i] = t
    BY <1>1, <2>1
  <2> QED BY <2>2 DEF CallsOf
<1>4. ASSUME NEW t \in CallsOf(c)
      PROVE  t \in CallsOf(all)
  <2>1. PICK i \in 1..Len(c) : t = c[i]
    BY <1>1 DEF CallsOf
  <2>2. Len(b) + i \in DOMAIN all /\ all[Len(b) + i] = t
    BY <1>1, <2>1
  <2> QED BY <2>2 DEF CallsOf
<1> QED BY <1>2, <1>3, <1>4 DEF all

LEMMA CallsOfFew ==
  /\ CallsOf(<<>>) = {}
  /\ \A t : CallsOf(<<t>>) = {t}
  /\ \A t, u : CallsOf(<<t, u>>) = {t, u}
  /\ \A t, u, v : CallsOf(<<t, u, v>>) = {t, u, v}
<1>1. CallsOf(<<>>) = {}
  BY DEF CallsOf
<1>2. ASSUME NEW t
      PROVE  CallsOf(<<t>>) = {t}
  <2>1. DOMAIN <<t>> = {1} /\ <<t>>[1] = t
    OBVIOUS
  <2> QED BY <2>1 DEF CallsOf
<1>3. ASSUME NEW t, NEW u
      PROVE  CallsOf(<<t, u>>) = {t, u}
  <2>1. DOMAIN <<t, u>> = {1, 2} /\ <<t, u>>[1] = t /\ <<t, u>>[2] = u
    OBVIOUS
  <2> QED BY <2>1 DEF CallsOf
<1>4. ASSUME NEW t, NEW u, NEW v
      PROVE  CallsOf(<<t, u, v>>) = {t, u, v}
  <2>1. /\ DOMAIN <<t, u, v>> = {1, 2, 3}
        /\ <<t, u, v>>[1] = t /\ <<t, u, v>>[2] = u /\ <<t, u, v>>[3] = v
    OBVIOUS
  <2> QED BY <2>1 DEF CallsOf
<1> QED BY <1>1, <1>2, <1>3, <1>4

LEMMA CallsOfEach ==
  ASSUME NEW do, NEW nodes, NEW s
  PROVE  CallsOf(ForEach(do, nodes, s)) = {Task(do, nodes[i], s) : i \in DOMAIN nodes}
BY DEF CallsOf, ForEach

LEMMA TopAndRest ==
  ASSUME stack \in Seq(Tasks), stack # <<>>
  PROVE  CallsOf(stack) = {Top} \cup CallsOf(Tail(stack)) /\ Tail(stack) \in Seq(Tasks)
<1>1. /\ Tail(stack) \in Seq(Tasks) /\ Len(Tail(stack)) = Len(stack) - 1
      /\ Len(stack) \in Nat /\ Len(stack) >= 1 /\ DOMAIN stack = 1..Len(stack)
      /\ DOMAIN Tail(stack) = 1..(Len(stack) - 1) /\ stack[1] = Head(stack)
      /\ \A i \in 1..(Len(stack) - 1) : Tail(stack)[i] = stack[i + 1]
  BY ONLY stack \in Seq(Tasks), stack # <<>>
<1>2. stack[1] = Top
  BY <1>1 DEF Top
<1>3. ASSUME NEW t \in CallsOf(stack)
      PROVE  t \in {Top} \cup CallsOf(Tail(stack))
  <2>1. PICK i \in 1..Len(stack) : t = stack[i]
    BY <1>1 DEF CallsOf
  <2>2. CASE i = 1
    BY <1>2, <2>1, <2>2
  <2>3. CASE i # 1
    <3>1. i - 1 \in 1..(Len(stack) - 1) /\ (i - 1) + 1 = i
      BY <1>1, <2>3
    <3>2. Tail(stack)[i - 1] = t
      BY <1>1, <2>1, <3>1
    <3> QED BY <1>1, <3>1, <3>2 DEF CallsOf
  <2> QED BY <2>2, <2>3
<1>4. Top \in CallsOf(stack)
  <2>1. 1 \in DOMAIN stack
    BY <1>1
  <2> QED BY <1>2, <2>1 DEF CallsOf
<1>5. ASSUME NEW t \in CallsOf(Tail(stack))
      PROVE  t \in CallsOf(stack)
  <2>1. PICK i \in 1..(Len(stack) - 1) : t = Tail(stack)[i]
    BY <1>1 DEF CallsOf
  <2>2. i + 1 \in DOMAIN stack /\ stack[i + 1] = t
    BY <1>1, <2>1
  <2> QED BY <2>2 DEF CallsOf
<1> QED BY <1>1, <1>3, <1>4, <1>5

LEMMA CoveredByCall ==
  ASSUME NEW V, NEW P, NEW n, NEW s
  PROVE  /\ Task("typecheckExpr", n, s) \in P => Covered(V, P, n, s)
         /\ Task("typecheckStmt", n, s) \in P => Covered(V, P, n, s)
         /\ \A do : Task(do, n, s) \in P => Pending(P, do, n, s)
<1>1. ASSUME NEW do, Task(do, n, s) \in P
      PROVE  Pending(P, do, n, s)
  <2>1. Task(do, n, s).do = do /\ Task(do, n, s).n = n /\ Task(do, n, s).s = s
    BY DEF Task
  <2> QED BY <1>1, <2>1 DEF Pending
<1> QED BY <1>1 DEF Covered

-----------------------------------------------------------------------------
(* A step of the checker, as far as what it has seen goes.                 *)

SeenNow(V) == Seen(ast, V, scopes, scopeOf, CallsOf(stack))
SeenNext == \E V : Seen(ast, V, scopes', scopeOf', CallsOf(stack'))

LEMMA Advance ==
  ASSUME WellFormed(ast), PassOK, stack # <<>>, Later(scopes, scopes'),
         NEW V, SeenNow(V), NEW tasks \in Seq(Tasks), Call(tasks),
         Top.n \in DOMAIN ast, Top.s \in DOMAIN scopes,
         NEW W, W \in {V, V \cup {<<Top.n, Top.s>>}},
         NEW Q, Q = CallsOf(tasks) \cup CallsOf(Tail(stack)),
         Settled(ast, W, Q, Top),
         W # V => NodeSeen(ast, W, scopes', scopeOf', Q, Top.n, Top.s),
         \A t \in CallsOf(tasks) : ConstSeen(ast, W, scopes', Q, t),
         \A n \in DOMAIN ast :
           \/ scopeOf'[n] = scopeOf[n]
           \/ /\ scopeOf'[n] # 0
              /\ \A i \in DOMAIN ast[n].kids : Covered(W, Q, ast[n].kids[i], scopeOf'[n])
  PROVE  SeenNext
<1> DEFINE P == CallsOf(stack)
<1>1. stack \in Seq(Tasks) /\ FineScopes(scopes)
  BY DEF PassOK, StackOK, ScopesOK
<1>2. P = {Top} \cup CallsOf(Tail(stack)) /\ Tail(stack) \in Seq(Tasks)
  BY <1>1, TopAndRest
<1>3. CallsOf(stack') = Q
  BY <1>2, CallsTogether DEF Call
<1>4. Seen(ast, V, scopes, scopeOf, P)
  BY DEF SeenNow
<1> HIDE DEF P
<1>5. P \subseteq Q \cup {Top} /\ V \subseteq W
  BY <1>2
<1>6. ASSUME NEW n, NEW s, <<n, s>> \in W
      PROVE  n \in DOMAIN ast /\ s \in DOMAIN scopes'
  <2>1. CASE <<n, s>> \in V
    BY <1>4, <2>1 DEF Seen, Later
  <2>2. CASE <<n, s>> \notin V
    <3>1. n = Top.n /\ s = Top.s
      BY <1>6, <2>2
    <3> QED BY <3>1 DEF Later
  <2> QED BY <2>1, <2>2
<1>7. \A i \in DOMAIN ast[1].kids : Covered(W, Q, ast[1].kids[i], 1)
  BY <1>4, <1>5, CoveredKept DEF Seen
<1>8. ASSUME NEW n \in DOMAIN ast, NEW s \in DOMAIN scopes', <<n, s>> \in W
      PROVE  NodeSeen(ast, W, scopes', scopeOf', Q, n, s)
  <2>1. CASE <<n, s>> \in V
    <3>1. s \in DOMAIN scopes /\ NodeSeen(ast, V, scopes, scopeOf, P, n, s)
      <4>1. n \in DOMAIN ast /\ s \in DOMAIN scopes
        BY <1>4, <2>1 DEF Seen
      <4> QED BY <1>4, <2>1, <4>1 DEF Seen
    <3>2. scopes[s].chain \subseteq DOMAIN scopes
      <4>1. /\ scopes[s].chain \subseteq 1..s /\ s \in 1..Len(scopes)
            /\ Len(scopes) \in Nat /\ DOMAIN scopes = 1..Len(scopes)
        BY <1>1, <3>1 DEF FineScopes
      <4> QED BY <4>1
    <3>3. \/ scopeOf'[n] = scopeOf[n]
          \/ /\ scopeOf'[n] # 0
             /\ \A i \in DOMAIN ast[n].kids : Covered(W, Q, ast[n].kids[i], scopeOf'[n])
      OBVIOUS
    <3> QED BY ONLY <1>5, <3>1, <3>2, <3>3, Later(scopes, scopes'), Settled(ast, W, Q, Top),
                   NodeKept
  <2>2. CASE <<n, s>> \notin V
    <3>1. n = Top.n /\ s = Top.s /\ W # V
      BY <1>8, <2>2
    <3> QED BY <3>1
  <2> QED BY <2>1, <2>2
<1>9. ASSUME NEW t \in Q
      PROVE  ConstSeen(ast, W, scopes', Q, t)
  <2>1. CASE t \in CallsOf(Tail(stack))
    <3>1. t \in P /\ ConstSeen(ast, V, scopes, P, t)
      BY <1>2, <1>4, <2>1 DEF Seen
    <3>2. CASE t.do = "typecheckStmt"
      <4>1. t.s \in DOMAIN scopes
        <5>1. Fits(t, Len(scopes))
          BY <3>1 DEF P, CallsOf, PassOK, StackOK
        <5>2. Len(scopes) \in Nat /\ DOMAIN scopes = 1..Len(scopes)
          BY <1>1 DEF FineScopes
        <5> QED BY <3>2, <5>1, <5>2 DEF Fits, SemanticTasks
      <4> QED BY ONLY <1>5, <3>1, <4>1, Later(scopes, scopes'), Settled(ast, W, Q, Top),
                      ConstKept
    <3>3. CASE t.do # "typecheckStmt"
      BY <3>3 DEF ConstSeen
    <3> QED BY <3>2, <3>3
  <2> QED BY <2>1
<1>10. Seen(ast, W, scopes', scopeOf', Q)
  BY <1>6, <1>7, <1>8, <1>9 DEF Seen
<1> QED BY <1>3, <1>10 DEF SeenNext

-----------------------------------------------------------------------------
(* A buffer that is empty after a step was empty before, and nothing was   *)
(* reported.                                                               *)

LEMMA Loud ==
  ASSUME NEW buffer, Clean(buffer), NEW text \in Texts
  PROVE  Report(buffer, Static(text)) # <<>>
<1>1. Static(text) \in Message
  BY DEF Static, Message
<1>2. buffer \in Seq(Message) /\ MaxErrors \in Nat \ {0}
  BY MaxErrorsAssumption DEF Clean
<1>3. CASE Len(buffer) >= MaxErrors
  <2>1. buffer # <<>>
    BY <1>2, <1>3
  <2> QED BY <1>3, <2>1 DEF Report
<1>4. CASE ~ (Len(buffer) >= MaxErrors)
  <2> DEFINE message == Static(text)
  <2>1. message \in Message
    BY <1>1
  <2> HIDE DEF message
  <2>2. Append(buffer, message) # <<>>
    <3>1. Len(Append(buffer, message)) = Len(buffer) + 1 /\ Len(buffer) \in Nat
      BY ONLY <2>1, <1>2
    <3>2. Len(Append(buffer, message)) # 0
      BY <3>1
    <3> QED BY <3>2
  <2>3. Append(buffer, Static(text)) # <<>>
    BY <2>2 DEF message
  <2> QED BY <1>4, <2>3 DEF Report
<1> QED BY <1>3, <1>4

LEMMA LoudIf ==
  ASSUME NEW buffer, Clean(buffer), NEW text \in Texts, NEW condition,
         ReportIf(condition, buffer, text) = <<>>
  PROVE  ~ condition /\ buffer = <<>>
BY Loud DEF ReportIf

LEMMA LoudTwice ==
  ASSUME NEW buffer, Clean(buffer), NEW text \in Texts, NEW condition,
         NEW other \in Texts, NEW either,
         ReportIf(either, ReportIf(condition, buffer, text), other) = <<>>
  PROVE  buffer = <<>>
BY LoudIf, ReportIfClean

LEMMA StillQuiet ==
  ASSUME Clean(errors), AnalysisStep, errors' = <<>>
  PROVE  errors = <<>>
<1> USE DEF Texts, CheckerTexts
<1>1. CASE resolveNode
  <2>1. CASE resolveLet
    BY <2>1, Loud DEF resolveLet
  <2>2. CASE resolveConst
    BY <2>2 DEF resolveConst, Visit, diagnostics
  <2>3. CASE addConst
    BY <2>3, LoudTwice DEF addConst
  <2>4. CASE resolveFunc
    BY <2>4, LoudIf DEF resolveFunc
  <2> QED BY <1>1, <2>1, <2>2, <2>3, <2>4 DEF resolveNode
<1>2. CASE typecheckStmt
  <2>1. CASE typecheckLocal \/ typecheckExprStmt \/ stmtEnd
    BY <2>1 DEF typecheckLocal, typecheckExprStmt, stmtEnd, Visit, diagnostics
  <2>2. CASE typecheckConst
    BY <2>2, LoudIf DEF typecheckConst
  <2>3. CASE addLocal
    <3> DEFINE mismatch == ReportIf(Mismatch(Top.n), errors,
                             "Specified type does not match type of initial")
    <3>1. errors' = mismatch \/ errors' = Report(mismatch, Static("Redefinition of variable"))
      BY <2>3 DEF addLocal
    <3>2. Clean(mismatch)
      BY ReportIfClean
    <3>3. mismatch = <<>>
      BY <3>1, <3>2, Loud
    <3> QED BY <3>3, LoudIf
  <2>4. CASE typecheckFuncDec
    BY <2>4, Loud DEF typecheckFuncDec
  <2> QED BY <1>2, <2>1, <2>2, <2>3, <2>4 DEF typecheckStmt
<1>3. CASE typecheckExpr
  <2>1. CASE \/ typecheckLiteral \/ typecheckBinop \/ typecheckUnop \/ typecheckIf
             \/ typecheckBlock \/ typecheckCall \/ typecheckExit
    BY <2>1
       DEF typecheckLiteral, typecheckBinop, typecheckUnop, typecheckIf, typecheckBlock,
           typecheckCall, typecheckExit, Yields, Visit, diagnostics
  <2>2. CASE typecheckIdent \/ binopEnd \/ unopEnd \/ ifEnd
    BY <2>2, Loud DEF typecheckIdent, binopEnd, unopEnd, ifEnd, Yields, Fails
  <2>3. CASE ifTrue \/ ifFalse
    BY <2>3, LoudIf DEF ifTrue, ifFalse
  <2>4. CASE refusedCall \/ typecheckDefault
    BY <2>4, Loud DEF refusedCall, typecheckDefault
  <2>5. CASE argument \/ callEnd
    BY <2>5, LoudIf DEF argument, callEnd
  <2> QED BY <1>3, <2>1, <2>2, <2>3, <2>4, <2>5 DEF typecheckExpr
<1> QED BY <1>1, <1>2, <1>3 DEF AnalysisStep

-----------------------------------------------------------------------------
(* Each form of a step only adds scopes and symbols.                       *)

LEMMA NoLater ==
  ASSUME NEW ss
  PROVE  Later(ss, ss)
BY DEF Later

LEMMA SymbolLater ==
  ASSUME NEW ss, FineScopes(ss), NEW s \in DOMAIN ss, NEW tt, DOMAIN tt = DOMAIN ss,
         \A c \in DOMAIN ss : c # s => tt[c] = ss[c],
         tt[s].chain = ss[s].chain, tt[s].isFuncScope = ss[s].isFuncScope,
         \/ tt[s].symbols = ss[s].symbols
         \/ \E symbol : tt[s].symbols = Append(ss[s].symbols, symbol)
  PROVE  Later(ss, tt)
<1>1. ss[s].symbols \in Seq(Symbol)
  BY DEF FineScopes, FineScope, Scope
<1>2. \A i \in DOMAIN ss[s].symbols :
        i \in DOMAIN tt[s].symbols /\ tt[s].symbols[i] = ss[s].symbols[i]
  BY <1>1, AppendedSymbol
<1> QED BY <1>2 DEF Later

LEMMA OnlyLater ==
  ASSUME WellFormed(ast), PassOK, stack # <<>>, Top.s \in DOMAIN scopes, StepForm
  PROVE  Later(scopes, scopes')
<1> DEFINE ss == scopes
           tt == scopes'
           s == Top.s
<1>1. FineScopes(ss)
  BY DEF PassOK, ScopesOK
<1>2. CASE (phase' = "crashed" /\ UNCHANGED scopes) \/ CallsHere
  BY <1>2, NoLater DEF CallsHere
<1>3. CASE Declares
  <2>1. PICK symbol : tt = scopeAddSymbol(ss, s, symbol)
    BY <1>3 DEF Declares
  <2> HIDE DEF ss, tt, s
  <2>2. s \in DOMAIN ss
    BY DEF s, ss
  <2>3. /\ DOMAIN tt = DOMAIN ss
        /\ \A c \in DOMAIN ss : c # s => tt[c] = ss[c]
        /\ tt[s].chain = ss[s].chain /\ tt[s].isFuncScope = ss[s].isFuncScope
        /\ tt[s].symbols = IF scopeLookupCurrent(ss, s, symbol.name) # {}
                           THEN ss[s].symbols ELSE Append(ss[s].symbols, symbol)
    BY ONLY <1>1, <2>1, <2>2, AddedSymbol
  <2>4. \/ tt[s].symbols = ss[s].symbols
        \/ \E y : tt[s].symbols = Append(ss[s].symbols, y)
    BY <2>3
  <2>5. Later(ss, tt)
    BY <1>1, <2>2, <2>3, <2>4, SymbolLater
  <2> QED BY <2>5 DEF ss, tt
<1>4. CASE TakesSlot
  <2>1. ~ Declared(s, ast[Top.n].name) /\ tt = TakeSlot(Top.n, s)
    BY <1>4 DEF TakesSlot
  <2> HIDE DEF tt, s
  <2>2. s \in DOMAIN scopes
    BY DEF s
  <2>3. /\ DOMAIN tt = DOMAIN scopes
        /\ \A c \in DOMAIN scopes : c # s => tt[c] = scopes[c]
        /\ tt[s].chain = scopes[s].chain /\ tt[s].isFuncScope = scopes[s].isFuncScope
        /\ \E symbol : tt[s].symbols = Append(scopes[s].symbols, symbol)
    <3> DEFINE n == Top.n
    <3>1. ~ Declared(s, ast[n].name) /\ tt = TakeSlot(n, s)
      BY <2>1
    <3> HIDE DEF n
    <3>2. /\ DOMAIN tt = DOMAIN scopes
          /\ \A c \in DOMAIN scopes : c # s => tt[c] = scopes[c]
          /\ tt[s].chain = scopes[s].chain /\ tt[s].funcIndex = scopes[s].funcIndex + 1
          /\ tt[s].isFuncScope = scopes[s].isFuncScope
          /\ \E symbol : /\ symbol.origin = "let" /\ symbol.funcIndex = scopes[s].funcIndex
                         /\ tt[s].symbols = Append(scopes[s].symbols, symbol)
      BY <1>1, <2>2, <3>1, SlotTaken
    <3> QED BY <3>2
  <2>4. Later(scopes, tt)
    BY <1>1, <2>2, <2>3, SymbolLater
  <2> QED BY <2>4 DEF tt
<1>5. CASE Enters
  <2>1. PICK scope \in Scope : tt = Append(ss, scope)
    BY <1>5 DEF Enters
  <2>2. ss \in Seq(Scope)
    BY <1>1 DEF FineScopes
  <2> HIDE DEF ss, tt
  <2>3. DOMAIN ss \subseteq DOMAIN tt /\ \A c \in DOMAIN ss : tt[c] = ss[c]
    BY ONLY <2>1, <2>2
  <2>4. Later(ss, tt)
    BY <2>3 DEF Later
  <2> QED BY <2>4 DEF ss, tt
<1> QED BY <1>2, <1>3, <1>4, <1>5 DEF StepForm

-----------------------------------------------------------------------------
(* A name is known in a scope exactly when it is found from there.         *)

LEMMA FoundKnown ==
  ASSUME NEW ss, FineScopes(ss), NEW s \in 0..Len(ss), NEW name,
         scopeLookup(ss, s, name) # NullSymbol
  PROVE  Known(ss, s, name)
<1> DEFINE ref == scopeLookup(ss, s, name)
<1>1. /\ ref.scope \in ss[s].chain /\ ref.index \in DOMAIN ss[ref.scope].symbols
      /\ ss[ref.scope].symbols[ref.index].name = name
  BY SymbolFound
<1> QED BY <1>1 DEF Known

LEMMA KnownFound ==
  ASSUME NEW ss, FineScopes(ss), NEW s \in DOMAIN ss, NEW name, Known(ss, s, name)
  PROVE  scopeLookup(ss, s, name) # NullSymbol
<1> DEFINE owners == {c \in ss[s].chain : scopeLookupCurrent(ss, c, name) # {}}
           c == CHOOSE c \in owners : \A d \in owners : d <= c
           index == CHOOSE i \in scopeLookupCurrent(ss, c, name) :
                      \A j \in scopeLookupCurrent(ss, c, name) : i <= j
<1>1. /\ s \in 1..Len(ss) /\ Len(ss) \in Nat /\ ss[s].chain \subseteq 1..s
  BY DEF FineScopes
<1>2. owners # {}
  <2>1. PICK d \in ss[s].chain : \E i \in DOMAIN ss[d].symbols : ss[d].symbols[i].name = name
    BY DEF Known
  <2>2. scopeLookupCurrent(ss, d, name) # {}
    BY <2>1 DEF scopeLookupCurrent
  <2> QED BY <2>1, <2>2
<1>3. scopeLookup(ss, s, name) = [scope |-> c, index |-> index]
  <2>1. s # 0
    BY <1>1
  <2>2. scopeLookup(ss, s, name)
          = IF owners = {} THEN NullSymbol ELSE [scope |-> c, index |-> index]
    BY <2>1 DEF scopeLookup
  <2> HIDE DEF owners, c, index
  <2> QED BY <1>2, <2>2
<1>4. c \in 1..s
  <2>1. owners \subseteq 1..s
    BY <1>1
  <2> HIDE DEF owners
  <2>2. owners \subseteq 0..s /\ s \in Nat
    BY <1>1, <2>1
  <2>3. \E x \in owners : \A y \in owners : y <= x
    BY <1>2, <2>2, GreatestNatural
  <2>4. c \in owners
    BY <2>3
  <2> QED BY <2>1, <2>4
<1> HIDE DEF c, index
<1>5. c # 0
  BY <1>1, <1>4
<1>6. [scope |-> c, index |-> index].scope # NullSymbol.scope
  BY <1>5 DEF NullSymbol
<1> QED BY <1>3, <1>6

-----------------------------------------------------------------------------
(* The two kinds of steps: a call returns, or calls others, that was not   *)
(* about a node as a whole; and a node is visited.                         *)

Here(V) ==
  /\ WellFormed(ast) /\ PassOK /\ stack # <<>> /\ Later(scopes, scopes') /\ SeenNow(V)
  /\ Top.n \in DOMAIN ast /\ Top.s \in DOMAIN scopes

LEMMA ReturnCalls ==
  ASSUME PassOK, stack # <<>>, Return
  PROVE  Call(<<>>)
<1>1. stack \in Seq(Tasks)
  BY DEF PassOK, StackOK
<1>2. Tail(stack) \in Seq(Tasks)
  BY <1>1
<1>3. Tail(stack) = <<>> \o Tail(stack)
  BY ONLY <1>2
<1> QED BY <1>3 DEF Return, Call

LEMMA Inert ==
  ASSUME NEW V, Here(V), NEW tasks \in Seq(Tasks), Call(tasks), UNCHANGED scopeOf,
         Settled(ast, V, CallsOf(tasks) \cup CallsOf(Tail(stack)), Top),
         \A t \in CallsOf(tasks) : t.do # "typecheckStmt"
  PROVE  SeenNext
<1> DEFINE Q == CallsOf(tasks) \cup CallsOf(Tail(stack))
<1>1. \A t \in CallsOf(tasks) : ConstSeen(ast, V, scopes', Q, t)
  BY DEF ConstSeen
<1>2. /\ WellFormed(ast) /\ PassOK /\ stack # <<>> /\ Later(scopes, scopes') /\ SeenNow(V)
      /\ Top.n \in DOMAIN ast /\ Top.s \in DOMAIN scopes
  BY DEF Here
<1>3. Settled(ast, V, Q, Top)
  OBVIOUS
<1>4. \A n \in DOMAIN ast :
        \/ scopeOf'[n] = scopeOf[n]
        \/ /\ scopeOf'[n] # 0
           /\ \A i \in DOMAIN ast[n].kids : Covered(V, Q, ast[n].kids[i], scopeOf'[n])
  OBVIOUS
<1>5. Q = CallsOf(tasks) \cup CallsOf(Tail(stack))
  OBVIOUS
<1> HIDE DEF Q
<1>6. V \in {V, V \cup {<<Top.n, Top.s>>}}
  OBVIOUS
<1> QED BY <1>1, <1>2, <1>3, <1>4, <1>5, <1>6, Advance

LEMMA Visited ==
  ASSUME NEW V, Here(V), NEW tasks \in Seq(Tasks), Call(tasks),
         Top.do \in {"typecheckStmt", "typecheckExpr"},
         NEW W, W = V \cup {<<Top.n, Top.s>>},
         NEW Q, Q = CallsOf(tasks) \cup CallsOf(Tail(stack)),
         NodeSeen(ast, W, scopes', scopeOf', Q, Top.n, Top.s),
         \A t \in CallsOf(tasks) : ConstSeen(ast, W, scopes', Q, t),
         \A n \in DOMAIN ast :
           \/ scopeOf'[n] = scopeOf[n]
           \/ /\ scopeOf'[n] # 0
              /\ \A i \in DOMAIN ast[n].kids : Covered(W, Q, ast[n].kids[i], scopeOf'[n])
  PROVE  SeenNext
<1>1. Settled(ast, W, Q, Top)
  BY DEF Settled, Covered
<1>2. /\ WellFormed(ast) /\ PassOK /\ stack # <<>> /\ Later(scopes, scopes') /\ SeenNow(V)
      /\ Top.n \in DOMAIN ast /\ Top.s \in DOMAIN scopes
  BY DEF Here
<1> QED BY <1>1, <1>2, Advance

LEMMA InertReturn ==
  ASSUME NEW V, Here(V), Return, UNCHANGED scopeOf,
         Top.do \notin {"typecheckStmt", "typecheckExpr", "ifTrue"},
         Top.do = "resolveNode" => ast[Top.n].kind = "DECL_FUNC",
         Top.do = "ifFalse" => Len(ast[Top.n].kids) = 2
  PROVE  SeenNext
<1>1. Call(<<>>)
  BY ReturnCalls DEF Here
<1>2. Settled(ast, V, CallsOf(<<>>) \cup CallsOf(Tail(stack)), Top)
  BY DEF Settled
<1>3. CallsOf(<<>>) = {}
  BY CallsOfFew
<1>4. <<>> \in Seq(Tasks)
  OBVIOUS
<1> QED BY <1>1, <1>2, <1>3, <1>4, Inert

LEMMA VisitedReturn ==
  ASSUME NEW V, Here(V), Return, UNCHANGED scopeOf,
         Top.do \in {"typecheckStmt", "typecheckExpr"},
         NEW W, W = V \cup {<<Top.n, Top.s>>},
         NEW Q, Q = CallsOf(Tail(stack)),
         NodeSeen(ast, W, scopes', scopeOf', Q, Top.n, Top.s)
  PROVE  SeenNext
<1>1. Call(<<>>)
  BY ReturnCalls DEF Here
<1>2. CallsOf(<<>>) = {}
  BY CallsOfFew
<1>3. Q = CallsOf(<<>>) \cup CallsOf(Tail(stack))
  BY <1>2
<1>4. <<>> \in Seq(Tasks)
  OBVIOUS
<1> QED BY <1>1, <1>2, <1>3, <1>4, Visited

(* A call that first has a kid checked and then goes on.                   *)
LEMMA KidNext ==
  ASSUME NEW kid, NEW s, NEW t, NEW R, t.do # "typecheckStmt",
         NEW Q, Q = CallsOf(<<Task("typecheckExpr", kid, s), t>>) \cup R
  PROVE  /\ \A V : Covered(V, Q, kid, s)
         /\ Pending(Q, t.do, t.n, t.s)
         /\ \A u \in CallsOf(<<Task("typecheckExpr", kid, s), t>>) : u.do # "typecheckStmt"
<1> DEFINE first == Task("typecheckExpr", kid, s)
<1>1. first.do = "typecheckExpr"
  BY DEF Task
<1>2. CallsOf(<<first, t>>) = {first, t}
  <2> HIDE DEF first
  <2> QED BY CallsOfFew
<1>3. first \in Q /\ t \in Q
  BY <1>2
<1>4. \A V : Covered(V, Q, kid, s)
  BY <1>3, CoveredByCall
<1> HIDE DEF first
<1>5. Pending(Q, t.do, t.n, t.s)
  BY <1>3 DEF Pending
<1>6. \A u \in CallsOf(<<first, t>>) : u.do # "typecheckStmt"
  BY <1>1, <1>2
<1> QED BY <1>4, <1>5, <1>6 DEF first

LEMMA ResolveNodeSees ==
  ASSUME NEW V, Here(V), resolveNode, Clean(errors), errors' = <<>>
  PROVE  SeenNext
<1> USE DEF SemanticTasks, RunningOn
<1>0. WellFormed(ast) /\ PassOK
  BY DEF Here
<1>1. CASE resolveLet
  BY <1>1, Loud DEF resolveLet, Texts, CheckerTexts
<1>2. CASE resolveConst
  <2> DEFINE n == Top.n
             s == Top.s
             kid == Kid(n, 1)
             rest == Task("addConst", n, s)
             tasks == <<Task("typecheckExpr", kid, s), rest>>
             Q == CallsOf(tasks) \cup CallsOf(Tail(stack))
  <2>1. /\ n \in DOMAIN ast /\ s \in Nat /\ ast[n].kind = "DECL_VAR" /\ Top.do = "resolveNode"
    BY <1>0, <1>2, CheckerTop DEF resolveConst
  <2>2. Call(tasks) /\ UNCHANGED scopeOf
    BY <1>2 DEF resolveConst, Visit, annotations
  <2>3. OneScope(tasks, s)
    <3> HIDE DEF n, s
    <3>1. 1 \in 1..Len(ast[n].kids)
      BY <1>0, <2>1, OnlyKid
    <3> QED BY <1>0, <2>1, <3>1, KidThen
  <2>4. rest.do = "addConst"
    BY DEF Task
  <2> HIDE DEF rest, kid, n, s
  <2>5. /\ \A X : Covered(X, Q, kid, s)
        /\ \A u \in CallsOf(tasks) : u.do # "typecheckStmt"
    BY <2>4, KidNext
  <2> HIDE DEF tasks
  <2>6. Settled(ast, V, Q, Top)
    BY <2>1, <2>5 DEF Settled, kid, Kid, n, s
  <2>7. tasks \in Seq(Tasks)
    BY <2>3 DEF OneScope
  <2> QED BY <2>2, <2>5, <2>6, <2>7, Inert
<1>3. CASE addConst
  <2>1. Return /\ UNCHANGED scopeOf /\ Top.do = "addConst"
    BY <1>3 DEF addConst, annotations, Running
  <2> QED BY <2>1, InertReturn
<1>4. CASE resolveFunc
  <2>1. Return /\ UNCHANGED scopeOf /\ Top.do = "resolveNode" /\ ast[Top.n].kind = "DECL_FUNC"
    BY <1>4 DEF resolveFunc, annotations, Running
  <2> QED BY <2>1, InertReturn
<1> QED BY <1>1, <1>2, <1>3, <1>4 DEF resolveNode

(* A function or a block is entered: its statements are next.              *)
LEMMA EnterSees ==
  ASSUME NEW V, Here(V), Top.do \in {"typecheckStmt", "typecheckExpr"},
         ast[Top.n].kind \in {"BLOCK", "DECL_FUNC"}, NEW u \in Nat, u # 0,
         NEW kids, kids = ast[Top.n].kids, Call(ForEach("typecheckStmt", kids, u)),
         scopeOf' = [scopeOf EXCEPT ![Top.n] = u],
         \/ scopes'[u].isFuncScope
         \/ \A i \in DOMAIN kids : ~ (ast[kids[i]].kind = "DECL_VAR" /\ ast[kids[i]].op = "const")
  PROVE  SeenNext
<1> DEFINE n == Top.n
           s == Top.s
           tasks == ForEach("typecheckStmt", kids, u)
           Q == CallsOf(tasks) \cup CallsOf(Tail(stack))
           W == V \cup {<<n, s>>}
<1>1. WellFormed(ast) /\ n \in DOMAIN ast /\ scopeOf \in [DOMAIN ast -> 0..Len(scopes)]
  BY DEF Here, PassOK, NotesOK
<1>2. kids \in Seq(Nat)
  <2>1. kids \in Seq(DOMAIN ast) /\ DOMAIN ast \subseteq Nat
    BY <1>1, TreeNodes
  <2> QED BY <2>1
<1>3. tasks \in Seq(Tasks)
  BY <1>2, EachCall DEF OneScope, SemanticTasks
<1>4. CallsOf(tasks) = {Task("typecheckStmt", kids[i], u) : i \in DOMAIN kids}
  BY CallsOfEach
<1> HIDE DEF tasks
<1>5. ASSUME NEW i \in DOMAIN kids
      PROVE  Covered(W, Q, kids[i], u)
  <2>1. Task("typecheckStmt", kids[i], u) \in Q
    BY <1>4
  <2> QED BY <2>1, CoveredByCall
<1>6. scopeOf'[n] = u /\ \A m \in DOMAIN ast : m # n => scopeOf'[m] = scopeOf[m]
  BY <1>1
<1>7. NodeSeen(ast, W, scopes', scopeOf', Q, n, s)
  BY <1>5, <1>6 DEF NodeSeen
<1>8. ASSUME NEW t \in CallsOf(tasks)
      PROVE  ConstSeen(ast, W, scopes', Q, t)
  <2>1. PICK i \in DOMAIN kids : t = Task("typecheckStmt", kids[i], u)
    BY <1>4
  <2>2. t.n = kids[i] /\ t.s = u
    BY <2>1 DEF Task
  <2> QED BY <2>2 DEF ConstSeen
<1>9. ASSUME NEW m \in DOMAIN ast
      PROVE  \/ scopeOf'[m] = scopeOf[m]
             \/ /\ scopeOf'[m] # 0
                /\ \A i \in DOMAIN ast[m].kids : Covered(W, Q, ast[m].kids[i], scopeOf'[m])
  BY <1>5, <1>6
<1>10. Call(tasks)
  BY DEF tasks
<1>11. Q = CallsOf(tasks) \cup CallsOf(Tail(stack)) /\ W = V \cup {<<Top.n, Top.s>>}
       /\ NodeSeen(ast, W, scopes', scopeOf', Q, Top.n, Top.s)
  BY <1>7
<1> HIDE DEF Q, W
<1> QED BY <1>3, <1>8, <1>9, <1>10, <1>11, Visited

LEMMA TypecheckStmtSees ==
  ASSUME NEW V, Here(V), typecheckStmt, Clean(errors), errors' = <<>>
  PROVE  SeenNext
<1> DEFINE n == Top.n
           s == Top.s
           kid == Kid(n, 1)
           W == V \cup {<<n, s>>}
<1> USE DEF SemanticTasks, RunningOn
<1>0. WellFormed(ast) /\ PassOK
  BY DEF Here
<1>1. CASE typecheckLocal
  <2> DEFINE rest == Task("addLocal", n, s)
             tasks == <<Task("typecheckExpr", kid, s), rest>>
             Q == CallsOf(tasks) \cup CallsOf(Tail(stack))
  <2>1. /\ n \in DOMAIN ast /\ s \in Nat /\ ast[n].kind = "DECL_VAR" /\ Top.do = "typecheckStmt"
    BY <1>0, <1>1, CheckerTop DEF typecheckLocal
  <2>2. Call(tasks) /\ UNCHANGED scopeOf
    BY <1>1 DEF typecheckLocal, Visit, annotations
  <2>3. OneScope(tasks, s)
    <3> HIDE DEF n, s
    <3>1. 1 \in 1..Len(ast[n].kids)
      BY <1>0, <2>1, OnlyKid
    <3> QED BY <1>0, <2>1, <3>1, KidThen
  <2>4. rest.do = "addLocal"
    BY DEF Task
  <2> HIDE DEF rest, kid, n, s
  <2>5. /\ \A X : Covered(X, Q, kid, s)
        /\ \A u \in CallsOf(tasks) : u.do # "typecheckStmt"
    BY <2>4, KidNext
  <2> HIDE DEF tasks, W
  <2>6. NodeSeen(ast, W, scopes', scopeOf', Q, n, s)
    BY <2>1, <2>5 DEF NodeSeen, kid, Kid
  <2>7. \A t \in CallsOf(tasks) : ConstSeen(ast, W, scopes', Q, t)
    BY <2>5 DEF ConstSeen
  <2>8. tasks \in Seq(Tasks)
    BY <2>3 DEF OneScope
  <2>9. W = V \cup {<<Top.n, Top.s>>} /\ NodeSeen(ast, W, scopes', scopeOf', Q, Top.n, Top.s)
    BY <2>6 DEF W, n, s
  <2>10. Q = CallsOf(tasks) \cup CallsOf(Tail(stack))
    OBVIOUS
  <2> HIDE DEF Q
  <2> QED BY <2>1, <2>2, <2>7, <2>8, <2>9, <2>10, Visited
<1>2. CASE typecheckConst
  <2> DEFINE Q == CallsOf(Tail(stack))
  <2>1. /\ n \in DOMAIN ast /\ s \in Nat /\ ast[n].kind = "DECL_VAR" /\ ast[n].op = "const"
        /\ Top.do = "typecheckStmt" /\ stack \in Seq(Tasks) /\ stack # <<>>
    BY <1>0, <1>2, CheckerTop DEF typecheckConst, PassOK, StackOK
  <2>2. Return /\ UNCHANGED scopeOf
    BY <1>2 DEF typecheckConst, annotations
  <2>3. ~ scopes[s].isFuncScope
    BY <1>2, LoudIf DEF typecheckConst, Texts, CheckerTexts
  <2>4. CallsOf(stack) = {Top} \cup Q
    BY <2>1, TopAndRest
  <2>5. ConstSeen(ast, V, scopes, CallsOf(stack), Top)
    BY <2>4 DEF Here, SeenNow, Seen
  <2>6. Covered(V, CallsOf(stack), kid, s) \/ Pending(CallsOf(stack), "resolveNode", n, s)
    BY <2>1, <2>3, <2>5 DEF ConstSeen, Kid
  <2>7. Settled(ast, W, Q, Top)
    BY <2>1 DEF Settled, Covered
  <2>8. Covered(W, Q, kid, s) \/ Pending(Q, "resolveNode", n, s)
    <3> HIDE DEF Q, W, n, s
    <3>1. CallsOf(stack) \subseteq Q \cup {Top} /\ V \subseteq W
      BY <2>4 DEF W
    <3> QED BY <2>1, <2>6, <2>7, <3>1, ResolveKept DEF Kid
  <2>9. NodeSeen(ast, W, scopes', scopeOf', Q, n, s)
    BY <2>1, <2>8 DEF NodeSeen, Kid
  <2> HIDE DEF Q
  <2>10. W = V \cup {<<Top.n, Top.s>>} /\ Q = CallsOf(Tail(stack))
         /\ NodeSeen(ast, W, scopes', scopeOf', Q, Top.n, Top.s)
    BY <2>9 DEF Q
  <2> HIDE DEF W
  <2> QED BY <2>1, <2>2, <2>10, VisitedReturn
<1>3. CASE addLocal \/ stmtEnd
  <2>1. Return /\ UNCHANGED scopeOf /\ Top.do \in {"addLocal", "stmtEnd"}
    BY <1>3 DEF addLocal, stmtEnd, annotations, Running
  <2> QED BY <2>1, InertReturn
<1>4. CASE typecheckFuncDec
  <2>1. /\ n \in DOMAIN ast /\ s \in DOMAIN scopes /\ FineScopes(scopes)
        /\ ast[n].kind = "DECL_FUNC" /\ Top.do = "typecheckStmt"
    BY <1>0, <1>4, CheckerTop DEF typecheckFuncDec, PassOK, ScopesOK
  <2>2. ~ scopes[s].isFuncScope
    BY <1>4, Loud DEF typecheckFuncDec, Texts, CheckerTexts
  <2>3. /\ Call(ForEach("typecheckStmt", ast[n].kids, Len(scopes) + 1))
        /\ scopeOf' = [scopeOf EXCEPT ![n] = Len(scopes) + 1]
    BY <1>4, <2>2 DEF typecheckFuncDec
  <2>4. PICK garbage \in Garbage :
          scopes' = Append(scopes, ParameterScope(n, initScope(scopes, s), garbage))
    BY <1>4, <2>2 DEF typecheckFuncDec
  <2> DEFINE scope == ParameterScope(n, initScope(scopes, s), garbage)
             u == Len(scopes) + 1
  <2>5. scope.isFuncScope
    BY DEF ParameterScope, initScope
  <2>6. scopes'[u] = scope
    <3>1. scopes \in Seq(Scope) /\ scopes' = Append(scopes, scope)
      BY <2>1, <2>4 DEF FineScopes
    <3> HIDE DEF scope
    <3> QED BY ONLY <3>1
  <2>7. u \in Nat /\ u # 0
    BY <2>1 DEF FineScopes
  <2> HIDE DEF scope
  <2>8. scopes'[u].isFuncScope
    BY <2>5, <2>6
  <2> HIDE DEF u
  <2>9. Call(ForEach("typecheckStmt", ast[n].kids, u)) /\ scopeOf' = [scopeOf EXCEPT ![n] = u]
    BY <2>3 DEF u
  <2> QED BY <2>1, <2>7, <2>8, <2>9, EnterSees
<1>5. CASE typecheckExprStmt
  <2> DEFINE rest == Task("stmtEnd", n, s)
             tasks == <<Task("typecheckExpr", n, s), rest>>
             Q == CallsOf(tasks) \cup CallsOf(Tail(stack))
  <2>1. n \in Nat /\ s \in Nat /\ Top.do = "typecheckStmt"
    BY <1>0, <1>5, CheckerTop DEF typecheckExprStmt
  <2>2. Call(tasks) /\ UNCHANGED scopeOf
    BY <1>5 DEF typecheckExprStmt, Visit, annotations
  <2>3. OneScope(tasks, s)
    <3> HIDE DEF n, s
    <3>1. OneScope(<<Task("typecheckExpr", n, s)>>, s) /\ OneScope(<<rest>>, s)
      BY <2>1, OneCall
    <3> QED BY <3>1, TwoCalls
  <2>4. rest.do = "stmtEnd"
    BY DEF Task
  <2> HIDE DEF rest, n, s
  <2>5. /\ \A X : Covered(X, Q, n, s)
        /\ \A u \in CallsOf(tasks) : u.do # "typecheckStmt"
    BY <2>4, KidNext
  <2> HIDE DEF tasks
  <2>6. Settled(ast, V, Q, Top)
    BY <2>1, <2>5 DEF Settled, n, s
  <2>7. tasks \in Seq(Tasks)
    BY <2>3 DEF OneScope
  <2> QED BY <2>2, <2>5, <2>6, <2>7, Inert
<1> QED BY <1>1, <1>2, <1>3, <1>4, <1>5 DEF typecheckStmt

(* The cases of typecheckExpr that visit the kids of a node first.         *)
LEMMA VisitFirstSees ==
  ASSUME NEW V, Here(V), typecheckUnop \/ typecheckIf \/ typecheckCall
  PROVE  SeenNext
<1> DEFINE n == Top.n
           s == Top.s
           kid == Kid(n, 1)
           W == V \cup {<<n, s>>}
<1>0. WellFormed(ast) /\ PassOK
  BY DEF Here
<1>1. /\ Running("typecheckExpr") /\ ast[n].kind \in {"UNOP", "IF", "CALL"}
      /\ UNCHANGED scopeOf
  BY DEF typecheckUnop, typecheckIf, typecheckCall, Expr, RunningOn, Visit, annotations
<1>2. /\ n \in DOMAIN ast /\ n \in Nat /\ s \in Nat /\ Top.do = "typecheckExpr"
  BY <1>0, <1>1, CheckerTop DEF SemanticTasks
<1>3. \E rest \in {Task("unopEnd", n, s), Task("ifTrue", n, s), TaskAt("argument", n, s, 1)} :
        /\ Call(<<Task("typecheckExpr", kid, s), rest>>)
        /\ ast[n].kind = "IF" => rest = Task("ifTrue", n, s)
  BY DEF typecheckUnop, typecheckIf, typecheckCall, Expr, RunningOn, Visit
<1>4. PICK rest \in {Task("unopEnd", n, s), Task("ifTrue", n, s), TaskAt("argument", n, s, 1)} :
        /\ Call(<<Task("typecheckExpr", kid, s), rest>>)
        /\ ast[n].kind = "IF" => rest = Task("ifTrue", n, s)
  BY <1>3
<1> DEFINE tasks == <<Task("typecheckExpr", kid, s), rest>>
           Q == CallsOf(tasks) \cup CallsOf(Tail(stack))
<1>5. OneScope(tasks, s)
  <2> HIDE DEF n, s
  <2>1. 1 \in 1..Len(ast[n].kids)
    BY <1>0, <1>1, <1>2, OnlyKid DEF n
  <2> QED BY <1>0, <1>2, <1>4, <2>1, KidThen DEF SemanticTasks
<1>6. rest.do # "typecheckStmt" /\ rest.n = n /\ rest.s = s
      /\ (ast[n].kind = "IF" => rest.do = "ifTrue")
  BY <1>4 DEF Task, TaskAt
<1> HIDE DEF kid, n, s
<1>7. /\ \A X : Covered(X, Q, kid, s)
      /\ Pending(Q, rest.do, n, s)
      /\ \A u \in CallsOf(tasks) : u.do # "typecheckStmt"
  BY <1>6, KidNext
<1> HIDE DEF tasks, W
<1>8. NodeSeen(ast, W, scopes', scopeOf', Q, n, s)
  BY <1>1, <1>6, <1>7 DEF NodeSeen, kid, Kid, n
<1>9. \A t \in CallsOf(tasks) : ConstSeen(ast, W, scopes', Q, t)
  BY <1>7 DEF ConstSeen
<1>10. tasks \in Seq(Tasks)
  BY <1>5 DEF OneScope
<1>11. W = V \cup {<<Top.n, Top.s>>} /\ NodeSeen(ast, W, scopes', scopeOf', Q, Top.n, Top.s)
  BY <1>8 DEF W, n, s
<1>12. Q = CallsOf(tasks) \cup CallsOf(Tail(stack)) /\ Call(tasks)
  BY <1>4 DEF tasks
<1> HIDE DEF Q
<1> QED BY <1>1, <1>2, <1>9, <1>10, <1>11, <1>12, Visited

LEMMA BinopSees ==
  ASSUME NEW V, Here(V), typecheckBinop
  PROVE  SeenNext
<1> DEFINE n == Top.n
           s == Top.s
           kids == ast[n].kids
           each == ForEach("typecheckExpr", kids, s)
           rest == Task("binopEnd", n, s)
           tasks == each \o <<rest>>
           Q == CallsOf(tasks) \cup CallsOf(Tail(stack))
           W == V \cup {<<n, s>>}
<1>0. WellFormed(ast) /\ PassOK
  BY DEF Here
<1>1. /\ Running("typecheckExpr") /\ ast[n].kind = "BINOP" /\ UNCHANGED scopeOf /\ Call(tasks)
  BY DEF typecheckBinop, Expr, RunningOn, Visit, annotations
<1>2. /\ n \in DOMAIN ast /\ n \in Nat /\ s \in Nat /\ Top.do = "typecheckExpr"
      /\ kids \in Seq(Nat)
  BY <1>0, <1>1, CheckerTop DEF SemanticTasks
<1>3. Len(kids) = 2 /\ DOMAIN kids = 1..Len(kids)
  <2> HIDE DEF n
  <2>1. Len(kids) = 2
    BY <1>0, <1>1, <1>2, KidsCount
  <2> QED BY <1>2, <2>1
<1> HIDE DEF kids, n, s
<1>4. each \in Seq(Tasks) /\ <<rest>> \in Seq(Tasks)
  BY <1>2, EachCall, OneCall DEF OneScope, SemanticTasks
<1>5. CallsOf(each) = {Task("typecheckExpr", kids[i], s) : i \in DOMAIN kids}
  BY CallsOfEach
<1>6. rest.do = "binopEnd"
  BY DEF Task
<1> HIDE DEF rest, each
<1>7. tasks \in Seq(Tasks) /\ CallsOf(tasks) = CallsOf(each) \cup {rest}
  <2>1. tasks \in Seq(Tasks)
    BY ONLY <1>4
  <2>2. CallsOf(<<rest>>) = {rest}
    BY CallsOfFew
  <2>3. CallsOf(tasks) = CallsOf(each) \cup CallsOf(<<rest>>)
    BY ONLY <1>4, CallsTogether
  <2> QED BY <2>1, <2>2, <2>3
<1> HIDE DEF tasks
<1>8. ASSUME NEW i \in DOMAIN kids
      PROVE  Covered(W, Q, kids[i], s)
  <2>1. Task("typecheckExpr", kids[i], s) \in Q
    BY <1>5, <1>7
  <2> QED BY <2>1, CoveredByCall
<1>9. Covered(W, Q, kids[1], s) /\ Covered(W, Q, kids[2], s)
  <2>1. 1 \in DOMAIN kids /\ 2 \in DOMAIN kids
    BY <1>3
  <2> QED BY <1>8, <2>1
<1>10. NodeSeen(ast, W, scopes', scopeOf', Q, n, s)
  BY <1>1, <1>9 DEF NodeSeen, kids
<1>11. ASSUME NEW t \in CallsOf(tasks)
       PROVE  ConstSeen(ast, W, scopes', Q, t)
  <2>1. t.do # "typecheckStmt"
    BY <1>5, <1>6, <1>7 DEF Task
  <2> QED BY <2>1 DEF ConstSeen
<1>12. W = V \cup {<<Top.n, Top.s>>} /\ Q = CallsOf(tasks) \cup CallsOf(Tail(stack))
       /\ NodeSeen(ast, W, scopes', scopeOf', Q, Top.n, Top.s)
  BY <1>10 DEF n, s
<1> HIDE DEF Q, W
<1> QED BY <1>1, <1>2, <1>7, <1>11, <1>12, Visited

LEMMA ExitSees ==
  ASSUME NEW V, Here(V), typecheckExit
  PROVE  SeenNext
<1> DEFINE n == Top.n
           s == Top.s
           first == Task("typecheckExpr", Kid(n, 1), s)
           tasks == <<first>>
           Q == CallsOf(tasks) \cup CallsOf(Tail(stack))
           W == V \cup {<<n, s>>}
<1>0. WellFormed(ast) /\ PassOK
  BY DEF Here
<1>1. /\ Running("typecheckExpr") /\ ast[n].kind = "EXIT" /\ UNCHANGED scopeOf /\ Call(tasks)
  BY DEF typecheckExit, Expr, RunningOn, Visit, annotations
<1>2. /\ n \in DOMAIN ast /\ s \in Nat /\ Top.do = "typecheckExpr"
  BY <1>0, <1>1, CheckerTop DEF SemanticTasks
<1>3. tasks \in Seq(Tasks)
  <2> HIDE DEF n, s
  <2>1. 1 \in 1..Len(ast[n].kids)
    BY <1>0, <1>1, <1>2, OnlyKid
  <2> QED BY <1>0, <1>2, <2>1, KidThen DEF SemanticTasks, OneScope
<1>4. first \in Q /\ CallsOf(tasks) = {first}
  <2> HIDE DEF first
  <2> QED BY CallsOfFew
<1>5. Covered(W, Q, Kid(n, 1), s)
  BY <1>4, CoveredByCall
<1>6. first.do # "typecheckStmt"
  BY DEF Task
<1> HIDE DEF first, n, s
<1>7. \A t \in CallsOf(tasks) : ConstSeen(ast, W, scopes', Q, t)
  BY <1>4, <1>6 DEF ConstSeen
<1>8. NodeSeen(ast, W, scopes', scopeOf', Q, n, s)
  BY <1>1, <1>5 DEF NodeSeen, Kid
<1> HIDE DEF tasks
<1>9. W = V \cup {<<Top.n, Top.s>>} /\ Q = CallsOf(tasks) \cup CallsOf(Tail(stack))
      /\ NodeSeen(ast, W, scopes', scopeOf', Q, Top.n, Top.s)
  BY <1>8 DEF n, s
<1> HIDE DEF Q, W
<1> QED BY <1>1, <1>2, <1>3, <1>7, <1>9, Visited

Safe == \A n \in DOMAIN ast : ~ UnsafeNode(n)

LEMMA LeafSees ==
  ASSUME NEW V, Here(V), typecheckLiteral \/ typecheckIdent, Clean(errors), errors' = <<>>
  PROVE  SeenNext
<1> DEFINE n == Top.n
           s == Top.s
           W == V \cup {<<n, s>>}
           Q == CallsOf(Tail(stack))
<1>1. /\ Top.do = "typecheckExpr" /\ Return /\ UNCHANGED <<scopes, scopeOf>>
      /\ ast[n].kind \in {"LITERAL", "IDENT"}
  BY DEF typecheckLiteral, typecheckIdent, Expr, RunningOn, Running, Checked
<1>2. ast[n].kind = "IDENT" => Known(scopes, s, ast[n].name)
  <2> SUFFICES ASSUME ast[n].kind = "IDENT" PROVE Known(scopes, s, ast[n].name)
    OBVIOUS
  <2>1. typecheckIdent
    BY DEF typecheckLiteral, Expr, RunningOn
  <2>2. scopeLookup(scopes, s, ast[n].name) # NullSymbol
    BY <2>1, Loud DEF typecheckIdent, Fails, Texts, CheckerTexts
  <2>3. FineScopes(scopes) /\ s \in 0..Len(scopes)
    <3>1. FineScopes(scopes) /\ s \in DOMAIN scopes
      BY DEF Here, PassOK, ScopesOK
    <3>2. scopes \in Seq(Scope)
      BY <3>1 DEF FineScopes
    <3> QED BY <3>1, <3>2
  <2> QED BY <2>2, <2>3, FoundKnown
<1>3. NodeSeen(ast, W, scopes', scopeOf', Q, Top.n, Top.s)
  BY <1>1, <1>2 DEF NodeSeen
<1>4. W = V \cup {<<Top.n, Top.s>>} /\ Q = CallsOf(Tail(stack))
  OBVIOUS
<1> HIDE DEF W, Q
<1> QED BY <1>1, <1>3, <1>4, VisitedReturn

LEMMA BranchSees ==
  ASSUME NEW V, Here(V), ifTrue \/ ifFalse
  PROVE  SeenNext
<1> DEFINE n == Top.n
           s == Top.s
<1>0. WellFormed(ast) /\ PassOK
  BY DEF Here
<1>1. /\ n \in DOMAIN ast /\ s \in Nat /\ Top.do \in {"ifTrue", "ifFalse"} /\ ast[n].kind = "IF"
      /\ UNCHANGED scopeOf
  <2>1. PICK do \in {"ifTrue", "ifFalse"} : Running(do)
    BY DEF ifTrue, ifFalse
  <2>2. /\ n \in DOMAIN ast /\ s \in Nat /\ Top.do = do /\ Fits(Top, Len(scopes))
    BY <1>0, <2>1, CheckerTop DEF SemanticTasks
  <2> QED BY <2>2 DEF Fits, ifTrue, ifFalse, annotations
<1>2. Len(ast[n].kids) \in {2, 3}
  BY <1>0, <1>1, KidsCount
<1>3. CASE ifTrue
  <2> DEFINE kid == Kid(n, 2)
             rest == Task("ifFalse", n, s)
             tasks == <<Task("typecheckExpr", kid, s), rest>>
             Q == CallsOf(tasks) \cup CallsOf(Tail(stack))
  <2>1. Call(tasks) /\ Top.do = "ifTrue"
    BY <1>3 DEF ifTrue, Running
  <2>2. OneScope(tasks, s)
    <3> HIDE DEF n, s
    <3>1. 2 \in 1..Len(ast[n].kids)
      BY <1>2
    <3> QED BY <1>0, <1>1, <3>1, KidThen DEF SemanticTasks
  <2>3. rest.do = "ifFalse" /\ rest.n = n /\ rest.s = s
    BY DEF Task
  <2> HIDE DEF rest, kid, n, s
  <2>4. /\ \A X : Covered(X, Q, kid, s)
        /\ Pending(Q, "ifFalse", n, s)
        /\ \A u \in CallsOf(tasks) : u.do # "typecheckStmt"
    BY <2>3, KidNext
  <2> HIDE DEF tasks
  <2>5. Settled(ast, V, Q, Top)
    BY <2>1, <2>4 DEF Settled, kid, Kid, n, s
  <2>6. tasks \in Seq(Tasks)
    BY <2>2 DEF OneScope
  <2> QED BY <1>1, <2>1, <2>4, <2>5, <2>6, Inert
<1>4. CASE ifFalse /\ Len(ast[n].kids) = 2
  <2>1. Return /\ Top.do = "ifFalse"
    BY <1>4 DEF ifFalse, Running
  <2> QED BY <1>1, <1>4, <2>1, InertReturn
<1>5. CASE ifFalse /\ Len(ast[n].kids) = 3
  <2> DEFINE kid == Kid(n, 3)
             rest == Task("ifEnd", n, s)
             tasks == <<Task("typecheckExpr", kid, s), rest>>
             Q == CallsOf(tasks) \cup CallsOf(Tail(stack))
  <2>1. Call(tasks) /\ Top.do = "ifFalse"
    BY <1>5 DEF ifFalse, Running
  <2>2. OneScope(tasks, s)
    <3> HIDE DEF n, s
    <3>1. 3 \in 1..Len(ast[n].kids)
      BY <1>5
    <3> QED BY <1>0, <1>1, <3>1, KidThen DEF SemanticTasks
  <2>3. rest.do = "ifEnd"
    BY DEF Task
  <2> HIDE DEF rest, kid, n, s
  <2>4. /\ \A X : Covered(X, Q, kid, s)
        /\ \A u \in CallsOf(tasks) : u.do # "typecheckStmt"
    BY <2>3, KidNext
  <2> HIDE DEF tasks
  <2>5. Settled(ast, V, Q, Top)
    BY <2>1, <2>4 DEF Settled, kid, Kid, n, s
  <2>6. tasks \in Seq(Tasks)
    BY <2>2 DEF OneScope
  <2> QED BY <1>1, <2>1, <2>4, <2>5, <2>6, Inert
<1> QED BY <1>2, <1>3, <1>4, <1>5

LEMMA ArgumentSees ==
  ASSUME NEW V, Here(V), argument
  PROVE  SeenNext
<1> DEFINE n == Top.n
           s == Top.s
           at == Top.at
           kid == Kid(n, at + 1)
           rest == TaskAt("argument", n, s, at + 1)
           tasks == <<Task("typecheckExpr", kid, s), rest>>
           Q == CallsOf(tasks) \cup CallsOf(Tail(stack))
<1>0. WellFormed(ast) /\ PassOK
  BY DEF Here
<1>1. /\ Call(tasks) /\ Running("argument") /\ UNCHANGED scopeOf /\ at <= ArgsCount(n)
  BY DEF argument, annotations
<1>2. n \in DOMAIN ast /\ s \in Nat /\ at \in Nat /\ Top.do = "argument"
  BY <1>0, <1>1, CheckerTop DEF SemanticTasks
<1>3. OneScope(tasks, s)
  <2> HIDE DEF n, s, at
  <2>1. Len(ast[n].kids) \in Nat
    BY <1>0, <1>2, KidsCount
  <2>2. at + 1 \in 1..Len(ast[n].kids) /\ at + 1 \in Nat
    BY <1>1, <1>2, <2>1 DEF ArgsCount
  <2> QED BY <1>0, <1>2, <2>2, KidThen DEF SemanticTasks
<1>4. rest.do = "argument"
  BY DEF TaskAt
<1> HIDE DEF rest, kid, n, s
<1>5. \A u \in CallsOf(tasks) : u.do # "typecheckStmt"
  BY <1>4, KidNext
<1> HIDE DEF tasks
<1>6. Settled(ast, V, Q, Top)
  BY <1>2 DEF Settled
<1>7. tasks \in Seq(Tasks)
  BY <1>3 DEF OneScope
<1> QED BY <1>1, <1>5, <1>6, <1>7, Inert

LEMMA BlockSees ==
  ASSUME NEW V, Here(V), Safe, typecheckBlock
  PROVE  SeenNext
<1> DEFINE n == Top.n
           kids == ast[n].kids
           u == Len(scopes) + 1
<1>1. /\ n \in DOMAIN ast /\ ast[n].kind = "BLOCK" /\ Top.do = "typecheckExpr"
      /\ FineScopes(scopes) /\ kids \in Seq(DOMAIN ast)
  BY TreeNodes DEF Here, typecheckBlock, Expr, RunningOn, Running, PassOK, ScopesOK
<1>2. u \in Nat /\ u # 0
  BY <1>1 DEF FineScopes
<1>3. Call(ForEach("typecheckStmt", kids, u)) /\ scopeOf' = [scopeOf EXCEPT ![n] = u]
  BY DEF typecheckBlock
<1>4. ASSUME NEW i \in DOMAIN kids, ast[kids[i]].kind = "DECL_VAR", ast[kids[i]].op = "const"
      PROVE  FALSE
  <2>1. kids[i] \in Range(ast[n].kids)
    BY DEF Range
  <2>2. UnsafeNode(n)
    BY <1>1, <1>4, <2>1 DEF UnsafeNode
  <2> QED BY <1>1, <2>2 DEF Safe
<1> HIDE DEF u
<1> QED BY <1>1, <1>2, <1>3, <1>4, EnterSees

LEMMA TypecheckExprSees ==
  ASSUME NEW V, Here(V), Safe, typecheckExpr, Clean(errors), errors' = <<>>
  PROVE  SeenNext
<1>1. CASE binopEnd \/ unopEnd \/ ifEnd \/ refusedCall \/ callEnd
  <2>1. /\ Return /\ UNCHANGED scopeOf
        /\ Top.do \in {"binopEnd", "unopEnd", "ifEnd", "argument"}
    BY <1>1 DEF binopEnd, unopEnd, ifEnd, refusedCall, callEnd, Checked, Running, annotations
  <2> QED BY <2>1, InertReturn
<1>2. CASE typecheckDefault
  BY <1>2 DEF typecheckDefault, Expr, RunningOn, Here, Safe, UnsafeNode
<1> QED BY <1>1, <1>2, LeafSees, BinopSees, VisitFirstSees, BranchSees, BlockSees,
           ArgumentSees, ExitSees DEF typecheckExpr

-----------------------------------------------------------------------------
(* What the generator may rely on, for a set "V" of visits that leads to   *)
(* all the kids the generator looks at.                                    *)

Leads(V, n, s) ==
  /\ n \in DOMAIN ast /\ s \in DOMAIN scopes
  /\ ast[n].kind = "IDENT" => Known(scopes, s, ast[n].name)
  /\ ast[n].kind \in {"BLOCK", "DECL_FUNC"} =>
       scopeOf[n] # 0 /\ \A i \in DOMAIN ast[n].kids : <<ast[n].kids[i], scopeOf[n]>> \in V
  /\ ast[n].kind \in {"DECL_VAR", "EXIT", "BINOP", "IF"} => <<ast[n].kids[1], s>> \in V
  /\ ast[n].kind \in {"BINOP", "IF"} => <<ast[n].kids[2], s>> \in V
  /\ ast[n].kind = "IF" /\ Len(ast[n].kids) = 3 => <<ast[n].kids[3], s>> \in V

Led(V) ==
  /\ \A i \in DOMAIN ast[1].kids : <<ast[1].kids[i], 1>> \in V
  /\ \A n, s : <<n, s>> \in V => Leads(V, n, s)

(* A pending call of the generator stands at a node the checker has seen   *)
(* in the same scope, and leaves a scope that exists.                      *)
GenSeen(V, t) ==
  /\ t.do \in {"genStmt", "genExpression", "elseJump", "outJump"} => <<t.n, t.s>> \in V
  /\ t.do = "endScope" => t.s # 0

Ready(V, tasks) == tasks \in Seq(Tasks) /\ \A t \in CallsOf(tasks) : GenSeen(V, t)

CrashInv ==
  Safe =>
    /\ phase # "crashed"
    /\ phase = "analyse" /\ errors = <<>> => \E V : SeenNow(V)
    /\ phase = "generate" => \E V : Led(V) /\ Ready(V, stack)

LEMMA SeenLeads ==
  ASSUME NEW V, Seen(ast, V, scopes, scopeOf, {})
  PROVE  Led(V)
<1>1. \A n, s : Covered(V, {}, n, s) => <<n, s>> \in V
  BY DEF Covered, Pending
<1>2. \A do, n, s : ~ Pending({}, do, n, s)
  BY DEF Pending
<1>3. \A i \in DOMAIN ast[1].kids : <<ast[1].kids[i], 1>> \in V
  BY <1>1 DEF Seen
<1>4. ASSUME NEW n, NEW s, <<n, s>> \in V
      PROVE  Leads(V, n, s)
  <2>1. n \in DOMAIN ast /\ s \in DOMAIN scopes /\ NodeSeen(ast, V, scopes, scopeOf, {}, n, s)
    BY <1>4 DEF Seen
  <2> QED BY <1>1, <1>2, <2>1 DEF NodeSeen, Leads
<1> QED BY <1>3, <1>4 DEF Led

LEMMA ReadyTogether ==
  ASSUME NEW V, NEW b, Ready(V, b), NEW c, Ready(V, c)
  PROVE  Ready(V, b \o c)
<1>1. b \in Seq(Tasks) /\ c \in Seq(Tasks)
  BY DEF Ready
<1>2. b \o c \in Seq(Tasks)
  BY ONLY <1>1
<1>3. CallsOf(b \o c) = CallsOf(b) \cup CallsOf(c)
  BY ONLY <1>1, CallsTogether
<1> QED BY <1>2, <1>3 DEF Ready

LEMMA ReadyNext ==
  ASSUME NEW V, Ready(V, stack), stack # <<>>,
         Return \/ \E tasks : Ready(V, tasks) /\ Call(tasks)
  PROVE  Ready(V, stack')
<1>1. stack \in Seq(Tasks)
  BY DEF Ready
<1>2. CallsOf(stack) = {Top} \cup CallsOf(Tail(stack)) /\ Tail(stack) \in Seq(Tasks)
  BY <1>1, TopAndRest
<1>3. Ready(V, Tail(stack))
  BY <1>2 DEF Ready
<1>4. CASE Return
  BY <1>3, <1>4 DEF Return
<1>5. CASE \E tasks : Ready(V, tasks) /\ Call(tasks)
  <2>1. PICK tasks : Ready(V, tasks) /\ Call(tasks)
    BY <1>5
  <2>2. Ready(V, tasks \o Tail(stack))
    BY <1>3, <2>1, ReadyTogether
  <2> QED BY <2>1, <2>2 DEF Call
<1> QED BY <1>4, <1>5

LEMMA ReadyTop ==
  ASSUME NEW V, Ready(V, stack), stack # <<>>
  PROVE  GenSeen(V, Top)
<1>1. stack \in Seq(Tasks)
  BY DEF Ready
<1>2. Top \in CallsOf(stack)
  BY <1>1, TopAndRest
<1> QED BY <1>2 DEF Ready

(* The sequences of calls the generator makes.                             *)
LEMMA GenCall ==
  ASSUME NEW V, NEW do \in CodegenTasks, NEW n \in Nat, NEW s \in Nat, NEW at \in Nat,
         do \in {"genStmt", "genExpression", "elseJump", "outJump"} => <<n, s>> \in V,
         do = "endScope" => s # 0
  PROVE  /\ TaskAt(do, n, s, at) \in Tasks /\ GenSeen(V, TaskAt(do, n, s, at))
         /\ Task(do, n, s) \in Tasks /\ GenSeen(V, Task(do, n, s))
<1>1. TaskAt(do, n, s, at) \in Tasks /\ Task(do, n, s) \in Tasks
  BY DEF Task, TaskAt, Tasks
<1>2. /\ TaskAt(do, n, s, at).do = do /\ TaskAt(do, n, s, at).n = n /\ TaskAt(do, n, s, at).s = s
      /\ Task(do, n, s).do = do /\ Task(do, n, s).n = n /\ Task(do, n, s).s = s
  BY DEF Task, TaskAt
<1> HIDE DEF Task, TaskAt
<1> QED BY <1>1, <1>2 DEF GenSeen

LEMMA ReadyFew ==
  ASSUME NEW V, NEW t \in Tasks, GenSeen(V, t)
  PROVE  /\ Ready(V, <<t>>)
         /\ \A u \in Tasks : GenSeen(V, u) => Ready(V, <<t, u>>)
         /\ \A u \in Tasks, v \in Tasks :
              GenSeen(V, u) /\ GenSeen(V, v) => Ready(V, <<t, u, v>>)
<1>1. Ready(V, <<t>>)
  BY CallsOfFew DEF Ready
<1>2. ASSUME NEW u \in Tasks, GenSeen(V, u)
      PROVE  Ready(V, <<t, u>>)
  <2>1. CallsOf(<<t, u>>) = {t, u} /\ <<t, u>> \in Seq(Tasks)
    BY CallsOfFew
  <2> QED BY <1>2, <2>1 DEF Ready
<1>3. ASSUME NEW u \in Tasks, NEW v \in Tasks, GenSeen(V, u), GenSeen(V, v)
      PROVE  Ready(V, <<t, u, v>>)
  <2>1. CallsOf(<<t, u, v>>) = {t, u, v} /\ <<t, u, v>> \in Seq(Tasks)
    BY CallsOfFew
  <2> QED BY <1>3, <2>1 DEF Ready
<1> QED BY <1>1, <1>2, <1>3

LEMMA ReadyEach ==
  ASSUME NEW V, NEW do \in {"genStmt", "genExpression"}, NEW nodes \in Seq(Nat), NEW s \in Nat,
         \A i \in DOMAIN nodes : <<nodes[i], s>> \in V
  PROVE  Ready(V, ForEach(do, nodes, s))
<1> DEFINE tasks == ForEach(do, nodes, s)
<1>1. DOMAIN nodes = 1..Len(nodes) /\ Len(nodes) \in Nat
  OBVIOUS
<1>2. ASSUME NEW i \in 1..Len(nodes)
      PROVE  Task(do, nodes[i], s) \in Tasks /\ GenSeen(V, Task(do, nodes[i], s))
  <2>1. nodes[i] \in Nat /\ <<nodes[i], s>> \in V /\ do \in CodegenTasks /\ do # "endScope"
    BY <1>1 DEF CodegenTasks
  <2> QED BY <2>1, GenCall
<1>3. tasks = [i \in 1..Len(nodes) |-> Task(do, nodes[i], s)]
  BY <1>1 DEF ForEach
<1>4. tasks \in Seq(Tasks)
  BY <1>1, <1>2, <1>3
<1>5. CallsOf(tasks) = {Task(do, nodes[i], s) : i \in DOMAIN nodes}
  BY CallsOfEach
<1> HIDE DEF tasks
<1> QED BY <1>1, <1>2, <1>4, <1>5 DEF Ready, tasks

-----------------------------------------------------------------------------
(* The generator stays on nodes that the checker has seen.                 *)

LEMMA GenTop ==
  ASSUME WellFormed(ast), PassOK, NEW V, Led(V), Ready(V, stack),
         NEW do \in CodegenTasks, Running(do)
  PROVE  /\ stack # <<>> /\ Top.do = do /\ GenSeen(V, Top) /\ Fits(Top, Len(scopes))
         /\ Top.n \in DOMAIN ast /\ Top.n \in Nat /\ Top.s \in Nat /\ Top.at \in Nat
         /\ ast[Top.n].kids \in Seq(Nat) /\ scopeOf[Top.n] \in Nat
         /\ do \in {"genStmt", "genExpression", "elseJump", "outJump"} =>
              <<Top.n, Top.s>> \in V /\ Leads(V, Top.n, Top.s)
<1>1. /\ stack # <<>> /\ Top.do = do /\ Top.n \in DOMAIN ast /\ Top.n \in Nat /\ Top.at \in Nat
      /\ Top.s \in 0..Len(scopes) /\ Len(scopes) \in Nat /\ NotesOK /\ Fits(Top, Len(scopes))
  BY CodegenTop
<1>2. GenSeen(V, Top)
  BY <1>1, ReadyTop
<1>3. Top.s \in Nat /\ scopeOf[Top.n] \in Nat
  BY <1>1 DEF NotesOK
<1>4. ast[Top.n].kids \in Seq(Nat)
  <2>1. ast[Top.n].kids \in Seq(DOMAIN ast) /\ DOMAIN ast \subseteq Nat
    BY <1>1, TreeNodes
  <2> QED BY <2>1
<1>5. do \in {"genStmt", "genExpression", "elseJump", "outJump"} =>
        <<Top.n, Top.s>> \in V /\ Leads(V, Top.n, Top.s)
  BY <1>1, <1>2 DEF GenSeen, Led
<1> QED BY <1>1, <1>2, <1>3, <1>4, <1>5

LEMMA ReadyStmts ==
  ASSUME NEW V, NEW n \in Nat, NEW s, Leads(V, n, s), ast[n].kind \in {"BLOCK", "DECL_FUNC"},
         ast[n].kids \in Seq(Nat), scopeOf[n] \in Nat
  PROVE  Ready(V, genStmts(n))
<1> DEFINE u == scopeOf[n]
           kids == ast[n].kids
           first == ForEach("genStmt", kids, u)
           last == Task("endScope", n, u)
<1>1. u # 0 /\ u \in Nat /\ kids \in Seq(Nat) /\ \A i \in DOMAIN kids : <<kids[i], u>> \in V
  BY DEF Leads
<1> HIDE DEF u, kids
<1>2. Ready(V, first)
  BY <1>1, ReadyEach
<1>3. last \in Tasks /\ GenSeen(V, last)
  BY <1>1, GenCall DEF CodegenTasks
<1> HIDE DEF first, last
<1>4. Ready(V, <<last>>)
  BY <1>3, ReadyFew
<1>5. Ready(V, first \o <<last>>)
  BY <1>2, <1>4, ReadyTogether
<1> QED BY <1>5 DEF genStmts, first, last, u, kids

LEMMA GenKid ==
  ASSUME NEW V, NEW n, NEW i, NEW s \in Nat, Kid(n, i) \in Nat, <<Kid(n, i), s>> \in V
  PROVE  /\ Task("genExpression", Kid(n, i), s) \in Tasks
         /\ GenSeen(V, Task("genExpression", Kid(n, i), s))
<1> DEFINE kid == Kid(n, i)
<1>1. kid \in Nat /\ <<kid, s>> \in V
  OBVIOUS
<1> HIDE DEF kid
<1>2. Task("genExpression", kid, s) \in Tasks /\ GenSeen(V, Task("genExpression", kid, s))
  BY <1>1, GenCall DEF CodegenTasks
<1> QED BY <1>2 DEF kid

LEMMA GenStmtSees ==
  ASSUME WellFormed(ast), PassOK, NEW V, Led(V), Ready(V, stack), genStmt
  PROVE  phase' = phase /\ Ready(V, stack')
<1> DEFINE n == Top.n
           s == Top.s
<1> USE DEF CodegenTasks, RunningOn
<1>1. CASE genFunc
  <2>1. /\ stack # <<>> /\ n \in Nat /\ Leads(V, n, s) /\ ast[n].kind = "DECL_FUNC"
        /\ ast[n].kids \in Seq(Nat) /\ scopeOf[n] \in Nat
    BY <1>1, GenTop DEF genFunc
  <2>2. Call(genStmts(n) \o <<Task("emitReturn", n, 0)>>) /\ phase' = phase
    BY <1>1 DEF genFunc
  <2> DEFINE last == Task("emitReturn", n, 0)
  <2> HIDE DEF n, s
  <2>3. Ready(V, genStmts(n))
    BY <2>1, ReadyStmts
  <2>4. last \in Tasks /\ GenSeen(V, last)
    BY <2>1, GenCall
  <2> HIDE DEF last
  <2>5. Ready(V, <<last>>)
    BY <2>4, ReadyFew
  <2>6. Ready(V, genStmts(n) \o <<last>>)
    BY <2>3, <2>5, ReadyTogether
  <2>7. Call(genStmts(n) \o <<last>>)
    BY <2>2 DEF last
  <2> QED BY <2>1, <2>2, <2>6, <2>7, ReadyNext
<1>2. CASE genVar
  <2>1. /\ stack # <<>> /\ n \in DOMAIN ast /\ s \in Nat /\ Leads(V, n, s)
        /\ ast[n].kind = "DECL_VAR"
    BY <1>2, GenTop DEF genVar
  <2>2. Call(<<Task("genExpression", Kid(n, 1), s)>>) /\ phase' = phase
    BY <1>2 DEF genVar
  <2> DEFINE first == Task("genExpression", Kid(n, 1), s)
  <2>3. <<Kid(n, 1), s>> \in V
    BY <2>1 DEF Leads, Kid
  <2>4. Kid(n, 1) \in Nat
    BY <2>1, OnlyKid, TreeNodes
  <2> HIDE DEF n, s
  <2>5. first \in Tasks /\ GenSeen(V, first)
    BY <2>1, <2>3, <2>4, GenKid
  <2>6. Call(<<first>>)
    BY <2>2
  <2> HIDE DEF first
  <2>7. Ready(V, <<first>>)
    BY <2>5, ReadyFew
  <2> QED BY <2>1, <2>2, <2>6, <2>7, ReadyNext
<1>3. CASE genExprStmt
  <2>1. stack # <<>> /\ n \in Nat /\ s \in Nat /\ <<n, s>> \in V
    BY <1>3, GenTop DEF genExprStmt
  <2>2. Call(<<Task("genExpression", n, s), Task("popUnused", n, 0)>>) /\ phase' = phase
    BY <1>3 DEF genExprStmt, Expand
  <2> DEFINE first == Task("genExpression", n, s)
             last == Task("popUnused", n, 0)
  <2> HIDE DEF n, s
  <2>3. first \in Tasks /\ GenSeen(V, first) /\ last \in Tasks /\ GenSeen(V, last)
    BY <2>1, GenCall
  <2>4. Call(<<first, last>>)
    BY <2>2
  <2> HIDE DEF first, last
  <2>5. Ready(V, <<first, last>>)
    BY <2>3, ReadyFew
  <2> QED BY <2>1, <2>2, <2>4, <2>5, ReadyNext
<1>4. CASE popUnused \/ emitReturn
  <2>1. stack # <<>> /\ Return /\ phase' = phase
    BY <1>4 DEF popUnused, emitReturn, Written, Running
  <2> QED BY <2>1, ReadyNext
<1>5. CASE endScope
  <2>1. stack # <<>> /\ s # 0
    BY <1>5, GenTop DEF endScope, GenSeen
  <2>2. Return /\ phase' = phase
    BY <1>5, <2>1 DEF endScope, Written
  <2> QED BY <2>1, <2>2, ReadyNext
<1> QED BY <1>1, <1>2, <1>3, <1>4, <1>5 DEF genStmt

LEMMA GenExpressionSees ==
  ASSUME WellFormed(ast), PassOK, CodeOK, NEW V, Led(V), Ready(V, stack),
         genExpression \/ patchEntry
  PROVE  phase' = phase /\ Ready(V, stack')
<1> DEFINE n == Top.n
           s == Top.s
<1> USE DEF CodegenTasks, RunningOn, Gen
<1>0. JumpOffset \in Nat
  BY DEF CodeOK, Code, JumpOffset
<1>1. CASE genLiteral \/ operator \/ patchOut \/ genDefault \/ patchEntry
  <2>1. stack # <<>> /\ Return /\ phase' = phase
    BY <1>1 DEF genLiteral, operator, patchOut, genDefault, patchEntry, Written, Running
  <2> QED BY <2>1, ReadyNext
<1>2. CASE genIdent
  <2>1. stack # <<>> /\ Leads(V, n, s) /\ ast[n].kind = "IDENT"
    BY <1>2, GenTop DEF genIdent
  <2>2. scopeLookup(scopes, s, ast[n].name) # NullSymbol
    BY <2>1, KnownFound DEF Leads, PassOK, ScopesOK
  <2>3. Return /\ phase' = phase
    BY <1>2, <2>2 DEF genIdent
  <2> QED BY <2>1, <2>3, ReadyNext
<1>3. CASE genBinop
  <2>1. /\ stack # <<>> /\ n \in DOMAIN ast /\ n \in Nat /\ s \in Nat /\ Leads(V, n, s)
        /\ ast[n].kind = "BINOP" /\ ast[n].kids \in Seq(Nat)
    BY <1>3, GenTop DEF genBinop
  <2>2. /\ Call(<<Task("genExpression", Kid(n, 2), s), Task("genExpression", Kid(n, 1), s),
                  Task("operator", n, 0)>>)
        /\ phase' = phase
    BY <1>3 DEF genBinop, Expand
  <2> DEFINE right == Task("genExpression", Kid(n, 2), s)
             left == Task("genExpression", Kid(n, 1), s)
             last == Task("operator", n, 0)
  <2>3. <<Kid(n, 1), s>> \in V /\ <<Kid(n, 2), s>> \in V
    BY <2>1 DEF Leads, Kid
  <2> HIDE DEF n, s
  <2>4. Kid(n, 1) \in Nat /\ Kid(n, 2) \in Nat
    <3>1. Len(ast[n].kids) = 2
      BY <2>1, KidsCount
    <3> QED BY <2>1, <3>1 DEF Kid
  <2>5. right \in Tasks /\ GenSeen(V, right) /\ left \in Tasks /\ GenSeen(V, left)
    BY <2>1, <2>3, <2>4, GenKid
  <2>6. last \in Tasks /\ GenSeen(V, last)
    BY <2>1, GenCall
  <2>7. Call(<<right, left, last>>)
    BY <2>2
  <2> HIDE DEF right, left, last
  <2>8. Ready(V, <<right, left, last>>)
    BY <2>5, <2>6, ReadyFew
  <2> QED BY <2>1, <2>2, <2>7, <2>8, ReadyNext
<1>4. CASE genBlock
  <2>1. /\ stack # <<>> /\ n \in Nat /\ Leads(V, n, s) /\ ast[n].kind = "BLOCK"
        /\ ast[n].kids \in Seq(Nat) /\ scopeOf[n] \in Nat
    BY <1>4, GenTop DEF genBlock
  <2>2. Call(genStmts(n)) /\ phase' = phase
    BY <1>4 DEF genBlock, Expand
  <2> HIDE DEF n, s
  <2>3. Ready(V, genStmts(n))
    BY <2>1, ReadyStmts
  <2> QED BY <2>1, <2>2, <2>3, ReadyNext
<1>5. CASE genIf
  <2>1. /\ stack # <<>> /\ n \in DOMAIN ast /\ n \in Nat /\ s \in Nat /\ <<n, s>> \in V
        /\ Leads(V, n, s) /\ ast[n].kind = "IF"
    BY <1>5, GenTop DEF genIf
  <2>2. /\ Call(<<Task("genExpression", Kid(n, 1), s), Task("elseJump", n, s)>>)
        /\ phase' = phase
    BY <1>5 DEF genIf, Expand
  <2> DEFINE first == Task("genExpression", Kid(n, 1), s)
             last == Task("elseJump", n, s)
  <2>3. <<Kid(n, 1), s>> \in V
    BY <2>1 DEF Leads, Kid
  <2>4. Kid(n, 1) \in Nat
    BY <2>1, OnlyKid, TreeNodes
  <2> HIDE DEF n, s
  <2>5. first \in Tasks /\ GenSeen(V, first) /\ last \in Tasks /\ GenSeen(V, last)
    BY <2>1, <2>3, <2>4, GenKid, GenCall
  <2>6. Call(<<first, last>>)
    BY <2>2
  <2> HIDE DEF first, last
  <2>7. Ready(V, <<first, last>>)
    BY <2>5, ReadyFew
  <2> QED BY <2>1, <2>2, <2>6, <2>7, ReadyNext
<1>6. CASE elseJump
  <2>1. /\ stack # <<>> /\ n \in DOMAIN ast /\ n \in Nat /\ s \in Nat /\ <<n, s>> \in V
        /\ Leads(V, n, s) /\ ast[n].kind = "IF" /\ ast[n].kids \in Seq(Nat)
    BY <1>6, GenTop DEF elseJump, Fits
  <2> DEFINE offset == JumpOffset
             first == Task("genExpression", Kid(n, 2), s)
             last == TaskAt("outJump", n, s, offset)
  <2>2. Call(<<first, last>>) /\ phase' = phase
    BY <1>6 DEF elseJump
  <2>3. <<Kid(n, 2), s>> \in V
    BY <2>1 DEF Leads, Kid
  <2> HIDE DEF n, s
  <2>4. Kid(n, 2) \in Nat
    <3>1. Len(ast[n].kids) \in {2, 3}
      BY <2>1, KidsCount
    <3> QED BY <2>1, <3>1 DEF Kid
  <2>5. first \in Tasks /\ GenSeen(V, first)
    BY <2>1, <2>3, <2>4, GenKid
  <2>6. last \in Tasks /\ GenSeen(V, last)
    <3>1. offset \in Nat
      BY <1>0
    <3> HIDE DEF offset
    <3> QED BY <2>1, <3>1, GenCall
  <2> HIDE DEF first, last
  <2>7. Ready(V, <<first, last>>)
    BY <2>5, <2>6, ReadyFew
  <2> QED BY <2>1, <2>2, <2>7, ReadyNext
<1>7. CASE outJump
  <2>1. /\ stack # <<>> /\ n \in DOMAIN ast /\ n \in Nat /\ s \in Nat
        /\ Leads(V, n, s) /\ ast[n].kind = "IF" /\ ast[n].kids \in Seq(Nat)
    BY <1>7, GenTop DEF outJump, Fits
  <2> DEFINE offset == JumpOffset
             kids == ast[n].kids
             branch == FalseBranch(n)
             first == ForEach("genExpression", branch, s)
             last == TaskAt("patchOut", n, 0, offset)
  <2>2. Call(first \o <<last>>) /\ phase' = phase
    BY <1>7 DEF outJump
  <2>3. Len(kids) \in {2, 3}
    <3> HIDE DEF n
    <3> QED BY <2>1, KidsCount
  <2>4. Len(kids) = 3 => <<kids[3], s>> \in V
    BY <2>1 DEF Leads
  <2>5. branch = SubSeq(kids, 3, Len(kids))
    BY DEF FalseBranch
  <2>6. kids \in Seq(Nat)
    BY <2>1
  <2> HIDE DEF n, s, kids, branch
  <2>7. branch \in Seq(Nat) /\ \A i \in DOMAIN branch : Len(kids) = 3 /\ branch[i] = kids[3]
    BY ONLY <2>3, <2>5, <2>6
  <2>8. Ready(V, first)
    BY <2>1, <2>4, <2>7, ReadyEach
  <2>9. last \in Tasks /\ GenSeen(V, last)
    <3>1. offset \in Nat
      BY <1>0
    <3> HIDE DEF offset
    <3> QED BY <2>1, <3>1, GenCall
  <2> HIDE DEF first, last
  <2>10. Ready(V, <<last>>)
    BY <2>9, ReadyFew
  <2>11. Ready(V, first \o <<last>>)
    BY <2>8, <2>10, ReadyTogether
  <2> QED BY <2>1, <2>2, <2>11, ReadyNext
<1>8. CASE genExit
  <2>1. /\ stack # <<>> /\ n \in DOMAIN ast /\ n \in Nat /\ s \in Nat
        /\ Leads(V, n, s) /\ ast[n].kind = "EXIT"
    BY <1>8, GenTop DEF genExit
  <2> DEFINE first == Task("genExpression", Kid(n, 1), s)
             last == Task("emitReturn", n, 0)
  <2>2. Return \/ Call(<<first, last>>)
    BY <1>8 DEF genExit
  <2>3. phase' = phase
    BY <1>8 DEF genExit
  <2>4. <<Kid(n, 1), s>> \in V
    BY <2>1 DEF Leads, Kid
  <2>5. Kid(n, 1) \in Nat
    BY <2>1, OnlyKid, TreeNodes
  <2> HIDE DEF n, s
  <2>6. first \in Tasks /\ GenSeen(V, first) /\ last \in Tasks /\ GenSeen(V, last)
    BY <2>1, <2>4, <2>5, GenKid, GenCall
  <2> HIDE DEF first, last
  <2>7. Ready(V, <<first, last>>)
    BY <2>6, ReadyFew
  <2> QED BY <2>1, <2>2, <2>3, <2>7, ReadyNext
<1> QED BY <1>1, <1>2, <1>3, <1>4, <1>5, <1>6, <1>7, <1>8 DEF genExpression

-----------------------------------------------------------------------------
(* From the first step to the last.                                        *)

LEMMA SeenStart ==
  ASSUME StateInv, BeginAnalysis
  PROVE  SeenNext
<1> DEFINE kids == ast[1].kids
           first == ForEach("resolveNode", kids, 1)
           second == ForEach("typecheckStmt", kids, 1)
           P == CallsOf(stack')
<1>1. stack' = first \o second
  BY DEF BeginAnalysis
<1>2. kids \in Seq(Nat)
  <2>1. WellFormed(ast)
    BY TreeWellFormed DEF StateInv
  <2>2. kids \in Seq(DOMAIN ast) /\ DOMAIN ast \subseteq Nat
    BY <2>1, TreeNodes
  <2> HIDE DEF kids
  <2> QED BY <2>2
<1> HIDE DEF kids
<1>3. first \in Seq(Tasks) /\ second \in Seq(Tasks)
  BY <1>2, EachCall DEF OneScope, SemanticTasks
<1>4. CallsOf(stack') = CallsOf(first) \cup CallsOf(second)
  BY <1>1, <1>3, CallsTogether
<1>5. /\ CallsOf(first) = {Task("resolveNode", kids[i], 1) : i \in DOMAIN kids}
      /\ CallsOf(second) = {Task("typecheckStmt", kids[i], 1) : i \in DOMAIN kids}
  BY CallsOfEach
<1> HIDE DEF first, second, P
<1>6. ASSUME NEW i \in DOMAIN kids
      PROVE  Covered({}, P, kids[i], 1) /\ Pending(P, "resolveNode", kids[i], 1)
  <2>1. Task("typecheckStmt", kids[i], 1) \in P /\ Task("resolveNode", kids[i], 1) \in P
    BY <1>4, <1>5 DEF P
  <2> QED BY <2>1, CoveredByCall
<1>7. ASSUME NEW t \in P
      PROVE  ConstSeen(ast, {}, scopes', P, t)
  <2>1. CASE t \in CallsOf(first)
    <3>1. t.do = "resolveNode"
      BY <1>5, <2>1 DEF Task
    <3> QED BY <3>1 DEF ConstSeen
  <2>2. CASE t \in CallsOf(second)
    <3>1. PICK i \in DOMAIN kids : t = Task("typecheckStmt", kids[i], 1)
      BY <1>5, <2>2
    <3>2. t.n = kids[i] /\ t.s = 1
      BY <3>1 DEF Task
    <3> QED BY <1>6, <3>2 DEF ConstSeen
  <2> QED BY <1>4, <2>1, <2>2 DEF P
<1>8. Seen(ast, {}, scopes', scopeOf', P)
  BY <1>6, <1>7 DEF Seen, kids
<1> QED BY <1>8 DEF SeenNext, P

LEMMA AnalysisSees ==
  ASSUME WellFormed(ast), PassOK, Safe, AnalysisStep, Clean(errors), errors' = <<>>,
         NEW V, SeenNow(V)
  PROVE  SeenNext
<1>1. \E do \in SemanticTasks : Running(do)
  BY DEF AnalysisStep, resolveNode, resolveLet, resolveConst, addConst, resolveFunc,
         typecheckStmt, typecheckLocal, typecheckConst, addLocal, typecheckFuncDec,
         typecheckExprStmt, stmtEnd, typecheckExpr, typecheckLiteral, typecheckIdent,
         typecheckBinop, binopEnd, typecheckUnop, unopEnd, typecheckIf, ifTrue, ifFalse,
         ifEnd, typecheckBlock, typecheckCall, refusedCall, argument, callEnd,
         typecheckExit, typecheckDefault, Expr, RunningOn, SemanticTasks
<1>2. stack # <<>> /\ Top.n \in DOMAIN ast /\ Top.s \in DOMAIN scopes
  BY <1>1, CheckerTop
<1>3. StepForm
  BY ResolveNodeForm, TypecheckStmtForm, TypecheckExprForm DEF AnalysisStep
<1>4. Here(V)
  BY <1>2, <1>3, OnlyLater DEF Here
<1> QED BY <1>4, ResolveNodeSees, TypecheckStmtSees, TypecheckExprSees DEF AnalysisStep

(* The checker runs off only at a unit value.                              *)
LEMMA AnalysisSurvives ==
  ASSUME WellFormed(ast), PassOK, Safe, AnalysisStep
  PROVE  phase' = phase
<1>1. CASE resolveNode
  BY <1>1 DEF resolveNode, resolveLet, resolveConst, addConst, resolveFunc, Visit
<1>2. CASE typecheckStmt
  BY <1>2 DEF typecheckStmt, typecheckLocal, typecheckConst, addLocal, typecheckFuncDec,
              typecheckExprStmt, stmtEnd, Visit
<1>3. CASE typecheckExpr
  <2>1. CASE typecheckDefault
    <3>1. Top.n \in DOMAIN ast /\ ast[Top.n].kind = "TUPLE"
      BY <2>1, CheckerTop DEF typecheckDefault, Expr, RunningOn, SemanticTasks
    <3> QED BY <3>1 DEF Safe, UnsafeNode
  <2>2. CASE ~ typecheckDefault
    BY <1>3, <2>2
       DEF typecheckExpr, typecheckLiteral, typecheckIdent, typecheckBinop, binopEnd,
           typecheckUnop, unopEnd, typecheckIf, ifTrue, ifFalse, ifEnd, typecheckBlock,
           typecheckCall, refusedCall, argument, callEnd, typecheckExit, Visit, Checked
  <2> QED BY <2>1, <2>2
<1> QED BY <1>1, <1>2, <1>3 DEF AnalysisStep

LEMMA ReadyStart ==
  ASSUME StateInv, BeginCodegen, NEW V, Led(V)
  PROVE  Ready(V, stack')
<1> DEFINE kids == ast[1].kids
           first == ForEach("genStmt", kids, 1)
           last == TaskAt("patchEntry", 1, 0, 1)
<1>1. stack' = first \o <<last>>
  BY DEF BeginCodegen, beginCode
<1>2. kids \in Seq(Nat)
  <2>1. WellFormed(ast)
    BY TreeWellFormed DEF StateInv
  <2>2. kids \in Seq(DOMAIN ast) /\ DOMAIN ast \subseteq Nat
    BY <2>1, TreeNodes
  <2> HIDE DEF kids
  <2> QED BY <2>2
<1>3. \A i \in DOMAIN kids : <<kids[i], 1>> \in V
  BY DEF Led
<1> HIDE DEF kids
<1>4. Ready(V, first)
  BY <1>2, <1>3, ReadyEach
<1>5. last \in Tasks /\ GenSeen(V, last)
  BY GenCall DEF CodegenTasks
<1> HIDE DEF first, last
<1>6. Ready(V, <<last>>)
  BY <1>5, ReadyFew
<1> QED BY <1>1, <1>4, <1>6, ReadyTogether

LEMMA CrashInit == Init => CrashInv
BY DEF Init, CrashInv

LEMMA CrashStep == StateInv /\ MessageInv /\ CrashInv /\ [Next]_vars => CrashInv'
<1> SUFFICES ASSUME StateInv, MessageInv, CrashInv, [Next]_vars PROVE CrashInv'
  OBVIOUS
<1>1. ASSUME ast' = ast, phase' # "crashed" \/ phase = "crashed",
             phase' \notin {"analyse", "generate"}
      PROVE  CrashInv'
  BY <1>1 DEF CrashInv, Safe, UnsafeNode
<1>2. CASE BeginAnalysis
  <2>1. phase' = "analyse"
    BY <1>2 DEF BeginAnalysis
  <2>2. SeenNext
    BY <1>2, SeenStart
  <2>3. ast' = ast
    BY <1>2 DEF BeginAnalysis
  <2>4. (\E V : SeenNow(V))'
    BY <2>2, <2>3 DEF SeenNext, SeenNow
  <2> QED BY <2>1, <2>4 DEF CrashInv
<1>3. CASE Analyse
  <2>1. WellFormed(ast) /\ PassOK /\ AnalysisStep /\ phase = "analyse" /\ Clean(errors)
    BY <1>3, TreeWellFormed DEF StateInv, PassOK, Analyse, MessageInv, ErrorsStatic
  <2>2. ast' = ast /\ (Safe <=> Safe')
    BY <2>1 DEF AnalysisStep, Safe, UnsafeNode
  <2>3. Safe => phase' = "analyse"
    BY <2>1, AnalysisSurvives
  <2>4. ASSUME Safe, errors' = <<>>
        PROVE  (\E V : SeenNow(V))'
    <3>1. errors = <<>>
      BY <2>1, <2>4, StillQuiet
    <3>2. PICK V : SeenNow(V)
      BY <2>1, <2>4, <3>1 DEF CrashInv
    <3>3. SeenNext
      BY <2>1, <2>4, <3>2, AnalysisSees
    <3> QED BY <2>2, <3>3 DEF SeenNext, SeenNow
  <2> QED BY <2>2, <2>3, <2>4 DEF CrashInv
<1>4. CASE BeginCodegen
  <2>1. phase = "analyse" /\ errors = <<>> /\ stack = <<>> /\ phase' = "generate"
        /\ UNCHANGED <<ast, scopes, annotations>>
    BY <1>4 DEF BeginCodegen
  <2>2. Safe <=> Safe'
    BY <2>1 DEF Safe, UnsafeNode
  <2>3. ASSUME Safe
        PROVE  (\E V : Led(V) /\ Ready(V, stack))'
    <3>1. PICK V : SeenNow(V)
      BY <2>1, <2>3 DEF CrashInv
    <3>2. CallsOf(stack) = {}
      BY <2>1, CallsOfFew
    <3>3. Led(V)
      BY <3>1, <3>2, SeenLeads DEF SeenNow
    <3>4. Ready(V, stack')
      BY <1>4, <3>3, ReadyStart
    <3>5. Led(V)'
      BY <2>1, <3>3 DEF Led, Leads, annotations
    <3>6. Ready(V, stack)'
      BY <3>4 DEF Ready
    <3> QED BY <3>5, <3>6
  <2> QED BY <2>1, <2>2, <2>3 DEF CrashInv
<1>5. CASE Generate
  <2>1. WellFormed(ast) /\ PassOK /\ CodeOK /\ CodegenStep /\ phase = "generate"
        /\ UNCHANGED <<ast, scopes, annotations>>
    BY <1>5, TreeWellFormed DEF StateInv, PassOK, Generate, CodegenStep
  <2>2. Safe <=> Safe'
    BY <2>1 DEF Safe, UnsafeNode
  <2>3. ASSUME Safe
        PROVE  phase' = "generate" /\ (\E V : Led(V) /\ Ready(V, stack))'
    <3>1. PICK V : Led(V) /\ Ready(V, stack)
      BY <2>1, <2>3 DEF CrashInv
    <3>2. phase' = phase /\ Ready(V, stack')
      BY <2>1, <3>1, GenStmtSees, GenExpressionSees DEF CodegenStep
    <3>3. Led(V)'
      BY <2>1, <3>1 DEF Led, Leads, annotations
    <3> QED BY <2>1, <3>2, <3>3 DEF Ready
  <2> QED BY <2>2, <2>3 DEF CrashInv
<1>6. CASE \/ Parse \/ RejectSyntax \/ RejectSemantics \/ DestroyArena \/ PrintAndReturn
           \/ buildMain
  BY <1>1, <1>6
     DEF Parse, RejectSyntax, RejectSemantics, Reject, DestroyArena, PrintAndReturn,
         buildMain, ExitWithError, BeginDisassembly, disassembleInstruction, EndDisassembly
<1>7. CASE Finished \/ UNCHANGED vars
  <2>1. UNCHANGED vars
    BY <1>7 DEF Finished
  <2> QED BY <2>1
      DEF CrashInv, vars, annotations, diagnostics, Safe, UnsafeNode, SeenNow, Led, Leads, Ready
<1> QED BY <1>2, <1>3, <1>4, <1>5, <1>6, <1>7 DEF Next, compile

(* The generator reaches a name that is not found, or a block without a    *)
(* scope, only in a program with a construct that the checker does not     *)
(* look into; nor does the checker run off the end of typecheckExpr in     *)
(* another one (genExpression, typecheckStmt, typecheckExpr).              *)
THEOREM CheckedProgramsSurvive == Spec => []CrashOnlyWhereUnchecked
<1>1. CrashInv => CrashOnlyWhereUnchecked
  BY DEF CrashInv, CrashOnlyWhereUnchecked, Safe
<1> QED BY StateInit, StateStep, MessageInit, MessageStep, CrashInit, CrashStep, <1>1, PTL
        DEF Spec
=============================================================================
