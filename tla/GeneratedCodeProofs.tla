------------------------- MODULE GeneratedCodeProofs -------------------------
(***************************************************************************)
(* Proofs about the bytes the generator writes, for every set of programs  *)
(* and every width of a byte: the instructions lie end to end, a patch     *)
(* touches the open operand of a jump and nothing else, every jump leads   *)
(* to an instruction, and a literal loads its value.                       *)
(***************************************************************************)
EXTENDS CompilerProofs

-----------------------------------------------------------------------------
(* The layout.                                                             *)

Width(entry) == InstructionWidth(Opcode[entry.op])

(* The instructions of a log lie end to end from one offset to another.    *)
Laid(entries, base, end) ==
  /\ base <= end
  /\ entries = <<>> => base = end
  /\ entries # <<>> => entries[1].at = base /\ base < end
  /\ \A i \in DOMAIN entries :
       /\ base <= entries[i].at /\ entries[i].at + Width(entries[i]) <= end
       /\ i = Len(entries) => entries[i].at + Width(entries[i]) = end
       /\ i # Len(entries) => entries[i].at + Width(entries[i]) = entries[i + 1].at
  /\ \A i, j \in DOMAIN entries :
       i < j => entries[i].at + Width(entries[i]) <= entries[j].at

(* Each instruction begins with its opcode.                                *)
Spelled(bytes, entries) ==
  \A i \in DOMAIN entries : bytes[entries[i].at + 1] = Opcode[entries[i].op]

LayoutOK == Laid(log, 0, Len(code)) /\ Spelled(code, log)

(* Where an instruction begins, or the next one will.                      *)
Boundary(bytes, entries, w) ==
  w = Len(bytes) \/ \E i \in DOMAIN entries : entries[i].at = w

MainOK == Boundary(code, log, mainLocation)

-----------------------------------------------------------------------------
(* The jumps.                                                              *)

PatchTasks == {"outJump", "patchOut", "patchEntry"}

(* The pending call that will patch a jump.                                *)
Pairs(t, entry) ==
  /\ t.at = entry.at + 1
  /\ t.n = entry.n
  /\ \/ t.do = "outJump" /\ entry.op = "JUMP_IF_ZERO"
     \/ t.do = "patchOut" /\ entry.op = "JUMP"
     \/ t.do = "patchEntry" /\ entry.op = "CALL"

Open(bytes, at) == bytes[at + 1] = Unpatched /\ bytes[at + 2] = Unpatched

PatchesOK ==
  phase = "generate" =>
    /\ \A k \in DOMAIN stack :
         stack[k].do \in PatchTasks =>
           Open(code, stack[k].at) /\ \E i \in DOMAIN log : Pairs(stack[k], log[i])
    /\ \A k, l \in DOMAIN stack :
         stack[k].do \in PatchTasks /\ stack[l].do \in PatchTasks /\ k # l =>
           stack[k].at # stack[l].at

(* The operand of a jump, as patchJump writes it for a target.             *)
Landed(bytes, entry, w) ==
  /\ bytes[entry.at + 2] = uint8((w - entry.at - 3) \div ByteSize)
  /\ bytes[entry.at + 3] = uint8(w - entry.at - 3)

Lands(bytes, entries, entry) ==
  \/ /\ entry.op = "JUMP_IF_ZERO"
     /\ \E j \in DOMAIN entries :
          /\ entries[j].op = "JUMP" /\ entries[j].n = entry.n /\ entry.at < entries[j].at
          /\ Landed(bytes, entry, entries[j].at + 3)
  \/ /\ entry.op = "JUMP"
     /\ \E w \in 0..Len(bytes) :
          Boundary(bytes, entries, w) /\ entry.at + 3 <= w /\ Landed(bytes, entry, w)
  \/ /\ entry.op = "CALL"
     /\ \E w \in 0..Len(bytes) : Boundary(bytes, entries, w) /\ Landed(bytes, entry, w)

JumpsOK ==
  phase # "crashed" =>
    \A i \in DOMAIN log :
      log[i].op \in Jumps =>
        \/ Lands(code, log, log[i])
        \/ \E k \in DOMAIN stack : Pairs(stack[k], log[i])

-----------------------------------------------------------------------------
(* The constants.                                                          *)

Loads(bytes, values, entry) ==
  \E k \in 1..Len(values) :
    /\ bytes[entry.at + 2] = uint8(k - 1)
    /\ ast[entry.n].op = "INT" => values[k] = ast[entry.n].val

ConstantsOK ==
  \A i \in DOMAIN log : log[i].op = "CONSTANT" => Loads(code, consts, log[i])

-----------------------------------------------------------------------------
(* Before the generator there is no code.                                  *)
UnstartedOK ==
  phase \in {"parse", "parsed", "analyse"} =>
    code = <<>> /\ log = <<>> /\ consts = <<>> /\ mainLocation = 0

CodeInv ==
  LayoutOK /\ MainOK /\ PatchesOK /\ JumpsOK /\ ConstantsOK /\ UnstartedOK
    /\ DisassemblyAligned

(* A jump of two bytes reaches every place in the code.                    *)
ShortEnough == Len(code) <= ByteSize * ByteSize

(* The condition's jump leads behind the jump that ends the true branch.   *)
ConditionsLand ==
  Generated /\ ShortEnough =>
    \A i \in DOMAIN log :
      log[i].op = "JUMP_IF_ZERO" =>
        \E j \in DOMAIN log : /\ log[j].op = "JUMP" /\ log[j].n = log[i].n
                              /\ Target(i) = log[j].at + 3

JumpsHitInstructions ==
  Generated /\ ShortEnough =>
    \A i \in DOMAIN log :
      log[i].op \in {"JUMP", "JUMP_IF_ZERO"} => Boundary(code, log, Target(i))
-----------------------------------------------------------------------------
(* Sequences.                                                              *)

LEMMA JoinedOne ==
  ASSUME NEW S, NEW a \in Seq(S), NEW e \in S
  PROVE  /\ a \o <<e>> \in Seq(S) /\ Len(a \o <<e>>) = Len(a) + 1
         /\ (a \o <<e>>)[Len(a) + 1] = e /\ a \o <<e>> = Append(a, e)
         /\ \A i \in 1..Len(a) : (a \o <<e>>)[i] = a[i]
         /\ Len(a) \in Nat /\ DOMAIN a = 1..Len(a)
OBVIOUS

LEMMA JoinedThree ==
  ASSUME NEW S, NEW a \in Seq(S), NEW e \in S, NEW b \in Seq(S)
  PROVE  LET all == a \o <<e>> \o b
         IN  /\ all \in Seq(S) /\ Len(all) = Len(a) + 1 + Len(b) /\ Len(all) \in Nat
             /\ all[Len(a) + 1] = e /\ \A i \in DOMAIN a : all[i] = a[i]
             /\ \A i \in 1..Len(b) : all[Len(a) + 1 + i] = b[i]
<1> DEFINE first == a \o <<e>>
<1>1. /\ first \in Seq(S) /\ Len(first) = Len(a) + 1 /\ first[Len(a) + 1] = e
      /\ \A i \in 1..Len(a) : first[i] = a[i]
      /\ Len(a) \in Nat /\ DOMAIN a = 1..Len(a)
  BY JoinedOne
<1> HIDE DEF first
<1>2. /\ first \o b \in Seq(S) /\ Len(first \o b) = Len(first) + Len(b) /\ Len(b) \in Nat
      /\ \A i \in 1..Len(first) : (first \o b)[i] = first[i]
      /\ \A i \in 1..Len(b) : (first \o b)[Len(first) + i] = b[i]
  <2>1. first \in Seq(S)
    BY <1>1
  <2> QED BY ONLY <2>1, b \in Seq(S)
<1>3. \A i \in DOMAIN a : (first \o b)[i] = a[i]
  BY <1>1, <1>2
<1> QED BY <1>1, <1>2, <1>3 DEF first

-----------------------------------------------------------------------------
(* Instructions that lie end to end.                                       *)

LEMMA Widths ==
  ASSUME NEW entry \in Instruction
  PROVE  /\ Width(entry) \in {1, 2, 3}
         /\ entry.op \in Jumps => Width(entry) = 3
         /\ entry.op \in {"CONSTANT", "GET_LOCAL"} => Width(entry) = 2
         /\ entry.op \notin Jumps \cup {"CONSTANT", "GET_LOCAL"} => Width(entry) = 1
         /\ entry.at \in Nat /\ entry.n \in Nat
<1>1. entry.op \in DOMAIN Opcode /\ entry.at \in Nat /\ entry.n \in Nat
  BY DEF Instruction
<1>2. Opcode[entry.op] \in {Opcode.CONSTANT, Opcode.GET_LOCAL}
        <=> entry.op \in {"CONSTANT", "GET_LOCAL"}
  BY <1>1 DEF Opcode
<1>3. Opcode[entry.op] \in {Opcode.JUMP, Opcode.JUMP_IF_ZERO, Opcode.CALL}
        <=> entry.op \in Jumps
  BY <1>1 DEF Opcode, Jumps
<1>4. entry.op \in Jumps => entry.op \notin {"CONSTANT", "GET_LOCAL"}
  BY DEF Jumps
<1> HIDE DEF Opcode
<1> QED BY <1>1, <1>2, <1>3, <1>4 DEF Width, InstructionWidth

LEMMA LaidTogether ==
  ASSUME NEW a \in Seq(Instruction), NEW b \in Seq(Instruction),
         NEW base \in Nat, NEW mid \in Nat, NEW end \in Nat,
         Laid(a, base, mid), Laid(b, mid, end)
  PROVE  Laid(a \o b, base, end)
<1> DEFINE c == a \o b
           m == Len(a)
           n == Len(b)
           To(i) == c[i].at + Width(c[i])
<1>1. /\ m \in Nat /\ n \in Nat /\ DOMAIN a = 1..m /\ DOMAIN b = 1..n
      /\ c \in Seq(Instruction) /\ Len(c) = m + n /\ DOMAIN c = 1..(m + n)
      /\ \A i \in 1..m : c[i] = a[i]
      /\ \A i \in 1..(m + n) : i > m => i - m \in 1..n /\ c[i] = b[i - m]
  OBVIOUS
<1>2. \A i \in 1..(m + n) : c[i] \in Instruction /\ c[i].at \in Nat /\ To(i) \in Nat
  <2> HIDE DEF c, m, n
  <2> SUFFICES ASSUME NEW i \in 1..(m + n)
               PROVE  c[i] \in Instruction /\ c[i].at \in Nat /\ To(i) \in Nat
    OBVIOUS
  <2>1. c[i] \in Instruction
    BY <1>1
  <2>2. Width(c[i]) \in {1, 2, 3} /\ c[i].at \in Nat
    BY <2>1, Widths
  <2> QED BY <2>1, <2>2
<1>3. \A i \in 1..m : /\ base <= c[i].at /\ To(i) <= mid
                      /\ i = m => To(i) = mid
                      /\ i # m => To(i) = c[i + 1].at
  <2>1. ASSUME NEW i \in 1..m
        PROVE  /\ base <= a[i].at /\ a[i].at + Width(a[i]) <= mid
               /\ i = m => a[i].at + Width(a[i]) = mid
               /\ i # m => a[i].at + Width(a[i]) = a[i + 1].at
    BY <1>1 DEF Laid
  <2> SUFFICES ASSUME NEW i \in 1..m
               PROVE  /\ base <= c[i].at /\ To(i) <= mid
                      /\ i = m => To(i) = mid
                      /\ i # m => To(i) = c[i + 1].at
    OBVIOUS
  <2>2. i # m => i + 1 \in 1..m
    OBVIOUS
  <2> HIDE DEF c, m, n
  <2>3. c[i] = a[i] /\ (i # m => c[i + 1] = a[i + 1])
    BY <1>1, <2>2
  <2> QED BY <2>1, <2>3
<1>4. \A i \in 1..(m + n) : i > m =>
        /\ mid <= c[i].at /\ To(i) <= end
        /\ i = m + n => To(i) = end
        /\ i # m + n => To(i) = c[i + 1].at
  <2>1. ASSUME NEW i \in 1..n
        PROVE  /\ mid <= b[i].at /\ b[i].at + Width(b[i]) <= end
               /\ i = n => b[i].at + Width(b[i]) = end
               /\ i # n => b[i].at + Width(b[i]) = b[i + 1].at
    BY <1>1 DEF Laid
  <2> SUFFICES ASSUME NEW i \in 1..(m + n), i > m
               PROVE  /\ mid <= c[i].at /\ To(i) <= end
                      /\ i = m + n => To(i) = end
                      /\ i # m + n => To(i) = c[i + 1].at
    OBVIOUS
  <2>2. i - m \in 1..n /\ c[i] = b[i - m]
    BY <1>1
  <2>3. i # m + n => c[i + 1] = b[i - m + 1]
    <3>1. ASSUME i # m + n
          PROVE  i + 1 \in 1..(m + n) /\ i + 1 > m /\ (i + 1) - m = i - m + 1
      BY <1>1, <3>1
    <3> HIDE DEF c, m, n
    <3> QED BY <1>1, <3>1
  <2>4. (i = m + n) <=> (i - m = n)
    BY <1>1
  <2> HIDE DEF c, m, n
  <2> QED BY <2>1, <2>2, <2>3, <2>4
<1>5. base <= mid /\ mid <= end
  BY DEF Laid
<1>6. m # 0 => c[1].at = base /\ base < mid
  BY <1>1 DEF Laid
<1>7. m = 0 => base = mid
  BY <1>1 DEF Laid
<1>8. n # 0 => c[m + 1].at = mid /\ mid < end
  <2>1. n # 0 => b[1].at = mid /\ mid < end
    BY <1>1 DEF Laid
  <2>2. n # 0 => m + 1 \in 1..(m + n) /\ m + 1 > m /\ (m + 1) - m = 1
    BY <1>1
  <2> HIDE DEF c, m, n
  <2> QED BY <1>1, <2>1, <2>2
<1>9. n = 0 => mid = end
  BY <1>1 DEF Laid
<1>10. ASSUME NEW i \in 1..(m + n), NEW j \in 1..(m + n), i < j
       PROVE  To(i) <= c[j].at
  <2>1. CASE j <= m
    <3>1. i \in 1..m /\ j \in 1..m
      BY <1>1, <1>10, <2>1
    <3>2. a[i].at + Width(a[i]) <= a[j].at
      <4> HIDE DEF m
      <4> QED BY <1>1, <1>10, <3>1 DEF Laid
    <3> HIDE DEF c, m, n
    <3> QED BY <1>1, <3>1, <3>2
  <2>2. CASE i <= m /\ j > m
    <3>1. i \in 1..m
      BY <1>1, <2>2
    <3> HIDE DEF c, m, n
    <3>2. To(i) <= mid /\ mid <= c[j].at
      BY <1>3, <1>4, <2>2, <3>1
    <3> QED BY <1>2, <3>2
  <2>3. CASE i > m
    <3> DEFINE p == i - m
               q == j - m
    <3>1. p \in 1..n /\ q \in 1..n /\ p < q /\ j > m
      BY <1>1, <1>10, <2>3
    <3>2. c[i] = b[p] /\ c[j] = b[q]
      <4> HIDE DEF c, m, n
      <4> QED BY <1>1, <2>3, <3>1
    <3> HIDE DEF c, p, q
    <3>3. b[p].at + Width(b[p]) <= b[q].at
      <4> HIDE DEF n
      <4> QED BY <1>1, <3>1 DEF Laid
    <3> QED BY <3>2, <3>3
  <2> HIDE DEF c, m, n
  <2> QED BY <1>1, <2>1, <2>2, <2>3
<1> HIDE DEF c, m, n
<1>11. /\ base <= end
       /\ c = <<>> => base = end
       /\ c # <<>> => c[1].at = base /\ base < end
  <2>1. CASE m # 0
    <3>1. c # <<>>
      BY <1>1, <2>1
    <3> QED BY <1>5, <1>6, <2>1, <3>1
  <2>2. CASE m = 0 /\ n # 0
    <3>1. c # <<>> /\ m + 1 = 1
      BY <1>1, <2>2
    <3> QED BY <1>5, <1>7, <1>8, <2>2, <3>1
  <2>3. CASE m = 0 /\ n = 0
    <3>1. c = <<>>
      BY <1>1, <2>3
    <3> QED BY <1>5, <1>7, <1>9, <2>3, <3>1
  <2> QED BY <2>1, <2>2, <2>3
<1>12. ASSUME NEW i \in DOMAIN c
       PROVE  /\ base <= c[i].at /\ To(i) <= end
              /\ i = Len(c) => To(i) = end
              /\ i # Len(c) => To(i) = c[i + 1].at
  <2>0. i \in 1..(m + n)
    BY <1>1
  <2>1. CASE i > m
    <3>1. /\ mid <= c[i].at /\ To(i) <= end
          /\ i = m + n => To(i) = end
          /\ i # m + n => To(i) = c[i + 1].at
      BY <1>4, <2>0, <2>1
    <3>2. base <= c[i].at
      BY <1>2, <1>5, <2>0, <3>1
    <3> QED BY <1>1, <3>1, <3>2
  <2>2. CASE i < m
    <3>1. i \in 1..m /\ i # m /\ i # m + n
      BY <1>1, <2>0, <2>2
    <3> QED BY <1>1, <1>2, <1>3, <1>5, <2>0, <3>1
  <2>3. CASE i = m
    <3>1. i \in 1..m
      BY <1>1, <2>0, <2>3
    <3>2. base <= c[i].at /\ To(i) = mid
      BY <1>3, <2>3, <3>1
    <3>3. CASE n = 0
      BY <1>1, <1>5, <1>9, <2>3, <3>2, <3>3
    <3>4. CASE n # 0
      BY <1>1, <1>5, <1>8, <2>3, <3>2, <3>4
    <3> QED BY <3>3, <3>4
  <2> QED BY <1>1, <2>0, <2>1, <2>2, <2>3
<1>13. Laid(c, base, end)
  BY <1>1, <1>10, <1>11, <1>12 DEF Laid
<1> QED BY <1>13 DEF c

LEMMA LaidOne ==
  ASSUME NEW entry \in Instruction, NEW end \in Nat, entry.at + Width(entry) = end
  PROVE  Laid(<<entry>>, entry.at, end) /\ <<entry>> \in Seq(Instruction)
<1>1. Width(entry) \in {1, 2, 3} /\ entry.at \in Nat
  BY Widths
<1> DEFINE one == <<entry>>
<1>2. one \in Seq(Instruction) /\ Len(one) = 1 /\ DOMAIN one = {1} /\ one[1] = entry
      /\ one # <<>>
  OBVIOUS
<1> HIDE DEF one
<1>3. Laid(one, entry.at, end)
  BY <1>1, <1>2 DEF Laid
<1> QED BY <1>2, <1>3 DEF one

LEMMA LaidNone ==
  ASSUME NEW base \in Nat
  PROVE  Laid(<<>>, base, base)
BY DEF Laid

(* The pops at the end of a scope.                                         *)
LEMMA LaidPops ==
  ASSUME NEW base \in Nat, NEW n \in Nat, NEW pops \in Nat
  PROVE  LET entries == [i \in 1..pops |-> Logged(base + i - 1, "POP", n)]
         IN  entries \in Seq(Instruction) /\ Laid(entries, base, base + pops)
<1> DEFINE entries == [i \in 1..pops |-> Logged(base + i - 1, "POP", n)]
<1>1. ASSUME NEW i \in 1..pops
      PROVE  /\ entries[i] \in Instruction /\ entries[i].at = base + i - 1
             /\ entries[i].op = "POP"
  <2>1. entries[i] = Logged(base + i - 1, "POP", n) /\ base + i - 1 \in Nat
    OBVIOUS
  <2>2. "POP" \in DOMAIN Opcode
    BY DEF Opcode
  <2> HIDE DEF entries
  <2> QED BY <2>1, <2>2 DEF Logged, Instruction
<1>2. DOMAIN entries = 1..pops
  OBVIOUS
<1>3. entries \in Seq(Instruction) /\ Len(entries) = pops
  <2>1. \A i \in 1..pops : Logged(base + i - 1, "POP", n) \in Instruction
    BY <1>1
  <2> QED BY <2>1
<1> HIDE DEF entries
<1>4. \A i \in 1..pops : Width(entries[i]) = 1
  <2>1. "POP" \notin Jumps \cup {"CONSTANT", "GET_LOCAL"}
    BY DEF Jumps
  <2> QED BY <1>1, <2>1, Widths
<1>5. entries = <<>> => pops = 0
  BY <1>3
<1>6. entries # <<>> => pops > 0 /\ 1 \in 1..pops
  BY <1>3
<1>7. Laid(entries, base, base + pops)
  <2>1. base <= base + pops /\ (entries = <<>> => base = base + pops)
    BY <1>5
  <2>2. entries # <<>> => entries[1].at = base /\ base < base + pops
    BY <1>1, <1>6
  <2>3. ASSUME NEW i \in DOMAIN entries
        PROVE  /\ base <= entries[i].at /\ entries[i].at + Width(entries[i]) <= base + pops
               /\ i = Len(entries) => entries[i].at + Width(entries[i]) = base + pops
               /\ i # Len(entries) =>
                    entries[i].at + Width(entries[i]) = entries[i + 1].at
    <3>1. i \in 1..pops
      BY <1>2
    <3>2. i # pops => i + 1 \in 1..pops
      BY <3>1
    <3> QED BY <1>1, <1>3, <1>4, <3>1, <3>2
  <2>4. ASSUME NEW i \in DOMAIN entries, NEW j \in DOMAIN entries, i < j
        PROVE  entries[i].at + Width(entries[i]) <= entries[j].at
    BY <1>1, <1>2, <1>4, <2>4
  <2> QED BY <2>1, <2>2, <2>3, <2>4 DEF Laid
<1> QED BY <1>3, <1>7 DEF entries

-----------------------------------------------------------------------------
(* What a step of the generator writes.                                    *)

(* The bytes the pending call at the top patches.                          *)
Patched == IF Top.do \in PatchTasks THEN {Top.at + 1, Top.at + 2} ELSE {}

Idle(tasks) ==
  tasks \in Seq(Tasks) /\ \A k \in DOMAIN tasks : tasks[k].do \notin PatchTasks

(* The step replaces the call at the top by the tasks and appends the      *)
(* instructions of the entries; a jump comes with the task that patches    *)
(* it, and the patch of the call at the top makes its own jump land.       *)
Writes(tasks, entries) ==
  /\ tasks \in Seq(Tasks) /\ stack' = tasks \o Tail(stack) /\ phase' = phase
  /\ entries \in Seq(Instruction) /\ log' = log \o entries
  /\ Laid(entries, Len(code), Len(code')) /\ Spelled(code', entries)
  /\ \A o \in DOMAIN code : o \notin Patched => code'[o] = code[o]
  /\ Len(consts) <= Len(consts')
  /\ \A k \in DOMAIN consts : consts'[k] = consts[k]
  /\ \A i \in DOMAIN entries :
       entries[i].op = "CONSTANT" => Loads(code', consts', entries[i])
  /\ mainLocation' \in {mainLocation, Len(code)}
  /\ \A k \in DOMAIN tasks :
       tasks[k].do \in PatchTasks =>
         /\ k = Len(tasks) /\ entries # <<>>
         /\ Pairs(tasks[k], entries[1]) /\ Open(code', tasks[k].at)
  /\ \A i \in DOMAIN entries :
       entries[i].op \in Jumps => \E k \in DOMAIN tasks : Pairs(tasks[k], entries[i])
  /\ Top.do \in PatchTasks =>
       \A i \in DOMAIN log : Pairs(Top, log[i]) => Lands(code', log', log[i])

LEMMA IdleForEach ==
  ASSUME NEW do \in CodegenTasks \ PatchTasks, NEW nodes \in Seq(Nat), NEW s \in Nat
  PROVE  Idle(ForEach(do, nodes, s))
<1> DEFINE tasks == ForEach(do, nodes, s)
<1>1. DOMAIN nodes = 1..Len(nodes) /\ Len(nodes) \in Nat
  OBVIOUS
<1>2. tasks = [i \in 1..Len(nodes) |-> Task(do, nodes[i], s)]
  BY <1>1 DEF ForEach
<1>3. \A i \in 1..Len(nodes) : Task(do, nodes[i], s) \in Tasks
  BY <1>1 DEF Task, Tasks
<1>4. \A i \in 1..Len(nodes) : Task(do, nodes[i], s).do = do
  BY DEF Task
<1> HIDE DEF tasks
<1>5. tasks \in Seq(Tasks) /\ DOMAIN tasks = 1..Len(nodes)
  BY <1>1, <1>2, <1>3
<1>6. \A i \in DOMAIN tasks : tasks[i].do = do
  BY <1>2, <1>4, <1>5
<1> QED BY <1>5, <1>6 DEF Idle, tasks

LEMMA IdleOne ==
  ASSUME NEW do \in CodegenTasks \ PatchTasks, NEW n \in Nat, NEW s \in Nat
  PROVE  Idle(<<Task(do, n, s)>>)
<1>1. Task(do, n, s) \in Tasks /\ Task(do, n, s).do = do
  BY DEF Task, Tasks
<1> HIDE DEF Task
<1> QED BY <1>1 DEF Idle

LEMMA IdleTogether ==
  ASSUME NEW first, Idle(first), NEW second, Idle(second)
  PROVE  Idle(first \o second)
<1> DEFINE all == first \o second
<1>1. first \in Seq(Tasks) /\ second \in Seq(Tasks)
  BY DEF Idle
<1>2. /\ all \in Seq(Tasks) /\ DOMAIN all = 1..(Len(first) + Len(second))
      /\ Len(first) \in Nat /\ Len(second) \in Nat
      /\ DOMAIN first = 1..Len(first) /\ DOMAIN second = 1..Len(second)
      /\ \A k \in 1..Len(first) : all[k] = first[k]
      /\ \A k \in DOMAIN all : k > Len(first) =>
           k - Len(first) \in 1..Len(second) /\ all[k] = second[k - Len(first)]
  BY <1>1
<1> HIDE DEF all
<1>3. ASSUME NEW k \in DOMAIN all
      PROVE  all[k].do \notin PatchTasks
  <2>1. CASE k > Len(first)
    BY <1>2, <2>1 DEF Idle
  <2>2. CASE ~ (k > Len(first))
    <3>1. k \in 1..Len(first)
      BY <1>2, <2>2
    <3> QED BY <1>2, <3>1 DEF Idle
  <2> QED BY <2>1, <2>2
<1> QED BY <1>2, <1>3 DEF Idle, all

LEMMA IdleTwo ==
  ASSUME NEW first \in Tasks, first.do \notin PatchTasks,
         NEW second \in Tasks, second.do \notin PatchTasks
  PROVE  Idle(<<first, second>>)
BY DEF Idle

LEMMA IdleThree ==
  ASSUME NEW first \in Tasks, first.do \notin PatchTasks,
         NEW second \in Tasks, second.do \notin PatchTasks,
         NEW third \in Tasks, third.do \notin PatchTasks
  PROVE  Idle(<<first, second, third>>)
BY DEF Idle

LEMMA IdleGenStmts ==
  ASSUME WellFormed(ast), PassOK, NEW n \in DOMAIN ast
  PROVE  Idle(genStmts(n))
<1> DEFINE s == scopeOf[n]
<1>1. s \in Nat /\ n \in Nat
  <2>1. Len(scopes) \in Nat /\ s \in 0..Len(scopes)
    BY DEF PassOK, ScopesOK, FineScopes, NotesOK
  <2> QED BY <2>1, TreeNodes
<1>2. ast[n].kids \in Seq(Nat)
  BY TreeNodes DEF Node
<1>3. /\ "genStmt" \in CodegenTasks \ PatchTasks
      /\ "endScope" \in CodegenTasks \ PatchTasks
  BY DEF CodegenTasks, PatchTasks
<1>4. genStmts(n) = ForEach("genStmt", ast[n].kids, s) \o <<Task("endScope", n, s)>>
  BY DEF genStmts
<1> HIDE DEF s
<1>5. Idle(ForEach("genStmt", ast[n].kids, s))
  BY <1>1, <1>2, <1>3, IdleForEach
<1>6. Idle(<<Task("endScope", n, s)>>)
  BY <1>1, <1>3, IdleOne
<1> QED BY <1>4, <1>5, <1>6, IdleTogether

(* A step that only calls.                                                 *)
LEMMA ExpandWrites ==
  ASSUME CodeOK, Top.do \notin PatchTasks, NEW tasks, Idle(tasks), Call(tasks),
         UNCHANGED <<phase, code, log, consts>>, mainLocation' \in {mainLocation, Len(code)}
  PROVE  Writes(tasks, <<>>)
<1>1. /\ code \in Seq(Byte) /\ consts \in Seq(Int) /\ log \in Seq(Instruction)
      /\ Len(code) \in Nat /\ Len(consts) \in Nat
  BY DEF CodeOK, Code
<1>2. Laid(<<>>, Len(code), Len(code')) /\ Spelled(code', <<>>)
  BY <1>1, LaidNone DEF Spelled
<1>3. log' = log \o <<>> /\ <<>> \in Seq(Instruction)
  BY <1>1
<1>4. /\ Len(consts) <= Len(consts')
      /\ \A k \in DOMAIN consts : consts'[k] = consts[k]
      /\ \A o \in DOMAIN code : o \notin Patched => code'[o] = code[o]
  BY <1>1
<1>5. \A k \in DOMAIN tasks : tasks[k].do \notin PatchTasks
  BY DEF Idle
<1>6. DOMAIN <<>> = {}
  OBVIOUS
<1> QED BY <1>2, <1>3, <1>4, <1>5, <1>6 DEF Writes, Idle, Call

(* A step that writes one instruction, no jump, and returns.               *)
LEMMA EmitWrites ==
  ASSUME CodeOK, stack \in Seq(Tasks), stack # <<>>, Top.do \notin PatchTasks,
         NEW op \in DOMAIN Opcode, op \notin Jumps, NEW operands \in Seq(Byte),
         NEW n \in Nat, emit(op, operands, n),
         1 + Len(operands) = Width(Logged(Len(code), op, n)),
         Return, phase' = phase, mainLocation' = mainLocation,
         Len(consts) <= Len(consts'), \A k \in DOMAIN consts : consts'[k] = consts[k],
         op = "CONSTANT" => Loads(code', consts', Logged(Len(code), op, n))
  PROVE  \E entries : Writes(<<>>, entries)
<1> DEFINE entry == Logged(Len(code), op, n)
           entries == <<entry>>
<1>1. code \in Seq(Byte) /\ log \in Seq(Instruction) /\ Len(code) \in Nat
  BY DEF CodeOK, Code
<1>2. entry \in Instruction /\ entry.at = Len(code) /\ entry.op = op
  BY <1>1 DEF Logged, Instruction
<1>3. Opcode[op] \in Byte
  BY OpcodeByte
<1>4. code' = code \o <<Opcode[op]>> \o operands /\ log' = Append(log, entry)
  BY DEF emit
<1>5. Width(entry) = 1 + Len(operands)
  OBVIOUS
<1> HIDE DEF entry
<1>6. /\ Len(code') = Len(code) + 1 + Len(operands) /\ Len(code') \in Nat
      /\ code'[Len(code) + 1] = Opcode[op]
      /\ \A o \in DOMAIN code : code'[o] = code[o]
  BY <1>1, <1>3, <1>4, JoinedThree
<1>7. Laid(entries, Len(code), Len(code')) /\ entries \in Seq(Instruction)
  <2>1. entry.at + Width(entry) = Len(code')
    BY <1>1, <1>2, <1>5, <1>6
  <2>2. Laid(<<entry>>, entry.at, Len(code')) /\ <<entry>> \in Seq(Instruction)
    BY <1>2, <1>6, <2>1, LaidOne
  <2> QED BY <1>2, <2>2
<1>8. DOMAIN entries = {1} /\ entries[1] = entry
  OBVIOUS
<1> HIDE DEF entries
<1>9. Spelled(code', entries)
  BY <1>2, <1>6, <1>8 DEF Spelled
<1>10. log' = log \o entries
  BY <1>1, <1>2, <1>4, JoinedOne DEF entries
<1>11. <<>> \in Seq(Tasks) /\ DOMAIN <<>> = {} /\ stack' = <<>> \o Tail(stack)
  BY DEF Return
<1>12. \A i \in DOMAIN entries :
         /\ entries[i].op = "CONSTANT" => Loads(code', consts', entries[i])
         /\ entries[i].op \notin Jumps
  BY <1>2, <1>8 DEF entry
<1>13. Writes(<<>>, entries)
  BY <1>6, <1>7, <1>9, <1>10, <1>11, <1>12 DEF Writes
<1> QED BY <1>13

(* Which generator steps write no jump and patch nothing.                  *)
LEMMA PlainWidths ==
  ASSUME NEW at \in Nat, NEW n \in Nat, NEW op \in DOMAIN Opcode
  PROVE  /\ Logged(at, op, n) \in Instruction
         /\ op \in Jumps => Width(Logged(at, op, n)) = 3
         /\ op \in {"CONSTANT", "GET_LOCAL"} =>
              op \notin Jumps /\ Width(Logged(at, op, n)) = 2
         /\ op \notin Jumps \cup {"CONSTANT", "GET_LOCAL"} =>
              Width(Logged(at, op, n)) = 1
<1> DEFINE entry == Logged(at, op, n)
<1>1. entry \in Instruction /\ entry.op = op
  BY DEF Logged, Instruction
<1> HIDE DEF entry
<1>2. /\ op \in Jumps => Width(entry) = 3
      /\ op \in {"CONSTANT", "GET_LOCAL"} => Width(entry) = 2
      /\ op \notin Jumps \cup {"CONSTANT", "GET_LOCAL"} => Width(entry) = 1
  BY <1>1, Widths
<1>3. op \in {"CONSTANT", "GET_LOCAL"} => op \notin Jumps
  BY DEF Jumps
<1> QED BY <1>1, <1>2, <1>3 DEF entry

(* An instruction of one byte.                                             *)
LEMMA ByteWrites ==
  ASSUME CodeOK, stack \in Seq(Tasks), stack # <<>>, Top.do \notin PatchTasks,
         NEW op \in DOMAIN Opcode, op \notin Jumps \cup {"CONSTANT", "GET_LOCAL"},
         NEW n \in Nat, emit(op, <<>>, n),
         Return, UNCHANGED <<phase, mainLocation, consts>>
  PROVE  \E entries : Writes(<<>>, entries)
<1>1. Len(code) \in Nat /\ Len(consts) \in Nat
  BY DEF CodeOK, Code
<1>2. Width(Logged(Len(code), op, n)) = 1
  BY <1>1, PlainWidths
<1>3. 1 + Len(<<>>) = Width(Logged(Len(code), op, n)) /\ <<>> \in Seq(Byte)
  BY <1>2
<1>4. /\ op # "CONSTANT" /\ op \notin Jumps
      /\ Len(consts) <= Len(consts') /\ \A k \in DOMAIN consts : consts'[k] = consts[k]
  BY <1>1
<1> QED BY <1>3, <1>4, EmitWrites

(* A step that writes nothing and returns.                                 *)
LEMMA NothingWritten ==
  ASSUME CodeOK, stack \in Seq(Tasks), stack # <<>>, Top.do \notin PatchTasks, Return,
         UNCHANGED <<phase, code, log, consts, mainLocation>>
  PROVE  Writes(<<>>, <<>>)
<1>1. Idle(<<>>)
  BY DEF Idle
<1>2. Call(<<>>)
  BY DEF Call, Return
<1> QED BY <1>1, <1>2, ExpandWrites

(* The pops at the end of a scope.                                         *)
LEMMA PopsWritten ==
  ASSUME CodeOK, stack \in Seq(Tasks), stack # <<>>, Top.do \notin PatchTasks,
         NEW pops \in Nat, NEW n \in Nat,
         code' = code \o [i \in 1..pops |-> Opcode.POP],
         log' = log \o [i \in 1..pops |-> Logged(Len(code) + i - 1, "POP", n)],
         Return, UNCHANGED <<phase, consts, mainLocation>>
  PROVE  \E entries : Writes(<<>>, entries)
<1> DEFINE bytes == [i \in 1..pops |-> Opcode.POP]
           entries == [i \in 1..pops |-> Logged(Len(code) + i - 1, "POP", n)]
           base == Len(code)
<1>1. /\ code \in Seq(Byte) /\ log \in Seq(Instruction) /\ base \in Nat
      /\ Len(consts) \in Nat
  BY DEF CodeOK, Code
<1>2. bytes \in Seq(Byte) /\ Len(bytes) = pops /\ \A i \in 1..pops : bytes[i] = Opcode.POP
  <2>1. Opcode.POP \in Byte
    BY ByteSizeAssumption DEF Opcode, Byte
  <2> QED BY <2>1
<1>3. entries \in Seq(Instruction) /\ Laid(entries, base, base + pops)
  <2>1. Len(code) \in Nat
    BY <1>1
  <2> QED BY <2>1, LaidPops
<1>4. /\ DOMAIN entries = 1..pops
      /\ \A i \in 1..pops : entries[i].at = base + i - 1 /\ entries[i].op = "POP"
  BY DEF Logged
<1>5. code' = code \o bytes /\ log' = log \o entries
  OBVIOUS
<1> HIDE DEF bytes, entries
<1>6. /\ Len(code') = base + pops
      /\ \A o \in DOMAIN code : code'[o] = code[o]
      /\ \A i \in 1..pops : code'[base + i] = Opcode.POP
  <2>1. /\ Len(code \o bytes) = Len(code) + Len(bytes) /\ DOMAIN code = 1..Len(code)
        /\ \A i \in 1..Len(code) : (code \o bytes)[i] = code[i]
        /\ \A i \in 1..Len(bytes) : (code \o bytes)[Len(code) + i] = bytes[i]
    <3>1. code \in Seq(Byte) /\ bytes \in Seq(Byte)
      BY <1>1, <1>2
    <3> QED BY ONLY <3>1
  <2> QED BY <1>2, <1>5, <2>1
<1>7. Laid(entries, Len(code), Len(code'))
  BY <1>3, <1>6
<1>8. Spelled(code', entries)
  <2>1. ASSUME NEW i \in 1..pops
        PROVE  code'[entries[i].at + 1] = Opcode[entries[i].op]
    <3>1. entries[i].at + 1 = base + i
      BY <1>1, <1>4
    <3> HIDE DEF base
    <3> QED BY <1>4, <1>6, <3>1
  <2> QED BY <1>4, <2>1 DEF Spelled
<1>9. <<>> \in Seq(Tasks) /\ DOMAIN <<>> = {} /\ stack' = <<>> \o Tail(stack)
  BY DEF Return
<1>10. \A i \in DOMAIN entries : entries[i].op # "CONSTANT" /\ entries[i].op \notin Jumps
  <2>1. "POP" \notin Jumps /\ "POP" # "CONSTANT"
    BY DEF Jumps
  <2> QED BY <1>4, <2>1
<1>11. /\ Len(consts) <= Len(consts')
       /\ \A k \in DOMAIN consts : consts'[k] = consts[k]
  BY <1>1
<1>12. Writes(<<>>, entries)
  BY <1>3, <1>5, <1>6, <1>7, <1>8, <1>9, <1>10, <1>11 DEF Writes
<1> QED BY <1>12

-----------------------------------------------------------------------------
(* The cases of genStmt.                                                   *)

(* A step that goes on writes; one that crashes leaves the code as it is.  *)
Crashes == phase' = "crashed" /\ stack' = <<>> /\ UNCHANGED <<code, log, consts, mainLocation>>

LEMMA GenStmtWrites ==
  ASSUME WellFormed(ast), PassOK, CodeOK, genStmt
  PROVE  Crashes \/ \E tasks, entries : Writes(tasks, entries)
<1> DEFINE n == Top.n
           s == Top.s
<1> USE DEF CodegenTasks, RunningOn
<1>1. /\ stack # <<>> /\ n \in DOMAIN ast /\ n \in Nat /\ s \in 0..Len(scopes)
      /\ Len(scopes) \in Nat /\ FineScopes(scopes)
      /\ Top.do \in {"genStmt", "popUnused", "emitReturn", "endScope"}
  BY CodegenTop
     DEF genStmt, genFunc, genVar, genExprStmt, popUnused, emitReturn, endScope
<1>2. stack \in Seq(Tasks) /\ Top.do \notin PatchTasks /\ s \in Nat
  BY <1>1 DEF PassOK, StackOK, PatchTasks
<1>3. /\ "genExpression" \in CodegenTasks \ PatchTasks
      /\ "emitReturn" \in CodegenTasks \ PatchTasks
      /\ "popUnused" \in CodegenTasks \ PatchTasks
      /\ 0 \in Nat
  BY DEF PatchTasks
<1>4. CASE genFunc
  <2>1. /\ Call(genStmts(n) \o <<Task("emitReturn", n, 0)>>)
        /\ UNCHANGED <<phase, code, log, consts>>
        /\ mainLocation' \in {mainLocation, Len(code)}
    BY <1>4 DEF genFunc, chunk
  <2> HIDE DEF n, s
  <2>2. Idle(genStmts(n))
    BY <1>1, IdleGenStmts
  <2>3. Idle(<<Task("emitReturn", n, 0)>>)
    BY <1>1, <1>3, IdleOne
  <2>4. Idle(genStmts(n) \o <<Task("emitReturn", n, 0)>>)
    BY <2>2, <2>3, IdleTogether
  <2> QED BY <1>2, <2>1, <2>4, ExpandWrites
<1>5. CASE genVar
  <2>1. /\ Call(<<Task("genExpression", Kid(n, 1), s)>>)
        /\ UNCHANGED <<phase, code, log, consts, mainLocation>> /\ ast[n].kind = "DECL_VAR"
    BY <1>5 DEF genVar, chunk
  <2> HIDE DEF n, s
  <2>2. 1 \in 1..Len(ast[n].kids)
    BY <1>1, <2>1, OnlyKid
  <2>3. Kid(n, 1) \in Nat
    BY <1>1, <2>2, KidOfTree, TreeNodes
  <2>4. Idle(<<Task("genExpression", Kid(n, 1), s)>>)
    BY <1>2, <1>3, <2>3, IdleOne
  <2> QED BY <1>2, <2>1, <2>4, ExpandWrites
<1>6. CASE genExprStmt
  <2> DEFINE first == Task("genExpression", n, s)
             second == Task("popUnused", n, 0)
  <2>1. Call(<<first, second>>) /\ UNCHANGED <<phase, code, log, consts, mainLocation>>
    BY <1>6 DEF genExprStmt, Expand, codegenVars, chunk
  <2> HIDE DEF n, s
  <2>2. /\ first \in Tasks /\ second \in Tasks
        /\ first.do \notin PatchTasks /\ second.do \notin PatchTasks
    BY <1>1, <1>2, <1>3 DEF Task, Tasks
  <2> HIDE DEF first, second
  <2>3. Idle(<<first, second>>)
    BY <2>2, IdleTwo
  <2> QED BY <1>2, <2>1, <2>3, ExpandWrites
<1>7. CASE popUnused \/ emitReturn
  <2>1. /\ Return /\ UNCHANGED <<phase, consts, mainLocation>>
        /\ \/ emit("POP", <<>>, n) \/ emit("RETURN", <<>>, n) \/ UNCHANGED <<code, log>>
    BY <1>7 DEF popUnused, emitReturn, emitByte, Written
  <2> HIDE DEF n
  <2>2. /\ "POP" \in DOMAIN Opcode /\ "RETURN" \in DOMAIN Opcode
        /\ "POP" \notin Jumps \cup {"CONSTANT", "GET_LOCAL"}
        /\ "RETURN" \notin Jumps \cup {"CONSTANT", "GET_LOCAL"}
    BY DEF Opcode, Jumps
  <2>3. CASE emit("POP", <<>>, n)
    BY <1>1, <1>2, <2>1, <2>2, <2>3, ByteWrites
  <2>4. CASE emit("RETURN", <<>>, n)
    BY <1>1, <1>2, <2>1, <2>2, <2>4, ByteWrites
  <2>5. CASE UNCHANGED <<code, log>>
    BY <1>1, <1>2, <2>1, <2>5, NothingWritten
  <2> QED BY <2>1, <2>3, <2>4, <2>5
<1>8. CASE endScope
  <2>1. CASE s = 0
    BY <1>8, <2>1 DEF endScope, Crash, Crashes, codegenVars, chunk
  <2>2. CASE s # 0
    <3> DEFINE pops == Len(scopes[s].symbols)
    <3>1. /\ code' = code \o [i \in 1..pops |-> Opcode.POP]
          /\ log' = log \o [i \in 1..pops |-> Logged(Len(code) + i - 1, "POP", n)]
          /\ Return /\ UNCHANGED <<phase, consts, mainLocation>>
      BY <1>8, <2>2 DEF endScope, Written
    <3>2. pops \in Nat
      <4>1. scopes[s] \in Scope
        BY <1>1, <2>2 DEF FineScopes, FineScope
      <4> QED BY <4>1 DEF Scope
    <3> HIDE DEF pops, n, s
    <3> QED BY <1>1, <1>2, <3>1, <3>2, PopsWritten
  <2> QED BY <2>1, <2>2
<1> QED BY <1>4, <1>5, <1>6, <1>7, <1>8 DEF genStmt

-----------------------------------------------------------------------------
(* The cases of genExpression that leave no jump open.                     *)

LEMMA LeafWrites ==
  ASSUME WellFormed(ast), PassOK, CodeOK, genLiteral \/ genIdent \/ operator \/ genDefault
  PROVE  Crashes \/ \E tasks, entries : Writes(tasks, entries)
<1> DEFINE n == Top.n
           s == Top.s
<1> USE DEF CodegenTasks, RunningOn, Gen
<1>1. /\ stack # <<>> /\ n \in DOMAIN ast /\ n \in Nat /\ s \in 0..Len(scopes)
      /\ FineScopes(scopes) /\ Top.do \in {"genExpression", "operator"}
  BY CodegenTop DEF genLiteral, genIdent, operator, genDefault
<1>2. stack \in Seq(Tasks) /\ Top.do \notin PatchTasks
  BY <1>1 DEF PassOK, StackOK, PatchTasks
<1>3. Len(code) \in Nat /\ consts \in Seq(Int) /\ Len(consts) \in Nat
  BY DEF CodeOK, Code
<1>4. /\ "CONSTANT" \in DOMAIN Opcode /\ "GET_LOCAL" \in DOMAIN Opcode
      /\ "CONSTANT" \notin Jumps /\ "GET_LOCAL" \notin Jumps /\ "CONSTANT" # "GET_LOCAL"
  BY DEF Opcode, Jumps
<1>5. CASE genLiteral
  <2> DEFINE value == IF ast[n].op = "INT" THEN ast[n].val ELSE 1
             byte == uint8(Len(consts))
             at == Len(code)
  <2>1. /\ consts' = Append(consts, value) /\ emit("CONSTANT", <<byte>>, n)
        /\ Return /\ UNCHANGED <<phase, mainLocation>>
    BY <1>5 DEF genLiteral, emitConstant
  <2>2. value \in Int
    <3>1. ast[n].val \in Int
      BY <1>1, TreeNodes DEF Node
    <3> QED BY <3>1
  <2>3. byte \in Byte
    BY <1>3, UnsignedByte
  <2>4. ast[n].op = "INT" => value = ast[n].val
    OBVIOUS
  <2> HIDE DEF n, s, value
  <2>5. /\ Len(consts') = Len(consts) + 1 /\ consts'[Len(consts) + 1] = value
        /\ \A k \in DOMAIN consts : consts'[k] = consts[k]
    BY <1>3, <2>1, <2>2
  <2>6. code'[Len(code) + 2] = byte
    <3>1. code' = code \o <<Opcode["CONSTANT"]>> \o <<byte>>
      BY <2>1 DEF emit
    <3>2. Opcode["CONSTANT"] \in Byte /\ code \in Seq(Byte) /\ <<byte>> \in Seq(Byte)
      BY <1>4, <2>3, OpcodeByte DEF CodeOK, Code
    <3> HIDE DEF byte
    <3>3. Len(<<byte>>) = 1 /\ <<byte>>[1] = byte
      OBVIOUS
    <3>4. code'[Len(code) + 1 + 1] = <<byte>>[1]
      <4> DEFINE opcode == Opcode["CONSTANT"]
                 operands == <<byte>>
      <4> HIDE DEF opcode, operands
      <4>1. \A i \in 1..Len(operands) :
              (code \o <<opcode>> \o operands)[Len(code) + 1 + i] = operands[i]
        BY <3>2, JoinedThree DEF opcode, operands
      <4>2. 1 \in 1..Len(operands)
        BY <3>3 DEF operands
      <4> QED BY <3>1, <4>1, <4>2 DEF opcode, operands
    <3>5. Len(code) + 1 + 1 = Len(code) + 2
      BY <1>3
    <3> QED BY <3>3, <3>4, <3>5
  <2>7. Loads(code', consts', Logged(at, "CONSTANT", n))
    <3> DEFINE entry == Logged(at, "CONSTANT", n)
               k == Len(consts) + 1
    <3>1. entry.at = at /\ entry.n = n
      BY DEF Logged
    <3>2. k \in 1..Len(consts') /\ k - 1 = Len(consts)
      BY <1>3, <2>5
    <3> HIDE DEF entry, at
    <3>3. code'[entry.at + 2] = uint8(k - 1)
      BY <2>6, <3>1, <3>2 DEF at
    <3>4. consts'[k] = value
      BY <2>5
    <3> HIDE DEF k
    <3> QED BY <2>4, <3>1, <3>2, <3>3, <3>4 DEF Loads, entry
  <2>8. 1 + Len(<<byte>>) = Width(Logged(Len(code), "CONSTANT", n))
        /\ <<byte>> \in Seq(Byte)
    <3>1. Width(Logged(Len(code), "CONSTANT", n)) = 2
      BY <1>1, <1>3, <1>4, PlainWidths
    <3> HIDE DEF byte
    <3> QED BY <2>3, <3>1
  <2> HIDE DEF byte
  <2>9. Len(consts) <= Len(consts')
    BY <1>3, <2>5
  <2> QED BY <1>1, <1>2, <1>4, <2>1, <2>5, <2>7, <2>8, <2>9, EmitWrites
<1>6. CASE genIdent
  <2> DEFINE symbol == scopeLookup(scopes, s, ast[n].name)
  <2>1. CASE symbol = NullSymbol
    BY <1>6, <2>1 DEF genIdent, Crash, Crashes
  <2>2. CASE symbol # NullSymbol
    <3> DEFINE byte == uint8(SymbolAt(scopes, symbol).funcIndex)
    <3>1. /\ emit("GET_LOCAL", <<byte>>, n)
          /\ Return /\ UNCHANGED <<phase, consts, mainLocation>>
      BY <1>6, <2>2 DEF genIdent
    <3>2. SymbolAt(scopes, symbol) \in Symbol
      BY <1>1, <2>2, SymbolFoundType
    <3>3. byte \in Byte
      <4>1. SymbolAt(scopes, symbol).funcIndex \in Int
        BY <3>2 DEF Symbol
      <4> QED BY <4>1, UnsignedByte
    <3> HIDE DEF n, symbol, byte
    <3>4. 1 + Len(<<byte>>) = Width(Logged(Len(code), "GET_LOCAL", n))
          /\ <<byte>> \in Seq(Byte)
      <4>1. Width(Logged(Len(code), "GET_LOCAL", n)) = 2
        BY <1>1, <1>3, <1>4, PlainWidths
      <4> QED BY <3>3, <4>1
    <3>5. /\ Len(consts) <= Len(consts')
          /\ \A k \in DOMAIN consts : consts'[k] = consts[k]
      BY <1>3, <3>1
    <3> QED BY <1>1, <1>2, <1>4, <3>1, <3>4, <3>5, EmitWrites
  <2> QED BY <2>1, <2>2
<1>7. CASE operator
  <2> DEFINE op == ast[n].op
  <2>1. /\ Return /\ UNCHANGED <<phase, consts, mainLocation>>
        /\ \/ op \in operators /\ emit(OperatorOp(op), <<>>, n)
           \/ UNCHANGED <<code, log>>
    BY <1>7 DEF operator, Written, emitByte
  <2> HIDE DEF n, op
  <2>2. CASE op \in operators /\ emit(OperatorOp(op), <<>>, n)
    <3>1. /\ OperatorOp(op) \in DOMAIN Opcode
          /\ OperatorOp(op) \notin Jumps \cup {"CONSTANT", "GET_LOCAL"}
      BY <2>2 DEF operators, OperatorOp, Opcode, Jumps
    <3> QED BY <1>1, <1>2, <2>1, <2>2, <3>1, ByteWrites
  <2>3. CASE UNCHANGED <<code, log>>
    BY <1>1, <1>2, <2>1, <2>3, NothingWritten
  <2> QED BY <2>1, <2>2, <2>3
<1>8. CASE genDefault
  <2>1. Return /\ UNCHANGED <<phase, code, log, consts, mainLocation>>
    BY <1>8 DEF genDefault, codegenVars, chunk
  <2> QED BY <1>1, <1>2, <2>1, NothingWritten
<1> QED BY <1>5, <1>6, <1>7, <1>8

LEMMA BranchWrites ==
  ASSUME WellFormed(ast), PassOK, CodeOK, genBinop \/ genBlock \/ genIf \/ genExit
  PROVE  \E tasks, entries : Writes(tasks, entries)
<1> DEFINE n == Top.n
           s == Top.s
<1> USE DEF CodegenTasks, RunningOn, Gen
<1>1. /\ stack # <<>> /\ n \in DOMAIN ast /\ n \in Nat /\ s \in 0..Len(scopes)
      /\ Len(scopes) \in Nat /\ Top.do = "genExpression"
      /\ ast[n].kind \in {"BINOP", "BLOCK", "IF", "EXIT"}
  BY CodegenTop DEF genBinop, genBlock, genIf, genExit
<1>2. stack \in Seq(Tasks) /\ Top.do \notin PatchTasks /\ s \in Nat
  BY <1>1 DEF PassOK, StackOK, PatchTasks
<1>3. UNCHANGED <<phase, code, log, consts, mainLocation>>
  BY DEF genBinop, genBlock, genIf, genExit, Expand, codegenVars, chunk
<1>4. ASSUME NEW tasks, Idle(tasks), Call(tasks)
      PROVE  \E t, entries : Writes(t, entries)
  BY <1>2, <1>3, <1>4, ExpandWrites
<1>5. ASSUME NEW i \in 1..Len(ast[n].kids)
      PROVE  /\ Task("genExpression", Kid(n, i), s) \in Tasks
             /\ Task("genExpression", Kid(n, i), s).do \notin PatchTasks
  <2>1. Kid(n, i) \in Nat
    <3>1. Kid(n, i) \in DOMAIN ast
      BY <1>1, KidOfTree
    <3> QED BY <3>1, TreeNodes
  <2> QED BY <1>2, <2>1 DEF Task, Tasks, PatchTasks
<1>6. ASSUME NEW do \in {"operator", "elseJump", "emitReturn"}, NEW where \in Nat
      PROVE  /\ Task(do, n, where) \in Tasks
             /\ Task(do, n, where).do \notin PatchTasks
  BY <1>1 DEF Task, Tasks, PatchTasks
<1>7. CASE genBinop
  <2> DEFINE first == Task("genExpression", Kid(n, 2), s)
             second == Task("genExpression", Kid(n, 1), s)
             third == Task("operator", n, 0)
  <2>1. Call(<<first, second, third>>) /\ ast[n].kind = "BINOP"
    BY <1>7 DEF genBinop, Expand
  <2>2. 1 \in 1..Len(ast[n].kids) /\ 2 \in 1..Len(ast[n].kids)
    <3> HIDE DEF n
    <3>1. Len(ast[n].kids) = 2
      BY <1>1, <2>1, KidsCount
    <3> QED BY <3>1
  <2>3. /\ first \in Tasks /\ first.do \notin PatchTasks
        /\ second \in Tasks /\ second.do \notin PatchTasks
        /\ third \in Tasks /\ third.do \notin PatchTasks
    <3> HIDE DEF n, s
    <3> QED BY <1>5, <1>6, <2>2
  <2> HIDE DEF n, s, first, second, third
  <2>4. Idle(<<first, second, third>>)
    BY <2>3, IdleThree
  <2> QED BY <1>4, <2>1, <2>4
<1>8. CASE genBlock
  <2>1. Call(genStmts(n))
    BY <1>8 DEF genBlock, Expand
  <2> HIDE DEF n, s
  <2>2. Idle(genStmts(n))
    BY <1>1, IdleGenStmts
  <2> QED BY <1>4, <2>1, <2>2
<1>9. CASE genIf
  <2> DEFINE first == Task("genExpression", Kid(n, 1), s)
             second == Task("elseJump", n, s)
  <2>1. Call(<<first, second>>) /\ ast[n].kind = "IF"
    BY <1>9 DEF genIf, Expand
  <2>2. 1 \in 1..Len(ast[n].kids)
    <3> HIDE DEF n
    <3> QED BY <1>1, <2>1, OnlyKid
  <2>3. /\ first \in Tasks /\ first.do \notin PatchTasks
        /\ second \in Tasks /\ second.do \notin PatchTasks
    <3> HIDE DEF n, s
    <3> QED BY <1>2, <1>5, <1>6, <2>2
  <2> HIDE DEF n, s, first, second
  <2>4. Idle(<<first, second>>)
    BY <2>3, IdleTwo
  <2> QED BY <1>4, <2>1, <2>4
<1>10. CASE genExit
  <2> DEFINE first == Task("genExpression", Kid(n, 1), s)
             second == Task("emitReturn", n, 0)
  <2>1. (Call(<<first, second>>) \/ Return) /\ ast[n].kind = "EXIT"
    BY <1>10 DEF genExit
  <2>2. 1 \in 1..Len(ast[n].kids)
    <3> HIDE DEF n
    <3> QED BY <1>1, <2>1, OnlyKid
  <2>3. /\ first \in Tasks /\ first.do \notin PatchTasks
        /\ second \in Tasks /\ second.do \notin PatchTasks
    <3> HIDE DEF n, s
    <3> QED BY <1>5, <1>6, <2>2
  <2> HIDE DEF n, s, first, second
  <2>4. Idle(<<first, second>>)
    BY <2>3, IdleTwo
  <2>5. CASE Return
    BY <1>1, <1>2, <1>3, <2>5, NothingWritten
  <2>6. CASE Call(<<first, second>>)
    BY <1>4, <2>4, <2>6
  <2> QED BY <2>1, <2>5, <2>6
<1> QED BY <1>7, <1>8, <1>9, <1>10

-----------------------------------------------------------------------------
(* The jumps.                                                              *)

(* What patchJump writes.                                                  *)
LEMMA PatchWrites ==
  ASSUME NEW bytes \in Seq(Byte), NEW offset \in Nat, offset + 2 <= Len(bytes),
         NEW with \in Int
  PROVE  /\ patchJump(bytes, offset, with)[offset + 1]
              = uint8((with - offset - 2) \div ByteSize)
         /\ patchJump(bytes, offset, with)[offset + 2] = uint8(with - offset - 2)
<1> DEFINE high == uint8((with - offset - 2) \div ByteSize)
           low == uint8(with - offset - 2)
           first == offset + 1
           second == offset + 2
           once == [bytes EXCEPT ![first] = high]
<1>1. first \in DOMAIN bytes /\ second \in DOMAIN bytes /\ first # second
  OBVIOUS
<1>2. patchJump(bytes, offset, with) = [once EXCEPT ![second] = low]
  BY DEF patchJump
<1> HIDE DEF high, low, first, second
<1>3. [once EXCEPT ![second] = low][first] = high
      /\ [once EXCEPT ![second] = low][second] = low
  BY <1>1
<1> HIDE DEF once
<1> QED BY <1>2, <1>3 DEF high, low, first, second

(* The jump a pending patch belongs to, and the room it has.               *)
LEMMA PatchedJump ==
  ASSUME LayoutOK, CodeOK, PatchesOK, phase = "generate", NEW k \in DOMAIN stack,
         stack[k].do \in PatchTasks
  PROVE  /\ \E i \in DOMAIN log : Pairs(stack[k], log[i])
         /\ Open(code, stack[k].at)
         /\ \A i \in DOMAIN log : Pairs(stack[k], log[i]) =>
              /\ log[i] \in Instruction /\ Width(log[i]) = 3 /\ log[i].op \in Jumps
              /\ log[i].at \in Nat /\ log[i].at + 3 <= Len(code)
              /\ stack[k].at = log[i].at + 1
<1>1. (\E i \in DOMAIN log : Pairs(stack[k], log[i])) /\ Open(code, stack[k].at)
  BY DEF PatchesOK
<1>2. ASSUME NEW i \in DOMAIN log, Pairs(stack[k], log[i])
      PROVE  /\ log[i] \in Instruction /\ Width(log[i]) = 3 /\ log[i].op \in Jumps
             /\ log[i].at \in Nat /\ log[i].at + 3 <= Len(code)
             /\ stack[k].at = log[i].at + 1
  <2>1. log[i] \in Instruction
    BY DEF CodeOK
  <2>2. log[i].op \in Jumps /\ stack[k].at = log[i].at + 1
    BY <1>2 DEF Pairs, Jumps
  <2>3. Width(log[i]) = 3 /\ log[i].at \in Nat
    BY <2>1, <2>2, Widths
  <2>4. log[i].at + Width(log[i]) <= Len(code)
    BY DEF LayoutOK, Laid
  <2> QED BY <2>1, <2>2, <2>3, <2>4
<1> QED BY <1>1, <1>2

LEMMA PatchLands ==
  ASSUME NEW bytes \in Seq(Byte), NEW entry, entry.at \in Nat, entry.at + 3 <= Len(bytes),
         NEW w \in Nat
  PROVE  Landed(patchJump(bytes, entry.at + 1, w), entry, w)
<1> DEFINE offset == entry.at + 1
           new == patchJump(bytes, offset, w)
<1>1. offset \in Nat /\ offset + 2 <= Len(bytes) /\ w \in Int
  OBVIOUS
<1>2. /\ offset + 1 = entry.at + 2 /\ offset + 2 = entry.at + 3
      /\ w - offset - 2 = w - entry.at - 3
  OBVIOUS
<1> HIDE DEF offset
<1>3. /\ new[offset + 1] = uint8((w - offset - 2) \div ByteSize)
      /\ new[offset + 2] = uint8(w - offset - 2)
  BY <1>1, PatchWrites
<1> HIDE DEF new
<1>4. Landed(new, entry, w)
  BY <1>2, <1>3 DEF Landed
<1> QED BY <1>4 DEF new, offset

(* A jump that is written with its operand open.                           *)
Opened(bytes, op, new) ==
  /\ new \in Seq(Byte) /\ Len(new) = Len(bytes) + 3 /\ Len(bytes) \in Nat
  /\ new[Len(bytes) + 1] = Opcode[op]
  /\ new[Len(bytes) + 2] = Unpatched /\ new[Len(bytes) + 3] = Unpatched
  /\ \A o \in DOMAIN bytes : new[o] = bytes[o]

LEMMA JumpOpened ==
  ASSUME NEW bytes \in Seq(Byte), NEW op \in DOMAIN Opcode, NEW new,
         \/ new = bytes \o <<Opcode[op]>> \o <<Unpatched, Unpatched>>
         \/ new = bytes \o <<Opcode[op], Unpatched, Unpatched>>
  PROVE  Opened(bytes, op, new)
<1> DEFINE byte == Opcode[op]
           open == Unpatched
<1>1. byte \in Byte /\ open \in Byte
  BY OpcodeByte, OpenBytes
<1>2. new = bytes \o <<byte>> \o <<open, open>> \/ new = bytes \o <<byte, open, open>>
  OBVIOUS
<1>3. Len(bytes) \in Nat /\ DOMAIN bytes = 1..Len(bytes)
  OBVIOUS
<1> HIDE DEF byte, open
<1>4. CASE new = bytes \o <<byte>> \o <<open, open>>
  <2> DEFINE operands == <<open, open>>
  <2>1. operands \in Seq(Byte) /\ Len(operands) = 2 /\ operands[1] = open /\ operands[2] = open
    BY <1>1
  <2>2. new = bytes \o <<byte>> \o operands
    BY <1>4
  <2> HIDE DEF operands
  <2>3. /\ new \in Seq(Byte) /\ Len(new) = Len(bytes) + 1 + Len(operands)
        /\ new[Len(bytes) + 1] = byte /\ \A i \in DOMAIN bytes : new[i] = bytes[i]
        /\ \A i \in 1..Len(operands) : new[Len(bytes) + 1 + i] = operands[i]
    BY <1>1, <2>1, <2>2, JoinedThree
  <2>4. 1 \in 1..Len(operands) /\ 2 \in 1..Len(operands)
    BY <2>1
  <2>5. new[Len(bytes) + 1 + 1] = open /\ new[Len(bytes) + 1 + 2] = open
    BY <2>1, <2>3, <2>4
  <2>6. Len(bytes) + 1 + 1 = Len(bytes) + 2 /\ Len(bytes) + 1 + 2 = Len(bytes) + 3
    BY <1>3
  <2> QED BY <1>3, <2>1, <2>3, <2>5, <2>6 DEF byte, open, Opened
<1>5. CASE new = bytes \o <<byte, open, open>>
  <2> DEFINE jump == <<byte, open, open>>
  <2>1. /\ jump \in Seq(Byte) /\ Len(jump) = 3
        /\ jump[1] = byte /\ jump[2] = open /\ jump[3] = open
    BY <1>1
  <2>2. new = bytes \o jump
    BY <1>5
  <2> HIDE DEF jump
  <2>3. /\ new \in Seq(Byte) /\ Len(new) = Len(bytes) + Len(jump)
        /\ \A i \in 1..Len(bytes) : new[i] = bytes[i]
        /\ \A i \in 1..Len(jump) : new[Len(bytes) + i] = jump[i]
    BY <2>1, <2>2, Joined
  <2>4. 1 \in 1..Len(jump) /\ 2 \in 1..Len(jump) /\ 3 \in 1..Len(jump)
    BY <2>1
  <2>5. /\ new[Len(bytes) + 1] = byte
        /\ new[Len(bytes) + 2] = open /\ new[Len(bytes) + 3] = open
    BY <2>1, <2>3, <2>4
  <2> QED BY <1>3, <2>1, <2>3, <2>5 DEF byte, open, Opened
<1> QED BY <1>2, <1>4, <1>5

(* What the instruction of a new jump is.                                  *)
LEMMA JumpLogged ==
  ASSUME CodeOK, NEW op \in Jumps, NEW n \in Nat, NEW new, Len(new) = Len(code) + 3,
         new[Len(code) + 1] = Opcode[op]
  PROVE  LET entry == Logged(Len(code), op, n)
         IN  /\ <<entry>> \in Seq(Instruction) /\ entry \in Instruction
             /\ Laid(<<entry>>, Len(code), Len(new)) /\ Spelled(new, <<entry>>)
             /\ log \o <<entry>> = Append(log, entry)
<1> DEFINE entry == Logged(Len(code), op, n)
<1>1. Len(code) \in Nat /\ log \in Seq(Instruction) /\ op \in DOMAIN Opcode
  BY DEF CodeOK, Code, Jumps, Opcode
<1>2. entry \in Instruction /\ Width(entry) = 3
  BY <1>1, PlainWidths
<1>3. entry.at = Len(code) /\ entry.op = op
  BY DEF Logged
<1> HIDE DEF entry
<1>4. entry.at + Width(entry) = Len(new) /\ Len(new) \in Nat
  BY <1>1, <1>2, <1>3
<1>5. Laid(<<entry>>, Len(code), Len(new)) /\ <<entry>> \in Seq(Instruction)
  <2>1. Laid(<<entry>>, entry.at, Len(new)) /\ <<entry>> \in Seq(Instruction)
    BY <1>2, <1>4, LaidOne
  <2> QED BY <1>3, <2>1
<1>6. Spelled(new, <<entry>>)
  BY <1>3 DEF Spelled
<1>7. log \o <<entry>> = Append(log, entry)
  BY <1>1, <1>2, JoinedOne
<1> QED BY <1>2, <1>5, <1>6, <1>7 DEF entry

LEMMA ElseJumpWrites ==
  ASSUME WellFormed(ast), PassOK, CodeOK, elseJump
  PROVE  \E tasks, entries : Writes(tasks, entries)
<1> DEFINE n == Top.n
           s == Top.s
           entry == Logged(Len(code), "JUMP_IF_ZERO", n)
           entries == <<entry>>
           first == Task("genExpression", Kid(n, 2), s)
           last == TaskAt("outJump", n, s, JumpOffset)
           tasks == <<first, last>>
<1> USE DEF CodegenTasks
<1>1. /\ stack # <<>> /\ n \in DOMAIN ast /\ n \in Nat /\ s \in 0..Len(scopes)
      /\ Len(scopes) \in Nat /\ Top.do = "elseJump" /\ ast[n].kind = "IF"
  BY CodegenTop DEF elseJump, Fits
<1>2. s \in Nat /\ Top.do \notin PatchTasks
  BY <1>1 DEF PatchTasks
<1>3. /\ code \in Seq(Byte) /\ log \in Seq(Instruction) /\ Len(code) \in Nat
      /\ consts \in Seq(Int) /\ Len(consts) \in Nat
  BY DEF CodeOK, Code
<1>4. /\ code' = code \o <<Opcode["JUMP_IF_ZERO"]>> \o <<Unpatched, Unpatched>>
      /\ log' = Append(log, entry) /\ Call(tasks)
      /\ UNCHANGED <<phase, consts, mainLocation>>
  BY DEF elseJump, emitJump, emit
<1>5. "JUMP_IF_ZERO" \in DOMAIN Opcode /\ "JUMP_IF_ZERO" \in Jumps
  BY DEF Opcode, Jumps
<1>6. /\ Len(code') = Len(code) + 3
      /\ code'[Len(code) + 1] = Opcode["JUMP_IF_ZERO"]
      /\ code'[Len(code) + 2] = Unpatched /\ code'[Len(code) + 3] = Unpatched
      /\ \A o \in DOMAIN code : code'[o] = code[o]
  <2>1. Opened(code, "JUMP_IF_ZERO", code')
    BY <1>3, <1>4, <1>5, JumpOpened
  <2> QED BY <2>1 DEF Opened
<1> HIDE DEF s
<1>7. /\ entries \in Seq(Instruction) /\ Laid(entries, Len(code), Len(code'))
      /\ Spelled(code', entries) /\ log' = log \o entries
  <2> HIDE DEF n
  <2> QED BY <1>1, <1>4, <1>5, <1>6, JumpLogged
<1>8. /\ entry.at = Len(code) /\ entry.op = "JUMP_IF_ZERO" /\ entry.n = n
      /\ DOMAIN entries = {1} /\ entries[1] = entry /\ entries # <<>>
  BY DEF Logged
<1>9. Kid(n, 2) \in Nat
  <2> HIDE DEF n
  <2>1. 2 \in 1..Len(ast[n].kids)
    <3>1. Len(ast[n].kids) \in {2, 3}
      BY <1>1, KidsCount
    <3> QED BY ONLY <3>1
  <2>2. Kid(n, 2) \in DOMAIN ast
    BY <1>1, <2>1, KidOfTree
  <2> QED BY <2>2, TreeNodes
<1>10. JumpOffset \in Nat /\ JumpOffset = Len(code) + 1
  BY <1>3 DEF JumpOffset
<1>11. /\ first \in Tasks /\ first.do \notin PatchTasks
       /\ last \in Tasks /\ last.do = "outJump" /\ last.at = JumpOffset /\ last.n = n
  BY <1>1, <1>2, <1>9, <1>10 DEF Task, TaskAt, Tasks, PatchTasks
<1> HIDE DEF n, entry, first, last
<1>12. /\ tasks \in Seq(Tasks) /\ DOMAIN tasks = {1, 2} /\ Len(tasks) = 2
       /\ tasks[1] = first /\ tasks[2] = last
  BY <1>11
<1> HIDE DEF entries, tasks
<1>13. Pairs(last, entry)
  BY <1>8, <1>10, <1>11 DEF Pairs
<1>14. Open(code', last.at)
  <2>1. last.at + 1 = Len(code) + 2 /\ last.at + 2 = Len(code) + 3
    BY <1>3, <1>10, <1>11
  <2> QED BY <1>6, <2>1 DEF Open
<1>15. \A k \in DOMAIN tasks :
         tasks[k].do \in PatchTasks =>
           /\ k = Len(tasks) /\ entries # <<>>
           /\ Pairs(tasks[k], entries[1]) /\ Open(code', tasks[k].at)
  BY <1>8, <1>11, <1>12, <1>13, <1>14
<1>16. \A i \in DOMAIN entries :
         /\ entries[i].op # "CONSTANT"
         /\ \E k \in DOMAIN tasks : Pairs(tasks[k], entries[i])
  BY <1>8, <1>12, <1>13
<1>17. /\ Len(consts) <= Len(consts')
       /\ \A k \in DOMAIN consts : consts'[k] = consts[k]
       /\ mainLocation' = mainLocation
  BY <1>3, <1>4
<1>18. Writes(tasks, entries)
  BY <1>2, <1>4, <1>6, <1>7, <1>12, <1>15, <1>16, <1>17 DEF Writes, Call
<1> QED BY <1>18

LEMMA OutJumpWrites ==
  ASSUME WellFormed(ast), PassOK, CodeOK, LayoutOK, PatchesOK, phase = "generate", outJump
  PROVE  \E tasks, entries : Writes(tasks, entries)
<1> DEFINE n == Top.n
           s == Top.s
           at == Top.at
           opened == code \o <<Opcode["JUMP"], Unpatched, Unpatched>>
           entry == Logged(Len(code), "JUMP", n)
           entries == <<entry>>
           rest == ForEach("genExpression", FalseBranch(n), s)
           last == TaskAt("patchOut", n, 0, JumpOffset)
           tasks == rest \o <<last>>
<1> USE DEF CodegenTasks
<1>1. /\ stack # <<>> /\ n \in DOMAIN ast /\ n \in Nat /\ s \in 0..Len(scopes)
      /\ Len(scopes) \in Nat /\ Top.do = "outJump" /\ ast[n].kind = "IF" /\ at \in Nat
  BY CodegenTop DEF outJump, Fits
<1>2. /\ stack \in Seq(Tasks) /\ 1 \in DOMAIN stack /\ stack[1] = Top /\ s \in Nat
      /\ Top.do \in PatchTasks
  <2>1. stack \in Seq(Tasks)
    BY DEF PassOK, StackOK
  <2>2. 1 \in DOMAIN stack /\ stack[1] = Head(stack)
    BY <1>1, <2>1
  <2> QED BY <1>1, <2>1, <2>2 DEF Top, PatchTasks
<1>3. /\ code \in Seq(Byte) /\ log \in Seq(Instruction) /\ Len(code) \in Nat
      /\ consts \in Seq(Int) /\ Len(consts) \in Nat /\ DOMAIN code = 1..Len(code)
      /\ DOMAIN log = 1..Len(log) /\ Len(log) \in Nat
  BY DEF CodeOK, Code
<1>4. /\ code' = patchJump(opened, at, Len(code) + 3)
      /\ log' = Append(log, entry) /\ Call(tasks)
      /\ UNCHANGED <<phase, consts, mainLocation>>
  BY DEF outJump, Opcode
<1>5. "JUMP" \in DOMAIN Opcode /\ "JUMP" \in Jumps
  BY DEF Opcode, Jumps
<1>6. /\ \E i \in DOMAIN log : Pairs(Top, log[i])
      /\ \A i \in DOMAIN log : Pairs(Top, log[i]) =>
           log[i].at \in Nat /\ log[i].at + 3 <= Len(code) /\ at = log[i].at + 1
  <2> HIDE DEF at
  <2>1. /\ \E i \in DOMAIN log : Pairs(stack[1], log[i])
        /\ \A i \in DOMAIN log : Pairs(stack[1], log[i]) =>
             log[i].at \in Nat /\ log[i].at + 3 <= Len(code) /\ stack[1].at = log[i].at + 1
    BY <1>2, PatchedJump
  <2> QED BY <1>2, <2>1 DEF at
<1>7. at + 2 <= Len(code)
  <2> HIDE DEF at
  <2> QED BY <1>1, <1>3, <1>6
<1>8. /\ opened \in Seq(Byte) /\ Len(opened) = Len(code) + 3
      /\ opened[Len(code) + 1] = Opcode["JUMP"]
      /\ opened[Len(code) + 2] = Unpatched /\ opened[Len(code) + 3] = Unpatched
      /\ \A o \in DOMAIN code : opened[o] = code[o]
  <2>1. \/ opened = code \o <<Opcode["JUMP"]>> \o <<Unpatched, Unpatched>>
        \/ opened = code \o <<Opcode["JUMP"], Unpatched, Unpatched>>
    OBVIOUS
  <2> HIDE DEF opened
  <2>2. code \in Seq(Byte) /\ "JUMP" \in DOMAIN Opcode
    BY <1>3, <1>5
  <2>3. Opened(code, "JUMP", opened)
    BY <2>1, <2>2, JumpOpened
  <2> QED BY <2>3 DEF Opened
<1> HIDE DEF s, at, opened
<1>9. /\ Len(code') = Len(opened)
      /\ \A o \in DOMAIN opened : o \notin {at + 1, at + 2} => code'[o] = opened[o]
  <2>1. Code(opened) /\ at \in Int /\ Len(code) + 3 \in Int
    BY <1>1, <1>3, <1>8 DEF Code
  <2> QED BY <1>4, <2>1, PatchKeeps
<1>10. DOMAIN opened = 1..(Len(code) + 3)
  BY <1>3, <1>8
<1>11. /\ Len(code') = Len(code) + 3
       /\ code'[Len(code) + 1] = Opcode["JUMP"]
       /\ code'[Len(code) + 2] = Unpatched /\ code'[Len(code) + 3] = Unpatched
  <2>1. ASSUME NEW o \in {Len(code) + 1, Len(code) + 2, Len(code) + 3}
        PROVE  o \in DOMAIN opened /\ o \notin {at + 1, at + 2}
    BY <1>1, <1>3, <1>7, <1>10
  <2> QED BY <1>8, <1>9, <2>1
<1>12. \A o \in DOMAIN code : o \notin Patched => code'[o] = code[o]
  <2>1. ASSUME NEW o \in DOMAIN code, o \notin Patched
        PROVE  code'[o] = code[o]
    <3>1. o \in DOMAIN opened
      BY <1>3, <1>10
    <3>2. o \notin {at + 1, at + 2}
      BY <1>2, <2>1 DEF Patched, at
    <3> QED BY <1>8, <1>9, <3>1, <3>2
  <2> QED BY <2>1
<1>13. /\ entries \in Seq(Instruction) /\ Laid(entries, Len(code), Len(code'))
       /\ Spelled(code', entries) /\ log' = log \o entries /\ entry \in Instruction
  <2> HIDE DEF n
  <2> QED BY <1>1, <1>4, <1>5, <1>11, JumpLogged
<1>14. /\ entry.at = Len(code) /\ entry.op = "JUMP" /\ entry.n = n
       /\ DOMAIN entries = {1} /\ entries[1] = entry /\ entries # <<>>
  BY DEF Logged
<1>15. JumpOffset \in Nat /\ JumpOffset = Len(code) + 1
  BY <1>3 DEF JumpOffset
<1>16. /\ last \in Tasks /\ last.do = "patchOut" /\ last.at = JumpOffset /\ last.n = n
  BY <1>1, <1>15 DEF TaskAt, Tasks
<1>17. Idle(rest)
  <2>1. FalseBranch(n) \in Seq(Nat)
    <3> DEFINE kids == ast[n].kids
    <3>1. kids \in Seq(Nat)
      BY <1>1, TreeNodes DEF Node
    <3> HIDE DEF kids
    <3>2. SubSeq(kids, 3, Len(kids)) \in Seq(Nat)
      BY <3>1
    <3> QED BY <3>2 DEF kids, FalseBranch
  <2>2. "genExpression" \in CodegenTasks \ PatchTasks
    BY DEF PatchTasks
  <2> HIDE DEF n
  <2> QED BY <1>2, <2>1, <2>2, IdleForEach
<1> HIDE DEF n, entry, last, rest
<1>18. /\ tasks \in Seq(Tasks) /\ Len(tasks) = Len(rest) + 1 /\ Len(rest) \in Nat
       /\ tasks[Len(rest) + 1] = last /\ DOMAIN tasks = 1..(Len(rest) + 1)
       /\ \A k \in 1..Len(rest) : tasks[k] = rest[k] /\ k \in DOMAIN rest
  <2>1. rest \in Seq(Tasks)
    BY <1>17 DEF Idle
  <2> QED BY <1>16, <2>1, JoinedOne
<1> HIDE DEF entries, tasks
<1>19. Pairs(last, entry)
  BY <1>14, <1>15, <1>16 DEF Pairs
<1>20. Open(code', last.at)
  <2>1. last.at + 1 = Len(code) + 2 /\ last.at + 2 = Len(code) + 3
    BY <1>3, <1>15, <1>16
  <2> QED BY <1>11, <2>1 DEF Open
<1>21. \A k \in DOMAIN tasks :
         tasks[k].do \in PatchTasks =>
           /\ k = Len(tasks) /\ entries # <<>>
           /\ Pairs(tasks[k], entries[1]) /\ Open(code', tasks[k].at)
  <2>1. ASSUME NEW k \in DOMAIN tasks, tasks[k].do \in PatchTasks
        PROVE  k = Len(rest) + 1
    <3>1. ~ (k \in 1..Len(rest))
      BY <1>17, <1>18, <2>1 DEF Idle
    <3> QED BY <1>18, <3>1
  <2> QED BY <1>14, <1>18, <1>19, <1>20, <2>1
<1>22. \A i \in DOMAIN entries :
         /\ entries[i].op # "CONSTANT"
         /\ \E k \in DOMAIN tasks : Pairs(tasks[k], entries[i])
  <2>1. Len(rest) + 1 \in DOMAIN tasks
    BY <1>18
  <2> QED BY <1>14, <1>18, <1>19, <2>1
<1>23. /\ Len(consts) <= Len(consts')
       /\ \A k \in DOMAIN consts : consts'[k] = consts[k]
       /\ mainLocation' = mainLocation
  BY <1>3, <1>4
<1>24. \A i \in DOMAIN log : Pairs(Top, log[i]) => Lands(code', log', log[i])
  <2> DEFINE w == Len(code) + 3
             j == Len(log) + 1
  <2>1. j \in DOMAIN log' /\ log'[j] = entry
    <3>1. log' = Append(log, entry) /\ log \in Seq(Instruction) /\ entry \in Instruction
      BY <1>3, <1>4, <1>13
    <3> QED BY ONLY <3>1
  <2>2. ASSUME NEW i \in DOMAIN log, Pairs(Top, log[i])
        PROVE  Lands(code', log', log[i])
    <3> DEFINE old == log[i]
    <3>1. /\ old.at \in Nat /\ old.at + 3 <= Len(code) /\ at = old.at + 1
          /\ old.op = "JUMP_IF_ZERO" /\ old.n = n
      <4>1. old.op = "JUMP_IF_ZERO" /\ old.n = n
        BY <1>1, <2>2 DEF Pairs, n
      <4> QED BY <1>6, <2>2, <4>1
    <3> HIDE DEF old, j
    <3>2. Landed(code', old, w)
      <4>1. old.at + 3 <= Len(opened) /\ w \in Nat
        BY <1>3, <1>8, <3>1
      <4>2. Landed(patchJump(opened, old.at + 1, w), old, w)
        BY <1>8, <3>1, <4>1, PatchLands
      <4> QED BY <1>4, <3>1, <4>2
    <3>3. /\ log'[j].op = "JUMP" /\ log'[j].n = old.n
          /\ old.at < log'[j].at /\ log'[j].at + 3 = w
      BY <1>3, <1>14, <2>1, <3>1
    <3> HIDE DEF w
    <3>4. Lands(code', log', old)
      BY <2>1, <3>1, <3>2, <3>3 DEF Lands
    <3> QED BY <3>4 DEF old
  <2> QED BY <2>2
<1>25. Writes(tasks, entries)
  BY <1>4, <1>12, <1>13, <1>18, <1>21, <1>22, <1>23, <1>24 DEF Writes, Call
<1> QED BY <1>25

(* The place a boundary can be.                                            *)
LEMMA BoundaryInCode ==
  ASSUME LayoutOK, CodeOK, NEW w, Boundary(code, log, w)
  PROVE  w \in 0..Len(code)
<1>1. Len(code) \in Nat
  BY DEF CodeOK, Code
<1>2. CASE w = Len(code)
  BY <1>1, <1>2
<1>3. ASSUME NEW i \in DOMAIN log, log[i].at = w
      PROVE  w \in 0..Len(code)
  <2>1. log[i] \in Instruction
    BY DEF CodeOK
  <2>2. Width(log[i]) \in {1, 2, 3} /\ log[i].at \in Nat
    BY <2>1, Widths
  <2>3. log[i].at + Width(log[i]) <= Len(code)
    BY DEF LayoutOK, Laid
  <2> QED BY <1>1, <1>3, <2>2, <2>3
<1> QED BY <1>2, <1>3 DEF Boundary

(* Where the jump of the call at the top may lead.                         *)
PatchTarget(w) == Boundary(code, log, w) /\ (Top.do = "patchOut" => w = Len(code))

(* The two patches that write nothing else.                                *)
LEMMA PatchStepWrites ==
  ASSUME PassOK, CodeOK, LayoutOK, PatchesOK, phase = "generate", stack # <<>>,
         Top.do \in {"patchOut", "patchEntry"}, NEW w \in Nat,
         code' = patchJump(code, Top.at, w), Return,
         UNCHANGED <<phase, consts, mainLocation, log>>,
         PatchTarget(w)
  PROVE  Writes(<<>>, <<>>)
<1> DEFINE at == Top.at
<1>1. /\ code \in Seq(Byte) /\ log \in Seq(Instruction) /\ Len(code) \in Nat
      /\ consts \in Seq(Int) /\ Len(consts) \in Nat /\ DOMAIN code = 1..Len(code)
  BY DEF CodeOK, Code
<1>2. /\ stack \in Seq(Tasks) /\ 1 \in DOMAIN stack /\ stack[1] = Top
      /\ Top.do \in PatchTasks
  BY DEF PassOK, StackOK, PatchTasks, Top
<1>3. /\ \E i \in DOMAIN log : Pairs(Top, log[i])
      /\ \A i \in DOMAIN log : Pairs(Top, log[i]) =>
           log[i].at \in Nat /\ log[i].at + 3 <= Len(code) /\ at = log[i].at + 1
  <2> HIDE DEF at
  <2>1. /\ \E i \in DOMAIN log : Pairs(stack[1], log[i])
        /\ \A i \in DOMAIN log : Pairs(stack[1], log[i]) =>
             log[i].at \in Nat /\ log[i].at + 3 <= Len(code) /\ stack[1].at = log[i].at + 1
    BY <1>2, PatchedJump
  <2> QED BY <1>2, <2>1 DEF at
<1> HIDE DEF at
<1>4. at \in Nat
  BY <1>3
<1>5. /\ Len(code') = Len(code)
      /\ \A o \in DOMAIN code : o \notin {at + 1, at + 2} => code'[o] = code[o]
  <2>1. Code(code) /\ at \in Int /\ w \in Int
    BY <1>1, <1>4 DEF Code
  <2>2. code' = patchJump(code, at, w)
    BY DEF at
  <2> QED BY <2>1, <2>2, PatchKeeps
<1>6. \A o \in DOMAIN code : o \notin Patched => code'[o] = code[o]
  BY <1>2, <1>5 DEF Patched, at
<1>7. Laid(<<>>, Len(code), Len(code')) /\ Spelled(code', <<>>)
  BY <1>1, <1>5, LaidNone DEF Spelled
<1>8. /\ log' = log \o <<>> /\ <<>> \in Seq(Instruction) /\ <<>> \in Seq(Tasks)
      /\ stack' = <<>> \o Tail(stack) /\ DOMAIN <<>> = {}
  BY <1>1, <1>2 DEF Return
<1>9. /\ Len(consts) <= Len(consts')
      /\ \A k \in DOMAIN consts : consts'[k] = consts[k]
  BY <1>1
<1>10. \A i \in DOMAIN log : Pairs(Top, log[i]) => Lands(code', log', log[i])
  <2>1. ASSUME NEW i \in DOMAIN log, Pairs(Top, log[i])
        PROVE  Lands(code', log', log[i])
    <3> DEFINE old == log[i]
    <3>1. /\ old.at \in Nat /\ old.at + 3 <= Len(code) /\ at = old.at + 1
          /\ \/ old.op = "JUMP" /\ Top.do = "patchOut"
             \/ old.op = "CALL" /\ Top.do = "patchEntry"
      <4>1. \/ old.op = "JUMP" /\ Top.do = "patchOut"
            \/ old.op = "CALL" /\ Top.do = "patchEntry"
        BY <2>1 DEF Pairs
      <4> QED BY <1>3, <2>1, <4>1
    <3> HIDE DEF old
    <3>2. Landed(code', old, w)
      <4>1. Landed(patchJump(code, old.at + 1, w), old, w)
        BY <1>1, <3>1, PatchLands
      <4> QED BY <3>1, <4>1 DEF at
    <3>3. Boundary(code', log', w) /\ w \in 0..Len(code')
      <4>1. Boundary(code, log, w) /\ w \in 0..Len(code)
        BY BoundaryInCode DEF PatchTarget
      <4> QED BY <1>5, <4>1 DEF Boundary
    <3>4. old.op = "JUMP" => old.at + 3 <= w
      BY <3>1 DEF PatchTarget
    <3>5. Lands(code', log', old)
      BY <3>1, <3>2, <3>3, <3>4 DEF Lands
    <3> QED BY <3>5 DEF old
  <2> QED BY <2>1
<1>11. Writes(<<>>, <<>>)
  BY <1>6, <1>7, <1>8, <1>9, <1>10 DEF Writes
<1> QED BY <1>11

LEMMA JumpWrites ==
  ASSUME WellFormed(ast), PassOK, CodeOK, LayoutOK, MainOK, PatchesOK, phase = "generate",
         elseJump \/ outJump \/ patchOut \/ patchEntry
  PROVE  \E tasks, entries : Writes(tasks, entries)
<1>1. CASE elseJump
  BY <1>1, ElseJumpWrites
<1>2. CASE outJump
  BY <1>2, OutJumpWrites
<1>3. Len(code) \in Nat /\ Boundary(code, log, Len(code))
  BY DEF CodeOK, Code, Boundary
<1>4. CASE patchOut
  <2>1. /\ stack # <<>> /\ Top.do = "patchOut" /\ code' = patchJump(code, Top.at, Len(code))
        /\ Return /\ UNCHANGED <<phase, consts, mainLocation, log>>
    BY <1>4 DEF patchOut, Running
  <2>2. Writes(<<>>, <<>>)
    BY <1>3, <2>1, PatchStepWrites DEF PatchTarget
  <2> QED BY <2>2
<1>5. CASE patchEntry
  <2>1. /\ stack # <<>> /\ Top.do = "patchEntry" /\ code' = patchJump(code, Top.at, mainLocation)
        /\ Return /\ UNCHANGED <<phase, consts, mainLocation, log>>
    BY <1>5 DEF patchEntry, Running
  <2>2. PatchTarget(mainLocation) /\ mainLocation \in Nat
    BY <2>1 DEF MainOK, CodeOK, PatchTarget
  <2>3. Writes(<<>>, <<>>)
    BY <2>1, <2>2, PatchStepWrites
  <2> QED BY <2>3
<1> QED BY <1>1, <1>2, <1>4, <1>5

LEMMA CodegenWrites ==
  ASSUME WellFormed(ast), PassOK, CodeOK, LayoutOK, MainOK, PatchesOK, phase = "generate",
         CodegenStep
  PROVE  Crashes \/ \E tasks, entries : Writes(tasks, entries)
<1>1. CASE genStmt
  BY <1>1, GenStmtWrites
<1>2. CASE genLiteral \/ genIdent \/ operator \/ genDefault
  BY <1>2, LeafWrites
<1>3. CASE genBinop \/ genBlock \/ genIf \/ genExit
  BY <1>3, BranchWrites
<1>4. CASE elseJump \/ outJump \/ patchOut \/ patchEntry
  BY <1>4, JumpWrites
<1> QED BY <1>1, <1>2, <1>3, <1>4 DEF CodegenStep, genExpression

-----------------------------------------------------------------------------
(* What a step that writes preserves.                                      *)

Writing(tasks, entries) ==
  /\ CodeOK /\ CodeOK' /\ LayoutOK /\ PatchesOK /\ phase = "generate"
  /\ stack \in Seq(Tasks) /\ stack # <<>> /\ ast' = ast
  /\ Writes(tasks, entries)

(* The log, old and new.                                                   *)
LEMMA WrittenLog ==
  ASSUME NEW tasks, NEW entries, Writing(tasks, entries)
  PROVE  /\ DOMAIN log = 1..Len(log) /\ Len(log) \in Nat /\ Len(log') = Len(log) + Len(entries)
         /\ DOMAIN entries = 1..Len(entries) /\ Len(entries) \in Nat
         /\ \A i \in DOMAIN log : i \in DOMAIN log' /\ log'[i] = log[i]
         /\ \A i \in DOMAIN entries :
              Len(log) + i \in DOMAIN log' /\ log'[Len(log) + i] = entries[i]
         /\ \A i \in DOMAIN log' :
              i \in DOMAIN log \/ \E j \in DOMAIN entries : i = Len(log) + j
         /\ Len(code) \in Nat /\ Len(code') \in Nat /\ Len(code) <= Len(code')
         /\ DOMAIN code = 1..Len(code)
<1>1. log \in Seq(Instruction) /\ entries \in Seq(Instruction) /\ log' = log \o entries
  BY DEF Writing, Writes, CodeOK
<1>2. /\ DOMAIN log = 1..Len(log) /\ Len(log) \in Nat /\ Len(log') = Len(log) + Len(entries)
      /\ DOMAIN entries = 1..Len(entries) /\ Len(entries) \in Nat
      /\ DOMAIN log' = 1..(Len(log) + Len(entries))
      /\ \A i \in 1..Len(log) : log'[i] = log[i]
      /\ \A i \in 1..Len(entries) : log'[Len(log) + i] = entries[i]
  BY ONLY <1>1
<1>3. \A i \in DOMAIN log : i \in DOMAIN log' /\ log'[i] = log[i]
  BY <1>2
<1>4. \A i \in DOMAIN entries :
        Len(log) + i \in DOMAIN log' /\ log'[Len(log) + i] = entries[i]
  BY <1>2
<1>5. ASSUME NEW i \in DOMAIN log', i \notin DOMAIN log
      PROVE  \E j \in DOMAIN entries : i = Len(log) + j
  <2>1. i - Len(log) \in DOMAIN entries /\ i = Len(log) + (i - Len(log))
    BY <1>2, <1>5
  <2> QED BY <2>1
<1>6. Len(code) \in Nat /\ Len(code') \in Nat /\ DOMAIN code = 1..Len(code)
  BY DEF Writing, CodeOK, Code
<1>7. Len(code) <= Len(code')
  BY DEF Writing, Writes, Laid
<1> QED BY <1>2, <1>3, <1>4, <1>5, <1>6, <1>7

(* The pending calls, old and new.                                         *)
LEMMA WrittenStack ==
  ASSUME NEW tasks, NEW entries, Writing(tasks, entries)
  PROVE  /\ tasks \in Seq(Tasks) /\ Len(tasks) \in Nat /\ DOMAIN tasks = 1..Len(tasks)
         /\ 1 \in DOMAIN stack /\ stack[1] = Top
         /\ \A l \in DOMAIN stack : l # 1 =>
              /\ l - 1 + Len(tasks) \in DOMAIN stack'
              /\ stack'[l - 1 + Len(tasks)] = stack[l]
         /\ \A l \in DOMAIN tasks : l \in DOMAIN stack' /\ stack'[l] = tasks[l]
         /\ \A k \in DOMAIN stack' :
              \/ k \in DOMAIN tasks
              \/ \E l \in DOMAIN stack : l # 1 /\ k = l - 1 + Len(tasks)
<1> DEFINE rest == Tail(stack)
<1>1. /\ stack \in Seq(Tasks) /\ stack # <<>> /\ tasks \in Seq(Tasks)
      /\ stack' = tasks \o rest
  BY DEF Writing, Writes
<1>2. /\ rest \in Seq(Tasks) /\ Len(rest) = Len(stack) - 1 /\ Len(stack) \in Nat
      /\ Len(stack) > 0 /\ DOMAIN stack = 1..Len(stack) /\ stack[1] = Head(stack)
      /\ \A l \in 1..(Len(stack) - 1) : rest[l] = stack[l + 1]
  BY ONLY <1>1
<1> HIDE DEF rest
<1>3. /\ DOMAIN stack' = 1..(Len(tasks) + Len(rest))
      /\ Len(tasks) \in Nat /\ DOMAIN tasks = 1..Len(tasks)
      /\ \A l \in 1..Len(tasks) : stack'[l] = tasks[l]
      /\ \A l \in 1..Len(rest) : stack'[Len(tasks) + l] = rest[l]
  <2>1. tasks \in Seq(Tasks) /\ rest \in Seq(Tasks) /\ stack' = tasks \o rest
    BY <1>1, <1>2
  <2> QED BY ONLY <2>1
<1>4. ASSUME NEW l \in DOMAIN stack, l # 1
      PROVE  /\ l - 1 + Len(tasks) \in DOMAIN stack'
             /\ stack'[l - 1 + Len(tasks)] = stack[l]
  <2> DEFINE r == l - 1
  <2>1. r \in 1..(Len(stack) - 1) /\ r \in 1..Len(rest) /\ r + 1 = l
    BY <1>2, <1>4
  <2>2. l - 1 + Len(tasks) = Len(tasks) + r /\ Len(tasks) + r \in DOMAIN stack'
    BY <1>2, <1>3, <1>4
  <2> HIDE DEF r
  <2>3. stack'[Len(tasks) + r] = rest[r] /\ rest[r] = stack[l]
    BY <1>2, <1>3, <2>1
  <2> QED BY <2>2, <2>3
<1>5. ASSUME NEW k \in DOMAIN stack', k \notin DOMAIN tasks
      PROVE  \E l \in DOMAIN stack : l # 1 /\ k = l - 1 + Len(tasks)
  <2> DEFINE l == k - Len(tasks) + 1
  <2>1. l \in DOMAIN stack /\ l # 1 /\ k = l - 1 + Len(tasks)
    BY <1>2, <1>3, <1>5
  <2> QED BY <2>1
<1>6. \A l \in DOMAIN tasks : l \in DOMAIN stack' /\ stack'[l] = tasks[l]
  BY <1>2, <1>3
<1> QED BY <1>1, <1>2, <1>3, <1>4, <1>5, <1>6 DEF Top

(* Two instructions share no byte.                                         *)
LEMMA InstructionsApart ==
  ASSUME CodeOK, LayoutOK, NEW i \in DOMAIN log, NEW j \in DOMAIN log, i # j
  PROVE  \/ log[i].at + Width(log[i]) <= log[j].at
         \/ log[j].at + Width(log[j]) <= log[i].at
<1>1. log \in Seq(Instruction) /\ i \in Nat /\ j \in Nat
  BY DEF CodeOK
<1>2. i < j \/ j < i
  BY <1>1
<1> QED BY <1>2 DEF LayoutOK, Laid

LEMMA LogTyped ==
  ASSUME CodeOK, LayoutOK, NEW i \in DOMAIN log
  PROVE  /\ log[i] \in Instruction /\ log[i].at \in Nat /\ Width(log[i]) \in {1, 2, 3}
         /\ log[i].op \in Jumps => Width(log[i]) = 3
         /\ log[i].op \in {"CONSTANT", "GET_LOCAL"} => Width(log[i]) = 2
         /\ log[i].at + Width(log[i]) <= Len(code) /\ Len(code) \in Nat
<1>1. log[i] \in Instruction /\ Len(code) \in Nat
  BY DEF CodeOK, Code
<1>2. log[i].at + Width(log[i]) <= Len(code)
  BY DEF LayoutOK, Laid
<1> QED BY <1>1, <1>2, Widths

(* A step changes the operand of the jump it patches and no other byte.    *)
LEMMA Untouched ==
  ASSUME NEW tasks, NEW entries, Writing(tasks, entries), NEW i \in DOMAIN log, NEW o \in Nat,
         log[i].at < o, o <= log[i].at + Width(log[i])
  PROVE  \/ code'[o] = code[o]
         \/ Top.do \in PatchTasks /\ Pairs(Top, log[i]) /\ o # log[i].at + 1
<1>1. CodeOK /\ LayoutOK /\ PatchesOK /\ phase = "generate"
  BY DEF Writing
<1>2. /\ log[i].at \in Nat /\ Width(log[i]) \in {1, 2, 3}
      /\ log[i].at + Width(log[i]) <= Len(code) /\ Len(code) \in Nat
  BY <1>1, LogTyped
<1>3. o \in DOMAIN code
  <2>1. o \in 1..Len(code)
    BY <1>2
  <2> QED BY <2>1, WrittenLog
<1>4. CASE o \notin Patched
  BY <1>3, <1>4 DEF Writing, Writes
<1>5. CASE o \in Patched
  <2>1. Top.do \in PatchTasks /\ o \in {Top.at + 1, Top.at + 2}
    BY <1>5 DEF Patched
  <2>2. 1 \in DOMAIN stack /\ stack[1] = Top
    BY WrittenStack
  <2>3. /\ \E p \in DOMAIN log : Pairs(stack[1], log[p])
        /\ \A p \in DOMAIN log : Pairs(stack[1], log[p]) =>
             Width(log[p]) = 3 /\ log[p].at \in Nat /\ stack[1].at = log[p].at + 1
    BY <1>1, <2>1, <2>2, PatchedJump
  <2>4. PICK p \in DOMAIN log : /\ Pairs(Top, log[p]) /\ Width(log[p]) = 3
                                /\ log[p].at \in Nat /\ Top.at = log[p].at + 1
    BY <2>2, <2>3
  <2>5. o = log[p].at + 2 \/ o = log[p].at + 3
    BY <2>1, <2>4
  <2>6. CASE p = i
    BY <1>2, <2>1, <2>4, <2>5, <2>6
  <2>7. CASE p # i
    <3>1. \/ log[i].at + Width(log[i]) <= log[p].at
          \/ log[p].at + Width(log[p]) <= log[i].at
      BY <1>1, <2>7, InstructionsApart
    <3>2. FALSE
      BY <1>2, <2>4, <2>5, <3>1
    <3> QED BY <3>2
  <2> QED BY <2>6, <2>7
<1> QED BY <1>4, <1>5

LEMMA LayoutStep ==
  ASSUME NEW tasks, NEW entries, Writing(tasks, entries)
  PROVE  LayoutOK'
<1>1. /\ CodeOK /\ LayoutOK /\ log \in Seq(Instruction) /\ entries \in Seq(Instruction)
      /\ log' = log \o entries /\ Len(code) \in Nat /\ Len(code') \in Nat /\ 0 \in Nat
      /\ Laid(log, 0, Len(code)) /\ Laid(entries, Len(code), Len(code'))
  BY WrittenLog DEF Writing, Writes, CodeOK, LayoutOK
<1>2. Laid(log', 0, Len(code'))
  <2>1. Laid(log \o entries, 0, Len(code'))
    BY <1>1, LaidTogether
  <2> QED BY <1>1, <2>1
<1>3. ASSUME NEW i \in DOMAIN log'
      PROVE  code'[log'[i].at + 1] = Opcode[log'[i].op]
  <2>1. CASE i \in DOMAIN log
    <3>1. log'[i] = log[i]
      BY <2>1, WrittenLog
    <3>2. log[i].at \in Nat /\ Width(log[i]) \in {1, 2, 3}
      BY <1>1, <2>1, LogTyped
    <3>3. log[i].at + 1 \in Nat /\ log[i].at < log[i].at + 1
          /\ log[i].at + 1 <= log[i].at + Width(log[i])
      BY <3>2
    <3>4. code'[log[i].at + 1] = code[log[i].at + 1]
      BY <2>1, <3>3, Untouched
    <3>5. code[log[i].at + 1] = Opcode[log[i].op]
      BY <1>1, <2>1 DEF LayoutOK, Spelled
    <3> QED BY <3>1, <3>4, <3>5
  <2>2. CASE i \notin DOMAIN log
    <3>1. PICK j \in DOMAIN entries : log'[i] = entries[j]
      BY <2>2, WrittenLog
    <3>2. Spelled(code', entries)
      BY DEF Writing, Writes
    <3> QED BY <3>1, <3>2 DEF Spelled
  <2> QED BY <2>1, <2>2
<1> QED BY <1>2, <1>3 DEF LayoutOK, Spelled

LEMMA BoundaryStays ==
  ASSUME NEW tasks, NEW entries, Writing(tasks, entries), NEW w, Boundary(code, log, w)
  PROVE  Boundary(code', log', w) /\ w \in 0..Len(code')
<1>1. /\ Laid(entries, Len(code), Len(code')) /\ CodeOK /\ LayoutOK
      /\ entries \in Seq(Instruction)
  BY DEF Writing, Writes
<1>2. Len(code) \in Nat /\ Len(code') \in Nat /\ Len(code) <= Len(code')
  BY WrittenLog
<1>3. w \in 0..Len(code')
  <2>1. w \in 0..Len(code)
    BY <1>1, BoundaryInCode
  <2> QED BY <1>2, <2>1
<1>4. CASE w = Len(code) /\ entries = <<>>
  BY <1>1, <1>3, <1>4 DEF Laid, Boundary
<1>5. CASE w = Len(code) /\ entries # <<>>
  <2>1. 1 \in DOMAIN entries
    BY <1>1, <1>5
  <2>2. entries[1].at = w
    BY <1>1, <1>5 DEF Laid
  <2>3. Len(log) + 1 \in DOMAIN log' /\ log'[Len(log) + 1] = entries[1]
    BY <2>1, WrittenLog
  <2> QED BY <1>3, <2>2, <2>3 DEF Boundary
<1>6. CASE \E i \in DOMAIN log : log[i].at = w
  <2>1. \E i \in DOMAIN log' : log'[i].at = w
    BY <1>6, WrittenLog
  <2> QED BY <1>3, <2>1 DEF Boundary
<1> QED BY <1>4, <1>5, <1>6 DEF Boundary

LEMMA MainStep ==
  ASSUME NEW tasks, NEW entries, Writing(tasks, entries), MainOK
  PROVE  MainOK'
<1>1. mainLocation' \in {mainLocation, Len(code)}
  BY DEF Writing, Writes
<1>2. Boundary(code, log, mainLocation')
  BY <1>1 DEF MainOK, Boundary
<1> QED BY <1>2, BoundaryStays DEF MainOK

(* A call that stays pending still finds its operand open.                 *)
LEMMA StillOpen ==
  ASSUME NEW tasks, NEW entries, Writing(tasks, entries), NEW l \in DOMAIN stack, l # 1,
         stack[l].do \in PatchTasks
  PROVE  /\ Open(code', stack[l].at)
         /\ \E i \in DOMAIN log' : Pairs(stack[l], log'[i])
         /\ stack[l].at \in Nat /\ stack[l].at < Len(code)
<1>1. CodeOK /\ LayoutOK /\ PatchesOK /\ phase = "generate"
  BY DEF Writing
<1>2. /\ Open(code, stack[l].at) /\ \E i \in DOMAIN log : Pairs(stack[l], log[i])
      /\ \A i \in DOMAIN log : Pairs(stack[l], log[i]) =>
           /\ Width(log[i]) = 3 /\ log[i].at \in Nat /\ log[i].at + 3 <= Len(code)
           /\ stack[l].at = log[i].at + 1
  BY <1>1, PatchedJump
<1>3. PICK i \in DOMAIN log : /\ Pairs(stack[l], log[i]) /\ Width(log[i]) = 3
                              /\ log[i].at \in Nat /\ stack[l].at = log[i].at + 1
                              /\ log[i].at + 3 <= Len(code)
  BY <1>2
<1>4. Len(code) \in Nat
  BY WrittenLog
<1>5. ~ (Top.do \in PatchTasks /\ Pairs(Top, log[i]))
  <2>1. 1 \in DOMAIN stack /\ stack[1] = Top
    BY WrittenStack
  <2>2. Top.do \in PatchTasks => Top.at # stack[l].at
    BY <1>1, <2>1 DEF PatchesOK
  <2>3. Pairs(Top, log[i]) => Top.at = log[i].at + 1
    BY DEF Pairs
  <2> QED BY <1>3, <2>2, <2>3
<1>6. ASSUME NEW o \in {log[i].at + 2, log[i].at + 3}
      PROVE  code'[o] = code[o]
  <2>1. o \in Nat /\ log[i].at < o /\ o <= log[i].at + Width(log[i])
    BY <1>3
  <2> QED BY <1>5, <2>1, Untouched
<1>7. Open(code', stack[l].at)
  <2>1. stack[l].at + 1 = log[i].at + 2 /\ stack[l].at + 2 = log[i].at + 3
    BY <1>3
  <2> QED BY <1>2, <1>6, <2>1 DEF Open
<1>8. \E j \in DOMAIN log' : Pairs(stack[l], log'[j])
  <2>1. i \in DOMAIN log' /\ log'[i] = log[i]
    BY WrittenLog
  <2> QED BY <1>3, <2>1
<1> QED BY <1>3, <1>4, <1>7, <1>8

(* The pending call of a new jump.                                         *)
LEMMA NewlyOpen ==
  ASSUME NEW tasks, NEW entries, Writing(tasks, entries), NEW l \in DOMAIN tasks,
         tasks[l].do \in PatchTasks
  PROVE  /\ Open(code', tasks[l].at) /\ l = Len(tasks)
         /\ \E i \in DOMAIN log' : Pairs(tasks[l], log'[i])
         /\ tasks[l].at = Len(code) + 1
<1>1. /\ l = Len(tasks) /\ entries # <<>> /\ entries \in Seq(Instruction)
      /\ Pairs(tasks[l], entries[1]) /\ Open(code', tasks[l].at)
  BY DEF Writing, Writes
<1>2. entries[1].at = Len(code)
  BY <1>1 DEF Writing, Writes, Laid
<1>3. 1 \in DOMAIN entries
  BY <1>1
<1>4. Len(log) + 1 \in DOMAIN log' /\ log'[Len(log) + 1] = entries[1]
  BY <1>3, WrittenLog
<1>5. tasks[l].at = Len(code) + 1
  BY <1>1, <1>2 DEF Pairs
<1> QED BY <1>1, <1>4, <1>5

LEMMA PatchesStep ==
  ASSUME NEW tasks, NEW entries, Writing(tasks, entries)
  PROVE  PatchesOK'
<1> DEFINE count == Len(tasks)
<1>1. /\ count \in Nat /\ DOMAIN tasks = 1..count /\ DOMAIN stack \subseteq Nat
      /\ PatchesOK /\ phase = "generate" /\ Len(code) \in Nat
      /\ \A k \in DOMAIN stack' :
           \/ k \in DOMAIN tasks /\ stack'[k] = tasks[k]
           \/ \E l \in DOMAIN stack : /\ l # 1 /\ k = l - 1 + count
                                      /\ stack'[k] = stack[l]
  <2>1. stack \in Seq(Tasks)
    BY DEF Writing
  <2>2. DOMAIN stack \subseteq Nat
    BY ONLY <2>1
  <2> QED BY <2>2, WrittenStack, WrittenLog DEF Writing
<1> HIDE DEF count
<1>2. ASSUME NEW k \in DOMAIN stack', stack'[k].do \in PatchTasks
      PROVE  /\ Open(code', stack'[k].at)
             /\ \E i \in DOMAIN log' : Pairs(stack'[k], log'[i])
  <2>1. CASE k \in DOMAIN tasks /\ stack'[k] = tasks[k]
    BY <1>2, <2>1, NewlyOpen
  <2>2. CASE \E l \in DOMAIN stack : l # 1 /\ stack'[k] = stack[l]
    BY <1>2, <2>2, StillOpen
  <2> QED BY <1>1, <2>1, <2>2
<1>3. ASSUME NEW k \in DOMAIN stack', NEW l \in DOMAIN stack',
             stack'[k].do \in PatchTasks, stack'[l].do \in PatchTasks,
             stack'[k].at = stack'[l].at
      PROVE  k = l
  <2>1. CASE /\ k \in DOMAIN tasks /\ stack'[k] = tasks[k]
             /\ l \in DOMAIN tasks /\ stack'[l] = tasks[l]
    BY <1>3, <2>1, NewlyOpen
  <2>2. ASSUME NEW m \in DOMAIN stack, m # 1, stack[m].do \in PatchTasks,
               NEW t \in DOMAIN tasks, tasks[t].do \in PatchTasks,
               stack[m].at = tasks[t].at
        PROVE  FALSE
    <3>1. stack[m].at \in Nat /\ stack[m].at < Len(code)
      BY <2>2, StillOpen
    <3>2. tasks[t].at = Len(code) + 1
      BY <2>2, NewlyOpen
    <3> QED BY <1>1, <2>2, <3>1, <3>2
  <2>3. ASSUME NEW a \in DOMAIN stack, a # 1, k = a - 1 + count, stack'[k] = stack[a],
               NEW b \in DOMAIN stack, b # 1, l = b - 1 + count, stack'[l] = stack[b]
        PROVE  k = l
    <3>1. a = b
      BY <1>1, <1>3, <2>3 DEF PatchesOK
    <3> QED BY <2>3, <3>1
  <2> QED BY <1>1, <1>3, <2>1, <2>2, <2>3
<1> QED BY <1>2, <1>3 DEF PatchesOK

(* A jump that has landed stays where it is.                               *)
LEMMA LandsStays ==
  ASSUME NEW tasks, NEW entries, Writing(tasks, entries), NEW i \in DOMAIN log,
         Lands(code, log, log[i]),
         code'[log[i].at + 2] = code[log[i].at + 2],
         code'[log[i].at + 3] = code[log[i].at + 3]
  PROVE  Lands(code', log', log[i])
<1> DEFINE entry == log[i]
<1>1. \A w : Landed(code, entry, w) => Landed(code', entry, w)
  BY DEF Landed
<1> HIDE DEF entry
<1>2. CASE /\ entry.op = "JUMP_IF_ZERO"
           /\ \E j \in DOMAIN log :
                /\ log[j].op = "JUMP" /\ log[j].n = entry.n /\ entry.at < log[j].at
                /\ Landed(code, entry, log[j].at + 3)
  <2>1. PICK j \in DOMAIN log :
                /\ log[j].op = "JUMP" /\ log[j].n = entry.n /\ entry.at < log[j].at
                /\ Landed(code, entry, log[j].at + 3)
    BY <1>2
  <2>2. j \in DOMAIN log' /\ log'[j] = log[j]
    BY WrittenLog
  <2> QED BY <1>1, <1>2, <2>1, <2>2 DEF Lands, entry
<1>3. CASE /\ entry.op = "JUMP"
           /\ \E w \in 0..Len(code) :
                Boundary(code, log, w) /\ entry.at + 3 <= w /\ Landed(code, entry, w)
  <2>1. PICK w \in 0..Len(code) :
          Boundary(code, log, w) /\ entry.at + 3 <= w /\ Landed(code, entry, w)
    BY <1>3
  <2>2. Boundary(code', log', w) /\ w \in 0..Len(code')
    BY <2>1, BoundaryStays
  <2> QED BY <1>1, <1>3, <2>1, <2>2 DEF Lands, entry
<1>4. CASE /\ entry.op = "CALL"
           /\ \E w \in 0..Len(code) : Boundary(code, log, w) /\ Landed(code, entry, w)
  <2>1. PICK w \in 0..Len(code) : Boundary(code, log, w) /\ Landed(code, entry, w)
    BY <1>4
  <2>2. Boundary(code', log', w) /\ w \in 0..Len(code')
    BY <2>1, BoundaryStays
  <2> QED BY <1>1, <1>4, <2>1, <2>2 DEF Lands, entry
<1> QED BY <1>2, <1>3, <1>4 DEF Lands, entry

LEMMA JumpsStep ==
  ASSUME NEW tasks, NEW entries, Writing(tasks, entries), JumpsOK
  PROVE  JumpsOK'
<1>1. CodeOK /\ LayoutOK /\ phase = "generate"
  BY DEF Writing
<1>2. ASSUME NEW i \in DOMAIN log, log[i].op \in Jumps
      PROVE  \/ Lands(code', log', log[i])
             \/ \E k \in DOMAIN stack' : Pairs(stack'[k], log[i])
  <2>1. Lands(code, log, log[i]) \/ \E k \in DOMAIN stack : Pairs(stack[k], log[i])
    BY <1>1, <1>2 DEF JumpsOK
  <2>2. CASE Top.do \in PatchTasks /\ Pairs(Top, log[i])
    BY <2>2 DEF Writing, Writes
  <2>3. CASE Lands(code, log, log[i]) /\ ~ (Top.do \in PatchTasks /\ Pairs(Top, log[i]))
    <3>1. log[i].at \in Nat /\ Width(log[i]) = 3
      BY <1>1, <1>2, LogTyped
    <3>2. ASSUME NEW o \in {log[i].at + 2, log[i].at + 3}
          PROVE  code'[o] = code[o]
      <4>1. o \in Nat /\ log[i].at < o /\ o <= log[i].at + Width(log[i])
        BY <3>1
      <4> QED BY <2>3, <4>1, Untouched
    <3> QED BY <2>3, <3>2, LandsStays
  <2>4. ASSUME NEW k \in DOMAIN stack, Pairs(stack[k], log[i])
        PROVE  \/ Lands(code', log', log[i])
               \/ \E l \in DOMAIN stack' : Pairs(stack'[l], log[i])
    <3>1. CASE k = 1
      <4>1. Pairs(Top, log[i])
        BY <2>4, <3>1, WrittenStack
      <4>2. Top.do \in PatchTasks
        BY <4>1 DEF Pairs, PatchTasks
      <4> QED BY <2>2, <4>1, <4>2
    <3>2. CASE k # 1
      <4>1. /\ k - 1 + Len(tasks) \in DOMAIN stack'
            /\ stack'[k - 1 + Len(tasks)] = stack[k]
        BY <3>2, WrittenStack
      <4> QED BY <2>4, <4>1
    <3> QED BY <3>1, <3>2
  <2> QED BY <2>1, <2>2, <2>3, <2>4
<1>3. ASSUME NEW j \in DOMAIN entries, entries[j].op \in Jumps
      PROVE  \E k \in DOMAIN stack' : Pairs(stack'[k], entries[j])
  <2>1. PICK k \in DOMAIN tasks : Pairs(tasks[k], entries[j])
    BY <1>3 DEF Writing, Writes
  <2>2. k \in DOMAIN stack' /\ stack'[k] = tasks[k]
    BY WrittenStack
  <2> QED BY <2>1, <2>2
<1>4. ASSUME NEW i \in DOMAIN log', log'[i].op \in Jumps
      PROVE  \/ Lands(code', log', log'[i])
             \/ \E k \in DOMAIN stack' : Pairs(stack'[k], log'[i])
  <2>1. CASE i \in DOMAIN log
    <3>1. log'[i] = log[i]
      BY <2>1, WrittenLog
    <3> QED BY <1>2, <1>4, <2>1, <3>1
  <2>2. CASE i \notin DOMAIN log
    <3>1. PICK j \in DOMAIN entries : log'[i] = entries[j]
      BY <2>2, WrittenLog
    <3> QED BY <1>3, <1>4, <3>1
  <2> QED BY <2>1, <2>2
<1> QED BY <1>4 DEF JumpsOK

LEMMA ConstantsStep ==
  ASSUME NEW tasks, NEW entries, Writing(tasks, entries), ConstantsOK
  PROVE  ConstantsOK'
<1>1. /\ CodeOK /\ LayoutOK /\ CodeOK' /\ ast' = ast /\ Len(consts) <= Len(consts')
      /\ \A k \in DOMAIN consts : consts'[k] = consts[k]
  BY DEF Writing, Writes
<1>2. Len(consts) \in Nat /\ Len(consts') \in Nat /\ DOMAIN consts = 1..Len(consts)
  BY <1>1 DEF CodeOK
<1>3. ASSUME NEW i \in DOMAIN log, log[i].op = "CONSTANT"
      PROVE  Loads(code', consts', log[i])
  <2> DEFINE entry == log[i]
  <2>1. entry.at \in Nat /\ Width(entry) = 2
    BY <1>1, <1>3, LogTyped
  <2>2. ~ Pairs(Top, entry)
    BY <1>3 DEF Pairs
  <2>3. code'[entry.at + 2] = code[entry.at + 2]
    <3>1. entry.at + 2 \in Nat /\ entry.at < entry.at + 2
          /\ entry.at + 2 <= entry.at + Width(entry)
      BY <2>1
    <3> QED BY <2>2, <3>1, Untouched
  <2>4. Loads(code, consts, entry)
    BY <1>3 DEF ConstantsOK
  <2> HIDE DEF entry
  <2>5. PICK k \in 1..Len(consts) : /\ code[entry.at + 2] = uint8(k - 1)
                                    /\ ast[entry.n].op = "INT" => consts[k] = ast[entry.n].val
    BY <2>4 DEF Loads
  <2>6. k \in 1..Len(consts') /\ consts'[k] = consts[k]
    BY <1>1, <1>2
  <2>7. Loads(code', consts', entry)
    BY <2>3, <2>5, <2>6 DEF Loads
  <2> QED BY <2>7 DEF entry
<1>4. ASSUME NEW i \in DOMAIN log', log'[i].op = "CONSTANT"
      PROVE  Loads(code', consts', log'[i])
  <2>1. CASE i \in DOMAIN log
    <3>1. log'[i] = log[i]
      BY <2>1, WrittenLog
    <3> QED BY <1>3, <1>4, <2>1, <3>1
  <2>2. CASE i \notin DOMAIN log
    <3>1. PICK j \in DOMAIN entries : log'[i] = entries[j]
      BY <2>2, WrittenLog
    <3> QED BY <1>4, <3>1 DEF Writing, Writes
  <2> QED BY <2>1, <2>2
<1> QED BY <1>1, <1>4 DEF ConstantsOK, Loads

-----------------------------------------------------------------------------
(* The invariant.                                                          *)

LEMMA CodeInit == Init => CodeInv
<1> SUFFICES ASSUME Init PROVE CodeInv
  OBVIOUS
<1>1. /\ code = <<>> /\ log = <<>> /\ consts = <<>> /\ mainLocation = 0 /\ phase = "parse"
      /\ DOMAIN log = {} /\ Len(code) = 0
  BY DEF Init
<1>2. Laid(<<>>, 0, 0)
  BY LaidNone
<1>3. LayoutOK
  BY <1>1, <1>2 DEF LayoutOK, Spelled
<1>4. MainOK /\ PatchesOK /\ JumpsOK /\ ConstantsOK
  BY <1>1 DEF MainOK, Boundary, PatchesOK, JumpsOK, ConstantsOK
<1>5. UnstartedOK /\ DisassemblyAligned
  BY <1>1 DEF UnstartedOK, DisassemblyAligned
<1> QED BY <1>3, <1>4, <1>5 DEF CodeInv

(* The entry call and the patch that waits for it.                         *)
LEMMA BeginCodegenCode == StateInv /\ CodeInv /\ BeginCodegen => CodeInv'
<1> SUFFICES ASSUME StateInv, CodeInv, BeginCodegen PROVE CodeInv'
  OBVIOUS
<1> DEFINE entry == Logged(0, "CALL", 1)
           first == ForEach("genStmt", ast[1].kids, 1)
           last == TaskAt("patchEntry", 1, 0, 1)
<1>1. /\ code' = <<Opcode["CALL"], Unpatched, Unpatched>> /\ consts' = <<>>
      /\ mainLocation' = 0 /\ log' = <<entry>> /\ phase' = "generate"
      /\ stack' = first \o <<last>>
  BY DEF BeginCodegen, beginCode, Opcode
<1>2. code = <<>> /\ log = <<>> /\ CodeOK /\ Len(code) = 0 /\ code \in Seq(Byte)
  BY DEF CodeInv, UnstartedOK, BeginCodegen, StateInv
<1>3. "CALL" \in DOMAIN Opcode /\ "CALL" \in Jumps /\ "CALL" # "CONSTANT"
  BY DEF Opcode, Jumps
<1>4. Opened(code, "CALL", code')
  <2> DEFINE jump == <<Opcode["CALL"], Unpatched, Unpatched>>
  <2>1. jump \in Seq(Byte)
    BY <1>3, OpcodeByte, OpenBytes
  <2> HIDE DEF jump
  <2>2. code' = code \o jump
    BY <1>1, <1>2, <2>1 DEF jump
  <2> QED BY <1>2, <1>3, <2>2, JumpOpened DEF jump
<1>5. /\ Len(code') = 3 /\ code'[1] = Opcode["CALL"]
      /\ code'[2] = Unpatched /\ code'[3] = Unpatched
  BY <1>2, <1>4 DEF Opened
<1>6. entry \in Instruction /\ Width(entry) = 3 /\ entry.at = 0 /\ entry.op = "CALL" /\ entry.n = 1
  <2>1. 0 \in Nat /\ 1 \in Nat
    OBVIOUS
  <2>2. entry \in Instruction /\ Width(entry) = 3
    BY <1>3, <2>1, PlainWidths
  <2> QED BY <2>2 DEF Logged
<1>7. last.do = "patchEntry" /\ last.at = 1 /\ last.n = 1 /\ last \in Tasks
  BY DEF TaskAt, Tasks, CodegenTasks
<1>8. Idle(first)
  <2>1. ast[1].kids \in Seq(Nat)
    <3>1. WellFormed(ast)
      BY TreeWellFormed DEF StateInv
    <3>2. ASSUME NEW n \in DOMAIN ast
          PROVE  ast[n].kids \in Seq(Nat)
      BY <3>1, TreeNodes DEF Node
    <3>3. 1 \in DOMAIN ast
      BY <3>1, TreeNodes DEF WellFormed
    <3> QED BY <3>2, <3>3
  <2>2. "genStmt" \in CodegenTasks \ PatchTasks /\ 1 \in Nat
    BY DEF CodegenTasks, PatchTasks
  <2> QED BY <2>1, <2>2, IdleForEach
<1> HIDE DEF entry, first, last
<1>9. LayoutOK'
  <2>1. Laid(<<entry>>, 0, 3)
    <3>1. entry.at + Width(entry) = 3 /\ 3 \in Nat
      BY <1>6
    <3> QED BY <1>6, <3>1, LaidOne
  <2>2. Spelled(code', log')
    BY <1>1, <1>5, <1>6 DEF Spelled
  <2> QED BY <1>1, <1>5, <2>1, <2>2 DEF LayoutOK
<1>10. DOMAIN log' = {1} /\ log'[1] = entry
  BY <1>1
<1>11. MainOK'
  BY <1>1, <1>6, <1>10 DEF MainOK, Boundary
<1>12. /\ Len(first) \in Nat /\ Len(first) + 1 \in DOMAIN stack'
       /\ stack'[Len(first) + 1] = last
       /\ \A k \in DOMAIN stack' : k # Len(first) + 1 => stack'[k].do \notin PatchTasks
  <2>1. first \in Seq(Tasks)
    BY <1>8 DEF Idle
  <2>2. /\ Len(first) \in Nat /\ stack'[Len(first) + 1] = last
        /\ DOMAIN stack' = 1..(Len(first) + 1) /\ DOMAIN first = 1..Len(first)
        /\ \A k \in 1..Len(first) : stack'[k] = first[k]
    <3>1. stack' = first \o <<last>> /\ first \in Seq(Tasks) /\ last \in Tasks
      BY <1>1, <1>7, <2>1
    <3> QED BY ONLY <3>1
  <2>3. ASSUME NEW k \in DOMAIN stack', k # Len(first) + 1
        PROVE  stack'[k].do \notin PatchTasks
    <3>1. k \in 1..Len(first)
      BY <2>2, <2>3
    <3> QED BY <1>8, <2>2, <3>1 DEF Idle
  <2> QED BY <2>2, <2>3
<1>13. Pairs(last, entry)
  BY <1>6, <1>7 DEF Pairs
<1>14. PatchesOK'
  <2>1. Open(code', last.at)
    BY <1>5, <1>7 DEF Open
  <2> QED BY <1>10, <1>12, <1>13, <2>1 DEF PatchesOK
<1>15. JumpsOK'
  BY <1>10, <1>12, <1>13 DEF JumpsOK
<1>16. ConstantsOK'
  BY <1>3, <1>6, <1>10 DEF ConstantsOK
<1>17. UnstartedOK' /\ DisassemblyAligned'
  BY <1>1 DEF UnstartedOK, DisassemblyAligned
<1> QED BY <1>9, <1>11, <1>14, <1>15, <1>16, <1>17 DEF CodeInv

LEMMA GenerateWrites ==
  ASSUME StateInv, CodeInv, Generate
  PROVE  Crashes \/ \E tasks, entries : Writing(tasks, entries)
<1>1. WellFormed(ast) /\ PassOK /\ CodeOK /\ CodegenStep /\ phase = "generate" /\ ast' = ast
  BY TreeWellFormed DEF StateInv, PassOK, Generate, CodegenStep
<1>2. CodeOK' /\ LayoutOK /\ MainOK /\ PatchesOK
  BY GenerateKeeps DEF StateInv, CodeInv
<1>3. stack \in Seq(Tasks) /\ stack # <<>>
  <2>1. stack # <<>>
    BY <1>1 DEF CodegenStep, genStmt, genFunc, genVar, genExprStmt, popUnused, emitReturn,
                endScope, genExpression, genLiteral, genIdent, genBinop, operator, genBlock,
                genIf, elseJump, outJump, patchOut, genExit, genDefault, patchEntry,
                Gen, RunningOn, Running
  <2> QED BY <1>1, <2>1 DEF PassOK, StackOK
<1>4. ASSUME NEW tasks, NEW entries, Writes(tasks, entries)
      PROVE  Writing(tasks, entries)
  BY <1>1, <1>2, <1>3, <1>4 DEF Writing
<1> QED BY <1>1, <1>2, <1>4, CodegenWrites

LEMMA GenerateCode == StateInv /\ CodeInv /\ Generate => CodeInv'
<1> SUFFICES ASSUME StateInv, CodeInv, Generate PROVE CodeInv'
  OBVIOUS
<1>1. LayoutOK /\ MainOK /\ PatchesOK /\ JumpsOK /\ ConstantsOK /\ ast' = ast
  BY DEF CodeInv, Generate, CodegenStep
<1>2. CASE Crashes
  <2>1. /\ phase' = "crashed" /\ code' = code /\ log' = log /\ consts' = consts
        /\ mainLocation' = mainLocation
    BY <1>2 DEF Crashes
  <2>2. LayoutOK' /\ MainOK'
    BY <1>1, <2>1 DEF LayoutOK, MainOK
  <2>3. PatchesOK' /\ JumpsOK' /\ UnstartedOK' /\ DisassemblyAligned'
    BY <2>1 DEF PatchesOK, JumpsOK, UnstartedOK, DisassemblyAligned
  <2>4. ConstantsOK'
    BY <1>1, <2>1 DEF ConstantsOK, Loads
  <2> QED BY <2>2, <2>3, <2>4 DEF CodeInv
<1>3. ASSUME NEW tasks, NEW entries, Writing(tasks, entries)
      PROVE  CodeInv'
  <2>1. LayoutOK' /\ MainOK' /\ PatchesOK' /\ JumpsOK' /\ ConstantsOK'
    BY <1>1, <1>3, LayoutStep, MainStep, PatchesStep, JumpsStep, ConstantsStep
  <2>2. phase' = "generate"
    BY <1>3 DEF Writing, Writes
  <2> QED BY <2>1, <2>2 DEF CodeInv, UnstartedOK, DisassemblyAligned
<1> QED BY <1>2, <1>3, GenerateWrites

(* The steps that do not write.                                            *)
LEMMA QuietCode ==
  ASSUME CodeInv, UNCHANGED <<ast, code, log, consts, mainLocation>>,
         \/ log = <<>> /\ phase' # "generate"
         \/ /\ stack' = stack
            /\ phase' = "crashed" <=> phase = "crashed"
            /\ phase' = "generate" => phase = "generate"
  PROVE  LayoutOK' /\ MainOK' /\ PatchesOK' /\ JumpsOK' /\ ConstantsOK'
<1>1. LayoutOK /\ MainOK /\ PatchesOK /\ JumpsOK /\ ConstantsOK
  BY DEF CodeInv
<1>2. code' = code /\ log' = log /\ consts' = consts /\ mainLocation' = mainLocation /\ ast' = ast
  OBVIOUS
<1>3. LayoutOK' /\ MainOK' /\ ConstantsOK'
  BY <1>1, <1>2 DEF LayoutOK, MainOK, ConstantsOK, Loads
<1>4. CASE log = <<>> /\ phase' # "generate"
  <2>1. DOMAIN log' = {}
    BY <1>2, <1>4
  <2>2. PatchesOK' /\ JumpsOK'
    BY <1>4, <2>1 DEF PatchesOK, JumpsOK
  <2> QED BY <1>3, <2>2
<1>5. CASE /\ stack' = stack
           /\ phase' = "crashed" <=> phase = "crashed"
           /\ phase' = "generate" => phase = "generate"
  <2>1. PatchesOK' /\ JumpsOK'
    BY <1>1, <1>2, <1>5 DEF PatchesOK, JumpsOK
  <2> QED BY <1>3, <2>1
<1> QED BY <1>4, <1>5

LEMMA AnalysisCode ==
  ASSUME StateInv, CodeInv, BeginAnalysis \/ Analyse
  PROVE  CodeInv'
<1>1. UNCHANGED <<ast, code, log, consts, mainLocation>> /\ phase \in {"parsed", "analyse"}
  BY DEF BeginAnalysis, Analyse, AnalysisStep, codegenVars, chunk
<1>2. phase' \in {"analyse", "crashed"}
  <2>1. CASE BeginAnalysis
    BY <2>1 DEF BeginAnalysis
  <2>2. CASE Analyse
    <3>1. WellFormed(ast) /\ PassOK /\ AnalysisStep /\ phase = "analyse"
      BY <2>2, TreeWellFormed DEF StateInv, PassOK, Analyse
    <3>2. GoesOn
      BY <3>1, AnalysisStepKeeps
    <3> QED BY <3>1, <3>2 DEF GoesOn
  <2> QED BY <2>1, <2>2
<1>3. code = <<>> /\ log = <<>> /\ consts = <<>> /\ mainLocation = 0
  BY <1>1 DEF CodeInv, UnstartedOK
<1>4. LayoutOK' /\ MainOK' /\ PatchesOK' /\ JumpsOK' /\ ConstantsOK'
  BY <1>1, <1>2, <1>3, QuietCode
<1>5. UnstartedOK' /\ DisassemblyAligned'
  BY <1>1, <1>2, <1>3 DEF UnstartedOK, DisassemblyAligned
<1> QED BY <1>4, <1>5 DEF CodeInv

(* The disassembler goes from instruction to instruction.                  *)
LEMMA FirstInstruction ==
  ASSUME CodeOK, LayoutOK
  PROVE  0 \in {log[i].at : i \in DOMAIN log} \cup {Len(code)}
<1>1. CASE log = <<>>
  BY <1>1 DEF LayoutOK, Laid
<1>2. CASE log # <<>>
  <2>1. log[1].at = 0
    BY <1>2 DEF LayoutOK, Laid
  <2>2. 1 \in DOMAIN log
    <3>1. log \in Seq(Instruction)
      BY DEF CodeOK
    <3> QED BY ONLY <1>2, <3>1
  <2> QED BY <2>1, <2>2
<1> QED BY <1>1, <1>2

LEMMA NextInstruction ==
  ASSUME CodeOK, LayoutOK, NEW i \in DOMAIN log
  PROVE  log[i].at + InstructionWidth(code[log[i].at + 1])
           \in {log[j].at : j \in DOMAIN log} \cup {Len(code)}
<1>1. code[log[i].at + 1] = Opcode[log[i].op]
  BY DEF LayoutOK, Spelled
<1>2. log[i].at + InstructionWidth(code[log[i].at + 1]) = log[i].at + Width(log[i])
  BY <1>1 DEF Width
<1>3. /\ i = Len(log) => log[i].at + Width(log[i]) = Len(code)
      /\ i # Len(log) => log[i].at + Width(log[i]) = log[i + 1].at
  BY DEF LayoutOK, Laid
<1>4. i # Len(log) => i + 1 \in DOMAIN log
  <2>1. log \in Seq(Instruction)
    BY DEF CodeOK
  <2> QED BY ONLY <2>1, i \in DOMAIN log
<1> QED BY <1>2, <1>3, <1>4

LEMMA DriverCode ==
  ASSUME StateInv, CodeInv,
         \/ Parse \/ RejectSyntax \/ RejectSemantics \/ DestroyArena \/ PrintAndReturn
         \/ buildMain \/ Finished \/ UNCHANGED vars
  PROVE  CodeInv'
<1> USE DEF Reject, buildMain, codegenVars, chunk, driverVars
<1>1. UNCHANGED <<ast, code, log, consts, mainLocation, stack>>
  BY DEF Parse, RejectSyntax, RejectSemantics, DestroyArena, PrintAndReturn, ExitWithError,
         BeginDisassembly, disassembleInstruction, EndDisassembly, Finished, vars
<1>2. /\ phase' = "crashed" <=> phase = "crashed"
      /\ phase' = "generate" => phase = "generate"
      /\ phase' \in {"parse", "parsed", "analyse"} => phase \in {"parse", "parsed", "analyse"}
  BY DEF Parse, RejectSyntax, RejectSemantics, DestroyArena, PrintAndReturn, ExitWithError,
         BeginDisassembly, disassembleInstruction, EndDisassembly, Finished, vars
<1>3. LayoutOK' /\ MainOK' /\ PatchesOK' /\ JumpsOK' /\ ConstantsOK'
  BY <1>1, <1>2, QuietCode
<1>4. UnstartedOK'
  BY <1>1, <1>2 DEF CodeInv, UnstartedOK
<1>5. CodeOK /\ LayoutOK /\ DisassemblyAligned
  BY DEF StateInv, CodeInv
<1>6. DisassemblyAligned'
  <2> DEFINE starts == {log[i].at : i \in DOMAIN log} \cup {Len(code)}
  <2>1. CASE disassembleInstruction
    <3>1. /\ phase = "disassemble" /\ cursor < Len(code)
          /\ cursor' = cursor + InstructionWidth(code[cursor + 1])
      BY <2>1 DEF disassembleInstruction
    <3>2. PICK i \in DOMAIN log : log[i].at = cursor
      <4>1. Len(code) \in Nat /\ cursor \in starts
        BY <1>5, <3>1 DEF DisassemblyAligned, CodeOK, Code
      <4> QED BY <3>1, <4>1
    <3>3. cursor' \in starts
      BY <1>5, <3>1, <3>2, NextInstruction
    <3> QED BY <1>1, <3>3 DEF DisassemblyAligned
  <2>2. CASE BeginDisassembly
    <3>1. cursor' = 0
      BY <2>2 DEF BeginDisassembly
    <3>2. cursor' \in starts
      BY <1>5, <3>1, FirstInstruction
    <3> QED BY <1>1, <3>2 DEF DisassemblyAligned
  <2>3. CASE ~ disassembleInstruction /\ ~ BeginDisassembly
    <3>1. phase' = "disassemble" => phase = "disassemble" /\ cursor' = cursor
      BY <2>3 DEF Parse, RejectSyntax, RejectSemantics, DestroyArena, PrintAndReturn,
                  ExitWithError, EndDisassembly, Finished, vars
    <3> QED BY <1>1, <1>5, <3>1 DEF DisassemblyAligned
  <2> QED BY <2>1, <2>2, <2>3
<1> QED BY <1>3, <1>4, <1>6 DEF CodeInv

LEMMA CodeStep == StateInv /\ CodeInv /\ [Next]_vars => CodeInv'
BY BeginCodegenCode, GenerateCode, AnalysisCode, DriverCode DEF Next, compile

(* The instructions lie end to end, every open operand has a pending patch *)
(* and every closed one a target, from the first byte to the last.         *)
THEOREM CodeCorrect == Spec => []CodeInv
<1>1. StateInv /\ CodeInv /\ StateInv' /\ [Next]_vars => CodeInv'
  BY CodeStep
<1> QED BY PassesFitTogether, CodeInit, <1>1, PTL DEF Spec

(* The disassembler never stands inside an instruction nor reads past the  *)
(* chunk: its widths are the generator's.                                  *)
THEOREM DisassemblyStaysAligned == Spec => []DisassemblyAligned
<1>1. CodeInv => DisassemblyAligned
  BY DEF CodeInv
<1> QED BY CodeCorrect, <1>1, PTL

-----------------------------------------------------------------------------
(* What the invariant says of the chunk.                                   *)

(* The code only grows, and a byte of it changes only where it is open.    *)
Respected ==
  /\ Len(code') >= Len(code)
  /\ \A o \in DOMAIN code : code'[o] # code[o] => OpenOperand(o)

LEMMA WritingRespects ==
  ASSUME NEW tasks, NEW entries, Writing(tasks, entries)
  PROVE  Respected
<1>1. Len(code) \in Nat /\ Len(code') \in Nat /\ Len(code) <= Len(code')
  BY WrittenLog
<1>2. ASSUME NEW o \in DOMAIN code, code'[o] # code[o]
      PROVE  OpenOperand(o)
  <2>1. o \in Patched
    BY <1>2 DEF Writing, Writes
  <2>2. Top.do \in PatchTasks /\ (o = Top.at + 1 \/ o = Top.at + 2)
    BY <2>1 DEF Patched
  <2>3. 1 \in DOMAIN stack /\ stack[1] = Top
    BY WrittenStack
  <2>4. /\ \E i \in DOMAIN log : Pairs(stack[1], log[i])
        /\ Open(code, stack[1].at)
        /\ \A i \in DOMAIN log : Pairs(stack[1], log[i]) =>
             log[i].op \in Jumps /\ log[i].at \in Nat /\ stack[1].at = log[i].at + 1
    BY <2>2, <2>3, PatchedJump DEF Writing
  <2>5. PICK i \in DOMAIN log : /\ log[i].op \in Jumps /\ log[i].at \in Nat
                                /\ Top.at = log[i].at + 1
    BY <2>3, <2>4
  <2>6. o \in {log[i].at + 2, log[i].at + 3}
    BY <2>2, <2>5
  <2>7. code[o] = Unpatched
    BY <2>2, <2>3, <2>4 DEF Open
  <2> QED BY <2>5, <2>6, <2>7 DEF OpenOperand
<1> QED BY <1>1, <1>2 DEF Respected

(* No byte is changed by a step that leaves the code alone.                *)
LEMMA UntouchedRespects ==
  ASSUME CodeOK, code' = code
  PROVE  Respected
<1>1. Len(code) \in Nat
  BY DEF CodeOK, Code
<1> QED BY <1>1 DEF Respected

LEMMA StepRespects == StateInv /\ CodeInv /\ [Next]_vars => Respected
<1> SUFFICES ASSUME StateInv, CodeInv, [Next]_vars PROVE Respected
  OBVIOUS
<1>1. CodeOK
  BY DEF StateInv
<1>2. CASE Generate
  <2>1. CASE Crashes
    <3>1. code' = code
      BY <2>1 DEF Crashes
    <3> QED BY <1>1, <3>1, UntouchedRespects
  <2> QED BY <1>2, <2>1, GenerateWrites, WritingRespects
<1>3. CASE BeginCodegen
  <2>1. Len(code) = 0 /\ DOMAIN code = {}
    BY <1>3 DEF CodeInv, UnstartedOK, BeginCodegen
  <2>2. Len(code') \in Nat
    <3>1. CodeOK'
      BY <1>3, BeginCodegenKeeps DEF StateInv
    <3> QED BY <3>1 DEF CodeOK, Code
  <2> QED BY <2>1, <2>2 DEF Respected
<1>4. CASE ~ Generate /\ ~ BeginCodegen
  <2>1. code' = code
    BY <1>4 DEF Next, compile, vars, Parse, RejectSyntax, RejectSemantics, Reject, DestroyArena,
                PrintAndReturn, ExitWithError, BeginAnalysis, Analyse, AnalysisStep, codegenVars,
                chunk, buildMain, BeginDisassembly, disassembleInstruction, EndDisassembly,
                Finished
  <2> QED BY <1>1, <2>1, UntouchedRespects
<1> QED BY <1>2, <1>3, <1>4

(* patchJump writes over the open operand of a jump and over nothing else, *)
(* and no byte the generator emitted is ever taken back.                   *)
THEOREM PatchesOnlyOperands == Spec => PatchOnlyOperands
<1>1. StateInv /\ CodeInv /\ [Next]_vars =>
        [/\ Len(code') >= Len(code)
         /\ \A o \in DOMAIN code : code'[o] # code[o] => OpenOperand(o)]_vars
  BY StepRespects DEF Respected
<1> QED BY PassesFitTogether, CodeCorrect, <1>1, PTL DEF Spec, PatchOnlyOperands

(* An index below 2^w is what addConstant's narrowing leaves of it.        *)
LEMMA ConstantsRead == CodeOK /\ ConstantsOK => ConstantsFaithful
<1> SUFFICES ASSUME CodeOK, ConstantsOK, Len(consts) <= ByteSize,
                    NEW i \in DOMAIN log, log[i].op = "CONSTANT", ast[log[i].n].op = "INT"
             PROVE  LET index == code[log[i].at + 2]
                    IN  index < Len(consts) /\ consts[index + 1] = ast[log[i].n].val
  BY DEF ConstantsFaithful
<1>1. PICK k \in 1..Len(consts) : /\ code[log[i].at + 2] = uint8(k - 1)
                                  /\ consts[k] = ast[log[i].n].val
  BY DEF ConstantsOK, Loads
<1>2. Len(consts) \in Nat
  BY DEF CodeOK
<1>3. k - 1 \in 0..(ByteSize - 1) /\ ByteSize \in Nat
  BY <1>2, ByteSizeAssumption
<1>4. uint8(k - 1) = k - 1
  BY <1>3 DEF uint8
<1> QED BY <1>1, <1>2, <1>4

(* The byte behind OP_CONSTANT numbers the entry of the pool that holds    *)
(* the value of the int literal it was emitted for.                        *)
THEOREM LiteralsLoadTheirValue == Spec => []ConstantsFaithful
<1>1. StateInv /\ CodeInv => ConstantsFaithful
  BY ConstantsRead DEF StateInv, CodeInv
<1> QED BY PassesFitTogether, CodeCorrect, <1>1, PTL

(* Two bytes hold every distance below 2^2w.                               *)
LEMMA TwoBytes ==
  ASSUME NEW d \in Nat, d < ByteSize * ByteSize
  PROVE  uint8(d \div ByteSize) * ByteSize + uint8(d) = d
<1> DEFINE q == d \div ByteSize
           r == d % ByteSize
<1>1. ByteSize \in Nat /\ ByteSize > 0
  BY ByteSizeAssumption
<1>2. d = ByteSize * q + r /\ q \in Nat /\ r \in 0..(ByteSize - 1)
  BY <1>1
<1>3. q < ByteSize
  <2>1. CASE q >= ByteSize
    <3> HIDE DEF q, r
    <3>1. ByteSize * q >= ByteSize * ByteSize
      BY <1>1, <1>2, <2>1
    <3> QED BY <1>1, <1>2, <3>1
  <2> HIDE DEF q
  <2> QED BY <1>1, <1>2, <2>1
<1>4. uint8(q) = q
  <2> HIDE DEF q
  <2> QED BY <1>1, <1>2, <1>3 DEF uint8
<1>5. uint8(d) = r
  BY DEF uint8
<1> HIDE DEF q, r
<1>6. q * ByteSize + r = d
  BY <1>1, <1>2
<1> QED BY <1>4, <1>5, <1>6 DEF q

(* A jump whose operand was patched for a place ahead leads there.         *)
LEMMA LandedTarget ==
  ASSUME CodeOK, ShortEnough, NEW i \in DOMAIN log, NEW w \in Nat,
         log[i].at \in Nat, log[i].at + 3 <= w, w <= Len(code), Landed(code, log[i], w)
  PROVE  Target(i) = w
<1> DEFINE d == w - log[i].at - 3
<1>1. Len(code) \in Nat /\ ByteSize * ByteSize \in Nat
  <2>1. ByteSize \in Nat
    BY ByteSizeAssumption
  <2> QED BY <2>1 DEF CodeOK, Code
<1>2. d \in Nat /\ d < ByteSize * ByteSize
  BY <1>1 DEF ShortEnough
<1>3. /\ code[log[i].at + 2] = uint8(d \div ByteSize)
      /\ code[log[i].at + 3] = uint8(d)
  BY DEF Landed
<1> HIDE DEF d
<1>4. uint8(d \div ByteSize) * ByteSize + uint8(d) = d
  BY <1>2, TwoBytes
<1>5. uint8(d \div ByteSize) * ByteSize \in Int /\ uint8(d) \in Int
  BY <1>2, ByteSizeAssumption DEF uint8
<1>6. Target(i) = log[i].at + 3 + d
  BY <1>3, <1>4, <1>5 DEF Target
<1> QED BY <1>6 DEF d

(* Where the instruction behind another begins.                            *)
LEMMA BehindInstruction ==
  ASSUME CodeOK, LayoutOK, NEW j \in DOMAIN log
  PROVE  Boundary(code, log, log[j].at + Width(log[j]))
<1>1. code[log[j].at + 1] = Opcode[log[j].op]
  BY DEF LayoutOK, Spelled
<1>2. log[j].at + Width(log[j])
        \in {log[k].at : k \in DOMAIN log} \cup {Len(code)}
  BY <1>1, NextInstruction DEF Width
<1> QED BY <1>2 DEF Boundary

(* When the generator is through, every jump has landed.                   *)
LEMMA GeneratedLands ==
  ASSUME StateInv, CodeInv, Generated, NEW i \in DOMAIN log, log[i].op \in Jumps
  PROVE  Lands(code, log, log[i])
<1>1. phase # "crashed" /\ stack = <<>>
  BY DEF Generated, StateInv, PhaseOK
<1>2. DOMAIN stack = {}
  BY <1>1
<1> QED BY <1>1, <1>2 DEF CodeInv, JumpsOK

LEMMA ConditionsReach == StateInv /\ CodeInv => ConditionsLand
<1> SUFFICES ASSUME StateInv, CodeInv, Generated, ShortEnough,
                    NEW i \in DOMAIN log, log[i].op = "JUMP_IF_ZERO"
             PROVE  \E j \in DOMAIN log : /\ log[j].op = "JUMP" /\ log[j].n = log[i].n
                                          /\ Target(i) = log[j].at + 3
  BY DEF ConditionsLand
<1>1. CodeOK /\ LayoutOK
  BY DEF StateInv, CodeInv
<1>2. log[i].op \in Jumps /\ log[i].op # "JUMP" /\ log[i].op # "CALL"
  BY DEF Jumps
<1>3. PICK j \in DOMAIN log :
        /\ log[j].op = "JUMP" /\ log[j].n = log[i].n /\ log[i].at < log[j].at
        /\ Landed(code, log[i], log[j].at + 3)
  BY <1>2, GeneratedLands DEF Lands
<1>4. /\ log[i].at \in Nat /\ Width(log[i]) = 3 /\ log[j].at \in Nat /\ Width(log[j]) = 3
      /\ log[j].at + 3 <= Len(code)
  <2>1. log[i] \in Instruction /\ log[j] \in Instruction
    BY <1>1, LogTyped
  <2>2. log[j].op \in Jumps
    BY <1>3 DEF Jumps
  <2>3. log[j].at + Width(log[j]) <= Len(code)
    BY <1>1 DEF LayoutOK, Laid
  <2> QED BY <1>2, <2>1, <2>2, <2>3, Widths
<1>5. log[i].at + 3 <= log[j].at
  BY <1>1, <1>3, <1>4, InstructionsApart
<1>6. Target(i) = log[j].at + 3
  <2> DEFINE w == log[j].at + 3
  <2>1. w \in Nat /\ log[i].at + 3 <= w /\ w <= Len(code)
    BY <1>4, <1>5
  <2>2. Landed(code, log[i], w)
    BY <1>3
  <2> HIDE DEF w
  <2>3. Target(i) = w
    BY <1>1, <1>4, <2>1, <2>2, LandedTarget
  <2> QED BY <2>3 DEF w
<1> QED BY <1>3, <1>6

(* A false condition lands just behind the jump that ends the true branch  *)
(* of the same if, and nowhere else, as long as two bytes can say how far. *)
THEOREM FalseConditionsSkipTheBranch == Spec => []ConditionsLand
<1>1. StateInv /\ CodeInv => ConditionsLand
  BY ConditionsReach
<1> QED BY PassesFitTogether, CodeCorrect, <1>1, PTL

LEMMA JumpsReach == StateInv /\ CodeInv => JumpsHitInstructions
<1> SUFFICES ASSUME StateInv, CodeInv, Generated, ShortEnough,
                    NEW i \in DOMAIN log, log[i].op \in {"JUMP", "JUMP_IF_ZERO"}
             PROVE  Boundary(code, log, Target(i))
  BY DEF JumpsHitInstructions
<1>1. CodeOK /\ LayoutOK
  BY DEF StateInv, CodeInv
<1>2. CASE log[i].op = "JUMP"
  <2>1. log[i].op \in Jumps /\ log[i].op # "JUMP_IF_ZERO" /\ log[i].op # "CALL"
    BY <1>2 DEF Jumps
  <2>2. PICK w \in 0..Len(code) :
          Boundary(code, log, w) /\ log[i].at + 3 <= w /\ Landed(code, log[i], w)
    BY <2>1, GeneratedLands DEF Lands
  <2>3. log[i].at \in Nat
    BY <1>1, LogTyped, Widths
  <2>4. w \in Nat /\ w <= Len(code)
    BY <1>1, <2>2 DEF CodeOK, Code
  <2>5. Target(i) = w
    BY <1>1, <2>2, <2>3, <2>4, LandedTarget
  <2> QED BY <2>2, <2>5
<1>3. CASE log[i].op = "JUMP_IF_ZERO"
  <2>1. PICK j \in DOMAIN log : log[j].op = "JUMP" /\ Target(i) = log[j].at + 3
    BY <1>3, ConditionsReach DEF ConditionsLand
  <2>2. Width(log[j]) = 3
    BY <1>1, <2>1, LogTyped, Widths DEF Jumps
  <2>3. Boundary(code, log, log[j].at + Width(log[j]))
    BY <1>1, BehindInstruction
  <2> QED BY <2>1, <2>2, <2>3
<1> QED BY <1>2, <1>3

(* Every jump of a compiled program leads to the first byte of an          *)
(* instruction or to the end of the chunk.                                 *)
THEOREM JumpsLeadToInstructions == Spec => []JumpsHitInstructions
<1>1. StateInv /\ CodeInv => JumpsHitInstructions
  BY JumpsReach
<1> QED BY PassesFitTogether, CodeCorrect, <1>1, PTL

=============================================================================
