---------------------------------- MODULE Vm ----------------------------------
(***************************************************************************)
(* The virtual machine (vm/vm.c): evaluate() decodes the bytes of a chunk  *)
(* and works on a stack of STACK_MAX values.                               *)
(*                                                                         *)
(* Nothing is checked at run time.  What leaves the stack, the chunk, the  *)
(* constants or the range of an int is undefined, and the machine of this  *)
(* module stops there.                                                     *)
(***************************************************************************)
EXTENDS Codegen

CONSTANTS
  StackMax,   \* STACK_MAX
  MaxInt      \* the largest value of an int

ASSUME VmAssumption == StackMax \in Nat \ {0} /\ MaxInt \in Nat

VARIABLES
  ip,       \* the offset vm.ip points to
  slots,    \* vm.stack, numbered from 0
  sp,       \* the slot vm.stackTop points to
  result,   \* what evaluate returned, or "idle", "running", "undefined"
  output    \* what printValue printed

vmVars == <<ip, slots, sp, result, output>>

Ints == (-MaxInt - 1)..MaxInt

(* Before main: a static object, so the stack holds zeroes.                *)
Loaded ==
  /\ ip = 0
  /\ slots = [i \in 0..(StackMax - 1) |-> 0]
  /\ sp = 0
  /\ result = "idle"
  /\ output = <<>>

(* initVM and the head of evaluate, on the part of the chunk from an       *)
(* offset on.                                                              *)
start(offset) ==
  /\ result = "idle"
  /\ sp' = 0
  /\ ip' = offset
  /\ result' = "running"
  /\ UNCHANGED <<slots, output>>

-----------------------------------------------------------------------------
Decoded(op) ==
  result = "running" /\ ip < Len(code) /\ code[ip + 1] = Opcode[op]

Undefined == result' = "undefined" /\ UNCHANGED <<ip, slots, sp, output>>

(* The byte behind the opcode.                                             *)
HasOperand == ip + 1 < Len(code)
READ_BYTE == code[ip + 2]

(* pop(), the first of them, the second, ...                               *)
Holds(n) == sp >= n
Popped(i) == slots[sp - i]

(* An instruction of so many bytes that pops so many values and pushes one.*)
Push(value, pops, bytes) ==
  IF sp - pops < StackMax /\ value \in Ints
  THEN /\ slots' = [slots EXCEPT ![sp - pops] = value]
       /\ sp' = sp - pops + 1
       /\ ip' = ip + bytes
       /\ UNCHANGED <<result, output>>
  ELSE Undefined

constant ==
  /\ Decoded("CONSTANT")
  /\ IF HasOperand /\ READ_BYTE < Len(consts)
     THEN Push(consts[READ_BYTE + 1], 0, 2)
     ELSE Undefined

discard ==
  /\ Decoded("POP")
  /\ IF Holds(1)
     THEN sp' = sp - 1 /\ ip' = ip + 1 /\ UNCHANGED <<slots, result, output>>
     ELSE Undefined

getLocalInPlace ==
  /\ Decoded("GET_LOCAL")
  /\ IF HasOperand /\ READ_BYTE < StackMax THEN Push(slots[READ_BYTE], 0, 1) ELSE Undefined

(* Any slot can be read, also one above the top.                           *)
getLocal ==
  /\ Decoded("GET_LOCAL")
  /\ IF HasOperand /\ READ_BYTE < StackMax THEN Push(slots[READ_BYTE], 0, 2) ELSE Undefined

Truth(b) == IF b THEN 1 ELSE 0

Computed(op, l, r) ==
  CASE op = "ADD" -> l + r
    [] op = "SUBTRACT" -> l - r
    [] op = "EQUAL" -> Truth(l = r)
    [] op = "LESS" -> Truth(l < r)
    [] op = "LESS_EQ" -> Truth(l <= r)
    [] op = "GREATER" -> Truth(l > r)
    [] op = "GREATER_EQ" -> Truth(l >= r)

RightFirst(op) ==
  /\ Decoded(op)
  /\ IF Holds(2) THEN Push(Computed(op, Popped(2), Popped(1)), 2, 1) ELSE Undefined

(* pop() op pop(): C leaves the order of the two calls open, and the       *)
(* compiler of build.zig (clang) calls the left one first.                 *)
arithmetic(op) ==
  /\ Decoded(op)
  /\ IF Holds(2) THEN Push(Computed(op, Popped(1), Popped(2)), 2, 1) ELSE Undefined

(* The two bytes of a jump are read as one: the first is the distance, and *)
(* the second is where it is counted from.                                 *)
jump ==
  /\ Decoded("JUMP")
  /\ IF HasOperand
     THEN ip' = ip + 2 + READ_BYTE /\ UNCHANGED <<slots, sp, result, output>>
     ELSE Undefined

(* A jump that is not taken goes on with its own operand.                  *)
jumpIfZero ==
  /\ Decoded("JUMP_IF_ZERO")
  /\ IF Holds(1) /\ (Popped(1) # 0 \/ HasOperand)
     THEN /\ ip' = IF Popped(1) # 0 THEN ip + 1 ELSE ip + 2 + READ_BYTE
          /\ sp' = sp - 1
          /\ UNCHANGED <<slots, result, output>>
     ELSE Undefined

(* The target comes from the stack, not from the operand.                  *)
callValue ==
  /\ Decoded("CALL")
  /\ IF Holds(1) /\ ip + 1 + Popped(1) >= 0
     THEN /\ ip' = ip + 1 + Popped(1)
          /\ sp' = sp - 1
          /\ UNCHANGED <<slots, result, output>>
     ELSE Undefined

leave ==
  /\ Decoded("RETURN")
  /\ IF Holds(1)
     THEN /\ output' = Append(output, Popped(1))
          /\ sp' = sp - 1
          /\ ip' = ip + 1
          /\ result' = "INTERPRET_OK"
          /\ UNCHANGED slots
     ELSE Undefined

unknown ==
  /\ result = "running" /\ ip < Len(code)
  /\ \A op \in DOMAIN Opcode : code[ip + 1] # Opcode[op]
  /\ ip' = ip + 1
  /\ result' = "INTERPRET_RUNTIME_ERROR"
  /\ UNCHANGED <<slots, sp, output>>

endOfChunk ==
  /\ result = "running" /\ ip >= Len(code)
  /\ result' = "INTERPRET_OK"
  /\ UNCHANGED <<ip, slots, sp, output>>

operations == {"ADD", "SUBTRACT", "EQUAL", "LESS", "LESS_EQ", "GREATER", "GREATER_EQ"}

evaluate ==
  \/ constant \/ discard \/ getLocal
  \/ \E op \in operations : arithmetic(op)
  \/ jump \/ jumpIfZero \/ callValue \/ leave
  \/ unknown \/ endOfChunk
==============================================================================
